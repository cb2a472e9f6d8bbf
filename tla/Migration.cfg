\* Three exits and four writes of the user, from every older file.
CONSTANTS
    Null = Null
    TemplateId = {loan}
    DefaultCount = 3
    Counts = {2}
    Credits = {1}
    MaxEdits = 4
    MaxFaults = 3
SPECIFICATION FairSpec
INVARIANTS
    TypeOK
    ServesCompleteSchema
PROPERTIES
    MigrationKeepsRows
    DefaultsNeverMixIn
    ServesAgain
CHECK_DEADLOCK FALSE
