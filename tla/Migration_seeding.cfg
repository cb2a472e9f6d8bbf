\* An exit while the default categories are being inserted.
CONSTANTS
    Null = Null
    TemplateId = {loan}
    DefaultCount = 3
    Counts = {2}
    Credits = {1}
    MaxEdits = 4
    MaxFaults = 3
SPECIFICATION Spec
INVARIANT SeededInFull
CHECK_DEADLOCK FALSE
