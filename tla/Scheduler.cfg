\* Two templates, three requests of the user, one failure or exit, fair passes.
CONSTANTS
    rent = rent
    giro = giro
    Category = {rent}
    Account = {giro}
    MaxTemplates = 2
    Days <- MCDays
    UtcShifts <- MCUtcShifts
    Requests <- MCRequests
    ExtraAmounts = {1, 5}
    MaxEdits = 3
    MaxFaults = 1
SPECIFICATION FairSpec
INVARIANTS
    TypeOK
    BookedOnce
    PlanConserved
    ActiveHasInstallments
    CreditBounded
    NothingDangles
    NeverBookedAhead
    InductiveInvariant
PROPERTIES
    OverdueIsBooked
    NoOccurrenceLost
    PlanContractKept
