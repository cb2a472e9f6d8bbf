\* Extra payments while a pass is under way.
CONSTANTS
    rent = rent
    giro = giro
    Category = {rent}
    Account = {giro}
    MaxTemplates = 2
    Days <- MCDays
    UtcShifts <- MCUtcShifts
    Requests <- MCRequests
    ExtraAmounts = {1, 5}
    MaxEdits = 3
    MaxFaults = 0
SPECIFICATION Spec
INVARIANT NeverOverpaid
