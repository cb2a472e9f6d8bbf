\* One template, three requests of the user, one failure or exit.
CONSTANTS
    rent = rent
    giro = giro
    Category = {rent}
    Account = {giro}
    MaxTemplates = 1
    Days <- MCOverviewDays
    UtcShifts <- MCOverviewShifts
    Requests <- MCOverviewRequests
    ExtraAmounts = {1}
    MaxEdits = 3
    MaxFaults = 1
SPECIFICATION OverviewSpec
INVARIANTS
    PageTypeOK
    PendingNotBooked
    ForecastComesTrue
    BookedTwiceOnlyIfSetBack
PROPERTY UntouchedIsKept
