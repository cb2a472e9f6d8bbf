\* Five requests of two clients at once.
CONSTANTS
    Clients = {c1, c2}
    SeededTypes <- MCSeededTypes
    Amounts <- MCAmounts
    BookingDates <- MCBookingDates
    MaxWrites = 5
SPECIFICATION Spec
INVARIANTS
    TypeOK
    ListedInOrderOfRequests
    AccountsAddUp
    MonthsAddUp
CHECK_DEADLOCK FALSE
