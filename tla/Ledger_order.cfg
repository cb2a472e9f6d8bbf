\* The order of the list when two accounts are created at once.
CONSTANTS
    Clients = {c1, c2}
    SeededTypes <- MCSeededTypes
    Amounts <- MCAmounts
    BookingDates <- MCBookingDates
    MaxWrites = 5
SPECIFICATION Spec
PROPERTY PlacedAfterAll
CHECK_DEADLOCK FALSE
