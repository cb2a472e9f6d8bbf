\* The dates a template goes through, up to 2104.
CONSTANTS
    FirstDueDates <- MCFirstDueDates
    Horizon <- MCHorizon
SPECIFICATION Spec
INVARIANTS
    TypeOK
    NoDriftBeforeThe29th
PROPERTIES
    WeeklyIsSevenDays
    LateByMissingDaysOnly
CHECK_DEADLOCK FALSE
