CONSTANTS
    FirstDueDates <- MCFirstDueDates
    Horizon <- MCShortHorizon
SPECIFICATION Spec
PROPERTY MonthlyIsDueEveryMonth
CHECK_DEADLOCK FALSE
