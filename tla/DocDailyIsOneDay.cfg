SPECIFICATION Spec
CONSTANTS
    PeriodTypes = {"daily", "monthly"}
    YearLength = 2
    MaxDay = 3
    MaxRows = 4
    MaxFaults = 0
INVARIANTS
    DailyIsOneDay
CHECK_DEADLOCK FALSE
