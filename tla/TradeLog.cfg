SPECIFICATION Spec
CONSTANTS
    PeriodTypes = {"daily", "monthly"}
    YearLength = 2
    MaxDay = 2
    MaxRows = 3
    MaxFaults = 2
INVARIANTS
    TypeOK
    HeaderOnce
PROPERTIES
    LossIsBounded
    PeriodIsExact
CHECK_DEADLOCK FALSE
