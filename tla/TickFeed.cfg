SPECIFICATION Spec
CONSTANTS
    short_period = 2
    long_period = 3
    ma_max_spread = 10
    momentum = 3
    simple_max_spread = 5
    Lines <- MCLines
    MaxLines <- MCMaxLines
INVARIANTS
    TypeOK
PROPERTIES
    MaTradesAreReplayed
    SimpleTradesAreReplayed
    NoCrossingMissed
CHECK_DEADLOCK FALSE
