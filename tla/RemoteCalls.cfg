SPECIFICATION Spec
CONSTANTS
    c1 = c1
    c2 = c2
    Clients = {c1, c2}
    RetryCount = 2
    Hwm = 3
    MaxOrders = 0
    MaxTickets = 0
    CsvMayFail = TRUE
PROPERTIES
    ImplementsRemoteCall
    PipeIsDrained
CHECK_DEADLOCK FALSE
