SPECIFICATION Spec
CONSTANTS
    c1 = c1
    c2 = c2
    Clients = {c1, c2}
    RetryCount = 2
    Hwm = 2
    MaxOrders = 1
    MaxTickets = 1
    CsvMayFail = TRUE
SYMMETRY Symmetry
INVARIANTS
    TypeOK
    RegistryExact
    AnswerIsOwn
    OncePerEvent
CHECK_DEADLOCK FALSE
