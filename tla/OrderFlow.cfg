SPECIFICATION FlowSpec
CONSTANTS
    RequestIds = {1, 2}
    Command <- FlowCommands
    MaxCopies = 1
    MaxTickets = 2
    MaxRecent = 1
    OrderRetryCount = 2
    EnableReconnect = TRUE
    SendMayFail = TRUE
    ConnectMayFail = TRUE
    TimeoutMayExecute = FALSE
    MayRestart = TRUE
    CsvMayFail = TRUE
INVARIANTS
    FlowTypeOK
    FillAfterOrder
PROPERTIES
    NoneGoesMissing
    ImplementsOrderService
    RequestsAreTold
