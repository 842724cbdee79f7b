SPECIFICATION Spec
CONSTANTS
    RequestIds = {1, 2, 3, 4}
    Command <- TradeCommands
    MaxCopies = 1
    MaxTickets = 2
    MaxRecent = 2
    OrderRetryCount = 1
    EnableReconnect = TRUE
    SendMayFail = FALSE
    ConnectMayFail = FALSE
    TimeoutMayExecute = FALSE
    MayRestart = FALSE
PROPERTIES
    FillsAreNoticed
