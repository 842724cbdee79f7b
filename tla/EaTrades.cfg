SPECIFICATION Spec
CONSTANTS
    RequestIds = {1, 2, 3, 4}
    Command <- TradeCommands
    MaxCopies = 1
    MaxTickets = 2
    MaxRecent = 2
    OrderRetryCount = 2
    EnableReconnect = TRUE
    SendMayFail = TRUE
    ConnectMayFail = TRUE
    TimeoutMayExecute = FALSE
    MayRestart = TRUE
INVARIANTS
    TypeOK
    RepliesAreTrue
    NoticesAreSound
