SPECIFICATION Spec
CONSTANTS
    RequestIds = {1, 2, 3}
    Command <- DedupCommands
    MaxCopies = 2
    MaxTickets = 2
    MaxRecent = 2
    OrderRetryCount = 1
    EnableReconnect = TRUE
    SendMayFail = TRUE
    ConnectMayFail = FALSE
    TimeoutMayExecute = TRUE
    MayRestart = TRUE
INVARIANTS
    DedupWindow
    EveryRequestAnswered
PROPERTIES
    CommandsAreRead
