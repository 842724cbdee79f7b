SPECIFICATION Spec
CONSTANTS
    Ports = {"5555", "5556"}
    DEFAULT_ZMQ_RECV_PORT = "5555"
    DEFAULT_ZMQ_SEND_PORT = "5556"
    MaxMessages = 4
    MaxCommands = 2
    MaxErrors = 2
    MaxStarts = 3
INVARIANTS
    TypeOK
    StoppedIsClean
    SocketOutlivesReceiver
    NothingLost
    HandledInOrder
PROPERTIES
    ShutdownEnds
    MessagesAreHandled
CHECK_DEADLOCK FALSE
