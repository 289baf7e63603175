SPECIFICATION Spec
CONSTANTS
    Client = TRUE
    ClientReconnectMax = 10
    MaxConns = 2
    BusyConns = 2
    Beaters = {h1}
    Users = {}
    UserOps = {}
    CloseDelays = {0}
    SocketConnectTime = 1
    SocketReplacedTime = 1
    HeartbeatStep = 1
    CallbackPanics = {}
    MayStop = FALSE
INVARIANT OneWriter
CHECK_DEADLOCK FALSE
