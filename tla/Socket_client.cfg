SPECIFICATION Spec
CONSTANTS
    Client = TRUE
    ClientReconnectMax = 10
    MaxConns = 2
    BusyConns = 2
    Beaters = {h1}
    Users = {}
    UserOps = {}
    CloseDelays = {0}
    SocketConnectTime = 1
    SocketReplacedTime = 1
    HeartbeatStep = 2
    CallbackPanics = {"Connected", "Disconnect", "Heartbeat"}
    MayStop = TRUE
INVARIANTS IInv CountMatchesMap OneOwner ConnsClosed
PROPERTY TokenSpec
CHECK_DEADLOCK FALSE
