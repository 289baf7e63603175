SPECIFICATION FairSpec
CONSTANTS
    Client = TRUE
    ClientReconnectMax = 10
    MaxConns = 2
    BusyConns = 1
    Beaters = {h1}
    Users = {u1}
    UserOps = {"Close", "Replaced", "Authentication"}
    CloseDelays = {0, 1}
    SocketConnectTime = 1
    SocketReplacedTime = 1
    HeartbeatStep = 1
    CallbackPanics = {"Connected"}
    MayStop = FALSE
INVARIANTS CountMatchesMap ConnsClosed
PROPERTIES CloseDisconnects OrphanDropped TeardownEnds
CHECK_DEADLOCK FALSE
