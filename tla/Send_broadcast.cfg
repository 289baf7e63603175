SPECIFICATION SharedSpec
CONSTANTS
    Client = FALSE
    ClientReconnectMax = 10
    MaxConns = 1
    BusyConns = 1
    Beaters = {}
    Users = {}
    UserOps = {}
    CloseDelays = {0}
    SocketConnectTime = 1
    SocketReplacedTime = 1
    HeartbeatStep = 2
    CallbackPanics = {}
    MayStop = FALSE
    Callers = {s1}
    SendOps = {}
    Msgs = {m1, m2}
    NoMsg = nil
    WriteChanSize = 1
INVARIANT SharedIsReadOnly
CHECK_DEADLOCK FALSE
