SPECIFICATION SendersSpec
CONSTANTS
    Client = FALSE
    ClientReconnectMax = 10
    MaxConns = 1
    BusyConns = 1
    Beaters = {}
    Users = {u1}
    UserOps = {"Authentication"}
    CloseDelays = {0}
    SocketConnectTime = 1
    SocketReplacedTime = 1
    HeartbeatStep = 2
    CallbackPanics = {}
    MayStop = FALSE
    Callers = {s1, s2}
    SendOps = {"Write"}
    Msgs = {m1, m2, m3}
    NoMsg = nil
    WriteChanSize = 1
INVARIANTS SendInv NoSharing
PROPERTY SenderFreed
CHECK_DEADLOCK FALSE
