SPECIFICATION FairSpec
CONSTANTS
    Addrs = {a1, a2}
    NoAddr = none
    MaxConns = 2
    ConnChanSize = 1
    MsgChanSize = 1
    Shutters = {s1}
PROPERTIES CloseCloses
CHECK_DEADLOCK FALSE
