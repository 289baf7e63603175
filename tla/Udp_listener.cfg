SPECIFICATION FairSpec
CONSTANTS
    Addrs = {a1, a2}
    NoAddr = none
    MaxConns = 3
    ConnChanSize = 1
    MsgChanSize = 1
    Shutters = {s1}
INVARIANTS IInv RoutedIsServed InUseIsRouted
PROPERTIES LockGranted
CHECK_DEADLOCK FALSE
