SPECIFICATION NetFairSpec
CONSTANTS
    l1 = l1
    l2 = l2
    Listeners = {l1, l2}
    Networks <- Pairs
    Connectors = {c1}
    ConnectMaxSize = 1
    MaxIndex = 4
    MaxClosing = 2
    CallbackPanics = TRUE
    ConnChanSize = 1
INVARIANTS IInv CountBalance Overshoot ConnsAccounted
PROPERTIES  QueueServed
CHECK_DEADLOCK FALSE
