SPECIFICATION Spec
CONSTANTS
    Int32Max = 3
    Int64Max = 5
    Numerals <- Digits
    Words <- SomeWords
    Namespace <- DefaultNamespace
    Kinds = {"tcp", "socketio"}
    Requests <- Sent
    Routes <- Handled
    Panics <- Failing
    S2CConfirm <- Unset
    ChanSize = 1
    WireSize = 1
    MaxAsked <- Often
INVARIANTS IInv AnswersMatch AnswersInOrder
PROPERTIES Answered Unblocks
CHECK_DEADLOCK FALSE
