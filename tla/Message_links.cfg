SPECIFICATION FairSpec
CONSTANTS
    Links <- Sound
    Modes = {"path", "code"}
    Bodies = {0, 1, 3}
    ZipLens = {1, 5}
    Capacity = 3
    MaxDataSize = 5
    MaxSent = 3
INVARIANTS IInv Intact OnceInOrder CutOnlyTooLong
PROPERTIES Arrives
CHECK_DEADLOCK FALSE
