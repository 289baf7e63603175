SPECIFICATION Spec
CONSTANTS
    Links <- Zipped
    Modes = {"path", "code"}
    Bodies = {0, 1, 3}
    ZipLens = {1, 3, 5}
    Capacity = 3
    MaxDataSize = 5
    MaxSent = 2
INVARIANTS CutOnlyTooLong
CHECK_DEADLOCK FALSE
