SPECIFICATION FairSpec
CONSTANTS
    Int32Max = 15
    Configs <- Chosen
INVARIANTS IInv GivesUpAtLimit
PROPERTIES BackoffGrows Returns CancelEnds
CHECK_DEADLOCK FALSE
