SPECIFICATION FairSpec
CONSTANTS
    Method = "ReliableOrdered"
    NumSequenceNumbers = 6
    WindowSize = 2
    Lifetime = 3
    MaxMessages = 3
INVARIANTS
    TypeInv
    UnsentIsFlagged
PROPERTIES
    EveryMessageGetsThrough
\* Every message of the bound has got through: the channel is idle.
CHECK_DEADLOCK FALSE
