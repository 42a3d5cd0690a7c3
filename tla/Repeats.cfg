SPECIFICATION Spec
CONSTANTS
    Method = "ReliableSequenced"
    NumSequenceNumbers = 6
    WindowSize = 2
    Lifetime = 3
    MaxMessages = 2
INVARIANTS
    NoRepeats
\* Every message of the bound has got through: the channel is idle.
CHECK_DEADLOCK FALSE
