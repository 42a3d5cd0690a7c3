SPECIFICATION Spec
CONSTANTS
    AskedMethod = "Unreliable"
    SequenceChannel = 1
    NumSequenceNumbers = 6
    WindowSize = 2
    Lifetime = 1
    MaxMessages = 6
    MaxReleased = 6
INVARIANTS
    OnlyLateDropped
\* Every message of the bound has got through: the channel is idle.
CHECK_DEADLOCK FALSE
