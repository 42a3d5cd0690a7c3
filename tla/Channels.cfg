SPECIFICATION Spec
CONSTANTS
    NumSequenceNumbers = 6
    WindowSize = 2
    Lifetime = 3
    MaxOrdered = 8
    MaxUnordered = 7
    MaxSequenced = 6
    MaxPositions = 3
    MaxUpdates = 7
INVARIANTS
    KeptUntilThrough
    NeverTooEarly
    StoredIsWindow
    NeverShut
PROPERTIES
    KeepsPromise
\* Every message of the bound has got through: the channel is idle.
CHECK_DEADLOCK FALSE
