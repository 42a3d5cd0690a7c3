SPECIFICATION FairSpec
CONSTANTS
    Types = {a, b}
    NoThread = NoThread
    Behaviours = {"waits", "fails", "draws badly", "aborts itself", "aborts others"}
    MaxRequests = 4
INVARIANTS
    OneTickedPerType
    
    
    
PROPERTIES
    CleanAbortEnds
\* The game may be terminated when no request is left to load it again.
CHECK_DEADLOCK FALSE
