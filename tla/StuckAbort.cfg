SPECIFICATION FairSpec
CONSTANTS
    Types = {a, b}
    NoThread = NoThread
    Behaviours = {"aborts itself"}
    MaxRequests = 3
PROPERTIES
    AbortedScriptsCanStart
\* The game may be terminated when no request is left to load it again.
CHECK_DEADLOCK FALSE
