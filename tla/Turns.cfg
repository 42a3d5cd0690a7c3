SPECIFICATION FairSpec
CONSTANTS
    Scripts = {s1, s2}
    Helpers = {h1}
    NoThread = NoThread
    MaxEvents = 2
INVARIANTS
    TypeOK
    OneAtATime
    OwnResult
PROPERTIES
    TakesTurns
    GameGoesOn
    EveryCallReturns
\* A thread that was ticked before its first wait may freeze the game.
CHECK_DEADLOCK FALSE
