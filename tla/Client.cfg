SPECIFICATION FairSpec
CONSTANTS
    Players = {1}
    MaxConnects = 2
    MaxWire = 2
    MaxReleased = 2
INVARIANTS
    TypeOK
    
    
    NoGhosts
PROPERTIES
    EveryoneShown
\* The model goes no further than a crash of the script.
CHECK_DEADLOCK FALSE
