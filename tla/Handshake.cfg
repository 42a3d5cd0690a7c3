SPECIFICATION FairSpec
CONSTANTS
    Endpoint = {e1, e2}
    MaximumConnections = 1
    MaximumHandshakeAttempts = 2
    MaxConnects = 2
    MaxObjects = 3
    MaxWire = 2
INVARIANTS
    TypeOK
    SlotsRespected
    TablesMatch

    
    
\* Nobody connects any more when the calls of the bound are made.
CHECK_DEADLOCK FALSE
