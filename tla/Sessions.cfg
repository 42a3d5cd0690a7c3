SPECIFICATION FairSpec
CONSTANTS
    Conn = {c1, c2, c3}
    TestPlayer = TestPlayer
    NoDriver = NoDriver
    MaxPlayers = 2
    MaxVehicles = 1
    MaxQueue = 1
    events = {"OnPlayerConnected", "OnPlayerDisconnected", "OnElementCreated"}
    HandlersThrow = FALSE
    Console = FALSE
INVARIANTS
    SessionMatchesLink
    UpdateHasPlayer
    CapacityRespected
    PlayerIDsBounded
    NoGhostTold
PROPERTIES
    DepartedDropped
    EveryoneWelcomed
