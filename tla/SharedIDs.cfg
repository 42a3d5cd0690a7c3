SPECIFICATION Spec
CONSTANTS
    Conn = {c1, c2, c3}
    TestPlayer = TestPlayer
    NoDriver = NoDriver
    MaxPlayers = 3
    MaxVehicles = 0
    MaxQueue = 0
    events = {"OnPlayerConnected", "OnPlayerDisconnected", "OnElementCreated"}
    HandlersThrow = FALSE
    Console = FALSE
INVARIANTS
    UniquePlayerIDs
