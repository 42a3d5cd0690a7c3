SPECIFICATION Spec
CONSTANTS
    Conn = {c1, c2}
    TestPlayer = TestPlayer
    NoDriver = NoDriver
    MaxPlayers = 2
    MaxVehicles = 2
    MaxQueue = 1
    events = {"OnPlayerConnected", "OnPlayerDisconnected", "OnElementCreated"}
    HandlersThrow = TRUE
    Console = TRUE
SYMMETRY Symmetry
INVARIANTS
    TypeOK
    VehicleIDsDense
    CurrentVehicleExists
    DriverWasSentVehicle
