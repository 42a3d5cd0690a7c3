----------------------------- MODULE GameServer -----------------------------
(***************************************************************************)
(* The game server of IV:MP: server/core/Server.cs with the players and    *)
(* vehicles it keeps.                                                      *)
(*                                                                         *)
(* Three threads act on this state, and their steps interleave:            *)
(*                                                                         *)
(*   - the network thread of Lidgren walks each connection through its     *)
(*     handshake and puts what it has to say into one FIFO of released     *)
(*     messages (`queue').  A connection counts against the limit of       *)
(*     connections from the first datagram until the handshake is denied   *)
(*     or the connection is gone;                                          *)
(*   - the tick, a timer callback, empties that FIFO one message at a time *)
(*     and then streams players and vehicles to every connection.  An      *)
(*     exception in a handler is swallowed by the timer: the message is    *)
(*     gone and the REST OF THE TICK is lost, the streaming with it;       *)
(*   - the console adds and removes a "test player" that has no            *)
(*     connection and mirrors whichever player last sent an update.        *)
(*                                                                         *)
(* Abstractions.  A handler is one step of the tick: what two threads can  *)
(* do inside one (two ticks at once, the console changing the list during  *)
(* an enumeration) is not modelled here.  Positions, names and the like    *)
(* are left out; an update says only which vehicle its player is in.  The  *)
(* status changes the server's switch ignores are not queued.  A message   *)
(* to a client is represented by what the client has been told: see the    *)
(* variables told, streamed and welcomed.                                  *)
(***************************************************************************)
EXTENDS ElementList, FiniteSets

CONSTANTS
    Conn,           \* NetConnection objects, one per connection attempt
    TestPlayer,     \* the Player object made by the console
    NoDriver,       \* the null of Vehicle.Driver
    MaxPlayers,     \* <config><maxplayers>, Lidgren's MaximumConnections
    MaxVehicles,    \* bound: vehicles that scripts create
    MaxQueue,       \* bound: no update arrives while this many messages wait
    events,         \* the events that scripts registered by naming them
    HandlersThrow,  \* whether script handlers may throw
    Console         \* whether the console commands are used

ASSUME ConnAssumption == TestPlayer \notin Conn /\ NoDriver \notin Conn \cup {TestPlayer}
ASSUME BoundAssumption == MaxPlayers \in Nat /\ MaxVehicles \in Nat /\ MaxQueue \in Nat
ASSUME EventsAssumption ==
    events \subseteq {"OnPlayerConnected", "OnPlayerDisconnected", "OnElementCreated"}
ASSUME SwitchAssumption == HandlersThrow \in BOOLEAN /\ Console \in BOOLEAN

\* Player objects: one per connection, and the test player.
Player == Conn \cup {TestPlayer}

\* Shared.Settings.NetworkVersion, and the versions clients come with.
NetworkVersion == 3
Versions == {2, 3}

\* The status of a connection as its network thread sees it.  "Denied" is a
\* connection Deny() took out of the handshakes, whose status stays as it was.
Status == {"None", "RespondedAwaitingApproval", "RespondedConnect",
           "Connected", "Denied", "Disconnected"}

\* The messages in the FIFO.
Approval(c, version) == [type |-> "ConnectionApproval", conn |-> c, version |-> version]
Changed(c, status) == [type |-> "StatusChanged", conn |-> c, status |-> status]
Update(c, vehicle) == [type |-> "Data", conn |-> c, vehicle |-> vehicle]

Message == [type : {"ConnectionApproval"}, conn : Conn, version : Versions]
      \cup [type : {"StatusChanged"}, conn : Conn, status : {"Connected", "Disconnected"}]
      \cup [type : {"Data"}, conn : Conn, vehicle : Nat]

VARIABLES
    link,           \* status of each connection
    queue,          \* m_releasedIncomingMessages
    tick,           \* where the timer callback is
    Players,        \* PlayersController.Players
    ID,             \* Player.ID of each player object
    CurrentVehicle, \* Player.CurrentVehicle of each player object
    testing,        \* Server.TestPlayer != null
    console,        \* what the console command under way has left to do
    Vehicles,       \* the IDs in VehiclesController.Vehicles
    Driver,         \* Vehicle.Driver of the vehicle at each list position
    told,           \* IDs each connection was told of, and not told they left
    streamed,       \* IDs of the vehicles each connection was sent
    welcomed        \* connections the resources were sent to

netVars == <<link, queue>>
playerVars == <<Players, ID>>
testVars == <<testing, console>>
vehicleVars == <<Vehicles, Driver>>
clientVars == <<told, streamed, welcomed>>
vars == <<link, queue, tick, Players, ID, CurrentVehicle, testing, console,
          Vehicles, Driver, told, streamed, welcomed>>

-----------------------------------------------------------------------------
\* Lookups and changes of the two lists.

PlayerIDs == [i \in DOMAIN Players |-> ID[Players[i]]]
Registered == Elements(Players)

\* The list position VehiclesController.GetByID finds; Exists is FALSE when it
\* returns null.
Exists(id) == \E i \in DOMAIN Vehicles : Vehicles[i] = id
\* Faulty variant: FindLast for Find, with a predicate that is always true.
AtLast(id) == Len(Vehicles)

At(id) == CHOOSE i \in DOMAIN Vehicles :
              Vehicles[i] = id /\ \A j \in DOMAIN Vehicles : Vehicles[j] = id => i <= j

\* NetServer.Connections, and the slots that reservedSlots counts.
Connections == {c \in Conn : link[c] = "Connected"}
\* Faulty variant: connections in their handshake are not counted.
AcceptedSlots == Connections
Slots == {c \in Conn : link[c] \in {"RespondedAwaitingApproval", "RespondedConnect", "Connected"}}

\* SendToAll: the connections in `to' are told that the players `ids' exist,
\* or that a player has left.
Tell(to, ids) == told' = [c \in Conn |-> IF c \in to THEN told[c] \cup ids ELSE told[c]]
\* Faulty variant: the departure is not sent.
TellNobody(to, id) == UNCHANGED told
TellGone(to, id) == told' = [c \in Conn |-> IF c \in to THEN told[c] \ {id} ELSE told[c]]

-----------------------------------------------------------------------------
Init ==
    /\ link = [c \in Conn |-> "None"]
    /\ queue = <<>>
    /\ tick = "idle"
    /\ Players = <<>>
    /\ ID = [p \in Player |-> 0]
    /\ CurrentVehicle = [p \in Player |-> 0]
    /\ testing = FALSE
    /\ console = "prompt"
    /\ \E n \in 0 .. MaxVehicles :
           /\ n > 0 => "OnElementCreated" \in events
           /\ Vehicles = [i \in 1 .. n |-> i]
    /\ Driver = [i \in 1 .. MaxVehicles |-> NoDriver]
    /\ told = [c \in Conn |-> {}]
    /\ streamed = [c \in Conn |-> {}]
    /\ welcomed = {}

-----------------------------------------------------------------------------
\* The network thread.

\* Faulty variant: the newest message is read first.
ReleaseFirst(msg) == queue' = <<msg>> \o queue
Release(msg) == queue' = Append(queue, msg)

\* A NetConnection object nothing refers to any more stands for a new one.
Fresh(c) ==
    /\ link[c] \in {"None", "Denied", "Disconnected"}
    /\ c \notin Registered
    /\ \A i \in DOMAIN queue : queue[i].conn # c
    /\ \A i \in DOMAIN Driver : Driver[i] # c

\* A Connect from an unknown endpoint, when there is a slot left: the handshake
\* starts and the server is asked to approve it.
ReceiveConnect(c, version) ==
    /\ Fresh(c)
    /\ Cardinality(Slots) < MaxPlayers
    /\ link' = [link EXCEPT ![c] = "RespondedAwaitingApproval"]
    /\ Release(Approval(c, version))
    /\ UNCHANGED <<tick, playerVars, CurrentVehicle, testVars, vehicleVars, clientVars>>

\* The client's ConnectionEstablished: it is accepted into m_connections.
ReceiveConnectionEstablished(c) ==
    /\ link[c] = "RespondedConnect"
    /\ link' = [link EXCEPT ![c] = "Connected"]
    /\ Release(Changed(c, "Connected"))
    /\ UNCHANGED <<tick, playerVars, CurrentVehicle, testVars, vehicleVars, clientVars>>

\* ExecuteDisconnect, on a client's Disconnect, on a timeout and when the
\* handshake runs out of attempts.  It announces Disconnected for a connection
\* still in its handshake too, which never was Connected.  What the client was
\* told ends with the connection.
ExecuteDisconnect(c) ==
    /\ c \in Slots
    /\ link' = [link EXCEPT ![c] = "Disconnected"]
    /\ Release(Changed(c, "Disconnected"))
    /\ told' = [told EXCEPT ![c] = {}]
    /\ streamed' = [streamed EXCEPT ![c] = {}]
    /\ welcomed' = welcomed \ {c}
    /\ UNCHANGED <<tick, playerVars, CurrentVehicle, testVars, vehicleVars>>

\* A player update from a connected client, in vehicle v or (v = 0) on foot.
\* A client reports only vehicles it has been sent.
ReceiveUpdate(c, v) ==
    /\ link[c] = "Connected"
    /\ Len(queue) < MaxQueue
    /\ v \in {0} \cup streamed[c]
    /\ Release(Update(c, v))
    /\ UNCHANGED <<link, tick, playerVars, CurrentVehicle, testVars, vehicleVars, clientVars>>

-----------------------------------------------------------------------------
\* Script handlers.

\* The new vehicle goes to the end of the list with the ID that scan gives it.
AddVehicle ==
    /\ "OnElementCreated" \in events
    /\ Len(Vehicles) < MaxVehicles
    /\ Vehicles' = Append(Vehicles, FreeID(Vehicles))

\* GetEvent(name).Trigger(...): `ok' is FALSE when an exception leaves it,
\* because no script registered the event or because a handler threw.  The
\* handlers may have created a vehicle before that.
Trigger(name, ok) ==
    /\ ok => name \in events
    /\ ~ok => name \notin events \/ HandlersThrow
    /\ \/ UNCHANGED Vehicles
       \/ name \in events /\ AddVehicle

-----------------------------------------------------------------------------
\* The tick.

Elapsed ==
    /\ tick = "idle"
    /\ tick' = "reading"
    /\ UNCHANGED <<netVars, playerVars, CurrentVehicle, testVars, vehicleVars, clientVars>>

\* ReadMessage returned msg; the handler of it ends well or with an exception.
Read(msg) ==
    /\ tick = "reading"
    /\ queue # <<>>
    /\ msg = Head(queue)
    /\ queue' = Tail(queue)
\* Faulty variant: the first exception ends the timer.
DoneForGood(ok) == tick' = IF ok THEN "reading" ELSE "dead"
Done(ok) == tick' = IF ok THEN "reading" ELSE "idle"

\* ConnectionApproval.  Approve() does nothing to a connection that has left
\* its handshake meanwhile, and neither does Deny().
HandleApproval(c, version) ==
    /\ Read(Approval(c, version))
    /\ link' = IF link[c] # "RespondedAwaitingApproval" THEN link
               ELSE [link EXCEPT ![c] = IF version = NetworkVersion THEN "RespondedConnect" ELSE "Denied"]
    /\ Done(TRUE)
    /\ UNCHANGED <<playerVars, CurrentVehicle, testVars, vehicleVars, clientVars>>

\* The connections that the client files of the resources reach.
\* Faulty variant: they are sent to the others, as the announcement is.
SendResourcesToOthers(c) == Connections \ {c}
SendResources(c) == {c} \cap Connections

\* StatusChanged to Connected: a new player, announced to the others; then the
\* script event, and only after it the resources.
HandleConnected(c, ok) ==
    /\ Read(Changed(c, "Connected"))
    /\ ID' = [ID EXCEPT ![c] = FreeID(PlayerIDs)]
    /\ Players' = Append(Players, c)
    /\ Tell(Connections \ {c}, {FreeID(PlayerIDs)})
    /\ Trigger("OnPlayerConnected", ok)
    /\ welcomed' = IF ok THEN welcomed \cup SendResources(c) ELSE welcomed
    /\ Done(ok)
    /\ UNCHANGED <<link, CurrentVehicle, testVars, Driver, streamed>>

\* StatusChanged to Disconnected: the player is dropped and the others are told.
\* The driver of the vehicle the player was in stays as it is.  The object is
\* garbage then: its fields are those of the next new Player().
HandleDisconnected(c, ok) ==
    /\ Read(Changed(c, "Disconnected"))
    /\ c \in Registered
    /\ Players' = Without(Players, c)
    /\ ID' = [ID EXCEPT ![c] = 0]
    /\ CurrentVehicle' = [CurrentVehicle EXCEPT ![c] = 0]
    /\ TellGone(Connections \ {c}, ID[c])
    /\ Trigger("OnPlayerDisconnected", ok)
    /\ Done(ok)
    /\ UNCHANGED <<link, testVars, Driver, streamed, welcomed>>

\* The same for a connection that never was Connected: there is no player, and
\* reading the ID of null ends the tick.
HandleDisconnectedStranger(c) ==
    /\ Read(Changed(c, "Disconnected"))
    /\ c \notin Registered
    /\ Done(FALSE)
    /\ UNCHANGED <<link, playerVars, CurrentVehicle, testVars, vehicleVars, clientVars>>

\* Faulty variant: the vehicle is recorded before GetByID has found it.
MovedUnseen(s, p, v) ==
    [s EXCEPT !.inside[p] = v, !.fine = v = 0 \/ Exists(v)]

\* What an update that puts player p in vehicle v does to the drivers and to
\* the players' vehicles: p becomes the driver of v, whatever its seat, and a
\* player that now walks leaves its vehicle without a driver, whoever drove
\* it.  A vehicle that GetByID does not find ends the tick.
Moved(s, p, v) ==
    LET vehicle == IF v > 0 THEN v ELSE s.inside[p]
    IN  IF s.fine /\ vehicle > 0 /\ Exists(vehicle)
        THEN [driver |-> [s.driver EXCEPT ![At(vehicle)] = IF v > 0 THEN p ELSE NoDriver],
              inside |-> [s.inside EXCEPT ![p] = v],
              fine |-> TRUE]
        ELSE [s EXCEPT !.fine = s.fine /\ vehicle = 0]

\* The vehicle the test player mirrors for a player in vehicle v.
Mirrored(v) == IF v = 1 THEN 2 ELSE v

\* Data with an UpdatePlayer: the sender's player is moved, then the test
\* player.  An update from a sender without a player ends the tick.
HandleUpdate(c, v) ==
    /\ Read(Update(c, v))
    /\ LET before == [driver |-> Driver, inside |-> CurrentVehicle, fine |-> c \in Registered]
           own == Moved(before, c, v)
           after == IF testing THEN Moved(own, TestPlayer, Mirrored(v)) ELSE own
       IN  /\ Driver' = after.driver
           /\ CurrentVehicle' = after.inside
           /\ Done(after.fine)
    /\ UNCHANGED <<link, playerVars, testVars, Vehicles, clientVars>>

\* The FIFO is empty: every player is streamed to all connections but its own.
UpdateAllPlayers ==
    /\ tick = "reading"
    /\ queue = <<>>
    /\ told' = [c \in Conn |-> IF c \in Connections
                               THEN told[c] \cup {ID[p] : p \in Registered \ {c}}
                               ELSE told[c]]
    /\ tick' = "streaming"
    /\ UNCHANGED <<netVars, playerVars, CurrentVehicle, testVars, vehicleVars,
                   streamed, welcomed>>

\* Then every vehicle, to all connections but its driver's.
UpdateAllVehicles ==
    /\ tick = "streaming"
    /\ streamed' = [c \in Conn |->
           IF c \in Connections
           THEN streamed[c] \cup {Vehicles[i] : i \in {j \in DOMAIN Vehicles : Driver[j] # c}}
           ELSE streamed[c]]
    /\ tick' = "idle"
    /\ UNCHANGED <<netVars, playerVars, CurrentVehicle, testVars, vehicleVars,
                   told, welcomed>>

-----------------------------------------------------------------------------
\* The console thread.  A command is not one step: the tick may run between
\* the moment TestPlayer is set or announced gone and the moment the list of
\* players changes.

CreateTestPlayer ==
    /\ Console
    /\ console = "prompt" /\ ~testing
    /\ testing' = TRUE
    /\ console' = "add"
    /\ UNCHANGED <<netVars, tick, playerVars, CurrentVehicle, vehicleVars, clientVars>>

AddTestPlayer ==
    /\ console = "add"
    /\ ID' = [ID EXCEPT ![TestPlayer] = FreeID(PlayerIDs)]
    /\ Players' = Append(Players, TestPlayer)
    /\ console' = "prompt"
    /\ UNCHANGED <<netVars, tick, CurrentVehicle, testing, vehicleVars, clientVars>>

RemoveTestPlayer ==
    /\ console = "prompt" /\ testing
    /\ TellGone(Connections, ID[TestPlayer])
    /\ console' = "remove"
    /\ UNCHANGED <<netVars, tick, playerVars, CurrentVehicle, testing, vehicleVars,
                   streamed, welcomed>>

DropTestPlayer ==
    /\ console = "remove"
    /\ Players' = Without(Players, TestPlayer)
    /\ console' = "clear"
    /\ UNCHANGED <<netVars, tick, ID, CurrentVehicle, testing, vehicleVars, clientVars>>

ClearTestPlayer ==
    /\ console = "clear"
    /\ testing' = FALSE
    /\ ID' = [ID EXCEPT ![TestPlayer] = 0]
    /\ CurrentVehicle' = [CurrentVehicle EXCEPT ![TestPlayer] = 0]
    /\ console' = "prompt"
    /\ UNCHANGED <<netVars, tick, Players, vehicleVars, clientVars>>

-----------------------------------------------------------------------------
Network ==
    \E c \in Conn :
        \/ \E version \in Versions : ReceiveConnect(c, version)
        \/ ReceiveConnectionEstablished(c)
        \/ ExecuteDisconnect(c)
        \/ \E v \in {0} \cup streamed[c] : ReceiveUpdate(c, v)

OnTick ==
    \/ Elapsed
    \/ \E c \in Conn :
         \/ \E version \in Versions : HandleApproval(c, version)
         \/ \E ok \in BOOLEAN : HandleConnected(c, ok) \/ HandleDisconnected(c, ok)
         \/ HandleDisconnectedStranger(c)
         \/ \E v \in 0 .. MaxVehicles : HandleUpdate(c, v)
    \/ UpdateAllPlayers
    \/ UpdateAllVehicles

Command == AddTestPlayer \/ DropTestPlayer \/ ClearTestPlayer

Next == Network \/ OnTick \/ CreateTestPlayer \/ RemoveTestPlayer \/ Command

\* The timer keeps firing and its callback keeps running; a console command
\* once started ends.  Nothing obliges clients or the operator to do anything.
Spec == Init /\ [][Next]_vars
FairSpec == Spec /\ WF_vars(OnTick) /\ WF_vars(Command)

-----------------------------------------------------------------------------
\* The state stays within its types: see the comments of the variables.
TypeOK ==
    /\ link \in [Conn -> Status]
    /\ queue \in Seq(Message)
    /\ tick \in {"idle", "reading", "streaming"}
    /\ Players \in Seq(Player)
    /\ ID \in [Player -> Nat]
    /\ CurrentVehicle \in [Player -> Nat]
    /\ testing \in BOOLEAN
    /\ console \in {"prompt", "add", "remove", "clear"}
    /\ Vehicles \in Seq(Nat) /\ Len(Vehicles) <= MaxVehicles
    /\ Driver \in [1 .. MaxVehicles -> Player \cup {NoDriver}]
    /\ told \in [Conn -> SUBSET Nat]
    /\ streamed \in [Conn -> SUBSET Nat]
    /\ welcomed \subseteq Conn

\* A change of c's status that the tick has still to handle.
Pending(c, status) == \E i \in DOMAIN queue : queue[i] = Changed(c, status)

\* The players are those of the connections, up to the messages that wait: a
\* live connection has a player unless its Connected waits, a dead one has
\* one only while its Disconnected waits, and one in its handshake has none.
\* Aborted handshakes and ticks lost to exceptions do not upset this.
SessionMatchesLink ==
    \A c \in Conn :
        /\ link[c] = "Connected" => (c \in Registered <=> ~Pending(c, "Connected"))
        /\ link[c] = "Disconnected" /\ c \in Registered => Pending(c, "Disconnected")
        /\ link[c] \notin {"Connected", "Disconnected"} => c \notin Registered

\* The handler of an update always finds the player of its sender, so reading
\* an update never ends the tick at Player.Name = ...
UpdateHasPlayer ==
    queue # <<>> /\ Head(queue).type = "Data" => Head(queue).conn \in Registered

\* The list holds each player object once, the test player's only when there
\* is one: Remove leaves nothing of a player behind.
OneEntryPerPlayer ==
    /\ Distinct(Players)
    /\ TestPlayer \in Registered => testing

\* Vehicle IDs are the list positions, although Add scans an unsorted list,
\* because no vehicle ever leaves the list.
VehicleIDsDense == Dense(Vehicles)

\* The vehicle a player is recorded in exists: the lookups of a player who
\* leaves a vehicle (Vehicle.Driver = null) find one.
CurrentVehicleExists ==
    \A p \in Player : CurrentVehicle[p] > 0 => Exists(CurrentVehicle[p])

\* The server withholds the stream of a vehicle only from a client that has
\* been sent the vehicle, so no client is kept from learning that it exists.
DriverWasSentVehicle ==
    \A i \in DOMAIN Vehicles :
        Driver[i] \in Connections => Vehicles[i] \in streamed[Driver[i]]

\* There are never more players of connections than MaxPlayers, although
\* Lidgren frees the slot of a connection before the tick drops its player:
\* the next connection's approval waits behind the Disconnected.
CapacityRespected == Cardinality(Registered \ {TestPlayer}) <= MaxPlayers

\* The IDs of players stay within 1 .. MaxPlayers + 1 (one for the test
\* player), however many come and go.
PlayerIDsBounded == \A p \in Registered : ID[p] \in 1 .. MaxPlayers + 1

\* Going by what the server sends, and in that order, a live client knows only
\* players that exist: no departure is left unsaid, and no player is streamed
\* after its departure was announced.  (Without the console: RemoveTestPlayer
\* announces the departure before the player leaves the list.)
NoGhostTold ==
    \A c \in Connections : told[c] \subseteq {ID[p] : p \in Registered}

\* Two players never share an ID: what the name FreeID says of the ID that
\* PlayersController.Add finds.
UniquePlayerIDs ==
    \A p, q \in Registered : ID[p] = ID[q] => p = q

\* The player of a connection that is gone is dropped, even if every tick on
\* the way there ends in an exception.
DepartedDropped ==
    \A c \in Conn : link[c] = "Disconnected" ~> c \notin Registered

\* Every connection is sent the resources or goes away, when the script event
\* for it exists and handlers do not throw.
EveryoneWelcomed ==
    \A c \in Conn :
        link[c] = "Connected" /\ "OnPlayerConnected" \in events
            ~> c \in welcomed \/ link[c] # "Connected"
=============================================================================
