-------------------------- MODULE GameServerProofs --------------------------
(***************************************************************************)
(* Proofs about GameServer for every set of connections, every number of   *)
(* players and vehicles and every behaviour of the scripts, in four        *)
(* parts:                                                                  *)
(*                                                                         *)
(* - the types;                                                            *)
(* - the sessions: the players are those of the connections                *)
(*   (SessionMatchesLink), and the handler of an update finds its player   *)
(*   (UpdateHasPlayer), because of the order in which the FIFO holds the   *)
(*   messages of each connection;                                          *)
(* - the slots: there are never more players than slots                    *)
(*   (CapacityRespected), and so their IDs stay low (PlayerIDsBounded);    *)
(* - the stream: vehicle IDs are list positions (VehicleIDsDense),         *)
(*   recorded vehicles exist (CurrentVehicleExists), a vehicle is withheld *)
(*   only from a driver that knows it (DriverWasSentVehicle), and no       *)
(*   client believes in a player that left (NoGhostTold).                  *)
(***************************************************************************)
EXTENDS GameServerInv, ElementListProofs, FiniteSetTheorems

USE DEF netVars, playerVars, testVars, vehicleVars, clientVars

-----------------------------------------------------------------------------
\* Type correctness.

LEMMA FreeIDTypes ==
    ASSUME TypeOK
    PROVE  /\ PlayerIDs \in Seq(Nat)
           /\ Len(PlayerIDs) = Len(Players)
           /\ FreeID(PlayerIDs) \in Nat
           /\ FreeID(Vehicles) \in Nat
<1>1. PlayerIDs \in Seq(Nat) /\ Len(PlayerIDs) = Len(Players)
  BY DEF TypeOK, PlayerIDs
<1>2. Len(PlayerIDs) \in Nat /\ Vehicles \in Seq(Nat) /\ Len(Vehicles) \in Nat
  BY <1>1 DEF TypeOK
<1> QED
  BY <1>1, <1>2, FreeIDBounded

\* GetByID returns a vehicle of the list with that ID.
LEMMA AtFinds ==
    ASSUME TypeOK, NEW id \in Nat, Exists(id)
    PROVE  At(id) \in DOMAIN Vehicles /\ Vehicles[At(id)] = id /\ At(id) \in 1 .. MaxVehicles
<1> DEFINE Found == {i \in DOMAIN Vehicles : Vehicles[i] = id}
<1>1. Len(Vehicles) \in Nat /\ DOMAIN Vehicles = 1 .. Len(Vehicles) /\ Len(Vehicles) <= MaxVehicles
  BY DEF TypeOK
<1>2. Found \in SUBSET Nat /\ Found # {}
  BY <1>1 DEF Exists
<1>3. \E i \in Found : \A j \in Found : i <= j
  BY <1>2, LeastElement
<1>4. At(id) \in DOMAIN Vehicles /\ Vehicles[At(id)] = id
  BY <1>3 DEF At
<1> QED
  BY <1>1, <1>4, BoundAssumption

Drivers == [1 .. MaxVehicles -> Player \cup {NoDriver}]
Seating == [driver : Drivers, inside : [Player -> Nat], fine : BOOLEAN]

\* Moving a player touches only the driver of the vehicle it is in or leaves,
\* and only its own recorded vehicle.
LEMMA MovedEffects ==
    ASSUME TypeOK, NEW v \in Nat, NEW p \in Player, NEW s \in Seating
    PROVE  /\ Moved(s, p, v) \in Seating
           /\ \A i \in 1 .. MaxVehicles :
                \/ Moved(s, p, v).driver[i] \in {s.driver[i], NoDriver}
                \/ Moved(s, p, v).driver[i] = p /\ Vehicles[i] = v /\ i \in DOMAIN Vehicles
           /\ \A q \in Player :
                \/ Moved(s, p, v).inside[q] \in {s.inside[q], 0}
                \/ Exists(Moved(s, p, v).inside[q])
<1> DEFINE id == IF v > 0 THEN v ELSE s.inside[p]
<1>1. id \in Nat
  BY DEF Seating
<1>2. CASE ~(s.fine /\ id > 0 /\ Exists(id))
  <2>1. Moved(s, p, v) = [s EXCEPT !.fine = s.fine /\ id = 0]
    BY <1>2 DEF Moved
  <2> QED
    BY <2>1 DEF Seating
<1>3. CASE s.fine /\ id > 0 /\ Exists(id)
  <2> DEFINE d == [s.driver EXCEPT ![At(id)] = IF v > 0 THEN p ELSE NoDriver]
             n == [s.inside EXCEPT ![p] = v]
  <2>1. Moved(s, p, v) = [driver |-> d, inside |-> n, fine |-> TRUE]
    BY <1>3 DEF Moved
  <2>2. At(id) \in 1 .. MaxVehicles /\ At(id) \in DOMAIN Vehicles /\ Vehicles[At(id)] = id
    BY <1>1, <1>3, AtFinds
  <2>3. d \in Drivers /\ n \in [Player -> Nat]
    BY <2>2 DEF Drivers, Seating
  <2>4. \A i \in 1 .. MaxVehicles :
           d[i] \in {s.driver[i], NoDriver} \/ (d[i] = p /\ Vehicles[i] = v /\ i \in DOMAIN Vehicles)
    BY <2>2 DEF Drivers, Seating
  <2>5. \A q \in Player : n[q] \in {s.inside[q], 0} \/ Exists(n[q])
    BY <1>3 DEF Seating
  <2> HIDE DEF d, n
  <2> QED
    BY <2>1, <2>3, <2>4, <2>5 DEF Seating
<1> QED
  BY <1>2, <1>3

\* One update touches only these drivers and these recorded vehicles, of its
\* own player and of the test player.
LEMMA UpdateEffects ==
    ASSUME TypeOK, NEW c \in Conn, NEW v \in Nat, HandleUpdate(c, v)
    PROVE  /\ Driver' \in Drivers
           /\ CurrentVehicle' \in [Player -> Nat]
           /\ \A i \in 1 .. MaxVehicles :
                \/ Driver'[i] \in {Driver[i], TestPlayer, NoDriver}
                \/ Driver'[i] = c /\ Vehicles[i] = v /\ i \in DOMAIN Vehicles
           /\ \A p \in Player :
                \/ CurrentVehicle'[p] \in {CurrentVehicle[p], 0}
                \/ Exists(CurrentVehicle'[p])
           /\ tick' \in {"reading", "idle"}
<1> DEFINE before == [driver |-> Driver, inside |-> CurrentVehicle, fine |-> c \in Registered]
           own == Moved(before, c, v)
           mirror == Moved(own, TestPlayer, Mirrored(v))
           after == IF testing THEN mirror ELSE own
<1>1. c \in Player /\ TestPlayer \in Player /\ Mirrored(v) \in Nat
  BY DEF Player, Mirrored
<1>2. before \in Seating
  BY DEF TypeOK, Drivers, Seating
<1>3. Driver' = after.driver /\ CurrentVehicle' = after.inside /\ Done(after.fine)
  BY DEF HandleUpdate
<1>4. before.driver = Driver /\ before.inside = CurrentVehicle
  OBVIOUS
<1> HIDE DEF before
<1>5. /\ own \in Seating
      /\ \A i \in 1 .. MaxVehicles :
           own.driver[i] \in {Driver[i], NoDriver} \/ (own.driver[i] = c /\ Vehicles[i] = v /\ i \in DOMAIN Vehicles)
      /\ \A p \in Player : own.inside[p] \in {CurrentVehicle[p], 0} \/ Exists(own.inside[p])
  BY <1>1, <1>2, <1>4, MovedEffects
<1> HIDE DEF own
<1>6. /\ mirror \in Seating
      /\ \A i \in 1 .. MaxVehicles : mirror.driver[i] \in {own.driver[i], NoDriver, TestPlayer}
      /\ \A p \in Player : mirror.inside[p] \in {own.inside[p], 0} \/ Exists(mirror.inside[p])
  BY <1>1, <1>5, MovedEffects
<1> HIDE DEF mirror
<1>7. after \in {own, mirror}
  OBVIOUS
<1> HIDE DEF after
<1>8. /\ after \in Seating
      /\ \A i \in 1 .. MaxVehicles :
           after.driver[i] \in {Driver[i], TestPlayer, NoDriver} \/ (after.driver[i] = c /\ Vehicles[i] = v /\ i \in DOMAIN Vehicles)
      /\ \A p \in Player : after.inside[p] \in {CurrentVehicle[p], 0} \/ Exists(after.inside[p])
  <2>1. CASE after = own
    BY <1>5, <2>1
  <2>2. CASE after = mirror
    BY <1>5, <1>6, <2>2
  <2> QED
    BY <1>7, <2>1, <2>2
<1>9. Driver' \in Drivers /\ CurrentVehicle' \in [Player -> Nat]
  BY <1>3, <1>8 DEF Seating
<1>10. tick' \in {"reading", "idle"}
  BY <1>3 DEF Done
<1> QED
  BY <1>3, <1>8, <1>9, <1>10

LEMMA TypeInit == Init => TypeOK
<1> SUFFICES ASSUME Init PROVE TypeOK
  OBVIOUS
<1>1. Vehicles \in Seq(Nat) /\ Len(Vehicles) <= MaxVehicles
  BY BoundAssumption DEF Init
<1>2. link \in [Conn -> Status] /\ ID \in [Player -> Nat] /\ CurrentVehicle \in [Player -> Nat]
  BY DEF Init, Status
<1>3. Driver \in [1 .. MaxVehicles -> Player \cup {NoDriver}]
  BY DEF Init
<1>4. told \in [Conn -> SUBSET Nat] /\ streamed \in [Conn -> SUBSET Nat] /\ welcomed \subseteq Conn
  BY DEF Init
<1>5. queue \in Seq(Message) /\ Players \in Seq(Player)
  BY DEF Init
<1> QED
  BY <1>1, <1>2, <1>3, <1>4, <1>5 DEF Init, TypeOK

\* Messages and lists keep their types when one is appended or taken off.
LEMMA ReadTypes ==
    ASSUME TypeOK, NEW msg \in Message, Read(msg)
    PROVE  queue' \in Seq(Message)
BY DEF TypeOK, Read

LEMMA TriggerTypes ==
    ASSUME TypeOK, NEW name, NEW ok \in BOOLEAN, Trigger(name, ok)
    PROVE  /\ Vehicles' \in Seq(Nat) /\ Len(Vehicles') <= MaxVehicles
           /\ Vehicles' = Vehicles \/ Vehicles' = Append(Vehicles, FreeID(Vehicles))
<1>1. FreeID(Vehicles) \in Nat
  BY FreeIDTypes
<1>2. Vehicles \in Seq(Nat) /\ Len(Vehicles) \in Nat /\ Len(Vehicles) <= MaxVehicles
  BY DEF TypeOK
<1> QED
  BY <1>1, <1>2, BoundAssumption DEF Trigger, AddVehicle

LEMMA WithoutTypes ==
    ASSUME NEW S, NEW list \in Seq(S), NEW e
    PROVE  Without(list, e) \in Seq(S)
<1>1. Len(list) \in Nat /\ DOMAIN list = 1 .. Len(list)
  OBVIOUS
<1>2. ASSUME e \in Elements(list)
      PROVE  Len(list) - 1 \in Nat
  BY <1>1, <1>2 DEF Elements
<1> QED
  BY <1>1, <1>2 DEF Without

LEMMA TypeNext == TypeOK /\ [Next]_vars => TypeOK'
<1> SUFFICES ASSUME TypeOK, [Next]_vars PROVE TypeOK'
  OBVIOUS
<1> USE DEF Player
<1>1. ASSUME NEW c \in Conn, NEW version \in Versions, ReceiveConnect(c, version)
      PROVE  TypeOK'
  <2>1. Approval(c, version) \in Message
    BY DEF Approval, Message
  <2> QED
    BY <1>1, <2>1 DEF ReceiveConnect, Release, TypeOK, Status
<1>2. ASSUME NEW c \in Conn, ReceiveConnectionEstablished(c)
      PROVE  TypeOK'
  <2>1. Changed(c, "Connected") \in Message
    BY DEF Changed, Message
  <2> QED
    BY <1>2, <2>1 DEF ReceiveConnectionEstablished, Release, TypeOK, Status
<1>3. ASSUME NEW c \in Conn, ExecuteDisconnect(c)
      PROVE  TypeOK'
  <2>1. Changed(c, "Disconnected") \in Message
    BY DEF Changed, Message
  <2> QED
    BY <1>3, <2>1 DEF ExecuteDisconnect, Release, TypeOK, Status
<1>4. ASSUME NEW c \in Conn, NEW v \in {0} \cup streamed[c], ReceiveUpdate(c, v)
      PROVE  TypeOK'
  <2>1. v \in Nat
    BY DEF TypeOK
  <2>2. Update(c, v) \in Message
    BY <2>1 DEF Update, Message
  <2> QED
    BY <1>4, <2>2 DEF ReceiveUpdate, Release, TypeOK
<1>5. ASSUME Elapsed PROVE TypeOK'
  BY <1>5 DEF Elapsed, TypeOK
<1>6. ASSUME NEW c \in Conn, NEW version \in Versions, HandleApproval(c, version)
      PROVE  TypeOK'
  <2>1. Approval(c, version) \in Message
    BY DEF Approval, Message
  <2>2. queue' \in Seq(Message)
    BY <1>6, <2>1, ReadTypes DEF HandleApproval
  <2> QED
    BY <1>6, <2>2 DEF HandleApproval, Done, TypeOK, Status
<1>7. ASSUME NEW c \in Conn, NEW ok \in BOOLEAN, HandleConnected(c, ok)
      PROVE  TypeOK'
  <2>1. Changed(c, "Connected") \in Message
    BY DEF Changed, Message
  <2>2. queue' \in Seq(Message)
    BY <1>7, <2>1, ReadTypes DEF HandleConnected
  <2>3. Vehicles' \in Seq(Nat) /\ Len(Vehicles') <= MaxVehicles
    BY <1>7, TriggerTypes DEF HandleConnected
  <2>4. told' \in [Conn -> SUBSET Nat]
    BY <1>7, FreeIDTypes DEF HandleConnected, Tell, TypeOK
  <2>5. ID' \in [Player -> Nat] /\ Players' \in Seq(Player)
    BY <1>7, FreeIDTypes DEF HandleConnected, TypeOK
  <2>6. tick' \in {"idle", "reading", "streaming"} /\ welcomed' \subseteq Conn
    BY <1>7 DEF HandleConnected, Done, SendResources, TypeOK
  <2> QED
    BY <1>7, <2>2, <2>3, <2>4, <2>5, <2>6 DEF HandleConnected, TypeOK
<1>8. ASSUME NEW c \in Conn, NEW ok \in BOOLEAN, HandleDisconnected(c, ok)
      PROVE  TypeOK'
  <2>1. Changed(c, "Disconnected") \in Message
    BY DEF Changed, Message
  <2>2. queue' \in Seq(Message)
    BY <1>8, <2>1, ReadTypes DEF HandleDisconnected
  <2>3. Vehicles' \in Seq(Nat) /\ Len(Vehicles') <= MaxVehicles
    BY <1>8, TriggerTypes DEF HandleDisconnected
  <2>4. told' \in [Conn -> SUBSET Nat]
    BY <1>8 DEF HandleDisconnected, TellGone, TypeOK
  <2>5. Players' \in Seq(Player)
    BY <1>8, WithoutTypes DEF HandleDisconnected, TypeOK
  <2>6. tick' \in {"idle", "reading", "streaming"}
    BY <1>8 DEF HandleDisconnected, Done
  <2> QED
    BY <1>8, <2>2, <2>3, <2>4, <2>5, <2>6 DEF HandleDisconnected, TypeOK
<1>9. ASSUME NEW c \in Conn, HandleDisconnectedStranger(c)
      PROVE  TypeOK'
  <2>1. Changed(c, "Disconnected") \in Message
    BY DEF Changed, Message
  <2>2. queue' \in Seq(Message)
    BY <1>9, <2>1, ReadTypes DEF HandleDisconnectedStranger
  <2> QED
    BY <1>9, <2>2 DEF HandleDisconnectedStranger, Done, TypeOK
<1>10. ASSUME NEW c \in Conn, NEW v \in 0 .. MaxVehicles, HandleUpdate(c, v)
       PROVE  TypeOK'
  <2>1. v \in Nat
    BY BoundAssumption
  <2>2. Update(c, v) \in Message
    BY <2>1 DEF Update, Message
  <2>3. queue' \in Seq(Message)
    BY <1>10, <2>2, ReadTypes DEF HandleUpdate
  <2>4. /\ Driver' \in [1 .. MaxVehicles -> Player \cup {NoDriver}]
        /\ CurrentVehicle' \in [Player -> Nat]
        /\ tick' \in {"reading", "idle"}
    BY <1>10, <2>1, UpdateEffects DEF Drivers
  <2> QED
    BY <1>10, <2>3, <2>4 DEF HandleUpdate, TypeOK
<1>11. ASSUME UpdateAllPlayers PROVE TypeOK'
  <2>1. told' \in [Conn -> SUBSET Nat]
    BY <1>11 DEF UpdateAllPlayers, TypeOK, Registered, Elements
  <2> QED
    BY <1>11, <2>1 DEF UpdateAllPlayers, TypeOK
<1>12. ASSUME UpdateAllVehicles PROVE TypeOK'
  <2>1. streamed' \in [Conn -> SUBSET Nat]
    BY <1>12 DEF UpdateAllVehicles, TypeOK
  <2> QED
    BY <1>12, <2>1 DEF UpdateAllVehicles, TypeOK
<1>13. ASSUME CreateTestPlayer PROVE TypeOK'
  BY <1>13 DEF CreateTestPlayer, TypeOK
<1>14. ASSUME AddTestPlayer PROVE TypeOK'
  BY <1>14, FreeIDTypes DEF AddTestPlayer, TypeOK
<1>15. ASSUME RemoveTestPlayer PROVE TypeOK'
  BY <1>15 DEF RemoveTestPlayer, TellGone, TypeOK
<1>16. ASSUME DropTestPlayer PROVE TypeOK'
  BY <1>16, WithoutTypes DEF DropTestPlayer, TypeOK
<1>17. ASSUME ClearTestPlayer PROVE TypeOK'
  BY <1>17 DEF ClearTestPlayer, TypeOK
<1>18. CASE UNCHANGED vars
  BY <1>18 DEF vars, TypeOK
<1> QED
  BY <1>1, <1>2, <1>3, <1>4, <1>5, <1>6, <1>7, <1>8, <1>9, <1>10, <1>11, <1>12, <1>13,
     <1>14, <1>15, <1>16, <1>17, <1>18 DEF Next, Network, OnTick, Command

\* The variables keep their types: the FIFO holds only the messages the tick
\* knows, the lists only players and IDs, the tick is in one of its phases.
THEOREM TypeCorrect == Spec => []TypeOK
<1> QED
  BY TypeInit, TypeNext, PTL DEF Spec

-----------------------------------------------------------------------------
\* Part 2: the sessions.

HIDE DEF netVars, playerVars, testVars, vehicleVars, clientVars

-----------------------------------------------------------------------------
\* The messages of the FIFO and the positions they move to.

LEMMA MessageFacts ==
    ASSUME NEW c \in Conn, NEW d \in Conn, NEW version \in Versions, NEW v \in Nat
    PROVE  /\ \A s, t \in {"Connected", "Disconnected"} :
                /\ Changed(c, s) \in Message
                /\ Changed(c, s).conn = c
                /\ Changed(c, s).type = "StatusChanged"
                /\ Changed(c, s) = Changed(d, t) <=> (c = d /\ s = t)
           /\ Update(c, v) \in Message
           /\ Update(c, v).conn = c
           /\ Update(c, v).type = "Data"
           /\ Update(c, v).vehicle = v
           /\ Approval(c, version) \in Message
           /\ Approval(c, version).conn = c
           /\ Approval(c, version).type = "ConnectionApproval"
BY DEF Changed, Update, Approval, Message

\* What reading a message does to the positions in the FIFO.
LEMMA ReadFacts ==
    ASSUME TypeOK, NEW msg, Read(msg)
    PROVE  /\ Len(queue) \in Nat /\ Len(queue) > 0
           /\ DOMAIN queue = 1 .. Len(queue)
           /\ queue[1] = msg
           /\ queue' \in Seq(Message)
           /\ DOMAIN queue' = 1 .. (Len(queue) - 1)
           /\ \A i \in 1 .. (Len(queue) - 1) : queue'[i] = queue[i + 1]
BY DEF TypeOK, Read

\* What releasing a message does to them.
LEMMA ReleaseFacts ==
    ASSUME TypeOK, NEW msg \in Message, Release(msg)
    PROVE  /\ Len(queue) \in Nat
           /\ DOMAIN queue = 1 .. Len(queue)
           /\ queue' \in Seq(Message)
           /\ DOMAIN queue' = 1 .. (Len(queue) + 1)
           /\ \A i \in 1 .. Len(queue) : queue'[i] = queue[i]
           /\ queue'[Len(queue) + 1] = msg
BY DEF TypeOK, Release

\* A step that keeps connection d in or out of its session and leaves its player
\* alone, and that puts into the FIFO or takes from it only what is not d's,
\* keeps what holds of d's session.
LEMMA OtherSession ==
    ASSUME TypeOK, NEW d \in Conn, SessionOf(d),
           \/ link'[d] = link[d]
           \/ link[d] \notin {"Connected", "Disconnected"} /\ link'[d] \notin {"Connected", "Disconnected"},
           (d \in Registered)' <=> d \in Registered,
           \/ queue' = queue
           \/ \E m \in Message :
                Release(m) /\ (m.conn # d \/ m.type = "ConnectionApproval")
           \/ \E m \in Message :
                Read(m) /\ (m.conn # d \/ m.type = "ConnectionApproval")
    PROVE  SessionOf(d)'
<1>0. \A s \in {"Connected", "Disconnected"} :
         Changed(d, s).conn = d /\ Changed(d, s).type = "StatusChanged"
  BY DEF Changed
<1>1. CASE queue' = queue
  BY <1>1 DEF SessionOf, Pending, From
<1>2. ASSUME NEW m \in Message, Release(m), m.conn # d \/ m.type = "ConnectionApproval"
      PROVE  SessionOf(d)'
  <2>0. PICK n \in Nat : n = Len(queue)
    BY DEF TypeOK
  <2>1. /\ n \in Nat /\ DOMAIN queue = 1 .. n /\ DOMAIN queue' = 1 .. (n + 1)
        /\ \A i \in 1 .. n : queue'[i] = queue[i]
        /\ queue'[n + 1] = m
    BY <1>2, <2>0, ReleaseFacts
  <2>2. ~From(d, n + 1)' /\ \A s \in {"Connected", "Disconnected"} : queue'[n + 1] # Changed(d, s)
    BY <1>0, <1>2, <2>1 DEF From
  <2>3. \A i \in 1 .. n : From(d, i)' <=> From(d, i)
    BY <2>1 DEF From
  <2>4. \A s \in {"Connected", "Disconnected"} : Pending(d, s)' <=> Pending(d, s)
    BY <2>1, <2>2 DEF Pending
  <2> QED
    BY <2>1, <2>2, <2>3, <2>4 DEF SessionOf
<1>3. ASSUME NEW m \in Message, Read(m), m.conn # d \/ m.type = "ConnectionApproval"
      PROVE  SessionOf(d)'
  <2>0. PICK n \in Nat : n = Len(queue)
    BY DEF TypeOK
  <2>1. /\ n \in Nat /\ n > 0 /\ DOMAIN queue = 1 .. n /\ DOMAIN queue' = 1 .. (n - 1)
        /\ \A i \in 1 .. (n - 1) : queue'[i] = queue[i + 1]
        /\ queue[1] = m
    BY <1>3, <2>0, ReadFacts
  <2>2. ~From(d, 1) /\ \A s \in {"Connected", "Disconnected"} : queue[1] # Changed(d, s)
    BY <1>0, <1>3, <2>1 DEF From
  <2>3. \A i \in 1 .. (n - 1) : From(d, i)' <=> From(d, i + 1)
    BY <2>1 DEF From
  <2>4. \A s \in {"Connected", "Disconnected"} : Pending(d, s)' <=> Pending(d, s)
    <3>1. ASSUME NEW s \in {"Connected", "Disconnected"}, Pending(d, s)
          PROVE  Pending(d, s)'
      <4>1. PICK i \in 1 .. n : queue[i] = Changed(d, s)
        BY <2>1, <3>1 DEF Pending
      <4>2. i # 1 /\ i - 1 \in 1 .. (n - 1) /\ (i - 1) + 1 = i
        BY <2>1, <2>2, <4>1
      <4> QED
        BY <2>1, <4>1, <4>2 DEF Pending
    <3>2. ASSUME NEW s \in {"Connected", "Disconnected"}, Pending(d, s)'
          PROVE  Pending(d, s)
      BY <2>1, <3>2 DEF Pending
    <3> QED
      BY <3>1, <3>2
  <2>5. ASSUME NEW j \in 1 .. (n - 1), From(d, j)', queue'[j].type = "Data", ~(d \in Registered)
        PROVE  \E i \in 1 .. (n - 1) : i < j /\ queue'[i] = Changed(d, "Connected")
    <3>0. j + 1 \in 1 .. n /\ queue'[j] = queue[j + 1]
      BY <2>1
    <3>1. From(d, j + 1) /\ queue[j + 1].type = "Data"
      BY <2>3, <2>5, <3>0
    <3>2. PICK i \in 1 .. n : i < j + 1 /\ queue[i] = Changed(d, "Connected")
      <4>1. \A k \in DOMAIN queue :
               From(d, k) /\ queue[k].type = "Data" =>
                 d \in Registered \/ \E i \in DOMAIN queue : i < k /\ queue[i] = Changed(d, "Connected")
        BY DEF SessionOf
      <4> QED
        BY <2>1, <2>5, <3>0, <3>1, <4>1
    <3>3. i # 1 /\ i - 1 \in 1 .. (n - 1) /\ (i - 1) + 1 = i /\ i - 1 < j
      BY <2>1, <2>2, <3>2
    <3> QED
      BY <2>1, <3>2, <3>3
  <2>6. link'[d] \notin {"Connected", "Disconnected"} =>
           (d \notin Registered)' /\ \A i \in 1 .. (n - 1) : ~From(d, i)'
    BY <2>1, <2>3 DEF SessionOf
  <2>7. /\ link'[d] = "Connected" =>
             /\ ~Pending(d, "Disconnected")'
             /\ (d \in Registered)' \/ Pending(d, "Connected")'
        /\ link'[d] = "Disconnected" =>
             ((d \in Registered)' \/ Pending(d, "Connected")' => Pending(d, "Disconnected")')
    BY <2>4 DEF SessionOf
  <2>8. \A i \in 1 .. (n - 1) : queue'[i] = Changed(d, "Connected") => (d \notin Registered)'
    BY <2>1 DEF SessionOf
  <2>9. \A i, j \in 1 .. (n - 1) :
           queue'[i] = Changed(d, "Connected") /\ queue'[j] = Changed(d, "Connected") => i = j
    <3>1. \A i, j \in 1 .. n :
             queue[i] = Changed(d, "Connected") /\ queue[j] = Changed(d, "Connected") => i = j
      BY <2>1 DEF SessionOf
    <3> SUFFICES ASSUME NEW i \in 1 .. (n - 1), NEW j \in 1 .. (n - 1),
                        queue'[i] = Changed(d, "Connected"), queue'[j] = Changed(d, "Connected")
                 PROVE  i = j
      OBVIOUS
    <3>2. /\ i + 1 \in 1 .. n /\ queue'[i] = queue[i + 1]
          /\ j + 1 \in 1 .. n /\ queue'[j] = queue[j + 1]
      BY <2>1
    <3>3. i + 1 = j + 1
      BY <3>1, <3>2
    <3> QED
      BY <3>3
  <2>10. \A i, j \in 1 .. (n - 1) :
           queue'[i] = Changed(d, "Disconnected") /\ From(d, j)' => j <= i
    <3>1. \A i, j \in 1 .. n : queue[i] = Changed(d, "Disconnected") /\ From(d, j) => j <= i
      BY <2>1 DEF SessionOf
    <3> SUFFICES ASSUME NEW i \in 1 .. (n - 1), NEW j \in 1 .. (n - 1),
                        queue'[i] = Changed(d, "Disconnected"), From(d, j)'
                 PROVE  j <= i
      OBVIOUS
    <3>2. i + 1 \in 1 .. n /\ queue'[i] = queue[i + 1] /\ j + 1 \in 1 .. n
      BY <2>1
    <3>3. j + 1 <= i + 1
      BY <2>3, <3>1, <3>2
    <3> QED
      BY <3>3
  <2> QED
    BY <2>1, <2>5, <2>6, <2>7, <2>8, <2>9, <2>10 DEF SessionOf
<1> QED
  BY <1>1, <1>2, <1>3

-----------------------------------------------------------------------------
\* The connection's own steps on the network thread.

\* A handshake begins with nothing of the connection in the FIFO but its approval.
LEMMA ConnectSession ==
    ASSUME TypeOK, NEW c \in Conn, NEW version \in Versions, ReceiveConnect(c, version)
    PROVE  SessionOf(c)'
<1>0. PICK n \in Nat : n = Len(queue)
  BY DEF TypeOK
<1>1. Approval(c, version) \in Message /\ Approval(c, version).type = "ConnectionApproval"
  BY DEF Approval, Message
<1>2. /\ DOMAIN queue = 1 .. n /\ DOMAIN queue' = 1 .. (n + 1)
      /\ \A i \in 1 .. n : queue'[i] = queue[i]
      /\ queue'[n + 1] = Approval(c, version)
  BY <1>0, <1>1, ReleaseFacts DEF ReceiveConnect
<1>3. \A i \in 1 .. (n + 1) : ~From(c, i)'
  BY <1>1, <1>2 DEF From, ReceiveConnect, Fresh
<1>4. \A s \in {"Connected", "Disconnected"} :
         Changed(c, s).conn = c /\ Changed(c, s).type = "StatusChanged"
  BY DEF Changed
<1>5. \A i \in 1 .. (n + 1), s \in {"Connected", "Disconnected"} : queue'[i] # Changed(c, s)
  BY <1>3, <1>4 DEF From
<1>6. (c \notin Registered)' /\ link'[c] = "RespondedAwaitingApproval"
  BY DEF ReceiveConnect, Fresh, Registered, TypeOK, playerVars
<1> QED
  BY <1>2, <1>3, <1>5, <1>6 DEF SessionOf, Pending

\* Connected is the first message of its session.
LEMMA EstablishedSession ==
    ASSUME TypeOK, NEW c \in Conn, SessionOf(c), ReceiveConnectionEstablished(c)
    PROVE  SessionOf(c)'
<1>0. PICK n \in Nat : n = Len(queue)
  BY DEF TypeOK
<1>1. /\ \A s \in {"Connected", "Disconnected"} :
            /\ Changed(c, s).conn = c /\ Changed(c, s).type = "StatusChanged"
            /\ Changed(c, s).status = s
      /\ Changed(c, "Connected") \in Message
  BY DEF Changed, Message
<1>2. /\ DOMAIN queue = 1 .. n /\ DOMAIN queue' = 1 .. (n + 1)
      /\ \A i \in 1 .. n : queue'[i] = queue[i]
      /\ queue'[n + 1] = Changed(c, "Connected")
  BY <1>0, <1>1, ReleaseFacts DEF ReceiveConnectionEstablished
<1>3. c \notin Registered /\ \A i \in 1 .. n : ~From(c, i)
  BY <1>2 DEF SessionOf, ReceiveConnectionEstablished
<1>4. (c \notin Registered)' /\ link'[c] = "Connected"
  BY <1>3 DEF ReceiveConnectionEstablished, Registered, TypeOK, playerVars
<1>5. \A i \in 1 .. n : ~From(c, i)' /\ \A s \in {"Connected", "Disconnected"} : queue'[i] # Changed(c, s)
  BY <1>1, <1>2, <1>3 DEF From
<1>6. queue'[n + 1].type = "StatusChanged" /\ queue'[n + 1] # Changed(c, "Disconnected")
  BY <1>1, <1>2
<1>7. Pending(c, "Connected")' /\ ~Pending(c, "Disconnected")'
  BY <1>2, <1>5, <1>6 DEF Pending
<1>8. \A i \in DOMAIN queue' : From(c, i)' => i = n + 1
  BY <1>2, <1>5
<1> QED
  BY <1>2, <1>4, <1>5, <1>6, <1>7, <1>8 DEF SessionOf

\* Disconnected is the last message of its session.
LEMMA DisconnectSession ==
    ASSUME TypeOK, NEW c \in Conn, SessionOf(c), ExecuteDisconnect(c)
    PROVE  SessionOf(c)'
<1>0. PICK n \in Nat : n = Len(queue)
  BY DEF TypeOK
<1>1. /\ \A s \in {"Connected", "Disconnected"} :
            /\ Changed(c, s).conn = c /\ Changed(c, s).type = "StatusChanged"
            /\ Changed(c, s).status = s
      /\ Changed(c, "Disconnected") \in Message
  BY DEF Changed, Message
<1>2. /\ DOMAIN queue = 1 .. n /\ DOMAIN queue' = 1 .. (n + 1)
      /\ \A i \in 1 .. n : queue'[i] = queue[i]
      /\ queue'[n + 1] = Changed(c, "Disconnected")
  BY <1>0, <1>1, ReleaseFacts DEF ExecuteDisconnect
<1>3. /\ Registered' = Registered /\ link'[c] = "Disconnected"
      /\ link[c] \in {"RespondedAwaitingApproval", "RespondedConnect", "Connected"}
  BY DEF ExecuteDisconnect, Registered, TypeOK, playerVars, Slots
<1>4. ~Pending(c, "Disconnected")
  BY <1>1, <1>2, <1>3 DEF SessionOf, Pending, From
<1>5. Pending(c, "Disconnected")'
  BY <1>2 DEF Pending
<1>6. \A i \in 1 .. n : queue'[i] # Changed(c, "Disconnected") /\ (From(c, i)' <=> From(c, i))
  BY <1>2, <1>4 DEF Pending, From
<1>7. queue'[n + 1] # Changed(c, "Connected") /\ queue'[n + 1].type # "Data"
  BY <1>1, <1>2
<1>8. \A i \in DOMAIN queue' : queue'[i] = Changed(c, "Disconnected") => i = n + 1
  BY <1>2, <1>6
<1>9. \A i \in DOMAIN queue' : queue'[i] = Changed(c, "Connected") => i \in 1 .. n
  BY <1>2, <1>7
<1>10. ASSUME NEW j \in DOMAIN queue', From(c, j)', queue'[j].type = "Data", ~(c \in Registered)
       PROVE  \E i \in DOMAIN queue' : i < j /\ queue'[i] = Changed(c, "Connected")
  <2>1. j \in 1 .. n /\ From(c, j) /\ queue[j].type = "Data"
    BY <1>2, <1>6, <1>7, <1>10
  <2>2. PICK i \in DOMAIN queue : i < j /\ queue[i] = Changed(c, "Connected")
    BY <1>2, <1>10, <2>1 DEF SessionOf
  <2> QED
    BY <1>2, <2>2
<1>11. \A i, j \in DOMAIN queue' :
          queue'[i] = Changed(c, "Disconnected") /\ From(c, j)' => j <= i
  BY <1>2, <1>8
<1>12. /\ \A i \in DOMAIN queue' : queue'[i] = Changed(c, "Connected") => c \notin Registered
       /\ \A i, j \in DOMAIN queue' :
            queue'[i] = Changed(c, "Connected") /\ queue'[j] = Changed(c, "Connected") => i = j
  BY <1>2, <1>9 DEF SessionOf
<1> QED
  BY <1>3, <1>5, <1>10, <1>11, <1>12 DEF SessionOf

\* An update follows the Connected of its session.
LEMMA UpdateSession ==
    ASSUME TypeOK, NEW c \in Conn, NEW v \in Nat, SessionOf(c), ReceiveUpdate(c, v)
    PROVE  SessionOf(c)'
<1>0. PICK n \in Nat : n = Len(queue)
  BY DEF TypeOK
<1>1. /\ \A s \in {"Connected", "Disconnected"} :
            Changed(c, s).conn = c /\ Changed(c, s).type = "StatusChanged"
      /\ Update(c, v) \in Message /\ Update(c, v).type = "Data" /\ Update(c, v).conn = c
  BY DEF Changed, Message, Update
<1>2. /\ DOMAIN queue = 1 .. n /\ DOMAIN queue' = 1 .. (n + 1)
      /\ \A i \in 1 .. n : queue'[i] = queue[i]
      /\ queue'[n + 1] = Update(c, v)
  BY <1>0, <1>1, ReleaseFacts DEF ReceiveUpdate
<1>3. Registered' = Registered /\ link' = link /\ link[c] = "Connected"
  BY DEF ReceiveUpdate, Registered, playerVars
<1>4. \A s \in {"Connected", "Disconnected"} : queue'[n + 1] # Changed(c, s)
  BY <1>1, <1>2
<1>5. \A s \in {"Connected", "Disconnected"} : Pending(c, s)' <=> Pending(c, s)
  BY <1>2, <1>4 DEF Pending
<1>6. ~Pending(c, "Disconnected") /\ (c \in Registered \/ Pending(c, "Connected"))
  BY <1>3 DEF SessionOf
<1>7. \A i \in DOMAIN queue' : queue'[i] # Changed(c, "Disconnected")
  BY <1>5, <1>6 DEF Pending
<1>8. /\ \A i \in DOMAIN queue' : queue'[i] = Changed(c, "Connected") => c \notin Registered
      /\ \A i, j \in DOMAIN queue' :
           queue'[i] = Changed(c, "Connected") /\ queue'[j] = Changed(c, "Connected") => i = j
  BY <1>2, <1>4 DEF SessionOf
<1>9. ASSUME NEW j \in DOMAIN queue', From(c, j)', queue'[j].type = "Data", ~(c \in Registered)
      PROVE  \E i \in DOMAIN queue' : i < j /\ queue'[i] = Changed(c, "Connected")
  <2>1. CASE j \in 1 .. n
    <3>1. From(c, j) /\ queue[j].type = "Data"
      BY <1>2, <1>9, <2>1 DEF From
    <3>2. PICK i \in DOMAIN queue : i < j /\ queue[i] = Changed(c, "Connected")
      BY <1>2, <1>9, <2>1, <3>1 DEF SessionOf
    <3> QED
      BY <1>2, <3>2
  <2>2. CASE j = n + 1
    <3>1. PICK i \in 1 .. n : queue[i] = Changed(c, "Connected")
      BY <1>2, <1>6, <1>9 DEF Pending
    <3> QED
      BY <1>2, <2>2, <3>1
  <2> QED
    BY <1>2, <2>1, <2>2
<1> QED
  BY <1>3, <1>5, <1>6, <1>7, <1>8, <1>9 DEF SessionOf

-----------------------------------------------------------------------------
\* The tick's handlers for the connection's own messages.

\* Reading a message moves every other one up by a position.
LEMMA ReadShift ==
    ASSUME TypeOK, NEW c \in Conn, NEW m, Read(m), NEW n \in Nat, n = Len(queue)
    PROVE  /\ n > 0 /\ DOMAIN queue = 1 .. n /\ DOMAIN queue' = 1 .. (n - 1)
           /\ queue[1] = m
           /\ \A i \in 1 .. (n - 1) :
                i + 1 \in 1 .. n /\ queue'[i] = queue[i + 1] /\ (From(c, i)' <=> From(c, i + 1))
           /\ \A s : Pending(c, s)' => Pending(c, s)
           /\ \A s : Pending(c, s) /\ m # Changed(c, s) => Pending(c, s)'
<1>1. /\ n > 0 /\ DOMAIN queue = 1 .. n /\ DOMAIN queue' = 1 .. (n - 1) /\ queue[1] = m
      /\ \A i \in 1 .. (n - 1) : queue'[i] = queue[i + 1]
  BY ReadFacts
<1>2. \A i \in 1 .. (n - 1) : i + 1 \in 1 .. n
  OBVIOUS
<1>3. \A i \in 1 .. (n - 1) : From(c, i)' <=> From(c, i + 1)
  BY <1>1 DEF From
<1>4. ASSUME NEW s, Pending(c, s)'
      PROVE  Pending(c, s)
  BY <1>1, <1>2, <1>4 DEF Pending
<1>5. ASSUME NEW s, Pending(c, s), m # Changed(c, s)
      PROVE  Pending(c, s)'
  <2>1. PICK i \in 1 .. n : queue[i] = Changed(c, s)
    BY <1>1, <1>5 DEF Pending
  <2>2. i # 1 /\ i - 1 \in 1 .. (n - 1) /\ (i - 1) + 1 = i
    BY <1>1, <1>5, <2>1
  <2> QED
    BY <1>1, <2>1, <2>2 DEF Pending
<1> QED
  BY <1>1, <1>2, <1>3, <1>4, <1>5

\* Connected is handled once, before the updates and the Disconnected behind it.
LEMMA ConnectedRead ==
    ASSUME TypeOK, NEW c \in Conn, SessionOf(c), Read(Changed(c, "Connected"))
    PROVE  /\ c \notin Registered
           /\ link'[c] = link[c] /\ (c \in Registered)' => SessionOf(c)'
<1>0. PICK n \in Nat : n = Len(queue)
  BY DEF TypeOK
<1>1. /\ n > 0 /\ DOMAIN queue = 1 .. n /\ DOMAIN queue' = 1 .. (n - 1)
      /\ queue[1] = Changed(c, "Connected")
      /\ \A i \in 1 .. (n - 1) :
           i + 1 \in 1 .. n /\ queue'[i] = queue[i + 1] /\ (From(c, i)' <=> From(c, i + 1))
      /\ \A s : Pending(c, s)' => Pending(c, s)
      /\ \A s : Pending(c, s) /\ Changed(c, "Connected") # Changed(c, s) => Pending(c, s)'
  BY <1>0, ReadShift
<1>2. /\ 1 \in 1 .. n /\ From(c, 1) /\ Changed(c, "Connected") # Changed(c, "Disconnected")
      /\ Pending(c, "Connected")
  BY <1>1 DEF From, Changed, Pending
<1>3. c \notin Registered /\ link[c] \in {"Connected", "Disconnected"}
  BY <1>1, <1>2 DEF SessionOf
<1>4. Pending(c, "Disconnected")' <=> Pending(c, "Disconnected")
  BY <1>1, <1>2
<1>5. ASSUME NEW i \in 1 .. (n - 1)
      PROVE  queue'[i] # Changed(c, "Connected")
  <2>1. i + 1 \in DOMAIN queue /\ i + 1 # 1 /\ queue'[i] = queue[i + 1]
    BY <1>1
  <2> QED
    BY <1>1, <1>2, <2>1 DEF SessionOf
<1>6. ASSUME NEW i \in 1 .. (n - 1), NEW j \in 1 .. (n - 1),
             queue'[i] = Changed(c, "Disconnected"), From(c, j)'
      PROVE  j <= i
  <2>1. j + 1 <= i + 1
    BY <1>1, <1>6 DEF SessionOf
  <2> QED
    BY <2>1
<1>7. link[c] = "Connected" => ~Pending(c, "Disconnected")
  BY DEF SessionOf
<1>8. link[c] = "Disconnected" => Pending(c, "Disconnected")
  BY <1>2 DEF SessionOf
<1> QED
  BY <1>1, <1>3, <1>4, <1>5, <1>6, <1>7, <1>8 DEF SessionOf

\* Nothing of the connection is left behind its Disconnected.
LEMMA DisconnectedRead ==
    ASSUME TypeOK, NEW c \in Conn, SessionOf(c), Read(Changed(c, "Disconnected")),
           link'[c] = link[c], (c \notin Registered)'
    PROVE  SessionOf(c)'
<1>0. PICK n \in Nat : n = Len(queue)
  BY DEF TypeOK
<1>1. /\ n > 0 /\ DOMAIN queue = 1 .. n /\ DOMAIN queue' = 1 .. (n - 1)
      /\ queue[1] = Changed(c, "Disconnected")
      /\ \A i \in 1 .. (n - 1) :
           i + 1 \in 1 .. n /\ queue'[i] = queue[i + 1] /\ (From(c, i)' <=> From(c, i + 1))
  BY <1>0, ReadShift
<1>2. 1 \in 1 .. n /\ From(c, 1) /\ Pending(c, "Disconnected")
  BY <1>1 DEF From, Changed, Pending
<1>3. link[c] = "Disconnected"
  BY <1>1, <1>2 DEF SessionOf
<1>4. ASSUME NEW j \in 1 .. (n - 1)
      PROVE  ~From(c, j)'
  <2>1. ~(j + 1 <= 1) /\ j + 1 \in DOMAIN queue /\ 1 \in DOMAIN queue
    BY <1>1
  <2>2. ~From(c, j + 1)
    BY <1>1, <2>1 DEF SessionOf
  <2> QED
    BY <1>1, <2>2
<1>5. \A j \in 1 .. (n - 1), s \in {"Connected", "Disconnected"} : queue'[j] # Changed(c, s)
  BY <1>4 DEF From, Changed
<1>6. ~Pending(c, "Connected")' /\ ~Pending(c, "Disconnected")'
  BY <1>1, <1>5 DEF Pending
<1> QED
  BY <1>1, <1>3, <1>4, <1>5, <1>6 DEF SessionOf

\* An update is handled between the Connected and the Disconnected of its session.
LEMMA UpdateRead ==
    ASSUME TypeOK, NEW c \in Conn, NEW v \in Nat, SessionOf(c), Read(Update(c, v))
    PROVE  /\ c \in Registered
           /\ link'[c] = link[c] /\ ((c \in Registered)' <=> c \in Registered) => SessionOf(c)'
<1>0. PICK n \in Nat : n = Len(queue)
  BY DEF TypeOK
<1>1. /\ n > 0 /\ DOMAIN queue = 1 .. n /\ DOMAIN queue' = 1 .. (n - 1)
      /\ queue[1] = Update(c, v)
      /\ \A i \in 1 .. (n - 1) :
           i + 1 \in 1 .. n /\ queue'[i] = queue[i + 1] /\ (From(c, i)' <=> From(c, i + 1))
      /\ \A s : Pending(c, s)' => Pending(c, s)
      /\ \A s : Pending(c, s) /\ Update(c, v) # Changed(c, s) => Pending(c, s)'
  BY <1>0, ReadShift
<1>2. /\ 1 \in 1 .. n /\ From(c, 1) /\ queue[1].type = "Data"
      /\ \A s : Update(c, v) # Changed(c, s)
  BY <1>1 DEF From, Changed, Update
<1>3. c \in Registered
  <2>1. ~\E i \in 1 .. n : i < 1
    OBVIOUS
  <2> QED
    BY <1>1, <1>2, <2>1 DEF SessionOf
<1>4. link[c] \in {"Connected", "Disconnected"}
  BY <1>3 DEF SessionOf
<1>5. \A i \in 1 .. (n - 1) : queue'[i] # Changed(c, "Connected")
  BY <1>1, <1>3 DEF SessionOf
<1>6. ASSUME NEW i \in 1 .. (n - 1), NEW j \in 1 .. (n - 1),
             queue'[i] = Changed(c, "Disconnected"), From(c, j)'
      PROVE  j <= i
  <2>1. j + 1 <= i + 1
    BY <1>1, <1>6 DEF SessionOf
  <2> QED
    BY <2>1
<1>7. Pending(c, "Disconnected")' <=> Pending(c, "Disconnected")
  BY <1>1, <1>2
<1>8. /\ link[c] = "Connected" => ~Pending(c, "Disconnected")
      /\ link[c] = "Disconnected" => Pending(c, "Disconnected")
  BY <1>3 DEF SessionOf
<1> QED
  BY <1>1, <1>3, <1>4, <1>5, <1>6, <1>7, <1>8 DEF SessionOf

-----------------------------------------------------------------------------
\* The invariant: Distinct(Players) and TestPlayerInv beside every session.

LEMMA SessionInit == Init => SessionInv
BY ConnAssumption DEF Init, SessionInv, SessionOf, TestPlayerInv, Distinct, Registered, Elements,
                      Pending, From, Status

\* A step that leaves the list of players and the console alone.
LEMMA SamePlayers ==
    ASSUME TypeOK, SessionInv, playerVars' = playerVars, testVars' = testVars
    PROVE  Registered' = Registered /\ Distinct(Players)' /\ TestPlayerInv'
BY DEF SessionInv, TestPlayerInv, Registered, playerVars, testVars

\* A new entry at the end of the list.
LEMMA PlayerAppended ==
    ASSUME TypeOK, Distinct(Players), NEW p \in Player, p \notin Registered,
           Players' = Append(Players, p)
    PROVE  Registered' = Registered \cup {p} /\ Distinct(Players)'
BY AppendElements DEF TypeOK, Registered

\* An entry removed from the list.
LEMMA PlayerRemoved ==
    ASSUME TypeOK, Distinct(Players), NEW p \in Player, Players' = Without(Players, p)
    PROVE  Registered' = Registered \ {p} /\ Distinct(Players)'
BY WithoutElements DEF TypeOK, Registered

LEMMA SessionNext == TypeOK /\ SessionInv /\ [Next]_vars => SessionInv'
<1> SUFFICES ASSUME TypeOK, SessionInv, [Next]_vars PROVE SessionInv'
  OBVIOUS
<1>0. /\ \A c \in Conn : SessionOf(c)
      /\ Distinct(Players) /\ TestPlayerInv
      /\ Conn \subseteq Player /\ TestPlayer \in Player /\ TestPlayer \notin Conn
  BY ConnAssumption DEF SessionInv, Player
<1>1. ASSUME NEW c \in Conn, NEW version \in Versions, ReceiveConnect(c, version)
      PROVE  SessionInv'
  <2>1. Registered' = Registered /\ Distinct(Players)' /\ TestPlayerInv'
    BY <1>1, SamePlayers DEF ReceiveConnect
  <2>2. /\ Release(Approval(c, version)) /\ Approval(c, version) \in Message
        /\ Approval(c, version).type = "ConnectionApproval"
        /\ \A d \in Conn \ {c} : link'[d] = link[d]
    BY <1>1 DEF ReceiveConnect, Approval, Message, TypeOK
  <2>3. ASSUME NEW d \in Conn \ {c} PROVE SessionOf(d)'
    BY <1>0, <2>1, <2>2, OtherSession
  <2>4. SessionOf(c)'
    BY <1>1, ConnectSession
  <2> QED
    BY <2>1, <2>3, <2>4 DEF SessionInv
<1>2. ASSUME NEW c \in Conn, ReceiveConnectionEstablished(c)
      PROVE  SessionInv'
  <2>1. Registered' = Registered /\ Distinct(Players)' /\ TestPlayerInv'
    BY <1>2, SamePlayers DEF ReceiveConnectionEstablished
  <2>2. /\ Release(Changed(c, "Connected")) /\ Changed(c, "Connected") \in Message
        /\ Changed(c, "Connected").conn = c
        /\ \A d \in Conn \ {c} : link'[d] = link[d]
    BY <1>2 DEF ReceiveConnectionEstablished, Changed, Message, TypeOK
  <2>3. ASSUME NEW d \in Conn \ {c} PROVE SessionOf(d)'
    BY <1>0, <2>1, <2>2, OtherSession
  <2>4. SessionOf(c)'
    BY <1>0, <1>2, EstablishedSession
  <2> QED
    BY <2>1, <2>3, <2>4 DEF SessionInv
<1>3. ASSUME NEW c \in Conn, ExecuteDisconnect(c)
      PROVE  SessionInv'
  <2>1. Registered' = Registered /\ Distinct(Players)' /\ TestPlayerInv'
    BY <1>3, SamePlayers DEF ExecuteDisconnect
  <2>2. /\ Release(Changed(c, "Disconnected")) /\ Changed(c, "Disconnected") \in Message
        /\ Changed(c, "Disconnected").conn = c
        /\ \A d \in Conn \ {c} : link'[d] = link[d]
    BY <1>3 DEF ExecuteDisconnect, Changed, Message, TypeOK
  <2>3. ASSUME NEW d \in Conn \ {c} PROVE SessionOf(d)'
    BY <1>0, <2>1, <2>2, OtherSession
  <2>4. SessionOf(c)'
    BY <1>0, <1>3, DisconnectSession
  <2> QED
    BY <2>1, <2>3, <2>4 DEF SessionInv
<1>4. ASSUME NEW c \in Conn, NEW v \in {0} \cup streamed[c], ReceiveUpdate(c, v)
      PROVE  SessionInv'
  <2>0. v \in Nat
    BY <1>4 DEF TypeOK
  <2>1. Registered' = Registered /\ Distinct(Players)' /\ TestPlayerInv'
    BY <1>4, SamePlayers DEF ReceiveUpdate
  <2>2. /\ Release(Update(c, v)) /\ Update(c, v) \in Message /\ Update(c, v).conn = c
        /\ link' = link
    BY <1>4, <2>0 DEF ReceiveUpdate, Update, Message
  <2>3. ASSUME NEW d \in Conn \ {c} PROVE SessionOf(d)'
    BY <1>0, <2>1, <2>2, OtherSession
  <2>4. SessionOf(c)'
    BY <1>0, <1>4, <2>0, UpdateSession
  <2> QED
    BY <2>1, <2>3, <2>4 DEF SessionInv
<1>5. ASSUME NEW c \in Conn, NEW version \in Versions, HandleApproval(c, version)
      PROVE  SessionInv'
  <2>1. Registered' = Registered /\ Distinct(Players)' /\ TestPlayerInv'
    BY <1>5, SamePlayers DEF HandleApproval
  <2>2. /\ Read(Approval(c, version)) /\ Approval(c, version) \in Message
        /\ Approval(c, version).type = "ConnectionApproval"
    BY <1>5 DEF HandleApproval, Approval, Message
  <2>3. ASSUME NEW d \in Conn
        PROVE  \/ link'[d] = link[d]
               \/ /\ link[d] \notin {"Connected", "Disconnected"}
                  /\ link'[d] \notin {"Connected", "Disconnected"}
    BY <1>5 DEF HandleApproval, TypeOK
  <2>4. ASSUME NEW d \in Conn PROVE SessionOf(d)'
    BY <1>0, <2>1, <2>2, <2>3, OtherSession
  <2> QED
    BY <2>1, <2>4 DEF SessionInv
<1>6. ASSUME NEW c \in Conn, NEW ok \in BOOLEAN, HandleConnected(c, ok)
      PROVE  SessionInv'
  <2>1. /\ Read(Changed(c, "Connected")) /\ Changed(c, "Connected") \in Message
        /\ Changed(c, "Connected").conn = c
        /\ link' = link /\ Players' = Append(Players, c) /\ testVars' = testVars
    BY <1>6 DEF HandleConnected, Changed, Message, testVars
  <2>2. c \notin Registered
    BY <1>0, <2>1, ConnectedRead
  <2>3. Registered' = Registered \cup {c} /\ Distinct(Players)'
    BY <1>0, <2>1, <2>2, PlayerAppended
  <2>4. TestPlayerInv'
    BY <1>0, <2>1, <2>3 DEF TestPlayerInv, testVars
  <2>5. SessionOf(c)'
    BY <1>0, <2>1, <2>3, ConnectedRead
  <2>6. ASSUME NEW d \in Conn \ {c} PROVE SessionOf(d)'
    BY <1>0, <2>1, <2>3, OtherSession
  <2> QED
    BY <2>3, <2>4, <2>5, <2>6 DEF SessionInv
<1>7. ASSUME NEW c \in Conn, NEW ok \in BOOLEAN, HandleDisconnected(c, ok)
      PROVE  SessionInv'
  <2>1. /\ Read(Changed(c, "Disconnected")) /\ Changed(c, "Disconnected") \in Message
        /\ Changed(c, "Disconnected").conn = c
        /\ link' = link /\ Players' = Without(Players, c) /\ testVars' = testVars
    BY <1>7 DEF HandleDisconnected, Changed, Message, testVars
  <2>2. Registered' = Registered \ {c} /\ Distinct(Players)'
    BY <1>0, <2>1, PlayerRemoved
  <2>3. TestPlayerInv'
    BY <1>0, <2>1, <2>2 DEF TestPlayerInv, testVars
  <2>4. SessionOf(c)'
    BY <1>0, <2>1, <2>2, DisconnectedRead
  <2>5. ASSUME NEW d \in Conn \ {c} PROVE SessionOf(d)'
    BY <1>0, <2>1, <2>2, OtherSession
  <2> QED
    BY <2>2, <2>3, <2>4, <2>5 DEF SessionInv
<1>8. ASSUME NEW c \in Conn, HandleDisconnectedStranger(c)
      PROVE  SessionInv'
  <2>1. /\ Read(Changed(c, "Disconnected")) /\ Changed(c, "Disconnected") \in Message
        /\ Changed(c, "Disconnected").conn = c
        /\ link' = link /\ c \notin Registered
    BY <1>8 DEF HandleDisconnectedStranger, Changed, Message
  <2>2. Registered' = Registered /\ Distinct(Players)' /\ TestPlayerInv'
    BY <1>8, SamePlayers DEF HandleDisconnectedStranger
  <2>3. SessionOf(c)'
    BY <1>0, <2>1, <2>2, DisconnectedRead
  <2>4. ASSUME NEW d \in Conn \ {c} PROVE SessionOf(d)'
    BY <1>0, <2>1, <2>2, OtherSession
  <2> QED
    BY <2>2, <2>3, <2>4 DEF SessionInv
<1>9. ASSUME NEW c \in Conn, NEW v \in 0 .. MaxVehicles, HandleUpdate(c, v)
      PROVE  SessionInv'
  <2>0. v \in Nat
    BY BoundAssumption
  <2>1. /\ Read(Update(c, v)) /\ Update(c, v) \in Message /\ Update(c, v).conn = c
        /\ link' = link
    BY <1>9, <2>0 DEF HandleUpdate, Update, Message
  <2>2. Registered' = Registered /\ Distinct(Players)' /\ TestPlayerInv'
    BY <1>9, SamePlayers DEF HandleUpdate
  <2>3. SessionOf(c)'
    BY <1>0, <2>0, <2>1, <2>2, UpdateRead
  <2>4. ASSUME NEW d \in Conn \ {c} PROVE SessionOf(d)'
    BY <1>0, <2>1, <2>2, OtherSession
  <2> QED
    BY <2>2, <2>3, <2>4 DEF SessionInv
<1>10. CASE Elapsed \/ UpdateAllPlayers \/ UpdateAllVehicles \/ UNCHANGED vars
  <2>1. queue' = queue /\ link' = link /\ playerVars' = playerVars /\ testVars' = testVars
    BY <1>10 DEF Elapsed, UpdateAllPlayers, UpdateAllVehicles, vars, netVars, playerVars, testVars
  <2>2. Registered' = Registered /\ Distinct(Players)' /\ TestPlayerInv'
    BY <2>1, SamePlayers
  <2>3. ASSUME NEW d \in Conn PROVE SessionOf(d)'
    BY <1>0, <2>1, <2>2, OtherSession
  <2> QED
    BY <2>2, <2>3 DEF SessionInv
<1>11. ASSUME queue' = queue, link' = link, Distinct(Players)', TestPlayerInv',
              \A d \in Conn : (d \in Registered)' <=> d \in Registered
       PROVE  SessionInv'
  BY <1>0, <1>11, OtherSession DEF SessionInv
<1>12. CASE CreateTestPlayer \/ RemoveTestPlayer
  <2>1. /\ queue' = queue /\ link' = link /\ Players' = Players
        /\ console = "prompt" /\ testing' = TRUE /\ console' \in {"add", "remove"}
        /\ console' = "add" => ~testing
    BY <1>12 DEF CreateTestPlayer, RemoveTestPlayer, netVars, playerVars, TypeOK
  <2>2. Registered' = Registered /\ Distinct(Players)' /\ TestPlayerInv'
    BY <1>0, <2>1 DEF Registered, TestPlayerInv
  <2> QED
    BY <1>11, <2>1, <2>2
<1>13. CASE AddTestPlayer
  <2>1. /\ queue' = queue /\ link' = link /\ Players' = Append(Players, TestPlayer)
        /\ console = "add" /\ testing' = testing /\ console' = "prompt"
    BY <1>13 DEF AddTestPlayer, netVars
  <2>2. TestPlayer \notin Registered
    BY <1>0, <2>1 DEF TestPlayerInv
  <2>3. Registered' = Registered \cup {TestPlayer} /\ Distinct(Players)'
    BY <1>0, <2>1, <2>2, PlayerAppended
  <2>4. TestPlayerInv'
    BY <1>0, <2>1 DEF TestPlayerInv
  <2> QED
    BY <1>0, <1>11, <2>1, <2>3, <2>4
<1>14. CASE DropTestPlayer
  <2>1. /\ queue' = queue /\ link' = link /\ Players' = Without(Players, TestPlayer)
        /\ console = "remove" /\ testing' = testing /\ console' = "clear"
    BY <1>14 DEF DropTestPlayer, netVars
  <2>2. Registered' = Registered \ {TestPlayer} /\ Distinct(Players)'
    BY <1>0, <2>1, PlayerRemoved
  <2>3. TestPlayerInv'
    BY <1>0, <2>1, <2>2 DEF TestPlayerInv
  <2> QED
    BY <1>0, <1>11, <2>1, <2>2, <2>3
<1>15. CASE ClearTestPlayer
  <2>1. /\ queue' = queue /\ link' = link /\ Players' = Players
        /\ console = "clear" /\ testing' = FALSE /\ console' = "prompt"
    BY <1>15 DEF ClearTestPlayer, netVars
  <2>2. Registered' = Registered /\ Distinct(Players)' /\ TestPlayerInv'
    BY <1>0, <2>1 DEF Registered, TestPlayerInv
  <2> QED
    BY <1>11, <2>1, <2>2
<1> QED
  BY <1>1, <1>2, <1>3, <1>4, <1>5, <1>6, <1>7, <1>8, <1>9, <1>10, <1>12, <1>13, <1>14, <1>15
     DEF Next, Network, OnTick, Command

-----------------------------------------------------------------------------
\* The FIFO holds, of each connection, one Connected, updates and one
\* Disconnected in that order, and its player is listed in between.
THEOREM SessionsInOrder == Spec => []SessionInv
<1> QED
  BY SessionInit, SessionNext, TypeCorrect, PTL DEF Spec

\* The players are those of the connections up to the messages that wait,
\* whichever handshakes are aborted and whichever ticks exceptions end.
THEOREM SessionsMatchLinks == Spec => []SessionMatchesLink
<1>1. SessionInv => SessionMatchesLink
  BY DEF SessionInv, SessionOf, SessionMatchesLink, Pending
<1> QED
  BY <1>1, SessionsInOrder, PTL

\* The tick finds the player of every update it reads.
THEOREM UpdatesHavePlayers == Spec => []UpdateHasPlayer
<1>1. TypeOK /\ SessionInv => UpdateHasPlayer
  <2> SUFFICES ASSUME TypeOK, SessionInv, queue # <<>>, Head(queue).type = "Data"
               PROVE  Head(queue).conn \in Registered
    BY DEF UpdateHasPlayer
  <2>1. 1 \in DOMAIN queue /\ queue[1] \in Message /\ Head(queue) = queue[1]
        /\ \A i \in DOMAIN queue : ~(i < 1)
    BY DEF TypeOK
  <2>2. queue[1].conn \in Conn
    BY <2>1 DEF Message
  <2>3. From(queue[1].conn, 1) /\ queue[1].type = "Data"
    BY <2>1 DEF From
  <2>4. SessionOf(queue[1].conn)
    BY <2>2 DEF SessionInv
  <2> QED
    BY <2>1, <2>3, <2>4 DEF SessionOf
<1> QED
  BY <1>1, SessionsInOrder, TypeCorrect, PTL

\* Each player is on the list once, and the test player only while there is one.
THEOREM PlayersListedOnce == Spec => []OneEntryPerPlayer
<1>1. SessionInv => OneEntryPerPlayer
  BY DEF SessionInv, TestPlayerInv, OneEntryPerPlayer
<1> QED
  BY <1>1, SessionsInOrder, PTL

-----------------------------------------------------------------------------
\* Part 3: the slots.

\* A part of a set of at most n elements has at most n.
LEMMA BoundedPart ==
    ASSUME NEW S, NEW T, NEW n \in Nat, S \subseteq T,
           IsFiniteSet(T), Cardinality(T) <= n
    PROVE  IsFiniteSet(S) /\ Cardinality(S) <= n
<1>1. IsFiniteSet(S) /\ Cardinality(S) <= Cardinality(T)
  BY FS_Subset
<1>2. Cardinality(S) \in Nat /\ Cardinality(T) \in Nat
  BY <1>1, FS_CardinalityType
<1> QED
  BY <1>1, <1>2

\* A message that is released when no slot is taken finds the slots taken that
\* the last one found, and the earlier positions stay as they were.
LEMMA HeldOnRelease ==
    ASSUME TypeOK, HeldInv, NEW m \in Message, Release(m),
           m.type # "ConnectionApproval", Slots' \subseteq Slots,
           \A c \in Conn : m = Changed(c, "Disconnected") => c \in Slots
    PROVE  HeldInv'
<1>1. PICK n \in Nat : n = Len(queue)
  BY DEF TypeOK
<1>2. /\ DOMAIN queue = 1 .. n /\ DOMAIN queue' = 1 .. (n + 1) /\ Len(queue') = n + 1
      /\ \A i \in 1 .. n : queue'[i] = queue[i]
      /\ queue'[n + 1] = m
  BY <1>1, ReleaseFacts DEF Release, TypeOK
<1>3. SUFFICES ASSUME NEW k \in 0 .. n + 1
               PROVE  IsFiniteSet(Held(k)') /\ Cardinality(Held(k)') <= MaxPlayers
  BY <1>2 DEF HeldInv
<1>4. \A j \in 0 .. n : IsFiniteSet(Held(j)) /\ Cardinality(Held(j)) <= MaxPlayers
  BY <1>1 DEF HeldInv
<1>5. CASE k = n + 1
  <2>1. Held(k)' \subseteq Held(n)
    BY <1>2, <1>5 DEF Held, Slots
  <2> QED
    BY <1>4, <2>1, BoundedPart, BoundAssumption
<1>6. CASE k \in 0 .. n
  <2>1. \A i \in 1 .. n + 1, c \in Conn :
           AsksAt(c, i)' <=> i \in 1 .. n /\ AsksAt(c, i)
    BY <1>2 DEF AsksAt
  <2>2. ASSUME NEW c \in Held(k)'
        PROVE  c \in Held(k)
    <3>1. c \in Conn /\ \A i \in DOMAIN queue : i > k => ~AsksAt(c, i)
      BY <1>2, <2>1, <2>2 DEF Held
    <3>2. c \in Slots \/ \E i \in DOMAIN queue : i > k /\ queue[i] = Changed(c, "Disconnected")
      <4>1. CASE (c \in Slots)'
        BY <4>1
      <4>2. CASE \E i \in DOMAIN queue' : i > k /\ queue'[i] = Changed(c, "Disconnected")
        <5>1. PICK i \in DOMAIN queue' : i > k /\ queue'[i] = Changed(c, "Disconnected")
          BY <4>2
        <5>2. CASE i \in 1 .. n
          BY <1>2, <5>1, <5>2
        <5>3. CASE i = n + 1
          BY <1>2, <3>1, <5>1, <5>3
        <5> QED
          BY <1>2, <5>1, <5>2, <5>3
      <4> QED
        BY <2>2, <4>1, <4>2 DEF Held
    <3> QED
      BY <3>1, <3>2 DEF Held
  <2> QED
    BY <1>4, <1>6, <2>2, BoundedPart, BoundAssumption
<1> QED
  BY <1>5, <1>6

\* A connection takes a slot only when one is left, and until its approval has
\* been read it counts at no earlier position.
LEMMA HeldOnConnect ==
    ASSUME TypeOK, HeldInv, NEW c \in Conn, NEW version \in Versions,
           ReceiveConnect(c, version)
    PROVE  HeldInv'
<1>1. PICK n \in Nat : n = Len(queue)
  BY DEF TypeOK
<1>2. /\ Approval(c, version) \in Message
      /\ Approval(c, version).conn = c
      /\ Approval(c, version).type = "ConnectionApproval"
      /\ \A d \in Conn : Changed(d, "Disconnected").type = "StatusChanged"
  BY DEF Approval, Message, Changed
<1>3. /\ DOMAIN queue = 1 .. n /\ DOMAIN queue' = 1 .. (n + 1) /\ Len(queue') = n + 1
      /\ \A i \in 1 .. n : queue'[i] = queue[i]
      /\ queue'[n + 1] = Approval(c, version)
  BY <1>1, <1>2, ReleaseFacts DEF Release, TypeOK, ReceiveConnect
<1>4. \A d \in Conn : d # c => link'[d] = link[d]
  BY DEF ReceiveConnect, TypeOK
<1>5. SUFFICES ASSUME NEW k \in 0 .. n + 1
               PROVE  IsFiniteSet(Held(k)') /\ Cardinality(Held(k)') <= MaxPlayers
  BY <1>3 DEF HeldInv
<1>6. \A j \in 0 .. n : IsFiniteSet(Held(j)) /\ Cardinality(Held(j)) <= MaxPlayers
  BY <1>1 DEF HeldInv
<1>7. CASE k = n + 1
  <2>1. Held(k)' \subseteq Slots \cup {c} /\ Slots \subseteq Held(n)
    BY <1>3, <1>4, <1>7 DEF Held, Slots
  <2>2. IsFiniteSet(Slots) /\ Cardinality(Slots) \in Nat /\ Cardinality(Slots) < MaxPlayers
    BY <1>6, <2>1, FS_Subset, FS_CardinalityType DEF ReceiveConnect
  <2>3. IsFiniteSet(Slots \cup {c}) /\ Cardinality(Slots \cup {c}) <= MaxPlayers
    <3>1. c \notin Slots
      BY DEF ReceiveConnect, Fresh, Slots
    <3>2. /\ IsFiniteSet(Slots \cup {c})
          /\ Cardinality(Slots \cup {c}) = Cardinality(Slots) + 1
      BY <2>2, <3>1, FS_AddElement
    <3> QED
      BY <2>2, <3>2, BoundAssumption
  <2> QED
    BY <2>1, <2>3, BoundedPart, BoundAssumption
<1>8. CASE k \in 0 .. n
  <2>1. ASSUME NEW d \in Held(k)'
        PROVE  d \in Held(k)
    <3>1. d \in Conn /\ \A i \in DOMAIN queue' : i > k => ~AsksAt(d, i)'
      BY <2>1 DEF Held
    <3>2. d # c
      <4>1. n + 1 \in DOMAIN queue' /\ n + 1 > k /\ AsksAt(c, n + 1)'
        BY <1>2, <1>3, <1>8 DEF AsksAt
      <4> QED
        BY <3>1, <4>1
    <3>3. \A i \in DOMAIN queue : i > k => ~AsksAt(d, i)
      BY <1>3, <3>1 DEF AsksAt
    <3>4. d \in Slots' <=> d \in Slots
      BY <1>4, <3>1, <3>2 DEF Slots
    <3>5. ASSUME NEW i \in DOMAIN queue', i > k, queue'[i] = Changed(d, "Disconnected")
          PROVE  i \in DOMAIN queue /\ queue[i] = Changed(d, "Disconnected")
      BY <1>2, <1>3, <3>1, <3>5
    <3> QED
      BY <2>1, <3>1, <3>3, <3>4, <3>5 DEF Held
  <2> QED
    BY <1>6, <1>8, <2>1, BoundedPart, BoundAssumption
<1> QED
  BY <1>7, <1>8

\* Reading a message moves the positions up by one.
LEMMA HeldOnRead ==
    ASSUME TypeOK, HeldInv, NEW m, Read(m), Slots' \subseteq Slots
    PROVE  HeldInv'
<1>1. PICK n \in Nat : n = Len(queue)
  BY DEF TypeOK
<1>2. /\ n > 0 /\ DOMAIN queue = 1 .. n
      /\ DOMAIN queue' = 1 .. (n - 1) /\ Len(queue') = n - 1
      /\ \A i \in 1 .. (n - 1) : queue'[i] = queue[i + 1]
  BY <1>1, ReadFacts DEF TypeOK, Read
<1>3. SUFFICES ASSUME NEW k \in 0 .. n - 1
               PROVE  IsFiniteSet(Held(k)') /\ Cardinality(Held(k)') <= MaxPlayers
  BY <1>2 DEF HeldInv
<1>4. k + 1 \in 0 .. n
  BY <1>2
<1>5. IsFiniteSet(Held(k + 1)) /\ Cardinality(Held(k + 1)) <= MaxPlayers
  BY <1>1, <1>4 DEF HeldInv
<1>6. ASSUME NEW c \in Held(k)'
      PROVE  c \in Held(k + 1)
  <2>1. c \in Conn /\ \A i \in 1 .. (n - 1) : i > k => ~AsksAt(c, i)'
    BY <1>2, <1>6 DEF Held
  <2>2. ASSUME NEW i \in 1 .. n, i > k + 1
        PROVE  ~AsksAt(c, i)
    <3>1. i - 1 \in 1 .. (n - 1) /\ i - 1 > k /\ queue'[i - 1] = queue[i]
      <4>1. i - 1 \in 1 .. (n - 1) /\ i - 1 > k /\ (i - 1) + 1 = i
        BY <1>2, <2>2
      <4> QED
        BY <1>2, <4>1
    <3> QED
      BY <2>1, <3>1 DEF AsksAt
  <2>3. ASSUME NEW i \in 1 .. (n - 1), i > k, queue'[i] = Changed(c, "Disconnected")
        PROVE  i + 1 \in 1 .. n /\ i + 1 > k + 1 /\ queue[i + 1] = Changed(c, "Disconnected")
    BY <1>2, <2>3
  <2>4. c \in Slots \/ \E i \in 1 .. n : i > k + 1 /\ queue[i] = Changed(c, "Disconnected")
    BY <1>2, <1>6, <2>3 DEF Held
  <2> QED
    BY <1>2, <2>1, <2>2, <2>4 DEF Held
<1> QED
  BY <1>5, <1>6, BoundedPart, BoundAssumption

\* What is unanswered is answered, or stays as it is, unless it asks now.
LEMMA AskKeeps ==
    ASSUME TypeOK, NEW c \in Conn, AskInv(c),
           \/ queue' = queue
           \/ \E m \in Message :
                /\ Release(m)
                /\ m.conn = c => m.type # "ConnectionApproval"
                /\ m = Changed(c, "Connected") => link[c] = "RespondedConnect"
           \/ \E m \in Message : Read(m),
           Asks(c) /\ Asks(c)' => /\ link'[c] \in {link[c], "Disconnected"}
                                  /\ (c \in Registered)' => c \in Registered
    PROVE  AskInv(c)'
<1>1. PICK n \in Nat : n = Len(queue) /\ DOMAIN queue = 1 .. n
  BY DEF TypeOK
<1>2. CASE queue' = queue
  BY <1>2 DEF AskInv, Asks, AsksAt, Pending
<1>3. ASSUME NEW m \in Message, Release(m),
             m.conn = c => m.type # "ConnectionApproval",
             m = Changed(c, "Connected") => link[c] = "RespondedConnect"
      PROVE  AskInv(c)'
  <2>1. /\ DOMAIN queue' = 1 .. (n + 1)
        /\ \A i \in 1 .. n : queue'[i] = queue[i]
        /\ queue'[n + 1] = m
    BY <1>1, <1>3, ReleaseFacts
  <2>2. \A i \in 1 .. (n + 1) : AsksAt(c, i)' <=> i \in 1 .. n /\ AsksAt(c, i)
    BY <1>3, <2>1 DEF AsksAt
  <2>3. Asks(c)' => Asks(c)
    BY <1>1, <2>1, <2>2 DEF Asks
  <2>4. Asks(c) /\ Pending(c, "Connected")' => Pending(c, "Connected")
    BY <1>1, <1>3, <2>1 DEF AskInv, Pending
  <2> QED
    BY <1>1, <2>1, <2>2, <2>3, <2>4 DEF AskInv
<1>4. ASSUME NEW m \in Message, Read(m)
      PROVE  AskInv(c)'
  <2>1. /\ DOMAIN queue' = 1 .. (n - 1)
        /\ \A i \in 1 .. (n - 1) : i + 1 \in 1 .. n /\ queue'[i] = queue[i + 1]
    BY <1>1, <1>4, ReadShift
  <2>2. \A i \in 1 .. (n - 1) : AsksAt(c, i)' <=> AsksAt(c, i + 1)
    BY <2>1 DEF AsksAt
  <2>3. Asks(c)' => Asks(c)
    BY <1>1, <2>1, <2>2 DEF Asks
  <2>4. Pending(c, "Connected")' => Pending(c, "Connected")
    BY <1>1, <2>1 DEF Pending
  <2>5. ASSUME NEW i \in 1 .. (n - 1), NEW j \in 1 .. (n - 1), AsksAt(c, i)', AsksAt(c, j)'
        PROVE  i = j
    <3>1. i + 1 \in 1 .. n /\ j + 1 \in 1 .. n /\ AsksAt(c, i + 1) /\ AsksAt(c, j + 1)
      BY <2>1, <2>2, <2>5
    <3>2. i + 1 = j + 1
      BY <1>1, <3>1 DEF AskInv
    <3> QED
      BY <3>2
  <2> QED
    BY <2>1, <2>3, <2>4, <2>5 DEF AskInv
<1> QED
  BY <1>2, <1>3, <1>4

\* Once read, an approval asks no more.
LEMMA Answered ==
    ASSUME TypeOK, NEW c \in Conn, NEW version \in Versions, AskInv(c),
           Read(Approval(c, version))
    PROVE  Asks(c) /\ ~Asks(c)'
<1>1. PICK n \in Nat : n = Len(queue)
  BY DEF TypeOK
<1>2. /\ n > 0 /\ DOMAIN queue = 1 .. n /\ DOMAIN queue' = 1 .. (n - 1)
      /\ queue[1] = Approval(c, version)
      /\ \A i \in 1 .. (n - 1) : i + 1 \in 1 .. n /\ queue'[i] = queue[i + 1]
  BY <1>1, ReadShift
<1>3. 1 \in 1 .. n /\ AsksAt(c, 1)
  BY <1>2 DEF AsksAt, Approval
<1>4. ASSUME NEW i \in 1 .. (n - 1), AsksAt(c, i)'
      PROVE  FALSE
  <2>1. i + 1 \in 1 .. n /\ AsksAt(c, i + 1)
    BY <1>2, <1>4 DEF AsksAt
  <2>2. i + 1 = 1
    BY <1>2, <1>3, <2>1 DEF AskInv
  <2> QED
    BY <2>2
<1> QED
  BY <1>2, <1>3, <1>4 DEF Asks

LEMMA SlotInit == Init => SlotInv
<1> SUFFICES ASSUME Init PROVE SlotInv
  OBVIOUS
<1>1. queue = <<>> /\ Slots = {}
  BY DEF Init, Slots
<1>2. \A c \in Conn : AskInv(c)
  BY <1>1 DEF AskInv, Asks
<1>3. \A k \in 0 .. Len(queue) : Held(k) = {}
  BY <1>1 DEF Held
<1> QED
  BY <1>2, <1>3, FS_EmptySet, BoundAssumption DEF SlotInv, HeldInv

LEMMA SlotNext == TypeOK /\ SessionInv /\ SlotInv /\ [Next]_vars => SlotInv'
<1> SUFFICES ASSUME TypeOK, SessionInv, SlotInv, [Next]_vars PROVE SlotInv'
  OBVIOUS
<1> USE DEF netVars, playerVars, testVars, vehicleVars, clientVars
<1>0. /\ HeldInv /\ \A c \in Conn : AskInv(c)
      /\ Conn \subseteq Player /\ TestPlayer \in Player /\ TestPlayer \notin Conn
      /\ Distinct(Players)
  BY ConnAssumption DEF SlotInv, Player, SessionInv
<1>1. ASSUME NEW c \in Conn, NEW version \in Versions, ReceiveConnect(c, version)
      PROVE  SlotInv'
  <2>1. /\ Release(Approval(c, version)) /\ Approval(c, version) \in Message
        /\ Approval(c, version).conn = c /\ Registered' = Registered
        /\ \A d \in Conn : Approval(c, version) # Changed(d, "Connected")
        /\ link'[c] = "RespondedAwaitingApproval"
        /\ \A d \in Conn \ {c} : link'[d] = link[d]
    BY <1>1 DEF ReceiveConnect, Approval, Message, Changed, Registered, TypeOK
  <2>2. ASSUME NEW d \in Conn \ {c} PROVE AskInv(d)'
    BY <1>0, <2>1, AskKeeps
  <2>3. AskInv(c)'
    <3>1. PICK n \in Nat : n = Len(queue)
      BY DEF TypeOK
    <3>2. /\ DOMAIN queue = 1 .. n /\ DOMAIN queue' = 1 .. (n + 1)
          /\ \A i \in 1 .. n : queue'[i] = queue[i] /\ queue[i].conn # c
          /\ queue'[n + 1] = Approval(c, version)
      BY <1>1, <2>1, <3>1, ReleaseFacts DEF ReceiveConnect, Fresh
    <3>3. ~Pending(c, "Connected")'
      BY <2>1, <3>2 DEF Pending, Changed
    <3>4. \A i \in 1 .. (n + 1) : AsksAt(c, i)' => i = n + 1
      BY <3>2 DEF AsksAt
    <3>5. c \notin Registered
      BY <1>1 DEF ReceiveConnect, Fresh
    <3> QED
      BY <2>1, <3>2, <3>3, <3>4, <3>5 DEF AskInv
  <2> QED
    BY <1>0, <1>1, <2>2, <2>3, HeldOnConnect DEF SlotInv
<1>2. ASSUME NEW c \in Conn, ReceiveConnectionEstablished(c)
      PROVE  SlotInv'
  <2>1. /\ Release(Changed(c, "Connected")) /\ Changed(c, "Connected") \in Message
        /\ Changed(c, "Connected").conn = c /\ Registered' = Registered
        /\ Changed(c, "Connected").type = "StatusChanged"
        /\ \A d \in Conn : Changed(c, "Connected") # Changed(d, "Disconnected")
        /\ \A d \in Conn : Changed(c, "Connected") = Changed(d, "Connected") => d = c
        /\ link[c] = "RespondedConnect" /\ link'[c] = "Connected"
        /\ \A d \in Conn \ {c} : link'[d] = link[d]
    BY <1>2 DEF ReceiveConnectionEstablished, Message, Changed, Registered, TypeOK
  <2>2. ASSUME NEW d \in Conn PROVE AskInv(d)'
    <3>1. Asks(d) => d # c
      BY <1>0, <2>1 DEF AskInv
    <3> QED
      BY <1>0, <2>1, <3>1, AskKeeps
  <2>3. Slots' \subseteq Slots
    BY <2>1 DEF Slots
  <2> QED
    BY <1>0, <2>1, <2>2, <2>3, HeldOnRelease DEF SlotInv
<1>3. ASSUME NEW c \in Conn, ExecuteDisconnect(c)
      PROVE  SlotInv'
  <2>1. /\ Release(Changed(c, "Disconnected")) /\ Changed(c, "Disconnected") \in Message
        /\ Registered' = Registered
        /\ Changed(c, "Disconnected").type = "StatusChanged"
        /\ \A d \in Conn : Changed(c, "Disconnected") # Changed(d, "Connected")
        /\ \A d \in Conn : Changed(c, "Disconnected") = Changed(d, "Disconnected") => d = c
        /\ c \in Slots /\ link'[c] = "Disconnected"
        /\ \A d \in Conn \ {c} : link'[d] = link[d]
    BY <1>3 DEF ExecuteDisconnect, Message, Changed, Registered, TypeOK
  <2>2. ASSUME NEW d \in Conn PROVE AskInv(d)'
    BY <1>0, <2>1, AskKeeps
  <2>3. Slots' \subseteq Slots
    BY <2>1 DEF Slots
  <2> QED
    BY <1>0, <2>1, <2>2, <2>3, HeldOnRelease DEF SlotInv
<1>4. ASSUME NEW c \in Conn, NEW v \in {0} \cup streamed[c], ReceiveUpdate(c, v)
      PROVE  SlotInv'
  <2>1. v \in Nat
    BY DEF TypeOK
  <2>2. /\ Release(Update(c, v)) /\ Update(c, v) \in Message
        /\ Registered' = Registered /\ Update(c, v).type = "Data"
        /\ \A d \in Conn, s \in {"Connected", "Disconnected"} : Update(c, v) # Changed(d, s)
        /\ link' = link /\ Slots' = Slots
    BY <1>4, <2>1 DEF ReceiveUpdate, Message, Update, Changed, Registered, Slots
  <2>3. ASSUME NEW d \in Conn PROVE AskInv(d)'
    BY <1>0, <2>2, AskKeeps
  <2> QED
    BY <1>0, <2>2, <2>3, HeldOnRelease DEF SlotInv
<1>5. ASSUME NEW c \in Conn, NEW version \in Versions, HandleApproval(c, version)
      PROVE  SlotInv'
  <2>1. /\ Read(Approval(c, version)) /\ Approval(c, version) \in Message
        /\ Registered' = Registered
        /\ \A d \in Conn \ {c} : link'[d] = link[d]
        /\ link'[c] # link[c] => link[c] = "RespondedAwaitingApproval"
    BY <1>5 DEF HandleApproval, Message, Approval, Registered, TypeOK
  <2>2. ~Asks(c)'
    BY <1>0, <2>1, Answered
  <2>3. ASSUME NEW d \in Conn PROVE AskInv(d)'
    BY <1>0, <2>1, <2>2, AskKeeps
  <2>4. Slots' \subseteq Slots
    BY <2>1 DEF Slots
  <2> QED
    BY <1>0, <2>1, <2>3, <2>4, HeldOnRead DEF SlotInv
<1>6. ASSUME NEW c \in Conn, NEW ok \in BOOLEAN, HandleConnected(c, ok)
      PROVE  SlotInv'
  <2>1. /\ Read(Changed(c, "Connected")) /\ Changed(c, "Connected") \in Message
        /\ link' = link /\ Slots' = Slots /\ Players' = Append(Players, c)
    BY <1>6 DEF HandleConnected, Message, Changed, Slots
  <2>2. c \notin Registered /\ Pending(c, "Connected")
    <3>1. 1 \in DOMAIN queue /\ queue[1] = Changed(c, "Connected")
      BY <2>1, ReadFacts
    <3>2. Pending(c, "Connected")
      BY <3>1 DEF Pending
    <3> QED
      BY <2>1, <3>2, ConnectedRead DEF SessionInv
  <2>3. Registered' = Registered \cup {c}
    BY <1>0, <2>1, <2>2, PlayerAppended
  <2>4. ~Asks(c)
    BY <1>0, <2>2 DEF AskInv
  <2>5. ASSUME NEW d \in Conn PROVE AskInv(d)'
    BY <1>0, <2>1, <2>3, <2>4, AskKeeps
  <2> QED
    BY <1>0, <2>1, <2>5, HeldOnRead DEF SlotInv
<1>7. ASSUME NEW c \in Conn, NEW ok \in BOOLEAN, HandleDisconnected(c, ok)
      PROVE  SlotInv'
  <2>1. /\ Read(Changed(c, "Disconnected")) /\ Changed(c, "Disconnected") \in Message
        /\ link' = link /\ Slots' = Slots /\ Players' = Without(Players, c)
    BY <1>7 DEF HandleDisconnected, Message, Changed, Slots
  <2>2. Registered' = Registered \ {c}
    BY <1>0, <2>1, PlayerRemoved
  <2>3. ASSUME NEW d \in Conn PROVE AskInv(d)'
    BY <1>0, <2>1, <2>2, AskKeeps
  <2> QED
    BY <1>0, <2>1, <2>3, HeldOnRead DEF SlotInv
<1>8. ASSUME NEW m \in Message, Read(m), link' = link, Players' = Players
      PROVE  SlotInv'
  <2>1. Slots' = Slots /\ Registered' = Registered
    BY <1>8 DEF Slots, Registered
  <2>2. ASSUME NEW d \in Conn PROVE AskInv(d)'
    BY <1>0, <1>8, <2>1, AskKeeps
  <2> QED
    BY <1>0, <1>8, <2>1, <2>2, HeldOnRead DEF SlotInv
<1>9. ASSUME NEW c \in Conn, HandleDisconnectedStranger(c)
      PROVE  SlotInv'
  BY <1>8, <1>9 DEF HandleDisconnectedStranger, Changed, Message
<1>10. ASSUME NEW c \in Conn, NEW v \in 0 .. MaxVehicles, HandleUpdate(c, v)
       PROVE  SlotInv'
  <2>1. v \in Nat
    BY BoundAssumption
  <2> QED
    BY <1>8, <1>10, <2>1 DEF HandleUpdate, Update, Message
<1>11. ASSUME queue' = queue, link' = link, Registered' \subseteq Registered \cup {TestPlayer}
       PROVE  SlotInv'
  <2>1. Slots' = Slots
    BY <1>11 DEF Slots
  <2>2. ASSUME NEW d \in Conn PROVE AskInv(d)'
    BY <1>0, <1>11, AskKeeps
  <2>3. \A k \in 0 .. Len(queue) : Held(k)' = Held(k)
    BY <1>11, <2>1 DEF Held, AsksAt
  <2> QED
    BY <1>0, <1>11, <2>2, <2>3 DEF SlotInv, HeldInv
<1>12. CASE Elapsed \/ UpdateAllPlayers \/ UpdateAllVehicles
  BY <1>11, <1>12 DEF Elapsed, UpdateAllPlayers, UpdateAllVehicles, Registered
<1>13. CASE CreateTestPlayer \/ RemoveTestPlayer \/ ClearTestPlayer
  BY <1>11, <1>13 DEF CreateTestPlayer, RemoveTestPlayer, ClearTestPlayer, Registered
<1>14. CASE AddTestPlayer
  <2>1. TestPlayer \notin Registered
    BY <1>14 DEF AddTestPlayer, SessionInv, TestPlayerInv
  <2>2. Registered' = Registered \cup {TestPlayer}
    BY <1>0, <1>14, <2>1, PlayerAppended DEF AddTestPlayer
  <2> QED
    BY <1>11, <1>14, <2>2 DEF AddTestPlayer
<1>15. CASE DropTestPlayer
  <2>1. Registered' = Registered \ {TestPlayer}
    BY <1>0, <1>15, PlayerRemoved DEF DropTestPlayer
  <2> QED
    BY <1>11, <1>15, <2>1 DEF DropTestPlayer
<1>16. CASE UNCHANGED vars
  BY <1>11, <1>16 DEF vars, Registered
<1> QED
  BY <1>1, <1>2, <1>3, <1>4, <1>5, <1>6, <1>7, <1>9, <1>10, <1>12, <1>13, <1>14,
     <1>15, <1>16 DEF Next, Network, OnTick, Command

-----------------------------------------------------------------------------
\* At no position of the FIFO were more slots taken than there are, and no
\* connection asks twice: what the network thread counts and what the tick has
\* still to read, put together.
THEOREM SlotsInOrder == Spec => []SlotInv
<1>1. TypeOK /\ SessionInv /\ SlotInv /\ [Next]_vars => SlotInv'
  BY SlotNext
<1> QED
  BY <1>1, SlotInit, TypeCorrect, SessionsInOrder, PTL DEF Spec

\* A player's connection had its slot before any message that still waits.
LEMMA CapacityHolds == TypeOK /\ SessionInv /\ SlotInv => /\ IsFiniteSet(Registered \ {TestPlayer})
                                                          /\ CapacityRespected
<1> SUFFICES ASSUME TypeOK, SessionInv, SlotInv
             PROVE  IsFiniteSet(Registered \ {TestPlayer}) /\ CapacityRespected
  OBVIOUS
<1>1. 0 \in 0 .. Len(queue) /\ DOMAIN queue = 1 .. Len(queue)
  BY DEF TypeOK
<1>2. IsFiniteSet(Held(0)) /\ Cardinality(Held(0)) <= MaxPlayers
  BY <1>1 DEF SlotInv, HeldInv
<1>3. ASSUME NEW c \in Registered \ {TestPlayer}
      PROVE  c \in Held(0)
  <2>1. c \in Conn
    BY DEF TypeOK, Registered, Elements, Player
  <2>2. \A i \in DOMAIN queue : ~AsksAt(c, i)
    BY <2>1 DEF SlotInv, AskInv, Asks
  <2>3. link[c] \in {"Connected", "Disconnected"}
    BY <2>1 DEF SessionInv, SessionOf
  <2>4. CASE link[c] = "Connected"
    BY <2>1, <2>2, <2>4 DEF Held, Slots
  <2>5. CASE link[c] = "Disconnected"
    <3>1. PICK i \in DOMAIN queue : queue[i] = Changed(c, "Disconnected")
      BY <2>1, <2>5 DEF SessionInv, SessionOf, Pending
    <3>2. i > 0
      BY <1>1
    <3> QED
      BY <2>1, <2>2, <3>1, <3>2 DEF Held
  <2> QED
    BY <2>3, <2>4, <2>5
<1> QED
  BY <1>2, <1>3, BoundedPart, BoundAssumption DEF CapacityRespected

\* There are never more players of connections than MaxPlayers, although the
\* network thread frees the slot before the tick drops the player.
THEOREM PlayersWithinCapacity == Spec => []CapacityRespected
<1>1. TypeOK /\ SessionInv /\ SlotInv => CapacityRespected
  BY CapacityHolds
<1> QED
  BY <1>1, TypeCorrect, SessionsInOrder, SlotsInOrder, PTL

\* A list without repetitions is as long as its elements are many.
LEMMA DistinctLength ==
    ASSUME NEW S, NEW list \in Seq(S), Distinct(list)
    PROVE  IsFiniteSet(Elements(list)) /\ Cardinality(Elements(list)) = Len(list)
<1>1. PICK n \in Nat : n = Len(list) /\ DOMAIN list = 1 .. n
  OBVIOUS
<1>2. list \in Bijection(1 .. n, Elements(list))
  <2>1. list \in [1 .. n -> Elements(list)]
    BY <1>1 DEF Elements
  <2>2. \A i, j \in 1 .. n : list[i] = list[j] => i = j
    BY <1>1 DEF Distinct
  <2>3. \A e \in Elements(list) : \E i \in 1 .. n : list[i] = e
    BY <1>1 DEF Elements
  <2> QED
    BY <2>1, <2>2, <2>3 DEF Bijection, Injection, Surjection, IsInjective
<1>3. ExistsBijection(1 .. n, Elements(list))
  BY <1>2 DEF ExistsBijection
<1>4. IsFiniteSet(Elements(list))
  BY <1>3, FS_NatBijection
<1> QED
  BY <1>1, <1>3, <1>4, FS_CountingElements

\* A player that may be added finds at most MaxPlayers others on the list.
LEMMA NewIDBounded ==
    ASSUME TypeOK, SessionInv, SlotInv, TypeOK', SessionInv', SlotInv',
           NEW p \in Player, p \notin Registered, Registered' = Registered \cup {p}
    PROVE  FreeID(PlayerIDs) \in 1 .. MaxPlayers + 1
<1> DEFINE R == Registered \ {TestPlayer}
<1>1. /\ IsFiniteSet(Registered) /\ Cardinality(Registered) = Len(Players)
  BY DistinctLength DEF TypeOK, SessionInv, Registered
<1>2. /\ IsFiniteSet(R) /\ Cardinality(R) \in Nat /\ Cardinality(R) <= MaxPlayers
  BY CapacityHolds, FS_CardinalityType DEF CapacityRespected
<1>3. CapacityRespected'
  BY CapacityHolds, PTL
<1>4. Len(Players) <= MaxPlayers
  <2>1. CASE p = TestPlayer
    BY <1>1, <1>2, <2>1
  <2>2. CASE p # TestPlayer
    <3>1. Registered' \ {TestPlayer} = R \cup {p} /\ p \notin R
      BY <2>2
    <3>2. Cardinality(R \cup {p}) = Cardinality(R) + 1
      BY <1>2, <3>1, FS_AddElement
    <3>3. Cardinality(R \cup {p}) <= MaxPlayers
      BY <1>3, <3>1 DEF CapacityRespected
    <3>4. Cardinality(Registered) <= Cardinality(R) + 1
      BY <1>1, <1>2, FS_RemoveElement, FS_CardinalityType
    <3> QED
      BY <1>1, <1>2, <3>2, <3>3, <3>4, BoundAssumption
  <2> QED
    BY <2>1, <2>2
<1>5. Len(Players) \in Nat
  BY DEF TypeOK
<1>6. FreeID(PlayerIDs) \in 1 .. Len(Players) + 1
  BY FreeIDTypes, FreeIDBounded
<1> QED
  BY <1>4, <1>5, <1>6, BoundAssumption

LEMMA IDsNext ==
    /\ TypeOK /\ SessionInv /\ SlotInv /\ TypeOK' /\ SessionInv' /\ SlotInv'
    /\ PlayerIDsBounded /\ [Next]_vars
    => PlayerIDsBounded'
<1> SUFFICES ASSUME TypeOK, SessionInv, SlotInv, TypeOK', SessionInv', SlotInv',
                    PlayerIDsBounded, [Next]_vars
             PROVE  PlayerIDsBounded'
  OBVIOUS
<1> USE DEF netVars, playerVars, testVars, vehicleVars, clientVars
<1>0. /\ Conn \subseteq Player /\ TestPlayer \in Player /\ TestPlayer \notin Conn
      /\ Distinct(Players) /\ ID \in [Player -> Nat] /\ Registered \subseteq Player
      /\ TestPlayerInv
  BY ConnAssumption DEF Player, SessionInv, TypeOK, Registered, Elements
<1>1. ASSUME Registered' = Registered, \A p \in Registered : ID'[p] = ID[p]
      PROVE  PlayerIDsBounded'
  BY <1>1 DEF PlayerIDsBounded
<1>2. ASSUME NEW p \in Player, p \notin Registered, Players' = Append(Players, p),
             ID' = [ID EXCEPT ![p] = FreeID(PlayerIDs)]
      PROVE  PlayerIDsBounded'
  <2>1. Registered' = Registered \cup {p}
    BY <1>0, <1>2, PlayerAppended
  <2>2. FreeID(PlayerIDs) \in 1 .. MaxPlayers + 1
    BY <1>2, <2>1, NewIDBounded
  <2>3. \A q \in Player : ID'[q] = IF q = p THEN FreeID(PlayerIDs) ELSE ID[q]
    BY <1>0, <1>2
  <2> QED
    BY <1>0, <2>1, <2>2, <2>3 DEF PlayerIDsBounded
<1>3. ASSUME NEW p \in Player, Players' = Without(Players, p),
             \A q \in Player : q # p => ID'[q] = ID[q]
      PROVE  PlayerIDsBounded'
  <2>1. Registered' = Registered \ {p}
    BY <1>0, <1>3, PlayerRemoved
  <2> QED
    BY <1>0, <1>3, <2>1 DEF PlayerIDsBounded
<1>4. CASE \E c \in Conn, ok \in BOOLEAN : HandleConnected(c, ok)
  <2>1. PICK c \in Conn, ok \in BOOLEAN : HandleConnected(c, ok)
    BY <1>4
  <2>2. Read(Changed(c, "Connected")) /\ SessionOf(c)
    BY <2>1 DEF HandleConnected, SessionInv
  <2>3. c \notin Registered
    BY <2>2, ConnectedRead
  <2> QED
    BY <1>0, <1>2, <2>1, <2>3 DEF HandleConnected
<1>5. CASE \E c \in Conn, ok \in BOOLEAN : HandleDisconnected(c, ok)
  <2>1. PICK c \in Conn, ok \in BOOLEAN : HandleDisconnected(c, ok)
    BY <1>5
  <2>2. \A q \in Player : q # c => ID'[q] = ID[q]
    BY <1>0, <2>1 DEF HandleDisconnected
  <2> QED
    BY <1>0, <1>3, <2>1, <2>2 DEF HandleDisconnected
<1>6. CASE AddTestPlayer
  <2>1. TestPlayer \notin Registered
    BY <1>0, <1>6 DEF AddTestPlayer, TestPlayerInv
  <2> QED
    BY <1>0, <1>2, <1>6, <2>1 DEF AddTestPlayer
<1>7. CASE DropTestPlayer
  BY <1>0, <1>3, <1>7 DEF DropTestPlayer
<1>8. CASE ClearTestPlayer
  <2>1. TestPlayer \notin Registered
    BY <1>0, <1>8 DEF ClearTestPlayer, TestPlayerInv
  <2>2. \A p \in Registered : ID'[p] = ID[p]
    BY <1>0, <1>8, <2>1 DEF ClearTestPlayer
  <2>3. Registered' = Registered
    BY <1>8 DEF ClearTestPlayer, Registered
  <2> QED
    BY <1>1, <2>2, <2>3
<1>9. ASSUME playerVars' = playerVars
      PROVE  PlayerIDsBounded'
  BY <1>1, <1>9 DEF Registered
<1>10. CASE Network
  BY <1>9, <1>10 DEF Network, ReceiveConnect, ReceiveConnectionEstablished,
                     ExecuteDisconnect, ReceiveUpdate
<1>11. ASSUME NEW c \in Conn,
              \/ \E version \in Versions : HandleApproval(c, version)
              \/ HandleDisconnectedStranger(c)
              \/ \E v \in 0 .. MaxVehicles : HandleUpdate(c, v)
       PROVE  PlayerIDsBounded'
  BY <1>9, <1>11 DEF HandleApproval, HandleDisconnectedStranger, HandleUpdate
<1>12. CASE Elapsed \/ UpdateAllPlayers \/ UpdateAllVehicles \/ CreateTestPlayer
            \/ RemoveTestPlayer \/ UNCHANGED vars
  BY <1>9, <1>12 DEF Elapsed, UpdateAllPlayers, UpdateAllVehicles, CreateTestPlayer,
                     RemoveTestPlayer, vars
<1> QED
  BY <1>4, <1>5, <1>6, <1>7, <1>8, <1>10, <1>11, <1>12 DEF Next, OnTick, Command

\* The IDs of the players stay within 1 .. MaxPlayers + 1 however many come and
\* go: the scan of Add never needs more than one ID beyond the players there
\* are, and they are never more than the slots and the test player.
THEOREM PlayerIDsStayBounded == Spec => []PlayerIDsBounded
<1>1. Init => PlayerIDsBounded
  BY DEF Init, PlayerIDsBounded, Registered, Elements
<1>2. /\ TypeOK /\ SessionInv /\ SlotInv /\ TypeOK' /\ SessionInv' /\ SlotInv'
      /\ PlayerIDsBounded /\ [Next]_vars
      => PlayerIDsBounded'
  BY IDsNext
<1> QED
  BY <1>1, <1>2, TypeCorrect, SessionsInOrder, SlotsInOrder, PTL DEF Spec

-----------------------------------------------------------------------------
\* Part 4: the stream.

USE DEF netVars, playerVars, testVars, vehicleVars, clientVars

-----------------------------------------------------------------------------
\* The list of vehicles.

\* A step leaves the list alone or adds the vehicle that FreeID numbers.
LEMMA VehiclesStep ==
    ASSUME TypeOK, [Next]_vars
    PROVE  Vehicles' = Vehicles \/ Vehicles' = Append(Vehicles, FreeID(Vehicles))
<1>1. ASSUME NEW c \in Conn, NEW ok \in BOOLEAN, HandleConnected(c, ok) \/ HandleDisconnected(c, ok)
      PROVE  Vehicles' = Vehicles \/ Vehicles' = Append(Vehicles, FreeID(Vehicles))
  BY <1>1 DEF HandleConnected, HandleDisconnected, Trigger, AddVehicle
<1>2. ASSUME NEW c \in Conn, NEW v \in 0 .. MaxVehicles, HandleUpdate(c, v)
      PROVE  Vehicles' = Vehicles
  BY <1>2 DEF HandleUpdate
<1>3. CASE UpdateAllPlayers \/ UpdateAllVehicles
  BY <1>3 DEF UpdateAllPlayers, UpdateAllVehicles
<1> QED
  BY <1>1, <1>2, <1>3 DEF Next, Network, OnTick, Command, ReceiveConnect, ReceiveConnectionEstablished,
     ExecuteDisconnect, ReceiveUpdate, Elapsed, HandleApproval, HandleDisconnectedStranger,
     CreateTestPlayer, AddTestPlayer, RemoveTestPlayer, DropTestPlayer, ClearTestPlayer, vars

\* So what is on the list keeps its place.
LEMMA VehiclesKept ==
    ASSUME TypeOK, [Next]_vars
    PROVE  /\ DOMAIN Vehicles \subseteq DOMAIN Vehicles'
           /\ \A i \in DOMAIN Vehicles : Vehicles'[i] = Vehicles[i]
           /\ \A id : Exists(id) => \E i \in DOMAIN Vehicles' : Vehicles'[i] = id
<1>1. Vehicles \in Seq(Nat) /\ FreeID(Vehicles) \in Nat
  BY FreeIDTypes DEF TypeOK
<1>2. /\ DOMAIN Vehicles \subseteq DOMAIN Vehicles'
      /\ \A i \in DOMAIN Vehicles : Vehicles'[i] = Vehicles[i]
  BY <1>1, VehiclesStep
<1> QED
  BY <1>2 DEF Exists

\* Vehicle IDs are list positions.
THEOREM VehicleIDsAreDense == Spec => []VehicleIDsDense
<1>1. Init => VehicleIDsDense
  BY DEF Init, VehicleIDsDense, Dense
<1>2. TypeOK /\ VehicleIDsDense /\ [Next]_vars => VehicleIDsDense'
  <2> SUFFICES ASSUME TypeOK, VehicleIDsDense, [Next]_vars PROVE VehicleIDsDense'
    OBVIOUS
  <2>1. Vehicles \in Seq(Nat)
    BY DEF TypeOK
  <2>2. Dense(Append(Vehicles, FreeID(Vehicles)))
    BY <2>1, FreeIDOfDense DEF VehicleIDsDense
  <2> QED
    BY <2>2, VehiclesStep DEF VehicleIDsDense
<1> QED
  BY <1>1, <1>2, TypeCorrect, PTL DEF Spec

\* A player is recorded in no vehicle but one that exists, so the lookup when
\* it leaves the vehicle finds one.
THEOREM CurrentVehiclesExist == Spec => []CurrentVehicleExists
<1>1. Init => CurrentVehicleExists
  BY DEF Init, CurrentVehicleExists
<1>2. TypeOK /\ CurrentVehicleExists /\ [Next]_vars => CurrentVehicleExists'
  <2> SUFFICES ASSUME TypeOK, CurrentVehicleExists, [Next]_vars, NEW p \in Player,
                      CurrentVehicle'[p] > 0
               PROVE  \E i \in DOMAIN Vehicles' : Vehicles'[i] = CurrentVehicle'[p]
    BY DEF CurrentVehicleExists, Exists
  <2>1. CurrentVehicle'[p] = CurrentVehicle[p] \/ Exists(CurrentVehicle'[p])
    <3>1. ASSUME NEW c \in Conn, NEW v \in 0 .. MaxVehicles, HandleUpdate(c, v)
          PROVE  CurrentVehicle'[p] = CurrentVehicle[p] \/ Exists(CurrentVehicle'[p])
      <4>1. v \in Nat
        BY BoundAssumption
      <4>2. CurrentVehicle'[p] \in {CurrentVehicle[p], 0} \/ Exists(CurrentVehicle'[p])
        BY <3>1, <4>1, UpdateEffects
      <4> QED
        BY <4>2
    <3>2. ASSUME NEW q \in Player, CurrentVehicle' = [CurrentVehicle EXCEPT ![q] = 0]
          PROVE  CurrentVehicle'[p] = CurrentVehicle[p]
      BY <3>2 DEF TypeOK
    <3> QED
      BY <3>1, <3>2 DEF Next, Network, OnTick, Command, ReceiveConnect,
         ReceiveConnectionEstablished, ExecuteDisconnect, ReceiveUpdate, Elapsed, HandleApproval,
         HandleConnected, HandleDisconnected, HandleDisconnectedStranger, UpdateAllPlayers,
         UpdateAllVehicles, CreateTestPlayer, AddTestPlayer, RemoveTestPlayer, DropTestPlayer,
         ClearTestPlayer, Player, vars
  <2>2. CurrentVehicle'[p] = CurrentVehicle[p] => Exists(CurrentVehicle'[p])
    BY DEF CurrentVehicleExists
  <2> QED
    BY <2>1, <2>2, VehiclesKept
<1> QED
  BY <1>1, <1>2, TypeCorrect, PTL DEF Spec

-----------------------------------------------------------------------------
\* What the clients have been told and sent.

StreamInv == ClientInv /\ DriverWasSentVehicle

\* A step that leaves the connections, the FIFO and the drivers alone, and
\* takes nothing from what was sent.
LEMMA StreamGrows ==
    ASSUME TypeOK, StreamInv, [Next]_vars, link' = link, queue' = queue, Driver' = Driver,
           \A c \in Conn : streamed[c] \subseteq streamed'[c],
           \A c \in Conn \ Connections : told'[c] = {} /\ streamed'[c] = {}
    PROVE  StreamInv'
<1>1. /\ DOMAIN Vehicles \subseteq DOMAIN Vehicles'
      /\ \A i \in DOMAIN Vehicles : Vehicles'[i] = Vehicles[i]
  BY VehiclesKept
<1>2. Connections' = Connections
  BY DEF Connections
<1>3. ASSUME NEW i \in DOMAIN queue, queue[i].type = "Data", queue[i].conn \in Connections
      PROVE  queue[i].vehicle \in {0} \cup streamed'[queue[i].conn]
  <2>1. queue[i].vehicle \in {0} \cup streamed[queue[i].conn]
    BY <1>3 DEF StreamInv, ClientInv
  <2> QED
    BY <1>3, <2>1 DEF Connections
<1>4. ClientInv'
  BY <1>1, <1>2, <1>3 DEF StreamInv, ClientInv
<1>5. ASSUME NEW i \in DOMAIN Vehicles', Driver[i] \in Connections
      PROVE  Vehicles'[i] \in streamed'[Driver[i]]
  <2>1. i \in 1 .. MaxVehicles
    <3>1. TypeOK'
      BY TypeNext
    <3>2. Vehicles' \in Seq(Nat) /\ Len(Vehicles') <= MaxVehicles
      BY <3>1 DEF TypeOK
    <3> QED
      BY <1>5, <3>2, BoundAssumption
  <2>2. i \in DOMAIN Vehicles
    BY <1>5, <2>1 DEF StreamInv, ClientInv, Connections
  <2>3. Vehicles[i] \in streamed[Driver[i]]
    BY <1>5, <2>2 DEF StreamInv, DriverWasSentVehicle
  <2> QED
    BY <1>1, <1>5, <2>2, <2>3 DEF Connections
<1>6. DriverWasSentVehicle'
  BY <1>2, <1>5 DEF DriverWasSentVehicle
<1> QED
  BY <1>4, <1>6 DEF StreamInv

\* A step that reads a message and leaves the connections, the drivers and
\* what was sent alone.
LEMMA StreamRead ==
    ASSUME TypeOK, StreamInv, [Next]_vars, NEW m \in Message, Read(m), Driver' = Driver,
           \A c \in Conn : link'[c] = link[c] \/
               /\ link[c] = "RespondedAwaitingApproval"
               /\ link'[c] \in {"RespondedConnect", "Denied"},
           streamed' = streamed,
           \A c \in Conn \ Connections : told'[c] = {}
    PROVE  StreamInv'
<1>1. /\ DOMAIN Vehicles \subseteq DOMAIN Vehicles'
      /\ \A i \in DOMAIN Vehicles : Vehicles'[i] = Vehicles[i]
  BY VehiclesKept
<1>2. Connections' = Connections
  BY DEF Connections
<1>3. PICK n \in Nat : n = Len(queue)
  BY DEF TypeOK
<1>4. /\ DOMAIN queue = 1 .. n /\ DOMAIN queue' = 1 .. (n - 1)
      /\ \A i \in 1 .. (n - 1) : queue'[i] = queue[i + 1] /\ i + 1 \in 1 .. n
  BY <1>3, ReadFacts
<1>5. ASSUME NEW i \in DOMAIN queue', queue'[i].type = "Data", queue'[i].conn \in Connections
      PROVE  queue'[i].vehicle \in {0} \cup streamed[queue'[i].conn]
  BY <1>4, <1>5 DEF StreamInv, ClientInv
<1>6. ASSUME NEW c \in Conn, NEW i \in 1 .. MaxVehicles,
             link'[c] \in {"RespondedAwaitingApproval", "RespondedConnect"}
      PROVE  Driver[i] # c
  BY <1>6 DEF StreamInv, ClientInv
<1>7. ClientInv'
  BY <1>1, <1>2, <1>5, <1>6 DEF StreamInv, ClientInv
<1>8. ASSUME NEW i \in DOMAIN Vehicles', Driver[i] \in Connections
      PROVE  Vehicles'[i] \in streamed[Driver[i]]
  <2>1. i \in 1 .. MaxVehicles
    <3>1. TypeOK'
      BY TypeNext
    <3>2. Vehicles' \in Seq(Nat) /\ Len(Vehicles') <= MaxVehicles
      BY <3>1 DEF TypeOK
    <3> QED
      BY <1>8, <3>2, BoundAssumption
  <2>2. i \in DOMAIN Vehicles
    BY <1>8, <2>1 DEF StreamInv, ClientInv, Connections
  <2> QED
    BY <1>1, <1>8, <2>2 DEF StreamInv, DriverWasSentVehicle
<1>9. DriverWasSentVehicle'
  BY <1>2, <1>8 DEF DriverWasSentVehicle
<1> QED
  BY <1>7, <1>9 DEF StreamInv

LEMMA StreamInit == Init => StreamInv
<1> SUFFICES ASSUME Init PROVE StreamInv
  OBVIOUS
<1>1. \A i \in 1 .. MaxVehicles : Driver[i] \notin Conn
  BY ConnAssumption DEF Init
<1>2. Connections = {}
  BY DEF Init, Connections
<1>3. ClientInv
  BY <1>1, <1>2 DEF Init, ClientInv
<1>4. DriverWasSentVehicle
  BY <1>2 DEF DriverWasSentVehicle
<1> QED
  BY <1>3, <1>4 DEF StreamInv

\* A step that leaves the vehicles, their drivers and what was sent alone and
\* releases a message, an update only of a vehicle its sender was sent.
LEMMA StreamRelease ==
    ASSUME TypeOK, StreamInv, NEW m \in Message, Release(m),
           vehicleVars' = vehicleVars, clientVars' = clientVars,
           NEW c \in Conn, m.conn = c, \A d \in Conn \ {c} : link'[d] = link[d],
           m.type = "Data" => m.vehicle \in {0} \cup streamed[c],
           \/ link'[c] = link[c]
           \/ /\ link[c] # "Connected" /\ link'[c] # "Connected"
              /\ \A i \in 1 .. MaxVehicles : Driver[i] # c
           \/ link[c] = "RespondedConnect" /\ \A i \in DOMAIN queue' : ~From(c, i)' \/ queue'[i].type # "Data"
    PROVE  StreamInv'
<1>1. PICK n \in Nat : n = Len(queue)
  BY DEF TypeOK
<1>2. /\ DOMAIN queue = 1 .. n /\ DOMAIN queue' = 1 .. (n + 1)
      /\ \A i \in 1 .. n : queue'[i] = queue[i]
      /\ queue'[n + 1] = m /\ queue' \in Seq(Message)
  BY <1>1, ReleaseFacts
<1>3. \A d \in Conn \ {c} : d \in Connections' <=> d \in Connections
  BY DEF Connections
<1>4. c \in Connections' /\ c \notin Connections =>
         /\ link[c] = "RespondedConnect"
         /\ \A i \in DOMAIN queue' : queue'[i].conn # c \/ queue'[i].type # "Data"
  BY DEF Connections, From
<1>5. \A d \in Conn \ Connections' : told[d] = {} /\ streamed[d] = {}
  <2>1. c \in Connections => c \in Connections'
    BY DEF Connections
  <2> QED
    BY <1>3, <2>1 DEF StreamInv, ClientInv
<1>6. ASSUME NEW i \in DOMAIN queue', queue'[i].type = "Data", queue'[i].conn \in Connections'
      PROVE  queue'[i].vehicle \in {0} \cup streamed[queue'[i].conn]
  <2>1. CASE i \in 1 .. n
    <3>1. queue[i].conn \in Connections
      BY <1>2, <1>3, <1>4, <1>6, <2>1 DEF Connections
    <3> QED
      BY <1>2, <1>6, <2>1, <3>1 DEF StreamInv, ClientInv
  <2>2. CASE i = n + 1
    BY <1>2, <1>6, <2>2
  <2> QED
    BY <1>2, <2>1, <2>2
<1>7. ASSUME NEW d \in Conn, NEW i \in 1 .. MaxVehicles,
             link'[d] \in {"RespondedAwaitingApproval", "RespondedConnect"}
      PROVE  Driver[i] # d
  BY <1>7 DEF StreamInv, ClientInv
<1>8. ClientInv'
  BY <1>5, <1>6, <1>7 DEF StreamInv, ClientInv
<1>9. ASSUME NEW i \in DOMAIN Vehicles, Driver[i] \in Connections'
      PROVE  Vehicles[i] \in streamed[Driver[i]]
  <2>1. i \in 1 .. MaxVehicles
    BY BoundAssumption DEF TypeOK
  <2>2. Driver[i] \in Connections
    BY <1>3, <1>4, <1>9, <2>1 DEF StreamInv, ClientInv, Connections
  <2> QED
    BY <2>2 DEF StreamInv, DriverWasSentVehicle
<1>10. DriverWasSentVehicle'
  BY <1>9 DEF DriverWasSentVehicle
<1> QED
  BY <1>8, <1>10 DEF StreamInv

\* A connection goes away, and with it what it was told.
LEMMA StreamDisconnect ==
    ASSUME TypeOK, StreamInv, NEW c \in Conn, ExecuteDisconnect(c)
    PROVE  StreamInv'
<1>1. PICK n \in Nat : n = Len(queue)
  BY DEF TypeOK
<1>2. Changed(c, "Disconnected") \in Message /\ Changed(c, "Disconnected").type # "Data"
  BY DEF Changed, Message
<1>3. /\ DOMAIN queue = 1 .. n /\ DOMAIN queue' = 1 .. (n + 1)
      /\ \A i \in 1 .. n : queue'[i] = queue[i]
      /\ queue'[n + 1].type # "Data"
  BY <1>1, <1>2, ReleaseFacts DEF ExecuteDisconnect
<1>4. /\ Connections' = Connections \ {c}
      /\ told'[c] = {} /\ streamed'[c] = {} /\ link'[c] = "Disconnected"
      /\ \A d \in Conn \ {c} : told'[d] = told[d] /\ streamed'[d] = streamed[d] /\ link'[d] = link[d]
      /\ Vehicles' = Vehicles /\ Driver' = Driver
  BY DEF ExecuteDisconnect, Connections, TypeOK
<1>5. \A i \in DOMAIN queue' :
         queue'[i].type = "Data" /\ queue'[i].conn \in Connections' =>
            /\ i \in DOMAIN queue /\ queue[i] = queue'[i]
            /\ queue[i].conn \in Connections /\ queue[i].conn \in Conn \ {c}
  BY <1>3, <1>4 DEF Connections
<1>6. ClientInv'
  BY <1>4, <1>5 DEF StreamInv, ClientInv
<1>7. DriverWasSentVehicle'
  BY <1>4 DEF StreamInv, DriverWasSentVehicle, Connections
<1> QED
  BY <1>6, <1>7 DEF StreamInv

\* A new driver is a live client that was sent the vehicle, or is gone.
LEMMA StreamUpdate ==
    ASSUME TypeOK, SessionInv, VehicleIDsDense, StreamInv,
           NEW c \in Conn, NEW v \in Nat, HandleUpdate(c, v)
    PROVE  StreamInv'
<1>1. PICK n \in Nat : n = Len(queue)
  BY DEF TypeOK
<1>2. Read(Update(c, v)) /\ link' = link /\ Vehicles' = Vehicles /\ clientVars' = clientVars
  BY DEF HandleUpdate
<1>3. /\ n > 0 /\ DOMAIN queue = 1 .. n /\ DOMAIN queue' = 1 .. (n - 1)
      /\ queue[1] = Update(c, v)
      /\ \A i \in 1 .. (n - 1) : queue'[i] = queue[i + 1] /\ i + 1 \in 1 .. n
  BY <1>1, <1>2, ReadFacts
<1>4. c \in Connections => v \in {0} \cup streamed[c]
  <2>1. 1 \in DOMAIN queue /\ queue[1].type = "Data" /\ queue[1].conn = c /\ queue[1].vehicle = v
    BY <1>3 DEF Update
  <2> QED
    BY <2>1 DEF StreamInv, ClientInv
<1>5. link[c] \notin {"RespondedAwaitingApproval", "RespondedConnect"}
  <2>1. SessionOf(c)
    BY DEF SessionInv
  <2>2. c \in Registered
    BY <1>2, <2>1, UpdateRead
  <2> QED
    BY <2>1, <2>2 DEF SessionOf
<1>6. /\ Driver' \in Drivers
      /\ \A i \in 1 .. MaxVehicles :
           \/ Driver'[i] \in {Driver[i], TestPlayer, NoDriver}
           \/ Driver'[i] = c /\ Vehicles[i] = v /\ i \in DOMAIN Vehicles
  BY UpdateEffects
<1>7. Connections' = Connections /\ TestPlayer \notin Conn /\ NoDriver \notin Conn
  BY <1>2, ConnAssumption DEF Connections
<1>8. ASSUME NEW i \in DOMAIN queue', queue'[i].type = "Data", queue'[i].conn \in Connections
      PROVE  queue'[i].vehicle \in {0} \cup streamed[queue'[i].conn]
  BY <1>3, <1>8 DEF StreamInv, ClientInv
<1>9. ASSUME NEW d \in Conn, NEW i \in 1 .. MaxVehicles,
             link[d] \in {"RespondedAwaitingApproval", "RespondedConnect"}
      PROVE  Driver'[i] # d
  BY <1>5, <1>6, <1>7, <1>9 DEF StreamInv, ClientInv
<1>10. ASSUME NEW i \in 1 .. MaxVehicles, Driver'[i] \in Conn
       PROVE  i \in DOMAIN Vehicles
  BY <1>6, <1>7, <1>10 DEF StreamInv, ClientInv
<1>11. ClientInv'
  BY <1>2, <1>7, <1>8, <1>9, <1>10 DEF StreamInv, ClientInv
<1>12. ASSUME NEW i \in DOMAIN Vehicles, Driver'[i] \in Connections
       PROVE  Vehicles[i] \in streamed[Driver'[i]]
  <2>1. i \in 1 .. MaxVehicles /\ Vehicles[i] = i /\ i # 0
    BY BoundAssumption DEF TypeOK, VehicleIDsDense, Dense
  <2>2. CASE Driver'[i] = Driver[i]
    BY <1>12, <2>2 DEF StreamInv, DriverWasSentVehicle
  <2>3. CASE Driver'[i] = c /\ Vehicles[i] = v
    BY <1>4, <1>12, <2>1, <2>3
  <2> QED
    BY <1>6, <1>7, <1>12, <2>1, <2>2, <2>3 DEF Connections
<1>13. DriverWasSentVehicle'
  BY <1>2, <1>7, <1>12 DEF DriverWasSentVehicle
<1> QED
  BY <1>11, <1>13 DEF StreamInv

LEMMA StreamNext ==
    TypeOK /\ SessionInv /\ VehicleIDsDense /\ StreamInv /\ [Next]_vars => StreamInv'
<1> SUFFICES ASSUME TypeOK, SessionInv, VehicleIDsDense, StreamInv, [Next]_vars PROVE StreamInv'
  OBVIOUS
<1>0. \A c \in Conn \ Connections : told[c] = {} /\ streamed[c] = {}
  BY DEF StreamInv, ClientInv
<1>1. ASSUME NEW c \in Conn, NEW version \in Versions, ReceiveConnect(c, version)
      PROVE  StreamInv'
  <2>1. /\ Approval(c, version) \in Message /\ Approval(c, version).conn = c
        /\ Approval(c, version).type # "Data"
    BY DEF Approval, Message
  <2>2. /\ Release(Approval(c, version)) /\ vehicleVars' = vehicleVars /\ clientVars' = clientVars
        /\ \A d \in Conn \ {c} : link'[d] = link[d]
        /\ link[c] # "Connected" /\ link'[c] # "Connected"
        /\ \A i \in 1 .. MaxVehicles : Driver[i] # c
    BY <1>1 DEF ReceiveConnect, Fresh, TypeOK
  <2> QED
    BY <2>1, <2>2, StreamRelease
<1>2. ASSUME NEW c \in Conn, ReceiveConnectionEstablished(c)
      PROVE  StreamInv'
  <2>1. /\ Changed(c, "Connected") \in Message /\ Changed(c, "Connected").conn = c
        /\ Changed(c, "Connected").type # "Data"
    BY DEF Changed, Message
  <2>2. /\ Release(Changed(c, "Connected")) /\ vehicleVars' = vehicleVars /\ clientVars' = clientVars
        /\ \A d \in Conn \ {c} : link'[d] = link[d]
        /\ link[c] = "RespondedConnect"
    BY <1>2 DEF ReceiveConnectionEstablished, TypeOK
  <2>3. \A i \in DOMAIN queue' : ~From(c, i)' \/ queue'[i].type # "Data"
    <3>1. SessionOf(c)
      BY DEF SessionInv
    <3>2. \A i \in DOMAIN queue : ~From(c, i)
      BY <2>2, <3>1 DEF SessionOf
    <3> QED
      BY <2>1, <2>2, <3>2, ReleaseFacts DEF From
  <2> QED
    BY <2>1, <2>2, <2>3, StreamRelease
<1>3. ASSUME NEW c \in Conn, ExecuteDisconnect(c)
      PROVE  StreamInv'
  BY <1>3, StreamDisconnect
<1>4. ASSUME NEW c \in Conn, NEW v \in {0} \cup streamed[c], ReceiveUpdate(c, v)
      PROVE  StreamInv'
  <2>1. v \in Nat
    BY <1>4 DEF TypeOK
  <2>2. Update(c, v) \in Message /\ Update(c, v).conn = c /\ Update(c, v).vehicle = v
    BY <2>1 DEF Update, Message
  <2>3. /\ Release(Update(c, v)) /\ vehicleVars' = vehicleVars /\ clientVars' = clientVars
        /\ link' = link
    BY <1>4 DEF ReceiveUpdate
  <2> QED
    BY <2>2, <2>3, StreamRelease
<1>5. ASSUME NEW c \in Conn, NEW version \in Versions, HandleApproval(c, version)
      PROVE  StreamInv'
  <2>1. Approval(c, version) \in Message
    BY DEF Approval, Message
  <2>2. /\ Read(Approval(c, version)) /\ Driver' = Driver /\ streamed' = streamed /\ told' = told
        /\ \A d \in Conn : link'[d] = link[d] \/
               /\ link[d] = "RespondedAwaitingApproval"
               /\ link'[d] \in {"RespondedConnect", "Denied"}
    BY <1>5 DEF HandleApproval, TypeOK
  <2> QED
    BY <1>0, <2>1, <2>2, StreamRead
<1>6. ASSUME NEW c \in Conn, NEW ok \in BOOLEAN,
             HandleConnected(c, ok) \/ HandleDisconnected(c, ok) \/ HandleDisconnectedStranger(c)
      PROVE  StreamInv'
  <2>1. PICK m \in {Changed(c, "Connected"), Changed(c, "Disconnected")} : Read(m)
    BY <1>6 DEF HandleConnected, HandleDisconnected, HandleDisconnectedStranger
  <2>2. m \in Message
    BY DEF Changed, Message
  <2>3. Driver' = Driver /\ streamed' = streamed /\ link' = link
    BY <1>6 DEF HandleConnected, HandleDisconnected, HandleDisconnectedStranger
  <2>4. \A d \in Conn \ Connections : told'[d] = told[d]
    BY <1>6 DEF HandleConnected, HandleDisconnected, HandleDisconnectedStranger, Tell, TellGone
  <2> QED
    BY <1>0, <2>1, <2>2, <2>3, <2>4, StreamRead
<1>7. ASSUME NEW c \in Conn, NEW v \in 0 .. MaxVehicles, HandleUpdate(c, v)
      PROVE  StreamInv'
  <2>1. v \in Nat
    BY BoundAssumption
  <2> QED
    BY <1>7, <2>1, StreamUpdate
<1>8. CASE UpdateAllPlayers \/ RemoveTestPlayer
  <2>1. /\ link' = link /\ queue' = queue /\ Driver' = Driver /\ streamed' = streamed
        /\ \A c \in Conn \ Connections : told'[c] = told[c]
    BY <1>8 DEF UpdateAllPlayers, RemoveTestPlayer, TellGone
  <2> QED
    BY <1>0, <2>1, StreamGrows
<1>9. CASE UpdateAllVehicles
  <2>1. /\ link' = link /\ queue' = queue /\ Driver' = Driver /\ told' = told
        /\ \A c \in Conn : streamed[c] \subseteq streamed'[c]
        /\ \A c \in Conn \ Connections : streamed'[c] = streamed[c]
    BY <1>9 DEF UpdateAllVehicles
  <2> QED
    BY <1>0, <2>1, StreamGrows
<1>10. CASE \/ Elapsed \/ CreateTestPlayer \/ AddTestPlayer \/ DropTestPlayer
            \/ ClearTestPlayer \/ UNCHANGED vars
  <2>1. /\ link' = link /\ queue' = queue /\ Driver' = Driver /\ told' = told
        /\ streamed' = streamed
    BY <1>10 DEF Elapsed, CreateTestPlayer, AddTestPlayer, DropTestPlayer, ClearTestPlayer, vars
  <2> QED
    BY <1>0, <2>1, StreamGrows
<1> QED
  BY <1>1, <1>2, <1>3, <1>4, <1>5, <1>6, <1>7, <1>8, <1>9, <1>10
     DEF Next, Network, OnTick, Command

\* The server withholds the stream of a vehicle only from a client that was
\* sent the vehicle before.
THEOREM DriversWereSentVehicles == Spec => []DriverWasSentVehicle
<1>1. StreamInv => DriverWasSentVehicle
  BY DEF StreamInv
<1> QED
  BY <1>1, StreamInit, StreamNext, TypeCorrect, SessionsInOrder, VehicleIDsAreDense, PTL DEF Spec

\* What clients have been told ends with the connection, and their updates
\* name vehicles that exist.
THEOREM ClientsKnow == Spec => []ClientInv
<1>1. StreamInv => ClientInv
  BY DEF StreamInv
<1> QED
  BY <1>1, StreamInit, StreamNext, TypeCorrect, SessionsInOrder, VehicleIDsAreDense, PTL DEF Spec

-----------------------------------------------------------------------------
\* Without the console there is no test player.
NoTestPlayer == ~testing /\ console = "prompt"

LEMMA NoTestPlayerNext ==
    ASSUME ~Console, NoTestPlayer, [Next]_vars
    PROVE  NoTestPlayer'
<1>1. ASSUME NEW c \in Conn, NEW v \in 0 .. MaxVehicles, HandleUpdate(c, v)
      PROVE  testing' = testing /\ console' = console
  BY <1>1 DEF HandleUpdate
<1>2. Network => testing' = testing /\ console' = console
  BY DEF Network, ReceiveConnect, ReceiveConnectionEstablished, ExecuteDisconnect, ReceiveUpdate
<1>3. ASSUME NEW c \in Conn, NEW ok \in BOOLEAN,
             \/ HandleConnected(c, ok) \/ HandleDisconnected(c, ok) \/ HandleDisconnectedStranger(c)
             \/ \E version \in Versions : HandleApproval(c, version)
      PROVE  testing' = testing /\ console' = console
  BY <1>3 DEF HandleConnected, HandleDisconnected, HandleDisconnectedStranger, HandleApproval
<1>4. Elapsed \/ UpdateAllPlayers \/ UpdateAllVehicles \/ UNCHANGED vars
      => testing' = testing /\ console' = console
  BY DEF Elapsed, UpdateAllPlayers, UpdateAllVehicles, vars
<1>5. ~CreateTestPlayer /\ ~RemoveTestPlayer /\ ~Command
  BY DEF NoTestPlayer, CreateTestPlayer, RemoveTestPlayer, Command, AddTestPlayer,
         DropTestPlayer, ClearTestPlayer
<1>6. OnTick => testing' = testing /\ console' = console
  BY <1>1, <1>3, <1>4 DEF OnTick
<1>7. testing' = testing /\ console' = console
  BY <1>2, <1>4, <1>5, <1>6 DEF Next
<1> QED
  BY <1>7 DEF NoTestPlayer

\* The IDs of the players on the list.
Present == {ID[p] : p \in Registered}

LEMMA GhostNext ==
    ASSUME ~Console, NoTestPlayer, TypeOK, SessionInv, ClientInv, NoGhostTold, [Next]_vars
    PROVE  NoGhostTold'
<1>0. \A c \in Connections : told[c] \subseteq Present
  BY DEF NoGhostTold, Present
<1>1. ASSUME Players' = Players, ID' = ID,
             \A c \in Connections' : told'[c] \subseteq Present
      PROVE  NoGhostTold'
  BY <1>1 DEF NoGhostTold, Present, Registered
<1>2. ASSUME NEW c \in Conn,
             \/ \E version \in Versions : ReceiveConnect(c, version) \/ HandleApproval(c, version)
             \/ ReceiveConnectionEstablished(c) \/ ExecuteDisconnect(c)
      PROVE  NoGhostTold'
  <2>1. /\ Players' = Players /\ ID' = ID
        /\ \A d \in Connections' : told'[d] = told[d]
        /\ \A d \in Connections' : told'[d] = {} \/ d \in Connections
    BY <1>2 DEF ReceiveConnect, HandleApproval, ReceiveConnectionEstablished, ExecuteDisconnect,
                Connections, TypeOK, ClientInv
  <2> QED
    BY <1>0, <1>1, <2>1
<1>3. ASSUME NEW c \in Conn, NEW ok \in BOOLEAN, HandleConnected(c, ok)
      PROVE  NoGhostTold'
  <2>1. Connections' = Connections
    BY <1>3 DEF HandleConnected, Connections
  <2>2. c \notin Registered
    <3>1. SessionOf(c)
      BY DEF SessionInv
    <3> QED
      BY <1>3, <3>1, ConnectedRead DEF HandleConnected
  <2>3. Registered' = Registered \cup {c}
    BY <1>3, <2>2, PlayerAppended DEF HandleConnected, SessionInv, Player
  <2>4. /\ ID'[c] = FreeID(PlayerIDs)
        /\ \A p \in Registered : ID'[p] = ID[p]
    BY <1>3, <2>2 DEF HandleConnected, TypeOK, Player, Registered, Elements
  <2>5. \A d \in Connections : told'[d] \subseteq told[d] \cup {FreeID(PlayerIDs)}
    BY <1>3 DEF HandleConnected, Tell, Connections
  <2> QED
    BY <1>0, <2>1, <2>3, <2>4, <2>5 DEF NoGhostTold, Present
<1>4. ASSUME NEW c \in Conn, NEW ok \in BOOLEAN, HandleDisconnected(c, ok)
      PROVE  NoGhostTold'
  <2>1. Connections' = Connections /\ c \notin Connections
    <3>1. SessionOf(c) /\ queue # <<>> /\ queue[1] = Changed(c, "Disconnected")
      BY <1>4 DEF SessionInv, HandleDisconnected, Read, TypeOK
    <3>2. Pending(c, "Disconnected")
      BY <3>1 DEF Pending, TypeOK
    <3> QED
      BY <1>4, <3>1, <3>2 DEF HandleDisconnected, Connections, SessionOf
  <2>2. Registered' = Registered \ {c}
    BY <1>4, PlayerRemoved DEF HandleDisconnected, SessionInv, Player
  <2>3. \A p \in Registered \ {c} : ID'[p] = ID[p]
    BY <1>4 DEF HandleDisconnected, TypeOK, Player, Registered, Elements
  <2>4. \A d \in Connections : told'[d] = told[d] \ {ID[c]}
    BY <1>4, <2>1 DEF HandleDisconnected, TellGone, Connections
  <2> QED
    BY <1>0, <2>1, <2>2, <2>3, <2>4 DEF NoGhostTold, Present
<1>5. CASE UpdateAllPlayers
  <2>1. /\ Players' = Players /\ ID' = ID /\ Connections' = Connections
        /\ \A d \in Connections : told'[d] \subseteq told[d] \cup Present
    BY <1>5 DEF UpdateAllPlayers, Connections, Present
  <2> QED
    BY <1>0, <1>1, <2>1
<1>6. ASSUME NEW c \in Conn, NEW v \in 0 .. MaxVehicles, HandleUpdate(c, v)
      PROVE  NoGhostTold'
  <2>1. Players' = Players /\ ID' = ID /\ Connections' = Connections /\ told' = told
    BY <1>6 DEF HandleUpdate, Connections
  <2> QED
    BY <1>0, <1>1, <2>1
<1>7. ASSUME NEW c \in Conn,
             \/ \E v \in {0} \cup streamed[c] : ReceiveUpdate(c, v)
             \/ HandleDisconnectedStranger(c)
      PROVE  NoGhostTold'
  <2>1. Players' = Players /\ ID' = ID /\ Connections' = Connections /\ told' = told
    BY <1>7 DEF ReceiveUpdate, HandleDisconnectedStranger, Connections
  <2> QED
    BY <1>0, <1>1, <2>1
<1>8. CASE Elapsed \/ UpdateAllVehicles \/ UNCHANGED vars
  <2>1. Players' = Players /\ ID' = ID /\ Connections' = Connections /\ told' = told
    BY <1>8 DEF Elapsed, UpdateAllVehicles, Connections, vars
  <2> QED
    BY <1>0, <1>1, <2>1
<1>9. ~(CreateTestPlayer \/ RemoveTestPlayer \/ Command)
  BY DEF NoTestPlayer, CreateTestPlayer, RemoveTestPlayer, Command, AddTestPlayer,
         DropTestPlayer, ClearTestPlayer
<1> QED
  BY <1>2, <1>3, <1>4, <1>5, <1>6, <1>7, <1>8, <1>9 DEF Next, Network, OnTick

\* Where the console is not used, a live client believes only in players that
\* exist: every departure reaches every client, whatever ends the ticks.
THEOREM NoGhostsWithoutConsole == ASSUME ~Console PROVE Spec => []NoGhostTold
<1>1. Init => NoGhostTold /\ NoTestPlayer
  BY DEF Init, NoGhostTold, NoTestPlayer, Connections
<1>2. /\ TypeOK /\ SessionInv /\ ClientInv /\ NoTestPlayer /\ NoGhostTold /\ [Next]_vars
      => NoTestPlayer' /\ NoGhostTold'
  BY NoTestPlayerNext, GhostNext
<1> QED
  BY <1>1, <1>2, TypeCorrect, SessionsInOrder, ClientsKnow, PTL DEF Spec
=============================================================================
