---------------------- MODULE ConnectionHandshakeProofs ----------------------
(***************************************************************************)
(* For any number of endpoints, connections and datagrams: the tables of   *)
(* the server match the statuses of their objects, its slots are           *)
(* respected, and the application is told of each connection what          *)
(* ConnectionLife promises, although SendConnectResponse sets the status   *)
(* of an object that may have changed since Approve tested it.             *)
(*                                                                         *)
(* The proof follows the objects.  A status goes from awaiting approval to *)
(* responded only by SendConnectResponse, so an object that has responded  *)
(* was approved; and the one whose response is queued cannot be connected  *)
(* before its status is set, so that write never undoes a Connected.       *)
(***************************************************************************)
EXTENDS ConnectionHandshake, FiniteSetTheorems, TLAPS

NetObject == [endpoint : Endpoint, status : Statuses, attempts : Nat,
              disconnect : BOOLEAN]

\* A client that has just called Connect has made no attempt yet.
FirstAttempt == \A e \in Endpoint : cRequested[e] = "connect" => cAttempts[e] = 0

\* The objects the application refers to exist; the one whose response is
\* queued was approved and is not connected, and so was every one that has
\* responded.
ApprovalInv ==
  /\ \A i \in DOMAIN approvals : approvals[i] \in DOMAIN objects
  /\ approving # 0 =>
       /\ approving \in DOMAIN objects /\ approving \in approved
       /\ objects[approving].status \in {"RespondedAwaitingApproval", "Disconnected"}
  /\ \A o \in DOMAIN objects : objects[o].status = "RespondedConnect" => o \in approved

\* The application is told Connected of what is connected, and nothing of a
\* handshake or of an object still to be made.
ToldInv ==
  /\ \A e \in Endpoint :
       /\ handshakes[e] # 0 => told[handshakes[e]] = "nothing"
       /\ connections[e] # 0 => told[connections[e]] = "Connected"
  /\ \A o \in Object \ DOMAIN objects : told[o] = "nothing"

HandshakeInv == TypeOK /\ FirstAttempt /\ TablesMatch /\ ApprovalInv /\ ToldInv

-----------------------------------------------------------------------------
\* The provers' view of the steps.

\* The objects by their numbers.
LEMMA ObjectFacts ==
  ASSUME TypeOK
  PROVE  /\ Len(objects) \in Nat /\ Len(objects) <= MaxObjects
         /\ DOMAIN objects = 1 .. Len(objects)
         /\ objects \in Seq(NetObject)
         /\ DOMAIN objects \subseteq Object
BY BoundAssumption DEF TypeOK, NetObject, Object

\* Changing one object's status and attempts keeps the others.
LEMMA UpdateFacts ==
  ASSUME TypeOK, NEW o \in DOMAIN objects, NEW st \in Statuses, NEW n \in Nat,
         Update(o, st, n)
  PROVE  /\ objects' \in Seq(NetObject)
         /\ Len(objects') = Len(objects) /\ DOMAIN objects' = DOMAIN objects
         /\ \A p \in DOMAIN objects :
              /\ objects'[p].endpoint = objects[p].endpoint
              /\ objects'[p].status = IF p = o THEN st ELSE objects[p].status
<1>1. objects \in Seq(NetObject) /\ DOMAIN objects = 1 .. Len(objects)
      /\ Len(objects) \in Nat
  BY ObjectFacts
<1>2. \A p \in DOMAIN objects : objects[p] \in NetObject
  BY <1>1
<1>3. objects' = [p \in DOMAIN objects |->
                    IF p = o THEN [objects[o] EXCEPT !.status = st, !.attempts = n]
                    ELSE objects[p]]
  BY <1>1 DEF Update
<1>4. [objects[o] EXCEPT !.status = st, !.attempts = n] \in NetObject
      /\ [objects[o] EXCEPT !.status = st, !.attempts = n].endpoint = objects[o].endpoint
      /\ [objects[o] EXCEPT !.status = st, !.attempts = n].status = st
  BY <1>2 DEF NetObject
<1>5. objects' \in [1 .. Len(objects) -> NetObject]
  BY <1>1, <1>2, <1>3, <1>4
<1>6. objects' \in Seq(NetObject) /\ Len(objects') = Len(objects)
  BY <1>1, <1>5
<1> QED
  BY <1>1, <1>3, <1>4, <1>6

\* So does ending one.
LEMMA EndFacts ==
  ASSUME TypeOK, NEW o \in DOMAIN objects, End(o)
  PROVE  /\ objects' \in Seq(NetObject)
         /\ Len(objects') = Len(objects) /\ DOMAIN objects' = DOMAIN objects
         /\ \A p \in DOMAIN objects :
              /\ objects'[p].endpoint = objects[p].endpoint
              /\ objects'[p].status = IF p = o THEN "Disconnected" ELSE objects[p].status
         /\ told' = [told EXCEPT ![o] = "Disconnected"]
         /\ handshakes' = [handshakes EXCEPT ![objects[o].endpoint] = 0]
<1> DEFINE ended == [objects[o] EXCEPT !.status = "Disconnected", !.attempts = 0,
                                      !.disconnect = FALSE]
<1>1. objects \in Seq(NetObject) /\ DOMAIN objects = 1 .. Len(objects)
      /\ Len(objects) \in Nat
  BY ObjectFacts
<1>2. \A p \in DOMAIN objects : objects[p] \in NetObject
  BY <1>1
<1>3. objects' = [p \in DOMAIN objects |-> IF p = o THEN ended ELSE objects[p]]
  BY <1>1 DEF End
<1>4. ended \in NetObject /\ ended.endpoint = objects[o].endpoint
      /\ ended.status = "Disconnected"
  BY <1>2 DEF NetObject, Statuses
<1>5. objects' \in [1 .. Len(objects) -> NetObject]
  BY <1>1, <1>2, <1>3, <1>4
<1>6. objects' \in Seq(NetObject) /\ Len(objects') = Len(objects)
  BY <1>1, <1>5
<1> QED
  BY <1>1, <1>3, <1>4, <1>6 DEF End, Tell

\* A datagram that goes out or not leaves datagrams on the wire.
LEMMA SendTypes ==
  ASSUME NEW rest \in SUBSET Datagram, NEW d \in Datagram, Send(rest, d)
  PROVE  wire' \subseteq Datagram
BY DEF Send

LEMMA DatagramTypes ==
  ASSUME NEW e \in Endpoint
  PROVE  /\ \A t \in {"Connect", "ConnectionEstablished", "Disconnect"} :
              ToServer(e, t) \in Datagram
         /\ \A t \in {"ConnectResponse", "Disconnect"} : ToClient(e, t) \in Datagram
BY DEF ToServer, ToClient, Datagram

-----------------------------------------------------------------------------
\* The clients.

\* What a step of the clients leaves alone.
LEMMA ServerUntouched ==
  ASSUME TablesMatch, ApprovalInv, ToldInv, UNCHANGED serverVars
  PROVE  TablesMatch' /\ ApprovalInv' /\ ToldInv'
BY DEF TablesMatch, ApprovalInv, ToldInv, serverVars, tableVars, appVars

ClientTypes ==
  /\ cTable \in [Endpoint -> {"none", "handshake", "connected"}]
  /\ cStatus \in [Endpoint -> ClientStatuses]
  /\ cRequested \in [Endpoint -> Requests]
  /\ cAttempts \in [Endpoint -> 0 .. MaximumHandshakeAttempts]

\* No attempt is within the limit.
LEMMA NoAttempt ==
  MaximumHandshakeAttempts \in Nat /\ 0 \in 0 .. MaximumHandshakeAttempts
<1>1. MaximumHandshakeAttempts \in Nat
  BY LimitAssumption
<1> QED
  BY <1>1

\* What is set of a client by a step that leaves it with no Connect to do, or
\* with none done.
LEMMA SetClientTypes ==
  ASSUME TypeOK, FirstAttempt, NEW e \in Endpoint,
         NEW table \in {"none", "handshake", "connected"}, NEW st \in ClientStatuses,
         NEW requested \in Requests, NEW tries \in 0 .. MaximumHandshakeAttempts,
         requested = "connect" => tries = 0, SetClient(e, table, st, requested, tries)
  PROVE  ClientTypes' /\ FirstAttempt'
BY DEF TypeOK, FirstAttempt, ClientTypes, SetClient

\* ExecuteDisconnect of a client.
LEMMA ClientDisconnectTypes ==
  ASSUME TypeOK, FirstAttempt, NEW e \in Endpoint, NEW bye, ClientDisconnects(e, bye)
  PROVE  ClientTypes' /\ FirstAttempt' /\ wire' \subseteq Datagram
<1>1. SetClient(e, "none", "Disconnected", "nothing", 0)
  BY DEF ClientDisconnects, ClientEnds
<1>2. ClientTypes' /\ FirstAttempt'
  BY <1>1, SetClientTypes, NoAttempt DEF ClientStatuses, Requests
<1>3. wire' \subseteq Datagram
  <2>1. wire \subseteq Datagram /\ ToServer(e, "Disconnect") \in Datagram
    BY DatagramTypes DEF TypeOK
  <2> QED
    BY <2>1, SendTypes DEF ClientDisconnects
<1> QED
  BY <1>2, <1>3

\* A Connect is sent while attempts are left.
LEMMA SendConnectTypes ==
  ASSUME TypeOK, FirstAttempt, NEW e \in Endpoint, SendConnect(e),
         AttemptsLeft(cAttempts[e])
  PROVE  ClientTypes' /\ FirstAttempt' /\ wire' \subseteq Datagram
<1>1. SetClient(e, "handshake", "InitiatedConnect", "nothing", cAttempts[e] + 1)
  BY DEF SendConnect
<1>2. cAttempts[e] + 1 \in 0 .. MaximumHandshakeAttempts
  BY LimitAssumption DEF TypeOK, AttemptsLeft
<1>3. ClientTypes' /\ FirstAttempt'
  BY <1>1, <1>2, SetClientTypes DEF ClientStatuses, Requests
<1>4. wire \subseteq Datagram /\ ToServer(e, "Connect") \in Datagram
  BY DatagramTypes DEF TypeOK
<1> QED
  BY <1>3, <1>4, SendTypes DEF SendConnect

\* The clients make no more attempts than they are allowed.
LEMMA ClientNext ==
  ASSUME TypeOK, FirstAttempt, NEW e \in Endpoint, ClientStep(e)
  PROVE  /\ UNCHANGED serverVars
         /\ ClientTypes' /\ FirstAttempt' /\ wire' \subseteq Datagram
         /\ connects' \in 0 .. MaxConnects
<1> USE DEF ClientStatuses, Requests
<1>0. /\ wire \subseteq Datagram /\ connects \in 0 .. MaxConnects
      /\ 0 \in 0 .. MaximumHandshakeAttempts
      /\ cTable[e] \in {"none", "handshake", "connected"} /\ cRequested[e] \in Requests
      /\ cStatus[e] \in ClientStatuses /\ cAttempts[e] \in 0 .. MaximumHandshakeAttempts
  BY NoAttempt DEF TypeOK
<1>1. CASE Connect(e)
  <2>1. SetClient(e, "handshake", "InitiatedConnect", "connect", 0)
    BY <1>1 DEF Connect
  <2>2. ClientTypes' /\ FirstAttempt'
    BY <1>0, <2>1, SetClientTypes
  <2>3. connects' \in 0 .. MaxConnects
    <3>1. connects' = connects + 1 /\ connects < MaxConnects
      BY <1>1 DEF Connect
    <3>2. connects \in 0 .. MaxConnects
      BY <1>0
    <3>3. MaxConnects \in Nat
      BY BoundAssumption
    <3> QED
      BY <3>1, <3>2, <3>3
  <2> QED
    BY <1>0, <1>1, <2>2, <2>3 DEF Connect
<1>2. CASE Disconnect(e)
  BY <1>0, <1>2, SetClientTypes DEF Disconnect
<1>3. CASE ClientHandshakeHeartbeat(e)
  <2>1. UNCHANGED <<serverVars, connects>>
    BY <1>3 DEF ClientHandshakeHeartbeat
  <2>2. \/ ClientDisconnects(e, TRUE)
        \/ SendConnect(e) /\ (cRequested[e] = "connect" \/ AttemptsLeft(cAttempts[e]))
    BY <1>3 DEF ClientHandshakeHeartbeat
  <2>3. CASE SendConnect(e) /\ (cRequested[e] = "connect" \/ AttemptsLeft(cAttempts[e]))
    <3>1. AttemptsLeft(cAttempts[e])
      BY <2>3, LimitAssumption DEF FirstAttempt, AttemptsLeft
    <3> QED
      BY <1>0, <2>1, <2>3, <3>1, SendConnectTypes
  <2> QED
    BY <1>0, <2>1, <2>2, <2>3, ClientDisconnectTypes
<1>4. CASE ClientHeartbeat(e)
  BY <1>0, <1>4, ClientDisconnectTypes DEF ClientHeartbeat
<1>5. CASE ClientTimeout(e)
  BY <1>0, <1>5, ClientDisconnectTypes DEF ClientTimeout
<1>6. CASE ClientReceivesConnectResponse(e)
  <2> DEFINE d == ToClient(e, "ConnectResponse")
  <2>1. UNCHANGED <<serverVars, connects>>
    BY <1>6 DEF ClientReceivesConnectResponse
  <2>2. CASE /\ SetClient(e, "connected", "Connected", cRequested[e], 0)
             /\ Send(wire \ {d}, ToServer(e, "ConnectionEstablished"))
    <3>1. ClientTypes' /\ FirstAttempt'
      BY <1>0, <2>2, SetClientTypes
    <3>2. wire \ {d} \in SUBSET Datagram /\ ToServer(e, "ConnectionEstablished") \in Datagram
      BY <1>0, DatagramTypes
    <3>3. wire' \subseteq Datagram
      BY <2>2, <3>2, SendTypes
    <3> QED
      BY <1>0, <2>1, <3>1, <3>3
  <2>3. CASE wire' = wire \ {d} /\ UNCHANGED <<cTable, cStatus, cRequested, cAttempts>>
    BY <1>0, <2>1, <2>3 DEF TypeOK, ClientTypes, FirstAttempt
  <2> QED
    BY <1>6, <2>2, <2>3 DEF ClientReceivesConnectResponse
<1>7. CASE ClientReceivesDisconnect(e)
  <2>1. UNCHANGED <<serverVars, connects>> /\ wire' \subseteq Datagram
    BY <1>0, <1>7 DEF ClientReceivesDisconnect
  <2>2. \/ ClientEnds(e)
        \/ SetClient(e, "connected", cStatus[e], "disconnect quietly", cAttempts[e])
        \/ UNCHANGED <<cTable, cStatus, cRequested, cAttempts>>
    BY <1>7 DEF ClientReceivesDisconnect
  <2>3. CASE ClientEnds(e)
    BY <1>0, <2>1, <2>3, SetClientTypes DEF ClientEnds
  <2>4. CASE SetClient(e, "connected", cStatus[e], "disconnect quietly", cAttempts[e])
    BY <1>0, <2>1, <2>4, SetClientTypes
  <2>5. CASE UNCHANGED <<cTable, cStatus, cRequested, cAttempts>>
    BY <1>0, <2>1, <2>5 DEF TypeOK, ClientTypes, FirstAttempt
  <2> QED
    BY <2>2, <2>3, <2>4, <2>5
<1> QED
  BY <1>1, <1>2, <1>3, <1>4, <1>5, <1>6, <1>7 DEF ClientStep, ClientHeartbeats

-----------------------------------------------------------------------------
\* The server.

ServerTypes ==
  /\ handshakes \in [Endpoint -> 0 .. Len(objects)]
  /\ connections \in [Endpoint -> 0 .. Len(objects)]
  /\ objects \in Seq(NetObject) /\ Len(objects) <= MaxObjects
  /\ approvals \in Seq(Object) /\ approving \in 0 .. MaxObjects
  /\ approved \subseteq Object
  /\ told \in [Object -> {"nothing", "Connected", "Disconnected"}]

ServerInv == ServerTypes /\ TablesMatch /\ ApprovalInv /\ ToldInv

\* What is in a table is an object.
LEMMA TableFacts ==
  ASSUME TypeOK, TablesMatch, ToldInv, NEW e \in Endpoint
  PROVE  /\ handshakes[e] # 0 =>
              /\ handshakes[e] \in DOMAIN objects
              /\ objects[handshakes[e]].endpoint = e
              /\ objects[handshakes[e]].status \in
                   {"RespondedAwaitingApproval", "RespondedConnect"}
              /\ objects[handshakes[e]].attempts \in Nat
              /\ connections[e] = 0 /\ told[handshakes[e]] = "nothing"
         /\ connections[e] # 0 =>
              /\ connections[e] \in DOMAIN objects
              /\ objects[connections[e]].endpoint = e
              /\ objects[connections[e]].status = "Connected"
              /\ handshakes[e] = 0 /\ told[connections[e]] = "Connected"
<1>1. /\ Len(objects) \in Nat /\ DOMAIN objects = 1 .. Len(objects)
      /\ objects \in Seq(NetObject)
  BY ObjectFacts
<1>2. handshakes[e] \in 0 .. Len(objects) /\ connections[e] \in 0 .. Len(objects)
  BY DEF TypeOK
<1>3. \A o \in DOMAIN objects : objects[o].attempts \in Nat
  <2>1. \A o \in DOMAIN objects : objects[o] \in NetObject
    BY <1>1
  <2> QED
    BY <2>1 DEF NetObject
<1> QED
  BY <1>1, <1>2, <1>3 DEF TablesMatch, ToldInv

\* A step that changes the attempts of a handshake, or nothing, keeps the
\* invariant.
LEMMA AnsweredAgain ==
  ASSUME TypeOK, TablesMatch, ApprovalInv, ToldInv, NEW e \in Endpoint, NEW n \in Nat,
         handshakes[e] # 0, objects[handshakes[e]].status = "RespondedConnect",
         Update(handshakes[e], "RespondedConnect", n),
         UNCHANGED <<handshakes, connections, appVars, told>>
  PROVE  ServerInv'
<1>1. handshakes[e] \in DOMAIN objects
  BY TableFacts
<1>2. /\ objects' \in Seq(NetObject)
      /\ Len(objects') = Len(objects) /\ DOMAIN objects' = DOMAIN objects
      /\ \A p \in DOMAIN objects :
           /\ objects'[p].endpoint = objects[p].endpoint
           /\ objects'[p].status = objects[p].status
  BY <1>1, UpdateFacts DEF Statuses
<1>3. ServerTypes'
  BY <1>2 DEF TypeOK, ServerTypes, appVars
<1>4. TablesMatch'
  BY <1>2, TableFacts DEF TablesMatch
<1>5. ApprovalInv'
  BY <1>2 DEF ApprovalInv, appVars
<1>6. ToldInv'
  BY <1>2 DEF ToldInv
<1> QED
  BY <1>3, <1>4, <1>5, <1>6 DEF ServerInv

\* So does a step that changes none of this.
LEMMA ServerUnchanged ==
  ASSUME TypeOK, TablesMatch, ApprovalInv, ToldInv, UNCHANGED serverVars
  PROVE  ServerInv'
<1>1. ServerTypes'
  BY DEF TypeOK, ServerTypes, NetObject, serverVars, tableVars, appVars
<1> QED
  BY <1>1, ServerUntouched DEF ServerInv

LEMMA ReceivesConnectKeeps ==
  ASSUME TypeOK, TablesMatch, ApprovalInv, ToldInv, NEW e \in Endpoint,
         ServerReceivesConnect(e)
  PROVE  ServerInv' /\ wire' \subseteq Datagram
<1> DEFINE d == ToServer(e, "Connect")
<1>0. /\ \A t \in {"ConnectResponse", "Disconnect"} : ToClient(e, t) \in Datagram
      /\ wire \ {d} \in SUBSET Datagram
  BY DatagramTypes DEF TypeOK
<1>1. UNCHANGED <<connections, approving, approved, told>>
  BY DEF ServerReceivesConnect
<1>2. CASE wire' = wire \ {d} /\ UNCHANGED <<handshakes, objects, approvals>>
  BY <1>0, <1>1, <1>2, ServerUnchanged DEF serverVars, tableVars, appVars
<1>3. CASE /\ connections[e] = 0 /\ handshakes[e] # 0
           /\ RespondAgain(e, handshakes[e])
           /\ UNCHANGED <<handshakes, approvals>>
  <2>1. CASE objects[handshakes[e]].status = "RespondedConnect"
    <3>1. /\ Update(handshakes[e], "RespondedConnect", objects[handshakes[e]].attempts + 1)
          /\ Send(wire \ {d}, ToClient(e, "ConnectResponse"))
      BY <1>3, <2>1 DEF RespondAgain
    <3>2. objects[handshakes[e]].attempts + 1 \in Nat
      BY <1>3, TableFacts
    <3>3. wire' \subseteq Datagram
      BY <1>0, <3>1, SendTypes
    <3> QED
      BY <1>1, <1>3, <2>1, <3>1, <3>2, <3>3, AnsweredAgain DEF appVars
  <2>2. CASE objects[handshakes[e]].status # "RespondedConnect"
    <3>1. wire' = wire \ {d} /\ UNCHANGED objects
      BY <1>3, <2>2 DEF RespondAgain
    <3> QED
      BY <1>2, <1>3, <3>1
  <2> QED
    BY <2>1, <2>2
<1>4. CASE /\ Send(wire \ {d}, ToClient(e, "Disconnect"))
           /\ UNCHANGED <<handshakes, objects, approvals>>
  <2>1. wire' \subseteq Datagram
    BY <1>0, <1>4, SendTypes
  <2> QED
    BY <1>1, <1>4, <2>1, ServerUnchanged DEF serverVars, tableVars, appVars
<1>5. CASE /\ connections[e] = 0 /\ handshakes[e] = 0
           /\ Len(objects) < MaxObjects
           /\ objects' = Append(objects, NewObject(e))
           /\ handshakes' = [handshakes EXCEPT ![e] = Len(objects) + 1]
           /\ approvals' = Append(approvals, Len(objects) + 1)
           /\ wire' = wire \ {d}
  <2> DEFINE new == Len(objects) + 1
  <2>1. /\ Len(objects) \in Nat /\ Len(objects) <= MaxObjects
        /\ DOMAIN objects = 1 .. Len(objects)
        /\ objects \in Seq(NetObject)
    BY ObjectFacts
  <2>2. /\ NewObject(e) \in NetObject /\ NewObject(e).endpoint = e
        /\ NewObject(e).status = "RespondedAwaitingApproval"
    BY DEF NewObject, NetObject, Statuses
  <2>3. /\ objects' \in Seq(NetObject) /\ Len(objects') = new
        /\ DOMAIN objects' = 1 .. new
        /\ \A o \in DOMAIN objects : objects'[o] = objects[o]
        /\ objects'[new] = NewObject(e)
    BY <1>5, <2>1, <2>2
  <2>4. new \in Object \ DOMAIN objects
    BY <1>5, <2>1, BoundAssumption DEF Object
  <2>5. /\ approvals \in Seq(Object) /\ Len(approvals) \in Nat
        /\ DOMAIN approvals = 1 .. Len(approvals)
    BY DEF TypeOK
  <2>6. /\ approvals' \in Seq(Object) /\ DOMAIN approvals' = 1 .. Len(approvals) + 1
        /\ \A i \in DOMAIN approvals : approvals'[i] = approvals[i]
        /\ approvals'[Len(approvals) + 1] = new
    BY <1>5, <2>4, <2>5
  <2>7. \A x \in 0 .. Len(objects) : x \in 0 .. new
    BY <2>1
  <2>8. ServerTypes'
    <3>1. new \in 0 .. new /\ new <= MaxObjects
      BY <1>5, <2>1, BoundAssumption
    <3>2. handshakes' \in [Endpoint -> 0 .. new] /\ connections' \in [Endpoint -> 0 .. new]
      BY <1>1, <1>5, <2>7, <3>1 DEF TypeOK
    <3> QED
      BY <1>1, <2>3, <2>6, <3>1, <3>2 DEF TypeOK, ServerTypes
  <2>9. TablesMatch'
    <3> SUFFICES ASSUME NEW f \in Endpoint
                 PROVE  /\ handshakes'[f] # 0 =>
                             /\ objects'[handshakes'[f]].endpoint = f
                             /\ connections'[f] = 0
                             /\ objects'[handshakes'[f]].status \in
                                  {"RespondedAwaitingApproval", "RespondedConnect"}
                        /\ connections'[f] # 0 =>
                             /\ objects'[connections'[f]].endpoint = f
                             /\ objects'[connections'[f]].status = "Connected"
      BY DEF TablesMatch
    <3>1. handshakes'[f] = IF f = e THEN new ELSE handshakes[f]
      BY <1>5 DEF TypeOK
    <3> QED
      BY <1>1, <1>5, <2>2, <2>3, <3>1, TableFacts
  <2>10. ApprovalInv'
    <3>1. \A i \in DOMAIN approvals' : approvals'[i] \in DOMAIN objects'
      BY <2>1, <2>3, <2>5, <2>6 DEF ApprovalInv
    <3>2. approving' # 0 =>
            /\ approving' \in DOMAIN objects' /\ approving' \in approved'
            /\ objects'[approving'].status \in {"RespondedAwaitingApproval", "Disconnected"}
      BY <1>1, <2>1, <2>3 DEF ApprovalInv
    <3>3. \A o \in DOMAIN objects' : objects'[o].status = "RespondedConnect" => o \in approved'
      BY <1>1, <2>1, <2>2, <2>3 DEF ApprovalInv
    <3> QED
      BY <3>1, <3>2, <3>3 DEF ApprovalInv
  <2>11. ToldInv'
    <3>1. \A f \in Endpoint : handshakes'[f] = IF f = e THEN new ELSE handshakes[f]
      BY <1>5 DEF TypeOK
    <3>2. told[new] = "nothing"
      BY <2>4 DEF ToldInv
    <3> QED
      BY <1>1, <2>1, <2>3, <3>1, <3>2 DEF ToldInv
  <2> QED
    BY <1>0, <1>5, <2>8, <2>9, <2>10, <2>11 DEF ServerInv
<1> QED
  BY <1>2, <1>3, <1>4, <1>5 DEF ServerReceivesConnect

\* The handshake at an endpoint becomes its connection.
LEMMA ReceivesEstablishedKeeps ==
  ASSUME TypeOK, TablesMatch, ApprovalInv, ToldInv, NEW e \in Endpoint,
         ServerReceivesEstablished(e)
  PROVE  ServerInv' /\ wire' \subseteq Datagram
<1> DEFINE o == handshakes[e]
<1>1. wire' \subseteq Datagram /\ UNCHANGED appVars
  BY DEF ServerReceivesEstablished, TypeOK
<1>2. CASE UNCHANGED <<handshakes, connections, objects, told>>
  BY <1>1, <1>2, ServerUnchanged DEF serverVars, tableVars
<1>3. CASE /\ connections[e] = 0 /\ o # 0 /\ objects[o].status = "RespondedConnect"
           /\ handshakes' = [handshakes EXCEPT ![e] = 0]
           /\ connections' = [connections EXCEPT ![e] = o]
           /\ Update(o, "Connected", objects[o].attempts)
           /\ Tell(o, "Connected")
  <2>1. /\ o \in DOMAIN objects /\ objects[o].endpoint = e
        /\ objects[o].attempts \in Nat
    BY <1>3, TableFacts
  <2>2. /\ objects' \in Seq(NetObject)
        /\ Len(objects') = Len(objects) /\ DOMAIN objects' = DOMAIN objects
        /\ \A p \in DOMAIN objects :
             /\ objects'[p].endpoint = objects[p].endpoint
             /\ objects'[p].status = IF p = o THEN "Connected" ELSE objects[p].status
    BY <1>3, <2>1, UpdateFacts DEF Statuses
  <2>3. /\ Len(objects) \in Nat /\ Len(objects) <= MaxObjects
        /\ DOMAIN objects = 1 .. Len(objects) /\ DOMAIN objects \subseteq Object
    BY ObjectFacts
  <2>4. /\ \A f \in Endpoint : handshakes'[f] = IF f = e THEN 0 ELSE handshakes[f]
        /\ \A f \in Endpoint : connections'[f] = IF f = e THEN o ELSE connections[f]
        /\ \A p \in Object : told'[p] = IF p = o THEN "Connected" ELSE told[p]
    BY <1>3 DEF TypeOK, Tell
  <2>5. ServerTypes'
    <3>1. /\ handshakes' \in [Endpoint -> 0 .. Len(objects)]
          /\ connections' \in [Endpoint -> 0 .. Len(objects)]
      BY <1>3, <2>1, <2>3 DEF TypeOK
    <3> QED
      BY <1>1, <1>3, <2>2, <2>3, <3>1 DEF TypeOK, ServerTypes, Tell, appVars
  <2>6. \A f \in Endpoint \ {e} : handshakes[f] # o /\ connections[f] # o
    BY <1>3, <2>1, TableFacts
  <2>7. TablesMatch'
    BY <2>1, <2>2, <2>4, <2>6, TableFacts DEF TablesMatch
  <2>8. ApprovalInv'
    <3>1. approving # o
      BY <1>3 DEF ApprovalInv
    <3> QED
      BY <1>1, <2>2, <3>1 DEF ApprovalInv, appVars
  <2>9. ToldInv'
    <3>1. \A f \in Endpoint : handshakes'[f] # 0 => told'[handshakes'[f]] = "nothing"
      BY <2>3, <2>4, <2>6, TableFacts
    <3>2. \A f \in Endpoint : connections'[f] # 0 => told'[connections'[f]] = "Connected"
      BY <2>1, <2>3, <2>4, <2>6, TableFacts
    <3>3. \A p \in Object \ DOMAIN objects' : told'[p] = "nothing"
      BY <2>1, <2>2, <2>4 DEF ToldInv
    <3> QED
      BY <3>1, <3>2, <3>3 DEF ToldInv
  <2> QED
    BY <1>1, <2>5, <2>7, <2>8, <2>9 DEF ServerInv
<1> QED
  BY <1>2, <1>3 DEF ServerReceivesEstablished

\* ExecuteDisconnect of what is in one of the tables, which it leaves.
LEMMA EndKeeps ==
  ASSUME TypeOK, TablesMatch, ApprovalInv, ToldInv, NEW e \in Endpoint, NEW o,
         o # 0, o \in {handshakes[e], connections[e]}, End(o), UNCHANGED appVars,
         connections' = [connections EXCEPT ![e] = 0]
  PROVE  ServerInv'
<1>1. o \in DOMAIN objects /\ objects[o].endpoint = e
  BY TableFacts
<1>2. /\ objects' \in Seq(NetObject)
      /\ Len(objects') = Len(objects) /\ DOMAIN objects' = DOMAIN objects
      /\ \A p \in DOMAIN objects :
           /\ objects'[p].endpoint = objects[p].endpoint
           /\ objects'[p].status = IF p = o THEN "Disconnected" ELSE objects[p].status
      /\ told' = [told EXCEPT ![o] = "Disconnected"]
      /\ handshakes' = [handshakes EXCEPT ![e] = 0]
  BY <1>1, EndFacts
<1>3. /\ Len(objects) \in Nat /\ Len(objects) <= MaxObjects
      /\ DOMAIN objects = 1 .. Len(objects) /\ DOMAIN objects \subseteq Object
  BY ObjectFacts
<1>4. /\ \A f \in Endpoint : handshakes'[f] = IF f = e THEN 0 ELSE handshakes[f]
      /\ \A f \in Endpoint : connections'[f] = IF f = e THEN 0 ELSE connections[f]
      /\ \A p \in Object : told'[p] = IF p = o THEN "Disconnected" ELSE told[p]
  BY <1>2 DEF TypeOK
<1>5. ServerTypes'
  <2>1. /\ handshakes' \in [Endpoint -> 0 .. Len(objects)]
        /\ connections' \in [Endpoint -> 0 .. Len(objects)]
    BY <1>2, <1>3 DEF TypeOK
  <2> QED
    BY <1>2, <1>3, <2>1 DEF TypeOK, ServerTypes, appVars
<1>6. \A f \in Endpoint \ {e} : handshakes[f] # o /\ connections[f] # o
  BY <1>1, TableFacts
<1>7. TablesMatch'
  BY <1>2, <1>4, <1>6, TableFacts DEF TablesMatch
<1>8. ApprovalInv'
  BY <1>2 DEF ApprovalInv, appVars
<1>9. ToldInv'
  <2>1. /\ \A f \in Endpoint : handshakes'[f] # 0 => told'[handshakes'[f]] = "nothing"
        /\ \A f \in Endpoint : connections'[f] # 0 => told'[connections'[f]] = "Connected"
    BY <1>3, <1>4, <1>6, TableFacts
  <2>2. \A p \in Object \ DOMAIN objects' : told'[p] = "nothing"
    BY <1>1, <1>2, <1>4 DEF ToldInv
  <2> QED
    BY <2>1, <2>2 DEF ToldInv
<1> QED
  BY <1>5, <1>7, <1>8, <1>9 DEF ServerInv

\* A table in which an endpoint has nothing is the same without it.
LEMMA NothingThere ==
  ASSUME TypeOK, NEW e \in Endpoint, connections[e] = 0, connections' = connections
  PROVE  connections' = [connections EXCEPT ![e] = 0]
BY DEF TypeOK

LEMMA ReceivesDisconnectKeeps ==
  ASSUME TypeOK, TablesMatch, ApprovalInv, ToldInv, NEW e \in Endpoint,
         ServerReceivesDisconnect(e)
  PROVE  ServerInv' /\ wire' \subseteq Datagram
<1>1. wire' \subseteq Datagram /\ UNCHANGED <<connections, appVars>>
  BY DEF ServerReceivesDisconnect, TypeOK
<1>2. CASE /\ connections[e] # 0
           /\ objects' = [objects EXCEPT ![connections[e]].disconnect = TRUE]
           /\ UNCHANGED <<handshakes, told>>
  <2>1. /\ objects \in Seq(NetObject) /\ DOMAIN objects = 1 .. Len(objects)
        /\ Len(objects) \in Nat /\ Len(objects) <= MaxObjects
    BY ObjectFacts
  <2>2. \A p \in DOMAIN objects : objects[p] \in NetObject
    BY <2>1
  <2>3. \A p \in DOMAIN objects :
           LET asked == [objects[p] EXCEPT !.disconnect = TRUE]
           IN  /\ asked \in NetObject
               /\ asked.endpoint = objects[p].endpoint /\ asked.status = objects[p].status
    BY <2>2 DEF NetObject
  <2>4. objects' = [p \in DOMAIN objects |->
                      IF p = connections[e] THEN [objects[p] EXCEPT !.disconnect = TRUE]
                      ELSE objects[p]]
    BY <1>2, <2>1
  <2>5. /\ DOMAIN objects' = DOMAIN objects
        /\ objects' \in [1 .. Len(objects) -> NetObject]
        /\ \A p \in DOMAIN objects :
             objects'[p].endpoint = objects[p].endpoint /\ objects'[p].status = objects[p].status
    BY <2>1, <2>2, <2>3, <2>4
  <2>6. objects' \in Seq(NetObject) /\ Len(objects') = Len(objects)
    BY <2>1, <2>5
  <2>7. ServerTypes'
    BY <1>1, <1>2, <2>1, <2>6 DEF TypeOK, ServerTypes, appVars
  <2>8. TablesMatch'
    BY <1>1, <1>2, <2>5, TableFacts DEF TablesMatch
  <2>9. ApprovalInv' /\ ToldInv'
    BY <1>1, <1>2, <2>5 DEF ApprovalInv, ToldInv, appVars
  <2> QED
    BY <1>1, <2>7, <2>8, <2>9 DEF ServerInv
<1>3. CASE connections[e] = 0 /\ handshakes[e] # 0 /\ End(handshakes[e])
  BY <1>1, <1>3, EndKeeps, NothingThere
<1>4. CASE UNCHANGED <<handshakes, objects, told>>
  BY <1>1, <1>4, ServerUnchanged DEF serverVars, tableVars
<1> QED
  BY <1>2, <1>3, <1>4 DEF ServerReceivesDisconnect

LEMMA HeartbeatsKeep ==
  ASSUME TypeOK, TablesMatch, ApprovalInv, ToldInv, NEW e \in Endpoint,
         ServerHeartbeats(e) \/ ServerTimeout(e)
  PROVE  ServerInv' /\ wire' \subseteq Datagram
<1>0. /\ \A t \in {"ConnectResponse", "Disconnect"} : ToClient(e, t) \in Datagram
      /\ wire \in SUBSET Datagram
  BY DatagramTypes DEF TypeOK
<1>1. CASE ServerHandshakeHeartbeat(e)
  <2>1. /\ handshakes[e] # 0 /\ objects[handshakes[e]].status = "RespondedConnect"
        /\ UNCHANGED <<connections, appVars>>
    BY <1>1 DEF ServerHandshakeHeartbeat
  <2>2. CASE /\ Update(handshakes[e], "RespondedConnect", objects[handshakes[e]].attempts + 1)
             /\ Send(wire, ToClient(e, "ConnectResponse"))
             /\ UNCHANGED <<handshakes, told>>
    <3>1. objects[handshakes[e]].attempts + 1 \in Nat
      BY <2>1, TableFacts
    <3>2. wire' \subseteq Datagram
      BY <1>0, <2>2, SendTypes
    <3> QED
      BY <2>1, <2>2, <3>1, <3>2, AnsweredAgain
  <2>3. CASE End(handshakes[e]) /\ Send(wire, ToClient(e, "Disconnect"))
    <3>1. connections[e] = 0
      BY <2>1, TableFacts
    <3>2. wire' \subseteq Datagram
      BY <1>0, <2>3, SendTypes
    <3> QED
      BY <2>1, <2>3, <3>1, <3>2, EndKeeps, NothingThere
  <2> QED
    BY <1>1, <2>2, <2>3 DEF ServerHandshakeHeartbeat
<1>2. CASE ServerHeartbeat(e)
  <2>1. /\ connections[e] # 0 /\ End(connections[e])
        /\ connections' = [connections EXCEPT ![e] = 0]
        /\ UNCHANGED <<appVars, wire>>
    BY <1>2 DEF ServerHeartbeat
  <2> QED
    BY <1>0, <2>1, EndKeeps
<1>3. CASE ServerTimeout(e)
  <2>1. /\ connections[e] # 0 /\ End(connections[e])
        /\ connections' = [connections EXCEPT ![e] = 0]
        /\ Send(wire, ToClient(e, "Disconnect"))
        /\ UNCHANGED appVars
    BY <1>3 DEF ServerTimeout
  <2>2. wire' \subseteq Datagram
    BY <1>0, <2>1, SendTypes
  <2> QED
    BY <2>1, <2>2, EndKeeps
<1> QED
  BY <1>1, <1>2, <1>3 DEF ServerHeartbeats

-----------------------------------------------------------------------------
\* The application.

\* What is left of the approvals when the first is read.
LEMMA ApprovalRead ==
  ASSUME TypeOK, ApprovalInv, approvals # <<>>, approvals' = Tail(approvals)
  PROVE  /\ approvals' \in Seq(Object)
         /\ Head(approvals) \in DOMAIN objects
         /\ \A i \in DOMAIN approvals' : approvals'[i] \in DOMAIN objects
<1>1. approvals \in Seq(Object) /\ approvals # <<>>
  BY DEF TypeOK
<1>2. /\ approvals' \in Seq(Object) /\ Head(approvals) = approvals[1]
      /\ 1 \in DOMAIN approvals
      /\ \A i \in DOMAIN approvals' :
           i + 1 \in DOMAIN approvals /\ approvals'[i] = approvals[i + 1]
  BY <1>1
<1> QED
  BY <1>2 DEF ApprovalInv

LEMMA ApproveKeeps ==
  ASSUME TypeOK, TablesMatch, ApprovalInv, ToldInv, Approve
  PROVE  ServerInv' /\ wire' \subseteq Datagram
<1> DEFINE o == Head(approvals)
<1>1. /\ approving = 0 /\ approvals # <<>> /\ approvals' = Tail(approvals)
      /\ UNCHANGED <<tableVars, objects, told>>
  BY DEF Approve
<1>2. /\ approvals' \in Seq(Object) /\ o \in DOMAIN objects
      /\ \A i \in DOMAIN approvals' : approvals'[i] \in DOMAIN objects
  BY <1>1, ApprovalRead
<1>3. /\ DOMAIN objects = 1 .. Len(objects) /\ DOMAIN objects \subseteq Object
      /\ objects \in Seq(NetObject)
  BY ObjectFacts
<1>4. TablesMatch' /\ ToldInv'
  BY <1>1 DEF TablesMatch, ToldInv, tableVars
<1>5. CASE /\ objects[o].status = "RespondedAwaitingApproval"
           /\ approving' = o /\ approved' = approved \cup {o}
           /\ Send(wire, ToClient(objects[o].endpoint, "ConnectResponse"))
  <2>1. objects[o] \in NetObject
    BY <1>2, <1>3
  <2>2. objects[o].endpoint \in Endpoint
    BY <2>1 DEF NetObject
  <2>3. wire \in SUBSET Datagram /\ ToClient(objects[o].endpoint, "ConnectResponse") \in Datagram
    BY <2>2, DatagramTypes DEF TypeOK
  <2>4. wire' \subseteq Datagram
    BY <1>5, <2>3, SendTypes
  <2>5. ServerTypes'
    <3>1. o \in Object /\ o \in 0 .. MaxObjects
      BY <1>2, <1>3 DEF Object
    <3> QED
      BY <1>1, <1>2, <1>3, <1>5, <3>1 DEF TypeOK, ServerTypes, tableVars
  <2>6. ApprovalInv'
    BY <1>1, <1>2, <1>5 DEF ApprovalInv
  <2> QED
    BY <1>4, <2>4, <2>5, <2>6 DEF ServerInv
<1>6. CASE UNCHANGED <<approving, approved, wire>>
  <2>1. ServerTypes'
    BY <1>1, <1>2, <1>3, <1>6 DEF TypeOK, ServerTypes, tableVars
  <2>2. ApprovalInv'
    BY <1>1, <1>2, <1>6 DEF ApprovalInv
  <2> QED
    BY <1>4, <1>6, <2>1, <2>2 DEF ServerInv, TypeOK
<1> QED
  BY <1>5, <1>6 DEF Approve

\* The status that is set belongs to a handshake that goes on, or to no table:
\* meanwhile the object may have been disconnected but not connected.
LEMMA SendConnectResponseKeeps ==
  ASSUME TypeOK, TablesMatch, ApprovalInv, ToldInv, SendConnectResponse
  PROVE  ServerInv' /\ wire' \subseteq Datagram
<1>1. /\ approving # 0 /\ approving' = 0 /\ Update(approving, "RespondedConnect", 1)
      /\ UNCHANGED <<tableVars, approvals, approved, told, wire>>
  BY DEF SendConnectResponse
<1>2. /\ approving \in DOMAIN objects /\ approving \in approved
      /\ objects[approving].status # "Connected"
  BY <1>1 DEF ApprovalInv
<1>3. /\ objects' \in Seq(NetObject)
      /\ Len(objects') = Len(objects) /\ DOMAIN objects' = DOMAIN objects
      /\ \A p \in DOMAIN objects :
           /\ objects'[p].endpoint = objects[p].endpoint
           /\ objects'[p].status = IF p = approving THEN "RespondedConnect"
                                   ELSE objects[p].status
  BY <1>1, <1>2, UpdateFacts DEF Statuses
<1>4. ServerTypes'
  <2>1. 0 \in 0 .. MaxObjects
    BY BoundAssumption
  <2> QED
    BY <1>1, <1>3, <2>1 DEF TypeOK, ServerTypes, tableVars
<1>5. TablesMatch'
  BY <1>1, <1>2, <1>3, TableFacts DEF TablesMatch, tableVars
<1>6. ApprovalInv'
  BY <1>1, <1>2, <1>3 DEF ApprovalInv
<1>7. ToldInv'
  BY <1>1, <1>3 DEF ToldInv, tableVars
<1> QED
  BY <1>1, <1>4, <1>5, <1>6, <1>7 DEF ServerInv, TypeOK

LEMMA DenyKeeps ==
  ASSUME TypeOK, TablesMatch, ApprovalInv, ToldInv, Deny
  PROVE  ServerInv' /\ wire' \subseteq Datagram
<1> DEFINE e == objects[Head(approvals)].endpoint
<1>1. /\ approvals # <<>> /\ approvals' = Tail(approvals)
      /\ handshakes' = [handshakes EXCEPT ![e] = 0]
      /\ Send(wire, ToClient(e, "Disconnect"))
      /\ UNCHANGED <<connections, objects, approving, approved, told>>
  BY DEF Deny
<1>2. /\ approvals' \in Seq(Object) /\ Head(approvals) \in DOMAIN objects
      /\ \A i \in DOMAIN approvals' : approvals'[i] \in DOMAIN objects
  BY <1>1, ApprovalRead
<1>3. /\ DOMAIN objects = 1 .. Len(objects) /\ objects \in Seq(NetObject)
      /\ Len(objects) \in Nat
  BY ObjectFacts
<1>4. e \in Endpoint
  <2>1. objects[Head(approvals)] \in NetObject
    BY <1>2, <1>3
  <2> QED
    BY <2>1 DEF NetObject
<1>5. wire' \subseteq Datagram
  <2>1. wire \in SUBSET Datagram /\ ToClient(e, "Disconnect") \in Datagram
    BY <1>4, DatagramTypes DEF TypeOK
  <2> QED
    BY <1>1, <2>1, SendTypes
<1>6. \A f \in Endpoint : handshakes'[f] = IF f = e THEN 0 ELSE handshakes[f]
  BY <1>1 DEF TypeOK
<1>7. ServerTypes'
  <2>1. handshakes' \in [Endpoint -> 0 .. Len(objects)]
    <3>1. 0 \in 0 .. Len(objects)
      BY <1>3
    <3>2. handshakes \in [Endpoint -> 0 .. Len(objects)]
      BY DEF TypeOK
    <3> QED
      BY <1>1, <3>1, <3>2
  <2> QED
    BY <1>1, <1>2, <1>3, <2>1 DEF TypeOK, ServerTypes
<1>8. TablesMatch'
  BY <1>1, <1>6, TableFacts DEF TablesMatch
<1>9. ApprovalInv' /\ ToldInv'
  BY <1>1, <1>2, <1>6 DEF ApprovalInv, ToldInv
<1> QED
  BY <1>5, <1>7, <1>8, <1>9 DEF ServerInv

-----------------------------------------------------------------------------
\* The invariant.

LEMMA HandshakeInit == Init => HandshakeInv
<1> SUFFICES ASSUME Init PROVE HandshakeInv
  OBVIOUS
<1>1. /\ objects = <<>> /\ DOMAIN objects = {} /\ Len(objects) = 0
      /\ approvals = <<>> /\ DOMAIN approvals = {} /\ approvals \in Seq(Object)
  BY DEF Init
<1>2. TypeOK
  <2>1. /\ 0 \in 0 .. MaximumHandshakeAttempts /\ 0 \in 0 .. MaxConnects
        /\ 0 \in 0 .. MaxObjects /\ 0 \in 0 .. 0 /\ 0 <= MaxObjects
    BY NoAttempt, BoundAssumption
  <2> QED
    BY <1>1, <2>1 DEF Init, TypeOK, ClientStatuses, Requests
<1>3. FirstAttempt /\ TablesMatch
  BY DEF Init, FirstAttempt, TablesMatch
<1>4. ApprovalInv /\ ToldInv
  BY <1>1 DEF Init, ApprovalInv, ToldInv
<1> QED
  BY <1>2, <1>3, <1>4 DEF HandshakeInv

LEMMA HandshakeNext == HandshakeInv /\ [Next]_vars => HandshakeInv'
<1> SUFFICES ASSUME HandshakeInv, [Next]_vars PROVE HandshakeInv'
  OBVIOUS
<1>0. TypeOK /\ FirstAttempt /\ TablesMatch /\ ApprovalInv /\ ToldInv
  BY DEF HandshakeInv
\* The invariant is what holds of the clients, of the server and of the wire.
<1>1. ASSUME ClientTypes', FirstAttempt', connects' \in 0 .. MaxConnects,
             wire' \subseteq Datagram, ServerInv'
      PROVE  HandshakeInv'
  BY <1>1 DEF HandshakeInv, TypeOK, ClientTypes, ServerInv, ServerTypes, NetObject
<1>2. ASSUME UNCHANGED clientVars, wire' \subseteq Datagram, ServerInv'
      PROVE  HandshakeInv'
  <2>1. ClientTypes' /\ FirstAttempt' /\ connects' \in 0 .. MaxConnects
    BY <1>0, <1>2 DEF TypeOK, ClientTypes, FirstAttempt, clientVars
  <2> QED
    BY <1>1, <1>2, <2>1
<1>3. ASSUME NEW e \in Endpoint, ClientStep(e) PROVE HandshakeInv'
  <2>1. /\ UNCHANGED serverVars
        /\ ClientTypes' /\ FirstAttempt' /\ wire' \subseteq Datagram
        /\ connects' \in 0 .. MaxConnects
    BY <1>0, <1>3, ClientNext
  <2>2. ServerInv'
    BY <1>0, <2>1, ServerUnchanged
  <2> QED
    BY <1>1, <2>1, <2>2
<1>4. ASSUME NEW e \in Endpoint, ServerStep(e) PROVE HandshakeInv'
  <2>1. UNCHANGED clientVars
    BY <1>4 DEF ServerStep, ServerReceivesConnect, ServerReceivesEstablished,
                ServerReceivesDisconnect, ServerHeartbeats,
                ServerHandshakeHeartbeat, ServerHeartbeat, ServerTimeout
  <2>2. ServerInv' /\ wire' \subseteq Datagram
    BY <1>0, <1>4, ReceivesConnectKeeps, ReceivesEstablishedKeeps,
       ReceivesDisconnectKeeps, HeartbeatsKeep DEF ServerStep
  <2> QED
    BY <1>2, <2>1, <2>2
<1>5. CASE Application
  <2>1. UNCHANGED clientVars
    BY <1>5 DEF Application, Approve, SendConnectResponse, Deny
  <2>2. ServerInv' /\ wire' \subseteq Datagram
    BY <1>0, <1>5, ApproveKeeps, SendConnectResponseKeeps, DenyKeeps DEF Application
  <2> QED
    BY <1>2, <2>1, <2>2
<1>6. CASE Lose \/ UNCHANGED vars
  <2>1. UNCHANGED <<clientVars, serverVars>> /\ wire' \subseteq Datagram
    BY <1>0, <1>6 DEF Lose, vars, TypeOK
  <2>2. ServerInv'
    BY <1>0, <2>1, ServerUnchanged
  <2> QED
    BY <1>2, <2>1, <2>2
<1> QED
  BY <1>3, <1>4, <1>5, <1>6 DEF Next

\* Whatever the two threads of the server and the wire do, every object a table
\* or the application refers to exists and has a status that allows for it.
THEOREM HandshakeInvariant == Spec => []HandshakeInv
BY HandshakeInit, HandshakeNext, PTL DEF Spec

\* The state of clients and server stays within its types; in particular nobody
\* sends more Connects than MaximumHandshakeAttempts (UnconnectedHeartbeat).
THEOREM HandshakeTypeCorrect == Spec => []TypeOK
<1>1. HandshakeInv => TypeOK
  BY DEF HandshakeInv
<1> QED
  BY <1>1, HandshakeInvariant, PTL

\* The tables of the server hold, at an endpoint, an object of that endpoint in
\* a status that belongs there, and never both tables one.
THEOREM TablesAlwaysMatch == Spec => []TablesMatch
<1>1. HandshakeInv => TablesMatch
  BY DEF HandshakeInv
<1> QED
  BY <1>1, HandshakeInvariant, PTL

-----------------------------------------------------------------------------
\* The slots.

\* A table has finitely many entries.
LEMMA SlotsFinite ==
  ASSUME NEW f
  PROVE  IsFiniteSet(At(f)) /\ Cardinality(At(f)) \in Nat
<1>1. At(f) \in SUBSET Endpoint
  BY DEF At
<1>2. IsFiniteSet(At(f))
  BY <1>1, EndpointAssumption, FS_Subset
<1> QED
  BY <1>2, FS_CardinalityType

\* Removing an entry frees its slot.
LEMMA SlotFreed ==
  ASSUME NEW f, DOMAIN f = Endpoint, NEW e \in Endpoint, NEW g, g = [f EXCEPT ![e] = 0]
  PROVE  Cardinality(At(g)) = IF f[e] # 0 THEN Cardinality(At(f)) - 1
                                          ELSE Cardinality(At(f))
<1>1. At(g) = At(f) \ {e} /\ (e \in At(f) <=> f[e] # 0)
  BY DEF At
<1> QED
  BY <1>1, SlotsFinite, FS_RemoveElement

\* An entry where there was none takes one.
LEMMA SlotTaken ==
  ASSUME NEW f, DOMAIN f = Endpoint, NEW e \in Endpoint, f[e] = 0,
         NEW o, o # 0, NEW g, g = [f EXCEPT ![e] = o]
  PROVE  Cardinality(At(g)) = Cardinality(At(f)) + 1
<1>1. At(g) = At(f) \cup {e} /\ e \notin At(f)
  BY DEF At
<1> QED
  BY <1>1, SlotsFinite, FS_AddElement

\* What a step does to the tables: a slot is taken while there is one, an entry
\* moves from one table to the other, or entries go.
LEMMA TablesStep ==
  ASSUME HandshakeInv, [Next]_vars
  PROVE  \/ UNCHANGED tableVars
         \/ \E e \in Endpoint, o \in Nat \ {0} :
              /\ handshakes[e] = 0 /\ ReservedSlots < MaximumConnections
              /\ handshakes' = [handshakes EXCEPT ![e] = o]
              /\ connections' = connections
         \/ \E e \in Endpoint :
              /\ handshakes[e] # 0 /\ connections[e] = 0
              /\ handshakes' = [handshakes EXCEPT ![e] = 0]
              /\ connections' = [connections EXCEPT ![e] = handshakes[e]]
         \/ \E e \in Endpoint :
              /\ handshakes' = [handshakes EXCEPT ![e] = 0]
              /\ connections' \in {connections, [connections EXCEPT ![e] = 0]}
<1> USE DEF tableVars
<1>0. TypeOK /\ TablesMatch /\ ApprovalInv /\ ToldInv
  BY DEF HandshakeInv
<1>1. ASSUME NEW e \in Endpoint, ClientStep(e) PROVE UNCHANGED tableVars
  BY <1>0, <1>1, ClientNext DEF HandshakeInv, serverVars
<1>2. ASSUME NEW e \in Endpoint, ServerReceivesConnect(e)
      PROVE  \/ UNCHANGED tableVars
             \/ \E o \in Nat \ {0} :
                  /\ handshakes[e] = 0 /\ ReservedSlots < MaximumConnections
                  /\ handshakes' = [handshakes EXCEPT ![e] = o]
                  /\ connections' = connections
  <2>1. Len(objects) + 1 \in Nat \ {0}
    BY <1>0, ObjectFacts
  <2> QED
    BY <1>2, <2>1 DEF ServerReceivesConnect
<1>3. ASSUME NEW e \in Endpoint, ServerReceivesEstablished(e)
      PROVE  \/ UNCHANGED tableVars
             \/ /\ handshakes[e] # 0 /\ connections[e] = 0
                /\ handshakes' = [handshakes EXCEPT ![e] = 0]
                /\ connections' = [connections EXCEPT ![e] = handshakes[e]]
  BY <1>3 DEF ServerReceivesEstablished
<1>4. ASSUME NEW e \in Endpoint,
             \/ ServerReceivesDisconnect(e) \/ ServerHeartbeats(e) \/ ServerTimeout(e)
      PROVE  \/ UNCHANGED tableVars
             \/ /\ handshakes' = [handshakes EXCEPT ![e] = 0]
                /\ connections' \in {connections, [connections EXCEPT ![e] = 0]}
  <2>1. ASSUME handshakes[e] # 0, End(handshakes[e])
        PROVE  handshakes' = [handshakes EXCEPT ![e] = 0]
    BY <1>0, <2>1, TableFacts DEF End
  <2>2. ASSUME connections[e] # 0, End(connections[e])
        PROVE  handshakes' = [handshakes EXCEPT ![e] = 0]
    BY <1>0, <2>2, TableFacts DEF End
  <2>3. CASE ServerReceivesDisconnect(e)
    BY <2>1, <2>3 DEF ServerReceivesDisconnect
  <2>4. CASE ServerHandshakeHeartbeat(e)
    BY <2>1, <2>4 DEF ServerHandshakeHeartbeat
  <2>5. CASE ServerHeartbeat(e) \/ ServerTimeout(e)
    BY <2>2, <2>5 DEF ServerHeartbeat, ServerTimeout
  <2> QED
    BY <1>4, <2>3, <2>4, <2>5 DEF ServerHeartbeats
<1>5. CASE Approve \/ SendConnectResponse \/ Lose \/ UNCHANGED vars
  BY <1>5 DEF Approve, SendConnectResponse, Lose, vars, serverVars
<1>6. CASE Deny
  <2>1. objects[Head(approvals)].endpoint \in Endpoint
    <3>1. Head(approvals) \in DOMAIN objects
      BY <1>0, <1>6, ApprovalRead DEF Deny
    <3>2. objects[Head(approvals)] \in NetObject
      BY <1>0, <3>1, ObjectFacts
    <3> QED
      BY <3>2 DEF NetObject
  <2> QED
    BY <1>6, <2>1 DEF Deny
<1> QED
  BY <1>1, <1>2, <1>3, <1>4, <1>5, <1>6 DEF Next, ServerStep, Application

LEMMA SlotsInit == Init => SlotsRespected
<1> SUFFICES ASSUME Init PROVE SlotsRespected
  OBVIOUS
<1>1. At(handshakes) = {} /\ At(connections) = {}
  BY DEF Init, At
<1> QED
  BY <1>1, FS_EmptySet, LimitAssumption DEF SlotsRespected, ReservedSlots

LEMMA SlotsNext == HandshakeInv /\ SlotsRespected /\ [Next]_vars => SlotsRespected'
<1> SUFFICES ASSUME HandshakeInv, SlotsRespected, [Next]_vars PROVE SlotsRespected'
  OBVIOUS
<1> DEFINE h == Cardinality(At(handshakes))
           c == Cardinality(At(connections))
           h1 == Cardinality(At(handshakes'))
           c1 == Cardinality(At(connections'))
<1>0. /\ DOMAIN handshakes = Endpoint /\ DOMAIN connections = Endpoint
      /\ h \in Nat /\ c \in Nat /\ h1 \in Nat /\ c1 \in Nat
      /\ MaximumConnections \in Nat /\ h + c <= MaximumConnections
  BY SlotsFinite, LimitAssumption DEF HandshakeInv, TypeOK, SlotsRespected, ReservedSlots
<1> SUFFICES h1 + c1 <= MaximumConnections
  BY DEF SlotsRespected, ReservedSlots, At
<1>1. CASE UNCHANGED tableVars
  BY <1>0, <1>1 DEF tableVars
<1>2. ASSUME NEW e \in Endpoint, NEW o \in Nat \ {0},
             handshakes[e] = 0, ReservedSlots < MaximumConnections,
             handshakes' = [handshakes EXCEPT ![e] = o], connections' = connections
      PROVE  h1 + c1 <= MaximumConnections
  <2>1. h1 = h + 1
    BY <1>0, <1>2, SlotTaken
  <2>2. h + c < MaximumConnections /\ c1 = c
    BY <1>2 DEF ReservedSlots
  <2> HIDE DEF h, c, h1, c1
  <2> QED
    BY <1>0, <2>1, <2>2
<1>3. ASSUME NEW e \in Endpoint, handshakes[e] # 0, connections[e] = 0,
             handshakes' = [handshakes EXCEPT ![e] = 0],
             connections' = [connections EXCEPT ![e] = handshakes[e]]
      PROVE  h1 + c1 <= MaximumConnections
  <2>1. h1 = h - 1
    <3>1. DOMAIN handshakes = Endpoint /\ handshakes' = [handshakes EXCEPT ![e] = 0]
      BY <1>0, <1>3
    <3>2. h1 = IF handshakes[e] # 0 THEN h - 1 ELSE h
      BY <3>1, SlotFreed
    <3> QED
      BY <1>3, <3>2
  <2>2. c1 = c + 1
    BY <1>0, <1>3, SlotTaken
  <2> HIDE DEF h, c, h1, c1
  <2> QED
    BY <1>0, <2>1, <2>2
<1>4. ASSUME NEW e \in Endpoint, handshakes' = [handshakes EXCEPT ![e] = 0],
             connections' \in {connections, [connections EXCEPT ![e] = 0]}
      PROVE  h1 + c1 <= MaximumConnections
  <2>1. h1 \in {h, h - 1}
    BY <1>0, <1>4, SlotFreed
  <2>2. c1 \in {c, c - 1}
    BY <1>0, <1>4, SlotFreed
  <2> HIDE DEF h, c, h1, c1
  <2> QED
    BY <1>0, <2>1, <2>2
<1> QED
  BY <1>1, <1>2, <1>3, <1>4, TablesStep

\* Handshakes and connections together never exceed MaximumConnections: the sum
\* of the two counts that NetPeer compares with it is the number of slots that
\* are really taken, since an entry only ever moves between the tables.
THEOREM SlotsAreRespected == Spec => []SlotsRespected
BY SlotsInit, SlotsNext, HandshakeInvariant, PTL DEF Spec

-----------------------------------------------------------------------------
\* The life of a connection.

LEMMA LifeInit == Init => Life!Init
BY DEF Init, Life!Init

\* Each step tells the application nothing, approves an object, or tells it of
\* one what ConnectionLife allows.
LEMMA LifeNext == HandshakeInv /\ [Next]_vars => [Life!Next]_<<approved, told>>
<1> SUFFICES ASSUME HandshakeInv, [Next]_vars
             PROVE  Life!Next \/ UNCHANGED <<approved, told>>
  OBVIOUS
<1>0. TypeOK /\ TablesMatch /\ ApprovalInv /\ ToldInv
  BY DEF HandshakeInv
<1>1. ASSUME NEW e \in Endpoint, ClientStep(e) PROVE UNCHANGED <<approved, told>>
  BY <1>0, <1>1, ClientNext DEF HandshakeInv, serverVars, appVars
<1>2. ASSUME NEW e \in Endpoint, NEW o, o # 0, o \in {handshakes[e], connections[e]},
             End(o), UNCHANGED appVars
      PROVE  Life!Next
  <2>1. o \in Object /\ told[o] # "Disconnected"
    BY <1>0, <1>2, TableFacts, ObjectFacts
  <2>2. Life!TellDisconnected(o)
    BY <1>2, <2>1 DEF Life!TellDisconnected, End, Tell, appVars
  <2> QED
    BY <2>1, <2>2 DEF Life!Next
<1>3. ASSUME NEW e \in Endpoint, ServerReceivesEstablished(e)
      PROVE  Life!Next \/ UNCHANGED <<approved, told>>
  <2>1. CASE /\ handshakes[e] # 0 /\ objects[handshakes[e]].status = "RespondedConnect"
             /\ Tell(handshakes[e], "Connected")
    <3>1. /\ handshakes[e] \in Object /\ told[handshakes[e]] = "nothing"
          /\ handshakes[e] \in approved
      BY <1>0, <2>1, TableFacts, ObjectFacts DEF ApprovalInv
    <3>2. Life!TellConnected(handshakes[e])
      BY <1>3, <2>1, <3>1 DEF Life!TellConnected, Tell, ServerReceivesEstablished, appVars
    <3> QED
      BY <3>1, <3>2 DEF Life!Next
  <2> QED
    BY <1>3, <2>1 DEF ServerReceivesEstablished, appVars
<1>4. ASSUME NEW e \in Endpoint, ServerStep(e)
      PROVE  Life!Next \/ UNCHANGED <<approved, told>>
  <2>1. CASE ServerReceivesConnect(e)
    BY <2>1 DEF ServerReceivesConnect
  <2>2. CASE ServerReceivesDisconnect(e)
    BY <1>2, <2>2 DEF ServerReceivesDisconnect, appVars
  <2>3. CASE ServerHandshakeHeartbeat(e)
    BY <1>2, <2>3 DEF ServerHandshakeHeartbeat, appVars
  <2>4. CASE ServerHeartbeat(e)
    BY <1>2, <2>4 DEF ServerHeartbeat
  <2>5. CASE ServerTimeout(e)
    BY <1>2, <2>5 DEF ServerTimeout
  <2> QED
    BY <1>3, <1>4, <2>1, <2>2, <2>3, <2>4, <2>5 DEF ServerStep, ServerHeartbeats
<1>5. CASE Approve
  <2>1. CASE approved' = approved \cup {Head(approvals)} /\ UNCHANGED told
    <3>1. Head(approvals) \in Object
      BY <1>0, <1>5, ApprovalRead, ObjectFacts DEF Approve
    <3> QED
      BY <2>1, <3>1 DEF Life!Next, Life!Approve
  <2> QED
    BY <1>5, <2>1 DEF Approve
<1>6. CASE SendConnectResponse \/ Deny \/ Lose \/ UNCHANGED vars
  BY <1>6 DEF SendConnectResponse, Deny, Lose, vars, serverVars, appVars
<1> QED
  BY <1>1, <1>4, <1>5, <1>6 DEF Next, Application

\* The handshake implements ConnectionLife: the application is told Connected at
\* most once, only of what it approved and before the end, and of the end once.
THEOREM ImplementsConnectionLife == Spec => LivesOnce
<1>1. Spec => Life!Spec
  BY LifeInit, LifeNext, HandshakeInvariant, PTL DEF Spec, Life!Spec
<1> QED
  BY <1>1 DEF LivesOnce
=============================================================================
