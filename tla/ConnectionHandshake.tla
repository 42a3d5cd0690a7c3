------------------------ MODULE ConnectionHandshake -------------------------
(***************************************************************************)
(* How clients and the server make and break connections: the NetPeer of   *)
(* either side with its tables m_handshakes and m_connections, and the     *)
(* part of NetConnection that is about its status.                         *)
(*                                                                         *)
(*     client   Connect ------------------------> server                   *)
(*              <---- ConnectResponse, or Disconnect  (the application     *)
(*              ConnectionEstablished ----------->     approves or denies) *)
(*                                                                         *)
(* No datagram says which connection of its endpoint it belongs to: a      *)
(* client that breaks off and connects again has the same endpoint.        *)
(*                                                                         *)
(* The wire loses and reorders.  Time is left out: a handshake may be due  *)
(* for a resend, and a connection be given up, at any time.  On the        *)
(* server two threads meet: the network's, and the application's, whose    *)
(* Approve tests m_status and sets it later.                               *)
(***************************************************************************)
EXTENDS Naturals, Sequences, FiniteSets

CONSTANTS
  Endpoint,           \* the clients' addresses, one NetClient each
  MaximumConnections, \* of the server
  MaximumHandshakeAttempts,
  MaxConnects,        \* bound: calls of Connect, over all clients
  MaxObjects,         \* bound: connection objects on the server
  MaxWire             \* bound: datagrams on the wire

ASSUME EndpointAssumption == IsFiniteSet(Endpoint)
\* "MaximumHandshakeAttempts must be at least 1" (NetPeerConfiguration).
ASSUME LimitAssumption ==
  /\ MaximumConnections \in Nat
  /\ MaximumHandshakeAttempts \in Nat \ {0}
ASSUME BoundAssumption ==
  MaxConnects \in Nat /\ MaxObjects \in Nat /\ MaxWire \in Nat

VARIABLES
  \* a client's connection, by its endpoint
  cTable,        \* the table it is in: "none", "handshake", "connected"
  cStatus,       \* m_status
  cRequested,    \* m_connectRequested, or m_disconnectRequested
  cAttempts,     \* m_handshakeAttempts
  connects,      \* how often Connect was called
  \* the server
  handshakes,    \* m_handshakes: the object at an endpoint, 0 for none
  connections,   \* m_connections, likewise
  objects,       \* the objects made: endpoint, status, attempts, disconnect
  approvals,     \* the ConnectionApproval messages that wait
  approving,     \* the object whose response is queued and status not set yet
  wire,          \* the datagrams under way
  \* history
  approved,      \* the objects that were approved
  told           \* of each object, the last of Connected and Disconnected

clientVars == <<cTable, cStatus, cRequested, cAttempts, connects>>
tableVars == <<handshakes, connections>>
appVars == <<approvals, approving, approved>>
serverVars == <<tableVars, objects, appVars, told>>
vars == <<clientVars, serverVars, wire>>

Object == 1 .. MaxObjects
ClientStatuses == {"None", "InitiatedConnect", "Connected", "Disconnecting",
                   "Disconnected"}
Statuses == {"RespondedAwaitingApproval", "RespondedConnect", "Connected",
             "Disconnected"}
Requests == {"nothing", "connect", "disconnect", "disconnect quietly"}

Datagram == [to : {"client", "server"}, at : Endpoint,
             type : {"Connect", "ConnectResponse", "ConnectionEstablished",
                     "Disconnect"}]

ToServer(e, type) == [to |-> "server", at |-> e, type |-> type]
ToClient(e, type) == [to |-> "client", at |-> e, type |-> type]

Init ==
  /\ cTable = [e \in Endpoint |-> "none"]
  /\ cStatus = [e \in Endpoint |-> "None"]
  /\ cRequested = [e \in Endpoint |-> "nothing"]
  /\ cAttempts = [e \in Endpoint |-> 0]
  /\ connects = 0
  /\ handshakes = [e \in Endpoint |-> 0]
  /\ connections = [e \in Endpoint |-> 0]
  /\ objects = <<>>
  /\ approvals = <<>> /\ approving = 0
  /\ wire = {}
  /\ approved = {} /\ told = [o \in Object |-> "nothing"]

\* A datagram goes out, or none does: the socket may drop it at once.
Send(rest, d) ==
  \/ wire' = rest
  \/ Cardinality(rest \cup {d}) <= MaxWire /\ wire' = rest \cup {d}

\* Faulty variant: one attempt too many.
OneMoreAttempt(tries) == tries <= MaximumHandshakeAttempts

AttemptsLeft(tries) == tries < MaximumHandshakeAttempts

-----------------------------------------------------------------------------
(* The clients.                                                            *)

SetClient(e, table, st, requested, tries) ==
  /\ cTable' = [cTable EXCEPT ![e] = table]
  /\ cStatus' = [cStatus EXCEPT ![e] = st]
  /\ cRequested' = [cRequested EXCEPT ![e] = requested]
  /\ cAttempts' = [cAttempts EXCEPT ![e] = tries]

\* NetClient.Connect: one connection at a time.
Connect(e) ==
  /\ cTable[e] = "none" /\ connects < MaxConnects
  /\ connects' = connects + 1
  /\ SetClient(e, "handshake", "InitiatedConnect", "connect", 0)
  /\ UNCHANGED <<serverVars, wire>>

\* NetClient.Disconnect: the network thread will do it.
Disconnect(e) ==
  /\ cTable[e] # "none" /\ cStatus[e] # "Disconnecting"
  /\ SetClient(e, cTable[e], "Disconnecting", "disconnect", 0)
  /\ UNCHANGED <<serverVars, connects, wire>>

ClientEnds(e) == SetClient(e, "none", "Disconnected", "nothing", 0)

\* ExecuteDisconnect, with a bye or not.
ClientDisconnects(e, bye) ==
  /\ ClientEnds(e)
  /\ IF bye THEN Send(wire, ToServer(e, "Disconnect")) ELSE UNCHANGED wire

\* Faulty variant: the attempts are not counted.
SendConnectUncounted(e) ==
  /\ SetClient(e, "handshake", "InitiatedConnect", "nothing", cAttempts[e])
  /\ Send(wire, ToServer(e, "Connect"))

SendConnect(e) ==
  /\ SetClient(e, "handshake", "InitiatedConnect", "nothing", cAttempts[e] + 1)
  /\ Send(wire, ToServer(e, "Connect"))

\* UnconnectedHeartbeat on the client: a disconnect goes before a connect, and
\* a handshake that had no answer is tried again or given up.
ClientHandshakeHeartbeat(e) ==
  /\ cTable[e] = "handshake"
  /\ CASE cRequested[e] \in {"disconnect", "disconnect quietly"} ->
            ClientDisconnects(e, TRUE)
       [] cRequested[e] = "connect" -> SendConnect(e)
       [] OTHER -> IF AttemptsLeft(cAttempts[e])
                   THEN SendConnect(e) ELSE ClientDisconnects(e, TRUE)
  /\ UNCHANGED <<serverVars, connects>>

\* Heartbeat of a connection whose end was asked for.
ClientHeartbeat(e) ==
  /\ cTable[e] = "connected"
  /\ cRequested[e] # "nothing"
  /\ ClientDisconnects(e, cRequested[e] = "disconnect")
  /\ UNCHANGED <<serverVars, connects>>

ClientTimeout(e) ==
  /\ cTable[e] = "connected"
  /\ ClientDisconnects(e, TRUE)
  /\ UNCHANGED <<serverVars, connects>>

\* HandleConnectResponse: the first makes the connection, another means that
\* ConnectionEstablished was lost.
ClientReceivesConnectResponse(e) ==
  LET d == ToClient(e, "ConnectResponse") IN
  /\ d \in wire
  /\ \/ /\ cTable[e] = "handshake" /\ cStatus[e] = "InitiatedConnect"
        /\ SetClient(e, "connected", "Connected", cRequested[e], 0)
        /\ Send(wire \ {d}, ToServer(e, "ConnectionEstablished"))
     \/ /\ cTable[e] = "connected" /\ cStatus[e] = "Connected"
        /\ SetClient(e, "connected", "Connected", cRequested[e], 0)
        /\ Send(wire \ {d}, ToServer(e, "ConnectionEstablished"))
     \/ /\ cTable[e] = "none" \/ cStatus[e] = "Disconnecting"
        /\ wire' = wire \ {d}
        /\ UNCHANGED <<cTable, cStatus, cRequested, cAttempts>>
  /\ UNCHANGED <<serverVars, connects>>

\* A handshake ends at once, a connection with its next heartbeat.
ClientReceivesDisconnect(e) ==
  LET d == ToClient(e, "Disconnect") IN
  /\ d \in wire
  /\ wire' = wire \ {d}
  /\ CASE cTable[e] = "handshake" -> ClientEnds(e)
       [] cTable[e] = "connected" ->
            SetClient(e, "connected", cStatus[e], "disconnect quietly", cAttempts[e])
       [] OTHER -> UNCHANGED <<cTable, cStatus, cRequested, cAttempts>>
  /\ UNCHANGED <<serverVars, connects>>

-----------------------------------------------------------------------------
(* The server's network thread.                                            *)

At(table) == {e \in Endpoint : table[e] # 0}

\* Faulty variant: handshakes do not count.
ConnectedSlots == Cardinality(At(connections))

\* handshakes.Count + connections.Count
ReservedSlots == Cardinality(At(handshakes)) + Cardinality(At(connections))

Update(o, st, tries) ==
  objects' = [objects EXCEPT ![o].status = st, ![o].attempts = tries]

Tell(o, what) == told' = [told EXCEPT ![o] = what]

\* Faulty variant: a Connect that comes again is answered before approval.
RespondUnapproved(e, o) ==
  /\ Update(o, "RespondedConnect", objects[o].attempts + 1)
  /\ Send(wire \ {ToServer(e, "Connect")}, ToClient(e, "ConnectResponse"))

\* A Connect for a handshake that goes on.
RespondAgain(e, o) ==
  IF objects[o].status = "RespondedConnect"
  THEN /\ Update(o, "RespondedConnect", objects[o].attempts + 1)
       /\ Send(wire \ {ToServer(e, "Connect")}, ToClient(e, "ConnectResponse"))
  ELSE wire' = wire \ {ToServer(e, "Connect")} /\ UNCHANGED objects

NewObject(e) ==
  [endpoint |-> e, status |-> "RespondedAwaitingApproval", attempts |-> 0,
   disconnect |-> FALSE]

\* Connect: ignored by a connection, answered again by a handshake, refused
\* by a full server, and otherwise the application is asked.
ServerReceivesConnect(e) ==
  LET d == ToServer(e, "Connect") IN
  /\ d \in wire
  /\ \/ /\ connections[e] # 0
        /\ wire' = wire \ {d}
        /\ UNCHANGED <<handshakes, objects, approvals>>
     \/ /\ connections[e] = 0 /\ handshakes[e] # 0
        /\ RespondAgain(e, handshakes[e])
        /\ UNCHANGED <<handshakes, approvals>>
     \/ /\ connections[e] = 0 /\ handshakes[e] = 0
        /\ ReservedSlots >= MaximumConnections
        /\ Send(wire \ {d}, ToClient(e, "Disconnect"))
        /\ UNCHANGED <<handshakes, objects, approvals>>
     \/ /\ connections[e] = 0 /\ handshakes[e] = 0
        /\ ReservedSlots < MaximumConnections
        /\ Len(objects) < MaxObjects
        /\ objects' = Append(objects, NewObject(e))
        /\ handshakes' = [handshakes EXCEPT ![e] = Len(objects) + 1]
        /\ approvals' = Append(approvals, Len(objects) + 1)
        /\ wire' = wire \ {d}
  /\ UNCHANGED <<clientVars, connections, approving, approved, told>>

ServerReceivesEstablished(e) ==
  LET d == ToServer(e, "ConnectionEstablished")
      o == handshakes[e]
  IN /\ d \in wire
     /\ wire' = wire \ {d}
     /\ IF connections[e] = 0 /\ o # 0 /\ objects[o].status = "RespondedConnect"
        THEN /\ handshakes' = [handshakes EXCEPT ![e] = 0]
             /\ connections' = [connections EXCEPT ![e] = o]
             /\ Update(o, "Connected", objects[o].attempts)
             /\ Tell(o, "Connected")
        ELSE UNCHANGED <<handshakes, connections, objects, told>>
     /\ UNCHANGED <<clientVars, appVars>>

\* Faulty variant: the handshake stays in its table.
EndKeepsHandshake(o) ==
  /\ objects' = [objects EXCEPT ![o].status = "Disconnected",
                                ![o].attempts = 0, ![o].disconnect = FALSE]
  /\ Tell(o, "Disconnected")
  /\ UNCHANGED handshakes

\* ExecuteDisconnect: the status, the table of handshakes and the requests.
End(o) ==
  /\ objects' = [objects EXCEPT ![o].status = "Disconnected",
                                ![o].attempts = 0, ![o].disconnect = FALSE]
  /\ Tell(o, "Disconnected")
  /\ handshakes' = [handshakes EXCEPT ![objects[o].endpoint] = 0]

ServerReceivesDisconnect(e) ==
  LET d == ToServer(e, "Disconnect") IN
  /\ d \in wire
  /\ wire' = wire \ {d}
  /\ \/ /\ connections[e] # 0
        /\ objects' = [objects EXCEPT ![connections[e]].disconnect = TRUE]
        /\ UNCHANGED <<handshakes, told>>
     \/ /\ connections[e] = 0 /\ handshakes[e] # 0
        /\ End(handshakes[e])
     \/ /\ connections[e] = 0 /\ handshakes[e] = 0
        /\ UNCHANGED <<handshakes, objects, told>>
  /\ UNCHANGED <<clientVars, connections, appVars>>

\* UnconnectedHeartbeat on the server: what awaits its approval is left alone.
ServerHandshakeHeartbeat(e) ==
  LET o == handshakes[e] IN
  /\ o # 0
  /\ objects[o].status = "RespondedConnect"
  /\ IF AttemptsLeft(objects[o].attempts)
     THEN /\ Update(o, "RespondedConnect", objects[o].attempts + 1)
          /\ Send(wire, ToClient(e, "ConnectResponse"))
          /\ UNCHANGED <<handshakes, told>>
     ELSE End(o) /\ Send(wire, ToClient(e, "Disconnect"))
  /\ UNCHANGED <<clientVars, connections, appVars>>

\* Heartbeat: a connection whose client said bye, or was not heard of.
ServerHeartbeat(e) ==
  LET o == connections[e] IN
  /\ o # 0
  /\ objects[o].disconnect
  /\ End(o)
  /\ connections' = [connections EXCEPT ![e] = 0]
  /\ UNCHANGED <<clientVars, appVars, wire>>

ServerTimeout(e) ==
  LET o == connections[e] IN
  /\ o # 0
  /\ End(o)
  /\ connections' = [connections EXCEPT ![e] = 0]
  /\ Send(wire, ToClient(e, "Disconnect"))
  /\ UNCHANGED <<clientVars, appVars>>

-----------------------------------------------------------------------------
(* The server's application, which reads the approvals in their order.     *)

\* Approve tests the status and queues the response, ...
Approve ==
  /\ approving = 0 /\ approvals # <<>>
  /\ approvals' = Tail(approvals)
  /\ LET o == Head(approvals) IN
     IF objects[o].status = "RespondedAwaitingApproval"
     THEN /\ approving' = o
          /\ approved' = approved \cup {o}
          /\ Send(wire, ToClient(objects[o].endpoint, "ConnectResponse"))
     ELSE UNCHANGED <<approving, approved, wire>>
  /\ UNCHANGED <<clientVars, tableVars, objects, told>>

\* ... and SendConnectResponse sets it, whatever it has become meanwhile.
SendConnectResponse ==
  /\ approving # 0
  /\ approving' = 0
  /\ Update(approving, "RespondedConnect", 1)
  /\ UNCHANGED <<clientVars, tableVars, approvals, approved, told, wire>>

\* Deny removes whatever handshake its endpoint has, and leaves the status.
Deny ==
  /\ approving = 0 /\ approvals # <<>>
  /\ LET e == objects[Head(approvals)].endpoint IN
     /\ handshakes' = [handshakes EXCEPT ![e] = 0]
     /\ Send(wire, ToClient(e, "Disconnect"))
  /\ approvals' = Tail(approvals)
  /\ UNCHANGED <<clientVars, connections, objects, approving, approved, told>>

-----------------------------------------------------------------------------

Lose == \E d \in wire : wire' = wire \ {d} /\ UNCHANGED <<clientVars, serverVars>>

ClientHeartbeats(e) == ClientHandshakeHeartbeat(e) \/ ClientHeartbeat(e)

ServerHeartbeats(e) == ServerHandshakeHeartbeat(e) \/ ServerHeartbeat(e)

ClientStep(e) ==
  \/ Connect(e) \/ Disconnect(e) \/ ClientHeartbeats(e) \/ ClientTimeout(e)
  \/ ClientReceivesConnectResponse(e) \/ ClientReceivesDisconnect(e)

ServerStep(e) ==
  \/ ServerReceivesConnect(e) \/ ServerReceivesEstablished(e)
  \/ ServerReceivesDisconnect(e)
  \/ ServerHeartbeats(e) \/ ServerTimeout(e)

Application == Approve \/ SendConnectResponse \/ Deny

Next == (\E e \in Endpoint : ClientStep(e) \/ ServerStep(e)) \/ Application \/ Lose

Spec == Init /\ [][Next]_vars

\* The network threads and the application go on, and a connection the other
\* side does not have is given up in the end.  Nothing is asked of the wire.
Fairness ==
  /\ WF_vars(Application)
  /\ \A e \in Endpoint :
       /\ WF_vars(ClientHeartbeats(e))
       /\ WF_vars(ServerHeartbeats(e))
       /\ WF_vars(connections[e] = 0 /\ ClientTimeout(e))
       /\ WF_vars(cTable[e] # "connected" /\ ServerTimeout(e))

FairSpec == Spec /\ Fairness

-----------------------------------------------------------------------------

\* The types: the tables refer to objects that exist, and nobody sends more
\* Connects than the attempts it is allowed.
TypeOK ==
  /\ cTable \in [Endpoint -> {"none", "handshake", "connected"}]
  /\ cStatus \in [Endpoint -> ClientStatuses]
  /\ cRequested \in [Endpoint -> Requests]
  /\ cAttempts \in [Endpoint -> 0 .. MaximumHandshakeAttempts]
  /\ connects \in 0 .. MaxConnects
  /\ handshakes \in [Endpoint -> 0 .. Len(objects)]
  /\ connections \in [Endpoint -> 0 .. Len(objects)]
  /\ objects \in Seq([endpoint : Endpoint, status : Statuses,
                      attempts : Nat, disconnect : BOOLEAN])
  /\ Len(objects) <= MaxObjects
  /\ approvals \in Seq(Object) /\ approving \in 0 .. MaxObjects
  /\ wire \subseteq Datagram
  /\ approved \subseteq Object
  /\ told \in [Object -> {"nothing", "Connected", "Disconnected"}]

\* Handshakes and connections together never exceed MaximumConnections,
\* although a slot is freed by either thread and two counts are added up.
SlotsRespected == ReservedSlots <= MaximumConnections

\* Each table has, at an endpoint, an object of that endpoint in a status that
\* belongs there, and no endpoint is in both.
TablesMatch ==
  \A e \in Endpoint :
    /\ handshakes[e] # 0 =>
         /\ objects[handshakes[e]].endpoint = e
         /\ connections[e] = 0
         /\ objects[handshakes[e]].status \in
              {"RespondedAwaitingApproval", "RespondedConnect"}
    /\ connections[e] # 0 =>
         /\ objects[connections[e]].endpoint = e
         /\ objects[connections[e]].status = "Connected"

\* What the application is told of a connection.
Life == INSTANCE ConnectionLife WITH
  Connection <- Object, approved <- approved, told <- told

\* The handshake implements ConnectionLife: Server.OnTick is told of each
\* connection once, and Connected only of what it approved.
LivesOnce == Life!Spec

\* No handshake hangs, and each side has the connections the other has.
Settled ==
  \A e \in Endpoint :
    /\ handshakes[e] = 0 /\ cTable[e] # "handshake"
    /\ (connections[e] # 0) <=> (cTable[e] = "connected")

\* When nobody connects any more the two sides come to agree who is connected,
\* whatever was lost: no handshake hangs and no half of a connection stays.
Settles == <>[]Settled

=============================================================================
