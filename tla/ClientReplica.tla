--------------------------- MODULE ClientReplica ----------------------------
(***************************************************************************)
(* The client of one player: the link to the server as its NetClient keeps *)
(* it, the messages that wait for its tick, and the replicas of the other  *)
(* players that the tick makes of them (Client.OnTick, Connect and         *)
(* Disconnect).                                                            *)
(*                                                                         *)
(* Two threads work on this: the script's, which ticks and executes the    *)
(* console's commands, and Lidgren's network thread.  They share the       *)
(* connection and the FIFO of released messages.                           *)
(*                                                                         *)
(* Of the server there is what this client can tell: who plays, whether    *)
(* the server serves this client and what it sends.  The wire keeps its    *)
(* order, except where Overtake says otherwise; it may lose what is sent   *)
(* unreliably.  StatusChanged of InitiatedConnect and the messages the     *)
(* client ignores are left out, and so is everything of an update but the  *)
(* player's ID and whether it walks.                                       *)
(***************************************************************************)
EXTENDS Naturals, Sequences, FiniteSets

CONSTANTS
  Players,      \* the IDs of the other players; the server uses them again
  MaxConnects,  \* bound: connections this client makes
  MaxWire,      \* bound: messages on their way to the client
  MaxReleased   \* bound: messages that wait in the FIFO

ASSUME BoundAssumption ==
  MaxConnects \in Nat /\ MaxWire \in Nat /\ MaxReleased \in Nat

VARIABLES
  \* the server
  players,      \* the other players on its list
  served,       \* the connection of this client it serves, 0 for none
  welcomed,     \* how many of the resource messages it has sent to it
  wire,         \* what is on the way to the client
  established,  \* the connection whose ConnectionEstablished is on its way
  \* the client's network thread
  conn,         \* the number of the client's latest connection object
  link,         \* which table holds it: "handshake", "connected" or "none"
  status,       \* its m_status
  accepting,    \* HandleConnectResponse has found InitiatedConnect
  disconnectRequested,
  queue,        \* m_releasedIncomingMessages
  \* the script's thread
  visible,      \* m_visibleStatus of the latest connection
  at,           \* where the script's thread is
  Initialized,
  RemotePlayers,  \* the IDs in RemotePlayersController
  resource,     \* the resource in ResourcesManager
  crash,        \* what was null; "nothing" while the script lives
  mishaps       \* history, see Mishaps

serverVars == <<players, served, welcomed>>
wireVars == <<wire, established>>
connVars == <<conn, link, status, accepting, disconnectRequested>>
scriptVars == <<visible, at, Initialized, RemotePlayers, resource, crash>>
vars == <<serverVars, wireVars, connVars, queue, scriptVars, mishaps>>

Mishaps == {"remote",     \* the server ended the connection, or was lost
            "hasty",      \* Disconnect came before Connected had been read
            "mixed"}      \* the wire changed the order of two messages, or
                          \* a ConnectResponse to an earlier Connect was taken

Msg(kind, id) == [kind |-> kind, id |-> id]

\* The messages of the resource, in the order of their channel.
Resource == <<Msg("LoadResource", 0), Msg("ResourceFile", 0)>>

Updates == {Msg("UpdatePlayer", id) : id \in Players}
Departures == {Msg("PlayerDisconnected", id) : id \in Players}
Data == Updates \cup Departures \cup {Resource[i] : i \in DOMAIN Resource}

\* The two library messages that matter to the client.
ConnectResponses == {Msg("ConnectResponse", n) : n \in 1 .. MaxConnects}
Bye == Msg("Disconnect", 0)

Statuses == {"None", "InitiatedConnect", "Connected", "Disconnecting",
             "Disconnected"}
StatusChanged == {Msg(s, n) : s \in Statuses, n \in 1 .. MaxConnects}

Init ==
  /\ players = {} /\ served = 0 /\ welcomed = 0
  /\ wire = <<>> /\ established = 0
  /\ conn = 0 /\ link = "none" /\ status = "None"
  /\ accepting = FALSE /\ disconnectRequested = FALSE
  /\ queue = <<>>
  /\ visible = "None" /\ at = "idle" /\ Initialized = FALSE
  /\ RemotePlayers = {} /\ resource = "none" /\ crash = "nothing"
  /\ mishaps = {}

-----------------------------------------------------------------------------
(* The server.                                                             *)

Send(m) == Len(wire) < MaxWire /\ wire' = Append(wire, m)

client == <<connVars, queue, scriptVars>>

Join(id) ==
  /\ id \notin players
  /\ players' = players \cup {id}
  /\ UNCHANGED <<served, welcomed, wireVars, client, mishaps>>

Leave(id) ==
  /\ id \in players
  /\ players' = players \ {id}
  /\ IF served = 0 THEN UNCHANGED wire ELSE Send(Msg("PlayerDisconnected", id))
  /\ UNCHANGED <<served, welcomed, established, client, mishaps>>

\* A Connect is answered, again and again until it is established, but not
\* while the server still has the endpoint's last connection.
Respond ==
  /\ link = "handshake" /\ status = "InitiatedConnect"
  /\ served = 0 /\ established = 0
  /\ \A i \in DOMAIN wire : wire[i] # Msg("ConnectResponse", conn)
  /\ Send(Msg("ConnectResponse", conn))
  /\ UNCHANGED <<serverVars, established, client, mishaps>>

Accept ==
  /\ established # 0
  /\ served' = established /\ established' = 0 /\ welcomed' = 0
  /\ UNCHANGED <<players, wire, client, mishaps>>

Welcome ==
  /\ served # 0 /\ welcomed < Len(Resource)
  /\ welcomed' = welcomed + 1
  /\ Send(Resource[welcomed + 1])
  /\ UNCHANGED <<players, served, established, client, mishaps>>

Stream(id) ==
  /\ served # 0 /\ id \in players
  /\ Send(Msg("UpdatePlayer", id))
  /\ UNCHANGED <<serverVars, established, client, mishaps>>

\* The server hears of the client's Disconnect, or hears nothing any more.
Notice ==
  /\ served # 0 /\ (served # conn \/ link # "connected")
  /\ served' = 0
  /\ UNCHANGED <<players, welcomed, wireVars, client, mishaps>>

\* It ends the connection itself; the client may have to find out.
End ==
  /\ served # 0
  /\ served' = 0
  /\ \/ Send(Bye) \/ UNCHANGED wire
  /\ mishaps' = mishaps \cup {"remote"}
  /\ UNCHANGED <<players, welcomed, established, client>>

-----------------------------------------------------------------------------
(* The wire.                                                               *)

Lose ==
  /\ wire # <<>> /\ Head(wire) \in Updates \cup ConnectResponses \cup {Bye}
  /\ wire' = Tail(wire)
  /\ UNCHANGED <<serverVars, established, client, mishaps>>

\* The ordered channel keeps the order of the resource's messages, also
\* those of an earlier connection; the sequenced channel drops a departure
\* that comes after a later one.
Overtake(i) ==
  /\ i + 1 \in DOMAIN wire
  /\ {wire[i], wire[i + 1]} \cap {Resource[j] : j \in DOMAIN Resource} = {}
  /\ wire' = IF {wire[i], wire[i + 1]} \subseteq Departures
             THEN SubSeq(wire, 1, i - 1) \o SubSeq(wire, i + 1, Len(wire))
             ELSE [wire EXCEPT ![i] = wire[i + 1], ![i + 1] = wire[i]]
  /\ mishaps' = mishaps \cup {"mixed"}
  /\ UNCHANGED <<serverVars, established, client>>

-----------------------------------------------------------------------------
(* The network thread.                                                     *)

Release(m) == Len(queue) < MaxReleased /\ queue' = Append(queue, m)

Take(m) ==
  /\ ~accepting
  /\ wire # <<>> /\ Head(wire) = m
  /\ wire' = Tail(wire)

\* ExecuteDisconnect, and the connection leaves its table.
ExecuteDisconnect ==
  /\ Release(Msg("Disconnected", conn))
  /\ link' = "none" /\ status' = "Disconnected"
  /\ disconnectRequested' = FALSE

\* It does not say which Connect it answers.
ReceiveConnectResponse ==
  /\ \E m \in ConnectResponses :
       /\ Take(m)
       /\ accepting' = (link = "handshake" /\ status = "InitiatedConnect")
       /\ mishaps' = IF accepting' /\ m.id # conn THEN mishaps \cup {"mixed"}
                     ELSE mishaps
  /\ UNCHANGED <<serverVars, established, conn, link, status,
                 disconnectRequested, queue, scriptVars>>

\* By now the user may have asked for a disconnect: the status is set anyway.
AcceptConnection ==
  /\ accepting
  /\ accepting' = FALSE
  /\ link' = "connected" /\ status' = "Connected"
  /\ Release(Msg("Connected", conn))
  /\ established' = conn
  /\ UNCHANGED <<serverVars, wire, conn, disconnectRequested, scriptVars,
                 mishaps>>

\* What comes from an endpoint without a connection is dropped.
ReceiveData ==
  /\ \E m \in Data : Take(m) /\ IF link = "connected" THEN Release(m)
                                ELSE UNCHANGED queue
  /\ UNCHANGED <<serverVars, established, connVars, scriptVars, mishaps>>

ReceiveDisconnect ==
  /\ Take(Bye)
  /\ \/ /\ link = "connected"
        /\ disconnectRequested' = TRUE
        /\ mishaps' = mishaps \cup {"remote"}
        /\ UNCHANGED <<link, status, queue>>
     \/ /\ link = "handshake"
        /\ ExecuteDisconnect
        /\ UNCHANGED mishaps
     \/ /\ link = "none"
        /\ UNCHANGED <<link, status, disconnectRequested, queue, mishaps>>
  /\ UNCHANGED <<serverVars, established, conn, accepting, scriptVars>>

HeartbeatDisconnect ==
  /\ ~accepting /\ link # "none" /\ disconnectRequested
  /\ ExecuteDisconnect
  /\ UNCHANGED <<serverVars, wireVars, conn, accepting, scriptVars, mishaps>>

\* Faulty variant: the heartbeat of a connection goes on after its removal.
TimeoutAnyway ==
  /\ ~accepting
  /\ ExecuteDisconnect
  /\ mishaps' = IF link = "connected" THEN mishaps \cup {"remote"} ELSE mishaps
  /\ UNCHANGED <<serverVars, wireVars, conn, accepting, scriptVars>>

\* Nothing was heard of the server for too long, or five Connects were not
\* answered.
Timeout ==
  /\ ~accepting /\ link # "none"
  /\ ExecuteDisconnect
  /\ mishaps' = IF link = "connected" THEN mishaps \cup {"remote"} ELSE mishaps
  /\ UNCHANGED <<serverVars, wireVars, conn, accepting, scriptVars>>

-----------------------------------------------------------------------------
(* The script's thread.                                                    *)

ConnectionStatus == IF link = "connected" THEN visible ELSE "Disconnected"

\* Connected has been released or will be, and not been read.
ConnectedUnread ==
  accepting \/ \E i \in DOMAIN queue : queue[i] = Msg("Connected", conn)

\* Faulty variant: the status is not announced.
NetDisconnectSilently ==
  IF link = "none" \/ status \in {"None", "Disconnected"}
  THEN UNCHANGED <<status, disconnectRequested, queue, mishaps>>
  ELSE /\ status' = "Disconnecting"
       /\ disconnectRequested' = TRUE
       /\ UNCHANGED queue
       /\ mishaps' = IF ConnectedUnread THEN mishaps \cup {"hasty"} ELSE mishaps

\* NetClient.Disconnect: the network thread will do it.
NetDisconnect ==
  IF link = "none" \/ status \in {"None", "Disconnected"}
  THEN UNCHANGED <<status, disconnectRequested, queue, mishaps>>
  ELSE /\ status' = "Disconnecting"
       /\ disconnectRequested' = TRUE
       /\ IF status = "Disconnecting" THEN UNCHANGED queue
          ELSE Release(Msg("Disconnecting", conn))
       /\ mishaps' = IF ConnectedUnread THEN mishaps \cup {"hasty"} ELSE mishaps

\* Faulty variant: only the network is told.
DisconnectOnly ==
  /\ NetDisconnect
  /\ UNCHANGED <<RemotePlayers, Initialized>>

Disconnect ==
  /\ NetDisconnect
  /\ RemotePlayers' = {}
  /\ Initialized' = FALSE

DisconnectCommand ==
  /\ at = "idle"
  /\ Disconnect
  /\ UNCHANGED <<serverVars, wireVars, conn, link, accepting, visible, at,
                 resource, crash>>

\* Connect, up to NetClient.Connect.
ConnectCommand ==
  /\ at = "idle" /\ conn < MaxConnects
  /\ at' = "connecting"
  /\ IF ConnectionStatus = "Connected" THEN Disconnect
     ELSE UNCHANGED <<status, disconnectRequested, queue, mishaps,
                      RemotePlayers, Initialized>>
  /\ UNCHANGED <<serverVars, wireVars, conn, link, accepting, visible,
                 resource, crash>>

\* NetClient.Connect makes a connection, or does nothing while it has one.
NetConnect ==
  /\ at = "connecting"
  /\ at' = "idle"
  /\ IF link # "none"
     THEN UNCHANGED <<conn, link, status, disconnectRequested, visible>>
     ELSE /\ conn' = conn + 1
          /\ link' = "handshake" /\ status' = "InitiatedConnect"
          /\ disconnectRequested' = FALSE
          /\ visible' = "None"
  /\ UNCHANGED <<serverVars, wireVars, accepting, queue, Initialized,
                 RemotePlayers, resource, crash, mishaps>>

BeginTick ==
  /\ at = "idle"
  /\ at' = "reading"
  /\ UNCHANGED <<serverVars, wireVars, connVars, queue, visible, Initialized,
                 RemotePlayers, resource, crash, mishaps>>

\* The exception leaves the tick, and the script host aborts the script.
Crash(what) == crash' = what /\ at' = "crashed"

\* Faulty variant: the controllers are made once.
ConnectedKeeps == Initialized' = TRUE /\ UNCHANGED <<RemotePlayers, resource>>

\* New controllers and managers.
Connected ==
  Initialized' = TRUE /\ RemotePlayers' = {} /\ resource' = "none"

HandleStatus(m) ==
  /\ m \in StatusChanged
  /\ visible' = IF m.id = conn THEN m.kind ELSE visible
  /\ IF m.kind = "Connected" THEN Connected
     ELSE UNCHANGED <<Initialized, RemotePlayers, resource>>
  /\ UNCHANGED <<at, crash>>

\* Faulty variant: a replica is not made here but by PlayerConnected.
HandleUpdateKnown(m) ==
  /\ m \in Updates
  /\ UNCHANGED RemotePlayers
  /\ UNCHANGED <<at, crash, visible, Initialized, resource>>

\* The replica of a walking player is moved in the time of a round trip to
\* the server: ServerConnection.AverageRoundtripTime.
HandleUpdate(m) ==
  /\ m \in Updates
  /\ RemotePlayers' = RemotePlayers \cup {m.id}
  /\ \E isInVehicle \in BOOLEAN :
       IF ~isInVehicle /\ link # "connected" THEN Crash("ServerConnection")
       ELSE UNCHANGED <<at, crash>>
  /\ UNCHANGED <<visible, Initialized, resource>>

HandlePlayerDisconnected(m) ==
  /\ m \in Departures
  /\ RemotePlayers' = RemotePlayers \ {m.id}
  /\ UNCHANGED <<visible, at, Initialized, resource, crash>>

HandleResource(m) ==
  /\ \/ /\ m.kind = "LoadResource"
        /\ resource' = "loaded"
        /\ UNCHANGED <<at, crash>>
     \/ /\ m.kind = "ResourceFile"
        /\ IF resource = "none" THEN Crash("Resource") ELSE UNCHANGED <<at, crash>>
        /\ UNCHANGED resource
  /\ UNCHANGED <<visible, Initialized, RemotePlayers>>

\* Data are skipped until the first Connected, and after Disconnect.
Handle(m) ==
  \/ HandleStatus(m)
  \/ /\ m \in Data /\ Initialized
     /\ HandleUpdate(m) \/ HandlePlayerDisconnected(m) \/ HandleResource(m)
  \/ m \in Data /\ ~Initialized /\ UNCHANGED scriptVars

ReadMessage ==
  /\ at = "reading" /\ queue # <<>>
  /\ queue' = Tail(queue)
  /\ Handle(Head(queue))
  /\ UNCHANGED <<serverVars, wireVars, connVars, mishaps>>

\* The client's own update; who is in a vehicle looks up its replica.
SendUpdate ==
  /\ at = "reading" /\ queue = <<>>
  /\ \E isInVehicle \in BOOLEAN :
       IF ConnectionStatus = "Connected" /\ isInVehicle /\ ~Initialized
       THEN Crash("RemoteVehiclesController")
       ELSE at' = "idle" /\ UNCHANGED crash
  /\ UNCHANGED <<serverVars, wireVars, connVars, queue, visible, Initialized,
                 RemotePlayers, resource, mishaps>>

-----------------------------------------------------------------------------

Server ==
  \/ Respond \/ Accept \/ Welcome \/ Notice \/ End
  \/ \E id \in Players : Join(id) \/ Leave(id) \/ Stream(id)

Wire == Lose \/ \E i \in DOMAIN wire : Overtake(i)

Receive == ReceiveConnectResponse \/ ReceiveData \/ ReceiveDisconnect

Network ==
  \/ Receive \/ AcceptConnection \/ HeartbeatDisconnect \/ Timeout

Script ==
  \/ ConnectCommand \/ NetConnect \/ DisconnectCommand
  \/ BeginTick \/ ReadMessage \/ SendUpdate

Alive == at # "crashed"

\* The model goes no further than a crash of the script.
Next == Alive /\ (Server \/ Wire \/ Network \/ Script)

Spec == Init /\ [][Next]_vars

\* Both threads go on, the server streams every player again and again, and
\* what is sent again and again comes through.
Fairness ==
  /\ SF_vars(Alive /\ BeginTick)
  /\ WF_vars(Alive /\ (NetConnect \/ ReadMessage \/ SendUpdate))
  /\ WF_vars(Alive /\ AcceptConnection)
  /\ SF_vars(Alive /\ Receive)
  /\ \A id \in Players :
       /\ SF_vars(Alive /\ Stream(id))
       /\ SF_vars(Alive /\ ReceiveData /\ Head(wire) = Msg("UpdatePlayer", id))

FairSpec == Spec /\ Fairness

-----------------------------------------------------------------------------

\* The types: the served connection is one the client made, and nothing but the
\* three lookups of the tick can bring the script down.
TypeOK ==
  /\ players \subseteq Players /\ served \in 0 .. MaxConnects
  /\ welcomed \in 0 .. Len(Resource)
  /\ wire \in Seq(Data \cup ConnectResponses \cup {Bye})
  /\ established \in 0 .. MaxConnects
  /\ conn \in 0 .. MaxConnects /\ link \in {"none", "handshake", "connected"}
  /\ status \in Statuses /\ visible \in Statuses
  /\ accepting \in BOOLEAN /\ disconnectRequested \in BOOLEAN
  /\ queue \in Seq(Data \cup StatusChanged)
  /\ at \in {"idle", "connecting", "reading", "crashed"}
  /\ Initialized \in BOOLEAN /\ RemotePlayers \subseteq Players
  /\ resource \in {"none", "loaded"}
  /\ crash \in {"nothing", "ServerConnection", "Resource",
                "RemoteVehiclesController"}
  /\ mishaps \subseteq Mishaps

\* The script is not brought down by its own commands: neither a resource nor
\* the controllers are null when a message or the tick's own update needs
\* them, in whatever order Connect, Disconnect, the tick and the network
\* thread come, because every tick reads the Disconnecting that Disconnect
\* released before it looks at the status.
NothingItMadeIsNull == crash \in {"nothing", "ServerConnection"}

\* ServerConnection is null under an update only if the server went away, or
\* if Disconnect came so early that Connected was read after it.
OnlyLossCrashes ==
  crash = "ServerConnection" => mishaps \cap {"remote", "hasty"} # {}

Leaving ==
  {id \in Players : \E i \in DOMAIN wire : wire[i] = Msg("PlayerDisconnected", id)}
    \cup {id \in Players :
            \E i \in DOMAIN queue : queue[i] = Msg("PlayerDisconnected", id)}

\* A client that is served shows nobody who has left, unless the departure is
\* still on its way or the wire changed the order of messages: not even when
\* an ID is used again or the client has been connected before.
NoGhosts ==
  ConnectionStatus = "Connected" /\ served = conn
    => \/ "mixed" \in mishaps
       \/ RemotePlayers \subseteq players \cup Leaving

\* A client that stays is shown every player that stays.
EveryoneShown ==
  \A id \in Players :
    ConnectionStatus = "Connected" /\ served = conn /\ id \in players
      ~> \/ id \in RemotePlayers \/ id \notin players
         \/ ConnectionStatus # "Connected" \/ served # conn \/ crash # "nothing"

=============================================================================
