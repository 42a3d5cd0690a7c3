------------------------- MODULE ClientReplicaProofs -------------------------
(***************************************************************************)
(* For any players, any number of connections and any room on the wire and *)
(* in the FIFO: nothing the script made is null when a message needs it    *)
(* (NothingItMadeIsNull), an update finds the connection gone only after a *)
(* loss or a hasty Disconnect (OnlyLossCrashes), and nobody is shown who   *)
(* has left (NoGhosts).                                                    *)
(*                                                                         *)
(* The three rest on the order in which messages come to the tick.  A      *)
(* Disconnecting stands in the FIFO before the tick may look at the status *)
(* (StatusInv); a resource's file comes after the message that made the    *)
(* resource, on the wire and in the FIFO, with no Connected and no         *)
(* ConnectResponse between them (ResourceInv); and what the server sends   *)
(* in one session comes after the ConnectResponse that began it            *)
(* (SessionInv).                                                           *)
(***************************************************************************)
EXTENDS ClientReplica, TLAPS

-----------------------------------------------------------------------------
\* The inductive invariant.

\* What the network thread knows of the link, and the numbers it gives.
LinkInv ==
  /\ at = "connecting" => conn < MaxConnects
  /\ link # "none" => conn # 0
  /\ accepting => link = "handshake"
  /\ link = "connected" => status \in {"Connected", "Disconnecting"}
  /\ link = "handshake" => status \in {"InitiatedConnect", "Disconnecting"}
  /\ link = "handshake" /\ status = "InitiatedConnect" => ~disconnectRequested
  /\ \A i \in DOMAIN queue : queue[i].kind \in Statuses => queue[i].id <= conn
  /\ \A i \in DOMAIN wire : wire[i].kind = "ConnectResponse" => wire[i].id <= conn

\* Message i of the FIFO is a status of the latest connection, is its Connected.
Own(i) == queue[i].kind \in Statuses /\ queue[i].id = conn
OwnConnected(i) == queue[i].kind = "Connected" /\ queue[i].id = conn
ConnectedWaits == \E i \in DOMAIN queue : OwnConnected(i)

\* The script has read, or is going to read last, that the status is s.
Announced(s) ==
  \/ /\ visible = s
     /\ \A i \in DOMAIN queue : ~Own(i)
  \/ \E i \in DOMAIN queue :
       /\ Own(i) /\ queue[i].kind = s
       /\ \A j \in DOMAIN queue : j > i => ~Own(j)

StatusInv ==
  /\ link = "connected" => Announced(status)
  /\ link = "connected" /\ status = "Connected" => Initialized \/ ConnectedWaits
  /\ link = "handshake" => visible # "Connected" /\ ~ConnectedWaits
  /\ ConnectedWaits => visible # "Connected"
  /\ \A i, j \in DOMAIN queue : OwnConnected(i) /\ OwnConnected(j) => i = j

\* When the first n messages of the FIFO have been read, a file finds its
\* resource, or is skipped.
Ready(n) ==
  \/ /\ Initialized => resource = "loaded"
     /\ \A i \in 1 .. n : queue[i].kind # "Connected"
  \/ \E i \in 1 .. n :
       /\ queue[i].kind = "LoadResource"
       /\ \A j \in 1 .. n : j > i => queue[j].kind # "Connected"

\* The same of a file that is released now, if it is released.
Clear ==
  /\ ~accepting
  /\ link = "connected" => Ready(Len(queue))

\* The same when the first n messages of the wire have been received.
Due(n) ==
  \/ /\ Clear
     /\ \A i \in 1 .. n : wire[i].kind # "ConnectResponse"
  \/ \E i \in 1 .. n :
       /\ wire[i].kind = "LoadResource"
       /\ \A j \in 1 .. n : j > i => wire[j].kind # "ConnectResponse"

FilesReady ==
  \A i \in DOMAIN queue : queue[i].kind = "ResourceFile" => Ready(i - 1)
FilesDue ==
  \A i \in DOMAIN wire : wire[i].kind = "ResourceFile" => Due(i - 1)
NextDue == served # 0 /\ welcomed = 1 => Due(Len(wire))

ResourceInv == FilesReady /\ FilesDue /\ NextDue

\* The connection is there for whoever was told of it, until it is lost or is
\* disconnected before Connected has been read.
Told == Initialized \/ \E i \in DOMAIN queue : queue[i].kind = "Connected"
ToldByLatest == \A i \in DOMAIN queue : queue[i].kind = "Connected" => queue[i].id = conn

LossInv ==
  mishaps \cap {"remote", "hasty"} = {} =>
    /\ accepting => ~disconnectRequested
    /\ Told => link = "connected" /\ ~disconnectRequested
    /\ ToldByLatest
    /\ crash # "ServerConnection"

DataKinds == {"UpdatePlayer", "PlayerDisconnected", "LoadResource", "ResourceFile"}

WireSays(id) == \E i \in DOMAIN wire : wire[i] = Msg("PlayerDisconnected", id)
Says(id, i) == \E j \in DOMAIN queue : j > i /\ queue[j] = Msg("PlayerDisconnected", id)

\* Message i of the FIFO is of the latest connection's session.
Since(i) == \A j \in DOMAIN queue : j > i => ~OwnConnected(j)

\* The server has sent nothing after message i of the wire.
NothingAfter(i) == \A j \in DOMAIN wire : j > i => wire[j].kind \notin DataKinds

\* Nothing of the session has come, and nothing is on its way.
Unserved ==
  /\ NothingAfter(0)
  /\ \A i \in DOMAIN queue : Since(i) => queue[i].kind \notin DataKinds
  /\ ~ConnectedWaits => RemotePlayers = {}

\* Whoever is or will be shown of those who have left: that it left comes later.
WireSettles(id) ==
  \A i \in DOMAIN wire : wire[i] = Msg("UpdatePlayer", id) =>
    \E j \in DOMAIN wire : j > i /\ wire[j] = Msg("PlayerDisconnected", id)
QueueSettles(id) ==
  \A i \in DOMAIN queue :
    queue[i] = Msg("UpdatePlayer", id) /\ Since(i) => Says(id, i) \/ WireSays(id)
ShownSettles(id) ==
  id \in RemotePlayers /\ ~ConnectedWaits => Says(id, 0) \/ WireSays(id)

DepartureComes ==
  \A id \in Players \ players : WireSettles(id) /\ QueueSettles(id) /\ ShownSettles(id)

\* The answer to the latest Connect comes before the session that it begins.
AnswerComesFirst ==
  \A i \in DOMAIN wire : wire[i] = Msg("ConnectResponse", conn) =>
    served = 0 /\ established = 0 /\ NothingAfter(i)

SessionInv ==
  "mixed" \notin mishaps =>
    /\ established # 0 => served = 0
    /\ accepting => served = 0 /\ established = 0 /\ NothingAfter(0)
    /\ link = "handshake" => AnswerComesFirst
    /\ link = "connected" /\ established = conn => Unserved
    /\ link = "connected" /\ served = conn => DepartureComes

NobodyBefore == ~Initialized => RemotePlayers = {}

-----------------------------------------------------------------------------
\* Messages, and what the steps do to the wire and to the FIFO.

WireMsg == Data \cup ConnectResponses \cup {Bye}
QueueMsg == Data \cup StatusChanged

LEMMA MsgFacts ==
  /\ \A k, n : Msg(k, n).kind = k /\ Msg(k, n).id = n
  /\ \A k, n, l, m : Msg(k, n) = Msg(l, m) <=> k = l /\ n = m
BY DEF Msg

LEMMA ResourceFacts ==
  /\ DOMAIN Resource = {1, 2} /\ Len(Resource) = 2
  /\ Resource[1] = Msg("LoadResource", 0) /\ Resource[2] = Msg("ResourceFile", 0)
  /\ {Resource[i] : i \in DOMAIN Resource}
       = {Msg("LoadResource", 0), Msg("ResourceFile", 0)}
BY DEF Resource

LEMMA DataFacts ==
  /\ \A m \in Data : m.kind \in DataKinds /\ m = Msg(m.kind, m.id)
  /\ \A m \in Updates : m.kind = "UpdatePlayer" /\ m.id \in Players
  /\ \A m \in Departures : m.kind = "PlayerDisconnected" /\ m.id \in Players
  /\ \A id \in Players : Msg("UpdatePlayer", id) \in Data
                         /\ Msg("PlayerDisconnected", id) \in Data
  /\ Resource[1] \in Data /\ Resource[2] \in Data
  /\ \A m \in Data : m.kind = "UpdatePlayer" => m \in Updates
  /\ \A m \in Data : m.kind = "PlayerDisconnected" => m \in Departures
BY ResourceFacts, MsgFacts DEF Data, Updates, Departures, DataKinds

LEMMA WireFacts ==
  /\ \A m \in WireMsg : /\ m = Msg(m.kind, m.id)
                        /\ m.kind \in DataKinds \cup {"ConnectResponse", "Disconnect"}
                        /\ m.kind \in DataKinds <=> m \in Data
                        /\ m.kind = "ConnectResponse" <=> m \in ConnectResponses
  /\ \A m \in ConnectResponses : m.id \in 1 .. MaxConnects
BY DataFacts, MsgFacts DEF WireMsg, ConnectResponses, Bye, DataKinds

LEMMA QueueFacts ==
  /\ \A m \in QueueMsg : /\ m = Msg(m.kind, m.id)
                         /\ m.kind \in DataKinds \cup Statuses
                         /\ m.kind \in DataKinds <=> m \in Data
                         /\ m.kind \in Statuses <=> m \in StatusChanged
  /\ \A m \in StatusChanged : m.id \in 1 .. MaxConnects
  /\ DataKinds \cap Statuses = {}
BY DataFacts, MsgFacts DEF QueueMsg, StatusChanged, DataKinds, Statuses

LEMMA TypeFacts ==
  ASSUME TypeOK
  PROVE  /\ wire \in Seq(WireMsg) /\ Len(wire) \in Nat /\ DOMAIN wire = 1 .. Len(wire)
         /\ queue \in Seq(QueueMsg) /\ Len(queue) \in Nat
         /\ DOMAIN queue = 1 .. Len(queue)
<1>1. wire \in Seq(WireMsg) /\ queue \in Seq(QueueMsg)
  BY DEF TypeOK, WireMsg, QueueMsg
<1> QED
  BY <1>1

\* A message at the end.
LEMMA Appended ==
  ASSUME NEW T, NEW s \in Seq(T), NEW m \in T
  PROVE  /\ Append(s, m) \in Seq(T) /\ Len(s) \in Nat
         /\ DOMAIN s = 1 .. Len(s) /\ Len(Append(s, m)) = Len(s) + 1
         /\ DOMAIN Append(s, m) = 1 .. (Len(s) + 1)
         /\ \A i \in 1 .. Len(s) : Append(s, m)[i] = s[i]
         /\ Append(s, m)[Len(s) + 1] = m
OBVIOUS

\* The first message taken.
LEMMA Taken ==
  ASSUME NEW T, NEW s \in Seq(T), s # <<>>
  PROVE  /\ Tail(s) \in Seq(T) /\ Len(s) \in Nat /\ Len(s) > 0 /\ Head(s) \in T
         /\ DOMAIN s = 1 .. Len(s) /\ Len(Tail(s)) = Len(s) - 1
         /\ DOMAIN Tail(s) = 1 .. (Len(s) - 1)
         /\ \A i \in 1 .. (Len(s) - 1) : Tail(s)[i] = s[i + 1]
         /\ Head(s) = s[1]
OBVIOUS

LEMMA Joined ==
  ASSUME NEW T, NEW s \in Seq(T), NEW t \in Seq(T)
  PROVE  /\ s \o t \in Seq(T) /\ Len(s \o t) = Len(s) + Len(t)
         /\ \A k \in 1 .. Len(s) + Len(t) :
              (s \o t)[k] = IF k <= Len(s) THEN s[k] ELSE t[k - Len(s)]
OBVIOUS

\* Two messages that change places, or the first of two departures dropped.
Swapped(i) ==
  /\ Len(wire') = Len(wire)
  /\ \A k \in 1 .. Len(wire) :
       wire'[k] = IF k = i THEN wire[i + 1] ELSE IF k = i + 1 THEN wire[i] ELSE wire[k]

Dropped(i) ==
  /\ Len(wire') = Len(wire) - 1
  /\ wire[i].kind = "PlayerDisconnected"
  /\ \A k \in 1 .. (Len(wire) - 1) :
       wire'[k] = IF k < i THEN wire[k] ELSE wire[k + 1]

LEMMA OvertakeFacts ==
  ASSUME TypeOK, NEW i \in DOMAIN wire, Overtake(i)
  PROVE  /\ wire' \in Seq(WireMsg)
         /\ Len(wire) \in Nat /\ DOMAIN wire = 1 .. Len(wire)
         /\ i \in 1 .. Len(wire) /\ i + 1 \in 1 .. Len(wire)
         /\ \A k \in {i, i + 1} : wire[k].kind \notin {"LoadResource", "ResourceFile"}
         /\ Swapped(i) \/ Dropped(i)
<1>1. wire \in Seq(WireMsg) /\ Len(wire) \in Nat /\ DOMAIN wire = 1 .. Len(wire)
      /\ i \in 1 .. Len(wire) /\ i + 1 \in 1 .. Len(wire)
  BY TypeFacts DEF Overtake
<1>2. ASSUME NEW k \in {i, i + 1}
      PROVE  wire[k].kind \notin {"LoadResource", "ResourceFile"}
  <2>1. wire[k] \in WireMsg /\ wire[k] \notin {Msg("LoadResource", 0), Msg("ResourceFile", 0)}
    <3>1. {wire[i], wire[i + 1]} \cap {Msg("LoadResource", 0), Msg("ResourceFile", 0)} = {}
      BY ResourceFacts DEF Overtake
    <3>2. wire[i] \in WireMsg /\ wire[i + 1] \in WireMsg
      BY <1>1
    <3>3. CASE k = i
      BY <3>1, <3>2, <3>3
    <3>4. CASE k = i + 1
      BY <3>1, <3>2, <3>4
    <3> QED
      BY <3>3, <3>4
  <2>2. wire[k] \in Data => wire[k] \in Updates \cup Departures
    BY <2>1, ResourceFacts DEF Data
  <2> QED
    BY <2>1, <2>2, DataFacts, WireFacts DEF DataKinds
<1>3. CASE {wire[i], wire[i + 1]} \subseteq Departures
  <2>1. wire' = SubSeq(wire, 1, i - 1) \o SubSeq(wire, i + 1, Len(wire))
    BY <1>3 DEF Overtake
  <2> DEFINE first == SubSeq(wire, 1, i - 1)
             last == SubSeq(wire, i + 1, Len(wire))
  <2>2. /\ first \in Seq(WireMsg) /\ Len(first) = i - 1
        /\ \A k \in 1 .. i - 1 : first[k] = wire[k]
    BY <1>1
  <2>3. /\ last \in Seq(WireMsg) /\ Len(last) = Len(wire) - i
        /\ \A k \in 1 .. Len(wire) - i : last[k] = wire[i + k]
    BY <1>1
  <2> HIDE DEF first, last
  <2>4. /\ wire' \in Seq(WireMsg) /\ Len(wire') = (i - 1) + (Len(wire) - i)
        /\ \A k \in 1 .. (i - 1) + (Len(wire) - i) :
             wire'[k] = IF k <= i - 1 THEN first[k] ELSE last[k - (i - 1)]
    <3>1. wire' = first \o last
      BY <2>1 DEF first, last
    <3>2. /\ first \o last \in Seq(WireMsg) /\ Len(first \o last) = Len(first) + Len(last)
          /\ \A k \in 1 .. Len(first) + Len(last) :
               (first \o last)[k] = IF k <= Len(first) THEN first[k] ELSE last[k - Len(first)]
      BY <2>2, <2>3, Joined
    <3> QED
      BY <2>2, <2>3, <3>1, <3>2
  <2>5. /\ wire' \in Seq(WireMsg) /\ Len(wire') = Len(wire) - 1
        /\ \A k \in 1 .. (Len(wire) - 1) :
             wire'[k] = IF k < i THEN wire[k] ELSE wire[k + 1]
    <3>1. (i - 1) + (Len(wire) - i) = Len(wire) - 1
      BY <1>1
    <3>2. ASSUME NEW k \in 1 .. (Len(wire) - 1), k < i
          PROVE  wire'[k] = wire[k]
      <4>1. k <= i - 1 /\ k \in 1 .. i - 1
        BY <1>1, <3>2
      <4> QED
        BY <2>2, <2>4, <3>1, <4>1
    <3>3. ASSUME NEW k \in 1 .. (Len(wire) - 1), ~(k < i)
          PROVE  wire'[k] = wire[k + 1]
      <4>1. /\ k - (i - 1) \in 1 .. Len(wire) - i /\ i + (k - (i - 1)) = k + 1
            /\ ~(k <= i - 1)
        BY <1>1, <3>3
      <4> QED
        BY <2>3, <2>4, <3>1, <4>1
    <3> QED
      BY <2>4, <3>1, <3>2, <3>3
  <2> QED
    BY <1>1, <1>2, <1>3, <2>5, DataFacts DEF Dropped
<1>4. CASE ~({wire[i], wire[i + 1]} \subseteq Departures)
  <2>1. wire' = [wire EXCEPT ![i] = wire[i + 1], ![i + 1] = wire[i]]
    BY <1>4 DEF Overtake
  <2>2. wire' = [k \in 1 .. Len(wire) |->
                   IF k = i THEN wire[i + 1] ELSE IF k = i + 1 THEN wire[i] ELSE wire[k]]
    BY <1>1, <2>1
  <2>3. wire' \in Seq(WireMsg) /\ Len(wire') = Len(wire)
    BY <1>1, <2>2
  <2> QED
    BY <1>1, <1>2, <2>2, <2>3 DEF Swapped
<1> QED
  BY <1>3, <1>4

-----------------------------------------------------------------------------
\* What the steps do, and the types.

QueueStep ==
  \/ queue' = queue
  \/ \E m \in QueueMsg : queue' = Append(queue, m) /\ (m.kind \in Statuses => m.id = conn)
  \/ queue # <<>> /\ queue' = Tail(queue)

WireStep ==
  \/ wire' = wire
  \/ \E m \in WireMsg :
       wire' = Append(wire, m) /\ (m.kind = "ConnectResponse" => m.id = conn)
  \/ wire # <<>> /\ wire' = Tail(wire)
  \/ \E i \in DOMAIN wire : Overtake(i)

LEMMA StatusMsg ==
  ASSUME TypeOK, conn # 0, NEW s \in Statuses
  PROVE  Msg(s, conn) \in QueueMsg
BY DEF TypeOK, QueueMsg, StatusChanged

\* The user's Disconnect, whatever it finds.
DisconnectStep ==
  \/ /\ link = "none" \/ status \in {"None", "Disconnected"}
     /\ UNCHANGED <<status, disconnectRequested, queue, mishaps>>
  \/ /\ link # "none" /\ status \notin {"None", "Disconnected"}
     /\ status' = "Disconnecting" /\ disconnectRequested' = TRUE
     /\ IF status = "Disconnecting" THEN queue' = queue
        ELSE queue' = Append(queue, Msg("Disconnecting", conn))
     /\ mishaps' = IF ConnectedUnread THEN mishaps \cup {"hasty"} ELSE mishaps

LEMMA DisconnectFacts == NetDisconnect => DisconnectStep
BY DEF NetDisconnect, DisconnectStep, Release

LEMMA DisconnectTypes ==
  ASSUME TypeOK, LinkInv, NetDisconnect
  PROVE  /\ status' \in Statuses /\ disconnectRequested' \in BOOLEAN
         /\ mishaps' \subseteq Mishaps /\ QueueStep
         /\ status' \in {status, "Disconnecting"}
         /\ disconnectRequested' # disconnectRequested => status' = "Disconnecting"
<1>1. DisconnectStep
  BY DisconnectFacts
<1>2. CASE UNCHANGED <<status, disconnectRequested, queue, mishaps>>
  BY <1>2 DEF TypeOK, QueueStep
<1>3. CASE ~UNCHANGED <<status, disconnectRequested, queue, mishaps>>
  <2>1. /\ link # "none" /\ conn # 0
        /\ status' = "Disconnecting" /\ disconnectRequested' = TRUE
        /\ \/ queue' = queue \/ queue' = Append(queue, Msg("Disconnecting", conn))
        /\ mishaps' \in {mishaps, mishaps \cup {"hasty"}}
    BY <1>1, <1>3 DEF DisconnectStep, LinkInv
  <2>2. "Disconnecting" \in Statuses /\ "hasty" \in Mishaps
    BY DEF Statuses, Mishaps
  <2>3. QueueStep
    BY <2>1, <2>2, StatusMsg, MsgFacts DEF QueueStep
  <2> QED
    BY <2>1, <2>2, <2>3 DEF TypeOK
<1> QED
  BY <1>2, <1>3

\* A connection that is let go is told so.
LEMMA ExecuteTypes ==
  ASSUME TypeOK, LinkInv, conn # 0, ExecuteDisconnect
  PROVE  /\ QueueStep /\ link' = "none" /\ status' = "Disconnected"
         /\ disconnectRequested' = FALSE
         /\ queue' = Append(queue, Msg("Disconnected", conn))
         /\ Msg("Disconnected", conn) \in QueueMsg
<1>1. Msg("Disconnected", conn) \in QueueMsg
  BY StatusMsg DEF Statuses
<1> QED
  BY <1>1, MsgFacts DEF ExecuteDisconnect, QueueStep, Release

\* The server and the wire do not touch the client.
LEMMA ServerTypes ==
  ASSUME TypeOK, LinkInv, Server \/ Wire
  PROVE  /\ WireStep /\ UNCHANGED client
         /\ players' \subseteq Players /\ served' \in 0 .. MaxConnects
         /\ welcomed' \in 0 .. Len(Resource) /\ established' \in 0 .. MaxConnects
         /\ mishaps' \subseteq Mishaps
<1>0. /\ \A id \in Players : Msg("UpdatePlayer", id) \in WireMsg
                             /\ Msg("PlayerDisconnected", id) \in WireMsg
      /\ Resource[1] \in WireMsg /\ Resource[2] \in WireMsg /\ Bye \in WireMsg
      /\ \A k, n : Msg(k, n).kind = k
      /\ Bye.kind = "Disconnect" /\ Resource[1].kind = "LoadResource"
      /\ Resource[2].kind = "ResourceFile" /\ Len(Resource) = 2
      /\ "remote" \in Mishaps /\ "mixed" \in Mishaps
  BY DataFacts, MsgFacts, ResourceFacts DEF WireMsg, Bye, Mishaps
<1>1. CASE Respond
  <2>1. Msg("ConnectResponse", conn) \in WireMsg /\ Msg("ConnectResponse", conn).id = conn
    BY <1>1, BoundAssumption, MsgFacts DEF Respond, LinkInv, TypeOK, WireMsg, ConnectResponses
  <2> QED
    BY <1>1, <2>1 DEF Respond, Send, WireStep, TypeOK, serverVars
<1>2. CASE Accept
  BY <1>2, <1>0, BoundAssumption DEF Accept, WireStep, TypeOK
<1>3. CASE Welcome
  <2>1. welcomed \in {0, 1} /\ Resource[welcomed + 1] \in WireMsg
        /\ Resource[welcomed + 1].kind # "ConnectResponse"
    BY <1>0, <1>3 DEF Welcome, TypeOK
  <2> QED
    BY <1>0, <1>3, <2>1 DEF Welcome, Send, WireStep, TypeOK
<1>4. CASE Notice
  BY <1>4, BoundAssumption DEF Notice, WireStep, TypeOK, wireVars
<1>5. CASE End
  BY <1>5, <1>0, BoundAssumption DEF End, Send, WireStep, TypeOK
<1>6. ASSUME NEW id \in Players, Join(id) \/ Leave(id) \/ Stream(id)
      PROVE  /\ WireStep /\ UNCHANGED client
             /\ players' \subseteq Players /\ served' \in 0 .. MaxConnects
             /\ welcomed' \in 0 .. Len(Resource) /\ established' \in 0 .. MaxConnects
             /\ mishaps' \subseteq Mishaps
  BY <1>6, <1>0 DEF Join, Leave, Stream, Send, WireStep, TypeOK, serverVars, wireVars
<1>7. CASE Lose
  BY <1>7 DEF Lose, WireStep, TypeOK, serverVars
<1>8. ASSUME NEW j \in DOMAIN wire, Overtake(j)
      PROVE  /\ WireStep /\ UNCHANGED client
             /\ players' \subseteq Players /\ served' \in 0 .. MaxConnects
             /\ welcomed' \in 0 .. Len(Resource) /\ established' \in 0 .. MaxConnects
             /\ mishaps' \subseteq Mishaps
  BY <1>8, <1>0 DEF Overtake, WireStep, TypeOK, serverVars
<1> QED
  BY <1>1, <1>2, <1>3, <1>4, <1>5, <1>6, <1>7, <1>8 DEF Server, Wire

\* The network thread keeps to its tables.
LEMMA NetworkTypes ==
  ASSUME TypeOK, LinkInv, Network
  PROVE  /\ WireStep /\ QueueStep /\ UNCHANGED <<serverVars, scriptVars, conn>>
         /\ established' \in 0 .. MaxConnects /\ link' \in {"none", "handshake", "connected"}
         /\ status' \in Statuses /\ accepting' \in BOOLEAN
         /\ disconnectRequested' \in BOOLEAN /\ mishaps' \subseteq Mishaps
         /\ link' # "none" => conn # 0
         /\ accepting' => link' = "handshake"
         /\ link' = "connected" => status' \in {"Connected", "Disconnecting"}
         /\ link' = "handshake" => status' \in {"InitiatedConnect", "Disconnecting"}
         /\ link' = "handshake" /\ status' = "InitiatedConnect" => ~disconnectRequested'
<1> USE DEF serverVars, scriptVars, connVars, wireVars, Take
<1>0. /\ "remote" \in Mishaps /\ "mixed" \in Mishaps
      /\ "Connected" \in Statuses /\ "Disconnected" \in Statuses
  BY DEF Mishaps, Statuses
<1>1. CASE ReceiveConnectResponse
  <2>1. accepting' \in BOOLEAN /\ (accepting' => link = "handshake")
    BY <1>1 DEF ReceiveConnectResponse
  <2>2. WireStep /\ QueueStep
    BY <1>1 DEF ReceiveConnectResponse, WireStep, QueueStep
  <2>3. mishaps' \subseteq Mishaps
    BY <1>0, <1>1 DEF ReceiveConnectResponse, TypeOK
  <2> QED
    BY <1>1, <2>1, <2>2, <2>3 DEF ReceiveConnectResponse, TypeOK, LinkInv
<1>2. CASE AcceptConnection
  <2>1. conn # 0 /\ Msg("Connected", conn) \in QueueMsg
    BY <1>0, <1>2, StatusMsg DEF AcceptConnection, LinkInv
  <2>2. WireStep /\ QueueStep
    BY <1>2, <2>1, MsgFacts DEF AcceptConnection, Release, WireStep, QueueStep
  <2>3. /\ accepting' = FALSE /\ link' = "connected" /\ status' = "Connected"
        /\ established' = conn
        /\ UNCHANGED <<serverVars, scriptVars, conn, disconnectRequested, mishaps>>
    BY <1>2 DEF AcceptConnection
  <2> QED
    BY <1>0, <2>1, <2>2, <2>3 DEF TypeOK
<1>3. CASE ReceiveData
  <2>1. PICK m \in Data : Take(m) /\ IF link = "connected" THEN Release(m)
                                     ELSE UNCHANGED queue
    BY <1>3 DEF ReceiveData
  <2>2. m \in QueueMsg /\ m.kind \notin Statuses
    BY DataFacts, QueueFacts DEF QueueMsg
  <2>3. QueueStep /\ WireStep
    BY <2>1, <2>2 DEF QueueStep, WireStep, Release
  <2> QED
    BY <1>3, <2>3 DEF ReceiveData, TypeOK, LinkInv
<1>4. CASE ReceiveDisconnect
  <2>1. WireStep
    BY <1>4 DEF ReceiveDisconnect, WireStep
  <2>2. UNCHANGED <<serverVars, scriptVars, conn, established, accepting>> /\ ~accepting
    BY <1>4 DEF ReceiveDisconnect
  <2>3. CASE /\ link = "connected" /\ disconnectRequested' = TRUE
             /\ mishaps' = mishaps \cup {"remote"} /\ UNCHANGED <<link, status, queue>>
    BY <1>0, <2>1, <2>2, <2>3 DEF QueueStep, TypeOK, LinkInv
  <2>4. CASE link = "handshake" /\ ExecuteDisconnect /\ UNCHANGED mishaps
    <3>1. /\ QueueStep /\ link' = "none" /\ status' = "Disconnected"
          /\ disconnectRequested' = FALSE
      BY <2>4, ExecuteTypes DEF LinkInv
    <3> QED
      BY <1>0, <2>1, <2>2, <2>4, <3>1 DEF TypeOK
  <2>5. CASE link = "none" /\ UNCHANGED <<link, status, disconnectRequested, queue, mishaps>>
    BY <2>1, <2>2, <2>5 DEF QueueStep, TypeOK
  <2> QED
    BY <1>4, <2>3, <2>4, <2>5 DEF ReceiveDisconnect
<1>5. CASE HeartbeatDisconnect \/ Timeout
  <2>1. /\ ~accepting /\ link # "none" /\ ExecuteDisconnect
        /\ UNCHANGED <<serverVars, wireVars, conn, accepting, scriptVars>>
        /\ mishaps' \in {mishaps, mishaps \cup {"remote"}}
    BY <1>5 DEF HeartbeatDisconnect, Timeout
  <2>2. /\ QueueStep /\ link' = "none" /\ status' = "Disconnected"
        /\ disconnectRequested' = FALSE
    BY <2>1, ExecuteTypes DEF LinkInv
  <2> QED
    BY <1>0, <2>1, <2>2 DEF TypeOK, WireStep
<1> QED
  BY <1>1, <1>2, <1>3, <1>4, <1>5 DEF Network, Receive

\* The script's thread leaves the wire and the tables alone, and makes a
\* connection only when the last one is gone.
Made ==
  /\ link = "none" /\ conn' = conn + 1 /\ link' = "handshake"
  /\ status' = "InitiatedConnect" /\ disconnectRequested' = FALSE
  /\ visible' = "None"
  /\ UNCHANGED <<queue, Initialized, RemotePlayers, resource, crash, mishaps>>

LEMMA HandleTypes ==
  ASSUME TypeOK, NEW m \in QueueMsg, Handle(m), at = "reading"
  PROVE  /\ visible' \in Statuses /\ at' \in {"reading", "crashed"}
         /\ Initialized' \in BOOLEAN /\ RemotePlayers' \subseteq Players
         /\ resource' \in {"none", "loaded"}
         /\ crash' \in {crash, "ServerConnection", "Resource"}
<1>1. CASE HandleStatus(m)
  <2>1. visible' \in Statuses
    BY <1>1, MsgFacts DEF HandleStatus, StatusChanged, TypeOK
  <2>2. /\ Initialized' \in BOOLEAN /\ RemotePlayers' \subseteq Players
        /\ resource' \in {"none", "loaded"}
    BY <1>1 DEF HandleStatus, Connected, TypeOK
  <2> QED
    BY <1>1, <2>1, <2>2 DEF HandleStatus
<1>2. CASE HandleUpdate(m)
  <2>1. m.id \in Players
    BY <1>2, DataFacts DEF HandleUpdate
  <2> QED
    BY <1>2, <2>1 DEF HandleUpdate, Crash, TypeOK
<1>3. CASE HandlePlayerDisconnected(m)
  BY <1>3 DEF HandlePlayerDisconnected, TypeOK
<1>4. CASE HandleResource(m)
  BY <1>4 DEF HandleResource, Crash, TypeOK
<1>5. CASE UNCHANGED scriptVars
  BY <1>5 DEF scriptVars, TypeOK
<1> QED
  BY <1>1, <1>2, <1>3, <1>4, <1>5 DEF Handle

LEMMA ScriptTypes ==
  ASSUME TypeOK, LinkInv, Script
  PROVE  /\ QueueStep /\ UNCHANGED <<serverVars, wireVars, accepting>>
         /\ UNCHANGED <<conn, link>> \/ Made
         /\ conn' \in 0 .. MaxConnects /\ status' \in Statuses
         /\ disconnectRequested' \in BOOLEAN /\ mishaps' \subseteq Mishaps
         /\ visible' \in Statuses
         /\ at' \in {"idle", "connecting", "reading", "crashed"}
         /\ at' = "connecting" => conn' < MaxConnects
         /\ Initialized' \in BOOLEAN /\ RemotePlayers' \subseteq Players
         /\ resource' \in {"none", "loaded"}
         /\ crash' \in {"nothing", "ServerConnection", "Resource",
                        "RemoteVehiclesController"}
         /\ ~Made => /\ status' \in {status, "Disconnecting"}
                     /\ disconnectRequested' # disconnectRequested
                          => status' = "Disconnecting"
<1> USE DEF serverVars, wireVars, connVars
<1>1. CASE DisconnectCommand
  <2>1. /\ NetDisconnect /\ RemotePlayers' = {} /\ Initialized' = FALSE
        /\ UNCHANGED <<serverVars, wireVars, conn, link, accepting, visible, at,
                       resource, crash>>
    BY <1>1 DEF DisconnectCommand, Disconnect
  <2>2. at = "idle"
    BY <1>1 DEF DisconnectCommand
  <2> QED
    BY <2>1, <2>2, DisconnectTypes DEF TypeOK
<1>2. CASE ConnectCommand
  <2>1. /\ at' = "connecting" /\ conn < MaxConnects
        /\ UNCHANGED <<serverVars, wireVars, conn, link, accepting, visible,
                       resource, crash>>
    BY <1>2 DEF ConnectCommand
  <2>2. CASE Disconnect
    <3>1. NetDisconnect /\ RemotePlayers' = {} /\ Initialized' = FALSE
      BY <2>2 DEF Disconnect
    <3> QED
      BY <2>1, <3>1, DisconnectTypes DEF TypeOK
  <2>3. CASE UNCHANGED <<status, disconnectRequested, queue, mishaps, RemotePlayers,
                         Initialized>>
    BY <2>1, <2>3 DEF TypeOK, QueueStep
  <2> QED
    BY <1>2, <2>2, <2>3 DEF ConnectCommand
<1>3. CASE NetConnect
  <2>1. /\ at' = "idle"
        /\ UNCHANGED <<serverVars, wireVars, accepting, queue, Initialized,
                       RemotePlayers, resource, crash, mishaps>>
    BY <1>3 DEF NetConnect
  <2>2. CASE link # "none"
    <3>1. UNCHANGED <<conn, link, status, disconnectRequested, visible>>
      BY <1>3, <2>2 DEF NetConnect
    <3> QED
      BY <2>1, <3>1 DEF TypeOK, QueueStep
  <2>3. CASE link = "none"
    <3>1. Made
      BY <1>3, <2>1, <2>3 DEF NetConnect, Made
    <3>2. conn' \in 0 .. MaxConnects
      BY <1>3, <3>1, BoundAssumption DEF Made, NetConnect, LinkInv, TypeOK
    <3>3. "None" \in Statuses /\ "InitiatedConnect" \in Statuses
      BY DEF Statuses
    <3> QED
      BY <2>1, <3>1, <3>2, <3>3 DEF Made, TypeOK, QueueStep
  <2> QED
    BY <1>3, <2>2, <2>3 DEF NetConnect
<1>4. CASE BeginTick
  BY <1>4 DEF BeginTick, TypeOK, QueueStep
<1>5. CASE ReadMessage
  <2>1. /\ at = "reading" /\ queue # <<>> /\ queue' = Tail(queue) /\ Handle(Head(queue))
        /\ UNCHANGED <<serverVars, wireVars, connVars, mishaps>>
    BY <1>5 DEF ReadMessage
  <2>2. Head(queue) \in QueueMsg
    BY <2>1, TypeFacts
  <2>3. QueueStep
    BY <2>1 DEF QueueStep
  <2> QED
    BY <2>1, <2>2, <2>3, HandleTypes DEF TypeOK
<1>6. CASE SendUpdate
  BY <1>6 DEF SendUpdate, Crash, TypeOK, QueueStep
<1> QED
  BY <1>1, <1>2, <1>3, <1>4, <1>5, <1>6 DEF Script

LEMMA WireKept ==
  ASSUME TypeOK, LinkInv, WireStep, conn' \in Nat, conn' >= conn
  PROVE  /\ wire' \in Seq(WireMsg)
         /\ \A i \in DOMAIN wire' : wire'[i].kind = "ConnectResponse" => wire'[i].id <= conn'
<1>1. /\ wire \in Seq(WireMsg) /\ Len(wire) \in Nat /\ DOMAIN wire = 1 .. Len(wire)
      /\ conn \in Nat
      /\ \A m \in WireMsg : m.kind = "ConnectResponse" => m.id \in Nat
      /\ \A i \in 1 .. Len(wire) : /\ wire[i] \in WireMsg
                                   /\ wire[i].kind = "ConnectResponse" => wire[i].id <= conn
  BY TypeFacts, WireFacts, BoundAssumption DEF TypeOK, LinkInv
<1>2. \A i \in 1 .. Len(wire) : wire[i].kind = "ConnectResponse" => wire[i].id <= conn'
  BY <1>1
<1>3. CASE wire' = wire
  BY <1>1, <1>2, <1>3
<1>4. ASSUME NEW m \in WireMsg, wire' = Append(wire, m),
             m.kind = "ConnectResponse" => m.id = conn
      PROVE  /\ wire' \in Seq(WireMsg)
             /\ \A i \in DOMAIN wire' : wire'[i].kind = "ConnectResponse" => wire'[i].id <= conn'
  BY <1>1, <1>2, <1>4, Appended
<1>5. CASE wire # <<>> /\ wire' = Tail(wire)
  <2>1. \A i \in 1 .. Len(wire) - 1 : i + 1 \in 1 .. Len(wire)
    BY <1>1
  <2> QED
    BY <1>1, <1>2, <1>5, <2>1, Taken
<1>6. ASSUME NEW j \in DOMAIN wire, Overtake(j)
      PROVE  /\ wire' \in Seq(WireMsg)
             /\ \A i \in DOMAIN wire' : wire'[i].kind = "ConnectResponse" => wire'[i].id <= conn'
  <2>1. /\ wire' \in Seq(WireMsg) /\ DOMAIN wire' = 1 .. Len(wire') /\ Len(wire') \in Nat
        /\ j \in 1 .. Len(wire) /\ j + 1 \in 1 .. Len(wire)
        /\ Swapped(j) \/ Dropped(j)
    BY <1>6, OvertakeFacts
  <2>2. \A k \in 1 .. Len(wire') : \E i \in 1 .. Len(wire) : wire'[k] = wire[i]
    <3>1. CASE Swapped(j)
      BY <1>1, <2>1, <3>1 DEF Swapped
    <3>2. CASE Dropped(j)
      <4>1. Len(wire') = Len(wire) - 1
        BY <3>2 DEF Dropped
      <4>2. \A k \in 1 .. Len(wire') : k \in 1 .. Len(wire) /\ k + 1 \in 1 .. Len(wire)
        BY <1>1, <4>1
      <4> QED
        BY <1>1, <3>2, <4>1, <4>2 DEF Dropped
    <3> QED
      BY <2>1, <3>1, <3>2
  <2> QED
    BY <1>2, <2>1, <2>2
<1> QED
  BY <1>3, <1>4, <1>5, <1>6 DEF WireStep

LEMMA QueueKept ==
  ASSUME TypeOK, LinkInv, QueueStep, conn' \in Nat, conn' >= conn
  PROVE  /\ queue' \in Seq(QueueMsg)
         /\ \A i \in DOMAIN queue' : queue'[i].kind \in Statuses => queue'[i].id <= conn'
<1>1. /\ queue \in Seq(QueueMsg) /\ Len(queue) \in Nat /\ DOMAIN queue = 1 .. Len(queue)
      /\ conn \in Nat
      /\ \A m \in QueueMsg : m.kind \in Statuses => m.id \in Nat
      /\ \A i \in 1 .. Len(queue) : /\ queue[i] \in QueueMsg
                                    /\ queue[i].kind \in Statuses => queue[i].id <= conn
  BY TypeFacts, QueueFacts, BoundAssumption DEF TypeOK, LinkInv
<1>2. \A i \in 1 .. Len(queue) : queue[i].kind \in Statuses => queue[i].id <= conn'
  BY <1>1
<1>3. CASE queue' = queue
  BY <1>1, <1>2, <1>3
<1>4. ASSUME NEW m \in QueueMsg, queue' = Append(queue, m), m.kind \in Statuses => m.id = conn
      PROVE  /\ queue' \in Seq(QueueMsg)
             /\ \A i \in DOMAIN queue' : queue'[i].kind \in Statuses => queue'[i].id <= conn'
  BY <1>1, <1>2, <1>4, Appended
<1>5. CASE queue # <<>> /\ queue' = Tail(queue)
  <2>1. \A i \in 1 .. Len(queue) - 1 : i + 1 \in 1 .. Len(queue)
    BY <1>1
  <2> QED
    BY <1>1, <1>2, <1>5, <2>1, Taken
<1> QED
  BY <1>3, <1>4, <1>5 DEF QueueStep

LEMMA TypesInit == Init => TypeOK /\ LinkInv
<1> SUFFICES ASSUME Init PROVE TypeOK /\ LinkInv
  OBVIOUS
<1>1. "None" \in Statuses /\ 0 \in 0 .. MaxConnects /\ 0 \in 0 .. Len(Resource)
  BY BoundAssumption, ResourceFacts DEF Statuses
<1>2. /\ wire \in Seq(Data \cup ConnectResponses \cup {Bye})
      /\ queue \in Seq(Data \cup StatusChanged)
  BY DEF Init
<1>3. TypeOK
  BY <1>1, <1>2 DEF Init, TypeOK
<1> QED
  BY <1>3 DEF Init, LinkInv

LEMMA TypesNext == TypeOK /\ LinkInv /\ [Next]_vars => TypeOK' /\ LinkInv'
<1> SUFFICES ASSUME TypeOK, LinkInv, [Next]_vars PROVE TypeOK' /\ LinkInv'
  OBVIOUS
<1> USE DEF serverVars, wireVars, connVars, scriptVars, client
<1>0. conn \in Nat /\ MaxConnects \in Nat
  BY BoundAssumption DEF TypeOK
<1>1. CASE Server \/ Wire
  <2>1. QueueStep /\ conn' = conn
    BY <1>1, ServerTypes DEF QueueStep
  <2>2. WireStep
    BY <1>1, ServerTypes
  <2>3. /\ wire' \in Seq(WireMsg) /\ queue' \in Seq(QueueMsg)
        /\ \A i \in DOMAIN wire' : wire'[i].kind = "ConnectResponse" => wire'[i].id <= conn'
        /\ \A i \in DOMAIN queue' : queue'[i].kind \in Statuses => queue'[i].id <= conn'
    BY <1>0, <2>1, <2>2, WireKept, QueueKept
  <2>4. TypeOK'
    BY <1>1, <2>3, ServerTypes DEF TypeOK, WireMsg, QueueMsg
  <2> QED
    BY <1>1, <2>3, <2>4, ServerTypes DEF LinkInv
<1>2. CASE Network
  <2>1. QueueStep /\ WireStep /\ conn' = conn
    BY <1>2, NetworkTypes
  <2>3. /\ wire' \in Seq(WireMsg) /\ queue' \in Seq(QueueMsg)
        /\ \A i \in DOMAIN wire' : wire'[i].kind = "ConnectResponse" => wire'[i].id <= conn'
        /\ \A i \in DOMAIN queue' : queue'[i].kind \in Statuses => queue'[i].id <= conn'
    BY <1>0, <2>1, WireKept, QueueKept
  <2>4. TypeOK'
    BY <1>2, <2>3, NetworkTypes DEF TypeOK, WireMsg, QueueMsg
  <2> QED
    BY <1>2, <2>3, <2>4, NetworkTypes DEF LinkInv
<1>3. CASE Script
  <2>1. QueueStep /\ WireStep
    BY <1>3, ScriptTypes DEF WireStep
  <2>2. conn' \in Nat /\ conn' >= conn
    <3>1. conn' = conn \/ conn' = conn + 1
      BY <1>3, ScriptTypes DEF Made
    <3> QED
      BY <1>0, <3>1
  <2>3. /\ wire' \in Seq(WireMsg) /\ queue' \in Seq(QueueMsg)
        /\ \A i \in DOMAIN wire' : wire'[i].kind = "ConnectResponse" => wire'[i].id <= conn'
        /\ \A i \in DOMAIN queue' : queue'[i].kind \in Statuses => queue'[i].id <= conn'
    BY <2>1, <2>2, WireKept, QueueKept
  <2>4. link' \in {"none", "handshake", "connected"}
    BY <1>3, ScriptTypes DEF TypeOK, Made
  <2>5. TypeOK'
    BY <1>3, <2>3, <2>4, ScriptTypes DEF TypeOK, WireMsg, QueueMsg
  <2>6. CASE Made
    <3>1. accepting' = FALSE
      BY <1>3, <2>6, ScriptTypes DEF LinkInv, Made, TypeOK
    <3>2. /\ conn' = conn + 1 /\ link' = "handshake" /\ status' = "InitiatedConnect"
          /\ disconnectRequested' = FALSE
      BY <2>6 DEF Made
    <3>3. conn' # 0 /\ ~disconnectRequested'
      BY <1>0, <3>2
    <3>4. at' = "connecting" => conn' < MaxConnects
      BY <1>3, ScriptTypes
    <3> QED
      BY <2>3, <2>5, <3>1, <3>2, <3>3, <3>4 DEF LinkInv
  <2>7. CASE ~Made
    BY <1>3, <2>3, <2>5, <2>7, ScriptTypes DEF LinkInv, TypeOK
  <2> QED
    BY <2>6, <2>7
<1>4. CASE UNCHANGED vars
  BY <1>4 DEF vars, TypeOK, LinkInv
<1> QED
  BY <1>1, <1>2, <1>3, <1>4 DEF Next

\* The types, for any players and any bounds.
THEOREM ClientTypesCorrect == Spec => []TypeOK
<1>1. Spec => [](TypeOK /\ LinkInv)
  BY TypesInit, TypesNext, PTL DEF Spec
<1> QED
  BY <1>1, PTL

-----------------------------------------------------------------------------
\* The status: what it is has been announced.

\* A message at the end of the FIFO.
LEMMA OwnAppended ==
  ASSUME TypeOK, NEW m \in QueueMsg, queue' = Append(queue, m), conn' = conn,
         NEW n, n = Len(queue)
  PROVE  /\ n \in Nat /\ DOMAIN queue = 1 .. n /\ DOMAIN queue' = 1 .. (n + 1)
         /\ \A i \in 1 .. n : /\ queue'[i] = queue[i]
                              /\ Own(i)' <=> Own(i)
                              /\ OwnConnected(i)' <=> OwnConnected(i)
         /\ queue'[n + 1] = m
         /\ Own(n + 1)' <=> m.kind \in Statuses /\ m.id = conn
         /\ OwnConnected(n + 1)' <=> m.kind = "Connected" /\ m.id = conn
<1>1. /\ n \in Nat /\ DOMAIN queue = 1 .. n /\ DOMAIN queue' = 1 .. (n + 1)
      /\ \A i \in 1 .. n : queue'[i] = queue[i]
      /\ queue'[n + 1] = m
  BY TypeFacts, Appended
<1>2. \A i \in 1 .. n : Own(i)' <=> Own(i)
  BY <1>1 DEF Own
<1>3. \A i \in 1 .. n : OwnConnected(i)' <=> OwnConnected(i)
  BY <1>1 DEF OwnConnected
<1>4. /\ Own(n + 1)' <=> m.kind \in Statuses /\ m.id = conn
      /\ OwnConnected(n + 1)' <=> m.kind = "Connected" /\ m.id = conn
  BY <1>1 DEF Own, OwnConnected
<1> QED
  BY <1>1, <1>2, <1>3, <1>4

LEMMA StatusOnAppend ==
  ASSUME TypeOK, StatusInv, NEW m \in QueueMsg, queue' = Append(queue, m), conn' = conn,
         m.kind # "Connected" \/ m.id # conn,
         visible' = visible
  PROVE  /\ ConnectedWaits' <=> ConnectedWaits
         /\ \A i, j \in DOMAIN queue' : OwnConnected(i)' /\ OwnConnected(j)' => i = j
         /\ m.kind \in Statuses /\ m.id = conn => Announced(m.kind)'
         /\ ~(m.kind \in Statuses /\ m.id = conn)
              => \A s \in Statuses : Announced(s) => Announced(s)'
<1>0. PICK n : n = Len(queue)
  OBVIOUS
<1>1. /\ n \in Nat /\ DOMAIN queue = 1 .. n /\ DOMAIN queue' = 1 .. (n + 1)
      /\ \A i \in 1 .. n : /\ queue'[i] = queue[i]
                           /\ Own(i)' <=> Own(i)
                           /\ OwnConnected(i)' <=> OwnConnected(i)
      /\ queue'[n + 1] = m
      /\ Own(n + 1)' <=> m.kind \in Statuses /\ m.id = conn
      /\ ~OwnConnected(n + 1)'
  <2>1. OwnConnected(n + 1)' <=> m.kind = "Connected" /\ m.id = conn
    BY <1>0, OwnAppended
  <2> QED
    BY <1>0, <2>1, OwnAppended
<1>2. ConnectedWaits' <=> ConnectedWaits
  BY <1>1 DEF ConnectedWaits
<1>3. \A i, j \in DOMAIN queue' : OwnConnected(i)' /\ OwnConnected(j)' => i = j
  <2>1. \A i \in DOMAIN queue' : OwnConnected(i)' => i \in DOMAIN queue /\ OwnConnected(i)
    BY <1>1
  <2> QED
    BY <2>1 DEF StatusInv
<1>4. ASSUME m.kind \in Statuses, m.id = conn
      PROVE  Announced(m.kind)'
  <2>1. /\ n + 1 \in DOMAIN queue' /\ Own(n + 1)' /\ queue'[n + 1].kind = m.kind
        /\ \A j \in DOMAIN queue' : ~(j > n + 1)
    BY <1>1, <1>4
  <2> QED
    BY <2>1 DEF Announced
<1>5. ASSUME NEW s \in Statuses, ~(m.kind \in Statuses /\ m.id = conn), Announced(s)
      PROVE  Announced(s)'
  <2>1. CASE visible = s /\ \A i \in DOMAIN queue : ~Own(i)
    <3>1. \A i \in DOMAIN queue' : ~Own(i)'
      BY <1>1, <1>5, <2>1
    <3> QED
      BY <2>1, <3>1 DEF Announced
  <2>2. CASE \E i \in DOMAIN queue : /\ Own(i) /\ queue[i].kind = s
                                     /\ \A j \in DOMAIN queue : j > i => ~Own(j)
    <3>1. PICK i \in DOMAIN queue : /\ Own(i) /\ queue[i].kind = s
                                    /\ \A j \in DOMAIN queue : j > i => ~Own(j)
      BY <2>2
    <3>2. i \in DOMAIN queue' /\ Own(i)' /\ queue'[i].kind = s
      BY <1>1, <3>1
    <3>3. \A j \in DOMAIN queue' : j > i => ~Own(j)'
      BY <1>1, <1>5, <3>1
    <3> QED
      BY <3>2, <3>3 DEF Announced
  <2> QED
    BY <1>5, <2>1, <2>2 DEF Announced
<1> QED
  BY <1>2, <1>3, <1>4, <1>5

\* The first message of the FIFO read.
LEMMA OwnTaken ==
  ASSUME TypeOK, queue # <<>>, queue' = Tail(queue), conn' = conn
  PROVE  /\ Len(queue) \in Nat /\ Len(queue) > 0
         /\ DOMAIN queue = 1 .. Len(queue) /\ DOMAIN queue' = 1 .. (Len(queue) - 1)
         /\ Head(queue) = queue[1] /\ Head(queue) \in QueueMsg
         /\ \A i \in 1 .. Len(queue) - 1 :
              /\ i + 1 \in 1 .. Len(queue) /\ queue'[i] = queue[i + 1]
              /\ Own(i)' <=> Own(i + 1)
              /\ OwnConnected(i)' <=> OwnConnected(i + 1)
         /\ \A i \in 1 .. Len(queue) : i # 1 => i - 1 \in 1 .. Len(queue) - 1 /\ (i - 1) + 1 = i
<1>1. /\ Len(queue) \in Nat /\ Len(queue) > 0
      /\ DOMAIN queue = 1 .. Len(queue) /\ DOMAIN queue' = 1 .. (Len(queue) - 1)
      /\ Head(queue) = queue[1] /\ Head(queue) \in QueueMsg
      /\ \A i \in 1 .. Len(queue) - 1 : queue'[i] = queue[i + 1]
  BY TypeFacts, Taken
<1>2. /\ \A i \in 1 .. Len(queue) - 1 : i + 1 \in 1 .. Len(queue)
      /\ \A i \in 1 .. Len(queue) : i # 1 => i - 1 \in 1 .. Len(queue) - 1 /\ (i - 1) + 1 = i
  BY <1>1
<1> QED
  BY <1>1, <1>2 DEF Own, OwnConnected

LEMMA StatusOnRead ==
  ASSUME TypeOK, LinkInv, StatusInv, ReadMessage
  PROVE  StatusInv'
<1>1. /\ at = "reading" /\ queue # <<>> /\ queue' = Tail(queue) /\ Handle(Head(queue))
      /\ UNCHANGED <<conn, link, status>>
  BY DEF ReadMessage, connVars
<1>2. PICK n \in Nat :
        /\ n > 0 /\ DOMAIN queue = 1 .. n /\ DOMAIN queue' = 1 .. (n - 1)
        /\ Head(queue) = queue[1] /\ queue[1] \in QueueMsg
        /\ \A i \in 1 .. n - 1 :
             /\ i + 1 \in 1 .. n /\ queue'[i] = queue[i + 1]
             /\ Own(i)' <=> Own(i + 1)
             /\ OwnConnected(i)' <=> OwnConnected(i + 1)
        /\ \A i \in 1 .. n : i # 1 => i - 1 \in 1 .. n - 1 /\ (i - 1) + 1 = i
  BY <1>1, OwnTaken
<1>3. /\ \A i, j \in DOMAIN queue' : OwnConnected(i)' /\ OwnConnected(j)' => i = j
      /\ ConnectedWaits' => ConnectedWaits
      /\ ~OwnConnected(1) /\ ConnectedWaits => ConnectedWaits'
      /\ OwnConnected(1) => ~ConnectedWaits'
  <2>1. \A i, j \in 1 .. n : OwnConnected(i) /\ OwnConnected(j) => i = j
    BY <1>2 DEF StatusInv
  <2>2. ASSUME NEW i \in 1 .. n - 1, NEW j \in 1 .. n - 1, OwnConnected(i)', OwnConnected(j)'
        PROVE  i = j
    <3>1. i + 1 = j + 1
      BY <1>2, <2>1, <2>2
    <3> QED
      BY <3>1
  <2>3. ASSUME OwnConnected(1), NEW i \in 1 .. n - 1, OwnConnected(i)' PROVE FALSE
    <3>1. 1 \in 1 .. n /\ i + 1 \in 1 .. n /\ OwnConnected(i + 1)
      BY <1>2, <2>3
    <3>2. i + 1 = 1
      BY <2>1, <2>3, <3>1
    <3> QED
      BY <3>2
  <2>4. ConnectedWaits' => ConnectedWaits
    BY <1>2 DEF ConnectedWaits
  <2>5. ASSUME ~OwnConnected(1), ConnectedWaits PROVE ConnectedWaits'
    <3>1. PICK i \in 1 .. n : OwnConnected(i)
      BY <1>2, <2>5 DEF ConnectedWaits
    <3>2. i # 1 /\ i - 1 \in 1 .. n - 1 /\ OwnConnected(i - 1)'
      BY <1>2, <2>5, <3>1
    <3> QED
      BY <1>2, <3>2 DEF ConnectedWaits
  <2> QED
    BY <1>2, <2>2, <2>3, <2>4, <2>5 DEF ConnectedWaits
<1>4. /\ queue[1].kind \in Statuses =>
           /\ visible' = IF queue[1].id = conn THEN queue[1].kind ELSE visible
           /\ Initialized' = (Initialized \/ queue[1].kind = "Connected")
      /\ queue[1].kind \notin Statuses => visible' = visible /\ Initialized' = Initialized
  <2>1. queue[1].kind \in Statuses <=> queue[1] \in StatusChanged
    BY <1>2, QueueFacts
  <2>2. queue[1].kind \in Statuses => queue[1] \notin Data
    BY <1>2, QueueFacts
  <2>3. CASE queue[1].kind \in Statuses
    <3>1. HandleStatus(queue[1])
      BY <1>1, <1>2, <2>1, <2>2, <2>3 DEF Handle
    <3> QED
      BY <2>3, <3>1 DEF HandleStatus, Connected, TypeOK
  <2>4. CASE queue[1].kind \notin Statuses
    <3>1. ~HandleStatus(queue[1])
      BY <2>1, <2>4 DEF HandleStatus
    <3> QED
      BY <1>1, <1>2, <2>4, <3>1 DEF Handle, HandleUpdate, HandlePlayerDisconnected,
                                    HandleResource, scriptVars
  <2> QED
    BY <2>3, <2>4
<1>5. "Connected" \in Statuses
  BY DEF Statuses
<1>6. ASSUME link = "connected"
      PROVE  Announced(status)'
  <2>1. CASE visible = status /\ \A i \in DOMAIN queue : ~Own(i)
    <3>1. ~Own(1) /\ \A i \in DOMAIN queue' : ~Own(i)'
      BY <1>2, <2>1
    <3>2. visible' = visible
      BY <1>4, <3>1 DEF Own
    <3> QED
      BY <1>1, <2>1, <3>1, <3>2 DEF Announced
  <2>2. CASE \E i \in DOMAIN queue : /\ Own(i) /\ queue[i].kind = status
                                     /\ \A j \in DOMAIN queue : j > i => ~Own(j)
    <3>1. PICK i \in 1 .. n : /\ Own(i) /\ queue[i].kind = status
                              /\ \A j \in 1 .. n : j > i => ~Own(j)
      BY <1>2, <2>2
    <3>2. CASE i = 1
      <4>1. visible' = status
        BY <1>4, <3>1, <3>2 DEF Own
      <4>2. \A j \in 1 .. n - 1 : ~Own(j)'
        <5>1. \A j \in 1 .. n - 1 : j + 1 > 1
          OBVIOUS
        <5> QED
          BY <1>2, <3>1, <3>2, <5>1
      <4> QED
        BY <1>1, <1>2, <4>1, <4>2 DEF Announced
    <3>3. CASE i # 1
      <4>1. i - 1 \in 1 .. n - 1 /\ Own(i - 1)' /\ queue'[i - 1].kind = status
        BY <1>2, <3>1, <3>3
      <4>2. \A j \in 1 .. n - 1 : j > i - 1 => ~Own(j)'
        <5>1. \A j \in 1 .. n - 1 : j > i - 1 => j + 1 > i
          OBVIOUS
        <5> QED
          BY <1>2, <3>1, <5>1
      <4> QED
        BY <1>1, <1>2, <4>1, <4>2 DEF Announced
    <3> QED
      BY <3>2, <3>3
  <2> QED
    BY <1>6, <2>1, <2>2 DEF StatusInv, Announced
<1>7. ASSUME link = "connected", status = "Connected"
      PROVE  Initialized' \/ ConnectedWaits'
  <2>1. CASE Initialized
    BY <1>4, <2>1
  <2>2. CASE OwnConnected(1)
    BY <1>4, <1>5, <2>2 DEF OwnConnected
  <2>3. CASE ~Initialized /\ ~OwnConnected(1)
    BY <1>3, <1>7, <2>3 DEF StatusInv
  <2> QED
    BY <2>1, <2>2, <2>3
<1>8. ASSUME link = "handshake" \/ ConnectedWaits'
      PROVE  visible' # "Connected"
  <2>1. link = "handshake" => 1 \in DOMAIN queue /\ ~OwnConnected(1)
    BY <1>2 DEF StatusInv, ConnectedWaits
  <2>2. ~OwnConnected(1) /\ visible # "Connected"
    BY <1>3, <1>8, <2>1 DEF StatusInv
  <2> QED
    BY <1>4, <2>2 DEF OwnConnected
<1> QED
  BY <1>1, <1>3, <1>6, <1>7, <1>8 DEF StatusInv

\* Nothing is released or read, and nobody connects.
LEMMA StatusQuiet ==
  ASSUME StatusInv, UNCHANGED <<queue, conn, visible>>,
         link' = "handshake" => link = "handshake",
         link' = "connected" => UNCHANGED <<link, status>>,
         link' = "connected" /\ status' = "Connected" => Initialized' = Initialized
  PROVE  StatusInv'
<1>1. \A i : (Own(i)' <=> Own(i)) /\ (OwnConnected(i)' <=> OwnConnected(i))
  BY DEF Own, OwnConnected
<1>2. ConnectedWaits' <=> ConnectedWaits
  BY <1>1 DEF ConnectedWaits
<1>3. Announced(status) /\ UNCHANGED status => Announced(status)'
  BY <1>1 DEF Announced
<1>4. \A i, j \in DOMAIN queue' : OwnConnected(i)' /\ OwnConnected(j)' => i = j
  BY <1>1 DEF StatusInv
<1>5. link' = "connected" => Announced(status)'
  BY <1>3 DEF StatusInv
<1>6. link' = "connected" /\ status' = "Connected" => Initialized' \/ ConnectedWaits'
  BY <1>2 DEF StatusInv
<1>7. /\ link' = "handshake" => visible' # "Connected" /\ ~ConnectedWaits'
      /\ ConnectedWaits' => visible' # "Connected"
  BY <1>2 DEF StatusInv
<1> QED
  BY <1>4, <1>5, <1>6, <1>7 DEF StatusInv

\* A message is released that is not the connection's Connected.
LEMMA StatusReleased ==
  ASSUME TypeOK, StatusInv, NEW m \in QueueMsg, queue' = Append(queue, m),
         UNCHANGED <<conn, visible>>,
         m.kind # "Connected" \/ m.id # conn,
         link' = "handshake" => link = "handshake",
         link' = "connected" =>
           /\ link = "connected"
           /\ IF m.kind \in Statuses /\ m.id = conn THEN status' = m.kind
              ELSE UNCHANGED <<status, Initialized>>
  PROVE  StatusInv'
<1>1. /\ ConnectedWaits' <=> ConnectedWaits
      /\ \A i, j \in DOMAIN queue' : OwnConnected(i)' /\ OwnConnected(j)' => i = j
  BY StatusOnAppend
<1>2. ASSUME link' = "connected" PROVE Announced(status)'
  <2>1. CASE m.kind \in Statuses /\ m.id = conn
    <3>1. Announced(m.kind)' /\ status' = m.kind
      BY <1>2, <2>1, StatusOnAppend
    <3> QED
      BY <3>1 DEF Announced
  <2>2. CASE ~(m.kind \in Statuses /\ m.id = conn)
    <3>1. \A s \in Statuses : Announced(s) => Announced(s)'
      BY <2>2, StatusOnAppend
    <3>2. Announced(status) /\ status \in Statuses /\ status' = status
      BY <1>2, <2>2 DEF StatusInv, TypeOK
    <3>3. PICK s \in Statuses : s = status
      BY <3>2
    <3>4. Announced(s)' /\ s = status'
      BY <3>1, <3>2, <3>3
    <3> QED
      BY <3>4 DEF Announced
  <2> QED
    BY <2>1, <2>2
<1>3. ASSUME link' = "connected", status' = "Connected" PROVE Initialized' \/ ConnectedWaits'
  <2>1. link = "connected" /\ UNCHANGED <<status, Initialized>>
    BY <1>3
  <2> QED
    BY <1>1, <1>3, <2>1 DEF StatusInv
<1>4. /\ link' = "handshake" => visible' # "Connected" /\ ~ConnectedWaits'
      /\ ConnectedWaits' => visible' # "Connected"
  BY <1>1 DEF StatusInv
<1> QED
  BY <1>1, <1>2, <1>3, <1>4 DEF StatusInv

\* The connection's own Connected is released.
LEMMA StatusOnAccept ==
  ASSUME TypeOK, LinkInv, StatusInv, AcceptConnection
  PROVE  StatusInv'
<1>1. /\ link = "handshake" /\ link' = "connected" /\ status' = "Connected"
      /\ queue' = Append(queue, Msg("Connected", conn))
      /\ UNCHANGED <<conn, visible>> /\ conn # 0
  BY DEF AcceptConnection, Release, scriptVars, LinkInv
<1>2. Msg("Connected", conn) \in QueueMsg /\ "Connected" \in Statuses
  BY <1>1, StatusMsg DEF Statuses
<1>3. PICK n : n = Len(queue)
  OBVIOUS
<1>4. /\ n \in Nat /\ DOMAIN queue = 1 .. n /\ DOMAIN queue' = 1 .. (n + 1)
      /\ \A i \in 1 .. n : OwnConnected(i)' <=> OwnConnected(i)
      /\ queue'[n + 1] = Msg("Connected", conn)
      /\ Own(n + 1)' /\ OwnConnected(n + 1)'
  BY <1>1, <1>2, <1>3, OwnAppended, MsgFacts
<1>5. visible # "Connected" /\ \A i \in 1 .. n : ~OwnConnected(i)
  BY <1>1, <1>4 DEF StatusInv, ConnectedWaits
<1>6. Announced(status)'
  <2>1. n + 1 \in DOMAIN queue' /\ \A j \in DOMAIN queue' : ~(j > n + 1)
    BY <1>4
  <2>2. queue'[n + 1].kind = status'
    BY <1>1, <1>4, MsgFacts
  <2> QED
    BY <1>4, <2>1, <2>2 DEF Announced
<1>7. ConnectedWaits'
  <2>1. n + 1 \in DOMAIN queue'
    BY <1>4
  <2> QED
    BY <1>4, <2>1 DEF ConnectedWaits
<1>8. \A i, j \in DOMAIN queue' : OwnConnected(i)' /\ OwnConnected(j)' => i = j
  <2>1. \A i \in DOMAIN queue' : OwnConnected(i)' => i = n + 1
    BY <1>4, <1>5
  <2> QED
    BY <2>1
<1> QED
  BY <1>1, <1>5, <1>6, <1>7, <1>8 DEF StatusInv

\* A new connection has released nothing yet.
LEMMA StatusOnMade ==
  ASSUME TypeOK, LinkInv, Made
  PROVE  StatusInv'
<1>1. /\ conn \in Nat /\ conn' = conn + 1 /\ queue' = queue /\ visible' = "None"
      /\ link' = "handshake"
  BY BoundAssumption DEF TypeOK, Made
<1>2. ASSUME NEW i \in DOMAIN queue PROVE ~OwnConnected(i)'
  <2>1. queue[i] \in QueueMsg /\ (queue[i].kind \in Statuses => queue[i].id <= conn)
    BY TypeFacts DEF LinkInv
  <2>2. queue[i].kind = "Connected" => queue[i].id \in Nat /\ queue[i].id <= conn
    BY <2>1, QueueFacts, BoundAssumption DEF Statuses
  <2>3. queue[i].kind = "Connected" => queue[i].id # conn + 1
    BY <1>1, <2>2
  <2> QED
    BY <1>1, <2>3 DEF OwnConnected
<1>3. ~ConnectedWaits' /\ \A i, j \in DOMAIN queue' : OwnConnected(i)' /\ OwnConnected(j)' => i = j
  BY <1>1, <1>2 DEF ConnectedWaits
<1> QED
  BY <1>1, <1>3 DEF StatusInv

\* Disconnect announces Disconnecting.
LEMMA StatusOnDisconnect ==
  ASSUME TypeOK, LinkInv, StatusInv, NetDisconnect, UNCHANGED <<conn, link, visible>>
  PROVE  StatusInv'
<1>1. DisconnectStep
  BY DisconnectFacts
<1>2. CASE /\ link = "none" \/ status \in {"None", "Disconnected"}
           /\ UNCHANGED <<status, disconnectRequested, queue, mishaps>>
  <2>1. link' # "connected"
    BY <1>2 DEF LinkInv
  <2> QED
    BY <1>2, <2>1, StatusQuiet
<1>3. CASE /\ link # "none" /\ status' = "Disconnecting"
           /\ IF status = "Disconnecting" THEN queue' = queue
              ELSE queue' = Append(queue, Msg("Disconnecting", conn))
  <2>1. CASE status = "Disconnecting"
    BY <1>3, <2>1, StatusQuiet
  <2>2. CASE status # "Disconnecting"
    <3>1. /\ Msg("Disconnecting", conn) \in QueueMsg /\ "Disconnecting" \in Statuses
          /\ Msg("Disconnecting", conn).kind = "Disconnecting"
          /\ Msg("Disconnecting", conn).id = conn
      BY <1>3, StatusMsg, MsgFacts DEF Statuses, LinkInv
    <3>2. queue' = Append(queue, Msg("Disconnecting", conn))
      BY <1>3, <2>2
    <3> QED
      BY <1>3, <3>1, <3>2, StatusReleased
  <2> QED
    BY <2>1, <2>2
<1> QED
  BY <1>1, <1>2, <1>3 DEF DisconnectStep

\* The network thread lets the connection go.
LEMMA StatusOnExecute ==
  ASSUME TypeOK, LinkInv, StatusInv, conn # 0, ExecuteDisconnect, UNCHANGED <<conn, visible>>
  PROVE  StatusInv'
<1>1. /\ link' = "none" /\ queue' = Append(queue, Msg("Disconnected", conn))
      /\ Msg("Disconnected", conn) \in QueueMsg
      /\ Msg("Disconnected", conn).kind # "Connected"
  BY ExecuteTypes, MsgFacts
<1> QED
  BY <1>1, StatusReleased

LEMMA StatusNext ==
  ASSUME TypeOK, LinkInv, StatusInv, [Next]_vars
  PROVE  StatusInv'
<1> USE DEF connVars, scriptVars
<1>1. CASE Server \/ Wire
  BY <1>1, ServerTypes, StatusQuiet DEF client
<1>2. CASE ReceiveConnectResponse
  BY <1>2, StatusQuiet DEF ReceiveConnectResponse
<1>3. CASE AcceptConnection
  BY <1>3, StatusOnAccept
<1>4. CASE ReceiveData
  <2>1. PICK m \in Data : Take(m) /\ IF link = "connected" THEN Release(m)
                                     ELSE UNCHANGED queue
    BY <1>4 DEF ReceiveData
  <2>2. m \in QueueMsg /\ m.kind \notin Statuses /\ m.kind # "Connected"
    BY DataFacts, QueueFacts DEF QueueMsg, Statuses
  <2>3. UNCHANGED <<conn, link, status, visible, Initialized>>
    BY <1>4 DEF ReceiveData
  <2>4. CASE link = "connected"
    <3>1. queue' = Append(queue, m)
      BY <2>1, <2>4 DEF Release
    <3> QED
      BY <2>2, <2>3, <3>1, StatusReleased
  <2>5. CASE link # "connected"
    BY <2>1, <2>3, <2>5, StatusQuiet
  <2> QED
    BY <2>4, <2>5
<1>5. CASE ReceiveDisconnect
  <2>1. UNCHANGED <<conn, visible, Initialized>>
    BY <1>5 DEF ReceiveDisconnect
  <2>2. CASE UNCHANGED <<link, status, queue>>
    BY <2>1, <2>2, StatusQuiet
  <2>3. CASE link = "handshake" /\ ExecuteDisconnect
    <3>1. conn # 0
      BY <2>3 DEF LinkInv
    <3> QED
      BY <2>1, <2>3, <3>1, StatusOnExecute
  <2> QED
    BY <1>5, <2>2, <2>3 DEF ReceiveDisconnect
<1>6. CASE HeartbeatDisconnect \/ Timeout
  <2>1. link # "none" /\ ExecuteDisconnect /\ UNCHANGED <<conn, visible>> /\ conn # 0
    BY <1>6 DEF HeartbeatDisconnect, Timeout, LinkInv
  <2> QED
    BY <2>1, StatusOnExecute
<1>7. CASE DisconnectCommand
  <2>1. NetDisconnect /\ UNCHANGED <<conn, link, visible>>
    BY <1>7 DEF DisconnectCommand, Disconnect
  <2> QED
    BY <2>1, StatusOnDisconnect
<1>8. CASE ConnectCommand
  <2>1. UNCHANGED <<conn, link, visible>>
    BY <1>8 DEF ConnectCommand
  <2>2. CASE NetDisconnect
    BY <2>1, <2>2, StatusOnDisconnect
  <2>3. CASE UNCHANGED <<status, queue, Initialized>>
    BY <2>1, <2>3, StatusQuiet
  <2> QED
    BY <1>8, <2>2, <2>3 DEF ConnectCommand, Disconnect
<1>9. CASE NetConnect
  <2>1. CASE link # "none"
    BY <1>9, <2>1, StatusQuiet DEF NetConnect
  <2>2. CASE link = "none"
    <3>1. Made
      BY <1>9, <2>2 DEF NetConnect, Made
    <3> QED
      BY <3>1, StatusOnMade
  <2> QED
    BY <2>1, <2>2
<1>10. CASE BeginTick \/ SendUpdate
  BY <1>10, StatusQuiet DEF BeginTick, SendUpdate
<1>11. CASE ReadMessage
  BY <1>11, StatusOnRead
<1>12. CASE UNCHANGED vars
  BY <1>12, StatusQuiet DEF vars
<1> QED
  BY <1>1, <1>2, <1>3, <1>4, <1>5, <1>6, <1>7, <1>8, <1>9, <1>10, <1>11, <1>12
  DEF Next, Network, Receive, Script

-----------------------------------------------------------------------------
\* The resource: its file comes after the message that makes it.

LEMMA ReadyAtEnd ==
  ASSUME NEW n, n = Len(queue)', Ready(n)'
  PROVE  Ready(Len(queue))'
BY DEF Ready

LEMMA DueAtEnd ==
  ASSUME NEW n, n = Len(wire)', Due(n)'
  PROVE  Due(Len(wire))'
BY DEF Due

\* A resource that is there stays until a Connected is read.
LEMMA ReadyStays ==
  ASSUME queue' = queue, Initialized' => Initialized, resource' = resource, NEW k
  PROVE  Ready(k) => Ready(k)'
BY DEF Ready

LEMMA ReadyOnAppend ==
  ASSUME TypeOK, NEW m \in QueueMsg, queue' = Append(queue, m), NEW n, n = Len(queue),
         Initialized' => Initialized, resource' = resource
  PROVE  /\ \A k \in 0 .. n : Ready(k) => Ready(k)'
         /\ m.kind # "Connected" /\ Ready(n) => Ready(n + 1)'
         /\ m.kind = "LoadResource" => Ready(n + 1)'
<1>1. /\ n \in Nat /\ \A i \in 1 .. n : queue'[i] = queue[i]
      /\ queue'[n + 1] = m
  BY TypeFacts, Appended
<1>2. ASSUME NEW k \in 0 .. n, Ready(k) PROVE Ready(k)'
  <2>1. \A i \in 1 .. k : queue'[i] = queue[i]
    BY <1>1
  <2> QED
    BY <1>2, <2>1 DEF Ready
<1>3. ASSUME m.kind # "Connected", Ready(n) PROVE Ready(n + 1)'
  <2>1. \A i \in 1 .. (n + 1) : i \in 1 .. n \/ i = n + 1
    BY <1>1
  <2>2. \A i \in 1 .. n : i \in 1 .. (n + 1)
    BY <1>1
  <2>3. CASE (Initialized => resource = "loaded") /\ \A i \in 1 .. n : queue[i].kind # "Connected"
    <3>1. \A i \in 1 .. (n + 1) : queue'[i].kind # "Connected"
      BY <1>1, <1>3, <2>1, <2>3
    <3> QED
      BY <2>3, <3>1 DEF Ready
  <2>4. CASE \E i \in 1 .. n : /\ queue[i].kind = "LoadResource"
                               /\ \A j \in 1 .. n : j > i => queue[j].kind # "Connected"
    <3>1. PICK i \in 1 .. n : /\ queue[i].kind = "LoadResource"
                              /\ \A j \in 1 .. n : j > i => queue[j].kind # "Connected"
      BY <2>4
    <3>2. i \in 1 .. (n + 1) /\ queue'[i].kind = "LoadResource"
      BY <1>1, <2>2, <3>1
    <3>3. \A j \in 1 .. (n + 1) : j > i => queue'[j].kind # "Connected"
      BY <1>1, <1>3, <2>1, <3>1
    <3> QED
      BY <3>2, <3>3 DEF Ready
  <2> QED
    BY <1>3, <2>3, <2>4 DEF Ready
<1>4. ASSUME m.kind = "LoadResource" PROVE Ready(n + 1)'
  <2>1. n + 1 \in 1 .. (n + 1) /\ \A j \in 1 .. (n + 1) : ~(j > n + 1)
    BY <1>1
  <2> QED
    BY <1>1, <1>4, <2>1 DEF Ready
<1> QED
  BY <1>2, <1>3, <1>4

\* What reading a message does to the resource.
LEMMA ResourceOnRead ==
  ASSUME TypeOK, ReadMessage
  PROVE  /\ queue # <<>> /\ queue' = Tail(queue) /\ queue[1] \in QueueMsg
         /\ Handle(queue[1])
         /\ queue[1].kind # "Connected" => /\ Initialized' = Initialized
                                           /\ resource' \in {resource, "loaded"}
         /\ queue[1].kind = "LoadResource" /\ Initialized => resource' = "loaded"
<1>1. /\ queue # <<>> /\ queue' = Tail(queue) /\ Handle(Head(queue))
      /\ Head(queue) = queue[1] /\ queue[1] \in QueueMsg
  BY TypeFacts, Taken DEF ReadMessage
<1>2. CASE HandleStatus(queue[1])
  <2>1. queue[1].kind \in Statuses /\ queue[1].kind # "LoadResource"
    BY <1>1, <1>2, QueueFacts DEF HandleStatus, Statuses
  <2> QED
    BY <1>1, <1>2, <2>1 DEF HandleStatus
<1>3. CASE queue[1] \in Data /\ Initialized
           /\ (HandleUpdate(queue[1]) \/ HandlePlayerDisconnected(queue[1]))
  <2>1. queue[1].kind # "LoadResource"
    BY <1>3, DataFacts DEF HandleUpdate, HandlePlayerDisconnected
  <2> QED
    BY <1>1, <1>3, <2>1 DEF HandleUpdate, HandlePlayerDisconnected
<1>4. CASE queue[1] \in Data /\ Initialized /\ HandleResource(queue[1])
  BY <1>1, <1>4 DEF HandleResource
<1>5. CASE queue[1] \in Data /\ ~Initialized /\ UNCHANGED scriptVars
  BY <1>1, <1>5 DEF scriptVars
<1>6. \/ HandleStatus(queue[1])
      \/ /\ queue[1] \in Data /\ Initialized
         /\ HandleUpdate(queue[1]) \/ HandlePlayerDisconnected(queue[1])
      \/ queue[1] \in Data /\ Initialized /\ HandleResource(queue[1])
      \/ queue[1] \in Data /\ ~Initialized /\ UNCHANGED scriptVars
  BY <1>1 DEF Handle
<1> QED
  BY <1>2, <1>3, <1>4, <1>5, <1>6

LEMMA ReadyOnRead ==
  ASSUME TypeOK, ReadMessage, NEW k \in Nat, k + 1 <= Len(queue), Ready(k + 1)
  PROVE  Ready(k)'
<1>1. /\ queue # <<>> /\ queue' = Tail(queue)
      /\ queue[1].kind # "Connected" => /\ Initialized' = Initialized
                                        /\ resource' \in {resource, "loaded"}
      /\ queue[1].kind = "LoadResource" /\ Initialized => resource' = "loaded"
  BY ResourceOnRead
<1>2. /\ Len(queue) \in Nat /\ 1 \in 1 .. (k + 1)
      /\ \A i \in 1 .. k : queue'[i] = queue[i + 1] /\ i + 1 \in 1 .. (k + 1) /\ i + 1 > 1
  BY <1>1, TypeFacts, Taken
<1>3. CASE /\ Initialized => resource = "loaded"
           /\ \A i \in 1 .. (k + 1) : queue[i].kind # "Connected"
  <2>1. Initialized' => resource' = "loaded"
    BY <1>1, <1>2, <1>3
  <2>2. \A i \in 1 .. k : queue'[i].kind # "Connected"
    BY <1>2, <1>3
  <2> QED
    BY <2>1, <2>2 DEF Ready
<1>4. CASE \E i \in 1 .. (k + 1) :
             /\ queue[i].kind = "LoadResource"
             /\ \A j \in 1 .. (k + 1) : j > i => queue[j].kind # "Connected"
  <2>1. PICK i \in 1 .. (k + 1) :
             /\ queue[i].kind = "LoadResource"
             /\ \A j \in 1 .. (k + 1) : j > i => queue[j].kind # "Connected"
    BY <1>4
  <2>2. CASE i = 1
    <3>1. Initialized' => resource' = "loaded"
      BY <1>1, <2>1, <2>2
    <3>2. \A j \in 1 .. k : queue'[j].kind # "Connected"
      BY <1>2, <2>1, <2>2
    <3> QED
      BY <3>1, <3>2 DEF Ready
  <2>3. CASE i # 1
    <3>1. i - 1 \in 1 .. k /\ (i - 1) + 1 = i
      BY <2>3
    <3>2. queue'[i - 1].kind = "LoadResource"
      BY <1>2, <2>1, <3>1
    <3>3. \A j \in 1 .. k : j > i - 1 => queue'[j].kind # "Connected"
      <4>1. \A j \in 1 .. k : j > i - 1 => j + 1 > i
        OBVIOUS
      <4> QED
        BY <1>2, <2>1, <4>1
    <3> QED
      BY <3>1, <3>2, <3>3 DEF Ready
  <2> QED
    BY <2>2, <2>3
<1> QED
  BY <1>3, <1>4 DEF Ready

\* The files that have been released find their resource.
LEMMA FilesStay ==
  ASSUME FilesReady, queue' = queue, Initialized' => Initialized, resource' = resource
  PROVE  FilesReady'
BY ReadyStays DEF FilesReady

LEMMA FilesOnAppend ==
  ASSUME TypeOK, FilesReady, NEW m \in QueueMsg, queue' = Append(queue, m),
         Initialized' => Initialized, resource' = resource,
         m.kind = "ResourceFile" => Ready(Len(queue))
  PROVE  FilesReady'
<1>1. PICK n : n = Len(queue)
  OBVIOUS
<1>2. /\ n \in Nat /\ DOMAIN queue = 1 .. n /\ DOMAIN queue' = 1 .. (n + 1)
      /\ \A i \in 1 .. n : queue'[i] = queue[i]
      /\ queue'[n + 1] = m
  BY <1>1, TypeFacts, Appended
<1>3. \A k \in 0 .. n : Ready(k) => Ready(k)'
  BY <1>1, ReadyOnAppend
<1>4. ASSUME NEW i \in 1 .. (n + 1), queue'[i].kind = "ResourceFile"
      PROVE  Ready(i - 1)'
  <2>1. i - 1 \in 0 .. n
    BY <1>2
  <2>2. Ready(i - 1)
    <3>1. CASE i \in 1 .. n
      BY <1>2, <1>4, <3>1 DEF FilesReady
    <3>2. CASE i = n + 1
      <4>1. i - 1 = n /\ Ready(n)
        BY <1>1, <1>2, <1>4, <3>2
      <4> QED
        BY <4>1
    <3> QED
      BY <1>2, <3>1, <3>2
  <2> QED
    BY <1>3, <2>1, <2>2
<1> QED
  BY <1>2, <1>4 DEF FilesReady

LEMMA FilesOnRead ==
  ASSUME TypeOK, FilesReady, ReadMessage
  PROVE  FilesReady'
<1>1. PICK n : n = Len(queue)
  OBVIOUS
<1>2. queue # <<>> /\ queue' = Tail(queue)
  BY ResourceOnRead
<1>3. /\ n \in Nat /\ DOMAIN queue = 1 .. n /\ DOMAIN queue' = 1 .. (n - 1)
      /\ \A i \in 1 .. (n - 1) : queue'[i] = queue[i + 1]
  BY <1>1, <1>2, TypeFacts, Taken
<1>4. ASSUME NEW i \in 1 .. (n - 1), queue'[i].kind = "ResourceFile"
      PROVE  Ready(i - 1)'
  <2>1. i + 1 \in 1 .. n /\ (i + 1) - 1 = i /\ i - 1 \in Nat /\ (i - 1) + 1 = i
        /\ (i - 1) + 1 <= Len(queue)
    BY <1>1, <1>3
  <2>2. Ready((i + 1) - 1)
    BY <1>3, <1>4, <2>1 DEF FilesReady
  <2>3. Ready((i - 1) + 1)
    BY <2>1, <2>2
  <2> QED
    BY <2>1, <2>3, ReadyOnRead
<1> QED
  BY <1>3, <1>4 DEF FilesReady

\* A file that would be released finds its resource: this stays so.
LEMMA ClearStays ==
  ASSUME TypeOK, Clear, accepting' => accepting,
         link' = "connected" => link = "connected",
         Initialized' => Initialized, resource' = resource,
         \/ queue' = queue
         \/ \E m \in QueueMsg : queue' = Append(queue, m) /\ m.kind # "Connected"
         \/ link' # "connected"
  PROVE  Clear'
<1>1. ~accepting' /\ (link' = "connected" => Ready(Len(queue)))
  BY DEF Clear
<1>2. CASE link' # "connected"
  BY <1>1, <1>2 DEF Clear
<1>3. CASE link' = "connected"
  <2>0. PICK n : n = Len(queue)
    OBVIOUS
  <2>1. n \in Nat /\ Ready(n)
    BY <1>1, <1>3, <2>0, TypeFacts
  <2>2. CASE queue' = queue
    <3>1. Ready(n)' /\ n = Len(queue)'
      BY <2>0, <2>1, <2>2, ReadyStays
    <3>2. Ready(Len(queue))'
      BY <3>1, ReadyAtEnd
    <3> QED
      BY <1>1, <3>2 DEF Clear
  <2>3. ASSUME NEW m \in QueueMsg, queue' = Append(queue, m), m.kind # "Connected"
        PROVE  Clear'
    <3>1. Ready(n + 1)'
      BY <2>0, <2>1, <2>3, ReadyOnAppend
    <3>2. n + 1 = Len(queue)'
      BY <2>0, <2>3, TypeFacts, Appended
    <3>3. Ready(Len(queue))'
      BY <3>1, <3>2, ReadyAtEnd
    <3> QED
      BY <1>1, <3>3 DEF Clear
  <2> QED
    BY <1>3, <2>2, <2>3
<1> QED
  BY <1>2, <1>3

LEMMA ClearOnRead ==
  ASSUME TypeOK, Clear, ReadMessage
  PROVE  Clear'
<1>1. ~accepting' /\ link' = link /\ (link = "connected" => Ready(Len(queue)))
  BY DEF Clear, ReadMessage, connVars
<1>2. CASE link # "connected"
  BY <1>1, <1>2 DEF Clear
<1>3. CASE link = "connected"
  <2>1. queue # <<>> /\ queue' = Tail(queue)
    BY ResourceOnRead
  <2>2. PICK n : n = Len(queue)'
    OBVIOUS
  <2>3. n \in Nat /\ n + 1 = Len(queue) /\ n + 1 <= Len(queue)
    BY <2>1, <2>2, TypeFacts, Taken
  <2>4. Ready(n + 1)
    BY <1>1, <1>3, <2>3
  <2>5. Ready(n)'
    BY <2>3, <2>4, ReadyOnRead
  <2>6. Ready(Len(queue))'
    BY <2>2, <2>5, ReadyAtEnd
  <2> QED
    BY <1>1, <2>6 DEF Clear
<1> QED
  BY <1>2, <1>3

\* The messages that are on their way find it, whatever is put behind them.
LEMMA DueStays ==
  ASSUME wire' = wire, Clear => Clear', NEW k, Due(k)
  PROVE  Due(k)'
BY DEF Due

LEMMA DueOnSend ==
  ASSUME TypeOK, NEW m \in WireMsg, wire' = Append(wire, m), NEW n, n = Len(wire),
         Clear => Clear'
  PROVE  /\ \A k \in 0 .. n : Due(k) => Due(k)'
         /\ m.kind # "ConnectResponse" /\ Due(n) => Due(n + 1)'
         /\ m.kind = "LoadResource" => Due(n + 1)'
<1>1. /\ n \in Nat /\ \A i \in 1 .. n : wire'[i] = wire[i]
      /\ wire'[n + 1] = m
  BY TypeFacts, Appended
<1>2. ASSUME NEW k \in 0 .. n, Due(k) PROVE Due(k)'
  <2>1. \A i \in 1 .. k : wire'[i] = wire[i]
    BY <1>1
  <2> QED
    BY <1>2, <2>1 DEF Due
<1>3. ASSUME m.kind # "ConnectResponse", Due(n) PROVE Due(n + 1)'
  <2>1. \A i \in 1 .. (n + 1) : i \in 1 .. n \/ i = n + 1
    BY <1>1
  <2>2. \A i \in 1 .. n : i \in 1 .. (n + 1)
    BY <1>1
  <2>3. CASE Clear /\ \A i \in 1 .. n : wire[i].kind # "ConnectResponse"
    <3>1. \A i \in 1 .. (n + 1) : wire'[i].kind # "ConnectResponse"
      BY <1>1, <1>3, <2>1, <2>3
    <3> QED
      BY <2>3, <3>1 DEF Due
  <2>4. CASE \E i \in 1 .. n : /\ wire[i].kind = "LoadResource"
                               /\ \A j \in 1 .. n : j > i => wire[j].kind # "ConnectResponse"
    <3>1. PICK i \in 1 .. n : /\ wire[i].kind = "LoadResource"
                              /\ \A j \in 1 .. n : j > i => wire[j].kind # "ConnectResponse"
      BY <2>4
    <3>2. i \in 1 .. (n + 1) /\ wire'[i].kind = "LoadResource"
      BY <1>1, <2>2, <3>1
    <3>3. \A j \in 1 .. (n + 1) : j > i => wire'[j].kind # "ConnectResponse"
      BY <1>1, <1>3, <2>1, <3>1
    <3> QED
      BY <3>2, <3>3 DEF Due
  <2> QED
    BY <1>3, <2>3, <2>4 DEF Due
<1>4. ASSUME m.kind = "LoadResource" PROVE Due(n + 1)'
  <2>1. n + 1 \in 1 .. (n + 1) /\ \A j \in 1 .. (n + 1) : ~(j > n + 1)
    BY <1>1
  <2> QED
    BY <1>1, <1>4, <2>1 DEF Due
<1> QED
  BY <1>2, <1>3, <1>4

LEMMA DueOnTake ==
  ASSUME TypeOK, wire # <<>>, wire' = Tail(wire),
         wire[1].kind = "LoadResource" => Clear',
         wire[1].kind # "ConnectResponse" => (Clear => Clear'),
         NEW k \in Nat, k + 1 <= Len(wire), Due(k + 1)
  PROVE  Due(k)'
<1>2. /\ Len(wire) \in Nat /\ 1 \in 1 .. (k + 1)
      /\ \A i \in 1 .. k : wire'[i] = wire[i + 1] /\ i + 1 \in 1 .. (k + 1) /\ i + 1 > 1
  BY TypeFacts, Taken
<1>3. CASE Clear /\ \A i \in 1 .. (k + 1) : wire[i].kind # "ConnectResponse"
  <2>1. Clear'
    BY <1>2, <1>3
  <2>2. \A i \in 1 .. k : wire'[i].kind # "ConnectResponse"
    BY <1>2, <1>3
  <2> QED
    BY <2>1, <2>2 DEF Due
<1>4. CASE \E i \in 1 .. (k + 1) :
             /\ wire[i].kind = "LoadResource"
             /\ \A j \in 1 .. (k + 1) : j > i => wire[j].kind # "ConnectResponse"
  <2>1. PICK i \in 1 .. (k + 1) :
             /\ wire[i].kind = "LoadResource"
             /\ \A j \in 1 .. (k + 1) : j > i => wire[j].kind # "ConnectResponse"
    BY <1>4
  <2>2. CASE i = 1
    <3>1. Clear'
      BY <2>1, <2>2
    <3>2. \A j \in 1 .. k : wire'[j].kind # "ConnectResponse"
      BY <1>2, <2>1, <2>2
    <3> QED
      BY <3>1, <3>2 DEF Due
  <2>3. CASE i # 1
    <3>1. i - 1 \in 1 .. k /\ (i - 1) + 1 = i
      BY <2>3
    <3>2. wire'[i - 1].kind = "LoadResource"
      BY <1>2, <2>1, <3>1
    <3>3. \A j \in 1 .. k : j > i - 1 => wire'[j].kind # "ConnectResponse"
      <4>1. \A j \in 1 .. k : j > i - 1 => j + 1 > i
        OBVIOUS
      <4> QED
        BY <1>2, <2>1, <4>1
    <3> QED
      BY <3>1, <3>2, <3>3 DEF Due
  <2> QED
    BY <2>2, <2>3
<1> QED
  BY <1>3, <1>4 DEF Due

\* Two messages that change places are no file and no resource.
LEMMA DueOnSwap ==
  ASSUME Len(wire) \in Nat, NEW i \in 1 .. Len(wire), i + 1 <= Len(wire), Swapped(i),
         \A k \in {i, i + 1} : wire[k].kind \notin {"LoadResource", "ResourceFile"},
         Clear => Clear', NEW n \in 0 .. Len(wire), n # i, Due(n)
  PROVE  Due(n)'
<1>1. \A k \in 1 .. n : /\ k \in 1 .. Len(wire)
                        /\ k = i => wire'[k] = wire[i + 1] /\ i + 1 \in 1 .. n
                        /\ k = i + 1 => wire'[k] = wire[i] /\ i \in 1 .. n
                        /\ k \notin {i, i + 1} => wire'[k] = wire[k]
  <2>1. ASSUME NEW k \in 1 .. n PROVE k \in 1 .. Len(wire)
    OBVIOUS
  <2>2. i + 1 # i
    OBVIOUS
  <2>3. i \in 1 .. n => i + 1 \in 1 .. n
    OBVIOUS
  <2>4. i + 1 \in 1 .. n => i \in 1 .. n
    OBVIOUS
  <2> QED
    BY <2>1, <2>2, <2>3, <2>4 DEF Swapped
<1>2. CASE Clear /\ \A k \in 1 .. n : wire[k].kind # "ConnectResponse"
  <2>1. \A k \in 1 .. n : wire'[k].kind # "ConnectResponse"
    BY <1>1, <1>2
  <2> QED
    BY <1>2, <2>1 DEF Due
<1>3. CASE \E k \in 1 .. n : /\ wire[k].kind = "LoadResource"
                             /\ \A j \in 1 .. n : j > k => wire[j].kind # "ConnectResponse"
  <2>1. PICK k \in 1 .. n : /\ wire[k].kind = "LoadResource"
                            /\ \A j \in 1 .. n : j > k => wire[j].kind # "ConnectResponse"
    BY <1>3
  <2>2. k \notin {i, i + 1} /\ wire'[k].kind = "LoadResource"
    BY <1>1, <2>1
  <2>3. ASSUME NEW j \in 1 .. n, j > k PROVE wire'[j].kind # "ConnectResponse"
    <3>1. CASE j = i
      <4>1. i + 1 > k
        BY <2>3, <3>1
      <4> QED
        BY <1>1, <2>1, <3>1, <4>1
    <3>2. CASE j = i + 1
      <4>1. i > k
        BY <2>2, <2>3, <3>2
      <4> QED
        BY <1>1, <2>1, <3>2, <4>1
    <3>3. CASE j \notin {i, i + 1}
      BY <1>1, <2>1, <2>3, <3>3
    <3> QED
      BY <3>1, <3>2, <3>3
  <2> QED
    BY <2>2, <2>3 DEF Due
<1> QED
  BY <1>2, <1>3 DEF Due

\* Nor is the one that is dropped.
LEMMA DueOnDrop ==
  ASSUME Len(wire) \in Nat, NEW i \in 1 .. Len(wire), Dropped(i), Clear => Clear',
         NEW n \in Nat, n + 1 <= Len(wire)
  PROVE  /\ n < i /\ Due(n) => Due(n)'
         /\ n >= i - 1 /\ Due(n + 1) => Due(n)'
<1>0. \A k \in 1 .. n : /\ k \in 1 .. (Len(wire) - 1)
                        /\ k < i => wire'[k] = wire[k]
                        /\ ~(k < i) => wire'[k] = wire[k + 1]
                        /\ k + 1 \in 1 .. (n + 1) /\ k \in 1 .. (n + 1)
  <2>1. \A k \in 1 .. n : /\ k \in 1 .. (Len(wire) - 1)
                          /\ k + 1 \in 1 .. (n + 1) /\ k \in 1 .. (n + 1)
    OBVIOUS
  <2> QED
    BY <2>1 DEF Dropped
<1>1. ASSUME n < i, Due(n) PROVE Due(n)'
  <2>1. \A k \in 1 .. n : wire'[k] = wire[k]
    <3>1. \A k \in 1 .. n : k < i
      BY <1>1
    <3> QED
      BY <1>0, <3>1
  <2> QED
    BY <1>1, <2>1 DEF Due
<1>2. ASSUME n >= i - 1, Due(n + 1) PROVE Due(n)'
  <2>1. CASE Clear /\ \A k \in 1 .. (n + 1) : wire[k].kind # "ConnectResponse"
    <3>1. \A k \in 1 .. n : wire'[k].kind # "ConnectResponse"
      BY <1>0, <2>1
    <3> QED
      BY <2>1, <3>1 DEF Due
  <2>2. CASE \E k \in 1 .. (n + 1) :
               /\ wire[k].kind = "LoadResource"
               /\ \A j \in 1 .. (n + 1) : j > k => wire[j].kind # "ConnectResponse"
    <3>1. PICK k \in 1 .. (n + 1) :
               /\ wire[k].kind = "LoadResource"
               /\ \A j \in 1 .. (n + 1) : j > k => wire[j].kind # "ConnectResponse"
      BY <2>2
    <3>2. k # i
      BY <3>1 DEF Dropped
    <3>3. CASE k < i
      <4>1. k \in 1 .. n /\ wire'[k].kind = "LoadResource"
        <5>1. k \in 1 .. n
          BY <1>2, <3>3
        <5> QED
          BY <1>0, <3>1, <3>3, <5>1
      <4>2. ASSUME NEW j \in 1 .. n, j > k PROVE wire'[j].kind # "ConnectResponse"
        <5>1. j + 1 > k
          BY <4>2
        <5> QED
          BY <1>0, <3>1, <4>2, <5>1
      <4> QED
        BY <4>1, <4>2 DEF Due
    <3>4. CASE k > i
      <4>1. k - 1 \in 1 .. n /\ (k - 1) + 1 = k /\ ~(k - 1 < i)
        BY <3>4
      <4>2. wire'[k - 1].kind = "LoadResource"
        BY <1>0, <3>1, <4>1
      <4>3. ASSUME NEW j \in 1 .. n, j > k - 1 PROVE wire'[j].kind # "ConnectResponse"
        <5>1. j + 1 > k /\ ~(j < i)
          BY <3>4, <4>3
        <5> QED
          BY <1>0, <3>1, <5>1
      <4> QED
        BY <4>1, <4>2, <4>3 DEF Due
    <3> QED
      BY <3>2, <3>3, <3>4
  <2> QED
    BY <1>2, <2>1, <2>2 DEF Due
<1> QED
  BY <1>1, <1>2

\* The same of all that is on its way, and of the file that comes next.
LEMMA WireStays ==
  ASSUME FilesDue, NextDue, wire' = wire, Clear => Clear',
         served' # 0 /\ welcomed' = 1 => served # 0 /\ welcomed = 1
  PROVE  FilesDue' /\ NextDue'
<1>1. FilesDue'
  BY DueStays DEF FilesDue
<1>2. ASSUME served # 0, welcomed = 1 PROVE Due(Len(wire))'
  <2>1. PICK n : n = Len(wire)
    OBVIOUS
  <2>2. Due(n)
    BY <1>2, <2>1 DEF NextDue
  <2>3. Due(n)' /\ n = Len(wire)'
    BY <2>1, <2>2, DueStays
  <2> QED
    BY <2>3, DueAtEnd
<1> QED
  BY <1>1, <1>2 DEF NextDue

LEMMA WireGrows ==
  ASSUME TypeOK, FilesDue, NEW m \in WireMsg, wire' = Append(wire, m), Clear => Clear',
         m.kind = "ResourceFile" => Due(Len(wire)),
         served' # 0 /\ welcomed' = 1 =>
           \/ m.kind = "LoadResource"
           \/ m.kind # "ConnectResponse" /\ Due(Len(wire))
  PROVE  FilesDue' /\ NextDue'
<1>1. PICK n : n = Len(wire)
  OBVIOUS
<1>2. /\ n \in Nat /\ DOMAIN wire = 1 .. n /\ DOMAIN wire' = 1 .. (n + 1)
      /\ \A k \in 1 .. n : wire'[k] = wire[k]
      /\ wire'[n + 1] = m /\ n + 1 = Len(wire)'
  BY <1>1, TypeFacts, Appended
<1>3. /\ \A k \in 0 .. n : Due(k) => Due(k)'
      /\ m.kind # "ConnectResponse" /\ Due(n) => Due(n + 1)'
      /\ m.kind = "LoadResource" => Due(n + 1)'
  BY <1>1, DueOnSend
<1>4. ASSUME NEW k \in 1 .. (n + 1), wire'[k].kind = "ResourceFile" PROVE Due(k - 1)'
  <2>1. k - 1 \in 0 .. n
    BY <1>2
  <2>2. CASE k \in 1 .. n
    BY <1>2, <1>3, <1>4, <2>1, <2>2 DEF FilesDue
  <2>3. CASE k = n + 1
    <3>1. k - 1 = n /\ Due(n)
      BY <1>1, <1>2, <1>4, <2>3
    <3>2. Due(k - 1)
      BY <3>1
    <3> QED
      BY <1>3, <2>1, <3>2
  <2> QED
    BY <1>2, <2>2, <2>3
<1>5. ASSUME served' # 0, welcomed' = 1 PROVE Due(Len(wire))'
  <2>1. Due(n + 1)'
    BY <1>1, <1>3, <1>5
  <2> QED
    BY <1>2, <2>1, DueAtEnd
<1> QED
  BY <1>2, <1>4, <1>5 DEF FilesDue, NextDue

LEMMA WireShrinks ==
  ASSUME TypeOK, FilesDue, NextDue, wire # <<>>, wire' = Tail(wire),
         wire[1].kind = "LoadResource" => Clear',
         wire[1].kind # "ConnectResponse" => (Clear => Clear'),
         served' = served, welcomed' = welcomed
  PROVE  FilesDue' /\ NextDue'
<1>1. PICK n : n = Len(wire)
  OBVIOUS
<1>2. /\ n \in Nat /\ n > 0 /\ DOMAIN wire = 1 .. n /\ DOMAIN wire' = 1 .. (n - 1)
      /\ \A k \in 1 .. (n - 1) : wire'[k] = wire[k + 1]
      /\ n - 1 = Len(wire)'
  BY <1>1, TypeFacts, Taken
<1>3. ASSUME NEW k \in Nat, k + 1 <= n, Due(k + 1) PROVE Due(k)'
  BY <1>1, <1>3, DueOnTake
<1>4. ASSUME NEW k \in 1 .. (n - 1), wire'[k].kind = "ResourceFile" PROVE Due(k - 1)'
  <2>1. k + 1 \in 1 .. n /\ k - 1 \in Nat /\ (k - 1) + 1 <= n /\ (k + 1) - 1 = (k - 1) + 1
    BY <1>2
  <2>2. Due((k + 1) - 1)
    BY <1>2, <1>4, <2>1 DEF FilesDue
  <2>3. Due((k - 1) + 1)
    BY <2>1, <2>2
  <2> QED
    BY <1>3, <2>1, <2>3
<1>5. ASSUME served # 0, welcomed = 1 PROVE Due(Len(wire))'
  <2>1. n - 1 \in Nat /\ (n - 1) + 1 <= n /\ (n - 1) + 1 = Len(wire)
    BY <1>1, <1>2
  <2>2. Due((n - 1) + 1)
    BY <1>5, <2>1 DEF NextDue
  <2>3. Due(n - 1)'
    BY <1>3, <2>1, <2>2
  <2> QED
    BY <1>2, <2>3, DueAtEnd
<1> QED
  BY <1>2, <1>4, <1>5 DEF FilesDue, NextDue

LEMMA WireMixes ==
  ASSUME TypeOK, FilesDue, NextDue, NEW i \in DOMAIN wire, Overtake(i), Clear => Clear',
         served' = served, welcomed' = welcomed
  PROVE  FilesDue' /\ NextDue'
<1>1. PICK n : n = Len(wire)
  OBVIOUS
<1>2. /\ wire' \in Seq(WireMsg) /\ Len(wire) \in Nat
      /\ n \in Nat /\ DOMAIN wire = 1 .. n /\ i \in 1 .. Len(wire)
      /\ i \in Nat /\ i >= 1 /\ i + 1 <= n /\ i + 1 \in 1 .. n
      /\ \A k \in {i, i + 1} : wire[k].kind \notin {"LoadResource", "ResourceFile"}
      /\ Swapped(i) \/ Dropped(i)
  BY <1>1, OvertakeFacts
<1>3. CASE Swapped(i)
  <2>1. /\ Len(wire)' = n /\ DOMAIN wire' = 1 .. n
        /\ \A k \in 1 .. n :
             wire'[k] = IF k = i THEN wire[i + 1] ELSE IF k = i + 1 THEN wire[i] ELSE wire[k]
    BY <1>1, <1>2, <1>3 DEF Swapped
  <2>2. ASSUME NEW k \in 0 .. n, k # i, Due(k) PROVE Due(k)'
    BY <1>1, <1>2, <1>3, <2>2, DueOnSwap
  <2>3. ASSUME NEW k \in 1 .. n, wire'[k].kind = "ResourceFile" PROVE Due(k - 1)'
    <3>1. k \notin {i, i + 1} /\ wire[k].kind = "ResourceFile"
      BY <1>2, <2>1, <2>3
    <3>2. k - 1 \in 0 .. n /\ k - 1 # i
      BY <1>2, <3>1
    <3> QED
      BY <1>2, <2>2, <3>1, <3>2 DEF FilesDue
  <2>4. ASSUME served # 0, welcomed = 1 PROVE Due(Len(wire))'
    <3>1. n \in 0 .. n /\ n # i /\ Due(n)
      BY <1>1, <1>2, <2>4 DEF NextDue
    <3>2. Due(n)'
      BY <2>2, <3>1
    <3> QED
      BY <2>1, <3>2, DueAtEnd
  <2> QED
    BY <2>1, <2>3, <2>4 DEF FilesDue, NextDue
<1>4. CASE Dropped(i)
  <2>1. /\ Len(wire)' = n - 1 /\ DOMAIN wire' = 1 .. (n - 1)
        /\ \A k \in 1 .. (n - 1) : wire'[k] = IF k < i THEN wire[k] ELSE wire[k + 1]
    BY <1>1, <1>2, <1>4 DEF Dropped
  <2>2. ASSUME NEW k \in Nat, k + 1 <= n
        PROVE  /\ k < i /\ Due(k) => Due(k)'
               /\ k >= i - 1 /\ Due(k + 1) => Due(k)'
    BY <1>1, <1>2, <1>4, <2>2, DueOnDrop
  <2>3. ASSUME NEW k \in 1 .. (n - 1), wire'[k].kind = "ResourceFile" PROVE Due(k - 1)'
    <3>1. k - 1 \in Nat /\ (k - 1) + 1 <= n /\ k \in 1 .. n /\ k + 1 \in 1 .. n
          /\ (k + 1) - 1 = (k - 1) + 1
      BY <1>2
    <3>2. CASE k < i
      <4>1. Due(k - 1) /\ k - 1 < i
        BY <1>2, <2>1, <2>3, <3>1, <3>2 DEF FilesDue
      <4> QED
        BY <2>2, <3>1, <4>1
    <3>3. CASE ~(k < i)
      <4>1. wire[k + 1].kind = "ResourceFile"
        BY <2>1, <2>3, <3>3
      <4>2. Due((k + 1) - 1)
        BY <1>2, <3>1, <4>1 DEF FilesDue
      <4>3. Due((k - 1) + 1) /\ k - 1 >= i - 1
        BY <1>2, <3>1, <3>3, <4>2
      <4> QED
        BY <2>2, <3>1, <4>3
    <3> QED
      BY <3>2, <3>3
  <2>4. ASSUME served # 0, welcomed = 1 PROVE Due(Len(wire))'
    <3>1. n - 1 \in Nat /\ (n - 1) + 1 <= n /\ (n - 1) + 1 = Len(wire) /\ n - 1 >= i - 1
      BY <1>1, <1>2
    <3>2. Due((n - 1) + 1)
      BY <2>4, <3>1 DEF NextDue
    <3>3. Due(n - 1)'
      BY <2>2, <3>1, <3>2
    <3> QED
      BY <2>1, <3>3, DueAtEnd
  <2> QED
    BY <2>1, <2>3, <2>4 DEF FilesDue, NextDue
<1> QED
  BY <1>2, <1>3, <1>4

LEMMA ResourceOnServer ==
  ASSUME TypeOK, LinkInv, ResourceInv, Server \/ Wire
  PROVE  ResourceInv'
<1> USE DEF client, connVars, scriptVars, serverVars, wireVars
<1>1. UNCHANGED <<link, accepting, queue, Initialized, resource>>
  BY ServerTypes
<1>2. FilesReady' /\ (Clear => Clear')
  BY <1>1, FilesStay, ClearStays DEF ResourceInv
<1>3. FilesDue /\ NextDue
  BY DEF ResourceInv
<1>4. CASE Accept \/ Notice
  <2>1. wire' = wire /\ ~(served' # 0 /\ welcomed' = 1)
    BY <1>4 DEF Accept, Notice
  <2> QED
    BY <1>2, <1>3, <2>1, WireStays DEF ResourceInv
<1>5. CASE Respond
  <2>1. /\ served' = 0 /\ wire' = Append(wire, Msg("ConnectResponse", conn))
        /\ Msg("ConnectResponse", conn) \in WireMsg
    BY <1>5, BoundAssumption
    DEF Respond, Send, LinkInv, TypeOK, WireMsg, ConnectResponses
  <2>2. Msg("ConnectResponse", conn).kind = "ConnectResponse"
    BY MsgFacts
  <2> QED
    BY <1>2, <1>3, <2>1, <2>2, WireGrows DEF ResourceInv
<1>6. CASE Welcome
  <2>1. /\ served # 0 /\ served' = served /\ welcomed' = welcomed + 1
        /\ welcomed \in {0, 1} /\ wire' = Append(wire, Resource[welcomed + 1])
    BY <1>6, ResourceFacts DEF Welcome, Send, TypeOK
  <2>2. /\ Resource[1] \in WireMsg /\ Resource[1].kind = "LoadResource"
        /\ Resource[2] \in WireMsg /\ Resource[2].kind = "ResourceFile"
    BY DataFacts, ResourceFacts, MsgFacts DEF WireMsg
  <2>3. CASE welcomed = 0
    BY <1>2, <1>3, <2>1, <2>2, <2>3, WireGrows DEF ResourceInv
  <2>4. CASE welcomed = 1
    <3>1. Due(Len(wire)) /\ welcomed' # 1 /\ wire' = Append(wire, Resource[2])
      BY <1>3, <2>1, <2>4 DEF NextDue
    <3> QED
      BY <1>2, <1>3, <2>2, <3>1, WireGrows DEF ResourceInv
  <2> QED
    BY <2>1, <2>3, <2>4
<1>7. CASE End
  <2>1. served' = 0 /\ (wire' = wire \/ wire' = Append(wire, Bye))
    BY <1>7 DEF End, Send
  <2>2. Bye \in WireMsg /\ Bye.kind = "Disconnect"
    BY MsgFacts DEF Bye, WireMsg
  <2>3. CASE wire' = wire
    BY <1>2, <1>3, <2>1, <2>3, WireStays DEF ResourceInv
  <2>4. CASE wire' = Append(wire, Bye)
    BY <1>2, <1>3, <2>1, <2>2, <2>4, WireGrows DEF ResourceInv
  <2> QED
    BY <2>1, <2>3, <2>4
<1>8. ASSUME NEW id \in Players, Join(id) \/ Leave(id) \/ Stream(id) PROVE ResourceInv'
  <2>1. /\ served' = served /\ welcomed' = welcomed
        /\ \/ wire' = wire
           \/ wire' = Append(wire, Msg("PlayerDisconnected", id))
           \/ wire' = Append(wire, Msg("UpdatePlayer", id))
    BY <1>8 DEF Join, Leave, Stream, Send
  <2>2. /\ Msg("PlayerDisconnected", id) \in WireMsg
        /\ Msg("PlayerDisconnected", id).kind = "PlayerDisconnected"
        /\ Msg("UpdatePlayer", id) \in WireMsg
        /\ Msg("UpdatePlayer", id).kind = "UpdatePlayer"
    BY DataFacts, MsgFacts DEF WireMsg
  <2>3. served' # 0 /\ welcomed' = 1 => Due(Len(wire))
    BY <1>3, <2>1 DEF NextDue
  <2>4. CASE wire' = wire
    BY <1>2, <1>3, <2>1, <2>4, WireStays DEF ResourceInv
  <2>5. CASE wire' = Append(wire, Msg("PlayerDisconnected", id))
    BY <1>2, <1>3, <2>2, <2>3, <2>5, WireGrows DEF ResourceInv
  <2>6. CASE wire' = Append(wire, Msg("UpdatePlayer", id))
    BY <1>2, <1>3, <2>2, <2>3, <2>6, WireGrows DEF ResourceInv
  <2> QED
    BY <2>1, <2>4, <2>5, <2>6
<1>9. CASE Lose
  <2>1. /\ wire # <<>> /\ wire' = Tail(wire) /\ served' = served /\ welcomed' = welcomed
        /\ wire[1] \in Updates \cup ConnectResponses \cup {Bye}
    BY <1>9, TypeFacts, Taken DEF Lose
  <2>2. wire[1].kind # "LoadResource"
    BY <2>1, DataFacts, MsgFacts DEF ConnectResponses, Bye
  <2> QED
    BY <1>2, <1>3, <2>1, <2>2, WireShrinks DEF ResourceInv
<1>10. ASSUME NEW j \in DOMAIN wire, Overtake(j) PROVE ResourceInv'
  <2>1. served' = served /\ welcomed' = welcomed
    BY <1>10 DEF Overtake
  <2> QED
    BY <1>2, <1>3, <1>10, <2>1, WireMixes DEF ResourceInv
<1> QED
  BY <1>4, <1>5, <1>6, <1>7, <1>8, <1>9, <1>10 DEF Server, Wire

LEMMA ResourceOnNetwork ==
  ASSUME TypeOK, LinkInv, ResourceInv, Network
  PROVE  ResourceInv'
<1>1. /\ served' = served /\ welcomed' = welcomed
      /\ Initialized' = Initialized /\ resource' = resource /\ conn' = conn
  BY NetworkTypes DEF serverVars, scriptVars
<1>2. FilesReady /\ FilesDue /\ NextDue
  BY DEF ResourceInv
<1>3. CASE ReceiveConnectResponse
  <2>1. PICK m \in ConnectResponses : Take(m)
    BY <1>3 DEF ReceiveConnectResponse
  <2>2. wire # <<>> /\ wire' = Tail(wire) /\ wire[1].kind = "ConnectResponse"
    BY <2>1, TypeFacts, Taken, MsgFacts DEF Take, ConnectResponses
  <2>3. queue' = queue
    BY <1>3 DEF ReceiveConnectResponse
  <2>4. FilesReady'
    BY <1>1, <1>2, <2>3, FilesStay
  <2> QED
    BY <1>1, <1>2, <2>2, <2>4, WireShrinks DEF ResourceInv
<1>4. CASE AcceptConnection
  <2>1. /\ ~Clear /\ wire' = wire /\ queue' = Append(queue, Msg("Connected", conn))
        /\ conn # 0
    BY <1>4 DEF AcceptConnection, Release, Clear, LinkInv
  <2>2. Msg("Connected", conn) \in QueueMsg /\ Msg("Connected", conn).kind # "ResourceFile"
    BY <2>1, StatusMsg, MsgFacts DEF Statuses
  <2>3. FilesReady'
    BY <1>1, <1>2, <2>1, <2>2, FilesOnAppend
  <2> QED
    BY <1>1, <1>2, <2>1, <2>3, WireStays DEF ResourceInv
<1>5. CASE ReceiveData
  <2>1. PICK m \in Data : Take(m) /\ IF link = "connected" THEN Release(m)
                                     ELSE UNCHANGED queue
    BY <1>5 DEF ReceiveData
  <2>2. /\ m \in QueueMsg /\ m.kind # "Connected" /\ ~accepting
        /\ wire # <<>> /\ wire' = Tail(wire) /\ wire[1] = m /\ 1 \in DOMAIN wire
    BY <2>1, TypeFacts, Taken, DataFacts DEF Take, QueueMsg, DataKinds
  <2>3. UNCHANGED <<link, accepting>>
    BY <1>5 DEF ReceiveData, connVars
  <2>4. CASE link = "connected"
    <3>1. queue' = Append(queue, m)
      BY <2>1, <2>4 DEF Release
    <3>2. ASSUME m.kind = "ResourceFile" PROVE Ready(Len(queue))
      <4>1. Due(0)
        <5>1. Due(1 - 1)
          BY <1>2, <2>2, <3>2 DEF FilesDue
        <5> QED
          BY <5>1
      <4>2. Clear
        BY <4>1 DEF Due
      <4> QED
        BY <2>4, <4>2 DEF Clear
    <3>3. FilesReady'
      BY <1>1, <1>2, <2>2, <3>1, <3>2, FilesOnAppend
    <3>4. Clear => Clear'
      BY <1>1, <2>2, <2>3, <3>1, ClearStays
    <3>5. ASSUME m.kind = "LoadResource" PROVE Clear'
      <4>1. PICK n : n = Len(queue)
        OBVIOUS
      <4>2. Ready(n + 1)' /\ n + 1 = Len(queue)'
        BY <1>1, <2>2, <3>1, <3>5, <4>1, ReadyOnAppend, TypeFacts, Appended
      <4>3. Ready(Len(queue))'
        BY <4>2, ReadyAtEnd
      <4> QED
        BY <2>2, <2>3, <4>3 DEF Clear
    <3> QED
      BY <1>1, <1>2, <2>2, <3>3, <3>4, <3>5, WireShrinks DEF ResourceInv
  <2>5. CASE link # "connected"
    <3>1. queue' = queue /\ Clear'
      BY <2>1, <2>2, <2>3, <2>5 DEF Clear
    <3>2. FilesReady'
      BY <1>1, <1>2, <3>1, FilesStay
    <3> QED
      BY <1>1, <1>2, <2>2, <3>1, <3>2, WireShrinks DEF ResourceInv
  <2> QED
    BY <2>4, <2>5
<1>6. CASE ReceiveDisconnect
  <2>1. /\ wire # <<>> /\ wire' = Tail(wire) /\ wire[1] = Bye /\ accepting' = accepting
    BY <1>6, TypeFacts, Taken DEF ReceiveDisconnect, Take
  <2>2. wire[1].kind = "Disconnect"
    BY <2>1, MsgFacts DEF Bye
  <2>3. CASE UNCHANGED <<link, queue>>
    <3>1. FilesReady' /\ (Clear => Clear')
      BY <1>1, <1>2, <2>1, <2>3, FilesStay, ClearStays
    <3> QED
      BY <1>1, <1>2, <2>1, <2>2, <3>1, WireShrinks DEF ResourceInv
  <2>4. CASE link = "handshake" /\ ExecuteDisconnect
    <3>1. /\ link' = "none" /\ queue' = Append(queue, Msg("Disconnected", conn))
          /\ Msg("Disconnected", conn) \in QueueMsg
          /\ Msg("Disconnected", conn).kind # "ResourceFile"
      BY <2>4, ExecuteTypes, MsgFacts DEF LinkInv
    <3>2. FilesReady' /\ (Clear => Clear')
      BY <1>1, <1>2, <2>1, <3>1, FilesOnAppend, ClearStays
    <3> QED
      BY <1>1, <1>2, <2>1, <2>2, <3>2, WireShrinks DEF ResourceInv
  <2> QED
    BY <1>6, <2>3, <2>4 DEF ReceiveDisconnect
<1>7. CASE HeartbeatDisconnect \/ Timeout
  <2>1. /\ link # "none" /\ ExecuteDisconnect /\ wire' = wire /\ accepting' = accepting
    BY <1>7 DEF HeartbeatDisconnect, Timeout, wireVars
  <2>2. /\ link' = "none" /\ queue' = Append(queue, Msg("Disconnected", conn))
        /\ Msg("Disconnected", conn) \in QueueMsg
        /\ Msg("Disconnected", conn).kind # "ResourceFile"
    BY <2>1, ExecuteTypes, MsgFacts DEF LinkInv
  <2>3. FilesReady' /\ (Clear => Clear')
    BY <1>1, <1>2, <2>1, <2>2, FilesOnAppend, ClearStays
  <2> QED
    BY <1>1, <1>2, <2>1, <2>3, WireStays DEF ResourceInv
<1> QED
  BY <1>3, <1>4, <1>5, <1>6, <1>7 DEF Network, Receive

\* Disconnect, and whatever else does not make a resource.
LEMMA ResourceOnQuiet ==
  ASSUME TypeOK, LinkInv, ResourceInv,
         UNCHANGED <<served, welcomed, wire, accepting, resource>>,
         Initialized' => Initialized, link' = "connected" => link = "connected",
         \/ queue' = queue
         \/ link # "none" /\ queue' = Append(queue, Msg("Disconnecting", conn))
  PROVE  ResourceInv'
<1>1. FilesReady /\ FilesDue /\ NextDue
  BY DEF ResourceInv
<1>2. FilesReady' /\ (Clear => Clear')
  <2>1. CASE queue' = queue
    BY <1>1, <2>1, FilesStay, ClearStays
  <2>2. CASE link # "none" /\ queue' = Append(queue, Msg("Disconnecting", conn))
    <3>1. /\ Msg("Disconnecting", conn) \in QueueMsg
          /\ Msg("Disconnecting", conn).kind \notin {"Connected", "ResourceFile"}
      BY <2>2, StatusMsg, MsgFacts DEF LinkInv, Statuses
    <3> QED
      BY <1>1, <2>2, <3>1, FilesOnAppend, ClearStays
  <2> QED
    BY <2>1, <2>2
<1> QED
  BY <1>1, <1>2, WireStays DEF ResourceInv

LEMMA ResourceOnScript ==
  ASSUME TypeOK, LinkInv, ResourceInv, Script
  PROVE  ResourceInv'
<1>1. UNCHANGED <<served, welcomed, wire, accepting>>
  BY ScriptTypes DEF serverVars, wireVars
<1>2. FilesReady /\ FilesDue /\ NextDue
  BY DEF ResourceInv
<1>3. CASE ReadMessage
  <2>1. FilesReady' /\ (Clear => Clear')
    BY <1>2, <1>3, FilesOnRead, ClearOnRead
  <2> QED
    BY <1>1, <1>2, <2>1, WireStays DEF ResourceInv
<1>4. CASE NetDisconnect /\ UNCHANGED <<link, resource>> /\ Initialized' = FALSE
  <2>1. \/ queue' = queue
        \/ link # "none" /\ queue' = Append(queue, Msg("Disconnecting", conn))
    BY <1>4, DisconnectFacts DEF DisconnectStep
  <2> QED
    BY <1>1, <1>4, <2>1, ResourceOnQuiet
<1>5. CASE /\ UNCHANGED <<queue, resource, Initialized>>
           /\ link' = "connected" => link = "connected"
  BY <1>1, <1>5, ResourceOnQuiet
<1>6. ConnectCommand \/ DisconnectCommand \/ NetConnect \/ BeginTick \/ SendUpdate
        => \/ NetDisconnect /\ UNCHANGED <<link, resource>> /\ Initialized' = FALSE
           \/ /\ UNCHANGED <<queue, resource, Initialized>>
              /\ link' = "connected" => link = "connected"
  BY DEF ConnectCommand, DisconnectCommand, Disconnect, NetConnect, BeginTick, SendUpdate,
         connVars
<1> QED
  BY <1>3, <1>4, <1>5, <1>6 DEF Script

LEMMA ResourceNext ==
  ASSUME TypeOK, LinkInv, ResourceInv, [Next]_vars
  PROVE  ResourceInv'
<1>1. CASE UNCHANGED vars
  <2>1. /\ UNCHANGED <<served, welcomed, wire, accepting, resource, queue, Initialized, link>>
    BY <1>1 DEF vars, serverVars, wireVars, connVars, scriptVars
  <2> QED
    BY <2>1, ResourceOnQuiet
<1> QED
  BY <1>1, ResourceOnServer, ResourceOnNetwork, ResourceOnScript DEF Next

-----------------------------------------------------------------------------
\* Nothing that the script made is null when it is needed.

ScriptInv == TypeOK /\ LinkInv /\ StatusInv /\ ResourceInv /\ NothingItMadeIsNull

LEMMA ScriptInit == Init => ScriptInv
<1> SUFFICES ASSUME Init PROVE ScriptInv
  OBVIOUS
<1>1. TypeOK /\ LinkInv
  BY TypesInit
<1>2. DOMAIN queue = {} /\ DOMAIN wire = {}
  BY DEF Init
<1>3. StatusInv
  BY <1>2 DEF Init, StatusInv, ConnectedWaits
<1>4. ResourceInv
  BY <1>2 DEF Init, ResourceInv, FilesReady, FilesDue, NextDue
<1> QED
  BY <1>1, <1>3, <1>4 DEF Init, ScriptInv, NothingItMadeIsNull

LEMMA NothingNullNext ==
  ASSUME ScriptInv, [Next]_vars
  PROVE  NothingItMadeIsNull'
<1>1. TypeOK /\ LinkInv /\ StatusInv /\ ResourceInv /\ crash \in {"nothing", "ServerConnection"}
  BY DEF ScriptInv, NothingItMadeIsNull
<1>2. CASE crash' = crash \/ crash' = "ServerConnection"
  BY <1>1, <1>2 DEF NothingItMadeIsNull
<1>3. CASE Server \/ Wire
  BY <1>1, <1>2, <1>3, ServerTypes DEF client, scriptVars
<1>4. CASE Network
  BY <1>1, <1>2, <1>4, NetworkTypes DEF scriptVars
<1>5. CASE ReadMessage
  <2>1. Handle(queue[1]) /\ queue # <<>>
    BY <1>1, <1>5, ResourceOnRead
  <2>2. CASE queue[1].kind = "ResourceFile" /\ Initialized
    <3>1. 1 \in DOMAIN queue
      BY <1>1, <2>1, TypeFacts
    <3>2. Ready(1 - 1)
      BY <1>1, <2>2, <3>1 DEF ResourceInv, FilesReady
    <3>3. resource = "loaded"
      BY <2>2, <3>2 DEF Ready
    <3> QED
      BY <1>2, <2>1, <2>2, <3>3
      DEF Handle, HandleStatus, HandleUpdate, HandlePlayerDisconnected, HandleResource,
          Crash, scriptVars
  <2>3. CASE ~(queue[1].kind = "ResourceFile" /\ Initialized)
    BY <1>2, <2>1, <2>3
    DEF Handle, HandleStatus, HandleUpdate, HandlePlayerDisconnected, HandleResource,
        Crash, scriptVars
  <2> QED
    BY <2>2, <2>3
<1>6. CASE SendUpdate
  <2>1. queue = <<>>
    BY <1>6 DEF SendUpdate
  <2>2. DOMAIN queue = {} /\ ~ConnectedWaits
    BY <2>1 DEF ConnectedWaits
  <2>3. ASSUME ConnectionStatus = "Connected" PROVE Initialized
    <3>1. link = "connected" /\ visible = "Connected"
      BY <2>3 DEF ConnectionStatus
    <3>2. Announced(status)
      BY <1>1, <3>1 DEF StatusInv
    <3>3. status = "Connected"
      BY <2>2, <3>1, <3>2 DEF Announced
    <3> QED
      BY <1>1, <2>2, <3>1, <3>3 DEF StatusInv
  <2> QED
    BY <1>2, <1>6, <2>3 DEF SendUpdate
<1>7. CASE ConnectCommand \/ DisconnectCommand \/ NetConnect \/ BeginTick
  BY <1>2, <1>7 DEF ConnectCommand, DisconnectCommand, NetConnect, BeginTick
<1>8. CASE UNCHANGED vars
  BY <1>2, <1>8 DEF vars, scriptVars
<1> QED
  BY <1>3, <1>4, <1>5, <1>6, <1>7, <1>8 DEF Next, Script

\* In whatever order Connect, Disconnect, the tick and the network thread come,
\* neither a resource nor the controllers are null when they are needed.
THEOREM ScriptFindsWhatItMade == Spec => []NothingItMadeIsNull
<1>1. ScriptInv /\ [Next]_vars => ScriptInv'
  BY TypesNext, StatusNext, ResourceNext, NothingNullNext DEF ScriptInv
<1>2. Spec => []ScriptInv
  BY <1>1, ScriptInit, PTL DEF Spec
<1>3. ScriptInv => NothingItMadeIsNull
  BY DEF ScriptInv
<1> QED
  BY <1>2, <1>3, PTL

-----------------------------------------------------------------------------
\* The connection is there for whoever was told of it.

\* A message that is not Connected tells nobody, and one that is read told before.
LEMMA ToldSame ==
  ASSUME queue' = queue, conn' = conn, Initialized' => Initialized
  PROVE  (Told' => Told) /\ (ToldByLatest => ToldByLatest')
BY DEF Told, ToldByLatest

LEMMA ToldOnAppend ==
  ASSUME TypeOK, NEW m \in QueueMsg, queue' = Append(queue, m), conn' = conn,
         Initialized' => Initialized
  PROVE  /\ m.kind # "Connected" => (Told' => Told)
         /\ m.kind # "Connected" \/ m.id = conn => (ToldByLatest => ToldByLatest')
<1>1. PICK n : n = Len(queue)
  OBVIOUS
<1>2. /\ n \in Nat /\ DOMAIN queue = 1 .. n /\ DOMAIN queue' = 1 .. (n + 1)
      /\ \A i \in 1 .. n : queue'[i] = queue[i]
      /\ queue'[n + 1] = m
  BY <1>1, TypeFacts, Appended
<1>3. \A i \in 1 .. (n + 1) : i \in 1 .. n \/ i = n + 1
  BY <1>2
<1> QED
  BY <1>2, <1>3 DEF Told, ToldByLatest

LEMMA ToldOnRead ==
  ASSUME TypeOK, ReadMessage
  PROVE  (Told' => Told) /\ (ToldByLatest => ToldByLatest')
<1>1. /\ queue # <<>> /\ queue' = Tail(queue) /\ conn' = conn
      /\ queue[1].kind # "Connected" => Initialized' = Initialized
  BY ResourceOnRead DEF ReadMessage, connVars
<1>2. PICK n : n = Len(queue)
  OBVIOUS
<1>3. /\ n \in Nat /\ DOMAIN queue = 1 .. n /\ DOMAIN queue' = 1 .. (n - 1)
      /\ 1 \in 1 .. n
      /\ \A i \in 1 .. (n - 1) : queue'[i] = queue[i + 1] /\ i + 1 \in 1 .. n
  BY <1>1, <1>2, TypeFacts, Taken
<1> QED
  BY <1>1, <1>3 DEF Told, ToldByLatest

\* Nobody is told, and nothing is asked for.
LEMMA LossKept ==
  ASSUME LossInv, mishaps \subseteq mishaps', Told' => Told,
         ToldByLatest => ToldByLatest',
         UNCHANGED <<link, disconnectRequested>>, accepting' => accepting,
         crash' = "ServerConnection" => crash = "ServerConnection"
  PROVE  LossInv'
BY DEF LossInv

LEMMA LossOnNetwork ==
  ASSUME TypeOK, LinkInv, LossInv, Network
  PROVE  LossInv'
<1>0. UNCHANGED <<conn, Initialized, crash>>
  BY NetworkTypes DEF scriptVars
<1>1. CASE ReceiveConnectResponse
  <2>1. /\ UNCHANGED <<link, status, disconnectRequested, queue>>
        /\ accepting' => link = "handshake" /\ status = "InitiatedConnect"
        /\ mishaps \subseteq mishaps'
    BY <1>1 DEF ReceiveConnectResponse
  <2>2. accepting' => ~disconnectRequested'
    BY <2>1 DEF LinkInv
  <2> QED
    BY <1>0, <2>1, <2>2, ToldSame DEF LossInv
<1>2. CASE AcceptConnection
  <2>1. /\ accepting /\ ~accepting' /\ link' = "connected" /\ conn # 0
        /\ queue' = Append(queue, Msg("Connected", conn))
        /\ UNCHANGED <<disconnectRequested, mishaps>>
    BY <1>2 DEF AcceptConnection, Release, LinkInv
  <2>2. Msg("Connected", conn) \in QueueMsg /\ Msg("Connected", conn).id = conn
    BY <2>1, StatusMsg, MsgFacts DEF Statuses
  <2>3. ToldByLatest => ToldByLatest'
    BY <1>0, <2>1, <2>2, ToldOnAppend
  <2> QED
    BY <1>0, <2>1, <2>3 DEF LossInv
<1>3. CASE ReceiveData
  <2>1. PICK m \in Data : Take(m) /\ IF link = "connected" THEN Release(m)
                                     ELSE UNCHANGED queue
    BY <1>3 DEF ReceiveData
  <2>2. m \in QueueMsg /\ m.kind # "Connected"
    BY DataFacts DEF QueueMsg, DataKinds
  <2>3. queue' = queue \/ queue' = Append(queue, m)
    BY <2>1 DEF Release
  <2>4. (Told' => Told) /\ (ToldByLatest => ToldByLatest')
    BY <1>0, <2>2, <2>3, ToldSame, ToldOnAppend
  <2>5. UNCHANGED <<link, disconnectRequested, accepting, mishaps>>
    BY <1>3 DEF ReceiveData, connVars
  <2> QED
    BY <1>0, <2>4, <2>5, LossKept
\* Whoever lets a connection go that somebody was told of, was asked to or lost it.
<1>4. ASSUME link # "none", ExecuteDisconnect, UNCHANGED accepting, ~accepting,
             mishaps \subseteq mishaps',
             link = "connected" => disconnectRequested \/ "remote" \in mishaps'
      PROVE  LossInv'
  <2>1. /\ link' = "none" /\ disconnectRequested' = FALSE
        /\ queue' = Append(queue, Msg("Disconnected", conn))
        /\ Msg("Disconnected", conn) \in QueueMsg
        /\ Msg("Disconnected", conn).kind # "Connected"
    BY <1>4, ExecuteTypes, MsgFacts DEF LinkInv
  <2>2. (Told' => Told) /\ (ToldByLatest => ToldByLatest')
    BY <1>0, <2>1, ToldOnAppend
  <2>3. mishaps' \cap {"remote", "hasty"} = {} => ~Told
    BY <1>4 DEF LossInv
  <2> QED
    BY <1>0, <1>4, <2>1, <2>2, <2>3 DEF LossInv
<1>5. CASE ReceiveDisconnect
  <2>1. ~accepting /\ UNCHANGED accepting
    BY <1>5 DEF ReceiveDisconnect, Take
  <2>2. CASE link = "connected" /\ mishaps' = mishaps \cup {"remote"}
    BY <2>2 DEF LossInv
  <2>3. CASE link = "handshake" /\ ExecuteDisconnect /\ UNCHANGED mishaps
    BY <1>4, <2>1, <2>3
  <2>4. CASE UNCHANGED <<link, status, disconnectRequested, queue, mishaps>>
    BY <1>0, <2>1, <2>4, ToldSame, LossKept
  <2> QED
    BY <1>5, <2>2, <2>3, <2>4 DEF ReceiveDisconnect
<1>6. CASE HeartbeatDisconnect \/ Timeout
  BY <1>4, <1>6 DEF HeartbeatDisconnect, Timeout
<1> QED
  BY <1>1, <1>2, <1>3, <1>5, <1>6 DEF Network, Receive

LEMMA LossOnDisconnect ==
  ASSUME TypeOK, LinkInv, LossInv, NetDisconnect, Initialized' = FALSE,
         UNCHANGED <<conn, link, accepting, crash>>
  PROVE  LossInv'
<1>1. DisconnectStep
  BY DisconnectFacts
<1>2. CASE UNCHANGED <<status, disconnectRequested, queue, mishaps>>
  BY <1>2, ToldSame, LossKept
<1>3. CASE /\ link # "none"
           /\ \/ queue' = queue \/ queue' = Append(queue, Msg("Disconnecting", conn))
           /\ mishaps' = IF ConnectedUnread THEN mishaps \cup {"hasty"} ELSE mishaps
  <2>1. CASE ConnectedUnread
    BY <1>3, <2>1 DEF LossInv
  <2>2. CASE ~ConnectedUnread
    <3>1. /\ ~accepting' /\ mishaps' = mishaps
          /\ \A i \in DOMAIN queue : queue[i] # Msg("Connected", conn)
      BY <1>3, <2>2 DEF ConnectedUnread
    <3>2. ToldByLatest => \A i \in DOMAIN queue : queue[i].kind # "Connected"
      <4>1. \A i \in DOMAIN queue : queue[i] = Msg(queue[i].kind, queue[i].id)
        BY TypeFacts, QueueFacts
      <4> QED
        BY <3>1, <4>1 DEF ToldByLatest
    <3>3. /\ Msg("Disconnecting", conn) \in QueueMsg
          /\ Msg("Disconnecting", conn).kind # "Connected"
      BY <1>3, StatusMsg, MsgFacts DEF LinkInv, Statuses
    <3>4. (ToldByLatest => ToldByLatest') /\ (ToldByLatest => ~Told')
      <4>1. CASE queue' = queue
        BY <3>2, <4>1 DEF Told, ToldByLatest
      <4>2. CASE queue' = Append(queue, Msg("Disconnecting", conn))
        <5>1. PICK n : n = Len(queue)
          OBVIOUS
        <5>2. /\ n \in Nat /\ DOMAIN queue = 1 .. n /\ DOMAIN queue' = 1 .. (n + 1)
              /\ \A i \in 1 .. n : queue'[i] = queue[i]
              /\ queue'[n + 1] = Msg("Disconnecting", conn)
          BY <3>3, <4>2, <5>1, TypeFacts, Appended
        <5>3. \A i \in 1 .. (n + 1) : i \in 1 .. n \/ i = n + 1
          BY <5>2
        <5>4. ToldByLatest => \A i \in DOMAIN queue' : queue'[i].kind # "Connected"
          BY <3>2, <3>3, <5>2, <5>3
        <5> QED
          BY <5>4 DEF Told, ToldByLatest
      <4> QED
        BY <1>3, <4>1, <4>2
    <3> QED
      BY <3>1, <3>4 DEF LossInv
  <2> QED
    BY <2>1, <2>2
<1> QED
  BY <1>1, <1>2, <1>3 DEF DisconnectStep

LEMMA LossOnScript ==
  ASSUME TypeOK, LinkInv, LossInv, Script
  PROVE  LossInv'
<1>1. accepting' = accepting
  BY ScriptTypes
<1>2. CASE NetDisconnect /\ Initialized' = FALSE /\ UNCHANGED <<conn, link, crash>>
  BY <1>1, <1>2, LossOnDisconnect
<1>3. CASE UNCHANGED <<conn, link, crash, queue, Initialized, disconnectRequested, mishaps>>
  BY <1>1, <1>3, ToldSame, LossKept
<1>4. CASE Made
  <2>1. /\ link = "none" /\ link' = "handshake" /\ ~accepting'
        /\ UNCHANGED <<queue, Initialized, crash, mishaps>>
    BY <1>1, <1>4 DEF Made, LinkInv
  <2>2. LossInv /\ mishaps \cap {"remote", "hasty"} = {} => ~Told /\ crash # "ServerConnection"
    BY <2>1 DEF LossInv
  <2>3. (~Told => ~Told') /\ (~Told => ToldByLatest')
    BY <2>1 DEF Told, ToldByLatest
  <2> QED
    BY <2>1, <2>2, <2>3 DEF LossInv
<1>5. CASE ReadMessage
  <2>1. (Told' => Told) /\ (ToldByLatest => ToldByLatest')
    BY <1>5, ToldOnRead
  <2>2. UNCHANGED <<link, disconnectRequested, mishaps>>
    BY <1>5 DEF ReadMessage, connVars
  <2>3. Handle(queue[1])
    BY <1>5, ResourceOnRead
  <2>4. crash' = "ServerConnection"
          => crash = "ServerConnection" \/ (Initialized /\ link # "connected")
    BY <2>3
    DEF Handle, HandleStatus, HandleUpdate, HandlePlayerDisconnected, HandleResource,
        Crash, scriptVars
  <2>5. Initialized => Told
    BY DEF Told
  <2> QED
    BY <1>1, <2>1, <2>2, <2>4, <2>5 DEF LossInv
<1>6. CASE SendUpdate
  <2>1. /\ UNCHANGED <<conn, link, queue, Initialized, disconnectRequested, mishaps>>
        /\ crash' = "ServerConnection" => crash = "ServerConnection"
    BY <1>6 DEF SendUpdate, connVars, Crash
  <2> QED
    BY <1>1, <2>1, ToldSame, LossKept
<1>7. ConnectCommand \/ DisconnectCommand \/ BeginTick
        => \/ NetDisconnect /\ Initialized' = FALSE /\ UNCHANGED <<conn, link, crash>>
           \/ UNCHANGED <<conn, link, crash, queue, Initialized, disconnectRequested, mishaps>>
  BY DEF ConnectCommand, DisconnectCommand, Disconnect, BeginTick, connVars
<1>8. NetConnect
        => \/ UNCHANGED <<conn, link, crash, queue, Initialized, disconnectRequested, mishaps>>
           \/ Made
  BY DEF NetConnect, Made
<1> QED
  BY <1>2, <1>3, <1>4, <1>5, <1>6, <1>7, <1>8 DEF Script

LEMMA LossNext ==
  ASSUME TypeOK, LinkInv, LossInv, [Next]_vars
  PROVE  LossInv'
<1>1. CASE Server \/ Wire
  <2>1. mishaps \subseteq mishaps'
    BY <1>1 DEF Server, Wire, Respond, Accept, Welcome, Notice, End, Join, Leave, Stream,
                Lose, Overtake
  <2> QED
    BY <1>1, <2>1, ServerTypes, ToldSame, LossKept DEF client, connVars, scriptVars
<1>2. CASE UNCHANGED vars
  BY <1>2, ToldSame, LossKept DEF vars, connVars, scriptVars
<1> QED
  BY <1>1, <1>2, LossOnNetwork, LossOnScript DEF Next

\* Without a loss and without a hasty Disconnect, an update that is handled finds
\* the connection there.
THEOREM UpdatesFindTheConnection == Spec => []OnlyLossCrashes
<1>1. Init => LossInv
  BY DEF Init, LossInv, Told, ToldByLatest
<1>2. TypeOK /\ LinkInv /\ LossInv /\ [Next]_vars => LossInv'
  BY LossNext
<1>3. Spec => [](TypeOK /\ LinkInv /\ LossInv)
  BY <1>1, <1>2, TypesInit, TypesNext, PTL DEF Spec
<1>4. LossInv => OnlyLossCrashes
  BY DEF LossInv, OnlyLossCrashes
<1> QED
  BY <1>3, <1>4, PTL

-----------------------------------------------------------------------------
\* The session: whoever has left and is shown, that it left comes later.

\* What a message at the end of the wire, and one taken from its head, does.
LEMMA SaidOnSend ==
  ASSUME TypeOK, NEW m \in WireMsg, wire' = Append(wire, m)
  PROVE  /\ m.kind \notin DataKinds => \A i \in Nat : NothingAfter(i) => NothingAfter(i)'
         /\ \A id : WireSays(id) \/ m = Msg("PlayerDisconnected", id) => WireSays(id)'
         /\ \A id : \/ m = Msg("PlayerDisconnected", id)
                    \/ WireSettles(id) /\ m # Msg("UpdatePlayer", id)
                    => WireSettles(id)'
<1>1. PICK n : n = Len(wire)
  OBVIOUS
<1>2. /\ n \in Nat /\ DOMAIN wire = 1 .. n /\ DOMAIN wire' = 1 .. (n + 1)
      /\ \A k \in 1 .. n : wire'[k] = wire[k] /\ k \in 1 .. (n + 1) /\ n + 1 > k
      /\ wire'[n + 1] = m /\ n + 1 \in 1 .. (n + 1)
      /\ \A k \in 1 .. (n + 1) : k \in 1 .. n \/ k = n + 1
  BY <1>1, TypeFacts, Appended
<1>3. ASSUME m.kind \notin DataKinds, NEW i \in Nat, NothingAfter(i)
      PROVE  NothingAfter(i)'
  BY <1>2, <1>3 DEF NothingAfter
<1>4. ASSUME NEW id, WireSays(id) \/ m = Msg("PlayerDisconnected", id)
      PROVE  WireSays(id)'
  BY <1>2, <1>4 DEF WireSays
<1>5. ASSUME NEW id, m = Msg("PlayerDisconnected", id)
      PROVE  WireSettles(id)'
  <2>1. m # Msg("UpdatePlayer", id)
    BY <1>5, MsgFacts
  <2> QED
    BY <1>2, <1>5, <2>1 DEF WireSettles
<1>6. ASSUME NEW id, WireSettles(id), m # Msg("UpdatePlayer", id)
      PROVE  WireSettles(id)'
  <2>1. ASSUME NEW i \in 1 .. (n + 1), wire'[i] = Msg("UpdatePlayer", id)
        PROVE  \E j \in 1 .. (n + 1) : j > i /\ wire'[j] = Msg("PlayerDisconnected", id)
    <3>1. i \in 1 .. n /\ wire[i] = Msg("UpdatePlayer", id)
      BY <1>2, <1>6, <2>1
    <3>2. PICK j \in 1 .. n : j > i /\ wire[j] = Msg("PlayerDisconnected", id)
      BY <1>2, <1>6, <3>1 DEF WireSettles
    <3> QED
      BY <1>2, <3>2
  <2> QED
    BY <1>2, <2>1 DEF WireSettles
<1> QED
  BY <1>3, <1>4, <1>5, <1>6

LEMMA SaidOnTake ==
  ASSUME TypeOK, wire # <<>>, wire' = Tail(wire)
  PROVE  /\ NothingAfter(0) \/ NothingAfter(1) => NothingAfter(0)'
         /\ \A id : WireSays(id) => \/ WireSays(id)'
                                    \/ wire[1] = Msg("PlayerDisconnected", id)
         /\ \A id : WireSettles(id) => WireSettles(id)'
         /\ \A id : WireSettles(id) /\ wire[1] = Msg("UpdatePlayer", id) => WireSays(id)'
<1>1. PICK n : n = Len(wire)
  OBVIOUS
<1>2. /\ n \in Nat /\ DOMAIN wire = 1 .. n /\ DOMAIN wire' = 1 .. (n - 1)
      /\ \A k \in 1 .. (n - 1) : wire'[k] = wire[k + 1] /\ k + 1 \in 1 .. n /\ k + 1 > 1
                                 /\ k + 1 > 0
      /\ 1 \in 1 .. n
      /\ \A k \in 1 .. n : k # 1 => k > 1 /\ k - 1 \in 1 .. (n - 1) /\ (k - 1) + 1 = k
  BY <1>1, TypeFacts, Taken
<1>3. ASSUME NothingAfter(0) \/ NothingAfter(1) PROVE NothingAfter(0)'
  BY <1>2, <1>3 DEF NothingAfter
<1>4. ASSUME NEW id, WireSays(id), wire[1] # Msg("PlayerDisconnected", id)
      PROVE  WireSays(id)'
  <2>1. PICK k \in 1 .. n : wire[k] = Msg("PlayerDisconnected", id)
    BY <1>2, <1>4 DEF WireSays
  <2>2. k - 1 \in 1 .. (n - 1) /\ wire'[k - 1] = Msg("PlayerDisconnected", id)
    BY <1>2, <1>4, <2>1
  <2> QED
    BY <1>2, <2>2 DEF WireSays
<1>5. ASSUME NEW id, WireSettles(id) PROVE WireSettles(id)'
  <2>1. ASSUME NEW i \in 1 .. (n - 1), wire'[i] = Msg("UpdatePlayer", id)
        PROVE  \E j \in 1 .. (n - 1) : j > i /\ wire'[j] = Msg("PlayerDisconnected", id)
    <3>1. i + 1 \in 1 .. n /\ wire[i + 1] = Msg("UpdatePlayer", id)
      BY <1>2, <2>1
    <3>2. PICK j \in 1 .. n : j > i + 1 /\ wire[j] = Msg("PlayerDisconnected", id)
      BY <1>2, <1>5, <3>1 DEF WireSettles
    <3>3. j # 1 /\ j - 1 > i
      BY <3>2
    <3>4. j - 1 \in 1 .. (n - 1) /\ wire'[j - 1] = Msg("PlayerDisconnected", id)
      BY <1>2, <3>2, <3>3
    <3> QED
      BY <3>3, <3>4
  <2> QED
    BY <1>2, <2>1 DEF WireSettles
<1>6. ASSUME NEW id, WireSettles(id), wire[1] = Msg("UpdatePlayer", id)
      PROVE  WireSays(id)'
  <2>1. PICK j \in 1 .. n : j > 1 /\ wire[j] = Msg("PlayerDisconnected", id)
    BY <1>2, <1>6 DEF WireSettles
  <2>2. j - 1 \in 1 .. (n - 1) /\ wire'[j - 1] = Msg("PlayerDisconnected", id)
    BY <1>2, <2>1
  <2> QED
    BY <1>2, <2>2 DEF WireSays
<1> QED
  BY <1>3, <1>4, <1>5, <1>6

\* The answer comes first still.
LEMMA AnswerOnSend ==
  ASSUME TypeOK, AnswerComesFirst, NEW m \in WireMsg, wire' = Append(wire, m),
         conn' = conn, established' = established,
         m = Msg("ConnectResponse", conn) => served' = 0 /\ established' = 0,
         \/ served' = served /\ m.kind \notin DataKinds
         \/ served # 0
  PROVE  AnswerComesFirst'
<1>1. PICK n : n = Len(wire)
  OBVIOUS
<1>2. /\ n \in Nat /\ DOMAIN wire = 1 .. n /\ DOMAIN wire' = 1 .. (n + 1)
      /\ \A k \in 1 .. n : wire'[k] = wire[k]
      /\ wire'[n + 1] = m
      /\ \A k \in 1 .. (n + 1) : k \in 1 .. n \/ k = n + 1
  BY <1>1, TypeFacts, Appended
<1>3. ASSUME NEW i \in 1 .. (n + 1), wire'[i] = Msg("ConnectResponse", conn)
      PROVE  served' = 0 /\ established' = 0 /\ NothingAfter(i)'
  <2>1. CASE i \in 1 .. n
    <3>1. wire[i] = Msg("ConnectResponse", conn)
      BY <1>2, <1>3, <2>1
    <3>2. served = 0 /\ established = 0 /\ NothingAfter(i)
      BY <1>2, <2>1, <3>1 DEF AnswerComesFirst
    <3>3. NothingAfter(i)'
      BY <2>1, <3>2, SaidOnSend
    <3> QED
      BY <3>2, <3>3
  <2>2. CASE i = n + 1
    <3>1. \A j \in 1 .. (n + 1) : ~(j > i)
      BY <1>2, <2>2
    <3>2. NothingAfter(i)'
      BY <1>2, <3>1 DEF NothingAfter
    <3> QED
      BY <1>2, <1>3, <2>2, <3>2
  <2> QED
    BY <1>2, <2>1, <2>2
<1> QED
  BY <1>2, <1>3 DEF AnswerComesFirst

LEMMA AnswerOnTake ==
  ASSUME TypeOK, AnswerComesFirst, wire # <<>>, wire' = Tail(wire),
         UNCHANGED <<conn, served, established>>
  PROVE  AnswerComesFirst'
<1>1. PICK n : n = Len(wire)
  OBVIOUS
<1>2. /\ n \in Nat /\ DOMAIN wire = 1 .. n /\ DOMAIN wire' = 1 .. (n - 1)
      /\ \A k \in 1 .. (n - 1) : wire'[k] = wire[k + 1] /\ k + 1 \in 1 .. n
  BY <1>1, TypeFacts, Taken
<1>3. ASSUME NEW i \in 1 .. (n - 1), wire'[i] = Msg("ConnectResponse", conn)
      PROVE  served' = 0 /\ established' = 0 /\ NothingAfter(i)'
  <2>1. served = 0 /\ established = 0 /\ NothingAfter(i + 1)
    BY <1>2, <1>3 DEF AnswerComesFirst
  <2>2. ASSUME NEW j \in 1 .. (n - 1), j > i PROVE wire'[j].kind \notin DataKinds
    <3>1. j + 1 > i + 1
      BY <2>2
    <3> QED
      BY <1>2, <2>1, <3>1 DEF NothingAfter
  <2> QED
    BY <1>2, <2>1, <2>2 DEF NothingAfter
<1> QED
  BY <1>2, <1>3 DEF AnswerComesFirst

\* What a message at the end of the FIFO, and one read, does.
LEMMA SettledOnAppend ==
  ASSUME TypeOK, NEW m \in QueueMsg, queue' = Append(queue, m), conn' = conn,
         m.kind # "Connected" \/ m.id # conn, NEW n, n = Len(queue)
  PROVE  /\ n \in Nat /\ DOMAIN queue = 1 .. n /\ DOMAIN queue' = 1 .. (n + 1)
         /\ \A i \in 1 .. n : queue'[i] = queue[i] /\ (Since(i)' => Since(i))
         /\ queue'[n + 1] = m
         /\ ConnectedWaits' <=> ConnectedWaits
         /\ \A id : \A i \in 0 .. n :
              Says(id, i) \/ m = Msg("PlayerDisconnected", id) => Says(id, i)'
<1>1. /\ n \in Nat /\ DOMAIN queue = 1 .. n /\ DOMAIN queue' = 1 .. (n + 1)
      /\ \A i \in 1 .. n : /\ queue'[i] = queue[i]
                           /\ OwnConnected(i)' <=> OwnConnected(i)
      /\ queue'[n + 1] = m
      /\ OwnConnected(n + 1)' <=> m.kind = "Connected" /\ m.id = conn
  BY OwnAppended
<1>2. /\ \A k \in 1 .. n : k \in 1 .. (n + 1)
      /\ \A k \in 1 .. (n + 1) : k \in 1 .. n \/ k = n + 1
      /\ \A i \in 0 .. n : n + 1 > i
      /\ n + 1 \in 1 .. (n + 1)
  BY <1>1
<1>3. ASSUME NEW i \in 1 .. n, Since(i)' PROVE Since(i)
  BY <1>1, <1>2, <1>3 DEF Since
<1>4. ConnectedWaits' <=> ConnectedWaits
  BY <1>1, <1>2 DEF ConnectedWaits
<1>5. ASSUME NEW id, NEW i \in 0 .. n, Says(id, i) PROVE Says(id, i)'
  <2>1. PICK j \in 1 .. n : j > i /\ queue[j] = Msg("PlayerDisconnected", id)
    BY <1>1, <1>5 DEF Says
  <2>2. j \in 1 .. (n + 1) /\ queue'[j] = Msg("PlayerDisconnected", id)
    BY <1>1, <1>2, <2>1
  <2> QED
    BY <1>1, <2>1, <2>2 DEF Says
<1>6. ASSUME NEW id, NEW i \in 0 .. n, m = Msg("PlayerDisconnected", id) PROVE Says(id, i)'
  BY <1>1, <1>2, <1>6 DEF Says
<1> QED
  BY <1>1, <1>3, <1>4, <1>5, <1>6

LEMMA SettledOnTake ==
  ASSUME TypeOK, queue # <<>>, queue' = Tail(queue), conn' = conn, NEW n, n = Len(queue)
  PROVE  /\ n \in Nat /\ DOMAIN queue = 1 .. n /\ DOMAIN queue' = 1 .. (n - 1) /\ 1 \in 1 .. n
         /\ queue[1] \in QueueMsg
         /\ \A i \in 1 .. (n - 1) : /\ i + 1 \in 1 .. n /\ queue'[i] = queue[i + 1]
                                    /\ Since(i)' => Since(i + 1)
         /\ OwnConnected(1) \/ (ConnectedWaits => ConnectedWaits')
         /\ ~ConnectedWaits => \A i \in 1 .. n : Since(i)
         /\ \A id : \A i \in 0 .. (n - 1) : Says(id, i + 1) => Says(id, i)'
         /\ \A id : Says(id, 0) => Says(id, 0)' \/ queue[1] = Msg("PlayerDisconnected", id)
<1>1. /\ n \in Nat /\ n > 0 /\ DOMAIN queue = 1 .. n /\ DOMAIN queue' = 1 .. (n - 1)
      /\ queue[1] \in QueueMsg
      /\ \A i \in 1 .. n - 1 :
           /\ i + 1 \in 1 .. n /\ queue'[i] = queue[i + 1]
           /\ OwnConnected(i)' <=> OwnConnected(i + 1)
  BY OwnTaken
<1>2. /\ 1 \in 1 .. n
      /\ \A k \in 1 .. n : k # 1 => k - 1 \in 1 .. (n - 1) /\ (k - 1) + 1 = k
      /\ \A k \in 1 .. n : k > 1 => k # 1
  BY <1>1
<1>3. ASSUME NEW i \in 1 .. (n - 1), Since(i)' PROVE Since(i + 1)
  <2>1. ASSUME NEW j \in 1 .. n, j > i + 1 PROVE ~OwnConnected(j)
    <3>1. j # 1 /\ j - 1 > i
      BY <2>1
    <3>2. j - 1 \in 1 .. (n - 1) /\ (j - 1) + 1 = j
      BY <1>2, <3>1
    <3>3. ~OwnConnected(j - 1)'
      <4>1. PICK k \in 1 .. (n - 1) : k = j - 1
        BY <3>2
      <4>2. ~OwnConnected(k)'
        BY <1>1, <1>3, <3>1, <4>1 DEF Since
      <4> QED
        BY <4>1, <4>2
    <3> QED
      BY <1>1, <3>2, <3>3
  <2> QED
    BY <1>1, <2>1 DEF Since
<1>4. ASSUME ~OwnConnected(1), ConnectedWaits PROVE ConnectedWaits'
  <2>1. PICK k \in 1 .. n : OwnConnected(k)
    BY <1>1, <1>4 DEF ConnectedWaits
  <2>2. k # 1
    BY <1>4, <2>1
  <2>3. PICK l \in 1 .. (n - 1) : l + 1 = k
    BY <1>2, <2>2
  <2>4. OwnConnected(l)'
    BY <1>1, <2>1, <2>3
  <2> QED
    BY <1>1, <2>4 DEF ConnectedWaits
<1>5. ~ConnectedWaits => \A i \in 1 .. n : Since(i)
  BY <1>1 DEF ConnectedWaits, Since
<1>6. ASSUME NEW id, NEW i \in 0 .. (n - 1), Says(id, i + 1) PROVE Says(id, i)'
  <2>1. PICK k \in 1 .. n : k > i + 1 /\ queue[k] = Msg("PlayerDisconnected", id)
    BY <1>1, <1>6 DEF Says
  <2>2. k # 1 /\ k - 1 > i
    BY <2>1
  <2>3. PICK l \in 1 .. (n - 1) : l + 1 = k /\ l > i
    BY <1>2, <2>2
  <2>4. queue'[l] = Msg("PlayerDisconnected", id)
    BY <1>1, <2>1, <2>3
  <2> QED
    BY <1>1, <2>3, <2>4 DEF Says
<1>7. ASSUME NEW id, Says(id, 0), queue[1] # Msg("PlayerDisconnected", id)
      PROVE  Says(id, 0)'
  <2>1. PICK k \in 1 .. n : queue[k] = Msg("PlayerDisconnected", id)
    BY <1>1, <1>7 DEF Says
  <2>2. k # 1
    BY <1>7, <2>1
  <2>3. PICK l \in 1 .. (n - 1) : l + 1 = k
    BY <1>2, <2>2
  <2>4. queue'[l] = Msg("PlayerDisconnected", id) /\ l > 0
    BY <1>1, <2>1, <2>3
  <2> QED
    BY <1>1, <2>4 DEF Says
<1> QED
  BY <1>1, <1>2, <1>3, <1>4, <1>5, <1>6, <1>7

\* Who is shown when a message has been read.
LEMMA ShownOnRead ==
  ASSUME TypeOK, NobodyBefore, ReadMessage
  PROVE  /\ NobodyBefore'
         /\ queue[1].kind = "Connected" => RemotePlayers' = {}
         /\ queue[1].kind \notin DataKinds => RemotePlayers' \subseteq RemotePlayers
         /\ \A id \in RemotePlayers' : \/ id \in RemotePlayers
                                       \/ queue[1] = Msg("UpdatePlayer", id)
         /\ \A id \in RemotePlayers' : queue[1] # Msg("PlayerDisconnected", id)
<1>1. Handle(queue[1]) /\ queue[1] \in QueueMsg
  BY ResourceOnRead
<1>2. CASE HandleStatus(queue[1])
  <2>1. queue[1].kind \in Statuses /\ queue[1].kind \notin DataKinds
    BY <1>1, <1>2, QueueFacts DEF HandleStatus
  <2>2. queue[1].kind # "PlayerDisconnected"
    BY <2>1 DEF DataKinds
  <2>3. \A id : queue[1] # Msg("PlayerDisconnected", id)
    BY <2>2, MsgFacts
  <2>4. CASE queue[1].kind = "Connected"
    BY <1>2, <2>4 DEF HandleStatus, Connected, NobodyBefore
  <2>5. CASE queue[1].kind # "Connected"
    BY <1>2, <2>3, <2>5 DEF HandleStatus, NobodyBefore
  <2> QED
    BY <2>4, <2>5
<1>3. CASE queue[1] \in Data /\ ~Initialized /\ UNCHANGED scriptVars
  <2>1. RemotePlayers' = {} /\ NobodyBefore'
    BY <1>3 DEF NobodyBefore, scriptVars
  <2> QED
    BY <2>1
<1>4. CASE Initialized /\ HandleUpdate(queue[1])
  <2>1. /\ queue[1] = Msg("UpdatePlayer", queue[1].id) /\ queue[1].kind = "UpdatePlayer"
        /\ Initialized' = Initialized
        /\ RemotePlayers' = RemotePlayers \cup {queue[1].id}
    BY <1>1, <1>4, DataFacts, QueueFacts DEF HandleUpdate
  <2>2. \A id : queue[1] # Msg("PlayerDisconnected", id)
    BY <2>1, MsgFacts
  <2>3. queue[1].kind # "Connected" /\ queue[1].kind \in DataKinds
    BY <2>1 DEF DataKinds
  <2> QED
    BY <1>4, <2>1, <2>2, <2>3 DEF NobodyBefore
<1>5. CASE Initialized /\ HandlePlayerDisconnected(queue[1])
  <2>1. /\ queue[1] = Msg("PlayerDisconnected", queue[1].id)
        /\ queue[1].kind = "PlayerDisconnected"
        /\ Initialized' = Initialized
        /\ RemotePlayers' = RemotePlayers \ {queue[1].id}
    BY <1>1, <1>5, DataFacts, QueueFacts DEF HandlePlayerDisconnected
  <2>2. \A id : queue[1] = Msg("PlayerDisconnected", id) => id = queue[1].id
    BY <2>1, MsgFacts
  <2>3. queue[1].kind # "Connected" /\ queue[1].kind \in DataKinds
    BY <2>1 DEF DataKinds
  <2> QED
    BY <1>5, <2>1, <2>2, <2>3 DEF NobodyBefore
<1>6. CASE Initialized /\ HandleResource(queue[1])
  <2>1. /\ queue[1].kind \in {"LoadResource", "ResourceFile"}
        /\ Initialized' = Initialized /\ RemotePlayers' = RemotePlayers
    BY <1>6 DEF HandleResource
  <2>2. \A id : queue[1] # Msg("PlayerDisconnected", id)
    BY <2>1, MsgFacts
  <2> QED
    BY <1>6, <2>1, <2>2 DEF NobodyBefore
<1> QED
  BY <1>1, <1>2, <1>3, <1>4, <1>5, <1>6 DEF Handle

\* The server's steps and the wire's leave the FIFO as it is.
LEMMA QueueSame ==
  ASSUME queue' = queue, conn' = conn
  PROVE  /\ ConnectedWaits' <=> ConnectedWaits
         /\ \A i : Since(i)' <=> Since(i)
         /\ \A id, i : Says(id, i)' <=> Says(id, i)
<1>1. \A i : OwnConnected(i)' <=> OwnConnected(i)
  BY DEF OwnConnected
<1>2. ConnectedWaits' <=> ConnectedWaits
  BY <1>1 DEF ConnectedWaits
<1>3. \A i : Since(i)' <=> Since(i)
  BY <1>1 DEF Since
<1>4. \A id, i : Says(id, i)' <=> Says(id, i)
  BY DEF Says
<1> QED
  BY <1>2, <1>3, <1>4

LEMMA SettlesStay ==
  ASSUME NEW id, queue' = queue, conn' = conn, RemotePlayers' = RemotePlayers,
         WireSays(id)' \/ (QueueSettles(id) /\ ShownSettles(id) /\ ~WireSays(id))
  PROVE  QueueSettles(id)' /\ ShownSettles(id)'
<1>1. /\ ConnectedWaits' <=> ConnectedWaits
      /\ \A i : Since(i)' <=> Since(i)
      /\ \A i : Says(id, i)' <=> Says(id, i)
  BY QueueSame
<1>2. CASE WireSays(id)'
  BY <1>2 DEF QueueSettles, ShownSettles
<1>3. CASE QueueSettles(id) /\ ShownSettles(id) /\ ~WireSays(id)
  <2>1. \A i \in DOMAIN queue : queue[i] = Msg("UpdatePlayer", id) /\ Since(i) => Says(id, i)
    BY <1>3 DEF QueueSettles
  <2>2. QueueSettles(id)'
    BY <1>1, <2>1 DEF QueueSettles
  <2>3. Says(id, 0)' <=> Says(id, 0)
    BY <1>1
  <2>4. ShownSettles(id)'
    BY <1>1, <1>3, <2>3 DEF ShownSettles
  <2> QED
    BY <2>2, <2>4
<1> QED
  BY <1>2, <1>3

LEMMA UnservedStays ==
  ASSUME Unserved, queue' = queue, conn' = conn, RemotePlayers' = RemotePlayers,
         NothingAfter(0)'
  PROVE  Unserved'
<1>1. ConnectedWaits' <=> ConnectedWaits
  BY QueueSame
<1>2. \A i : Since(i)' <=> Since(i)
  BY QueueSame
<1>3. \A i \in DOMAIN queue' : Since(i)' => queue'[i].kind \notin DataKinds
  BY <1>2 DEF Unserved
<1>4. ~ConnectedWaits' => RemotePlayers' = {}
  BY <1>1 DEF Unserved
<1> QED
  BY <1>3, <1>4 DEF Unserved

\* A departure is sent when somebody leaves, and an update only while he plays.
LEMMA ComesOnSend ==
  ASSUME TypeOK, DepartureComes, NEW m \in WireMsg, wire' = Append(wire, m),
         queue' = queue, conn' = conn, RemotePlayers' = RemotePlayers,
         \A id \in Players \ players' :
           \/ m = Msg("PlayerDisconnected", id)
           \/ id \notin players /\ m # Msg("UpdatePlayer", id)
  PROVE  DepartureComes'
<1>1. ASSUME NEW id \in Players \ players'
      PROVE  WireSettles(id)' /\ QueueSettles(id)' /\ ShownSettles(id)'
  <2>0. /\ WireSays(id) \/ m = Msg("PlayerDisconnected", id) => WireSays(id)'
        /\ \/ m = Msg("PlayerDisconnected", id)
           \/ WireSettles(id) /\ m # Msg("UpdatePlayer", id)
           => WireSettles(id)'
    BY SaidOnSend
  <2>1. CASE m = Msg("PlayerDisconnected", id)
    BY <2>0, <2>1, SettlesStay
  <2>2. CASE id \notin players /\ m # Msg("UpdatePlayer", id)
    <3>1. WireSettles(id) /\ QueueSettles(id) /\ ShownSettles(id)
      BY <2>2 DEF DepartureComes
    <3> QED
      BY <2>0, <2>2, <3>1, SettlesStay
  <2> QED
    BY <1>1, <2>1, <2>2
<1> QED
  BY <1>1 DEF DepartureComes

\* Nothing is put on the wire or taken from it, and nobody leaves.
LEMMA ComesWhenSame ==
  ASSUME DepartureComes, wire' = wire, queue' = queue, conn' = conn,
         RemotePlayers' = RemotePlayers, players \subseteq players'
  PROVE  DepartureComes'
<1>1. ASSUME NEW id \in Players \ players'
      PROVE  WireSettles(id)' /\ QueueSettles(id)' /\ ShownSettles(id)'
  <2>1. WireSettles(id) /\ QueueSettles(id) /\ ShownSettles(id)
    BY DEF DepartureComes
  <2>2. (WireSettles(id)' <=> WireSettles(id)) /\ (WireSays(id)' <=> WireSays(id))
    BY DEF WireSettles, WireSays
  <2> QED
    BY <2>1, <2>2, SettlesStay
<1> QED
  BY <1>1 DEF DepartureComes

\* A message that is no departure is lost, or comes to no connection.
LEMMA ComesOnTake ==
  ASSUME TypeOK, DepartureComes, wire # <<>>, wire' = Tail(wire),
         wire[1].kind # "PlayerDisconnected",
         queue' = queue, conn' = conn, RemotePlayers' = RemotePlayers, players' = players
  PROVE  DepartureComes'
<1>1. ASSUME NEW id \in Players \ players'
      PROVE  WireSettles(id)' /\ QueueSettles(id)' /\ ShownSettles(id)'
  <2>1. WireSettles(id) /\ QueueSettles(id) /\ ShownSettles(id)
    BY DEF DepartureComes
  <2>2. wire[1] # Msg("PlayerDisconnected", id)
    BY MsgFacts
  <2>3. WireSettles(id)' /\ (WireSays(id) => WireSays(id)')
    BY <2>1, <2>2, SaidOnTake
  <2> QED
    BY <2>1, <2>3, SettlesStay
<1> QED
  BY <1>1 DEF DepartureComes

\* The session while nobody leaves and the wire is as it was, or was taken from.
LEMMA SessionOnTake ==
  ASSUME TypeOK, SessionInv, wire # <<>>, wire' = Tail(wire),
         wire[1].kind # "PlayerDisconnected",
         UNCHANGED <<conn, queue, RemotePlayers, players, served, established>>,
         mishaps \subseteq mishaps',
         accepting' => accepting \/ "mixed" \in mishaps' \/ wire[1] = Msg("ConnectResponse", conn),
         accepting' /\ ~accepting => link = "handshake",
         link' = link \/ link' = "none"
  PROVE  SessionInv'
<1> SUFFICES ASSUME "mixed" \notin mishaps' PROVE SessionInv'
  BY DEF SessionInv
<1>1. /\ established # 0 => served = 0
      /\ accepting => served = 0 /\ established = 0 /\ NothingAfter(0)
      /\ link = "handshake" => AnswerComesFirst
      /\ link = "connected" /\ established = conn => Unserved
      /\ link = "connected" /\ served = conn => DepartureComes
  BY DEF SessionInv
<1>2. NothingAfter(0) \/ NothingAfter(1) => NothingAfter(0)'
  BY SaidOnTake
<1>3. ASSUME accepting' PROVE served' = 0 /\ established' = 0 /\ NothingAfter(0)'
  <2>1. CASE accepting
    BY <1>1, <1>2, <2>1
  <2>2. CASE ~accepting
    <3>1. wire[1] = Msg("ConnectResponse", conn) /\ AnswerComesFirst /\ 1 \in DOMAIN wire
      BY <1>1, <1>3, <2>2, TypeFacts
    <3>2. served = 0 /\ established = 0 /\ NothingAfter(1)
      BY <3>1 DEF AnswerComesFirst
    <3> QED
      BY <1>2, <3>2
  <2> QED
    BY <2>1, <2>2
<1>4. ASSUME link' = "handshake" PROVE AnswerComesFirst'
  BY <1>1, <1>4, AnswerOnTake
<1>5. ASSUME link' = "connected", established' = conn' PROVE Unserved'
  <2>1. Unserved /\ NothingAfter(0)
    BY <1>1, <1>5 DEF Unserved
  <2> QED
    BY <1>2, <2>1, UnservedStays
<1>6. ASSUME link' = "connected", served' = conn' PROVE DepartureComes'
  BY <1>1, <1>6, ComesOnTake
<1> QED
  BY <1>1, <1>3, <1>4, <1>5, <1>6 DEF SessionInv

\* Something is sent.
LEMMA SessionOnSend ==
  ASSUME TypeOK, LinkInv, SessionInv, NEW m \in WireMsg, wire' = Append(wire, m),
         UNCHANGED <<conn, link, accepting, queue, RemotePlayers, established>>,
         mishaps \subseteq mishaps',
         served' \in {served, 0},
         served # 0 \/ m.kind \notin DataKinds,
         m = Msg("ConnectResponse", conn) => served = 0 /\ established = 0,
         served # 0 => \A id \in Players \ players' :
                         \/ m = Msg("PlayerDisconnected", id)
                         \/ id \notin players /\ m # Msg("UpdatePlayer", id)
  PROVE  SessionInv'
<1> SUFFICES ASSUME "mixed" \notin mishaps' PROVE SessionInv'
  BY DEF SessionInv
<1>1. /\ established # 0 => served = 0
      /\ accepting => served = 0 /\ established = 0 /\ NothingAfter(0)
      /\ link = "handshake" => AnswerComesFirst
      /\ link = "connected" /\ established = conn => Unserved
      /\ link = "connected" /\ served = conn => DepartureComes
  BY DEF SessionInv
<1>2. m.kind \notin DataKinds => (NothingAfter(0) => NothingAfter(0)')
  BY SaidOnSend
<1>3. link # "none" => conn # 0
  BY DEF LinkInv
<1>4. established' # 0 => served' = 0
  BY <1>1
<1>5. accepting' => served' = 0 /\ established' = 0 /\ NothingAfter(0)'
  BY <1>1, <1>2
<1>6. ASSUME link' = "handshake" PROVE AnswerComesFirst'
  <2>1. AnswerComesFirst
    BY <1>1, <1>6
  <2>2. m = Msg("ConnectResponse", conn) => served' = 0 /\ established' = 0
    OBVIOUS
  <2>3. (served' = served /\ m.kind \notin DataKinds) \/ served # 0
    OBVIOUS
  <2> QED
    BY <2>1, <2>2, <2>3, AnswerOnSend
<1>7. ASSUME link' = "connected", established' = conn' PROVE Unserved'
  <2>1. Unserved /\ served = 0 /\ NothingAfter(0)
    BY <1>1, <1>3, <1>7 DEF Unserved
  <2> QED
    BY <1>2, <2>1, UnservedStays
<1>8. ASSUME link' = "connected", served' = conn' PROVE DepartureComes'
  <2>1. DepartureComes /\ served # 0
    BY <1>1, <1>3, <1>8
  <2> QED
    BY <2>1, ComesOnSend
<1> QED
  BY <1>4, <1>5, <1>6, <1>7, <1>8 DEF SessionInv

\* Nothing is sent, taken, released or read; the server may stop to serve.
LEMMA SessionWhenQuiet ==
  ASSUME SessionInv, LinkInv,
         UNCHANGED <<wire, conn, queue, RemotePlayers, established>>,
         players \subseteq players', mishaps \subseteq mishaps',
         accepting' => accepting, served' \in {served, 0}, link' = link \/ link' = "none"
  PROVE  SessionInv'
<1> SUFFICES ASSUME "mixed" \notin mishaps' PROVE SessionInv'
  BY DEF SessionInv
<1>1. /\ established # 0 => served = 0
      /\ accepting => served = 0 /\ established = 0 /\ NothingAfter(0)
      /\ link = "handshake" => AnswerComesFirst
      /\ link = "connected" /\ established = conn => Unserved
      /\ link = "connected" /\ served = conn => DepartureComes
  BY DEF SessionInv
<1>2. \A i : NothingAfter(i) => NothingAfter(i)'
  BY DEF NothingAfter
<1>3. ASSUME link' = "handshake" PROVE AnswerComesFirst'
  BY <1>1, <1>2, <1>3 DEF AnswerComesFirst
<1>4. ASSUME link' = "connected", established' = conn' PROVE Unserved'
  <2>1. Unserved /\ NothingAfter(0)
    BY <1>1, <1>4 DEF Unserved
  <2> QED
    BY <1>2, <2>1, UnservedStays
<1>5. ASSUME link' = "connected", served' = conn' PROVE DepartureComes'
  <2>1. DepartureComes
    BY <1>1, <1>5 DEF LinkInv
  <2> QED
    BY <2>1, ComesWhenSame
<1> QED
  BY <1>1, <1>2, <1>3, <1>4, <1>5 DEF SessionInv

\* The session begins at the server.
LEMMA SessionOnAccept ==
  ASSUME TypeOK, LinkInv, SessionInv, Accept, UNCHANGED client
  PROVE  SessionInv'
<1> SUFFICES ASSUME "mixed" \notin mishaps' PROVE SessionInv'
  BY DEF SessionInv
<1>0. /\ established # 0 /\ served' = established /\ established' = 0
      /\ UNCHANGED <<players, wire, mishaps, conn, link, accepting, queue, RemotePlayers>>
  BY DEF Accept, client, connVars, scriptVars
<1>1. /\ served = 0 /\ ~accepting
      /\ link = "handshake" => AnswerComesFirst
      /\ link = "connected" /\ established = conn => Unserved
  BY <1>0 DEF SessionInv
<1>2. link = "connected" => conn # 0
  BY DEF LinkInv
<1>3. ASSUME link = "handshake" PROVE AnswerComesFirst'
  BY <1>0, <1>1, <1>3 DEF AnswerComesFirst
<1>4. ASSUME link = "connected", established = conn PROVE DepartureComes'
  <2>1. Unserved
    BY <1>1, <1>4
  <2>2. ASSUME NEW id \in Players \ players'
        PROVE  WireSettles(id)' /\ QueueSettles(id)' /\ ShownSettles(id)'
    <3>1. \A i \in DOMAIN wire : wire[i] # Msg("UpdatePlayer", id)
      <4>1. \A i \in DOMAIN wire : i > 0
        BY TypeFacts
      <4>2. \A i \in DOMAIN wire : wire[i].kind # "UpdatePlayer"
        BY <2>1, <4>1 DEF Unserved, NothingAfter, DataKinds
      <4> QED
        BY <4>2, MsgFacts
    <3>2. \A i \in DOMAIN queue : Since(i)' => queue[i] # Msg("UpdatePlayer", id)
      <4>1. \A i : Since(i)' <=> Since(i)
        BY <1>0, QueueSame
      <4>2. \A i \in DOMAIN queue : Since(i)' => queue[i].kind # "UpdatePlayer"
        BY <2>1, <4>1 DEF Unserved, DataKinds
      <4> QED
        BY <4>2, MsgFacts
    <3>3. ~ConnectedWaits' => RemotePlayers' = {}
      BY <1>0, <2>1, QueueSame DEF Unserved
    <3> QED
      BY <1>0, <3>1, <3>2, <3>3 DEF WireSettles, QueueSettles, ShownSettles
  <2> QED
    BY <2>2 DEF DepartureComes
<1> QED
  BY <1>0, <1>1, <1>2, <1>3, <1>4 DEF SessionInv

LEMMA SessionOnServer ==
  ASSUME TypeOK, LinkInv, SessionInv, Server \/ Wire
  PROVE  SessionInv'
<1>0. UNCHANGED client
  BY ServerTypes
<1>1. UNCHANGED <<conn, link, accepting, queue, RemotePlayers>>
  BY <1>0 DEF client, connVars, scriptVars
<1>2. CASE Accept
  BY <1>0, <1>2, SessionOnAccept
<1>3. CASE Respond
  <2>1. /\ served = 0 /\ established = 0 /\ wire' = Append(wire, Msg("ConnectResponse", conn))
        /\ UNCHANGED <<served, established, mishaps>>
        /\ Msg("ConnectResponse", conn) \in WireMsg
    BY <1>3, BoundAssumption
    DEF Respond, Send, serverVars, LinkInv, TypeOK, WireMsg, ConnectResponses
  <2>2. Msg("ConnectResponse", conn).kind \notin DataKinds
    BY MsgFacts DEF DataKinds
  <2> QED
    BY <1>1, <2>1, <2>2, SessionOnSend
<1>4. CASE Welcome
  <2>1. /\ served # 0 /\ welcomed \in {0, 1}
        /\ wire' = Append(wire, Resource[welcomed + 1])
        /\ UNCHANGED <<served, established, players, mishaps>>
    BY <1>4, ResourceFacts DEF Welcome, Send, TypeOK
  <2>2. PICK m : m = Resource[welcomed + 1]
    OBVIOUS
  <2>3. m \in WireMsg /\ m.kind \in {"LoadResource", "ResourceFile"}
    BY <2>1, <2>2, DataFacts, ResourceFacts, MsgFacts DEF WireMsg
  <2>4. /\ m # Msg("ConnectResponse", conn)
        /\ \A id : m # Msg("UpdatePlayer", id)
    BY <2>3, MsgFacts
  <2> QED
    BY <1>1, <2>1, <2>2, <2>3, <2>4, SessionOnSend
<1>5. CASE Notice
  <2>1. served' = 0 /\ UNCHANGED <<players, wire, established, mishaps>>
    BY <1>5 DEF Notice, wireVars
  <2> QED
    BY <1>1, <2>1, SessionWhenQuiet
<1>6. CASE End
  <2>1. /\ served # 0 /\ served' = 0 /\ mishaps \subseteq mishaps'
        /\ UNCHANGED <<players, established>>
        /\ wire' = wire \/ wire' = Append(wire, Bye)
    BY <1>6 DEF End, Send
  <2>2. CASE wire' = wire
    BY <1>1, <2>1, <2>2, SessionWhenQuiet
  <2>3. CASE wire' = Append(wire, Bye)
    <3>1. Bye \in WireMsg /\ Bye.kind \notin DataKinds
      BY MsgFacts DEF Bye, WireMsg, DataKinds
    <3>2. Bye # Msg("ConnectResponse", conn) /\ \A id : Bye # Msg("UpdatePlayer", id)
      BY MsgFacts DEF Bye
    <3> QED
      BY <1>1, <2>1, <2>3, <3>1, <3>2, SessionOnSend
  <2> QED
    BY <2>1, <2>2, <2>3
<1>7. ASSUME NEW id \in Players, Join(id) PROVE SessionInv'
  <2>1. players \subseteq players' /\ UNCHANGED <<served, wire, established, mishaps>>
    BY <1>7 DEF Join, wireVars
  <2> QED
    BY <1>1, <2>1, SessionWhenQuiet
<1>8. ASSUME NEW id \in Players, Leave(id) PROVE SessionInv'
  <2>1. /\ players' = players \ {id} /\ UNCHANGED <<served, established, mishaps>>
        /\ IF served = 0 THEN wire' = wire
           ELSE wire' = Append(wire, Msg("PlayerDisconnected", id))
    BY <1>8 DEF Leave, Send
  <2>2. CASE served = 0
    <3>1. wire' = wire
      BY <2>1, <2>2
    <3>2. \A i : NothingAfter(i) => NothingAfter(i)'
      BY <3>1 DEF NothingAfter
    <3>3. AnswerComesFirst => AnswerComesFirst'
      BY <1>1, <2>1, <3>1, <3>2 DEF AnswerComesFirst
    <3>4. Unserved => Unserved'
      <4>1. Unserved => NothingAfter(0)
        BY DEF Unserved
      <4> QED
        BY <1>1, <3>2, <4>1, UnservedStays
    <3>5. link = "connected" => served # conn
      BY <2>2 DEF LinkInv
    <3> QED
      BY <1>1, <2>1, <3>2, <3>3, <3>4, <3>5 DEF SessionInv
  <2>3. CASE served # 0
    <3>1. /\ Msg("PlayerDisconnected", id) \in WireMsg
          /\ Msg("PlayerDisconnected", id) # Msg("ConnectResponse", conn)
          /\ \A x : Msg("PlayerDisconnected", id) # Msg("UpdatePlayer", x)
      BY DataFacts, MsgFacts DEF WireMsg
    <3>2. \A x \in Players \ players' : x = id \/ x \notin players
      BY <2>1
    <3> QED
      BY <1>1, <2>1, <2>3, <3>1, <3>2, SessionOnSend
  <2> QED
    BY <2>2, <2>3
<1>9. ASSUME NEW id \in Players, Stream(id) PROVE SessionInv'
  <2>1. /\ served # 0 /\ id \in players /\ wire' = Append(wire, Msg("UpdatePlayer", id))
        /\ UNCHANGED <<served, players, established, mishaps>>
    BY <1>9 DEF Stream, Send, serverVars
  <2>2. /\ Msg("UpdatePlayer", id) \in WireMsg
        /\ Msg("UpdatePlayer", id) # Msg("ConnectResponse", conn)
        /\ \A x : Msg("UpdatePlayer", id) = Msg("UpdatePlayer", x) => x = id
    BY DataFacts, MsgFacts DEF WireMsg
  <2> QED
    BY <1>1, <2>1, <2>2, SessionOnSend
<1>10. CASE Lose
  <2>1. /\ wire # <<>> /\ wire' = Tail(wire) /\ UNCHANGED <<players, served, established, mishaps>>
        /\ wire[1] \in Updates \cup ConnectResponses \cup {Bye}
    BY <1>10, TypeFacts, Taken DEF Lose, serverVars
  <2>2. wire[1].kind # "PlayerDisconnected"
    BY <2>1, DataFacts, MsgFacts DEF ConnectResponses, Bye
  <2> QED
    BY <1>1, <2>1, <2>2, SessionOnTake
<1>11. ASSUME NEW j \in DOMAIN wire, Overtake(j) PROVE SessionInv'
  BY <1>11 DEF Overtake, SessionInv
<1> QED
  BY <1>2, <1>3, <1>4, <1>5, <1>6, <1>7, <1>8, <1>9, <1>10, <1>11 DEF Server, Wire

\* The session begins at the client.
LEMMA SessionOnConnected ==
  ASSUME TypeOK, LinkInv, SessionInv, AcceptConnection
  PROVE  SessionInv'
<1> SUFFICES ASSUME "mixed" \notin mishaps' PROVE SessionInv'
  BY DEF SessionInv
<1>1. /\ accepting /\ accepting' = FALSE /\ link' = "connected" /\ conn # 0
      /\ queue' = Append(queue, Msg("Connected", conn)) /\ established' = conn
      /\ UNCHANGED <<served, wire, conn, mishaps>>
  BY DEF AcceptConnection, Release, LinkInv, serverVars
<1>2. served = 0 /\ NothingAfter(0)
  BY <1>1 DEF SessionInv
<1>3. NothingAfter(0)'
  BY <1>1, <1>2 DEF NothingAfter
<1>4. PICK n : n = Len(queue)
  OBVIOUS
<1>5. /\ Msg("Connected", conn) \in QueueMsg /\ Msg("Connected", conn).id = conn
      /\ Msg("Connected", conn).kind = "Connected" /\ "Connected" \notin DataKinds
  BY <1>1, StatusMsg, MsgFacts DEF Statuses, DataKinds
<1>6. /\ n \in Nat /\ DOMAIN queue' = 1 .. (n + 1) /\ queue'[n + 1] = Msg("Connected", conn)
      /\ OwnConnected(n + 1)'
  BY <1>1, <1>4, <1>5, OwnAppended
<1>7. ConnectedWaits'
  <2>1. n + 1 \in DOMAIN queue'
    BY <1>6
  <2> QED
    BY <1>6, <2>1 DEF ConnectedWaits
<1>8. ASSUME NEW i \in DOMAIN queue', Since(i)' PROVE queue'[i].kind \notin DataKinds
  <2>1. ~(n + 1 > i)
    <3>1. n + 1 \in DOMAIN queue'
      BY <1>6
    <3> QED
      BY <1>6, <1>8, <3>1 DEF Since
  <2>2. i = n + 1
    BY <1>6, <2>1
  <2> QED
    BY <1>5, <1>6, <2>2
<1>9. Unserved'
  BY <1>3, <1>7, <1>8 DEF Unserved
<1> QED
  BY <1>1, <1>2, <1>9 DEF SessionInv

\* A message of the session is released.
LEMMA SessionOnData ==
  ASSUME TypeOK, SessionInv, NEW m \in Data, wire # <<>>, wire' = Tail(wire), wire[1] = m,
         queue' = Append(queue, m), link = "connected",
         UNCHANGED <<conn, link, accepting, RemotePlayers, players, served, established,
                     mishaps>>
  PROVE  SessionInv'
<1> SUFFICES ASSUME "mixed" \notin mishaps' PROVE SessionInv'
  BY DEF SessionInv
<1>0. /\ established # 0 => served = 0
      /\ accepting => served = 0 /\ established = 0 /\ NothingAfter(0)
      /\ established = conn => Unserved
      /\ served = conn => DepartureComes
  BY DEF SessionInv
<1>1. m \in QueueMsg /\ m.kind \in DataKinds /\ m.kind # "Connected" /\ 1 \in DOMAIN wire /\ 1 > 0
  BY DataFacts, TypeFacts DEF QueueMsg, DataKinds
<1>2. ~NothingAfter(0)
  BY <1>1 DEF NothingAfter
<1>3. PICK n : n = Len(queue)
  OBVIOUS
<1>4. /\ n \in Nat /\ DOMAIN queue = 1 .. n /\ DOMAIN queue' = 1 .. (n + 1)
      /\ \A i \in 1 .. n : queue'[i] = queue[i] /\ (Since(i)' => Since(i))
      /\ queue'[n + 1] = m
      /\ ConnectedWaits' <=> ConnectedWaits
      /\ \A id : \A i \in 0 .. n :
           Says(id, i) \/ m = Msg("PlayerDisconnected", id) => Says(id, i)'
  BY <1>1, <1>3, SettledOnAppend
<1>5. ASSUME served = conn, NEW id \in Players \ players
      PROVE  WireSettles(id)' /\ QueueSettles(id)' /\ ShownSettles(id)'
  <2>1. WireSettles(id) /\ QueueSettles(id) /\ ShownSettles(id)
    BY <1>0, <1>5 DEF DepartureComes
  <2>2. /\ WireSettles(id)'
        /\ WireSays(id) => WireSays(id)' \/ m = Msg("PlayerDisconnected", id)
        /\ m = Msg("UpdatePlayer", id) => WireSays(id)'
    BY <2>1, SaidOnTake
  <2>3. ASSUME NEW i \in 1 .. (n + 1), queue'[i] = Msg("UpdatePlayer", id), Since(i)'
        PROVE  Says(id, i)' \/ WireSays(id)'
    <3>1. CASE i \in 1 .. n
      <4>1. queue[i] = Msg("UpdatePlayer", id) /\ Since(i) /\ i \in 0 .. n
        BY <1>4, <2>3, <3>1
      <4>2. Says(id, i) \/ WireSays(id)
        BY <1>4, <2>1, <3>1, <4>1 DEF QueueSettles
      <4> QED
        BY <1>4, <2>2, <4>1, <4>2
    <3>2. CASE i = n + 1
      BY <1>4, <2>2, <2>3, <3>2
    <3> QED
      BY <1>4, <3>1, <3>2
  <2>4. QueueSettles(id)'
    BY <1>4, <2>3 DEF QueueSettles
  <2>5. ShownSettles(id)'
    <3>1. 0 \in 0 .. n
      BY <1>4
    <3>2. Says(id, 0) \/ WireSays(id) => Says(id, 0)' \/ WireSays(id)'
      BY <1>4, <2>2, <3>1
    <3> QED
      BY <1>4, <2>1, <3>2 DEF ShownSettles
  <2> QED
    BY <2>2, <2>4, <2>5
<1>6. served = conn => DepartureComes'
  BY <1>5 DEF DepartureComes
<1>7. established # conn /\ ~accepting
  BY <1>0, <1>2 DEF Unserved
<1> QED
  BY <1>0, <1>6, <1>7 DEF SessionInv

LEMMA SessionOnNetwork ==
  ASSUME TypeOK, LinkInv, SessionInv, Network
  PROVE  SessionInv'
<1>0. UNCHANGED <<conn, RemotePlayers, players, served>>
  BY NetworkTypes DEF serverVars, scriptVars
<1>1. CASE ReceiveConnectResponse
  <2>1. PICK m \in ConnectResponses :
          /\ Take(m)
          /\ accepting' = (link = "handshake" /\ status = "InitiatedConnect")
          /\ mishaps' = IF accepting' /\ m.id # conn THEN mishaps \cup {"mixed"} ELSE mishaps
    BY <1>1 DEF ReceiveConnectResponse
  <2>2. /\ wire # <<>> /\ wire' = Tail(wire) /\ wire[1] = m
        /\ wire[1].kind # "PlayerDisconnected"
        /\ m.id = conn => m = Msg("ConnectResponse", conn)
    BY <2>1, TypeFacts, Taken, MsgFacts DEF Take, ConnectResponses
  <2>3. UNCHANGED <<link, queue, established>> /\ mishaps \subseteq mishaps'
    BY <1>1, <2>1 DEF ReceiveConnectResponse
  <2>4. accepting' => "mixed" \in mishaps' \/ wire[1] = Msg("ConnectResponse", conn)
    BY <2>1, <2>2
  <2>5. accepting' => link = "handshake"
    BY <2>1
  <2> QED
    BY <1>0, <2>2, <2>3, <2>4, <2>5, SessionOnTake
<1>2. CASE AcceptConnection
  BY <1>2, SessionOnConnected
<1>3. CASE ReceiveData
  <2>1. PICK m \in Data : Take(m) /\ IF link = "connected" THEN Release(m)
                                     ELSE UNCHANGED queue
    BY <1>3 DEF ReceiveData
  <2>2. ~accepting /\ wire # <<>> /\ wire' = Tail(wire) /\ wire[1] = m
    BY <2>1, TypeFacts, Taken DEF Take
  <2>3. UNCHANGED <<link, accepting, established, mishaps>>
    BY <1>3 DEF ReceiveData, connVars
  <2>4. CASE link = "connected"
    <3>1. queue' = Append(queue, m)
      BY <2>1, <2>4 DEF Release
    <3> QED
      BY <1>0, <2>2, <2>3, <2>4, <3>1, SessionOnData
  <2>5. CASE link # "connected"
    <3>1. link = "handshake" => (AnswerComesFirst => AnswerComesFirst')
      BY <1>0, <2>2, <2>3, AnswerOnTake
    <3> QED
      BY <1>0, <2>2, <2>3, <2>5, <3>1 DEF SessionInv
  <2> QED
    BY <2>4, <2>5
\* A connection that is let go has no session.
<1>4. ASSUME ExecuteDisconnect, ~accepting, UNCHANGED <<accepting, established>>,
             mishaps \subseteq mishaps'
      PROVE  SessionInv'
  <2>1. link' = "none"
    BY <1>4 DEF ExecuteDisconnect
  <2> QED
    BY <1>0, <1>4, <2>1 DEF SessionInv
<1>5. CASE ReceiveDisconnect
  <2>1. /\ ~accepting /\ wire # <<>> /\ wire' = Tail(wire) /\ wire[1] = Bye
        /\ UNCHANGED <<accepting, established>>
    BY <1>5, TypeFacts, Taken DEF ReceiveDisconnect, Take
  <2>2. wire[1].kind # "PlayerDisconnected"
    BY <2>1, MsgFacts DEF Bye
  <2>3. CASE UNCHANGED <<link, queue>> /\ mishaps \subseteq mishaps'
    BY <1>0, <2>1, <2>2, <2>3, SessionOnTake
  <2>4. CASE ExecuteDisconnect /\ UNCHANGED mishaps
    BY <1>4, <2>1, <2>4
  <2> QED
    BY <1>5, <2>3, <2>4 DEF ReceiveDisconnect
<1>6. CASE HeartbeatDisconnect \/ Timeout
  BY <1>4, <1>6 DEF HeartbeatDisconnect, Timeout, wireVars
<1> QED
  BY <1>1, <1>2, <1>3, <1>5, <1>6 DEF Network, Receive

\* The replicas go, and Disconnecting comes after the session.
LEMMA SessionOnDisconnect ==
  ASSUME TypeOK, LinkInv, SessionInv, NetDisconnect, RemotePlayers' = {},
         UNCHANGED <<wire, players, served, established, conn, link, accepting>>
  PROVE  SessionInv'
<1> SUFFICES ASSUME "mixed" \notin mishaps' PROVE SessionInv'
  BY DEF SessionInv
<1>1. /\ \/ queue' = queue
         \/ link # "none" /\ queue' = Append(queue, Msg("Disconnecting", conn))
      /\ mishaps \subseteq mishaps'
  BY DisconnectFacts DEF DisconnectStep
<1>2. /\ established # 0 => served = 0
      /\ accepting => served = 0 /\ established = 0 /\ NothingAfter(0)
      /\ link = "handshake" => AnswerComesFirst
      /\ link = "connected" /\ established = conn => Unserved
      /\ link = "connected" /\ served = conn => DepartureComes
  BY <1>1 DEF SessionInv
<1>3. /\ \A i : NothingAfter(i) => NothingAfter(i)'
      /\ \A id : WireSays(id)' <=> WireSays(id)
      /\ \A id : WireSettles(id)' <=> WireSettles(id)
  BY DEF NothingAfter, WireSays, WireSettles
<1>4. AnswerComesFirst => AnswerComesFirst'
  BY <1>3 DEF AnswerComesFirst
<1>5. PICK n \in Nat :
        /\ DOMAIN queue = 1 .. n
        /\ \A i \in DOMAIN queue' : \/ i \in 1 .. n /\ queue'[i] = queue[i]
                                       /\ (Since(i)' => Since(i))
                                    \/ queue'[i] = Msg("Disconnecting", conn)
        /\ \A id : \A i \in 0 .. n : Says(id, i) => Says(id, i)'
  <2>1. CASE queue' = queue
    <3>1. DOMAIN queue = 1 .. Len(queue) /\ Len(queue) \in Nat
      BY TypeFacts
    <3>2. /\ \A i : Since(i)' <=> Since(i)
          /\ \A id, i : Says(id, i)' <=> Says(id, i)
      BY <2>1, QueueSame
    <3>3. \A id : \A i \in 0 .. Len(queue) : Says(id, i) => Says(id, i)'
      BY <3>2
    <3>4. \A i \in DOMAIN queue' : /\ i \in 1 .. Len(queue) /\ queue'[i] = queue[i]
                                   /\ Since(i)' => Since(i)
      BY <2>1, <3>1, <3>2
    <3> QED
      BY <3>1, <3>3, <3>4
  <2>2. CASE link # "none" /\ queue' = Append(queue, Msg("Disconnecting", conn))
    <3>1. PICK n : n = Len(queue)
      OBVIOUS
    <3>2. /\ Msg("Disconnecting", conn) \in QueueMsg
          /\ Msg("Disconnecting", conn).kind # "Connected"
      BY <2>2, StatusMsg, MsgFacts DEF LinkInv, Statuses
    <3>3. PICK m \in QueueMsg : m = Msg("Disconnecting", conn) /\ m.kind # "Connected"
      BY <3>2
    <3>4. queue' = Append(queue, m)
      BY <2>2, <3>3
    <3>5. /\ n \in Nat /\ DOMAIN queue = 1 .. n /\ DOMAIN queue' = 1 .. (n + 1)
          /\ \A i \in 1 .. n : queue'[i] = queue[i] /\ (Since(i)' => Since(i))
          /\ queue'[n + 1] = m
          /\ \A id : \A i \in 0 .. n : Says(id, i) => Says(id, i)'
      BY <3>1, <3>3, <3>4, SettledOnAppend
    <3>6. \A i \in 1 .. (n + 1) : i \in 1 .. n \/ i = n + 1
      BY <3>5
    <3>7. \A i \in DOMAIN queue' : \/ i \in 1 .. n /\ queue'[i] = queue[i]
                                      /\ (Since(i)' => Since(i))
                                   \/ queue'[i] = Msg("Disconnecting", conn)
      BY <3>3, <3>5, <3>6
    <3> QED
      BY <3>5, <3>7
  <2> QED
    BY <1>1, <2>1, <2>2
<1>6. /\ Msg("Disconnecting", conn).kind \notin DataKinds
      /\ \A id : Msg("Disconnecting", conn) # Msg("UpdatePlayer", id)
  BY MsgFacts DEF DataKinds
<1>7. Unserved => Unserved'
  BY <1>3, <1>5, <1>6 DEF Unserved
<1>8. ASSUME DepartureComes PROVE DepartureComes'
  <2>1. ASSUME NEW id \in Players \ players
        PROVE  WireSettles(id)' /\ QueueSettles(id)' /\ ShownSettles(id)'
    <3>1. WireSettles(id) /\ QueueSettles(id)
      BY <1>8 DEF DepartureComes
    <3>2. ASSUME NEW i \in DOMAIN queue', queue'[i] = Msg("UpdatePlayer", id), Since(i)'
          PROVE  Says(id, i)' \/ WireSays(id)'
      <4>1. i \in 1 .. n /\ i \in 0 .. n /\ queue[i] = Msg("UpdatePlayer", id) /\ Since(i)
        BY <1>5, <1>6, <3>2
      <4>2. Says(id, i) \/ WireSays(id)
        BY <1>5, <3>1, <4>1 DEF QueueSettles
      <4> QED
        BY <1>3, <1>5, <4>1, <4>2
    <3>3. QueueSettles(id)'
      BY <3>2 DEF QueueSettles
    <3>4. ShownSettles(id)'
      BY DEF ShownSettles
    <3> QED
      BY <1>3, <3>1, <3>3, <3>4
  <2> QED
    BY <2>1 DEF DepartureComes
<1> QED
  BY <1>2, <1>3, <1>4, <1>7, <1>8 DEF SessionInv

\* A message of the session is read.
LEMMA SessionOnRead ==
  ASSUME TypeOK, SessionInv, NobodyBefore, ReadMessage
  PROVE  SessionInv'
<1> SUFFICES ASSUME "mixed" \notin mishaps' PROVE SessionInv'
  BY DEF SessionInv
<1>1. /\ queue # <<>> /\ queue' = Tail(queue)
      /\ UNCHANGED <<wire, players, served, established, conn, link, accepting, mishaps>>
  BY DEF ReadMessage, serverVars, wireVars, connVars
<1>2. /\ established # 0 => served = 0
      /\ accepting => served = 0 /\ established = 0 /\ NothingAfter(0)
      /\ link = "handshake" => AnswerComesFirst
      /\ link = "connected" /\ established = conn => Unserved
      /\ link = "connected" /\ served = conn => DepartureComes
  BY <1>1 DEF SessionInv
<1>3. /\ \A i : NothingAfter(i) => NothingAfter(i)'
      /\ \A id : WireSays(id)' <=> WireSays(id)
      /\ \A id : WireSettles(id)' <=> WireSettles(id)
  BY <1>1 DEF NothingAfter, WireSays, WireSettles
<1>4. AnswerComesFirst => AnswerComesFirst'
  BY <1>1, <1>3 DEF AnswerComesFirst
<1>5. PICK n : n = Len(queue)
  OBVIOUS
<1>6. /\ n \in Nat /\ DOMAIN queue = 1 .. n /\ DOMAIN queue' = 1 .. (n - 1) /\ 1 \in 1 .. n
      /\ queue[1] \in QueueMsg
      /\ \A i \in 1 .. (n - 1) : /\ i + 1 \in 1 .. n /\ queue'[i] = queue[i + 1]
                                 /\ Since(i)' => Since(i + 1)
      /\ OwnConnected(1) \/ (ConnectedWaits => ConnectedWaits')
      /\ ~ConnectedWaits => \A i \in 1 .. n : Since(i)
      /\ \A id : \A i \in 0 .. (n - 1) : Says(id, i + 1) => Says(id, i)'
      /\ \A id : Says(id, 0) => Says(id, 0)' \/ queue[1] = Msg("PlayerDisconnected", id)
  BY <1>1, <1>5, SettledOnTake
<1>7. /\ queue[1].kind = "Connected" => RemotePlayers' = {}
      /\ queue[1].kind \notin DataKinds => RemotePlayers' \subseteq RemotePlayers
      /\ \A id \in RemotePlayers' : \/ id \in RemotePlayers
                                    \/ queue[1] = Msg("UpdatePlayer", id)
      /\ \A id \in RemotePlayers' : queue[1] # Msg("PlayerDisconnected", id)
  BY ShownOnRead
\* Whoever is shown now, and a Connected does not wait: it did not wait before.
<1>8. ASSUME ~ConnectedWaits', RemotePlayers' # {}
      PROVE  ~ConnectedWaits /\ Since(1)
  <2>1. ~OwnConnected(1)
    BY <1>7, <1>8 DEF OwnConnected
  <2> QED
    BY <1>6, <1>8, <2>1
<1>9. ASSUME Unserved PROVE Unserved'
  <2>1. NothingAfter(0)'
    BY <1>3, <1>9 DEF Unserved
  <2>2. ASSUME NEW i \in DOMAIN queue', Since(i)' PROVE queue'[i].kind \notin DataKinds
    BY <1>6, <1>9, <2>2 DEF Unserved
  <2>3. ASSUME ~ConnectedWaits', RemotePlayers' # {} PROVE FALSE
    <3>1. RemotePlayers = {} /\ queue[1].kind \notin DataKinds
      BY <1>6, <1>8, <1>9, <2>3 DEF Unserved
    <3> QED
      BY <1>7, <2>3, <3>1
  <2> QED
    BY <2>1, <2>2, <2>3 DEF Unserved
<1>10. ASSUME DepartureComes PROVE DepartureComes'
  <2>1. ASSUME NEW id \in Players \ players
        PROVE  WireSettles(id)' /\ QueueSettles(id)' /\ ShownSettles(id)'
    <3>1. WireSettles(id) /\ QueueSettles(id) /\ ShownSettles(id)
      BY <1>10 DEF DepartureComes
    <3>2. ASSUME NEW i \in 1 .. (n - 1), queue'[i] = Msg("UpdatePlayer", id), Since(i)'
          PROVE  Says(id, i)' \/ WireSays(id)'
      <4>1. i + 1 \in 1 .. n /\ queue[i + 1] = Msg("UpdatePlayer", id) /\ Since(i + 1)
            /\ i \in 0 .. (n - 1)
        BY <1>6, <3>2
      <4>2. Says(id, i + 1) \/ WireSays(id)
        BY <1>6, <3>1, <4>1 DEF QueueSettles
      <4> QED
        BY <1>3, <1>6, <4>1, <4>2
    <3>3. QueueSettles(id)'
      BY <1>6, <3>2 DEF QueueSettles
    <3>4. ASSUME id \in RemotePlayers', ~ConnectedWaits' PROVE Says(id, 0)' \/ WireSays(id)'
      <4>1. ~ConnectedWaits /\ Since(1)
        BY <1>8, <3>4
      <4>2. CASE id \in RemotePlayers
        <5>1. Says(id, 0) \/ WireSays(id)
          BY <3>1, <4>1, <4>2 DEF ShownSettles
        <5> QED
          BY <1>3, <1>6, <1>7, <3>4, <5>1
      <4>3. CASE queue[1] = Msg("UpdatePlayer", id)
        <5>1. Says(id, 1) \/ WireSays(id)
          BY <1>6, <3>1, <4>1, <4>3 DEF QueueSettles
        <5>2. 0 \in 0 .. (n - 1) /\ 0 + 1 = 1
          BY <1>6
        <5>3. Says(id, 0 + 1) \/ WireSays(id)
          BY <5>1, <5>2
        <5> QED
          BY <1>3, <1>6, <5>2, <5>3
      <4> QED
        BY <1>7, <3>4, <4>2, <4>3
    <3>5. ShownSettles(id)'
      BY <3>4 DEF ShownSettles
    <3> QED
      BY <1>3, <3>1, <3>3, <3>5
  <2> QED
    BY <1>1, <2>1 DEF DepartureComes
<1> QED
  BY <1>1, <1>2, <1>3, <1>4, <1>9, <1>10 DEF SessionInv

LEMMA SessionOnScript ==
  ASSUME TypeOK, LinkInv, SessionInv, NobodyBefore, Script
  PROVE  SessionInv' /\ NobodyBefore'
<1>1. UNCHANGED <<wire, players, served, established, accepting>>
  BY ScriptTypes DEF serverVars, wireVars
<1>2. CASE ReadMessage
  BY <1>2, SessionOnRead, ShownOnRead
<1>3. CASE NetDisconnect /\ RemotePlayers' = {} /\ UNCHANGED <<conn, link>>
  BY <1>1, <1>3, SessionOnDisconnect DEF NobodyBefore
<1>4. CASE UNCHANGED <<conn, link, queue, RemotePlayers, Initialized, mishaps>>
  BY <1>1, <1>4, SessionWhenQuiet DEF NobodyBefore
<1>5. CASE Made
  <2>1. /\ link = "none" /\ link' = "handshake" /\ conn' = conn + 1 /\ ~accepting'
        /\ UNCHANGED <<Initialized, RemotePlayers, mishaps>>
    BY <1>1, <1>5 DEF Made, LinkInv
  <2>2. ASSUME NEW i \in DOMAIN wire PROVE wire[i] # Msg("ConnectResponse", conn + 1)
    <3>1. wire[i] \in WireMsg /\ (wire[i].kind = "ConnectResponse" => wire[i].id <= conn)
          /\ conn \in Nat
      BY TypeFacts, BoundAssumption DEF LinkInv, TypeOK
    <3>2. wire[i].kind = "ConnectResponse" => wire[i].id \in Nat
      BY <3>1, WireFacts, BoundAssumption
    <3>3. wire[i].kind = "ConnectResponse" => wire[i].id # conn + 1
      BY <3>1, <3>2
    <3> QED
      BY <3>3, MsgFacts
  <2>3. AnswerComesFirst'
    BY <1>1, <2>1, <2>2 DEF AnswerComesFirst
  <2> QED
    BY <1>1, <2>1, <2>3 DEF SessionInv, NobodyBefore
<1>6. ConnectCommand \/ DisconnectCommand \/ NetConnect \/ BeginTick \/ SendUpdate
        => \/ NetDisconnect /\ RemotePlayers' = {} /\ UNCHANGED <<conn, link>>
           \/ UNCHANGED <<conn, link, queue, RemotePlayers, Initialized, mishaps>>
           \/ Made
  BY DEF ConnectCommand, DisconnectCommand, Disconnect, NetConnect, Made, BeginTick,
         SendUpdate, connVars
<1> QED
  BY <1>2, <1>3, <1>4, <1>5, <1>6 DEF Script

LEMMA SessionNext ==
  ASSUME TypeOK, LinkInv, SessionInv, NobodyBefore, [Next]_vars
  PROVE  SessionInv' /\ NobodyBefore'
<1>1. CASE Server \/ Wire
  BY <1>1, SessionOnServer, ServerTypes DEF NobodyBefore, client, scriptVars
<1>2. CASE Network
  BY <1>2, SessionOnNetwork, NetworkTypes DEF NobodyBefore, scriptVars
<1>3. CASE Script
  BY <1>3, SessionOnScript
<1>4. CASE UNCHANGED vars
  BY <1>4, SessionWhenQuiet
  DEF NobodyBefore, vars, serverVars, wireVars, connVars, scriptVars
<1> QED
  BY <1>1, <1>2, <1>3, <1>4 DEF Next

\* A served client shows nobody who has left, unless the departure is still on
\* its way or the wire changed the order of messages.
THEOREM NobodyIsAGhost == Spec => []NoGhosts
<1> DEFINE Inv == TypeOK /\ LinkInv /\ StatusInv /\ SessionInv /\ NobodyBefore
<1>1. Init => Inv
  <2> SUFFICES ASSUME Init PROVE Inv
    OBVIOUS
  <2>1. TypeOK /\ LinkInv
    BY TypesInit
  <2>2. DOMAIN queue = {} /\ DOMAIN wire = {}
    BY DEF Init
  <2>3. StatusInv
    BY <2>2 DEF Init, StatusInv, ConnectedWaits
  <2> QED
    BY <2>1, <2>3 DEF Init, SessionInv, NobodyBefore
<1>2. Inv /\ [Next]_vars => Inv'
  BY TypesNext, StatusNext, SessionNext
<1>3. Inv => NoGhosts
  <2> SUFFICES ASSUME Inv, ConnectionStatus = "Connected", served = conn,
                      "mixed" \notin mishaps, NEW id \in RemotePlayers, id \notin players
               PROVE  id \in Leaving
    BY DEF NoGhosts
  <2>1. link = "connected" /\ visible = "Connected"
    BY DEF ConnectionStatus
  <2>2. DepartureComes /\ ~ConnectedWaits
    BY <2>1 DEF SessionInv, StatusInv
  <2>3. id \in Players \ players
    BY DEF TypeOK
  <2>4. Says(id, 0) \/ WireSays(id)
    BY <2>2, <2>3 DEF DepartureComes, ShownSettles
  <2> QED
    BY <2>3, <2>4 DEF Leaving, Says, WireSays
<1> HIDE DEF Inv
<1>4. Spec => []Inv
  BY <1>1, <1>2, PTL DEF Spec
<1> QED
  BY <1>3, <1>4, PTL
=============================================================================
