--------------------------- MODULE GameServerInv ---------------------------
(***************************************************************************)
(* The inductive invariants behind the properties of GameServer: what the  *)
(* properties leave unsaid about the order of the messages in the FIFO,    *)
(* about what the clients have been told, and how the FIFO relates the     *)
(* list of players to the slots.                                           *)
(***************************************************************************)
EXTENDS GameServer

\* Message i of the FIFO is a status change or an update of connection c.
From(c, i) == queue[i].conn = c /\ queue[i].type # "ConnectionApproval"

\* The life of one connection as the FIFO still holds it: one Connected, then
\* updates, then one Disconnected, and a player from the moment the first is
\* handled to the moment the last is.
SessionOf(c) ==
    /\ link[c] \notin {"Connected", "Disconnected"} =>
           /\ c \notin Registered
           /\ \A i \in DOMAIN queue : ~From(c, i)
    /\ link[c] = "Connected" =>
           /\ ~Pending(c, "Disconnected")
           /\ c \in Registered \/ Pending(c, "Connected")
    /\ link[c] = "Disconnected" =>
           (c \in Registered \/ Pending(c, "Connected") => Pending(c, "Disconnected"))
    /\ \A i \in DOMAIN queue : queue[i] = Changed(c, "Connected") => c \notin Registered
    /\ \A i, j \in DOMAIN queue :
           queue[i] = Changed(c, "Connected") /\ queue[j] = Changed(c, "Connected") => i = j
    /\ \A i, j \in DOMAIN queue :
           queue[i] = Changed(c, "Disconnected") /\ From(c, j) => j <= i
    /\ \A j \in DOMAIN queue :
           From(c, j) /\ queue[j].type = "Data" =>
               \/ c \in Registered
               \/ \E i \in DOMAIN queue : i < j /\ queue[i] = Changed(c, "Connected")

\* The test player is on the list only between the steps of the console that
\* put it there and take it off.
TestPlayerInv ==
    /\ TestPlayer \in Registered => testing /\ console \in {"prompt", "remove"}
    /\ console # "prompt" => testing

SessionInv ==
    /\ \A c \in Conn : SessionOf(c)
    /\ Distinct(Players)
    /\ TestPlayerInv

\* A connection that is not live has been told nothing, and none in its
\* handshake drives a vehicle; an update names a vehicle its sender was sent,
\* and only vehicles that exist are driven.
ClientInv ==
    /\ \A c \in Conn \ Connections : told[c] = {} /\ streamed[c] = {}
    /\ \A c \in Conn, i \in 1 .. MaxVehicles :
           link[c] \in {"RespondedAwaitingApproval", "RespondedConnect"} => Driver[i] # c
    /\ \A i \in DOMAIN queue :
           queue[i].type = "Data" /\ queue[i].conn \in Connections =>
               queue[i].vehicle \in {0} \cup streamed[queue[i].conn]
    /\ \A i \in 1 .. MaxVehicles : Driver[i] \in Conn => i \in DOMAIN Vehicles

\* c's ConnectionApproval waits at position i of the FIFO.
AsksAt(c, i) == queue[i].conn = c /\ queue[i].type = "ConnectionApproval"
Asks(c) == \E i \in DOMAIN queue : AsksAt(c, i)

\* The connections that had a slot when message k of the FIFO was released and
\* have not been denied since: those that have one or whose Disconnected comes
\* later in the FIFO, without those whose approval comes later.
Held(k) ==
    {c \in Conn :
        /\ c \in Slots \/ \E i \in DOMAIN queue : i > k /\ queue[i] = Changed(c, "Disconnected")
        /\ \A i \in DOMAIN queue : i > k => ~AsksAt(c, i)}

\* A connection asks once, and has no player before it is answered.
AskInv(c) ==
    /\ Asks(c) => /\ link[c] \in {"RespondedAwaitingApproval", "Disconnected"}
                  /\ c \notin Registered
                  /\ ~Pending(c, "Connected")
    /\ \A i, j \in DOMAIN queue : AsksAt(c, i) /\ AsksAt(c, j) => i = j

\* At no position of the FIFO were more slots taken than there are.
HeldInv ==
    \A k \in 0 .. Len(queue) :
        IsFiniteSet(Held(k)) /\ Cardinality(Held(k)) <= MaxPlayers

SlotInv == HeldInv /\ \A c \in Conn : AskInv(c)
=============================================================================
