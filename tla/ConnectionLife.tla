--------------------------- MODULE ConnectionLife ---------------------------
(***************************************************************************)
(* What a server application may rely on of each connection, whatever the  *)
(* datagrams do: it is told Connected at most once, only of a connection   *)
(* it has approved and whose end it was not told, and told Disconnected at *)
(* most once.  Server.OnTick, and GameServer with it, take this for        *)
(* granted.                                                                *)
(***************************************************************************)
EXTENDS Naturals

CONSTANT Connection     \* the connection objects

VARIABLES
  approved,             \* those the application has approved
  told                  \* what it was last told of each

Init == approved = {} /\ told = [c \in Connection |-> "nothing"]

Approve(c) == approved' = approved \cup {c} /\ UNCHANGED told

TellConnected(c) ==
  /\ c \in approved /\ told[c] = "nothing"
  /\ told' = [told EXCEPT ![c] = "Connected"]
  /\ UNCHANGED approved

TellDisconnected(c) ==
  /\ told[c] # "Disconnected"
  /\ told' = [told EXCEPT ![c] = "Disconnected"]
  /\ UNCHANGED approved

Next ==
  \E c \in Connection : Approve(c) \/ TellConnected(c) \/ TellDisconnected(c)

Spec == Init /\ [][Next]_<<approved, told>>

=============================================================================
