---------------------------- MODULE ChannelSpec ----------------------------
(***************************************************************************)
(* What a delivery method promises its user, whatever the datagrams do:    *)
(* NetDeliveryMethod as the comments on the enumeration and the library's  *)
(* tutorial describe it.  Messages are numbered in the order they are      *)
(* accepted for sending, and `released' is what the other side hands to    *)
(* its application, in that order.                                         *)
(***************************************************************************)
EXTENDS Naturals, Sequences

CONSTANT Method     \* the delivery method of the channel

VARIABLES
    accepted,       \* how many messages SendMessage has accepted
    released        \* the messages given to ReleaseMessage, in order

Init == accepted = 0 /\ released = <<>>

\* What the receiving application may have seen.  Ordered: the messages in the
\* order they were sent, without gaps.  Unordered: each at most once.
\* Sequenced: nothing older than what came before, and nothing twice if it is
\* unreliable.  Unreliable: anything.
Promised(seen) ==
    CASE Method = "ReliableOrdered"   -> \A i \in DOMAIN seen : seen[i] = i
      [] Method = "ReliableUnordered" -> \A i, j \in DOMAIN seen : seen[i] = seen[j] => i = j
      [] Method = "ReliableSequenced" -> \A i, j \in DOMAIN seen : i < j => seen[i] <= seen[j]
      [] Method = "UnreliableSequenced" -> \A i, j \in DOMAIN seen : i < j => seen[i] < seen[j]
      [] Method = "Unreliable" -> TRUE

Accept == accepted' = accepted + 1 /\ UNCHANGED released

\* One datagram may let several messages go, those withheld until it came.
Release ==
    /\ released' # released
    /\ SubSeq(released', 1, Len(released)) = released
    /\ Promised(released')
    /\ \A i \in DOMAIN released' : released'[i] \in 1 .. accepted
    /\ UNCHANGED accepted

Next == Accept \/ Release

Spec == Init /\ [][Next]_<<accepted, released>>
=============================================================================
