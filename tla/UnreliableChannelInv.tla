------------------------ MODULE UnreliableChannelInv ------------------------
(***************************************************************************)
(* What has to be added to the properties of UnreliableChannel to make     *)
(* them inductive: what its wrapped numbers stand for.                     *)
(***************************************************************************)
EXTENDS UnreliableChannel

\* The sequence number of message m.
Number(m) == (m - 1) % NumSequenceNumbers

\* The fields are numbers, and sequences of numbers.
NumbersInv ==
    /\ accepted \in Nat /\ queuedSends \in Seq(Nat) /\ released \in Seq(Nat)
    /\ windowStart \in Int /\ lastReceived \in Int
    /\ \A d \in data \cup acks : d.seq \in Int /\ d.msg \in Nat

\* The queue holds what has not been sent, in order.
QueueInv ==
    /\ Len(queuedSends) <= accepted
    /\ \A i \in DOMAIN queuedSends : queuedSends[i] = Sent + i
    /\ sendStart = Sent % NumSequenceNumbers

\* Nothing on the wire is so old that its number could be taken for a new one.
WireInv ==
    \A d \in data :
        /\ d.msg \in 1 .. Sent /\ Sent < d.msg + Lifetime
        /\ d.seq = Number(d.msg)

\* What was released had been sent.
ReleasedInv == \A i \in DOMAIN released : released[i] \in 1 .. Sent

\* A sequenced receiver releases each message after the one before, and remembers
\* the number of the last.
SequencedInv ==
    /\ \A i, j \in DOMAIN released : i < j => released[i] < released[j]
    /\ released # <<>> => lastReceived = Number(released[Len(released)])

StreamInv ==
    /\ NumbersInv /\ QueueInv /\ WireInv /\ ReleasedInv
    /\ Method = "UnreliableSequenced" => SequencedInv
=============================================================================
