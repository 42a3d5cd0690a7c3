------------------------- MODULE ReliableChannelInv -------------------------
(***************************************************************************)
(* What has to be added to the properties of ReliableChannel to make them  *)
(* inductive.                                                              *)
(***************************************************************************)
EXTENDS ReliableChannel

\* A slot is either filled or null; a set bit of an ordered receiver has a
\* message withheld in its slot.
FilledSlots ==
    /\ \A i \in Slot : stored[i].msg = 0 => stored[i] = NoMessage
    /\ Method = "ReliableOrdered" => \A i \in early : withheld[i] # 0

\* The types of a channel, with what makes them inductive.
TypeInv == TypeOK /\ FilledSlots

-----------------------------------------------------------------------------
\* The windows, in numbers that do not wrap.  The sender has let go the messages
\* up to b, and the receiver expects the one after e.

\* The sequence number of message m, and its slot at both ends.
Number(m) == (m - 1) % NumSequenceNumbers
Place(m) == (m - 1) % WindowSize

\* The queue holds what has not been sent, in order.
QueueInv ==
    /\ Len(queuedSends) <= accepted
    /\ \A i \in DOMAIN queuedSends : queuedSends[i] = Sent + i
    /\ sendStart = Sent % NumSequenceNumbers

\* The window, its slots, and the bits of what was acknowledged early.
SenderAt(b) ==
    /\ b <= Sent /\ Sent <= b + WindowSize
    /\ windowStart = b % NumSequenceNumbers
    /\ \A m \in b + 1 .. Sent : stored[Place(m)].msg = m
    /\ \A i \in StoredSlots :
          /\ stored[i].msg \in b + 1 .. Sent
          /\ Place(stored[i].msg) = i
          /\ stored[i].seq = Number(stored[i].msg)
    /\ receivedAcks \subseteq {Number(m) : m \in b + 2 .. Sent}

\* Nothing on the wire is so old that its number could be taken for a new one.
WireInv ==
    \A d \in data \cup acks :
        /\ d.msg <= Sent /\ Sent < d.msg + (NumSequenceNumbers \div 2)
        /\ d.seq = Number(d.msg)

\* The receiver has had message m, or a newer one if it is sequenced.
Had(m, e) ==
    IF Method = "ReliableSequenced" THEN GotThrough(m)
    ELSE m <= e \/ Place(m) \in early

\* What is acknowledged, on the wire or at the sender, has been received.
AckInv(b, e) ==
    /\ \A a \in acks : Had(a.msg, e)
    /\ \A m \in b + 2 .. Sent : Number(m) \in receivedAcks => Had(m, e)

\* Where the three receivers are when they expect the message after e.
OrderedAt(e) ==
    /\ Len(released) = e /\ \A i \in 1 .. e : released[i] = i
    /\ \A m \in e + 2 .. Sent : Place(m) \in early => withheld[Place(m)] = m

UnorderedAt(e) ==
    /\ \A m \in 1 .. Sent : m <= e \/ Place(m) \in early <=> GotThrough(m)
    /\ \A i \in DOMAIN released : released[i] <= Sent
    /\ \A i, j \in DOMAIN released : released[i] = released[j] => i = j

SequencedAt(b, e) ==
    /\ \A i \in DOMAIN released : released[i] <= e + 1 /\ released[i] <= Sent
    /\ \A i, j \in DOMAIN released : i < j => released[i] <= released[j]
    /\ \A m \in 1 .. e : GotThrough(m)
    /\ \A m \in 1 .. b : GotThrough(m)

ReceiverAt(b, e) ==
    /\ e <= Sent
    /\ expected = e % NumSequenceNumbers
    /\ IF Method = "ReliableSequenced" THEN SequencedAt(b, e)
       ELSE /\ b <= e
            /\ early \subseteq {Place(m) : m \in e + 2 .. Sent}
            /\ IF Method = "ReliableOrdered" THEN OrderedAt(e) ELSE UnorderedAt(e)

WindowAt(b, e) == SenderAt(b) /\ AckInv(b, e) /\ ReceiverAt(b, e)

\* Both ends agree on the numbers that the wrapped ones stand for.
WindowInv == QueueInv /\ WireInv /\ \E b, e \in 0 .. MaxMessages : WindowAt(b, e)
=============================================================================
