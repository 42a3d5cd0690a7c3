----------------------------- MODULE MCChannels -----------------------------
(***************************************************************************)
(* A channel of any of the five delivery methods, for TLC: the method is   *)
(* chosen at the start and kept.                                           *)
(***************************************************************************)
EXTENDS Integers, Sequences

CONSTANTS
  NumSequenceNumbers, WindowSize, Lifetime,     \* of ReliableChannel
  MaxOrdered, MaxUnordered, MaxSequenced,       \* bounds: MaxMessages of each
  MaxPositions, MaxUpdates                      \* and of both unreliable methods

\* As ReliableChannel assumes it of a channel.
ASSUME WindowAssumption ==
  /\ NumSequenceNumbers \in Nat /\ WindowSize \in Nat \ {0}
  /\ NumSequenceNumbers % WindowSize = 0 /\ 2 * WindowSize < NumSequenceNumbers
ASSUME LifetimeAssumption == Lifetime \in Nat /\ 2 * Lifetime <= NumSequenceNumbers
ASSUME BoundAssumption == MaxOrdered \in Nat /\ MaxUnordered \in Nat /\ MaxSequenced \in Nat

VARIABLES
  method,       \* the method of the channel
  accepted, enqueuing, queuedSends, needFlush, flush, windowStart, sendStart,
  receivedAcks, stored, data, acks,
  expected,     \* of an unreliable channel, m_lastReceivedSequenceNumber
  early, withheld, released

Ordered == INSTANCE ReliableChannelInv WITH
  Method <- "ReliableOrdered", MaxMessages <- MaxOrdered

Unordered == INSTANCE ReliableChannelInv WITH
  Method <- "ReliableUnordered", MaxMessages <- MaxUnordered

Sequenced == INSTANCE ReliableChannelInv WITH
  Method <- "ReliableSequenced", MaxMessages <- MaxSequenced

\* What the server asks for driverless vehicles, and for players.
Positions == INSTANCE UnreliableChannelInv WITH
  AskedMethod <- "Unreliable", SequenceChannel <- 0,
  MaxMessages <- MaxPositions, MaxReleased <- MaxPositions, lastReceived <- expected

Updates == INSTANCE UnreliableChannelInv WITH
  AskedMethod <- "Unreliable", SequenceChannel <- 1,
  MaxMessages <- MaxUpdates, MaxReleased <- MaxUpdates, lastReceived <- expected

reliableVars == <<receivedAcks, stored, early, withheld>>

Init ==
  \/ /\ method \in {"ReliableOrdered", "ReliableUnordered", "ReliableSequenced"}
     /\ Ordered!Init
  \/ /\ method \in {Positions!Method, Updates!Method}
     /\ Positions!Init
     /\ receivedAcks = {} /\ stored = <<>> /\ early = {} /\ withheld = <<>>

Next ==
  /\ UNCHANGED method
  /\ \/ method = "ReliableOrdered" /\ Ordered!Next
     \/ method = "ReliableUnordered" /\ Unordered!Next
     \/ method = "ReliableSequenced" /\ Sequenced!Next
     \/ method = "Unreliable" /\ Positions!Next /\ UNCHANGED reliableVars
     \/ method = "UnreliableSequenced" /\ Updates!Next /\ UNCHANGED reliableVars

Spec == Init /\ [][Next]_<<method, Ordered!vars>>

\* A statement of the reliable channels, for the method that was chosen.
Reliable(ordered, unordered, sequenced) ==
  CASE method = "ReliableOrdered" -> ordered
    [] method = "ReliableUnordered" -> unordered
    [] method = "ReliableSequenced" -> sequenced
    [] OTHER -> TRUE

\* A sender forgets a message only when it got through.
KeptUntilThrough ==
  Reliable(Ordered!KeptUntilThrough, Unordered!KeptUntilThrough, Sequenced!KeptUntilThrough)

\* No receiver drops as too early what it has acknowledged.
NeverTooEarly ==
  Reliable(Ordered!NeverTooEarly, Unordered!NeverTooEarly, Sequenced!NeverTooEarly)

\* The stored messages are those of the window, each in its slot.
StoredIsWindow ==
  Reliable(Ordered!StoredIsWindow, Unordered!StoredIsWindow, Sequenced!StoredIsWindow)

\* No losses shut an unreliable sender for good.
NeverShut ==
  CASE method = "Unreliable" -> Positions!NeverShut
    [] method = "UnreliableSequenced" -> Updates!NeverShut
    [] OTHER -> TRUE

\* The channel implements what its delivery method promises: ChannelSpec, for
\* the method that was chosen.
KeepsPromise ==
  /\ Ordered!Channel!Init
  /\ [][CASE method = "ReliableOrdered" -> Ordered!Channel!Next
         [] method = "ReliableUnordered" -> Unordered!Channel!Next
         [] method = "ReliableSequenced" -> Sequenced!Channel!Next
         [] method = "Unreliable" -> Positions!Channel!Next
         [] method = "UnreliableSequenced" -> Updates!Channel!Next]_<<accepted, released>>
=============================================================================
