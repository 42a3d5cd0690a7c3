--------------------------- MODULE ChannelProofs ---------------------------
(***************************************************************************)
(* Theorems about the channels of all five delivery methods.               *)
(*                                                                         *)
(* What ReliableChannelProofs shows holds of the three reliable channels.  *)
(* For the two unreliable ones, which are the same but for the method and  *)
(* the bounds, each part of StreamInv of UnreliableChannelInv is shown to  *)
(* last; it is the lifetime of a datagram that keeps a late number from    *)
(* being taken for a new one.  The theorems at the end are those of a      *)
(* channel of whatever method it was started with.                         *)
(***************************************************************************)
EXTENDS MCChannels, SequenceTheorems, TLAPS

OrderedP == INSTANCE ReliableChannelProofs WITH
  Method <- "ReliableOrdered", MaxMessages <- MaxOrdered

UnorderedP == INSTANCE ReliableChannelProofs WITH
  Method <- "ReliableUnordered", MaxMessages <- MaxUnordered

SequencedP == INSTANCE ReliableChannelProofs WITH
  Method <- "ReliableSequenced", MaxMessages <- MaxSequenced

-----------------------------------------------------------------------------
\* The reliable channels.

\* What ReliableChannelProofs shows of the ordered channel, of the channel here: the
\* definitions are the same.
LEMMA OrderedTheorems ==
    Ordered!Spec => /\ [](Ordered!KeptUntilThrough /\ Ordered!NeverTooEarly /\ Ordered!StoredIsWindow)
                    /\ Ordered!KeepsPromise
<1>1. OrderedP!Spec => []OrderedP!KeptUntilThrough
  BY OrderedP!ForgottenOnlyWhenThrough, WindowAssumption, LifetimeAssumption, BoundAssumption
  DEF OrderedP!MethodAssumption, OrderedP!WindowAssumption, OrderedP!LifetimeAssumption,
      OrderedP!BoundAssumption
<1>2. OrderedP!Spec => []OrderedP!NeverTooEarly
  BY OrderedP!NothingTooEarly, WindowAssumption, LifetimeAssumption, BoundAssumption
  DEF OrderedP!MethodAssumption, OrderedP!WindowAssumption, OrderedP!LifetimeAssumption,
      OrderedP!BoundAssumption
<1>3. OrderedP!Spec => []OrderedP!StoredIsWindow
  BY OrderedP!SlotsMatchWindow, WindowAssumption, LifetimeAssumption, BoundAssumption
  DEF OrderedP!MethodAssumption, OrderedP!WindowAssumption, OrderedP!LifetimeAssumption,
      OrderedP!BoundAssumption
<1>4. OrderedP!Spec => OrderedP!KeepsPromise
  BY OrderedP!ReliableKeepsPromise, WindowAssumption, LifetimeAssumption, BoundAssumption
  DEF OrderedP!MethodAssumption, OrderedP!WindowAssumption, OrderedP!LifetimeAssumption,
      OrderedP!BoundAssumption
<1>5. Ordered!Init => OrderedP!Init
  BY DEF Ordered!Init, Ordered!Slot, Ordered!NoMessage, OrderedP!Init,
      OrderedP!Slot, OrderedP!NoMessage
<1>6. [Ordered!Next]_Ordered!vars => [OrderedP!Next]_OrderedP!vars
  BY Zenon DEF
      Ordered!Next, Ordered!User, Ordered!Sender, Ordered!Wire,
      Ordered!Enqueue, Ordered!Flag, Ordered!TestFlush, Ordered!ClearFlush,
      Ordered!StoredSlots, Ordered!NoMessage, Ordered!Slot, Ordered!SeqNr,
      Ordered!SendQueuedMessages, Ordered!SendCount, Ordered!GetAllowedSends,
      Ordered!SendNr, Ordered!Sent, Ordered!Alive, Ordered!NeedToSendMessages,
      Ordered!ReceiveAcknowledge, Ordered!AcknowledgeOnTime,
      Ordered!AcknowledgeEarly, Ordered!Holes, Ordered!RelativeSequenceNumber,
      Ordered!RunLength, Ordered!ReceiveMessage, Ordered!ReceiveOrdered,
      Ordered!ReceiveUnordered, Ordered!ReceiveSequenced, Ordered!Advance,
      Ordered!EarlyRun, Ordered!After, Ordered!Lose, Ordered!userVars,
      Ordered!flagVars, Ordered!windowVars, Ordered!receiverVars,
      Ordered!vars, OrderedP!Next, OrderedP!User, OrderedP!Sender,
      OrderedP!Wire, OrderedP!Enqueue, OrderedP!Flag, OrderedP!TestFlush,
      OrderedP!ClearFlush, OrderedP!StoredSlots, OrderedP!NoMessage,
      OrderedP!Slot, OrderedP!SeqNr, OrderedP!SendQueuedMessages,
      OrderedP!SendCount, OrderedP!GetAllowedSends, OrderedP!SendNr,
      OrderedP!Sent, OrderedP!Alive, OrderedP!NeedToSendMessages,
      OrderedP!ReceiveAcknowledge, OrderedP!AcknowledgeOnTime,
      OrderedP!AcknowledgeEarly, OrderedP!Holes,
      OrderedP!RelativeSequenceNumber, OrderedP!RunLength,
      OrderedP!ReceiveMessage, OrderedP!ReceiveOrdered,
      OrderedP!ReceiveUnordered, OrderedP!ReceiveSequenced, OrderedP!Advance,
      OrderedP!EarlyRun, OrderedP!After, OrderedP!Lose, OrderedP!userVars,
      OrderedP!flagVars, OrderedP!windowVars, OrderedP!receiverVars,
      OrderedP!vars
<1>7. OrderedP!KeptUntilThrough => Ordered!KeptUntilThrough
  BY DEF Ordered!KeptUntilThrough, Ordered!GotThrough, Ordered!Slot,
         OrderedP!KeptUntilThrough, OrderedP!GotThrough, OrderedP!Slot
<1>8. OrderedP!NeverTooEarly => Ordered!NeverTooEarly
  BY DEF Ordered!NeverTooEarly, Ordered!RelativeSequenceNumber,
         OrderedP!NeverTooEarly, OrderedP!RelativeSequenceNumber
<1>9. OrderedP!StoredIsWindow => Ordered!StoredIsWindow
  BY DEF Ordered!StoredIsWindow, Ordered!Window, Ordered!StoredSlots,
         Ordered!Slot, Ordered!NoMessage, Ordered!GetAllowedSends,
         OrderedP!StoredIsWindow, OrderedP!Window, OrderedP!StoredSlots,
         OrderedP!Slot, OrderedP!NoMessage, OrderedP!GetAllowedSends
<1>10. OrderedP!Channel!Init => Ordered!Channel!Init
  BY DEF Ordered!Channel!Init, OrderedP!Channel!Init
<1>11. [OrderedP!Channel!Next]_<<accepted, released>>
        => [Ordered!Channel!Next]_<<accepted, released>>
  BY DEF Ordered!Channel!Next, Ordered!Channel!Accept,
         Ordered!Channel!Release, Ordered!Channel!Promised,
         OrderedP!Channel!Next, OrderedP!Channel!Accept,
         OrderedP!Channel!Release, OrderedP!Channel!Promised
<1> QED
  BY <1>1, <1>2, <1>3, <1>4, <1>5, <1>6, <1>7, <1>8, <1>9, <1>10, <1>11, PTL
  DEF Ordered!Spec, Ordered!KeepsPromise, Ordered!Channel!Spec, OrderedP!Spec,
      OrderedP!KeepsPromise, OrderedP!Channel!Spec

\* What ReliableChannelProofs shows of the unordered channel, of the channel here: the
\* definitions are the same.
LEMMA UnorderedTheorems ==
    Unordered!Spec => /\ [](Unordered!KeptUntilThrough /\ Unordered!NeverTooEarly /\ Unordered!StoredIsWindow)
                      /\ Unordered!KeepsPromise
<1>1. UnorderedP!Spec => []UnorderedP!KeptUntilThrough
  BY UnorderedP!ForgottenOnlyWhenThrough, WindowAssumption, LifetimeAssumption, BoundAssumption
  DEF UnorderedP!MethodAssumption, UnorderedP!WindowAssumption, UnorderedP!LifetimeAssumption,
      UnorderedP!BoundAssumption
<1>2. UnorderedP!Spec => []UnorderedP!NeverTooEarly
  BY UnorderedP!NothingTooEarly, WindowAssumption, LifetimeAssumption, BoundAssumption
  DEF UnorderedP!MethodAssumption, UnorderedP!WindowAssumption, UnorderedP!LifetimeAssumption,
      UnorderedP!BoundAssumption
<1>3. UnorderedP!Spec => []UnorderedP!StoredIsWindow
  BY UnorderedP!SlotsMatchWindow, WindowAssumption, LifetimeAssumption, BoundAssumption
  DEF UnorderedP!MethodAssumption, UnorderedP!WindowAssumption, UnorderedP!LifetimeAssumption,
      UnorderedP!BoundAssumption
<1>4. UnorderedP!Spec => UnorderedP!KeepsPromise
  BY UnorderedP!ReliableKeepsPromise, WindowAssumption, LifetimeAssumption, BoundAssumption
  DEF UnorderedP!MethodAssumption, UnorderedP!WindowAssumption, UnorderedP!LifetimeAssumption,
      UnorderedP!BoundAssumption
<1>5. Unordered!Init => UnorderedP!Init
  BY DEF Unordered!Init, Unordered!Slot, Unordered!NoMessage, UnorderedP!Init,
      UnorderedP!Slot, UnorderedP!NoMessage
<1>6. [Unordered!Next]_Unordered!vars => [UnorderedP!Next]_UnorderedP!vars
  BY Zenon DEF
      Unordered!Next, Unordered!User, Unordered!Sender, Unordered!Wire,
      Unordered!Enqueue, Unordered!Flag, Unordered!TestFlush,
      Unordered!ClearFlush, Unordered!StoredSlots, Unordered!NoMessage,
      Unordered!Slot, Unordered!SeqNr, Unordered!SendQueuedMessages,
      Unordered!SendCount, Unordered!GetAllowedSends, Unordered!SendNr,
      Unordered!Sent, Unordered!Alive, Unordered!NeedToSendMessages,
      Unordered!ReceiveAcknowledge, Unordered!AcknowledgeOnTime,
      Unordered!AcknowledgeEarly, Unordered!Holes,
      Unordered!RelativeSequenceNumber, Unordered!RunLength,
      Unordered!ReceiveMessage, Unordered!ReceiveOrdered,
      Unordered!ReceiveUnordered, Unordered!ReceiveSequenced,
      Unordered!Advance, Unordered!EarlyRun, Unordered!After, Unordered!Lose,
      Unordered!userVars, Unordered!flagVars, Unordered!windowVars,
      Unordered!receiverVars, Unordered!vars, UnorderedP!Next,
      UnorderedP!User, UnorderedP!Sender, UnorderedP!Wire, UnorderedP!Enqueue,
      UnorderedP!Flag, UnorderedP!TestFlush, UnorderedP!ClearFlush,
      UnorderedP!StoredSlots, UnorderedP!NoMessage, UnorderedP!Slot,
      UnorderedP!SeqNr, UnorderedP!SendQueuedMessages, UnorderedP!SendCount,
      UnorderedP!GetAllowedSends, UnorderedP!SendNr, UnorderedP!Sent,
      UnorderedP!Alive, UnorderedP!NeedToSendMessages,
      UnorderedP!ReceiveAcknowledge, UnorderedP!AcknowledgeOnTime,
      UnorderedP!AcknowledgeEarly, UnorderedP!Holes,
      UnorderedP!RelativeSequenceNumber, UnorderedP!RunLength,
      UnorderedP!ReceiveMessage, UnorderedP!ReceiveOrdered,
      UnorderedP!ReceiveUnordered, UnorderedP!ReceiveSequenced,
      UnorderedP!Advance, UnorderedP!EarlyRun, UnorderedP!After,
      UnorderedP!Lose, UnorderedP!userVars, UnorderedP!flagVars,
      UnorderedP!windowVars, UnorderedP!receiverVars, UnorderedP!vars
<1>7. UnorderedP!KeptUntilThrough => Unordered!KeptUntilThrough
  BY DEF Unordered!KeptUntilThrough, Unordered!GotThrough, Unordered!Slot,
         UnorderedP!KeptUntilThrough, UnorderedP!GotThrough, UnorderedP!Slot
<1>8. UnorderedP!NeverTooEarly => Unordered!NeverTooEarly
  BY DEF Unordered!NeverTooEarly, Unordered!RelativeSequenceNumber,
         UnorderedP!NeverTooEarly, UnorderedP!RelativeSequenceNumber
<1>9. UnorderedP!StoredIsWindow => Unordered!StoredIsWindow
  BY DEF Unordered!StoredIsWindow, Unordered!Window, Unordered!StoredSlots,
         Unordered!Slot, Unordered!NoMessage, Unordered!GetAllowedSends,
         UnorderedP!StoredIsWindow, UnorderedP!Window, UnorderedP!StoredSlots,
         UnorderedP!Slot, UnorderedP!NoMessage, UnorderedP!GetAllowedSends
<1>10. UnorderedP!Channel!Init => Unordered!Channel!Init
  BY DEF Unordered!Channel!Init, UnorderedP!Channel!Init
<1>11. [UnorderedP!Channel!Next]_<<accepted, released>>
        => [Unordered!Channel!Next]_<<accepted, released>>
  BY DEF Unordered!Channel!Next, Unordered!Channel!Accept,
         Unordered!Channel!Release, Unordered!Channel!Promised,
         UnorderedP!Channel!Next, UnorderedP!Channel!Accept,
         UnorderedP!Channel!Release, UnorderedP!Channel!Promised
<1> QED
  BY <1>1, <1>2, <1>3, <1>4, <1>5, <1>6, <1>7, <1>8, <1>9, <1>10, <1>11, PTL
  DEF Unordered!Spec, Unordered!KeepsPromise, Unordered!Channel!Spec,
      UnorderedP!Spec, UnorderedP!KeepsPromise, UnorderedP!Channel!Spec

\* What ReliableChannelProofs shows of the sequenced channel, of the channel here: the
\* definitions are the same.
LEMMA SequencedTheorems ==
    Sequenced!Spec => /\ [](Sequenced!KeptUntilThrough /\ Sequenced!NeverTooEarly /\ Sequenced!StoredIsWindow)
                      /\ Sequenced!KeepsPromise
<1>1. SequencedP!Spec => []SequencedP!KeptUntilThrough
  BY SequencedP!ForgottenOnlyWhenThrough, WindowAssumption, LifetimeAssumption, BoundAssumption
  DEF SequencedP!MethodAssumption, SequencedP!WindowAssumption, SequencedP!LifetimeAssumption,
      SequencedP!BoundAssumption
<1>2. SequencedP!Spec => []SequencedP!NeverTooEarly
  BY SequencedP!NothingTooEarly, WindowAssumption, LifetimeAssumption, BoundAssumption
  DEF SequencedP!MethodAssumption, SequencedP!WindowAssumption, SequencedP!LifetimeAssumption,
      SequencedP!BoundAssumption
<1>3. SequencedP!Spec => []SequencedP!StoredIsWindow
  BY SequencedP!SlotsMatchWindow, WindowAssumption, LifetimeAssumption, BoundAssumption
  DEF SequencedP!MethodAssumption, SequencedP!WindowAssumption, SequencedP!LifetimeAssumption,
      SequencedP!BoundAssumption
<1>4. SequencedP!Spec => SequencedP!KeepsPromise
  BY SequencedP!ReliableKeepsPromise, WindowAssumption, LifetimeAssumption, BoundAssumption
  DEF SequencedP!MethodAssumption, SequencedP!WindowAssumption, SequencedP!LifetimeAssumption,
      SequencedP!BoundAssumption
<1>5. Sequenced!Init => SequencedP!Init
  BY DEF Sequenced!Init, Sequenced!Slot, Sequenced!NoMessage, SequencedP!Init,
      SequencedP!Slot, SequencedP!NoMessage
<1>6. [Sequenced!Next]_Sequenced!vars => [SequencedP!Next]_SequencedP!vars
  BY Zenon DEF
      Sequenced!Next, Sequenced!User, Sequenced!Sender, Sequenced!Wire,
      Sequenced!Enqueue, Sequenced!Flag, Sequenced!TestFlush,
      Sequenced!ClearFlush, Sequenced!StoredSlots, Sequenced!NoMessage,
      Sequenced!Slot, Sequenced!SeqNr, Sequenced!SendQueuedMessages,
      Sequenced!SendCount, Sequenced!GetAllowedSends, Sequenced!SendNr,
      Sequenced!Sent, Sequenced!Alive, Sequenced!NeedToSendMessages,
      Sequenced!ReceiveAcknowledge, Sequenced!AcknowledgeOnTime,
      Sequenced!AcknowledgeEarly, Sequenced!Holes,
      Sequenced!RelativeSequenceNumber, Sequenced!RunLength,
      Sequenced!ReceiveMessage, Sequenced!ReceiveOrdered,
      Sequenced!ReceiveUnordered, Sequenced!ReceiveSequenced,
      Sequenced!Advance, Sequenced!EarlyRun, Sequenced!After, Sequenced!Lose,
      Sequenced!userVars, Sequenced!flagVars, Sequenced!windowVars,
      Sequenced!receiverVars, Sequenced!vars, SequencedP!Next,
      SequencedP!User, SequencedP!Sender, SequencedP!Wire, SequencedP!Enqueue,
      SequencedP!Flag, SequencedP!TestFlush, SequencedP!ClearFlush,
      SequencedP!StoredSlots, SequencedP!NoMessage, SequencedP!Slot,
      SequencedP!SeqNr, SequencedP!SendQueuedMessages, SequencedP!SendCount,
      SequencedP!GetAllowedSends, SequencedP!SendNr, SequencedP!Sent,
      SequencedP!Alive, SequencedP!NeedToSendMessages,
      SequencedP!ReceiveAcknowledge, SequencedP!AcknowledgeOnTime,
      SequencedP!AcknowledgeEarly, SequencedP!Holes,
      SequencedP!RelativeSequenceNumber, SequencedP!RunLength,
      SequencedP!ReceiveMessage, SequencedP!ReceiveOrdered,
      SequencedP!ReceiveUnordered, SequencedP!ReceiveSequenced,
      SequencedP!Advance, SequencedP!EarlyRun, SequencedP!After,
      SequencedP!Lose, SequencedP!userVars, SequencedP!flagVars,
      SequencedP!windowVars, SequencedP!receiverVars, SequencedP!vars
<1>7. SequencedP!KeptUntilThrough => Sequenced!KeptUntilThrough
  BY DEF Sequenced!KeptUntilThrough, Sequenced!GotThrough, Sequenced!Slot,
         SequencedP!KeptUntilThrough, SequencedP!GotThrough, SequencedP!Slot
<1>8. SequencedP!NeverTooEarly => Sequenced!NeverTooEarly
  BY DEF Sequenced!NeverTooEarly, Sequenced!RelativeSequenceNumber,
         SequencedP!NeverTooEarly, SequencedP!RelativeSequenceNumber
<1>9. SequencedP!StoredIsWindow => Sequenced!StoredIsWindow
  BY DEF Sequenced!StoredIsWindow, Sequenced!Window, Sequenced!StoredSlots,
         Sequenced!Slot, Sequenced!NoMessage, Sequenced!GetAllowedSends,
         SequencedP!StoredIsWindow, SequencedP!Window, SequencedP!StoredSlots,
         SequencedP!Slot, SequencedP!NoMessage, SequencedP!GetAllowedSends
<1>10. SequencedP!Channel!Init => Sequenced!Channel!Init
  BY DEF Sequenced!Channel!Init, SequencedP!Channel!Init
<1>11. [SequencedP!Channel!Next]_<<accepted, released>>
        => [Sequenced!Channel!Next]_<<accepted, released>>
  BY DEF Sequenced!Channel!Next, Sequenced!Channel!Accept,
         Sequenced!Channel!Release, Sequenced!Channel!Promised,
         SequencedP!Channel!Next, SequencedP!Channel!Accept,
         SequencedP!Channel!Release, SequencedP!Channel!Promised
<1> QED
  BY <1>1, <1>2, <1>3, <1>4, <1>5, <1>6, <1>7, <1>8, <1>9, <1>10, <1>11, PTL
  DEF Sequenced!Spec, Sequenced!KeepsPromise, Sequenced!Channel!Spec,
      SequencedP!Spec, SequencedP!KeepsPromise, SequencedP!Channel!Spec

-----------------------------------------------------------------------------
\* Remainders, as ReliableChannelProofs has them.

\* A number is a multiple of n and its remainder.
LEMMA DivisionOfInt ==
    ASSUME NEW n \in Nat \ {0}, NEW a \in Int
    PROVE  /\ a % n \in 0 .. n - 1 /\ (a \div n) \in Int
           /\ a = n * (a \div n) + (a % n)
BY SMT

\* There is only one such remainder.
LEMMA RemainderUnique ==
    ASSUME NEW n \in Nat \ {0}, NEW a \in Int, NEW q \in Int, NEW r \in 0 .. n - 1,
           a = n * q + r
    PROVE  a % n = r
BY OrderedP!RemainderUnique, WindowAssumption, LifetimeAssumption, BoundAssumption, Zenon
DEF OrderedP!MethodAssumption, OrderedP!WindowAssumption, OrderedP!LifetimeAssumption,
    OrderedP!BoundAssumption

\* Remainders may be taken before adding.
LEMMA RemainderOfSum ==
    ASSUME NEW n \in Nat \ {0}, NEW a \in Int, NEW b \in Int
    PROVE  ((a % n) + b) % n = (a + b) % n
BY OrderedP!RemainderOfSum, WindowAssumption, LifetimeAssumption, BoundAssumption, Zenon
DEF OrderedP!MethodAssumption, OrderedP!WindowAssumption, OrderedP!LifetimeAssumption,
    OrderedP!BoundAssumption

\* Remainders may be taken before subtracting.
LEMMA RemainderOfDifference ==
    ASSUME NEW n \in Nat \ {0}, NEW a \in Int, NEW b \in Int, NEW c \in Int
    PROVE  ((a % n) - (b % n) + c) % n = (a - b + c) % n
BY OrderedP!RemainderOfDifference, WindowAssumption, LifetimeAssumption, BoundAssumption, Zenon
DEF OrderedP!MethodAssumption, OrderedP!WindowAssumption, OrderedP!LifetimeAssumption,
    OrderedP!BoundAssumption

-----------------------------------------------------------------------------
\* The two unreliable channels.  They are the same but for the method and the
\* bounds; the steps are followed as those of Updates.

\* The server asks Unreliable of both, and the sequence channel decides.
LEMMA MethodsOfStreams ==
    Positions!Method = "Unreliable" /\ Updates!Method = "UnreliableSequenced"
<1> DEFINE N == [Unreliable |-> 1, UnreliableSequenced |-> 2, ReliableUnordered |-> 34,
                 ReliableSequenced |-> 35, ReliableOrdered |-> 67]
           D == {"Unreliable", "UnreliableSequenced", "ReliableUnordered",
                 "ReliableSequenced", "ReliableOrdered"}
           Best(m, tp) == N[m] <= tp /\ \A n \in D : N[n] <= tp => N[n] <= N[m]
<1>1. /\ DOMAIN N = D
      /\ N["Unreliable"] = 1 /\ N["UnreliableSequenced"] = 2 /\ N["ReliableUnordered"] = 34
      /\ N["ReliableSequenced"] = 35 /\ N["ReliableOrdered"] = 67
  OBVIOUS
<1> HIDE DEF N
<1>2. Best("Unreliable", 1) /\ \A m \in D : Best(m, 1) => m = "Unreliable"
  BY <1>1
<1>3. Best("UnreliableSequenced", 2) /\ \A m \in D : Best(m, 2) => m = "UnreliableSequenced"
  BY <1>1
<1>4. Positions!GetDeliveryMethod(1) = CHOOSE m \in D : Best(m, 1)
  BY <1>1, Zenon DEF Positions!GetDeliveryMethod, Positions!MethodNumber, N
<1>5. Updates!GetDeliveryMethod(2) = CHOOSE m \in D : Best(m, 2)
  BY <1>1, Zenon DEF Updates!GetDeliveryMethod, Updates!MethodNumber, N
<1>6. Positions!MessageType("Unreliable", 0) = 1 /\ Updates!MessageType("Unreliable", 1) = 2
  BY DEF Positions!MessageType, Updates!MessageType, Positions!MethodNumber, Updates!MethodNumber
<1> HIDE DEF Best
<1>7. "Unreliable" \in D /\ "UnreliableSequenced" \in D
  OBVIOUS
<1> HIDE DEF D
<1>8. Positions!GetDeliveryMethod(1) = "Unreliable"
  BY <1>2, <1>4, <1>7
<1>9. Updates!GetDeliveryMethod(2) = "UnreliableSequenced"
  BY <1>3, <1>5, <1>7
<1> QED BY <1>6, <1>8, <1>9 DEF Positions!Method, Updates!Method

\* What both channels keep.
Stream == Updates!NumbersInv /\ Updates!QueueInv /\ Updates!WireInv /\ Updates!ReleasedInv

\* The constants, as numbers.
LEMMA StreamSizes ==
    /\ NumSequenceNumbers \in Nat \ {0} /\ WindowSize \in Nat \ {0} /\ Lifetime \in Nat
    /\ (NumSequenceNumbers \div 2) \in Nat /\ Lifetime <= NumSequenceNumbers \div 2
    /\ NumSequenceNumbers \div 2 < NumSequenceNumbers
<1>1. /\ NumSequenceNumbers \in Nat \ {0} /\ WindowSize \in Nat \ {0} /\ Lifetime \in Nat
      /\ 2 * Lifetime <= NumSequenceNumbers
  BY WindowAssumption, LifetimeAssumption
<1>2. /\ (NumSequenceNumbers \div 2) \in Int
      /\ NumSequenceNumbers = 2 * (NumSequenceNumbers \div 2) + (NumSequenceNumbers % 2)
      /\ NumSequenceNumbers % 2 \in 0 .. 1
  BY <1>1
<1> QED BY <1>1, <1>2

\* What was sent and what is queued, as numbers.
LEMMA StreamSent ==
    ASSUME Updates!NumbersInv, Updates!QueueInv
    PROVE  /\ Len(queuedSends) \in Nat /\ DOMAIN queuedSends = 1 .. Len(queuedSends)
           /\ Updates!Sent \in Nat /\ accepted \in Nat
           /\ accepted = Updates!Sent + Len(queuedSends)
<1>1. /\ Len(queuedSends) \in Nat /\ DOMAIN queuedSends = 1 .. Len(queuedSends)
      /\ accepted \in Nat /\ Len(queuedSends) <= accepted
  BY DEF Updates!NumbersInv, Updates!QueueInv
<1> QED BY <1>1 DEF Updates!Sent

\* Losses never shut the sender: the window is measured modulo its size.
LEMMA RoomForOne ==
    ASSUME Updates!NumbersInv, Updates!QueueInv
    PROVE  Updates!GetAllowedSends \in 1 .. WindowSize
<1>1. /\ NumSequenceNumbers \in Nat \ {0} /\ WindowSize \in Nat \ {0}
      /\ sendStart \in Int /\ windowStart \in Int
  <2>1. Updates!Sent \in Int /\ NumSequenceNumbers \in Nat \ {0} /\ WindowSize \in Nat \ {0}
    BY StreamSent, StreamSizes
  <2>2. Updates!Sent % NumSequenceNumbers \in Int
    BY <2>1, DivisionOfInt
  <2> QED BY <2>1, <2>2 DEF Updates!NumbersInv, Updates!QueueInv
<1>2. (sendStart + NumSequenceNumbers) - windowStart \in Int
  BY <1>1
<1>3. ((sendStart + NumSequenceNumbers) - windowStart) % WindowSize \in 0 .. WindowSize - 1
  BY <1>1, <1>2, DivisionOfInt
<1> QED BY <1>1, <1>3 DEF Updates!GetAllowedSends

\* A step of either, as far as Stream is concerned.
StreamReceive(d) ==
    /\ d \in data
    /\ acks' = acks \cup {d}
    /\ \/ expected' \in {expected, d.seq} /\ released' = Append(released, d.msg)
       \/ expected' = expected /\ released' = released
    /\ UNCHANGED <<accepted, queuedSends, windowStart, sendStart, data>>

StreamQuiet ==
    UNCHANGED <<accepted, queuedSends, windowStart, sendStart, data, acks, expected, released>>

StreamStep ==
    \/ StreamQuiet
    \/ Updates!Enqueue
    \/ Updates!SendQueuedMessages
    \/ \E a \in acks : Updates!ReceiveAcknowledge(a)
    \/ \E d \in data : StreamReceive(d)
    \/ \E d \in data \cup acks : Updates!Lose(d)

\* Every step of the channel for players is one.
LEMMA UpdatesStep == [Updates!Next]_Updates!vars => StreamStep
<1> SUFFICES ASSUME [Updates!Next]_Updates!vars PROVE StreamStep
  OBVIOUS
<1>1. CASE UNCHANGED Updates!vars
  BY <1>1 DEF StreamStep, StreamQuiet, Updates!vars
<1>2. CASE \/ Updates!Admit \/ Updates!Flag \/ Updates!TestFlush \/ Updates!ClearFlush
  <2>1. StreamQuiet
    BY <1>2 DEF StreamQuiet, Updates!Admit, Updates!Flag, Updates!TestFlush,
                Updates!ClearFlush, Updates!receiverVars, Updates!userVars
  <2> QED BY <2>1 DEF StreamStep
<1>3. CASE \E d \in data : Updates!ReceiveMessage(d)
  <2>1. PICK d \in data : Updates!ReceiveMessage(d)
    BY <1>3
  <2>2. StreamReceive(d)
    BY <2>1 DEF StreamReceive, Updates!ReceiveMessage, Updates!userVars, Updates!receiverVars
  <2> QED BY <2>2 DEF StreamStep
<1> QED
  BY <1>1, <1>2, <1>3 DEF StreamStep, Updates!Next, Updates!User, Updates!Sender, Updates!Wire

\* And so is every step of the channel for driverless vehicles.
LEMMA PositionsStep == [Positions!Next]_Positions!vars => StreamStep
<1> SUFFICES ASSUME [Positions!Next]_Positions!vars PROVE StreamStep
  OBVIOUS
<1>1. CASE UNCHANGED Positions!vars
  BY <1>1 DEF StreamStep, StreamQuiet, Positions!vars
<1>2. CASE \/ Positions!Admit \/ Positions!Flag \/ Positions!TestFlush \/ Positions!ClearFlush
  <2>1. StreamQuiet
    BY <1>2 DEF StreamQuiet, Positions!Admit, Positions!Flag, Positions!TestFlush,
                Positions!ClearFlush, Positions!receiverVars, Positions!userVars
  <2> QED BY <2>1 DEF StreamStep
<1>3. CASE \E d \in data : Positions!ReceiveMessage(d)
  <2>1. PICK d \in data : Positions!ReceiveMessage(d)
    BY <1>3
  <2>2. StreamReceive(d)
    BY <2>1 DEF StreamReceive, Positions!ReceiveMessage, Positions!userVars, Positions!receiverVars
  <2> QED BY <2>2 DEF StreamStep
<1>4. Positions!Enqueue => Updates!Enqueue
  BY DEF Positions!Enqueue, Updates!Enqueue, Positions!flagVars, Updates!flagVars,
         Positions!receiverVars, Updates!receiverVars
<1>5. Positions!SendQueuedMessages => Updates!SendQueuedMessages
  BY Zenon DEF Positions!SendQueuedMessages, Updates!SendQueuedMessages,
         Positions!GetAllowedSends, Updates!GetAllowedSends, Positions!Alive, Updates!Alive,
         Positions!Sent, Updates!Sent, Positions!userVars, Updates!userVars,
         Positions!receiverVars, Updates!receiverVars
<1>6. ASSUME NEW a, Positions!ReceiveAcknowledge(a) PROVE Updates!ReceiveAcknowledge(a)
  BY <1>6, Zenon DEF Positions!ReceiveAcknowledge, Updates!ReceiveAcknowledge,
         Positions!RelativeSequenceNumber, Updates!RelativeSequenceNumber,
         Positions!userVars, Updates!userVars, Positions!flagVars, Updates!flagVars,
         Positions!receiverVars, Updates!receiverVars
<1>7. ASSUME NEW d, Positions!Lose(d) PROVE Updates!Lose(d)
  BY <1>7, Zenon DEF Positions!Lose, Updates!Lose, Positions!userVars, Updates!userVars,
         Positions!flagVars, Updates!flagVars, Positions!receiverVars, Updates!receiverVars
<1> QED
  BY <1>1, <1>2, <1>3, <1>4, <1>5, <1>6, <1>7
  DEF StreamStep, Positions!Next, Positions!User, Positions!Sender, Positions!Wire

-----------------------------------------------------------------------------
\* Stream lasts.

\* It holds at the start.
LEMMA StreamInitially == Updates!Init => Stream
BY StreamSizes, RemainderUnique DEF Updates!Init, Stream, Updates!NumbersInv,
   Updates!QueueInv, Updates!WireInv, Updates!ReleasedInv, Updates!Sent

\* Enqueue puts the next message at the end of the queue.
LEMMA EnqueueStream == Stream /\ Updates!Enqueue => Stream'
<1> SUFFICES ASSUME Stream, Updates!Enqueue PROVE Stream'
  OBVIOUS
<1> DEFINE n == Len(queuedSends)
<1>1. /\ accepted' = accepted + 1 /\ queuedSends' = Append(queuedSends, accepted + 1)
      /\ UNCHANGED <<windowStart, sendStart, data, acks, expected, released>>
  BY DEF Updates!Enqueue, Updates!receiverVars
<1>2. /\ n \in Nat /\ DOMAIN queuedSends = 1 .. n /\ accepted \in Nat
      /\ Updates!Sent \in Nat /\ accepted = Updates!Sent + n
      /\ queuedSends \in Seq(Nat) /\ n <= accepted
      /\ \A i \in 1 .. n : queuedSends[i] = Updates!Sent + i
  BY StreamSent DEF Stream, Updates!NumbersInv, Updates!QueueInv
<1>3. /\ queuedSends' \in Seq(Nat) /\ Len(queuedSends') = n + 1
      /\ DOMAIN queuedSends' = 1 .. n + 1
      /\ queuedSends'[n + 1] = accepted + 1
      /\ \A i \in 1 .. n : queuedSends'[i] = queuedSends[i]
  BY <1>1, <1>2
<1>4. Updates!Sent' = Updates!Sent
  BY <1>1, <1>2, <1>3 DEF Updates!Sent
<1>5. Updates!NumbersInv'
  BY <1>1, <1>2, <1>3 DEF Stream, Updates!NumbersInv
<1>6. Updates!QueueInv'
  <2>1. ASSUME NEW i \in DOMAIN queuedSends' PROVE queuedSends'[i] = Updates!Sent + i
    <3> HIDE DEF n
    <3>1. CASE i \in 1 .. n
      BY <1>2, <1>3, <3>1
    <3>2. CASE i = n + 1
      BY <1>2, <1>3, <3>2
    <3> QED BY <1>2, <1>3, <3>1, <3>2
  <2>2. sendStart' = Updates!Sent % NumSequenceNumbers /\ n + 1 <= accepted + 1
    BY <1>1, <1>2 DEF Stream, Updates!QueueInv
  <2> QED BY <1>1, <1>3, <1>4, <2>1, <2>2 DEF Updates!QueueInv
<1>7. Updates!WireInv'
  BY <1>1, <1>4 DEF Stream, Updates!WireInv, Updates!Number
<1>8. Updates!ReleasedInv'
  BY <1>1, <1>4 DEF Stream, Updates!ReleasedInv
<1> QED BY <1>5, <1>6, <1>7, <1>8 DEF Stream

\* SendQueuedMessages sends from the head of the queue, under the next numbers, and
\* the wire gives up what has become too old.
LEMMA SendStream == Stream /\ Updates!SendQueuedMessages => Stream'
<1> SUFFICES ASSUME Stream, Updates!SendQueuedMessages PROVE Stream'
  OBVIOUS
<1> DEFINE n == Len(queuedSends)
           N == NumSequenceNumbers
           s == Updates!Sent
           num == IF Updates!GetAllowedSends < n THEN Updates!GetAllowedSends ELSE n
           sends == {[seq |-> (sendStart + j - 1) % N, msg |-> queuedSends[j]] : j \in 1 .. num}
<1>1. /\ n \in Nat /\ DOMAIN queuedSends = 1 .. n /\ accepted \in Nat
      /\ s \in Nat /\ accepted = s + n
      /\ queuedSends \in Seq(Nat) /\ n <= accepted
      /\ \A i \in 1 .. n : queuedSends[i] = s + i
      /\ sendStart = s % N
  BY StreamSent DEF Stream, Updates!NumbersInv, Updates!QueueInv
<1>2. num \in 0 .. n
  BY <1>1, RoomForOne, StreamSizes DEF Stream
<1>3. /\ sendStart' = (sendStart + num) % N
      /\ queuedSends' = SubSeq(queuedSends, num + 1, n)
      /\ data' = Updates!Alive(data \cup sends, s + num)
      /\ acks' = Updates!Alive(acks, s + num)
      /\ UNCHANGED <<accepted, windowStart, expected, released>>
  BY Zenon DEF Updates!SendQueuedMessages, Updates!receiverVars, Updates!userVars
<1> HIDE DEF num
<1>4. /\ queuedSends' \in Seq(Nat) /\ Len(queuedSends') = n - num
      /\ DOMAIN queuedSends' = 1 .. n - num
      /\ \A i \in 1 .. n - num : queuedSends'[i] = s + num + i
  <2>1. queuedSends' \in Seq(Nat) /\ Len(queuedSends') = n - num
        /\ \A i \in 1 .. n - num : queuedSends'[i] = queuedSends[num + i]
    <3>1. /\ num + 1 \in Int /\ n \in Int
          /\ \A i \in num + 1 .. n : queuedSends[i] \in Nat
      BY <1>1, <1>2
    <3>2. /\ queuedSends' \in Seq(Nat)
          /\ Len(queuedSends') = IF num + 1 <= n THEN n - (num + 1) + 1 ELSE 0
          /\ \A i \in 1 .. n - (num + 1) + 1 : queuedSends'[i] = queuedSends[(num + 1) + i - 1]
      BY <1>3, <3>1, SubSeqProperties
    <3> HIDE DEF n
    <3>3. n - (num + 1) + 1 = n - num /\ \A i \in Int : (num + 1) + i - 1 = num + i
      BY <1>1, <1>2
    <3> QED BY <1>1, <1>2, <3>2, <3>3
  <2> HIDE DEF n
  <2>2. DOMAIN queuedSends' = 1 .. n - num
    BY <2>1
  <2>3. ASSUME NEW i \in 1 .. n - num PROVE queuedSends'[i] = s + num + i
    <3>1. queuedSends'[i] = queuedSends[num + i]
      BY <2>1
    <3>2. num + i \in 1 .. n
      BY <1>1, <1>2
    <3>3. queuedSends[num + i] = s + (num + i)
      BY <1>1, <3>2
    <3> QED BY <1>1, <1>2, <3>1, <3>3
  <2> QED BY <2>1, <2>2, <2>3
<1>5. Updates!Sent' = s + num
  <2>1. Updates!Sent' = accepted - (n - num)
    BY <1>3, <1>4 DEF Updates!Sent
  <2> HIDE DEF n, s
  <2> QED BY <1>1, <1>2, <2>1
<1>6. \A d \in sends : /\ d.seq \in Int /\ d.msg \in s + 1 .. s + num
                       /\ d.seq = Updates!Number(d.msg)
  <2> SUFFICES ASSUME NEW j \in 1 .. num
               PROVE  /\ (sendStart + j - 1) % N \in Int
                      /\ queuedSends[j] \in s + 1 .. s + num
                      /\ (sendStart + j - 1) % N = Updates!Number(queuedSends[j])
    OBVIOUS
  <2>1. queuedSends[j] = s + j
    BY <1>1, <1>2
  <2>2. (sendStart + (j - 1)) % N = (s + (j - 1)) % N
    <3> HIDE DEF s
    <3>1. s \in Int /\ j - 1 \in Int /\ N \in Nat \ {0}
      BY <1>1, <1>2, StreamSizes
    <3>2. ((s % N) + (j - 1)) % N = (s + (j - 1)) % N
      BY <3>1, RemainderOfSum, Zenon
    <3> QED BY <1>1, <3>2, Zenon
  <2>3. sendStart \in Int /\ (s + (j - 1)) % N \in Int
    BY <1>1, StreamSizes, DivisionOfInt
  <2>4. sendStart + j - 1 = sendStart + (j - 1) /\ (s + j) - 1 = s + (j - 1)
    BY <1>1, <2>3
  <2> QED BY <1>1, <1>2, <2>1, <2>2, <2>3, <2>4 DEF Updates!Number
<1>7. \A d \in data' \cup acks' :
          d \in data \cup acks \/ (d \in sends /\ d \in data')
  BY <1>3 DEF Updates!Alive
<1>8. \A d \in data' : s + num < d.msg + Lifetime /\ (d \in data \/ d \in sends)
  BY <1>3 DEF Updates!Alive
<1> HIDE DEF sends
<1>9. Updates!NumbersInv'
  <2>1. \A d \in data' \cup acks' : d.seq \in Int /\ d.msg \in Nat
    BY <1>1, <1>2, <1>6, <1>7 DEF Stream, Updates!NumbersInv
  <2>2. /\ accepted' \in Nat /\ queuedSends' \in Seq(Nat) /\ released' \in Seq(Nat)
        /\ windowStart' \in Int /\ expected' \in Int
    BY <1>3, <1>4 DEF Stream, Updates!NumbersInv
  <2> QED BY <2>1, <2>2 DEF Updates!NumbersInv
<1>10. Updates!QueueInv'
  <2>1. sendStart' = (s + num) % N
    <3> HIDE DEF s
    <3>1. s \in Int /\ num \in Int /\ N \in Nat \ {0}
      BY <1>1, <1>2, StreamSizes
    <3>2. ((s % N) + num) % N = (s + num) % N
      BY <3>1, RemainderOfSum, Zenon
    <3> QED BY <1>1, <1>3, <3>2, Zenon
  <2>2. Len(queuedSends') <= accepted'
    <3> HIDE DEF n, s
    <3> QED BY <1>1, <1>2, <1>3, <1>4
  <2>3. \A i \in DOMAIN queuedSends' : queuedSends'[i] = Updates!Sent' + i
    BY <1>4, <1>5
  <2> QED BY <1>5, <2>1, <2>2, <2>3 DEF Updates!QueueInv
<1>11. Updates!WireInv'
  <2> SUFFICES ASSUME NEW d \in data'
               PROVE  /\ d.msg \in 1 .. s + num /\ s + num < d.msg + Lifetime
                      /\ d.seq = Updates!Number(d.msg)
    BY <1>5 DEF Updates!WireInv, Updates!Number
  <2>1. CASE d \in data
    <3>1. d.msg \in 1 .. s /\ d.seq = Updates!Number(d.msg)
      BY <2>1 DEF Stream, Updates!WireInv
    <3> QED BY <1>1, <1>2, <1>8, <3>1
  <2>2. CASE d \in sends
    BY <1>1, <1>2, <1>6, <1>8, <2>2
  <2> QED BY <1>8, <2>1, <2>2
<1>12. Updates!ReleasedInv'
  <2> SUFFICES ASSUME NEW i \in DOMAIN released PROVE released[i] \in 1 .. s + num
    BY <1>3, <1>5 DEF Updates!ReleasedInv
  <2>1. released[i] \in 1 .. s
    BY DEF Stream, Updates!ReleasedInv
  <2> QED BY <1>1, <1>2, <2>1
<1> QED BY <1>9, <1>10, <1>11, <1>12 DEF Stream

\* An acknowledgement only moves the window.
LEMMA AcknowledgeStream ==
    ASSUME Stream, NEW a \in acks, Updates!ReceiveAcknowledge(a)
    PROVE  Stream'
<1>1. UNCHANGED <<accepted, queuedSends, sendStart, data, acks, expected, released>>
  BY DEF Updates!ReceiveAcknowledge, Updates!userVars, Updates!flagVars, Updates!receiverVars
<1>2. windowStart' \in Int
  <2>1. a.seq \in Int /\ windowStart \in Int
    BY DEF Stream, Updates!NumbersInv
  <2>2. (windowStart + 1) % NumSequenceNumbers \in Int
    BY <2>1, StreamSizes, DivisionOfInt, windowStart + 1 \in Int
  <2> QED BY <2>1, <2>2 DEF Updates!ReceiveAcknowledge
<1> QED BY <1>1, <1>2 DEF Stream, Updates!NumbersInv, Updates!QueueInv, Updates!WireInv,
      Updates!ReleasedInv, Updates!Sent, Updates!Number

\* A loss only takes away.
LEMMA LossStream ==
    ASSUME Stream, NEW d \in data \cup acks, Updates!Lose(d)
    PROVE  Stream'
<1>1. UNCHANGED <<accepted, queuedSends, windowStart, sendStart, expected, released>>
  BY DEF Updates!Lose, Updates!userVars, Updates!receiverVars
<1>2. data' \subseteq data /\ acks' \subseteq acks
  BY DEF Updates!Lose
<1> QED BY <1>1, <1>2 DEF Stream, Updates!NumbersInv, Updates!QueueInv, Updates!WireInv,
      Updates!ReleasedInv, Updates!Sent, Updates!Number

\* A message that is released had been sent.
LEMMA ReceiveStream ==
    ASSUME Stream, NEW d \in data, StreamReceive(d)
    PROVE  Stream'
<1>1. /\ acks' = acks \cup {d}
      /\ UNCHANGED <<accepted, queuedSends, windowStart, sendStart, data>>
  BY DEF StreamReceive
<1>2. /\ d.seq \in Int /\ d.msg \in Nat /\ expected \in Int
      /\ released \in Seq(Nat) /\ d.msg \in 1 .. Updates!Sent
      /\ \A i \in DOMAIN released : released[i] \in 1 .. Updates!Sent
  BY DEF Stream, Updates!NumbersInv, Updates!WireInv, Updates!ReleasedInv
<1>3. Updates!Sent' = Updates!Sent
  BY <1>1 DEF Updates!Sent
<1>4. /\ expected' \in Int /\ released' \in Seq(Nat)
      /\ \A i \in DOMAIN released' : released'[i] \in 1 .. Updates!Sent
  <2>1. CASE expected' = expected /\ released' = released
    BY <1>2, <2>1
  <2>2. CASE expected' \in {expected, d.seq} /\ released' = Append(released, d.msg)
    BY <1>2, <2>2
  <2> QED BY <2>1, <2>2 DEF StreamReceive
<1>5. Updates!NumbersInv'
  BY <1>1, <1>4 DEF Stream, Updates!NumbersInv
<1>6. Updates!QueueInv' /\ Updates!WireInv'
  BY <1>1, <1>3 DEF Stream, Updates!QueueInv, Updates!WireInv, Updates!Number
<1>7. Updates!ReleasedInv'
  BY <1>3, <1>4 DEF Updates!ReleasedInv
<1> QED BY <1>5, <1>6, <1>7 DEF Stream

\* So every step keeps it.
LEMMA StreamLasts == Stream /\ StreamStep => Stream'
<1>1. Stream /\ StreamQuiet => Stream'
  BY DEF StreamQuiet, Stream, Updates!NumbersInv, Updates!QueueInv, Updates!WireInv,
      Updates!ReleasedInv, Updates!Sent, Updates!Number
<1> QED
  BY <1>1, EnqueueStream, SendStream, AcknowledgeStream, ReceiveStream, LossStream DEF StreamStep

-----------------------------------------------------------------------------
\* What the streams give to the application.

\* A step accepts a message, or releases one that had been sent, or neither.
LEMMA StreamOutput ==
    ASSUME Stream, StreamStep
    PROVE  \/ accepted' = accepted + 1 /\ UNCHANGED released
           \/ UNCHANGED <<accepted, released>>
           \/ /\ released' # released /\ UNCHANGED accepted
              /\ SubSeq(released', 1, Len(released)) = released
              /\ \A i \in DOMAIN released' : released'[i] \in 1 .. accepted
<1>1. CASE StreamQuiet
  BY <1>1 DEF StreamQuiet
<1>2. CASE Updates!Enqueue
  BY <1>2 DEF Updates!Enqueue, Updates!receiverVars
<1>3. CASE Updates!SendQueuedMessages
  BY <1>3 DEF Updates!SendQueuedMessages, Updates!userVars, Updates!receiverVars
<1>4. CASE \E a \in acks : Updates!ReceiveAcknowledge(a)
  BY <1>4 DEF Updates!ReceiveAcknowledge, Updates!userVars, Updates!receiverVars
<1>5. CASE \E d \in data \cup acks : Updates!Lose(d)
  BY <1>5 DEF Updates!Lose, Updates!userVars, Updates!receiverVars
<1>6. ASSUME NEW d \in data, StreamReceive(d), released' = Append(released, d.msg)
      PROVE  /\ released' # released
             /\ SubSeq(released', 1, Len(released)) = released
             /\ \A i \in DOMAIN released' : released'[i] \in 1 .. accepted
  <2>1. /\ released \in Seq(Nat) /\ d.msg \in Nat
        /\ Updates!Sent \in Nat /\ Updates!Sent <= accepted /\ accepted \in Nat
    BY StreamSent DEF Stream, Updates!NumbersInv
  <2>2. Stream'
    BY <1>6, ReceiveStream
  <2>3. Updates!Sent' = Updates!Sent
    BY <1>6 DEF StreamReceive, Updates!Sent
  <2>4. \A i \in DOMAIN released' : released'[i] \in 1 .. accepted
    BY <2>1, <2>2, <2>3 DEF Stream, Updates!ReleasedInv
  <2>5. Len(released') = Len(released) + 1 /\ Len(released) \in Nat
    BY <1>6, <2>1
  <2>6. SubSeq(released', 1, Len(released)) = released
    BY <1>6, <2>1, AppendProperties
  <2> QED BY <2>4, <2>5, <2>6
<1>7. CASE \E d \in data : StreamReceive(d)
  BY <1>6, <1>7 DEF StreamReceive
<1> QED BY <1>1, <1>2, <1>3, <1>4, <1>5, <1>7 DEF StreamStep

\* A number that is not newer than the last, and not older than the wire lets it
\* become, is seen to be late.
LEMMA OlderIsLate ==
    ASSUME NEW r \in Nat, NEW m \in Nat, m <= r, r < m + Lifetime
    PROVE  Updates!RelativeSequenceNumber(Updates!Number(m), Updates!Number(r) + 1) < 0
<1> DEFINE N == NumSequenceNumbers
           half == NumSequenceNumbers \div 2
           e == (r - 1) % N
           s == (m - 1) % N
           x == (m - 1) - (r - 1) + (N + half - 1)
           y == m - 1 - r + half
<1>1. /\ N \in Nat \ {0} /\ half \in Nat /\ Lifetime \in Nat /\ Lifetime <= half /\ half < N
  BY StreamSizes
<1> HIDE DEF half
<1>2. /\ m - 1 \in Int /\ r - 1 \in Int /\ N + half - 1 \in Int
      /\ x \in Int /\ y \in 0 .. N - 1 /\ x = N * 1 + y
  BY <1>1
<1>3. e \in Int /\ s \in Int
  BY <1>1, <1>2, DivisionOfInt
<1>4. (s - e + (N + half - 1)) % N = x % N
  BY <1>1, <1>2, RemainderOfDifference, Zenon
<1>5. y < half
  BY <1>1
<1> HIDE DEF x, y
<1>6. x % N = y
  BY <1>1, <1>2, RemainderUnique, 1 \in Int, Zenon
<1> HIDE DEF e, s
<1>7. s - (e + 1) + N + half = s - e + (N + half - 1)
  BY <1>1, <1>3
<1>8. ((s - (e + 1) + N + half) % N) - half < 0
  BY <1>1, <1>2, <1>4, <1>5, <1>6, <1>7
<1> QED BY <1>8 DEF Updates!RelativeSequenceNumber, Updates!Number, e, s, half

\* A sequenced receiver takes no message older than the last it released, nor
\* that one again.
LEMMA OnlyNewerTaken ==
    ASSUME Stream, Updates!SequencedInv, NEW d \in data, released # <<>>,
           Updates!Takes(d)
    PROVE  released[Len(released)] < d.msg
<1> DEFINE r == released[Len(released)]
           m == d.msg
<1>1. r \in 1 .. Updates!Sent /\ expected = Updates!Number(r)
  <2>1. released \in Seq(Nat)
    BY DEF Stream, Updates!NumbersInv
  <2>2. Len(released) \in DOMAIN released
    BY <2>1
  <2> QED BY <2>2 DEF Stream, Updates!ReleasedInv, Updates!SequencedInv
<1>2. m \in 1 .. Updates!Sent /\ Updates!Sent < m + Lifetime /\ d.seq = Updates!Number(m)
  BY DEF Stream, Updates!WireInv
<1>3. Updates!Sent \in Nat /\ Lifetime \in Nat
  BY StreamSent, StreamSizes DEF Stream
<1>4. Updates!RelativeSequenceNumber(Updates!Number(m), Updates!Number(r) + 1) >= 0
  BY <1>1, <1>2, MethodsOfStreams DEF Updates!Takes
<1> HIDE DEF r, m
<1>5. ASSUME m <= r PROVE FALSE
  <2>1. r \in Nat /\ m \in Nat /\ r < m + Lifetime
    BY <1>1, <1>2, <1>3
  <2>2. Updates!RelativeSequenceNumber(Updates!Number(m), Updates!Number(r) + 1) < 0
    BY <1>5, <2>1, OlderIsLate
  <2>3. Updates!RelativeSequenceNumber(Updates!Number(m), Updates!Number(r) + 1) \in Int
    <3>1. Updates!Number(m) \in Int /\ Updates!Number(r) \in Int
      BY <2>1, StreamSizes, DivisionOfInt, m - 1 \in Int, r - 1 \in Int DEF Updates!Number
    <3>2. /\ NumSequenceNumbers \in Nat \ {0} /\ (NumSequenceNumbers \div 2) \in Nat
      BY StreamSizes
    <3> DEFINE z == Updates!Number(m) - (Updates!Number(r) + 1) + NumSequenceNumbers
                      + (NumSequenceNumbers \div 2)
    <3>3. z \in Int
      BY <3>1, <3>2
    <3> HIDE DEF z
    <3>4. z % NumSequenceNumbers \in Int
      BY <3>2, <3>3, DivisionOfInt
    <3>5. (z % NumSequenceNumbers) - (NumSequenceNumbers \div 2) \in Int
      BY <3>2, <3>4
    <3> QED BY <3>5 DEF z, Updates!RelativeSequenceNumber
  <2> QED BY <1>4, <2>2, <2>3
<1>6. r < m
  BY <1>1, <1>2, <1>3, <1>5
<1> QED BY <1>6 DEF r, m

\* A sequenced receiver has released nothing at the start.
LEMMA SequencedInitially == Updates!Init => Updates!SequencedInv
BY DEF Updates!Init, Updates!SequencedInv

\* What a sequenced receiver releases stays in order.
LEMMA SequencedLasts ==
    Stream /\ Updates!SequencedInv /\ [Updates!Next]_Updates!vars => Updates!SequencedInv'
<1> SUFFICES ASSUME Stream, Updates!SequencedInv, [Updates!Next]_Updates!vars
             PROVE  Updates!SequencedInv'
  OBVIOUS
<1>1. CASE UNCHANGED <<expected, released>>
  BY <1>1 DEF Updates!SequencedInv, Updates!Number
<1>2. ASSUME NEW d \in data, Updates!Takes(d), expected' = d.seq,
             released' = Append(released, d.msg)
      PROVE  Updates!SequencedInv'
  <2> DEFINE n == Len(released)
  <2>1. released \in Seq(Nat) /\ n \in Nat /\ DOMAIN released = 1 .. n /\ d.msg \in Nat
    BY DEF Stream, Updates!NumbersInv
  <2>2. /\ Len(released') = n + 1 /\ DOMAIN released' = 1 .. n + 1
        /\ released'[n + 1] = d.msg
        /\ \A i \in 1 .. n : released'[i] = released[i]
    BY <1>2, <2>1
  <2>3. \A i \in 1 .. n : released[i] < d.msg /\ released[i] \in Nat
    <3> SUFFICES ASSUME NEW i \in 1 .. n PROVE released[i] < d.msg /\ released[i] \in Nat
      OBVIOUS
    <3>1. released # <<>> /\ i \in DOMAIN released /\ n \in DOMAIN released
      BY <2>1
    <3>2. released[n] < d.msg
      BY <1>2, <3>1, OnlyNewerTaken
    <3>3. released[i] \in Nat /\ released[n] \in Nat
      BY <2>1
    <3>4. i < n => released[i] < released[n]
      BY <3>1 DEF Updates!SequencedInv
    <3> HIDE DEF n
    <3>5. i < n \/ i = n
      BY <2>1
    <3> QED BY <2>1, <3>2, <3>3, <3>4, <3>5
  <2>4. \A i, j \in DOMAIN released : i < j => released[i] < released[j]
    BY DEF Updates!SequencedInv
  <2>5. d.seq = Updates!Number(d.msg)
    BY DEF Stream, Updates!WireInv
  <2> HIDE DEF n
  <2>6. ASSUME NEW i \in DOMAIN released', NEW j \in DOMAIN released', i < j
        PROVE  released'[i] < released'[j]
    <3>1. i \in 1 .. n /\ (j \in 1 .. n \/ j = n + 1)
      BY <2>1, <2>2, <2>6
    <3>2. CASE j \in 1 .. n
      BY <2>1, <2>2, <2>4, <2>6, <3>1, <3>2
    <3>3. CASE j = n + 1
      BY <2>2, <2>3, <3>1, <3>3
    <3> QED BY <3>1, <3>2, <3>3
  <2>7. expected' = Updates!Number(released'[Len(released')])
    BY <1>2, <2>2, <2>5
  <2> QED BY <2>6, <2>7 DEF Updates!SequencedInv, Updates!Number
<1>3. CASE \E d \in data : Updates!ReceiveMessage(d)
  BY <1>1, <1>2, <1>3, MethodsOfStreams
  DEF Updates!ReceiveMessage, Updates!receiverVars
<1>4. CASE ~ \E d \in data : Updates!ReceiveMessage(d)
  <2>1. UNCHANGED <<expected, released>>
    BY <1>4 DEF Updates!Next, Updates!User, Updates!Sender, Updates!Wire, Updates!Admit,
       Updates!Enqueue, Updates!Flag, Updates!TestFlush, Updates!ClearFlush,
       Updates!SendQueuedMessages, Updates!ReceiveAcknowledge, Updates!Lose,
       Updates!receiverVars, Updates!vars
  <2> QED BY <1>1, <2>1
<1> QED BY <1>3, <1>4

\* What Release of ChannelSpec asks of either stream.
LEMMA StreamsPromise ==
    /\ Positions!Channel!Promised(released')
    /\ Updates!SequencedInv' => Updates!Channel!Promised(released')
BY MethodsOfStreams
DEF Positions!Channel!Promised, Updates!Channel!Promised, Updates!SequencedInv

\* The channel for driverless vehicles.
LEMMA PositionsTheorems == Positions!Spec => []Positions!NeverShut /\ Positions!KeepsPromise
<1>1. Positions!Init => Stream
  <2>1. Positions!Init => Updates!Init
    BY DEF Positions!Init, Updates!Init
  <2> QED BY <2>1, StreamInitially
<1>2. Stream /\ [Positions!Next]_Positions!vars => Stream'
  BY PositionsStep, StreamLasts
<1>3. Stream => Positions!NeverShut
  BY RoomForOne, StreamSizes
  DEF Stream, Positions!NeverShut, Positions!GetAllowedSends, Updates!GetAllowedSends
<1>4. Positions!Init => Positions!Channel!Init
  BY DEF Positions!Init, Positions!Channel!Init
<1>5. Stream /\ [Positions!Next]_Positions!vars
        => [Positions!Channel!Next]_<<accepted, released>>
  BY PositionsStep, StreamOutput, StreamsPromise
  DEF Positions!Channel!Next, Positions!Channel!Accept, Positions!Channel!Release
<1> QED BY <1>1, <1>2, <1>3, <1>4, <1>5, PTL
  DEF Positions!Spec, Positions!KeepsPromise, Positions!Channel!Spec

\* The channel for players.
LEMMA UpdatesTheorems == Updates!Spec => []Updates!NeverShut /\ Updates!KeepsPromise
<1> DEFINE I == Stream /\ Updates!SequencedInv
<1>1. Updates!Init => I
  BY StreamInitially, SequencedInitially
<1>2. I /\ [Updates!Next]_Updates!vars => I'
  BY UpdatesStep, StreamLasts, SequencedLasts
<1>3. I => Updates!NeverShut
  BY RoomForOne, StreamSizes DEF Stream, Updates!NeverShut
<1>4. Updates!Init => Updates!Channel!Init
  BY DEF Updates!Init, Updates!Channel!Init
<1>5. I /\ I' /\ [Updates!Next]_Updates!vars
        => [Updates!Channel!Next]_<<accepted, released>>
  BY UpdatesStep, StreamOutput, StreamsPromise
  DEF Updates!Channel!Next, Updates!Channel!Accept, Updates!Channel!Release
<1> HIDE DEF I
<1> QED BY <1>1, <1>2, <1>3, <1>4, <1>5, PTL
  DEF Updates!Spec, Updates!KeepsPromise, Updates!Channel!Spec

-----------------------------------------------------------------------------
\* The channel of whatever method.

\* There are five methods.
LEMMA MethodIsOne ==
    Init => method \in {"ReliableOrdered", "ReliableUnordered", "ReliableSequenced",
                        "Unreliable", "UnreliableSequenced"}
BY MethodsOfStreams DEF Init

\* The channel is the one of the method it was started with.
LEMMA OrderedChosen ==
    Spec /\ method = "ReliableOrdered" => [](method = "ReliableOrdered") /\ Ordered!Spec
<1>1. Init /\ method = "ReliableOrdered" => Ordered!Init
  BY MethodsOfStreams DEF Init
<1>2. method = "ReliableOrdered" /\ [Next]_<<method, Ordered!vars>>
        => (method = "ReliableOrdered")' /\ [Ordered!Next]_Ordered!vars
  BY DEF Next
<1> QED BY <1>1, <1>2, PTL DEF Spec, Ordered!Spec

\* The same of an unordered one.
LEMMA UnorderedChosen ==
    Spec /\ method = "ReliableUnordered" => [](method = "ReliableUnordered") /\ Unordered!Spec
<1>1. Init /\ method = "ReliableUnordered" => Unordered!Init
  BY MethodsOfStreams DEF Init, Ordered!Init, Unordered!Init, Ordered!Slot, Unordered!Slot,
     Ordered!NoMessage, Unordered!NoMessage
<1>2. method = "ReliableUnordered" /\ [Next]_<<method, Ordered!vars>>
        => (method = "ReliableUnordered")' /\ [Unordered!Next]_Unordered!vars
  BY DEF Next, Ordered!vars, Unordered!vars
<1> QED BY <1>1, <1>2, PTL DEF Spec, Unordered!Spec

\* Of a sequenced one.
LEMMA SequencedChosen ==
    Spec /\ method = "ReliableSequenced" => [](method = "ReliableSequenced") /\ Sequenced!Spec
<1>1. Init /\ method = "ReliableSequenced" => Sequenced!Init
  BY MethodsOfStreams DEF Init, Ordered!Init, Sequenced!Init, Ordered!Slot, Sequenced!Slot,
     Ordered!NoMessage, Sequenced!NoMessage
<1>2. method = "ReliableSequenced" /\ [Next]_<<method, Ordered!vars>>
        => (method = "ReliableSequenced")' /\ [Sequenced!Next]_Sequenced!vars
  BY DEF Next, Ordered!vars, Sequenced!vars
<1> QED BY <1>1, <1>2, PTL DEF Spec, Sequenced!Spec

\* Of the one for driverless vehicles.
LEMMA PositionsChosen ==
    Spec /\ method = "Unreliable" => [](method = "Unreliable") /\ Positions!Spec
<1>1. Init /\ method = "Unreliable" => Positions!Init
  BY DEF Init
<1>2. method = "Unreliable" /\ [Next]_<<method, Ordered!vars>>
        => (method = "Unreliable")' /\ [Positions!Next]_Positions!vars
  BY DEF Next, Ordered!vars, Positions!vars
<1> QED BY <1>1, <1>2, PTL DEF Spec, Positions!Spec

\* And of the one for players.
LEMMA UpdatesChosen ==
    Spec /\ method = "UnreliableSequenced"
      => [](method = "UnreliableSequenced") /\ Updates!Spec
<1>1. Init /\ method = "UnreliableSequenced" => Updates!Init
  BY DEF Init, Positions!Init, Updates!Init
<1>2. method = "UnreliableSequenced" /\ [Next]_<<method, Ordered!vars>>
        => (method = "UnreliableSequenced")' /\ [Updates!Next]_Updates!vars
  BY DEF Next, Ordered!vars, Updates!vars
<1> QED BY <1>1, <1>2, PTL DEF Spec, Updates!Spec

\* What each channel keeps, with its method.
Kept ==
    \/ /\ method = "ReliableOrdered"
       /\ Ordered!KeptUntilThrough /\ Ordered!NeverTooEarly /\ Ordered!StoredIsWindow
    \/ /\ method = "ReliableUnordered"
       /\ Unordered!KeptUntilThrough /\ Unordered!NeverTooEarly /\ Unordered!StoredIsWindow
    \/ /\ method = "ReliableSequenced"
       /\ Sequenced!KeptUntilThrough /\ Sequenced!NeverTooEarly /\ Sequenced!StoredIsWindow
    \/ method = "Unreliable" /\ Positions!NeverShut
    \/ method = "UnreliableSequenced" /\ Updates!NeverShut

\* Every channel keeps what is its own.
LEMMA EveryChannelKeeps == Spec => []Kept
<1>1. Init => \/ method = "ReliableOrdered" \/ method = "ReliableUnordered"
              \/ method = "ReliableSequenced" \/ method = "Unreliable"
              \/ method = "UnreliableSequenced"
  BY MethodIsOne
<1>2. Spec /\ method = "ReliableOrdered" => []Kept
  <2>1. method = "ReliableOrdered" /\ Ordered!KeptUntilThrough /\ Ordered!NeverTooEarly
          /\ Ordered!StoredIsWindow => Kept
    BY DEF Kept
  <2> QED BY <2>1, OrderedChosen, OrderedTheorems, PTL
<1>3. Spec /\ method = "ReliableUnordered" => []Kept
  <2>1. method = "ReliableUnordered" /\ Unordered!KeptUntilThrough /\ Unordered!NeverTooEarly
          /\ Unordered!StoredIsWindow => Kept
    BY DEF Kept
  <2> QED BY <2>1, UnorderedChosen, UnorderedTheorems, PTL
<1>4. Spec /\ method = "ReliableSequenced" => []Kept
  <2>1. method = "ReliableSequenced" /\ Sequenced!KeptUntilThrough /\ Sequenced!NeverTooEarly
          /\ Sequenced!StoredIsWindow => Kept
    BY DEF Kept
  <2> QED BY <2>1, SequencedChosen, SequencedTheorems, PTL
<1>5. Spec /\ method = "Unreliable" => []Kept
  <2>1. method = "Unreliable" /\ Positions!NeverShut => Kept
    BY DEF Kept
  <2> QED BY <2>1, PositionsChosen, PositionsTheorems, PTL
<1>6. Spec /\ method = "UnreliableSequenced" => []Kept
  <2>1. method = "UnreliableSequenced" /\ Updates!NeverShut => Kept
    BY DEF Kept
  <2> QED BY <2>1, UpdatesChosen, UpdatesTheorems, PTL
<1> QED BY <1>1, <1>2, <1>3, <1>4, <1>5, <1>6, PTL DEF Spec

\* DestoreMessage lets go of no message before it got through, whatever the wire
\* loses, repeats or delays.
THEOREM EverySenderKeeps == Spec => []KeptUntilThrough
<1>1. Kept => KeptUntilThrough
  BY DEF Kept, KeptUntilThrough, Reliable
<1> QED BY <1>1, EveryChannelKeeps, PTL

\* No receiver drops as too early a message it has just acknowledged: the
\* last branch of ReceiveMessage is dead, and nothing is withheld in the slot of the
\* message that is expected.
THEOREM NoReceiverTooEarly == Spec => []NeverTooEarly
<1>1. Kept => NeverTooEarly
  BY DEF Kept, NeverTooEarly, Reliable
<1> QED BY <1>1, EveryChannelKeeps, PTL

\* m_storedMessages holds the messages of the window, each in its slot: ExecuteSend
\* overwrites none and DestoreMessage finds none missing.
THEOREM EveryWindowStored == Spec => []StoredIsWindow
<1>1. Kept => StoredIsWindow
  BY DEF Kept, StoredIsWindow, Reliable
<1> QED BY <1>1, EveryChannelKeeps, PTL

\* GetAllowedSends of the unreliable sender is never 0 with an empty queue, whatever
\* messages and acknowledgements were lost: a stream never stops for good.
THEOREM NoSenderShut == Spec => []NeverShut
<1>1. Kept => NeverShut
  BY DEF Kept, NeverShut
<1> QED BY <1>1, EveryChannelKeeps, PTL

\* Each channel implements ChannelSpec: the messages its receiver gives to
\* ReleaseMessage are what NetDeliveryMethod promises of its method.
THEOREM EveryChannelKeepsPromise == Spec => KeepsPromise
<1> DEFINE Step ==
      CASE method = "ReliableOrdered" -> Ordered!Channel!Next
        [] method = "ReliableUnordered" -> Unordered!Channel!Next
        [] method = "ReliableSequenced" -> Sequenced!Channel!Next
        [] method = "Unreliable" -> Positions!Channel!Next
        [] method = "UnreliableSequenced" -> Updates!Channel!Next
<1>1. Init => \/ method = "ReliableOrdered" \/ method = "ReliableUnordered"
              \/ method = "ReliableSequenced" \/ method = "Unreliable"
              \/ method = "UnreliableSequenced"
  BY MethodIsOne
<1>2. Init => Ordered!Channel!Init
  BY DEF Init, Ordered!Init, Positions!Init, Ordered!Channel!Init
<1>3. method = "ReliableOrdered" /\ [Ordered!Channel!Next]_<<accepted, released>>
        => [Step]_<<accepted, released>>
  BY Zenon
<1>4. method = "ReliableUnordered" /\ [Unordered!Channel!Next]_<<accepted, released>>
        => [Step]_<<accepted, released>>
  BY Zenon
<1>5. method = "ReliableSequenced" /\ [Sequenced!Channel!Next]_<<accepted, released>>
        => [Step]_<<accepted, released>>
  BY Zenon
<1>6. method = "Unreliable" /\ [Positions!Channel!Next]_<<accepted, released>>
        => [Step]_<<accepted, released>>
  BY Zenon
<1>7. method = "UnreliableSequenced" /\ [Updates!Channel!Next]_<<accepted, released>>
        => [Step]_<<accepted, released>>
  BY Zenon
<1>8. Spec /\ method = "ReliableOrdered" => [][Step]_<<accepted, released>>
  BY <1>3, OrderedChosen, OrderedTheorems, PTL DEF Ordered!KeepsPromise, Ordered!Channel!Spec
<1>9. Spec /\ method = "ReliableUnordered" => [][Step]_<<accepted, released>>
  BY <1>4, UnorderedChosen, UnorderedTheorems, PTL
  DEF Unordered!KeepsPromise, Unordered!Channel!Spec
<1>10. Spec /\ method = "ReliableSequenced" => [][Step]_<<accepted, released>>
  BY <1>5, SequencedChosen, SequencedTheorems, PTL
  DEF Sequenced!KeepsPromise, Sequenced!Channel!Spec
<1>11. Spec /\ method = "Unreliable" => [][Step]_<<accepted, released>>
  BY <1>6, PositionsChosen, PositionsTheorems, PTL
  DEF Positions!KeepsPromise, Positions!Channel!Spec
<1>12. Spec /\ method = "UnreliableSequenced" => [][Step]_<<accepted, released>>
  BY <1>7, UpdatesChosen, UpdatesTheorems, PTL DEF Updates!KeepsPromise, Updates!Channel!Spec
<1>13. Spec => Ordered!Channel!Init /\ [][Step]_<<accepted, released>>
  <2> HIDE DEF Step
  <2> QED BY <1>1, <1>2, <1>8, <1>9, <1>10, <1>11, <1>12, PTL DEF Spec
<1> QED BY <1>13 DEF KeepsPromise
=============================================================================
