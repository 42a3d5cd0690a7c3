-------------------------- MODULE ReliableChannel --------------------------
(***************************************************************************)
(* One reliable channel of a connection, from the queue of its sender to   *)
(* the messages its receiver releases: NetReliableSenderChannel on one     *)
(* side, and NetReliableOrderedReceiver, NetReliableUnorderedReceiver or   *)
(* NetReliableSequencedReceiver, as Method says, on the other.             *)
(*                                                                         *)
(* The sender keeps a window of messages that were sent and not yet        *)
(* acknowledged, and sends them again when an acknowledgement is long in   *)
(* coming or skips one.  The receiver acknowledges whatever it gets.       *)
(* Sequence numbers are taken modulo NumSequenceNumbers, so that a number  *)
(* is early or late only relative to a window.                             *)
(*                                                                         *)
(* Two threads work for the sender: the user's, which puts a message into  *)
(* the queue and then raises a flag, and the network thread, which tests   *)
(* the flag, clears it and empties the queue.  Those statements interleave.*)
(*                                                                         *)
(* The wire is not IV:MP's.  It may lose, repeat and reorder datagrams and *)
(* acknowledgements, and hold one back until Lifetime messages have been   *)
(* sent since.  No protocol with wrapping numbers survives a wire without  *)
(* such a limit; 512 messages is the one the code needs.  The queues of    *)
(* acknowledgements at both ends count as part of the wire.                *)
(*                                                                         *)
(* Time is left out: a stored message may be due for a resend whenever the *)
(* network thread looks.  Messages are the numbers 1, 2, ... in the order  *)
(* they were accepted.                                                     *)
(***************************************************************************)
EXTENDS Integers, Sequences

CONSTANTS
    Method,              \* the delivery method
    NumSequenceNumbers,  \* NetConstants.NumSequenceNumbers, 1024
    WindowSize,          \* NetUtility.GetWindowSize, 64
    Lifetime,            \* how many sends a datagram may be late
    MaxMessages          \* bound: messages the user sends

ASSUME MethodAssumption ==
    Method \in {"ReliableOrdered", "ReliableUnordered", "ReliableSequenced"}
ASSUME WindowAssumption ==
    /\ NumSequenceNumbers \in Nat /\ WindowSize \in Nat \ {0}
    /\ NumSequenceNumbers % WindowSize = 0 /\ 2 * WindowSize < NumSequenceNumbers
ASSUME LifetimeAssumption == Lifetime \in Nat /\ 2 * Lifetime <= NumSequenceNumbers
ASSUME BoundAssumption == MaxMessages \in Nat

SeqNr == 0 .. NumSequenceNumbers - 1
Slot == 0 .. WindowSize - 1

\* A message on the wire, or its acknowledgement, which on the wire is only the
\* sequence number.
Datagram == [seq : SeqNr, msg : 1 .. MaxMessages]

\* A stored message: NumSent only matters when it is 1.  NoMessage is a slot
\* whose Message is null.
NoMessage == [msg |-> 0, seq |-> 0, once |-> FALSE]
Stored == [msg : 0 .. MaxMessages, seq : SeqNr, once : BOOLEAN]

VARIABLES
    accepted,      \* messages given to Enqueue
    enqueuing,     \* the user thread is between the queue and the flag
    queuedSends,   \* m_queuedSends
    needFlush,     \* m_needFlushSendQueue of the peer
    flush,         \* where the network thread is with that flag
    windowStart,   \* m_windowStart of the sender
    sendStart,     \* m_sendStart
    receivedAcks,  \* the bits that are set in m_receivedAcks
    stored,        \* m_storedMessages
    data, acks,    \* what is on the wire
    expected,      \* m_windowStart of the receiver
    early,         \* the bits that are set in m_earlyReceived
    withheld,      \* m_withheldMessages, 0 for null
    released       \* what the receiver gave to ReleaseMessage

userVars == <<accepted, enqueuing>>
flagVars == <<needFlush, flush>>
windowVars == <<windowStart, sendStart, receivedAcks, stored>>
receiverVars == <<expected, early, withheld, released>>
vars == <<accepted, enqueuing, queuedSends, needFlush, flush, windowStart,
          sendStart, receivedAcks, stored, data, acks, expected, early,
          withheld, released>>

Channel == INSTANCE ChannelSpec WITH
  Method <- Method, accepted <- accepted, released <- released

-----------------------------------------------------------------------------
\* Sequence numbers and windows.

\* How far nr is after (or, negative, before) the number that is expected.
RelativeSequenceNumber(nr, from) ==
    ((nr - from + NumSequenceNumbers + (NumSequenceNumbers \div 2)) % NumSequenceNumbers)
        - (NumSequenceNumbers \div 2)

\* Faulty variant: what came early is left to wait for a resend.
NoRun(from, S, n) == 0

\* How many numbers in a row, from `from' on and modulo n, are in S: the loops
\* that use up what has come early.
RunLength(from, S, n) ==
    CHOOSE k \in 0 .. n : /\ (from + k) % n \notin S
                          /\ \A j \in 0 .. k - 1 : (from + j) % n \in S

\* Faulty variant: the window is measured modulo its own size.
AllowedModuloWindow ==
    WindowSize - (((sendStart + NumSequenceNumbers) - windowStart) % WindowSize)

\* How many messages may still be sent: the rest of the window.
GetAllowedSends ==
    WindowSize - (((sendStart + NumSequenceNumbers) - windowStart) % NumSequenceNumbers)

\* How many messages have been sent for the first time, and what the wire still
\* carries after n sends.
Sent == accepted - Len(queuedSends)
Alive(wire, n) == {d \in wire : n < d.msg + Lifetime}

StoredSlots == {i \in Slot : stored[i] # NoMessage}

Init ==
    /\ accepted = 0 /\ enqueuing = FALSE /\ queuedSends = <<>>
    /\ needFlush = FALSE /\ flush = "no"
    /\ windowStart = 0 /\ sendStart = 0 /\ receivedAcks = {}
    /\ stored = [i \in Slot |-> NoMessage]
    /\ data = {} /\ acks = {}
    /\ expected = 0 /\ early = {} /\ withheld = [i \in Slot |-> 0]
    /\ released = <<>>

-----------------------------------------------------------------------------
\* The user thread.

\* Enqueue, up to the flag.
Enqueue ==
    /\ ~enqueuing /\ accepted < MaxMessages
    /\ accepted' = accepted + 1
    /\ queuedSends' = Append(queuedSends, accepted + 1)
    /\ enqueuing' = TRUE
    /\ UNCHANGED <<flagVars, windowVars, data, acks, receiverVars>>

\* m_needFlushSendQueue = true.
Flag ==
    /\ enqueuing
    /\ enqueuing' = FALSE
    /\ needFlush' = TRUE
    /\ UNCHANGED <<accepted, queuedSends, flush, windowVars, data, acks, receiverVars>>

-----------------------------------------------------------------------------
\* The network thread of the sender.

\* NetPeer.Heartbeat: the flag is tested, and then cleared.
TestFlush ==
    /\ flush = "no" /\ needFlush
    /\ flush' = "tested"
    /\ UNCHANGED <<userVars, queuedSends, needFlush, windowVars, data, acks, receiverVars>>

ClearFlush ==
    /\ flush = "tested"
    /\ flush' = "execute"
    /\ needFlush' = FALSE
    /\ UNCHANGED <<userVars, queuedSends, windowVars, data, acks, receiverVars>>

\* Faulty variant: the number is not wrapped.
UnwrappedNr(j) == sendStart + j - 1

\* The number of the j-th message that SendQueuedMessages sends.
SendNr(j) == (sendStart + j - 1) % NumSequenceNumbers

\* Faulty variant: the flag is raised only for what is still queued.
FlagForQueued(queue, slots) == queue # <<>>

\* NeedToSendMessages, after SendQueuedMessages.
NeedToSendMessages(queue, slots) ==
    queue # <<>> \/ \E i \in Slot : slots[i] # NoMessage

\* How much of the queue SendQueuedMessages sends: what the window has room for.
SendCount ==
    IF GetAllowedSends < 1 THEN 0
    ELSE IF GetAllowedSends < Len(queuedSends) THEN GetAllowedSends ELSE Len(queuedSends)

\* SendQueuedMessages: the stored messages that are due go out again, and then
\* the head of the queue.
SendQueuedMessages(due) ==
    /\ flush = "execute"
    /\ due \subseteq StoredSlots
    /\ LET num == SendCount
           sends == {[seq |-> SendNr(j), msg |-> queuedSends[j]] : j \in 1 .. num}
           resends == {[seq |-> stored[i].seq, msg |-> stored[i].msg] : i \in due}
       IN /\ sendStart' = (sendStart + num) % NumSequenceNumbers
          /\ queuedSends' = SubSeq(queuedSends, num + 1, Len(queuedSends))
          /\ stored' = [i \in Slot |->
                IF \E d \in sends : d.seq % WindowSize = i
                THEN LET d == CHOOSE d \in sends : d.seq % WindowSize = i
                     IN [msg |-> d.msg, seq |-> d.seq, once |-> stored[i] = NoMessage]
                ELSE IF i \in due THEN [stored[i] EXCEPT !.once = FALSE] ELSE stored[i]]
          /\ data' = Alive(data \cup resends \cup sends, Sent + num)
          /\ acks' = Alive(acks, Sent + num)
    /\ flush' = "no"
    /\ needFlush' = (needFlush \/ NeedToSendMessages(queuedSends', stored'))
    /\ UNCHANGED <<userVars, windowStart, receivedAcks, receiverVars>>

\* ReceiveAcknowledge of the number the window starts with: that message is let
\* go, and those after it that have been acknowledged already.
AcknowledgeOnTime(a) ==
    /\ RelativeSequenceNumber(a.seq, windowStart) = 0
    /\ LET run == RunLength(windowStart + 1, receivedAcks \ {windowStart}, NumSequenceNumbers)
           gone == {(windowStart + k) % NumSequenceNumbers : k \in 0 .. run}
       IN /\ windowStart' = (windowStart + 1 + run) % NumSequenceNumbers
          /\ receivedAcks' = receivedAcks \ gone
          /\ stored' = [i \in Slot |-> IF \E nr \in gone : nr % WindowSize = i
                                       THEN NoMessage ELSE stored[i]]
    /\ UNCHANGED <<sendStart, needFlush, data>>

\* The numbers before nr that were sent once and not acknowledged.
Holes(nr) ==
    {r \in {(windowStart + k) % NumSequenceNumbers :
               k \in 0 .. RelativeSequenceNumber(nr, windowStart) - 1} :
        r \notin receivedAcks /\ stored[r % WindowSize].once}

\* Faulty variant: a later number acknowledges everything before it.
AcknowledgeCumulative(a, again) ==
    /\ RelativeSequenceNumber(a.seq, windowStart) > 0
    /\ windowStart' = a.seq
    /\ stored' = [i \in Slot |->
          IF RelativeSequenceNumber(stored[i].seq, a.seq) < 0 THEN NoMessage ELSE stored[i]]
    /\ UNCHANGED <<sendStart, receivedAcks, needFlush, data>>

\* ReceiveAcknowledge of a later number: it is remembered, and the holes before
\* it are filled again, except those (`again' leaves them out) that were sent a
\* moment ago.  What is then only in the send buffer raises the flag.
AcknowledgeEarly(a, again) ==
    /\ RelativeSequenceNumber(a.seq, windowStart) > 0
    /\ RelativeSequenceNumber(a.seq, sendStart) <= 0
    /\ receivedAcks' = receivedAcks \cup {a.seq}
    /\ stored' = [i \in Slot |-> IF \E nr \in again : nr % WindowSize = i
                                 THEN [stored[i] EXCEPT !.once = FALSE] ELSE stored[i]]
    /\ data' = data \cup {[seq |-> nr, msg |-> stored[nr % WindowSize].msg] : nr \in again}
    /\ needFlush' \in IF again = {} THEN {needFlush} ELSE {needFlush, TRUE}
    /\ UNCHANGED <<windowStart, sendStart>>

\* A late acknowledgement changes nothing, and neither does one for a message
\* that was not sent.  The wire keeps the acknowledgement: it may come again.
ReceiveAcknowledge(a) ==
    /\ a \in acks
    /\ flush # "tested"
    /\ \/ AcknowledgeOnTime(a)
       \/ \E again \in SUBSET Holes(a.seq) : AcknowledgeEarly(a, again)
    /\ UNCHANGED <<userVars, queuedSends, flush, acks, receiverVars>>

-----------------------------------------------------------------------------
\* The receivers.  Each acknowledges a datagram before it looks at it.

\* Faulty variant: the bits of the messages that are passed stay set.
AdvanceOnly(run) ==
    /\ expected' = (expected + 1 + run) % NumSequenceNumbers
    /\ UNCHANGED early

\* AdvanceWindow, once for the message that was expected and once for each of
\* the run that came early.
Advance(run) ==
    /\ expected' = (expected + 1 + run) % NumSequenceNumbers
    /\ early' = early \ {(expected + k) % WindowSize : k \in 0 .. run}

\* The run of early messages that a message on time lets go.
EarlyRun(d) ==
    RunLength((d.seq + 1) % NumSequenceNumbers, early \ {expected % WindowSize}, WindowSize)

\* Where the message after d, and the k-th after that, is withheld.
After(d, k) == (((d.seq + 1) % NumSequenceNumbers) + k) % WindowSize

\* NetReliableOrderedReceiver: on time, early or dropped.
ReceiveOrdered(d, relate) ==
    \/ /\ relate = 0
       /\ Advance(EarlyRun(d))
       /\ withheld' = [i \in Slot |->
             IF \E k \in 0 .. EarlyRun(d) - 1 : After(d, k) = i THEN 0 ELSE withheld[i]]
       /\ released' = released \o <<d.msg>>
                         \o [k \in 1 .. EarlyRun(d) |-> withheld[After(d, k - 1)]]
    \/ /\ relate \in 1 .. WindowSize
       /\ early' = early \cup {d.seq % WindowSize}
       /\ withheld' = [withheld EXCEPT ![d.seq % WindowSize] = d.msg]
       /\ UNCHANGED <<expected, released>>
    \/ /\ relate < 0 \/ relate > WindowSize
       /\ UNCHANGED receiverVars

\* NetReliableUnorderedReceiver: an early message is released at once, and only
\* remembered.
ReceiveUnordered(d, relate) ==
    /\ \/ /\ relate = 0
          /\ Advance(EarlyRun(d))
          /\ released' = Append(released, d.msg)
       \/ /\ relate \in 1 .. WindowSize
          /\ d.seq % WindowSize \notin early
          /\ early' = early \cup {d.seq % WindowSize}
          /\ released' = Append(released, d.msg)
          /\ UNCHANGED expected
       \/ /\ \/ relate < 0 \/ relate > WindowSize
             \/ relate > 0 /\ d.seq % WindowSize \in early
          /\ UNCHANGED <<expected, early, released>>
    /\ UNCHANGED withheld

\* Faulty variant: the window of the sequenced receiver ends one number sooner.
ShortWindow(d, relate) ==
    /\ \/ /\ relate = 0
          /\ expected' = (expected + 1) % NumSequenceNumbers
          /\ released' = Append(released, d.msg)
       \/ /\ relate \in 1 .. WindowSize - 1
          /\ expected' = (expected + relate) % NumSequenceNumbers
          /\ released' = Append(released, d.msg)
       \/ /\ relate < 0 \/ relate >= WindowSize
          /\ UNCHANGED <<expected, released>>
    /\ UNCHANGED <<early, withheld>>

\* NetReliableSequencedReceiver: an early message moves the window to its own
\* number, not past it.
ReceiveSequenced(d, relate) ==
    /\ \/ /\ relate = 0
          /\ expected' = (expected + 1) % NumSequenceNumbers
          /\ released' = Append(released, d.msg)
       \/ /\ relate \in 1 .. WindowSize
          /\ expected' = (expected + relate) % NumSequenceNumbers
          /\ released' = Append(released, d.msg)
       \/ /\ relate < 0 \/ relate > WindowSize
          /\ UNCHANGED <<expected, released>>
    /\ UNCHANGED <<early, withheld>>

\* ReceiveMessage of the receiver CreateReceiverChannel makes for the method.
\* The wire keeps the datagram: it may come again.
ReceiveMessage(d) ==
    /\ d \in data
    /\ acks' = acks \cup {d}
    /\ LET relate == RelativeSequenceNumber(d.seq, expected)
       IN \/ Method = "ReliableOrdered" /\ ReceiveOrdered(d, relate)
          \/ Method = "ReliableUnordered" /\ ReceiveUnordered(d, relate)
          \/ Method = "ReliableSequenced" /\ ReceiveSequenced(d, relate)
    /\ UNCHANGED <<userVars, queuedSends, flagVars, windowVars, data>>

-----------------------------------------------------------------------------
\* The wire loses a datagram, or an acknowledgement.  Not between the test and
\* the clearing of the flag: a loss there is the same as one just after, and the
\* sender cannot be kept from its acknowledgements by losing them only there.
Lose(d) ==
    /\ d \in data \cup acks
    /\ flush # "tested"
    /\ \/ data' = data \ {d} /\ UNCHANGED acks
       \/ acks' = acks \ {d} /\ UNCHANGED data
    /\ UNCHANGED <<userVars, queuedSends, flagVars, windowVars, receiverVars>>

User == Enqueue \/ Flag
Sender == \/ TestFlush \/ ClearFlush
          \/ \E due \in SUBSET StoredSlots : SendQueuedMessages(due)
          \/ \E a \in acks : ReceiveAcknowledge(a)
Wire == \/ \E d \in data : ReceiveMessage(d)
        \/ \E d \in data \cup acks : Lose(d)
Next == User \/ Sender \/ Wire

Spec == Init /\ [][Next]_vars

-----------------------------------------------------------------------------
\* Properties.

\* The types of the fields and of what is on the wire.
TypeOK ==
    /\ accepted \in 0 .. MaxMessages /\ enqueuing \in BOOLEAN
    /\ queuedSends \in Seq(1 .. MaxMessages)
    /\ needFlush \in BOOLEAN /\ flush \in {"no", "tested", "execute"}
    /\ windowStart \in SeqNr /\ sendStart \in SeqNr /\ receivedAcks \subseteq SeqNr
    /\ stored \in [Slot -> Stored]
    /\ data \subseteq Datagram /\ acks \subseteq Datagram
    /\ expected \in SeqNr /\ early \subseteq Slot /\ withheld \in [Slot -> 0 .. MaxMessages]
    /\ released \in Seq(1 .. MaxMessages)

\* The channel keeps the promise of its delivery method: whatever the wire does,
\* ordered messages are released in the order they were sent and without gaps,
\* unordered ones at most once, sequenced ones never after a newer one.
KeepsPromise == Channel!Spec

\* A message has got through when it was released, or, on a sequenced channel,
\* when it or a newer one was.
GotThrough(m) ==
    \E i \in DOMAIN released :
        IF Method = "ReliableSequenced" THEN released[i] >= m ELSE released[i] = m

\* The sender forgets a message only when it got through: until then it is in
\* the queue or stored for a resend.  (DestoreMessage against what the receiver
\* acknowledges "no matter what", messages it drops included.)
KeptUntilThrough ==
    \A m \in 1 .. accepted :
        \/ \E i \in DOMAIN queuedSends : queuedSends[i] = m
        \/ \E i \in Slot : stored[i].msg = m
        \/ GotThrough(m)

\* Nothing on the wire can be too early for the receiver: the branch that drops
\* a message although it has just been acknowledged is never taken, and an
\* ordered receiver never withholds a message in the slot of the one it expects.
NeverTooEarly ==
    \A d \in data :
        RelativeSequenceNumber(d.seq, expected)
            < IF Method = "ReliableSequenced" THEN WindowSize + 1 ELSE WindowSize

\* The numbers of the window.
Window == {(windowStart + k) % NumSequenceNumbers : k \in 0 .. WindowSize - GetAllowedSends - 1}

\* The slots that hold a message are those of the window, each with the number
\* of that place: ExecuteSend never overwrites one, DestoreMessage never finds
\* one empty, and a resend goes out under the number it had.
StoredIsWindow ==
    /\ {stored[i].seq : i \in StoredSlots} = Window
    /\ \A i \in StoredSlots : stored[i].seq % WindowSize = i

\* While something is queued or stored, the network thread will look at the
\* channel again: no interleaving with Enqueue clears the flag for good, as the
\* comment at "m_needFlushSendQueue = true" says.
UnsentIsFlagged ==
    queuedSends # <<>> \/ StoredSlots # {} => needFlush \/ enqueuing \/ flush # "no"

\* A sequenced channel protects against repeated messages, as the tutorial
\* says of UnreliableSequenced, which it calls similar.
NoRepeats == \A i, j \in DOMAIN released : released[i] = released[j] => i = j

\* Fairness: both threads go on, a stored message is due for a resend sooner or
\* later, and the wire lets through what is sent again and again.
FairSpec ==
    /\ Spec
    /\ WF_vars(Flag) /\ WF_vars(TestFlush) /\ WF_vars(ClearFlush)
    /\ WF_vars(\E due \in SUBSET StoredSlots : SendQueuedMessages(due))
    /\ \A i \in Slot :
          SF_vars(\E due \in SUBSET StoredSlots : i \in due /\ SendQueuedMessages(due))
    /\ \A m \in 1 .. MaxMessages :
          /\ SF_vars(\E d \in data : d.msg = m /\ ReceiveMessage(d))
          /\ SF_vars(\E a \in acks : a.msg = m /\ ReceiveAcknowledge(a))

\* Every message that was accepted gets through in the end.
EveryMessageGetsThrough ==
    \A m \in 1 .. MaxMessages : (accepted >= m) ~> GotThrough(m)
=============================================================================
