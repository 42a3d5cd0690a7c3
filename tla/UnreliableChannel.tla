------------------------- MODULE UnreliableChannel -------------------------
(***************************************************************************)
(* One unreliable channel of a connection: NetUnreliableSenderChannel on   *)
(* one side and NetUnreliableSequencedReceiver or, for messages without an *)
(* order, NetUnreliableUnorderedReceiver on the other.  The positions of   *)
(* all players and vehicles go through such channels.                      *)
(*                                                                         *)
(* Which channel it is follows from the number of the message type, the    *)
(* sum of the method and the sequence channel that SendMessage is given.   *)
(* The server gives a sequence channel to Unreliable, which has none, and  *)
(* the sum is the number of an UnreliableSequenced channel.                *)
(*                                                                         *)
(* The sender drops a message when the window has no room for it.  What    *)
(* was sent is forgotten, and acknowledgements only move the window.  The  *)
(* threads, the flag between them and the wire are those of                *)
(* ReliableChannel, but Enqueue looks at the window before it fills the    *)
(* queue.  m_receivedAcks is left out: its bits are set and cleared and    *)
(* nothing reads them.  The size of a message and                          *)
(* SuppressUnreliableUnorderedAcks are left out too: the game leaves both  *)
(* settings at their defaults, which drop nothing and acknowledge all.     *)
(***************************************************************************)
EXTENDS Integers, Sequences

CONSTANTS
    AskedMethod,         \* the delivery method SendMessage is given, unreliable
    SequenceChannel,     \* and the sequence channel
    NumSequenceNumbers,  \* NetConstants.NumSequenceNumbers, 1024
    WindowSize,          \* NetConstants.UnreliableWindowSize, 128: a divisor
    Lifetime,            \* how many sends a datagram may be late: at most half
                         \* of the sequence numbers
    MaxMessages,         \* bound: messages the user sends
    MaxReleased          \* bound: messages released, repeats included

VARIABLES
    accepted,       \* messages Enqueue has put into the queue
    enqueuing,      \* where the user thread is in Enqueue
    queuedSends,    \* m_queuedSends
    needFlush,      \* m_needFlushSendQueue of the peer
    flush,          \* where the network thread is with that flag
    windowStart,    \* m_windowStart of the sender
    sendStart,      \* m_sendStart
    data, acks,     \* what is on the wire
    lastReceived,   \* m_lastReceivedSequenceNumber
    released        \* what the receiver gave to ReleaseMessage

userVars == <<accepted, enqueuing>>
flagVars == <<needFlush, flush>>
receiverVars == <<lastReceived, released>>
vars == <<accepted, enqueuing, queuedSends, needFlush, flush, windowStart,
          sendStart, data, acks, lastReceived, released>>

-----------------------------------------------------------------------------
\* Methods and numbers.

\* The message type of a method and a sequence channel, and the method whose
\* channels have that type.
MethodNumber == [Unreliable |-> 1, UnreliableSequenced |-> 2, ReliableUnordered |-> 34,
                 ReliableSequenced |-> 35, ReliableOrdered |-> 67]
MessageType(method, sequenceChannel) == MethodNumber[method] + sequenceChannel
GetDeliveryMethod(tp) ==
    CHOOSE m \in DOMAIN MethodNumber :
        /\ MethodNumber[m] <= tp
        /\ \A n \in DOMAIN MethodNumber : MethodNumber[n] <= tp => MethodNumber[n] <= MethodNumber[m]

\* The method that is in fact used.
Method == GetDeliveryMethod(MessageType(AskedMethod, SequenceChannel))

Channel == INSTANCE ChannelSpec WITH
  Method <- Method, accepted <- accepted, released <- released

RelativeSequenceNumber(nr, from) ==
    ((nr - from + NumSequenceNumbers + (NumSequenceNumbers \div 2)) % NumSequenceNumbers)
        - (NumSequenceNumbers \div 2)

\* Faulty variant: measured as in the reliable sender, which has resends.
AllowedOfReliable ==
    WindowSize - (((sendStart + NumSequenceNumbers) - windowStart) % NumSequenceNumbers)

\* How many messages may still be sent.  Modulo the window: a full window counts
\* as an empty one.
GetAllowedSends ==
    WindowSize - (((sendStart + NumSequenceNumbers) - windowStart) % WindowSize)

\* How many messages were sent, and what the wire still carries after n sends.
Sent == accepted - Len(queuedSends)
Alive(wire, n) == {d \in wire : n < d.msg + Lifetime}

Init ==
    /\ accepted = 0 /\ enqueuing = "no" /\ queuedSends = <<>>
    /\ needFlush = FALSE /\ flush = "no"
    /\ windowStart = 0 /\ sendStart = 0
    /\ data = {} /\ acks = {}
    /\ lastReceived = -1 /\ released = <<>>

-----------------------------------------------------------------------------
\* The user thread.

\* Enqueue finds room for the message.  (It is dropped otherwise.)
Admit ==
    /\ enqueuing = "no" /\ accepted < MaxMessages
    /\ Len(queuedSends) + 1 <= GetAllowedSends
    /\ enqueuing' = "admitted"
    /\ UNCHANGED <<accepted, queuedSends, flagVars, windowStart, sendStart, data, acks, receiverVars>>

Enqueue ==
    /\ enqueuing = "admitted"
    /\ accepted' = accepted + 1
    /\ queuedSends' = Append(queuedSends, accepted + 1)
    /\ enqueuing' = "queued"
    /\ UNCHANGED <<flagVars, windowStart, sendStart, data, acks, receiverVars>>

\* m_needFlushSendQueue = true.
Flag ==
    /\ enqueuing = "queued"
    /\ enqueuing' = "no"
    /\ needFlush' = TRUE
    /\ UNCHANGED <<accepted, queuedSends, flush, windowStart, sendStart, data, acks, receiverVars>>

-----------------------------------------------------------------------------
\* The network thread of the sender.

TestFlush ==
    /\ flush = "no" /\ needFlush
    /\ flush' = "tested"
    /\ UNCHANGED <<userVars, queuedSends, needFlush, windowStart, sendStart, data, acks, receiverVars>>

ClearFlush ==
    /\ flush = "tested"
    /\ flush' = "execute"
    /\ needFlush' = FALSE
    /\ UNCHANGED <<userVars, queuedSends, windowStart, sendStart, data, acks, receiverVars>>

\* SendQueuedMessages: what the window allows of the queue goes out, and is
\* recycled.  NeedToSendMessages looks at what is left.
SendQueuedMessages ==
    /\ flush = "execute"
    /\ LET num == IF GetAllowedSends < Len(queuedSends) THEN GetAllowedSends ELSE Len(queuedSends)
           sends == {[seq |-> (sendStart + j - 1) % NumSequenceNumbers, msg |-> queuedSends[j]] :
                        j \in 1 .. num}
       IN /\ sendStart' = (sendStart + num) % NumSequenceNumbers
          /\ queuedSends' = SubSeq(queuedSends, num + 1, Len(queuedSends))
          /\ data' = Alive(data \cup sends, Sent + num)
          /\ acks' = Alive(acks, Sent + num)
    /\ flush' = "no"
    /\ needFlush' = (needFlush \/ queuedSends' # <<>>)
    /\ UNCHANGED <<userVars, windowStart, receiverVars>>

\* ReceiveAcknowledge: the window moves past the number it starts with, and up
\* to a later one.  A number that is late, or looks it, changes nothing.
ReceiveAcknowledge(a) ==
    /\ a \in acks
    /\ flush # "tested"
    /\ \/ /\ RelativeSequenceNumber(a.seq, windowStart) = 0
          /\ windowStart' = (windowStart + 1) % NumSequenceNumbers
       \/ /\ RelativeSequenceNumber(a.seq, windowStart) > 0
          /\ windowStart' = a.seq
    /\ UNCHANGED <<userVars, queuedSends, flagVars, sendStart, data, acks, receiverVars>>

-----------------------------------------------------------------------------
\* The receivers, which acknowledge a datagram before they look at it, and the
\* wire, which may repeat a datagram and may lose it.

\* A sequenced receiver takes what is not late, an unordered one everything.
Takes(d) ==
    \/ Method = "Unreliable"
    \/ RelativeSequenceNumber(d.seq, lastReceived + 1) >= 0

ReceiveMessage(d) ==
    /\ d \in data
    /\ Len(released) < MaxReleased
    /\ acks' = acks \cup {d}
    /\ \/ /\ Takes(d)
          /\ lastReceived' = IF Method = "Unreliable" THEN lastReceived ELSE d.seq
          /\ released' = Append(released, d.msg)
       \/ /\ ~Takes(d)
          /\ UNCHANGED receiverVars
    /\ UNCHANGED <<userVars, queuedSends, flagVars, windowStart, sendStart, data>>

Lose(d) ==
    /\ d \in data \cup acks
    /\ \/ data' = data \ {d} /\ UNCHANGED acks
       \/ acks' = acks \ {d} /\ UNCHANGED data
    /\ UNCHANGED <<userVars, queuedSends, flagVars, windowStart, sendStart, receiverVars>>

User == Admit \/ Enqueue \/ Flag
Sender == \/ TestFlush \/ ClearFlush \/ SendQueuedMessages
          \/ \E a \in acks : ReceiveAcknowledge(a)
Wire == \/ \E d \in data : ReceiveMessage(d)
        \/ \E d \in data \cup acks : Lose(d)
Next == User \/ Sender \/ Wire

Spec == Init /\ [][Next]_vars

-----------------------------------------------------------------------------
\* Properties.

\* The channel keeps the promise of the method it has: a sequenced one releases
\* nothing older than what it released before, and nothing twice.
KeepsPromise == Channel!Spec

\* The sender is never shut for good: nothing is resent on this channel, so that
\* it must take a message with an empty queue whatever was lost before.
NeverShut == queuedSends = <<>> => GetAllowedSends >= 1

\* "Automatically dropping late messages", as NetDeliveryMethod says, and no
\* others: what arrives is released unless a message sent later, or the message
\* itself, was released before.
OnlyLateDropped ==
    \A d \in data : ~Takes(d) => \E i \in DOMAIN released : released[i] >= d.msg
=============================================================================
