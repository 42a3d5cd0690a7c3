----------------------- MODULE ReliableChannelProofs -----------------------
(***************************************************************************)
(* Theorems about ReliableChannel, for every delivery method, every number *)
(* of sequence numbers and every window that divides it and is less than   *)
(* half of it.                                                             *)
(*                                                                         *)
(* First the types and the flag of the sender.  Then the windows: the      *)
(* invariant WindowInv says what the wrapped numbers stand for, and one    *)
(* lemma for each kind of step shows that it lasts.  From it follow what   *)
(* the sender may forget, that nothing is too early, that the slots are    *)
(* those of the window, and that the channel implements ChannelSpec.       *)
(***************************************************************************)
EXTENDS ReliableChannelInv, SequenceTheorems, TLAPS

\* For the least element of a set of numbers.
Lists == INSTANCE ElementListProofs

-----------------------------------------------------------------------------
\* Remainders.  The provers know what % is for given numbers; for a variable
\* modulus they need the quotient.

\* A number is a multiple of n and its remainder.
LEMMA DivisionOfInt ==
    ASSUME NEW n \in Nat \ {0}, NEW a \in Int
    PROVE  /\ a % n \in 0 .. n - 1 /\ (a \div n) \in Int
           /\ a = n * (a \div n) + (a % n)
BY SMT

\* There is only one such remainder.
LEMMA RemainderUnique ==
    ASSUME NEW n \in Nat \ {0}, NEW a \in Int, NEW q \in Int, NEW r \in 0 .. n - 1,
           a = n * q + r
    PROVE  a % n = r
BY SMTT(30)

\* Remainders may be taken before adding.
LEMMA RemainderOfSum ==
    ASSUME NEW n \in Nat \ {0}, NEW a \in Int, NEW b \in Int
    PROVE  ((a % n) + b) % n = (a + b) % n
<1> DEFINE qa == a \div n
           qs == ((a % n) + b) \div n
           r == ((a % n) + b) % n
<1>1. a % n \in 0 .. n - 1 /\ qa \in Int /\ a = n * qa + (a % n)
  BY DivisionOfInt
<1>2. (a % n) + b \in Int
  BY <1>1
<1>3. r \in 0 .. n - 1 /\ qs \in Int /\ (a % n) + b = n * qs + r
  BY <1>2, DivisionOfInt
<1>4. a + b = n * (qa + qs) + r
  <2> HIDE DEF qa, qs, r
  <2>1. n * (qa + qs) = n * qa + n * qs
    BY <1>1, <1>3, SMT
  <2>2. n * qa \in Int /\ n * qs \in Int
    BY <1>1, <1>3
  <2> QED BY <1>1, <1>3, <2>1, <2>2
<1> HIDE DEF qa, qs, r
<1>5. qa + qs \in Int /\ a + b \in Int
  BY <1>1, <1>3
<1>6. (a + b) % n = r
  BY <1>3, <1>4, <1>5, RemainderUnique, Zenon
<1> QED BY <1>6 DEF r

\* Numbers with the same remainder that are closer than the modulus are equal.
LEMMA SameRemainder ==
    ASSUME NEW n \in Nat \ {0}, NEW a \in Int, NEW b \in Int,
           a % n = b % n, a - b < n, b - a < n
    PROVE  a = b
<1> DEFINE qa == a \div n
           qb == b \div n
           r == a % n
<1>1. /\ qa \in Int /\ qb \in Int /\ r \in 0 .. n - 1
      /\ a = n * qa + r /\ b = n * qb + r
  BY DivisionOfInt
<1> HIDE DEF qa, qb, r
<1>2. a - b = n * (qa - qb)
  BY <1>1, SMT
<1>3. qa - qb = 0
  BY <1>1, <1>2, SMT
<1> QED BY <1>1, <1>2, <1>3, SMT

\* Remainders may be taken before subtracting.
LEMMA RemainderOfDifference ==
    ASSUME NEW n \in Nat \ {0}, NEW a \in Int, NEW b \in Int, NEW c \in Int
    PROVE  ((a % n) - (b % n) + c) % n = (a - b + c) % n
<1> DEFINE qb == b \div n
           r == b % n
           s == (a - b + c) % n
           q == (a - b + c) \div n
<1>1. r \in 0 .. n - 1 /\ qb \in Int /\ b = n * qb + r
  BY DivisionOfInt
<1>2. ((a % n) + (c - r)) % n = (a + (c - r)) % n
  BY <1>1, c - r \in Int, RemainderOfSum, Zenon
<1>3. a - b + c \in Int
  OBVIOUS
<1>4. s \in 0 .. n - 1 /\ q \in Int /\ a - b + c = n * q + s
  BY <1>3, DivisionOfInt, Zenon
<1>5. a % n \in Int
  BY DivisionOfInt
<1> HIDE DEF qb, r, s, q
<1>6. a + (c - r) = n * (qb + q) + s
  <2>1. n * (qb + q) = n * qb + n * q
    BY <1>1, <1>4, SMT
  <2>2. n * qb \in Int /\ n * q \in Int
    BY <1>1, <1>4
  <2> QED BY <1>1, <1>4, <2>1, <2>2
<1>7. (a + (c - r)) % n = s
  <2>1. a + (c - r) \in Int /\ qb + q \in Int
    BY <1>1, <1>4
  <2> QED BY <1>4, <1>6, <2>1, RemainderUnique, Zenon
<1>8. (a % n) + (c - r) = (a % n) - r + c
  BY <1>1, <1>5
<1> QED BY <1>2, <1>7, <1>8 DEF r, s

\* A remainder by a multiple of n loses nothing of the remainder by n.
LEMMA RemainderOfRemainder ==
    ASSUME NEW n \in Nat \ {0}, NEW m \in Nat \ {0}, m % n = 0, NEW a \in Int
    PROVE  (a % m) % n = a % n
<1> DEFINE c == m \div n
           q == a \div m
           p == (a % m) \div n
           r == (a % m) % n
<1>1. c \in Int /\ m = n * c
  BY DivisionOfInt
<1>2. a % m \in Int /\ q \in Int /\ a = m * q + (a % m)
  BY DivisionOfInt
<1>3. p \in Int /\ r \in 0 .. n - 1 /\ a % m = n * p + r
  BY <1>2, DivisionOfInt
<1> HIDE DEF c, q, p, r
<1>4. a = n * (c * q + p) + r
  <2>1. m * q = n * (c * q)
    BY <1>1, <1>2, SMT
  <2>2. n * (c * q + p) = n * (c * q) + n * p
    BY <1>1, <1>2, <1>3, SMT
  <2>3. n * (c * q) \in Int /\ n * p \in Int
    BY <1>1, <1>2, <1>3
  <2> QED BY <1>2, <1>3, <2>1, <2>2, <2>3
<1>5. c * q + p \in Int
  BY <1>1, <1>2, <1>3
<1>6. r \in 0 .. n - 1
  BY <1>3
<1>7. a % n = r
  BY <1>4, <1>5, <1>6, RemainderUnique, Zenon
<1> QED BY <1>7 DEF r

\* Counting on from anywhere meets every remainder.
LEMMA EveryRemainderMet ==
    ASSUME NEW n \in Nat \ {0}, NEW a \in Int, NEW r \in 0 .. n - 1
    PROVE  \E k \in 0 .. n - 1 : (a + k) % n = r
<1> DEFINE k == (r - a) % n
<1>1. k \in 0 .. n - 1
  BY DivisionOfInt
<1>2. (k + a) % n = ((r - a) + a) % n
  BY r - a \in Int, RemainderOfSum, Zenon
<1>3. r % n = r
  BY RemainderUnique
<1>4. (r - a) + a = r /\ k + a = a + k
  BY <1>1
<1> QED BY <1>1, <1>2, <1>3, <1>4

-----------------------------------------------------------------------------
\* The length of a run is found, and is one, if the run ends at all.
LEMMA RunLengthFound ==
    ASSUME NEW n \in Nat \ {0}, NEW from \in Int, NEW S, NEW r \in 0 .. n - 1, r \notin S
    PROVE  LET run == RunLength(from, S, n)
           IN /\ run \in 0 .. n
              /\ (from + run) % n \notin S
              /\ \A j \in 0 .. run - 1 : (from + j) % n \in S
<1> DEFINE T == {k \in 0 .. n - 1 : (from + k) % n \notin S}
<1>1. T \in SUBSET Nat /\ T # {}
  <2>1. PICK k \in 0 .. n - 1 : (from + k) % n = r
    BY EveryRemainderMet
  <2>2. (from + k) % n \notin S
    BY <2>1, Zenon
  <2>3. k \in T
    BY <2>2
  <2>4. \A i \in T : i \in Nat
    OBVIOUS
  <2> HIDE DEF T
  <2> QED BY <2>3, <2>4
<1>2. PICK k \in T : \A j \in T : k <= j
  BY <1>1, Lists!LeastElement
<1>3. ASSUME NEW j \in 0 .. k - 1 PROVE (from + j) % n \in S
  BY <1>2
<1>4. /\ k \in 0 .. n /\ (from + k) % n \notin S
      /\ \A j \in 0 .. k - 1 : (from + j) % n \in S
  BY <1>2, <1>3
<1> QED BY <1>4 DEF RunLength

-----------------------------------------------------------------------------
\* Sequence numbers.

\* A sequence number is as far from another as 0 only if it is the same.
LEMMA RelativeZero ==
    ASSUME NEW nr \in SeqNr, NEW from \in SeqNr, RelativeSequenceNumber(nr, from) = 0
    PROVE  nr = from
<1> DEFINE N == NumSequenceNumbers
           H == NumSequenceNumbers \div 2
           q == (nr - from + N + H) \div N
<1>1. N \in Nat \ {0} /\ H \in Nat
  BY WindowAssumption
<1>2. /\ nr - from + N + H \in Int /\ (nr - from + N + H) % N = H
  BY <1>1 DEF RelativeSequenceNumber, SeqNr
<1>3. q \in Int /\ nr - from + N + H = N * q + H
  BY <1>1, <1>2, DivisionOfInt
<1> HIDE DEF q
<1>4. nr - from = N * (q - 1)
  BY <1>1, <1>3, SMT DEF SeqNr
<1>5. -N < nr - from /\ nr - from < N
  BY <1>1 DEF SeqNr
<1>6. q - 1 = 0
  BY <1>1, <1>3, <1>4, <1>5, SMT
<1> QED BY <1>4, <1>6, <1>1 DEF SeqNr

\* Slots may be counted from a wrapped number: the window divides the numbers.
LEMMA SlotOfNext ==
    ASSUME NEW nr \in SeqNr, NEW k \in Int
    PROVE  (((nr + 1) % NumSequenceNumbers) + k) % WindowSize = (nr + 1 + k) % WindowSize
<1> DEFINE N == NumSequenceNumbers
           W == WindowSize
           x == (nr + 1) % N
<1>1. N \in Nat \ {0} /\ W \in Nat \ {0} /\ N % W = 0 /\ nr + 1 \in Int
  BY WindowAssumption DEF SeqNr
<1>2. x \in Int
  BY <1>1, DivisionOfInt
<1>3. x % W = (nr + 1) % W
  BY <1>1, RemainderOfRemainder, Zenon
<1>4. (x + k) % W = ((x % W) + k) % W
  BY <1>1, <1>2, RemainderOfSum, Zenon
<1>5. ((nr + 1) + k) % W = (((nr + 1) % W) + k) % W
  BY <1>1, RemainderOfSum, Zenon
<1> QED BY <1>3, <1>4, <1>5, Zenon

\* What EarlyRun counts for a message on time: the slots behind that of the
\* message, as far as they have come early; the slot after them has not.
LEMMA EarlyRunFound ==
    ASSUME TypeOK, NEW d \in data, RelativeSequenceNumber(d.seq, expected) = 0
    PROVE  /\ d.seq = expected
           /\ EarlyRun(d) \in 0 .. WindowSize
           /\ \A k \in Nat : /\ After(d, k) \in Slot
                             /\ After(d, k) = (expected + (k + 1)) % WindowSize
           /\ \A k \in 0 .. EarlyRun(d) - 1 : After(d, k) \in early
           /\ After(d, EarlyRun(d)) \notin early \ {expected % WindowSize}
<1> DEFINE from == (d.seq + 1) % NumSequenceNumbers
           S == early \ {expected % WindowSize}
<1>1. d.seq \in SeqNr /\ expected \in SeqNr
  BY DEF TypeOK, Datagram
<1>2. d.seq = expected
  BY <1>1, RelativeZero
<1>3. NumSequenceNumbers \in Nat \ {0} /\ WindowSize \in Nat \ {0}
  BY WindowAssumption
<1>4. from \in Int /\ expected % WindowSize \in 0 .. WindowSize - 1
  <2>1. d.seq + 1 \in Int /\ expected \in Int
    BY <1>1 DEF SeqNr
  <2> QED BY <1>3, <2>1, DivisionOfInt
<1>5. expected % WindowSize \notin S
  OBVIOUS
<1> HIDE DEF from, S
<1>6. /\ RunLength(from, S, WindowSize) \in 0 .. WindowSize
      /\ (from + RunLength(from, S, WindowSize)) % WindowSize \notin S
      /\ \A j \in 0 .. RunLength(from, S, WindowSize) - 1 : (from + j) % WindowSize \in S
  BY <1>3, <1>4, <1>5, RunLengthFound
<1>7. ASSUME NEW k \in Nat
      PROVE  After(d, k) \in Slot /\ After(d, k) = (expected + (k + 1)) % WindowSize
  <2>1. After(d, k) = (from + k) % WindowSize /\ from + k \in Int
    BY <1>4 DEF After, from
  <2>2. After(d, k) \in Slot
    BY <2>1, <1>3, DivisionOfInt DEF Slot
  <2>3. (from + k) % WindowSize = (d.seq + 1 + k) % WindowSize
    BY <1>1, SlotOfNext DEF from
  <2>4. d.seq + 1 + k = expected + (k + 1)
    BY <1>1, <1>2 DEF SeqNr
  <2> QED BY <2>1, <2>2, <2>3, <2>4
<1>8. EarlyRun(d) = RunLength(from, S, WindowSize)
  BY DEF EarlyRun, from, S
<1>9. ASSUME NEW k \in 0 .. EarlyRun(d) - 1 PROVE After(d, k) \in early
  BY <1>6, <1>8 DEF After, from, S
<1>10. After(d, EarlyRun(d)) \notin early \ {expected % WindowSize}
  BY <1>6, <1>8 DEF After, from, S
<1> QED BY <1>2, <1>6, <1>7, <1>8, <1>9, <1>10

-----------------------------------------------------------------------------
\* Types.

USE DEF userVars, flagVars, windowVars, receiverVars

\* A wrapped number is a sequence number, a number modulo the window a slot.
LEMMA Wrapped ==
    ASSUME NEW a \in Int
    PROVE  a % NumSequenceNumbers \in SeqNr /\ a % WindowSize \in Slot
<1>1. NumSequenceNumbers \in Nat \ {0} /\ WindowSize \in Nat \ {0}
  BY WindowAssumption
<1> QED BY <1>1, DivisionOfInt DEF SeqNr, Slot

LEMMA InitTypes == Init => TypeInv
<1> SUFFICES ASSUME Init PROVE TypeInv
  OBVIOUS
<1>1. 0 \in SeqNr /\ NoMessage \in Stored
  BY WindowAssumption, BoundAssumption DEF SeqNr, Stored, NoMessage
<1>2. TypeOK
  <2>1. 0 \in 0 .. MaxMessages
    BY BoundAssumption
  <2>2. stored \in [Slot -> Stored] /\ withheld \in [Slot -> 0 .. MaxMessages]
    BY <1>1, <2>1 DEF Init
  <2>3. queuedSends \in Seq(1 .. MaxMessages) /\ released \in Seq(1 .. MaxMessages)
    BY DEF Init
  <2> QED BY <1>1, <2>1, <2>2, <2>3 DEF Init, TypeOK
<1>3. FilledSlots
  BY DEF Init, FilledSlots
<1> QED BY <1>2, <1>3 DEF TypeInv

\* The user thread and the flag.
LEMMA UserTypes == TypeInv /\ User => TypeInv'
<1> SUFFICES ASSUME TypeInv, User PROVE TypeInv'
  OBVIOUS
<1>1. CASE Enqueue
  <2>1. accepted + 1 \in 1 .. MaxMessages
    BY <1>1, BoundAssumption DEF Enqueue, TypeInv, TypeOK
  <2>2. TypeOK'
    BY <1>1, <2>1 DEF Enqueue, TypeInv, TypeOK
  <2>3. FilledSlots'
    BY <1>1 DEF Enqueue, TypeInv, FilledSlots
  <2> QED BY <2>2, <2>3 DEF TypeInv
<1>2. CASE Flag
  BY <1>2 DEF Flag, TypeInv, TypeOK, FilledSlots
<1> QED BY <1>1, <1>2 DEF User

LEMMA FlushTypes == TypeInv /\ (TestFlush \/ ClearFlush) => TypeInv'
BY DEF TestFlush, ClearFlush, TypeInv, TypeOK, FilledSlots

\* SendQueuedMessages takes messages from the queue into slots and to the wire.
LEMMA SendTypes ==
    ASSUME TypeInv, NEW due \in SUBSET StoredSlots, SendQueuedMessages(due)
    PROVE  TypeInv'
<1> DEFINE num == SendCount
           sends == {[seq |-> SendNr(j), msg |-> queuedSends[j]] : j \in 1 .. num}
           resends == {[seq |-> stored[i].seq, msg |-> stored[i].msg] : i \in due}
           slot(i) == IF \E d \in sends : d.seq % WindowSize = i
                      THEN LET d == CHOOSE d \in sends : d.seq % WindowSize = i
                           IN [msg |-> d.msg, seq |-> d.seq, once |-> stored[i] = NoMessage]
                      ELSE IF i \in due THEN [stored[i] EXCEPT !.once = FALSE] ELSE stored[i]
<1>0. TypeOK /\ FilledSlots
  BY DEF TypeInv
<1>1. Len(queuedSends) \in Nat /\ queuedSends \in Seq(1 .. MaxMessages)
  BY <1>0 DEF TypeOK
<1>2. num \in 0 .. Len(queuedSends) /\ sendStart \in Int
  <2>1. ((sendStart + NumSequenceNumbers) - windowStart) \in Int /\ sendStart \in Int
    BY <1>0, WindowAssumption DEF TypeOK, SeqNr
  <2>2. ((sendStart + NumSequenceNumbers) - windowStart) % NumSequenceNumbers \in SeqNr
    BY <2>1, Wrapped
  <2>3. GetAllowedSends \in Int
    BY <2>2, WindowAssumption DEF GetAllowedSends, SeqNr
  <2> QED BY <1>1, <2>1, <2>3 DEF SendCount
<1> HIDE DEF num
<1>3. \A j \in 1 .. num : SendNr(j) \in SeqNr /\ queuedSends[j] \in 1 .. MaxMessages
  <2> TAKE j \in 1 .. num
  <2>1. sendStart + j - 1 \in Int /\ j \in 1 .. Len(queuedSends)
    BY <1>1, <1>2
  <2>2. SendNr(j) \in SeqNr
    BY <2>1, Wrapped, Zenon DEF SendNr
  <2>3. queuedSends[j] \in 1 .. MaxMessages
    BY <1>1, <2>1, ElementOfSeq
  <2> QED BY <2>2, <2>3
<1>4. sends \subseteq Datagram
  BY <1>3 DEF Datagram
<1>5. \A i \in Slot : stored[i] \in Stored
  BY <1>0 DEF TypeOK
<1>6. \A i \in due : i \in Slot /\ stored[i].msg # 0
  BY <1>0 DEF StoredSlots, FilledSlots
<1>7. resends \subseteq Datagram
  <2> SUFFICES ASSUME NEW i \in due
               PROVE  [seq |-> stored[i].seq, msg |-> stored[i].msg] \in Datagram
    OBVIOUS
  <2>1. stored[i].seq \in SeqNr /\ stored[i].msg \in 1 .. MaxMessages
    BY <1>5, <1>6 DEF Stored
  <2> QED BY <2>1 DEF Datagram
<1> HIDE DEF sends, resends
<1>8. ASSUME NEW i \in Slot
      PROVE  slot(i) \in Stored /\ (slot(i).msg = 0 => slot(i) = NoMessage)
  <2>1. CASE \E d \in sends : d.seq % WindowSize = i
    <3> DEFINE d == CHOOSE d \in sends : d.seq % WindowSize = i
    <3>1. d \in sends
      BY <2>1
    <3>2. d.msg \in 1 .. MaxMessages /\ d.seq \in SeqNr
      BY <3>1, <1>4 DEF Datagram
    <3> HIDE DEF d
    <3> DEFINE new == [msg |-> d.msg, seq |-> d.seq, once |-> stored[i] = NoMessage]
    <3>3. new \in Stored /\ new.msg # 0
      BY <3>2 DEF Stored
    <3>4. slot(i) = new
      BY <2>1 DEF d
    <3> HIDE DEF new, slot
    <3> QED BY <3>3, <3>4
  <2>2. CASE ~(\E d \in sends : d.seq % WindowSize = i)
    <3>1. CASE i \in due
      <4>1. slot(i) = [stored[i] EXCEPT !.once = FALSE]
        BY <2>2, <3>1
      <4>2. stored[i] \in Stored /\ stored[i].msg # 0
        BY <1>5, <1>6, <3>1
      <4>3. [stored[i] EXCEPT !.once = FALSE] \in Stored
            /\ [stored[i] EXCEPT !.once = FALSE].msg = stored[i].msg
        BY <4>2 DEF Stored
      <4> HIDE DEF slot
      <4> QED BY <4>1, <4>2, <4>3
    <3>2. CASE i \notin due
      <4>1. slot(i) = stored[i]
        BY <2>2, <3>2
      <4> HIDE DEF slot
      <4> QED BY <4>1, <1>5, <1>0 DEF FilledSlots
    <3> QED BY <3>1, <3>2
  <2> QED BY <2>1, <2>2
<1>9. /\ sendStart' = (sendStart + num) % NumSequenceNumbers
      /\ queuedSends' = SubSeq(queuedSends, num + 1, Len(queuedSends))
      /\ data' = Alive(data \cup resends \cup sends, Sent + num)
      /\ acks' = Alive(acks, Sent + num)
      /\ flush' = "no"
      /\ needFlush' = (needFlush \/ NeedToSendMessages(queuedSends', stored'))
      /\ UNCHANGED <<userVars, windowStart, receivedAcks, receiverVars>>
  BY DEF SendQueuedMessages, num, sends, resends
<1>10. stored' = [i \in Slot |-> slot(i)]
  BY DEF SendQueuedMessages, num, sends, resends
<1> HIDE DEF slot
<1>11. stored' \in [Slot -> Stored]
       /\ \A i \in Slot : stored'[i].msg = 0 => stored'[i] = NoMessage
  BY <1>8, <1>10
<1>12. sendStart' \in SeqNr
  <2>1. sendStart + num \in Int
    BY <1>2
  <2> QED BY <1>9, <2>1, Wrapped
<1>13. queuedSends' \in Seq(1 .. MaxMessages)
  <2>1. num + 1 \in Int /\ Len(queuedSends) \in Int
    BY <1>1, <1>2
  <2>2. ASSUME NEW i \in num + 1 .. Len(queuedSends) PROVE queuedSends[i] \in 1 .. MaxMessages
    <3>1. i \in 1 .. Len(queuedSends)
      BY <1>2, <2>1
    <3> QED BY <1>1, <3>1, ElementOfSeq
  <2>3. SubSeq(queuedSends, num + 1, Len(queuedSends)) \in Seq(1 .. MaxMessages)
    BY <2>1, <2>2, SubSeqProperties
  <2> QED BY <1>9, <2>3
<1>14. data' \subseteq Datagram /\ acks' \subseteq Datagram
  BY <1>0, <1>4, <1>7, <1>9 DEF Alive, TypeOK
<1>15. needFlush' \in BOOLEAN
  <2>1. needFlush \in BOOLEAN
    BY <1>0 DEF TypeOK
  <2> QED BY <1>9, <2>1 DEF NeedToSendMessages
<1>16. TypeOK'
  BY <1>0, <1>9, <1>11, <1>12, <1>13, <1>14, <1>15 DEF TypeOK
<1>17. FilledSlots'
  BY <1>0, <1>9, <1>11 DEF FilledSlots
<1> QED BY <1>16, <1>17 DEF TypeInv

\* An empty slot that is marked stays empty.
LEMMA MarkedEmpty == [NoMessage EXCEPT !.once = FALSE] = NoMessage
<1> DEFINE R == [msg : {0}, seq : {0}, once : {FALSE}]
           empty == [msg |-> 0, seq |-> 0, once |-> FALSE]
<1>1. [empty EXCEPT !.once = FALSE] \in R
  OBVIOUS
<1>2. ASSUME NEW r \in R PROVE r = empty
  <2>1. r.msg = 0 /\ r.seq = 0 /\ r.once = FALSE
    OBVIOUS
  <2>2. r = [msg |-> r.msg, seq |-> r.seq, once |-> r.once]
    OBVIOUS
  <2> QED BY <2>1, <2>2
<1> HIDE DEF R
<1> QED BY <1>1, <1>2 DEF NoMessage

\* Acknowledgements empty slots or mark them.
LEMMA AcknowledgeTypes ==
    ASSUME TypeInv, NEW a \in acks, ReceiveAcknowledge(a)
    PROVE  TypeInv'
<1>0. TypeOK /\ FilledSlots
  BY DEF TypeInv
<1>1. /\ a.seq \in SeqNr /\ windowStart \in SeqNr /\ windowStart \in Int
      /\ receivedAcks \subseteq SeqNr /\ needFlush \in BOOLEAN
  BY <1>0 DEF TypeOK, Datagram, SeqNr
<1>2. \A i \in Slot : stored[i] \in Stored /\ (stored[i].msg = 0 => stored[i] = NoMessage)
  BY <1>0 DEF TypeOK, FilledSlots
<1>3. UNCHANGED <<accepted, enqueuing, queuedSends, flush, acks, expected, early,
                  withheld, released>>
  BY DEF ReceiveAcknowledge
<1>4. ASSUME /\ windowStart' \in SeqNr /\ sendStart' = sendStart
             /\ receivedAcks' \subseteq SeqNr /\ needFlush' \in BOOLEAN
             /\ data' \subseteq Datagram
             /\ stored' \in [Slot -> Stored]
             /\ \A i \in Slot : stored'[i].msg = 0 => stored'[i] = NoMessage
      PROVE  TypeInv'
  <2>1. TypeOK'
    BY <1>0, <1>3, <1>4 DEF TypeOK
  <2>2. FilledSlots'
    BY <1>0, <1>3, <1>4 DEF FilledSlots
  <2> QED BY <2>1, <2>2 DEF TypeInv
<1>5. CASE AcknowledgeOnTime(a)
  <2> DEFINE run == RunLength(windowStart + 1, receivedAcks \ {windowStart}, NumSequenceNumbers)
             gone == {(windowStart + k) % NumSequenceNumbers : k \in 0 .. run}
  <2>1. run \in Int
    <3>1. NumSequenceNumbers \in Nat \ {0} /\ windowStart \in 0 .. NumSequenceNumbers - 1
      BY <1>1, WindowAssumption DEF SeqNr
    <3>2. windowStart + 1 \in Int /\ windowStart \notin receivedAcks \ {windowStart}
      BY <1>1
    <3>3. run \in 0 .. NumSequenceNumbers
      BY <3>1, <3>2, RunLengthFound, Zenon
    <3> QED BY <3>1, <3>3
  <2> HIDE DEF run, gone
  <2>2. /\ windowStart' = (windowStart + 1 + run) % NumSequenceNumbers
        /\ receivedAcks' = receivedAcks \ gone
        /\ stored' = [i \in Slot |-> IF \E nr \in gone : nr % WindowSize = i
                                     THEN NoMessage ELSE stored[i]]
        /\ UNCHANGED <<sendStart, needFlush, data>>
    BY <1>5 DEF AcknowledgeOnTime, run, gone
  <2>3. windowStart' \in SeqNr
    <3>1. windowStart + 1 + run \in Int
      BY <1>1, <2>1
    <3> QED BY <2>2, <3>1, Wrapped
  <2>4. NoMessage \in Stored
    BY WindowAssumption, BoundAssumption DEF NoMessage, Stored, SeqNr
  <2>5. stored' \in [Slot -> Stored] /\ \A i \in Slot : stored'[i].msg = 0 => stored'[i] = NoMessage
    BY <1>2, <2>2, <2>4
  <2> QED BY <1>0, <1>1, <1>4, <2>2, <2>3, <2>5 DEF TypeOK
<1>6. ASSUME NEW again \in SUBSET Holes(a.seq), AcknowledgeEarly(a, again)
      PROVE  TypeInv'
  <2> DEFINE resends == {[seq |-> nr, msg |-> stored[nr % WindowSize].msg] : nr \in again}
  <2>1. /\ receivedAcks' = receivedAcks \cup {a.seq}
        /\ stored' = [i \in Slot |-> IF \E nr \in again : nr % WindowSize = i
                                     THEN [stored[i] EXCEPT !.once = FALSE] ELSE stored[i]]
        /\ data' = data \cup resends
        /\ needFlush' \in BOOLEAN
        /\ UNCHANGED <<windowStart, sendStart>>
    BY <1>1, <1>6 DEF AcknowledgeEarly
  <2>2. ASSUME NEW nr \in again
        PROVE  nr \in SeqNr /\ nr % WindowSize \in Slot /\ stored[nr % WindowSize].once
    <3>1. PICK k \in 0 .. RelativeSequenceNumber(a.seq, windowStart) - 1 :
            nr = (windowStart + k) % NumSequenceNumbers
      BY DEF Holes
    <3>2. windowStart + k \in Int
      BY <1>1, <3>1
    <3>3. nr \in SeqNr /\ nr \in Int
      BY <3>1, <3>2, Wrapped DEF SeqNr
    <3>4. nr % WindowSize \in Slot
      BY <3>3, Wrapped
    <3> QED BY <3>3, <3>4 DEF Holes
  <2>3. ASSUME NEW nr \in again
        PROVE  [seq |-> nr, msg |-> stored[nr % WindowSize].msg] \in Datagram
    <3> DEFINE s == stored[nr % WindowSize]
    <3>1. s \in Stored /\ (s.msg = 0 => s = NoMessage) /\ s.once
      BY <1>2, <2>2
    <3> HIDE DEF s
    <3>2. s.msg # 0
      BY <3>1 DEF NoMessage
    <3>3. s.msg \in 1 .. MaxMessages
      BY <3>1, <3>2, BoundAssumption DEF Stored
    <3> QED BY <2>2, <3>3 DEF Datagram, s
  <2>4. data' \subseteq Datagram
    BY <1>0, <2>1, <2>3 DEF TypeOK
  <2> HIDE DEF resends
  <2>5. ASSUME NEW i \in Slot
        PROVE  LET s == [stored[i] EXCEPT !.once = FALSE]
               IN s \in Stored /\ (s.msg = 0 => s = NoMessage)
    <3>1. stored[i] \in Stored
      BY <1>2
    <3>2. [stored[i] EXCEPT !.once = FALSE] \in Stored
          /\ [stored[i] EXCEPT !.once = FALSE].msg = stored[i].msg
      BY <3>1 DEF Stored
    <3>3. ASSUME stored[i].msg = 0 PROVE [stored[i] EXCEPT !.once = FALSE] = NoMessage
      <4>1. stored[i] = NoMessage
        BY <1>2, <3>3
      <4> QED BY <4>1, MarkedEmpty, Zenon
    <3> QED BY <3>2, <3>3
  <2>6. stored' \in [Slot -> Stored] /\ \A i \in Slot : stored'[i].msg = 0 => stored'[i] = NoMessage
    BY <1>2, <2>1, <2>5
  <2> QED BY <1>1, <1>4, <2>1, <2>4, <2>6
<1> QED BY <1>5, <1>6 DEF ReceiveAcknowledge

\* A wire that loses something carries less.
LEMMA LossTypes ==
    ASSUME TypeInv, NEW d \in data \cup acks, Lose(d)
    PROVE  TypeInv'
BY DEF Lose, TypeInv, TypeOK, FilledSlots

\* What the three receivers have in common.
LEMMA ReceiverTypes ==
    ASSUME TypeInv, NEW d \in data, ReceiveMessage(d),
           expected' \in SeqNr, early' \subseteq Slot,
           withheld' \in [Slot -> 0 .. MaxMessages], released' \in Seq(1 .. MaxMessages),
           Method = "ReliableOrdered" => \A i \in early' : withheld'[i] # 0
    PROVE  TypeInv'
<1>1. TypeOK'
  BY DEF ReceiveMessage, TypeInv, TypeOK
<1>2. FilledSlots'
  BY DEF ReceiveMessage, TypeInv, FilledSlots
<1> QED BY <1>1, <1>2 DEF TypeInv

\* A message on time moves the window on and clears the slots it passes.
LEMMA AdvanceTypes ==
    ASSUME TypeOK, NEW d \in data, RelativeSequenceNumber(d.seq, expected) = 0,
           Advance(EarlyRun(d))
    PROVE  expected' \in SeqNr /\ early' \subseteq early
<1>1. EarlyRun(d) \in Int
  <2>1. EarlyRun(d) \in 0 .. WindowSize
    BY EarlyRunFound
  <2> QED BY <2>1, WindowAssumption
<1>2. expected + 1 + EarlyRun(d) \in Int
  BY <1>1 DEF TypeOK, SeqNr
<1> QED BY <1>2, Wrapped DEF Advance

\* The messages that were withheld are there when their turn comes.
LEMMA OrderedTypes ==
    ASSUME TypeInv, Method = "ReliableOrdered", NEW d \in data, ReceiveMessage(d)
    PROVE  TypeInv'
<1> DEFINE relate == RelativeSequenceNumber(d.seq, expected)
           run == EarlyRun(d)
<1>0. TypeOK /\ FilledSlots
  BY DEF TypeInv
<1>1. d.seq \in SeqNr /\ d.msg \in 1 .. MaxMessages /\ d.seq % WindowSize \in Slot
  <2>1. d.seq \in SeqNr /\ d.msg \in 1 .. MaxMessages
    BY <1>0 DEF TypeOK, Datagram
  <2>2. d.seq \in Int
    BY <2>1 DEF SeqNr
  <2> QED BY <2>1, <2>2, Wrapped
<1>2. /\ expected \in SeqNr /\ early \subseteq Slot /\ withheld \in [Slot -> 0 .. MaxMessages]
      /\ released \in Seq(1 .. MaxMessages) /\ \A i \in early : withheld[i] # 0
  BY <1>0 DEF TypeOK, FilledSlots
<1>3. ReceiveOrdered(d, relate)
  BY DEF ReceiveMessage
<1>4. CASE relate = 0
  <2>1. CASE /\ Advance(run)
             /\ withheld' = [i \in Slot |->
                   IF \E k \in 0 .. run - 1 : After(d, k) = i THEN 0 ELSE withheld[i]]
             /\ released' = released \o <<d.msg>>
                               \o [k \in 1 .. run |-> withheld[After(d, k - 1)]]
    <3>1. /\ run \in Nat /\ \A k \in Nat : After(d, k) \in Slot
          /\ \A k \in Nat : After(d, k) = (expected + (k + 1)) % WindowSize
          /\ \A k \in 0 .. run - 1 : After(d, k) \in early
      <4>1. run \in 0 .. WindowSize
        BY <1>0, <1>4, EarlyRunFound
      <4>2. run \in Nat
        BY <4>1, WindowAssumption
      <4> QED BY <1>0, <1>4, <4>2, EarlyRunFound
    <3>2. expected' \in SeqNr /\ early' \subseteq early
      BY <1>0, <1>4, <2>1, AdvanceTypes
    <3>3. withheld' \in [Slot -> 0 .. MaxMessages]
      BY <1>2, <2>1, BoundAssumption
    <3>4. [k \in 1 .. run |-> withheld[After(d, k - 1)]] \in Seq(1 .. MaxMessages)
      <4>1. ASSUME NEW k \in 1 .. run PROVE withheld[After(d, k - 1)] \in 1 .. MaxMessages
        <5>1. k - 1 \in 0 .. run - 1
          BY <3>1
        <5>2. After(d, k - 1) \in early
          BY <3>1, <5>1
        <5>3. withheld[After(d, k - 1)] # 0 /\ withheld[After(d, k - 1)] \in 0 .. MaxMessages
          BY <1>2, <5>2
        <5> QED BY <5>3, BoundAssumption
      <4> HIDE DEF run
      <4> QED BY <3>1, <4>1
    <3>5. released' \in Seq(1 .. MaxMessages)
      <4>1. <<d.msg>> \in Seq(1 .. MaxMessages)
        BY <1>1
      <4>2. released \o <<d.msg>> \in Seq(1 .. MaxMessages)
        BY <1>2, <4>1, ConcatProperties
      <4> QED BY <2>1, <3>4, <4>2, ConcatProperties
    <3>6. ASSUME NEW i \in early' PROVE withheld'[i] # 0
      <4>1. ASSUME NEW k \in 0 .. run - 1 PROVE After(d, k) # i
        <5>1. k \in Nat /\ k + 1 \in 0 .. run
          BY <3>1
        <5>2. After(d, k) = (expected + (k + 1)) % WindowSize
          BY <3>1, <5>1
        <5>3. early' = early \ {(expected + j) % WindowSize : j \in 0 .. run}
          BY <2>1 DEF Advance
        <5> HIDE DEF run
        <5>4. After(d, k) \in {(expected + j) % WindowSize : j \in 0 .. run}
          BY <5>1, <5>2, Zenon
        <5> QED BY <5>3, <5>4
      <4>2. i \in Slot /\ withheld[i] # 0
        BY <1>2, <3>2
      <4> HIDE DEF run
      <4> QED BY <2>1, <4>1, <4>2
    <3> QED BY <1>2, <3>2, <3>3, <3>5, <3>6, ReceiverTypes
  <2>2. ~(relate \in 1 .. WindowSize) /\ ~(relate < 0 \/ relate > WindowSize)
    BY <1>4, WindowAssumption
  <2> QED BY <1>3, <2>1, <2>2 DEF ReceiveOrdered
<1>5. CASE /\ early' = early \cup {d.seq % WindowSize}
           /\ withheld' = [withheld EXCEPT ![d.seq % WindowSize] = d.msg]
           /\ UNCHANGED <<expected, released>>
  <2> DEFINE i == d.seq % WindowSize
  <2>1. i \in Slot
    BY <1>1
  <2> HIDE DEF i
  <2>2. early' = early \cup {i} /\ withheld' = [withheld EXCEPT ![i] = d.msg]
    BY <1>5 DEF i
  <2>3. d.msg \in 0 .. MaxMessages /\ d.msg # 0
    BY <1>1, BoundAssumption
  <2>4. withheld' \in [Slot -> 0 .. MaxMessages] /\ early' \subseteq Slot
    BY <1>2, <2>1, <2>2, <2>3
  <2>5. \A j \in early' : withheld'[j] # 0
    BY <1>2, <2>1, <2>2, <2>3
  <2> QED BY <1>2, <1>5, <2>4, <2>5, ReceiverTypes
<1>6. CASE UNCHANGED receiverVars
  BY <1>2, <1>6, ReceiverTypes
<1> QED BY <1>3, <1>4, <1>5, <1>6 DEF ReceiveOrdered

LEMMA UnorderedTypes ==
    ASSUME TypeInv, Method = "ReliableUnordered", NEW d \in data, ReceiveMessage(d)
    PROVE  TypeInv'
<1> DEFINE relate == RelativeSequenceNumber(d.seq, expected)
<1>0. TypeOK
  BY DEF TypeInv
<1>1. /\ d.msg \in 1 .. MaxMessages /\ expected \in SeqNr /\ early \subseteq Slot
      /\ withheld \in [Slot -> 0 .. MaxMessages] /\ released \in Seq(1 .. MaxMessages)
  BY <1>0 DEF TypeOK, Datagram
<1>2. d.seq % WindowSize \in Slot
  <2>1. d.seq \in Int
    BY <1>0 DEF TypeOK, Datagram, SeqNr
  <2> QED BY <2>1, Wrapped
<1>3. ReceiveUnordered(d, relate) /\ Method # "ReliableOrdered"
  BY DEF ReceiveMessage
<1>4. withheld' = withheld /\ (released' = released \/ released' = Append(released, d.msg))
  BY <1>3 DEF ReceiveUnordered
<1>5. released' \in Seq(1 .. MaxMessages)
  <2>1. Append(released, d.msg) \in Seq(1 .. MaxMessages)
    BY <1>1, AppendProperties
  <2> QED BY <1>1, <1>4, <2>1
<1>6. expected' \in SeqNr /\ early' \subseteq Slot
  <2>1. CASE relate = 0 /\ Advance(EarlyRun(d))
    BY <1>0, <1>1, <2>1, AdvanceTypes
  <2>2. CASE expected' = expected /\ (early' = early \/ early' = early \cup {d.seq % WindowSize})
    BY <1>1, <1>2, <2>2
  <2> QED BY <1>3, <2>1, <2>2 DEF ReceiveUnordered
<1> QED BY <1>1, <1>3, <1>4, <1>5, <1>6, ReceiverTypes

LEMMA SequencedTypes ==
    ASSUME TypeInv, Method = "ReliableSequenced", NEW d \in data, ReceiveMessage(d)
    PROVE  TypeInv'
<1> DEFINE relate == RelativeSequenceNumber(d.seq, expected)
<1>0. TypeOK
  BY DEF TypeInv
<1>1. /\ d.msg \in 1 .. MaxMessages /\ expected \in SeqNr /\ early \subseteq Slot
      /\ withheld \in [Slot -> 0 .. MaxMessages] /\ released \in Seq(1 .. MaxMessages)
  BY <1>0 DEF TypeOK, Datagram
<1>2. ReceiveSequenced(d, relate) /\ Method # "ReliableOrdered"
  BY DEF ReceiveMessage
<1>3. UNCHANGED <<early, withheld>>
      /\ (released' = released \/ released' = Append(released, d.msg))
  BY <1>2 DEF ReceiveSequenced
<1>4. released' \in Seq(1 .. MaxMessages)
  <2>1. Append(released, d.msg) \in Seq(1 .. MaxMessages)
    BY <1>1, AppendProperties
  <2> QED BY <1>1, <1>3, <2>1
<1>5. expected' \in SeqNr
  <2>1. CASE expected' = (expected + 1) % NumSequenceNumbers
    <3>1. expected + 1 \in Int
      BY <1>1 DEF SeqNr
    <3> QED BY <2>1, <3>1, Wrapped
  <2>2. CASE relate \in 1 .. WindowSize /\ expected' = (expected + relate) % NumSequenceNumbers
    <3>1. expected \in Int /\ relate \in Int
      BY <1>1, <2>2 DEF SeqNr
    <3> HIDE DEF relate
    <3>2. expected + relate \in Int
      BY <3>1
    <3> QED BY <2>2, <3>2, Wrapped
  <2>3. CASE expected' = expected
    BY <1>1, <2>3
  <2> QED BY <1>2, <2>1, <2>2, <2>3 DEF ReceiveSequenced
<1> QED BY <1>1, <1>2, <1>3, <1>4, <1>5, ReceiverTypes

\* The state of the channel has its types, and what a bit says is received is
\* there.
THEOREM ChannelTypeInvariant == Spec => []TypeInv
<1>1. ASSUME TypeInv, [Next]_vars PROVE TypeInv'
  <2>1. CASE User
    BY <1>1, <2>1, UserTypes
  <2>2. CASE TestFlush \/ ClearFlush
    BY <1>1, <2>2, FlushTypes
  <2>3. ASSUME NEW due \in SUBSET StoredSlots, SendQueuedMessages(due) PROVE TypeInv'
    BY <1>1, <2>3, SendTypes
  <2>4. ASSUME NEW a \in acks, ReceiveAcknowledge(a) PROVE TypeInv'
    BY <1>1, <2>4, AcknowledgeTypes
  <2>5. ASSUME NEW d \in data, ReceiveMessage(d) PROVE TypeInv'
    BY <1>1, <2>5, OrderedTypes, UnorderedTypes, SequencedTypes, MethodAssumption
  <2>6. ASSUME NEW d \in data \cup acks, Lose(d) PROVE TypeInv'
    BY <1>1, <2>6, LossTypes
  <2>7. CASE UNCHANGED vars
    BY <1>1, <2>7 DEF vars, TypeInv, TypeOK, FilledSlots
  <2> QED BY <1>1, <2>1, <2>2, <2>3, <2>4, <2>5, <2>6, <2>7 DEF Next, Sender, Wire
<1> QED BY <1>1, InitTypes, PTL DEF Spec

\* TypeOK for every size of window and of numbers: in particular, what an
\* ordered receiver releases are messages, never an empty slot (the assertion
\* that a withheld message is not null).
THEOREM ChannelTypeCorrect == Spec => []TypeOK
<1>1. TypeInv => TypeOK
  BY DEF TypeInv
<1> QED BY <1>1, ChannelTypeInvariant, PTL

-----------------------------------------------------------------------------
\* No interleaving of Enqueue, the test of the flag, its clearing and the
\* sending leaves a message unsent with nobody to look at it: the comment at
\* "m_needFlushSendQueue = true" is right about the race.
THEOREM NothingForgotten == Spec => []UnsentIsFlagged
<1>1. Init => UnsentIsFlagged
  BY DEF Init, UnsentIsFlagged, StoredSlots
<1>2. ASSUME TypeInv, UnsentIsFlagged, [Next]_vars PROVE UnsentIsFlagged'
  <2>0. TypeOK /\ FilledSlots
    BY <1>2 DEF TypeInv
  <2>1. CASE Enqueue
    BY <2>1 DEF Enqueue, UnsentIsFlagged
  <2>2. CASE Flag
    BY <2>2 DEF Flag, UnsentIsFlagged
  <2>3. CASE TestFlush
    BY <2>3 DEF TestFlush, UnsentIsFlagged
  <2>4. CASE ClearFlush
    BY <2>4 DEF ClearFlush, UnsentIsFlagged
  <2>5. ASSUME NEW due \in SUBSET StoredSlots, SendQueuedMessages(due) PROVE UnsentIsFlagged'
    BY <2>5 DEF SendQueuedMessages, UnsentIsFlagged, StoredSlots, NeedToSendMessages
  <2>6. ASSUME NEW a \in acks, ReceiveAcknowledge(a) PROVE UnsentIsFlagged'
    <3>1. needFlush => needFlush'
      BY <2>0, <2>6 DEF ReceiveAcknowledge, AcknowledgeOnTime, AcknowledgeEarly, TypeOK
    <3>2. UNCHANGED <<queuedSends, enqueuing, flush>>
      BY <2>6 DEF ReceiveAcknowledge
    <3>3. StoredSlots' \subseteq StoredSlots
      <4>1. CASE AcknowledgeOnTime(a)
        BY <4>1 DEF AcknowledgeOnTime, StoredSlots
      <4>2. ASSUME NEW again \in SUBSET Holes(a.seq), AcknowledgeEarly(a, again)
            PROVE  StoredSlots' \subseteq StoredSlots
        <5>1. ASSUME NEW i \in Slot, stored[i] = NoMessage PROVE stored'[i] = NoMessage
          <6>1. stored'[i] = stored[i] \/ stored'[i] = [stored[i] EXCEPT !.once = FALSE]
            BY <4>2 DEF AcknowledgeEarly
          <6> QED BY <5>1, <6>1, MarkedEmpty, Zenon
        <5> QED BY <5>1 DEF StoredSlots
      <4> QED BY <2>6, <4>1, <4>2 DEF ReceiveAcknowledge
    <3> QED BY <1>2, <3>1, <3>2, <3>3 DEF UnsentIsFlagged
  <2>7. CASE Wire
    BY <1>2, <2>7 DEF Wire, ReceiveMessage, Lose, UnsentIsFlagged, StoredSlots
  <2>8. CASE UNCHANGED vars
    BY <1>2, <2>8 DEF vars, UnsentIsFlagged, StoredSlots
  <2> QED BY <1>2, <2>1, <2>2, <2>3, <2>4, <2>5, <2>6, <2>7, <2>8 DEF Next, User, Sender
<1> QED BY <1>1, <1>2, ChannelTypeInvariant, PTL DEF Spec

-----------------------------------------------------------------------------
\* Numbers and slots of messages that lie close together.

\* Half of the numbers.
Half == NumSequenceNumbers \div 2

\* What the assumptions say of the sizes: a window and half of the numbers fit
\* into the numbers with room to spare.
LEMMA Sizes ==
    /\ NumSequenceNumbers \in Nat \ {0} /\ WindowSize \in Nat \ {0}
    /\ NumSequenceNumbers % WindowSize = 0
    /\ Half \in Nat /\ Lifetime \in Nat /\ MaxMessages \in Nat
    /\ WindowSize <= Half /\ Lifetime <= Half
    /\ WindowSize + Half < NumSequenceNumbers
<1>1. /\ NumSequenceNumbers \in Nat \ {0} /\ Lifetime \in Nat /\ WindowSize \in Nat \ {0}
      /\ NumSequenceNumbers % WindowSize = 0 /\ MaxMessages \in Nat
      /\ 2 * WindowSize < NumSequenceNumbers /\ 2 * Lifetime <= NumSequenceNumbers
  BY WindowAssumption, LifetimeAssumption, BoundAssumption
<1>2. /\ Half \in Int /\ NumSequenceNumbers = 2 * Half + (NumSequenceNumbers % 2)
      /\ NumSequenceNumbers % 2 \in 0 .. 1
  BY <1>1 DEF Half
<1> QED BY <1>1, <1>2

\* Numbers less than half of the circle apart are related as what they stand for.
LEMMA RelativeOfNear ==
    ASSUME NEW a \in Int, NEW b \in Int, -Half <= a - b, a - b <= WindowSize
    PROVE  RelativeSequenceNumber(a % NumSequenceNumbers, b % NumSequenceNumbers) = a - b
<1> DEFINE N == NumSequenceNumbers
           x == a % N
           y == b % N
<1>1. /\ N \in Nat \ {0} /\ Half \in Nat /\ WindowSize \in Nat /\ WindowSize + Half < N
      /\ N + Half \in Int
  BY Sizes
<1>2. x \in Int /\ y \in Int
  BY <1>1, DivisionOfInt
<1>3. (x - y + (N + Half)) % N = (a - b + (N + Half)) % N
  BY <1>1, RemainderOfDifference, Zenon
<1>4. (a - b + (N + Half)) % N = a - b + Half
  <2>1. a - b + Half \in 0 .. N - 1 /\ a - b + (N + Half) = N * 1 + (a - b + Half)
        /\ a - b + (N + Half) \in Int /\ 1 \in Int
    BY <1>1
  <2> QED BY <1>1, <2>1, RemainderUnique, Zenon
<1> HIDE DEF x, y, N
<1>5. x - y + N + Half = x - y + (N + Half)
  BY <1>1, <1>2
<1>6. RelativeSequenceNumber(x, y) = ((x - y + (N + Half)) % N) - Half
  BY <1>5 DEF RelativeSequenceNumber, Half, N
<1>7. RelativeSequenceNumber(x, y) = (a - b + Half) - Half
  BY <1>3, <1>4, <1>6
<1> QED BY <1>1, <1>7 DEF x, y, N

\* A slot may be found from the wrapped number.
LEMMA SlotOfNumber ==
    ASSUME NEW a \in Int
    PROVE  /\ (a % NumSequenceNumbers) % WindowSize = a % WindowSize
           /\ a % NumSequenceNumbers \in SeqNr /\ a % WindowSize \in Slot
BY Sizes, RemainderOfRemainder, Wrapped, Zenon

\* The number of a message leads to its slot.
LEMMA NumberFacts ==
    ASSUME NEW m \in Int
    PROVE  /\ Number(m) \in SeqNr /\ Place(m) \in Slot
           /\ Number(m) % WindowSize = Place(m)
<1>1. m - 1 \in Int
  OBVIOUS
<1> QED BY <1>1, SlotOfNumber, Zenon DEF Number, Place

\* Counting on from a wrapped number.
LEMMA CountedOn ==
    ASSUME NEW a \in Int, NEW k \in Int
    PROVE  /\ ((a % NumSequenceNumbers) + k) % NumSequenceNumbers = (a + k) % NumSequenceNumbers
           /\ ((a % NumSequenceNumbers) + k) % WindowSize = (a + k) % WindowSize
<1> DEFINE x == a % NumSequenceNumbers
<1>1. NumSequenceNumbers \in Nat \ {0} /\ WindowSize \in Nat \ {0}
  BY Sizes
<1>2. x \in Int /\ x % WindowSize = a % WindowSize
  <2>1. x \in Int
    BY <1>1, DivisionOfInt
  <2> QED BY <2>1, SlotOfNumber, Zenon
<1>3. (x + k) % NumSequenceNumbers = (a + k) % NumSequenceNumbers
  BY <1>1, RemainderOfSum, Zenon
<1>4. (x + k) % WindowSize = ((x % WindowSize) + k) % WindowSize
  BY <1>1, <1>2, RemainderOfSum, Zenon
<1>5. ((a % WindowSize) + k) % WindowSize = (a + k) % WindowSize
  BY <1>1, RemainderOfSum, Zenon
<1> QED BY <1>2, <1>3, <1>4, <1>5, Zenon

\* Different messages of one window have different numbers and slots.
LEMMA SameNumber ==
    ASSUME NEW m \in Int, NEW n \in Int, Number(m) = Number(n),
           m - n < NumSequenceNumbers, n - m < NumSequenceNumbers
    PROVE  m = n
<1>1. /\ m - 1 \in Int /\ n - 1 \in Int
      /\ (m - 1) - (n - 1) < NumSequenceNumbers /\ (n - 1) - (m - 1) < NumSequenceNumbers
  BY Sizes
<1>2. m - 1 = n - 1
  BY <1>1, Sizes, SameRemainder, Zenon DEF Number
<1> QED BY <1>2

LEMMA SamePlace ==
    ASSUME NEW m \in Int, NEW n \in Int, Place(m) = Place(n),
           m - n < WindowSize, n - m < WindowSize
    PROVE  m = n
<1>1. /\ m - 1 \in Int /\ n - 1 \in Int
      /\ (m - 1) - (n - 1) < WindowSize /\ (n - 1) - (m - 1) < WindowSize
  BY Sizes
<1>2. m - 1 = n - 1
  BY <1>1, Sizes, SameRemainder, Zenon DEF Place
<1> QED BY <1>2

\* The numbers of the messages after b, and after e.
LEMMA NumberAfter ==
    ASSUME NEW b \in Int, NEW k \in Int
    PROVE  /\ ((b % NumSequenceNumbers) + k) % NumSequenceNumbers = Number(b + k + 1)
           /\ ((b % NumSequenceNumbers) + k) % WindowSize = Place(b + k + 1)
<1>1. (b + k + 1) - 1 = b + k
  OBVIOUS
<1> QED BY <1>1, CountedOn, Zenon DEF Number, Place

-----------------------------------------------------------------------------
\* Steps that leave the windows alone.

\* What has been sent, and what is queued.
LEMMA SentFacts ==
    ASSUME TypeOK, QueueInv
    PROVE  /\ Len(queuedSends) \in Nat /\ DOMAIN queuedSends = 1 .. Len(queuedSends)
           /\ accepted \in 0 .. MaxMessages /\ Sent \in 0 .. MaxMessages /\ Sent \in Nat
           /\ accepted = Sent + Len(queuedSends)
<1>1. Len(queuedSends) \in Nat /\ DOMAIN queuedSends = 1 .. Len(queuedSends)
  BY DEF TypeOK
<1>2. accepted \in 0 .. MaxMessages /\ Len(queuedSends) <= accepted /\ MaxMessages \in Nat
  BY Sizes DEF TypeOK, QueueInv
<1> QED BY <1>1, <1>2 DEF Sent

\* What the window has room for.
LEMMA AllowedFacts ==
    ASSUME TypeOK, QueueInv, NEW b \in Nat, SenderAt(b)
    PROVE  /\ GetAllowedSends = WindowSize - (Sent - b)
           /\ SendCount \in 0 .. Len(queuedSends)
           /\ Sent + SendCount <= b + WindowSize
<1> DEFINE N == NumSequenceNumbers
           x == Sent % N
           y == b % N
<1>1. /\ N \in Nat \ {0} /\ N \in Int /\ WindowSize \in Nat /\ WindowSize < N
      /\ Sent \in Int /\ b \in Int
      /\ Len(queuedSends) \in Nat
  BY Sizes, SentFacts
<1>2. x \in Int /\ y \in Int
  BY <1>1, DivisionOfInt
<1>3. sendStart = x /\ windowStart = y /\ b <= Sent /\ Sent <= b + WindowSize
  BY DEF QueueInv, SenderAt
<1>4. (x - y + N) % N = (Sent - b + N) % N
  BY <1>1, RemainderOfDifference, Zenon
<1>5. (Sent - b + N) % N = Sent - b
  <2>1. Sent - b \in 0 .. N - 1 /\ Sent - b + N = N * 1 + (Sent - b)
        /\ Sent - b + N \in Int /\ 1 \in Int
    BY <1>1, <1>3
  <2> QED BY <1>1, <2>1, RemainderUnique, Zenon
<1> HIDE DEF x, y
<1>6. (sendStart + N) - windowStart = x - y + N
  BY <1>1, <1>2, <1>3
<1>7. GetAllowedSends = WindowSize - (Sent - b)
  BY <1>4, <1>5, <1>6 DEF GetAllowedSends
<1>8. SendCount \in 0 .. Len(queuedSends) /\ SendCount <= WindowSize - (Sent - b)
  BY <1>1, <1>3, <1>7 DEF SendCount
<1> QED BY <1>1, <1>7, <1>8

\* Steps that leave both ends alone.
LEMMA SameWindow ==
    ASSUME NEW b, NEW e, WindowAt(b, e), Sent' = Sent,
           UNCHANGED <<windowStart, receivedAcks, stored, expected, early, withheld, released>>,
           acks' \subseteq acks
    PROVE  WindowAt(b, e)'
<1>1. SenderAt(b)'
  BY DEF WindowAt, SenderAt, StoredSlots
<1>2. AckInv(b, e)'
  BY DEF WindowAt, AckInv, Had, GotThrough
<1>3. ReceiverAt(b, e)'
  BY DEF WindowAt, ReceiverAt, OrderedAt, UnorderedAt, SequencedAt, GotThrough
<1> QED BY <1>1, <1>2, <1>3 DEF WindowAt

\* The user thread, the flag and the loss of something.
LEMMA EnqueueWindow ==
    ASSUME TypeOK, QueueInv, WireInv, NEW b, NEW e, WindowAt(b, e), Enqueue
    PROVE  QueueInv' /\ WireInv' /\ WindowAt(b, e)'
<1>1. /\ Len(queuedSends) \in Nat /\ DOMAIN queuedSends = 1 .. Len(queuedSends)
      /\ accepted \in Nat /\ Sent \in Nat /\ accepted = Sent + Len(queuedSends)
      /\ queuedSends \in Seq(1 .. MaxMessages)
  BY Sizes, SentFacts DEF TypeOK
<1>2. accepted' = accepted + 1 /\ queuedSends' = Append(queuedSends, accepted + 1)
  BY DEF Enqueue
<1>3. /\ Len(queuedSends') = Len(queuedSends) + 1
      /\ DOMAIN queuedSends' = 1 .. Len(queuedSends) + 1
      /\ \A i \in 1 .. Len(queuedSends) + 1 :
            queuedSends'[i] = IF i <= Len(queuedSends) THEN queuedSends[i] ELSE accepted + 1
  BY <1>1, <1>2
<1>4. Sent' = Sent
  BY <1>1, <1>2, <1>3 DEF Sent
<1>5. QueueInv'
  <2>1. ASSUME NEW i \in DOMAIN queuedSends' PROVE queuedSends'[i] = Sent' + i
    <3>1. CASE i <= Len(queuedSends)
      <4>1. i \in DOMAIN queuedSends /\ queuedSends'[i] = queuedSends[i]
        BY <1>1, <1>3, <3>1
      <4> QED BY <1>4, <4>1 DEF QueueInv
    <3>2. CASE ~(i <= Len(queuedSends))
      <4>1. i = Len(queuedSends) + 1 /\ queuedSends'[i] = accepted + 1
        BY <1>1, <1>3, <3>2
      <4> QED BY <1>1, <1>4, <4>1
    <3> QED BY <3>1, <3>2
  <2>2. Len(queuedSends') <= accepted'
    BY <1>1, <1>2, <1>3
  <2>3. sendStart' = sendStart
    BY DEF Enqueue
  <2> QED BY <1>4, <2>1, <2>2, <2>3 DEF QueueInv
<1>6. WireInv'
  BY <1>4 DEF Enqueue, WireInv
<1>7. WindowAt(b, e)'
  BY <1>4, SameWindow DEF Enqueue
<1> QED BY <1>5, <1>6, <1>7

LEMMA OtherWindow ==
    ASSUME QueueInv, WireInv, NEW b, NEW e, WindowAt(b, e),
           UNCHANGED <<accepted, queuedSends, sendStart, windowStart, receivedAcks, stored,
                       expected, early, withheld, released>>,
           data' \subseteq data, acks' \subseteq acks
    PROVE  QueueInv' /\ WireInv' /\ WindowAt(b, e)'
<1>1. Sent' = Sent
  BY DEF Sent
<1>2. QueueInv' /\ WireInv'
  BY <1>1 DEF QueueInv, WireInv
<1>3. WindowAt(b, e)'
  BY <1>1, SameWindow
<1> QED BY <1>2, <1>3

LEMMA QuietWindow ==
    ASSUME QueueInv, WireInv, NEW b, NEW e, WindowAt(b, e),
           \/ Flag \/ TestFlush \/ ClearFlush
           \/ \E d \in data \cup acks : Lose(d)
           \/ UNCHANGED vars
    PROVE  QueueInv' /\ WireInv' /\ WindowAt(b, e)'
<1>1. /\ UNCHANGED <<accepted, queuedSends, sendStart, windowStart, receivedAcks, stored,
                     expected, early, withheld, released>>
      /\ data' \subseteq data /\ acks' \subseteq acks
  BY DEF Flag, TestFlush, ClearFlush, Lose, vars
<1> QED BY <1>1, OtherWindow

-----------------------------------------------------------------------------
\* The sender sends.

\* What is released are messages.
LEMMA ReleasedNumbers ==
    ASSUME TypeOK
    PROVE  /\ Len(released) \in Nat /\ DOMAIN released = 1 .. Len(released)
           /\ \A i \in DOMAIN released : released[i] \in 1 .. MaxMessages /\ released[i] \in Nat
<1>1. released \in Seq(1 .. MaxMessages)
  BY DEF TypeOK
<1>2. Len(released) \in Nat /\ DOMAIN released = 1 .. Len(released)
  BY <1>1
<1>3. ASSUME NEW i \in DOMAIN released
      PROVE  released[i] \in 1 .. MaxMessages /\ released[i] \in Nat
  <2>1. released[i] \in 1 .. MaxMessages
    BY <1>1, <1>2, ElementOfSeq
  <2> QED BY <2>1, Sizes
<1> QED BY <1>2, <1>3

\* What was sent later has numbers and slots of its own.
LEMMA MoreSent ==
    ASSUME NEW b \in Nat, NEW e \in Nat, NEW s \in Nat, NEW t \in Nat,
           TypeOK, WindowAt(b, e), Sent = s, Sent' = t, s <= t, t <= b + WindowSize,
           UNCHANGED <<receivedAcks, expected, early, withheld, released>>,
           acks' \subseteq acks
    PROVE  AckInv(b, e)' /\ ReceiverAt(b, e)'
<1>1. /\ NumSequenceNumbers \in Nat /\ WindowSize \in Nat /\ WindowSize < NumSequenceNumbers
  BY Sizes
<1>2. /\ receivedAcks \subseteq {Number(m) : m \in b + 2 .. s}
      /\ \A a \in acks : Had(a.msg, e)
      /\ \A m \in b + 2 .. s : Number(m) \in receivedAcks => Had(m, e)
      /\ e <= s /\ expected = e % NumSequenceNumbers
  BY DEF WindowAt, SenderAt, AckInv, ReceiverAt
<1>3. ASSUME NEW m \in b + 2 .. t, Number(m) \in receivedAcks PROVE m \in b + 2 .. s
  <2>1. PICK n \in b + 2 .. s : Number(m) = Number(n)
    BY <1>2, <1>3
  <2>2. m - n < NumSequenceNumbers /\ n - m < NumSequenceNumbers /\ m \in Int /\ n \in Int
    BY <1>1
  <2>3. m = n
    BY <2>1, <2>2, SameNumber
  <2> QED BY <2>3
<1>4. \A m : Had(m, e)' <=> Had(m, e)
  BY DEF Had, GotThrough
<1>5. AckInv(b, e)'
  BY <1>2, <1>3, <1>4 DEF AckInv
<1>6. ReceiverAt(b, e)'
  <2>1. CASE Method = "ReliableSequenced"
    <3>1. SequencedAt(b, e)
      BY <2>1 DEF WindowAt, ReceiverAt
    <3>2. ASSUME NEW i \in DOMAIN released PROVE released[i] <= t
      <4>1. released[i] \in Int /\ released[i] <= s
        BY <3>1, ReleasedNumbers DEF SequencedAt
      <4> QED BY <4>1
    <3>3. SequencedAt(b, e)'
      BY <3>1, <3>2 DEF SequencedAt, GotThrough
    <3> QED BY <1>2, <2>1, <3>3 DEF ReceiverAt
  <2>2. CASE Method # "ReliableSequenced"
    <3>1. b <= e /\ early \subseteq {Place(m) : m \in e + 2 .. s}
      BY <2>2 DEF WindowAt, ReceiverAt
    <3>2. ASSUME NEW m \in e + 1 .. t, Place(m) \in early PROVE m \in e + 2 .. s
      <4>1. PICK n \in e + 2 .. s : Place(m) = Place(n)
        BY <3>1, <3>2
      <4>2. m - n < WindowSize /\ n - m < WindowSize /\ m \in Int /\ n \in Int
        BY <1>1, <3>1
      <4>3. m = n
        BY <4>1, <4>2, SamePlace
      <4> QED BY <4>3
    <3>3. early' \subseteq {Place(m) : m \in e + 2 .. t}
      BY <3>1
    <3>4. CASE Method = "ReliableOrdered"
      <4>1. OrderedAt(e)
        BY <2>2, <3>4 DEF WindowAt, ReceiverAt
      <4>2. OrderedAt(e)'
        BY <3>2, <4>1 DEF OrderedAt
      <4> QED BY <1>2, <2>2, <3>1, <3>3, <3>4, <4>2 DEF ReceiverAt
    <3>5. CASE Method # "ReliableOrdered"
      <4>1. UnorderedAt(e)
        BY <2>2, <3>5 DEF WindowAt, ReceiverAt
      <4>2. ASSUME NEW m \in s + 1 .. t
            PROVE  ~(m <= e) /\ Place(m) \notin early /\ ~GotThrough(m)
        <5>1. ~(m <= e) /\ m \in e + 1 .. t /\ ~(m <= s)
          BY <1>2
        <5>2. Place(m) \notin early
          BY <3>2, <5>1
        <5>3. ~GotThrough(m)
          BY <2>2, <4>1, <5>1 DEF UnorderedAt, GotThrough
        <5> QED BY <5>1, <5>2, <5>3
      <4>3. \A m : GotThrough(m)' <=> GotThrough(m)
        BY DEF GotThrough
      <4>4. \A m \in 1 .. t : m <= e \/ Place(m) \in early <=> GotThrough(m)
        <5> TAKE m \in 1 .. t
        <5>1. CASE m \in 1 .. s
          BY <4>1, <5>1 DEF UnorderedAt
        <5>2. CASE m \notin 1 .. s
          BY <4>2, <5>2
        <5> QED BY <5>1, <5>2
      <4>5. \A i \in DOMAIN released : released[i] <= t
        <5> TAKE i \in DOMAIN released
        <5>1. released[i] \in Int
          BY ReleasedNumbers
        <5> QED BY <4>1, <5>1 DEF UnorderedAt
      <4>6. UnorderedAt(e)'
        BY <4>1, <4>3, <4>4, <4>5 DEF UnorderedAt
      <4> QED BY <1>2, <2>2, <3>1, <3>3, <3>5, <4>6 DEF ReceiverAt
    <3> QED BY <3>4, <3>5
  <2> QED BY <2>1, <2>2
<1> QED BY <1>5, <1>6

\* The messages that SendQueuedMessages takes from the queue, and the slots it
\* puts them into.
LEMMA SentSlots ==
    ASSUME TypeInv, QueueInv, WireInv, NEW b \in Nat, NEW e \in Nat, WindowAt(b, e),
           NEW due \in SUBSET StoredSlots, SendQueuedMessages(due),
           NEW s \in Nat, Sent = s, NEW n \in Nat, SendCount = n
    PROVE  /\ Sent' = s + n /\ QueueInv'
           /\ s + n <= b + WindowSize
           /\ \A d \in data' :
                 /\ s + n < d.msg + Lifetime
                 /\ d.msg <= s + n /\ d.seq = Number(d.msg)
           /\ \A d \in acks' : d \in acks /\ s + n < d.msg + Lifetime
           /\ \A i \in Slot :
                 \/ \E m \in s + 1 .. s + n :
                       Place(m) = i /\ stored'[i].msg = m /\ stored'[i].seq = Number(m)
                 \/ /\ \A m \in s + 1 .. s + n : Place(m) # i
                    /\ stored'[i].msg = stored[i].msg /\ stored'[i].seq = stored[i].seq
                    /\ i \in StoredSlots' => i \in StoredSlots
<1> DEFINE send(j) == [seq |-> SendNr(j), msg |-> queuedSends[j]]
           sends == {[seq |-> SendNr(j), msg |-> queuedSends[j]] : j \in 1 .. n}
           resends == {[seq |-> stored[i].seq, msg |-> stored[i].msg] : i \in due}
           new(i) == CHOOSE d \in sends : d.seq % WindowSize = i
<1>0. TypeOK /\ FilledSlots
  BY DEF TypeInv
<1>1. /\ Len(queuedSends) \in Nat /\ DOMAIN queuedSends = 1 .. Len(queuedSends)
      /\ accepted \in Nat /\ accepted = s + Len(queuedSends)
      /\ queuedSends \in Seq(1 .. MaxMessages)
  BY <1>0, Sizes, SentFacts DEF TypeOK
<1>2. n \in 0 .. Len(queuedSends) /\ s + n <= b + WindowSize
  BY <1>0, AllowedFacts DEF WindowAt
<1>3. ASSUME NEW j \in 1 .. n PROVE SendNr(j) = Number(s + j) /\ queuedSends[j] = s + j
  <2>1. j \in DOMAIN queuedSends
    BY <1>1, <1>2
  <2>2. queuedSends[j] = s + j /\ sendStart = s % NumSequenceNumbers
    BY <2>1 DEF QueueInv
  <2>3. j - 1 \in Int /\ s \in Int /\ s + (j - 1) + 1 = s + j
    OBVIOUS
  <2>4. (sendStart + (j - 1)) % NumSequenceNumbers = Number(s + j)
    BY <2>2, <2>3, NumberAfter, Zenon
  <2>5. sendStart + j - 1 = sendStart + (j - 1)
    BY <1>0 DEF TypeOK, SeqNr
  <2> QED BY <2>2, <2>4, <2>5 DEF SendNr
<1>4. /\ sendStart' = (sendStart + n) % NumSequenceNumbers
      /\ queuedSends' = SubSeq(queuedSends, n + 1, Len(queuedSends))
      /\ data' = Alive(data \cup resends \cup sends, s + n)
      /\ acks' = Alive(acks, s + n)
      /\ accepted' = accepted
  BY DEF SendQueuedMessages
<1>5. stored' = [i \in Slot |->
                IF \E d \in sends : d.seq % WindowSize = i
                THEN [msg |-> new(i).msg, seq |-> new(i).seq, once |-> stored[i] = NoMessage]
                ELSE IF i \in due THEN [stored[i] EXCEPT !.once = FALSE] ELSE stored[i]]
  BY DEF SendQueuedMessages
<1>6. /\ Len(queuedSends') = Len(queuedSends) - n
      /\ \A i \in 1 .. Len(queuedSends) - n : queuedSends'[i] = queuedSends[n + i]
      /\ DOMAIN queuedSends' = 1 .. Len(queuedSends) - n
  <2> DEFINE l == Len(queuedSends)
             rest == SubSeq(queuedSends, n + 1, l)
  <2>1. n + 1 \in Int /\ l \in Int /\ n <= l
    BY <1>1, <1>2
  <2>2. ASSUME NEW i \in n + 1 .. l PROVE queuedSends[i] \in 1 .. MaxMessages
    <3>1. i \in 1 .. Len(queuedSends)
      BY <2>1
    <3> QED BY <1>1, <3>1, ElementOfSeq
  <2>3. /\ rest \in Seq(1 .. MaxMessages)
        /\ Len(rest) = IF n + 1 <= l THEN l - (n + 1) + 1 ELSE 0
        /\ \A i \in 1 .. l - (n + 1) + 1 : rest[i] = queuedSends[(n + 1) + i - 1]
    BY <2>1, <2>2, SubSeqProperties
  <2>4. queuedSends' = rest
    BY <1>4
  <2> HIDE DEF l, rest
  <2>5. Len(rest) = l - n /\ DOMAIN rest = 1 .. l - n
    BY <2>1, <2>3
  <2>6. ASSUME NEW i \in 1 .. l - n PROVE rest[i] = queuedSends[n + i]
    <3>1. i \in 1 .. l - (n + 1) + 1 /\ (n + 1) + i - 1 = n + i
      BY <2>1
    <3> QED BY <2>3, <3>1
  <2> QED BY <2>4, <2>5, <2>6 DEF l
<1>7. Sent' = s + n
  <2>1. PICK l \in Nat : l = Len(queuedSends)
    BY <1>1
  <2>2. accepted' = s + l /\ Len(queuedSends') = l - n
    BY <1>1, <1>4, <1>6, <2>1, Zenon
  <2>3. (s + l) - (l - n) = s + n
    BY <2>1
  <2> QED BY <2>2, <2>3, Zenon DEF Sent
<1>8. QueueInv'
  <2>1. ASSUME NEW i \in DOMAIN queuedSends' PROVE queuedSends'[i] = Sent' + i
    <3>1. n + i \in DOMAIN queuedSends /\ i \in Int /\ queuedSends'[i] = queuedSends[n + i]
      BY <1>1, <1>2, <1>6
    <3>2. queuedSends[n + i] = s + (n + i)
      BY <3>1 DEF QueueInv
    <3> QED BY <1>7, <3>1, <3>2
  <2>2. Len(queuedSends') <= accepted'
    <3>1. Len(queuedSends') = Len(queuedSends) - n /\ accepted' = accepted
      BY <1>4, <1>6
    <3> QED BY <1>1, <3>1
  <2>3. sendStart' = (s + n) % NumSequenceNumbers
    <3>1. sendStart = s % NumSequenceNumbers /\ s \in Int /\ n \in Int
      BY DEF QueueInv
    <3> QED BY <1>4, <3>1, CountedOn, Zenon
  <2> QED BY <1>7, <2>1, <2>2, <2>3 DEF QueueInv
<1>9. ASSUME NEW d \in sends
      PROVE  d.msg \in s + 1 .. s + n /\ d.seq = Number(d.msg)
  <2>1. PICK j \in 1 .. n : d = send(j)
    OBVIOUS
  <2>2. d.seq = SendNr(j) /\ d.msg = queuedSends[j]
    BY <2>1
  <2> QED BY <1>3, <2>2
<1>10. ASSUME NEW m \in s + 1 .. s + n
       PROVE  \E d \in sends : d.msg = m /\ d.seq % WindowSize = Place(m)
  <2>1. m - s \in 1 .. n /\ s + (m - s) = m /\ m \in Int
    OBVIOUS
  <2>2. send(m - s) \in sends
    BY <2>1
  <2>3. send(m - s).msg = m /\ send(m - s).seq = Number(m)
    BY <1>3, <2>1
  <2>4. Number(m) % WindowSize = Place(m)
    BY <2>1, NumberFacts
  <2> QED BY <2>2, <2>3, <2>4
<1>11. ASSUME NEW i \in due
       PROVE  /\ i \in Slot /\ stored[i].msg <= s
              /\ stored[i].seq = Number(stored[i].msg)
  BY DEF StoredSlots, WindowAt, SenderAt
<1> HIDE DEF sends
<1>12. ASSUME NEW d \in data'
       PROVE  s + n < d.msg + Lifetime /\ d.msg <= s + n /\ d.seq = Number(d.msg)
  <2>1. s + n < d.msg + Lifetime /\ (d \in data \/ d \in resends \/ d \in sends)
    BY <1>4 DEF Alive
  <2>2. CASE d \in data
    <3>1. d.msg <= s /\ d.seq = Number(d.msg) /\ d.msg \in Int
      BY <1>0, <2>2 DEF WireInv, TypeOK, Datagram
    <3> QED BY <2>1, <3>1
  <2>3. CASE d \in resends
    <3>1. PICK i \in due : d = [seq |-> stored[i].seq, msg |-> stored[i].msg]
      BY <2>3
    <3>2. d.msg = stored[i].msg /\ d.seq = stored[i].seq /\ stored[i].msg \in Int
      BY <1>0, <1>11, <3>1 DEF TypeOK, Stored
    <3> QED BY <1>11, <2>1, <3>2
  <2>4. CASE d \in sends
    BY <1>9, <2>1, <2>4
  <2> QED BY <2>1, <2>2, <2>3, <2>4
<1>13. ASSUME NEW i \in Slot
       PROVE  \/ \E m \in s + 1 .. s + n :
                    Place(m) = i /\ stored'[i].msg = m /\ stored'[i].seq = Number(m)
              \/ /\ \A m \in s + 1 .. s + n : Place(m) # i
                 /\ stored'[i].msg = stored[i].msg /\ stored'[i].seq = stored[i].seq
                 /\ i \in StoredSlots' => i \in StoredSlots
  <2>1. CASE \E d \in sends : d.seq % WindowSize = i
    <3>1. new(i) \in sends /\ new(i).seq % WindowSize = i
      BY <2>1, Zenon
    <3>2. stored'[i].msg = new(i).msg /\ stored'[i].seq = new(i).seq
      BY <1>5, <2>1
    <3> HIDE DEF new
    <3>3. new(i).msg \in s + 1 .. s + n /\ new(i).seq = Number(new(i).msg)
          /\ new(i).msg \in Int
      BY <1>9, <3>1
    <3>4. Place(new(i).msg) = i
      BY <3>1, <3>3, NumberFacts
    <3> QED BY <3>2, <3>3, <3>4
  <2>2. CASE ~(\E d \in sends : d.seq % WindowSize = i)
    <3>1. \A m \in s + 1 .. s + n : Place(m) # i
      BY <1>10, <2>2
    <3>2. stored'[i] = IF i \in due THEN [stored[i] EXCEPT !.once = FALSE] ELSE stored[i]
      BY <1>5, <2>2
    <3>3. stored[i] \in Stored
      BY <1>0 DEF TypeOK
    <3>4. stored'[i].msg = stored[i].msg /\ stored'[i].seq = stored[i].seq
      BY <3>2, <3>3 DEF Stored
    <3>5. i \in StoredSlots' => i \in StoredSlots
      <4>1. CASE i \in due
        BY <4>1
      <4>2. CASE i \notin due
        BY <3>2, <4>2 DEF StoredSlots
      <4> QED BY <4>1, <4>2
    <3> QED BY <3>1, <3>4, <3>5
  <2> QED BY <2>1, <2>2
<1>14. \A d \in acks' : d \in acks /\ s + n < d.msg + Lifetime
  BY <1>4 DEF Alive
<1> QED BY <1>2, <1>7, <1>8, <1>12, <1>13, <1>14

\* SendQueuedMessages moves neither end of what is acknowledged, and ages the wire.
LEMMA SendWindow ==
    ASSUME TypeInv, QueueInv, WireInv, NEW b \in Nat, NEW e \in Nat, WindowAt(b, e),
           NEW due \in SUBSET StoredSlots, SendQueuedMessages(due)
    PROVE  QueueInv' /\ WireInv' /\ WindowAt(b, e)'
<1>0. TypeOK
  BY DEF TypeInv
<1>1. PICK s \in Nat : Sent = s
  BY <1>0, SentFacts
<1>2. PICK n \in Nat : SendCount = n
  <2>1. SendCount \in 0 .. Len(queuedSends)
    BY <1>0, AllowedFacts DEF WindowAt
  <2> QED BY <2>1
<1> DEFINE t == s + n
           Sends(i) == \E m \in s + 1 .. t :
                          Place(m) = i /\ stored'[i].msg = m /\ stored'[i].seq = Number(m)
           Keeps(i) == /\ \A m \in s + 1 .. t : Place(m) # i
                       /\ stored'[i].msg = stored[i].msg /\ stored'[i].seq = stored[i].seq
                       /\ i \in StoredSlots' => i \in StoredSlots
<1>3. /\ Sent' = t /\ QueueInv' /\ t <= b + WindowSize
      /\ \A d \in data' :
            t < d.msg + Lifetime /\ d.msg <= t /\ d.seq = Number(d.msg)
      /\ \A d \in acks' : d \in acks /\ t < d.msg + Lifetime
      /\ \A i \in Slot : Sends(i) \/ Keeps(i)
  BY <1>1, <1>2, SentSlots
<1>4. /\ WindowSize \in Nat /\ Half \in Nat /\ Lifetime \in Nat /\ Lifetime <= Half
      /\ t \in Nat /\ s <= t
  BY Sizes
<1>5. /\ b <= s /\ windowStart = b % NumSequenceNumbers
      /\ \A m \in b + 1 .. s : stored[Place(m)].msg = m
      /\ \A i \in StoredSlots : /\ stored[i].msg \in b + 1 .. s
                                /\ Place(stored[i].msg) = i
                                /\ stored[i].seq = Number(stored[i].msg)
      /\ receivedAcks \subseteq {Number(m) : m \in b + 2 .. s}
  BY <1>1 DEF WindowAt, SenderAt
<1>6. UNCHANGED <<windowStart, receivedAcks, expected, early, withheld, released>>
  BY DEF SendQueuedMessages
<1> HIDE DEF t
<1>7. WireInv'
  <2>1. ASSUME NEW d \in data' \cup acks'
        PROVE  d.msg <= t /\ t < d.msg + Half /\ d.seq = Number(d.msg)
    <3>1. d.msg <= t /\ d.seq = Number(d.msg) /\ t < d.msg + Lifetime /\ d.msg \in Int
      <4>1. CASE d \in data'
        <5>1. d.msg \in Int
          <6>1. TypeInv'
            BY SendTypes
          <6> QED BY <4>1, <6>1 DEF TypeInv, TypeOK, Datagram
        <5> QED BY <1>3, <4>1, <5>1
      <4>2. CASE d \in acks'
        <5>1. d \in acks /\ t < d.msg + Lifetime
          BY <1>3, <4>2
        <5>2. d.msg <= s /\ d.seq = Number(d.msg) /\ d.msg \in Int
          BY <1>0, <1>1, <5>1 DEF WireInv, TypeOK, Datagram
        <5> QED BY <1>4, <5>1, <5>2
      <4> QED BY <4>1, <4>2
    <3> QED BY <1>4, <3>1
  <2> QED BY <1>3, <2>1 DEF WireInv, Half
<1>8. SenderAt(b)'
  <2>1. ASSUME NEW m \in b + 1 .. t PROVE stored'[Place(m)].msg = m
    <3>1. m \in Int /\ Place(m) \in Slot
      BY NumberFacts
    <3>2. CASE m > s
      <4>1. m \in s + 1 .. t
        BY <1>1, <3>2
      <4>2. PICK k \in s + 1 .. t : Place(k) = Place(m) /\ stored'[Place(m)].msg = k
        BY <1>3, <3>1, <4>1
      <4>3. k - m < WindowSize /\ m - k < WindowSize /\ k \in Int
        BY <1>3, <1>4, <1>5, <4>1
      <4> QED BY <3>1, <4>2, <4>3, SamePlace
    <3>3. CASE ~(m > s)
      <4>1. m \in b + 1 .. s
        BY <1>1, <3>3
      <4>2. CASE Sends(Place(m))
        <5>1. PICK k \in s + 1 .. t : Place(k) = Place(m)
          BY <4>2
        <5>2. k - m < WindowSize /\ m - k < WindowSize /\ k \in Int /\ k # m
          BY <1>3, <1>4, <4>1
        <5> QED BY <3>1, <5>1, <5>2, SamePlace
      <4>3. CASE Keeps(Place(m))
        BY <1>5, <4>1, <4>3
      <4> QED BY <1>3, <3>1, <4>2, <4>3
    <3> QED BY <3>2, <3>3
  <2>2. ASSUME NEW i \in StoredSlots'
        PROVE  /\ stored'[i].msg \in b + 1 .. t
               /\ Place(stored'[i].msg) = i
               /\ stored'[i].seq = Number(stored'[i].msg)
    <3>1. i \in Slot
      BY DEF StoredSlots
    <3>2. CASE Sends(i)
      BY <1>1, <1>5, <3>2
    <3>3. CASE Keeps(i)
      <4>1. i \in StoredSlots
        BY <3>3
      <4>2. stored[i].msg \in b + 1 .. t
        BY <1>4, <1>5, <4>1
      <4> QED BY <1>5, <3>3, <4>1, <4>2
    <3> QED BY <1>3, <3>1, <3>2, <3>3
  <2>3. receivedAcks' \subseteq {Number(m) : m \in b + 2 .. t}
    <3>1. \A m \in b + 2 .. s : m \in b + 2 .. t
      BY <1>4
    <3> QED BY <1>5, <1>6, <3>1
  <2>4. b <= t /\ t <= b + WindowSize /\ windowStart' = b % NumSequenceNumbers
    BY <1>3, <1>4, <1>5, <1>6
  <2> QED BY <1>3, <2>1, <2>2, <2>3, <2>4 DEF SenderAt
<1>9. AckInv(b, e)' /\ ReceiverAt(b, e)'
  BY <1>0, <1>1, <1>3, <1>4, <1>6, MoreSent
<1> QED BY <1>3, <1>7, <1>8, <1>9 DEF WindowAt

-----------------------------------------------------------------------------
\* The sender is acknowledged.

\* What the numbers on the wire stand for, at the sender.
LEMMA AckFacts ==
    ASSUME TypeOK, QueueInv, WireInv, NEW b \in Nat, SenderAt(b), NEW a \in acks
    PROVE  /\ a.msg \in Nat /\ a.msg <= Sent /\ a.seq = Number(a.msg)
           /\ RelativeSequenceNumber(a.seq, windowStart) = a.msg - 1 - b
<1>1. /\ Half \in Nat /\ WindowSize \in Nat /\ Sent \in Nat /\ MaxMessages \in Nat
  BY Sizes, SentFacts
<1>2. /\ a.msg \in Nat /\ a.msg <= Sent /\ Sent < a.msg + Half /\ a.seq = Number(a.msg)
  BY <1>1 DEF WireInv, TypeOK, Datagram, Half
<1>3. b <= Sent /\ Sent <= b + WindowSize /\ windowStart = b % NumSequenceNumbers
  BY DEF SenderAt
<1>4. /\ a.msg - 1 \in Int /\ b \in Int
      /\ -Half <= (a.msg - 1) - b /\ (a.msg - 1) - b <= WindowSize
  BY <1>1, <1>2, <1>3
<1>5. RelativeSequenceNumber(a.seq, windowStart) = (a.msg - 1) - b
  BY <1>2, <1>3, <1>4, RelativeOfNear DEF Number
<1> QED BY <1>2, <1>5

\* What an ordered or unordered receiver has had lies before what it expects, or
\* behind it.
LEMMA ExpectedNotHad ==
    ASSUME NEW b \in Nat, NEW e \in Nat, Sent \in Nat, SenderAt(b), ReceiverAt(b, e),
           Method # "ReliableSequenced"
    PROVE  /\ b <= e /\ e <= Sent /\ Sent <= e + WindowSize
           /\ \A m \in e + 1 .. e + WindowSize : Place(m) \in early => m \in e + 2 .. Sent
           /\ ~Had(e + 1, e)
<1>1. WindowSize \in Nat /\ WindowSize # 0
  BY Sizes
<1>2. /\ b <= e /\ e <= Sent /\ Sent <= b + WindowSize
      /\ early \subseteq {Place(m) : m \in e + 2 .. Sent}
  BY DEF SenderAt, ReceiverAt
<1>3. ASSUME NEW m \in e + 1 .. e + WindowSize, Place(m) \in early
      PROVE  m \in e + 2 .. Sent
  <2>1. PICK n \in e + 2 .. Sent : Place(m) = Place(n)
    BY <1>2, <1>3
  <2>2. m - n < WindowSize /\ n - m < WindowSize /\ m \in Int /\ n \in Int
    BY <1>1, <1>2
  <2>3. m = n
    BY <2>1, <2>2, SamePlace
  <2> QED BY <2>3
<1>4. ~Had(e + 1, e)
  <2>1. e + 1 \in e + 1 .. e + WindowSize /\ e + 1 \notin e + 2 .. Sent /\ ~(e + 1 <= e)
    BY <1>1
  <2>2. Place(e + 1) \notin early
    BY <1>3, <2>1
  <2> QED BY <2>1, <2>2 DEF Had
<1> QED BY <1>1, <1>2, <1>3, <1>4

\* An acknowledgement on time lets go the message it is for, and those after it
\* up to the first that has not been acknowledged.
LEMMA OnTimeEffects ==
    ASSUME TypeOK, QueueInv, WireInv, NEW b \in Nat, SenderAt(b), NEW a \in acks,
           AcknowledgeOnTime(a)
    PROVE  /\ a.msg = b + 1
           /\ \E c \in b + 1 .. Sent :
                 /\ \A m \in b + 2 .. c : Number(m) \in receivedAcks
                 /\ Number(c + 1) \in receivedAcks => Number(c + 1) = Number(b + 1)
                 /\ windowStart' = c % NumSequenceNumbers
                 /\ receivedAcks' = receivedAcks \ {Number(m) : m \in b + 1 .. c}
                 /\ stored' = [i \in Slot |->
                       IF \E nr \in {Number(m) : m \in b + 1 .. c} : nr % WindowSize = i
                       THEN NoMessage ELSE stored[i]]
<1> DEFINE N == NumSequenceNumbers
           S == receivedAcks \ {windowStart}
           run == RunLength(windowStart + 1, S, NumSequenceNumbers)
           gone == {(windowStart + k) % NumSequenceNumbers : k \in 0 .. run}
           c == b + 1 + run
           numbers == {Number(m) : m \in b + 1 .. c}
<1>1. /\ N \in Nat \ {0} /\ WindowSize \in Nat /\ WindowSize < N /\ Sent \in Nat
  BY Sizes, SentFacts
<1>2. /\ a.msg = b + 1 /\ b + 1 <= Sent
  <2>1. a.msg \in Nat /\ a.msg <= Sent /\ 0 = a.msg - 1 - b
    BY AckFacts DEF AcknowledgeOnTime
  <2> QED BY <2>1
<1>3. /\ b <= Sent /\ Sent <= b + WindowSize /\ windowStart = b % N
      /\ receivedAcks \subseteq {Number(m) : m \in b + 2 .. Sent}
  BY DEF SenderAt
<1>4. windowStart \in 0 .. N - 1 /\ windowStart \in Int
  BY DEF TypeOK, SeqNr
<1>5. /\ run \in 0 .. N
      /\ ((windowStart + 1) + run) % N \notin S
      /\ \A j \in 0 .. run - 1 : ((windowStart + 1) + j) % N \in S
  <2>1. windowStart \notin S /\ windowStart + 1 \in Int
    BY <1>4
  <2> HIDE DEF S
  <2> QED BY <1>1, <1>4, <2>1, RunLengthFound DEF S
<1>6. ASSUME NEW j \in Int
      PROVE  ((windowStart + 1) + j) % N = Number(b + j + 2) /\ (windowStart + j) % N = Number(b + j + 1)
  <2>1. ((b % N) + (1 + j)) % N = Number(b + (1 + j) + 1) /\ ((b % N) + j) % N = Number(b + j + 1)
    BY b \in Int, 1 + j \in Int, NumberAfter, Zenon
  <2>2. (windowStart + 1) + j = windowStart + (1 + j) /\ b + (1 + j) + 1 = b + j + 2
    BY <1>4
  <2> QED BY <1>3, <2>1, <2>2
<1> HIDE DEF run
<1>7. run \in Int /\ run \in Nat
  BY <1>1, <1>5
<1>8. ASSUME NEW j \in 0 .. run - 1
      PROVE  b + j + 2 \in b + 2 .. Sent /\ Number(b + j + 2) \in receivedAcks
  <2>0. j \in Int /\ j <= N - 1 /\ 0 <= j
    BY <1>1, <1>5, <1>7
  <2>1. Number(b + j + 2) \in receivedAcks
    BY <1>5, <1>6, <2>0
  <2>2. PICK m \in b + 2 .. Sent : Number(m) = Number(b + j + 2)
    BY <1>3, <2>1
  <2>3. m - (b + j + 2) < N /\ (b + j + 2) - m < N /\ m \in Int /\ b + j + 2 \in Int
    BY <1>1, <1>3, <2>0
  <2>4. m = b + j + 2
    BY <2>2, <2>3, SameNumber
  <2> QED BY <2>1, <2>4
<1>9. c \in Nat /\ b + 1 <= c /\ c <= Sent
  <2>1. CASE run = 0
    BY <1>1, <1>2, <2>1
  <2>2. CASE run # 0
    <3>1. run - 1 \in 0 .. run - 1 /\ b + (run - 1) + 2 = c
      BY <1>7, <2>2
    <3> QED BY <1>7, <1>8, <3>1
  <2> QED BY <2>1, <2>2
<1>10. ASSUME NEW m \in b + 2 .. c PROVE Number(m) \in receivedAcks
  <2>1. m - b - 2 \in 0 .. run - 1 /\ b + (m - b - 2) + 2 = m
    BY <1>7
  <2> QED BY <1>8, <2>1
<1>11. Number(c + 1) \in receivedAcks => Number(c + 1) = windowStart
  <2>1. b + run + 2 = c + 1
    BY <1>7
  <2>2. Number(c + 1) \notin S
    BY <1>5, <1>6, <1>7, <2>1
  <2> QED BY <2>2
<1>12. gone = numbers
  <2>1. ASSUME NEW nr \in gone PROVE nr \in numbers
    <3>1. PICK k \in 0 .. run : nr = (windowStart + k) % N
      OBVIOUS
    <3>2. k \in Int /\ b + k + 1 \in b + 1 .. c
      BY <1>7
    <3>3. nr = Number(b + k + 1)
      BY <1>6, <3>1, <3>2
    <3> QED BY <3>2, <3>3
  <2>2. ASSUME NEW nr \in numbers PROVE nr \in gone
    <3>1. PICK m \in b + 1 .. c : nr = Number(m)
      OBVIOUS
    <3>2. m - b - 1 \in 0 .. run /\ m - b - 1 \in Int /\ b + (m - b - 1) + 1 = m
      BY <1>7
    <3>3. (windowStart + (m - b - 1)) % N = nr
      BY <1>6, <3>1, <3>2
    <3> QED BY <3>2, <3>3
  <2> HIDE DEF gone, numbers
  <2> QED BY <2>1, <2>2
<1>13. windowStart = Number(b + 1)
  <2>1. (b + 1) - 1 = b
    OBVIOUS
  <2> QED BY <1>3, <2>1 DEF Number
<1>14. (windowStart + 1 + run) % N = c % N
  <2>1. 1 + run \in Int /\ b \in Int /\ windowStart + 1 + run = windowStart + (1 + run)
        /\ c = b + (1 + run)
    BY <1>4, <1>7
  <2>2. ((b % N) + (1 + run)) % N = (b + (1 + run)) % N
    BY <2>1, CountedOn, Zenon
  <2> QED BY <1>3, <2>1, <2>2
<1>15. /\ windowStart' = (windowStart + 1 + run) % N
       /\ receivedAcks' = receivedAcks \ gone
       /\ stored' = [i \in Slot |-> IF \E nr \in gone : nr % WindowSize = i
                                    THEN NoMessage ELSE stored[i]]
  BY DEF AcknowledgeOnTime, run
<1>16. /\ windowStart' = c % N
       /\ receivedAcks' = receivedAcks \ numbers
       /\ stored' = [i \in Slot |-> IF \E nr \in numbers : nr % WindowSize = i
                                    THEN NoMessage ELSE stored[i]]
  <2> HIDE DEF gone, numbers, c
  <2> QED BY <1>12, <1>14, <1>15
<1>17. c \in b + 1 .. Sent
  BY <1>1, <1>9
<1> HIDE DEF c
<1> QED BY <1>2, <1>10, <1>11, <1>13, <1>16, <1>17

\* The sender's window moves on to what has not been acknowledged: it has a number
\* of its own, for the receiver was never more than a window ahead.
LEMMA OnTimeWindow ==
    ASSUME TypeInv, QueueInv, WireInv, NEW b \in Nat, NEW e \in Nat, WindowAt(b, e),
           NEW a \in acks, ReceiveAcknowledge(a), AcknowledgeOnTime(a)
    PROVE  QueueInv' /\ WireInv' /\ \E c \in 0 .. MaxMessages : WindowAt(c, e)'
<1>0. TypeOK /\ FilledSlots /\ SenderAt(b) /\ AckInv(b, e) /\ ReceiverAt(b, e)
  BY DEF TypeInv, WindowAt
<1>1. PICK c \in b + 1 .. Sent :
         /\ \A m \in b + 2 .. c : Number(m) \in receivedAcks
         /\ Number(c + 1) \in receivedAcks => Number(c + 1) = Number(b + 1)
         /\ windowStart' = c % NumSequenceNumbers
         /\ receivedAcks' = receivedAcks \ {Number(m) : m \in b + 1 .. c}
         /\ stored' = [i \in Slot |->
               IF \E nr \in {Number(m) : m \in b + 1 .. c} : nr % WindowSize = i
               THEN NoMessage ELSE stored[i]]
  BY <1>0, OnTimeEffects, Zenon
<1>2. PICK s \in Nat : s = Sent
  BY <1>0, SentFacts
<1>3. a.msg = b + 1
  BY <1>0, OnTimeEffects
<1>4. /\ WindowSize \in Nat /\ NumSequenceNumbers \in Nat /\ WindowSize < NumSequenceNumbers
      /\ MaxMessages \in Nat /\ s <= MaxMessages
      /\ c \in Nat /\ b + 1 <= c /\ c <= s
  BY <1>0, <1>2, Sizes, SentFacts
<1>7. /\ b <= s /\ s <= b + WindowSize
      /\ \A m \in b + 1 .. s : stored[Place(m)].msg = m
      /\ \A i \in StoredSlots : /\ stored[i].msg \in b + 1 .. s
                                /\ Place(stored[i].msg) = i
                                /\ stored[i].seq = Number(stored[i].msg)
      /\ receivedAcks \subseteq {Number(m) : m \in b + 2 .. s}
  BY <1>0, <1>2 DEF SenderAt
<1> DEFINE gone == {Number(m) : m \in b + 1 .. c}
<1>8. /\ windowStart' = c % NumSequenceNumbers
      /\ receivedAcks' = receivedAcks \ gone
      /\ stored' = [i \in Slot |-> IF \E nr \in gone : nr % WindowSize = i
                                   THEN NoMessage ELSE stored[i]]
      /\ UNCHANGED <<sendStart, data>>
  BY <1>1 DEF AcknowledgeOnTime
<1>9. UNCHANGED <<accepted, queuedSends, acks, expected, early, withheld, released>>
  BY DEF ReceiveAcknowledge
<1>10. Sent' = s
  BY <1>2, <1>9 DEF Sent
<1>11. QueueInv' /\ WireInv'
  BY <1>2, <1>8, <1>9, <1>10 DEF QueueInv, WireInv
\* A slot is emptied if its message is let go.
<1>12. ASSUME NEW m \in b + 1 .. s
       PROVE  (\E nr \in gone : nr % WindowSize = Place(m)) <=> m <= c
  <2>1. ASSUME m <= c PROVE \E nr \in gone : nr % WindowSize = Place(m)
    <3>1. m \in b + 1 .. c /\ m \in Int
      BY <1>1, <1>3, <1>4, <2>1
    <3> QED BY <3>1, NumberFacts
  <2>2. ASSUME NEW nr \in gone, nr % WindowSize = Place(m) PROVE m <= c
    <3>1. PICK n \in b + 1 .. c : nr = Number(n)
      OBVIOUS
    <3>2. Place(n) = Place(m) /\ n \in Int /\ m \in Int
      BY <2>2, <3>1, NumberFacts
    <3>3. n - m < WindowSize /\ m - n < WindowSize
      BY <1>1, <1>3, <1>4, <1>7
    <3>4. n = m
      BY <3>2, <3>3, SamePlace
    <3> QED BY <1>1, <1>3, <1>4, <3>4
  <2> QED BY <2>1, <2>2
<1>13. ASSUME NEW m \in c + 1 .. s PROVE stored'[Place(m)] = stored[Place(m)] /\ m \in b + 1 .. s
  <2>1. m \in b + 1 .. s /\ ~(m <= c) /\ m \in Int
    BY <1>1, <1>3, <1>4
  <2>2. Place(m) \in Slot /\ ~\E nr \in gone : nr % WindowSize = Place(m)
    BY <1>12, <2>1, NumberFacts
  <2> HIDE DEF gone
  <2> QED BY <1>8, <2>1, <2>2
<1>14. ASSUME NEW i \in StoredSlots'
       PROVE  /\ stored'[i].msg \in c + 1 .. s
              /\ Place(stored'[i].msg) = i
              /\ stored'[i].seq = Number(stored'[i].msg)
  <2>1. i \in Slot /\ stored'[i] # NoMessage
    BY DEF StoredSlots
  <2> HIDE DEF gone
  <2>2. stored'[i] = stored[i] /\ ~\E nr \in gone : nr % WindowSize = i
    BY <1>8, <2>1
  <2>3. i \in StoredSlots
    BY <2>1, <2>2 DEF StoredSlots
  <2>4. stored[i].msg \in b + 1 .. s /\ ~(stored[i].msg <= c)
    BY <1>7, <1>12, <2>2, <2>3
  <2>5. stored[i].msg \in c + 1 .. s
    BY <1>1, <1>3, <1>4, <2>4
  <2> QED BY <1>7, <2>2, <2>3, <2>5
<1>15. receivedAcks' \subseteq {Number(m) : m \in c + 2 .. s}
  <2> SUFFICES ASSUME NEW nr \in receivedAcks' PROVE \E m \in c + 2 .. s : nr = Number(m)
    OBVIOUS
  <2>1. nr \in receivedAcks /\ \A m \in b + 1 .. c : nr # Number(m)
    BY <1>8
  <2>2. PICK m \in b + 2 .. s : nr = Number(m)
    BY <1>7, <2>1
  <2>3. ~(m <= c)
    <3>1. m <= c => m \in b + 1 .. c
      BY <1>1, <1>3, <1>4
    <3> QED BY <2>1, <2>2, <3>1
  <2>4. m # c + 1
    <3>1. ASSUME m = c + 1 PROVE FALSE
      <4>1. nr = Number(b + 1)
        BY <1>1, <1>3, <1>4, <2>1, <2>2, <3>1
      <4>2. b + 1 \in b + 1 .. c
        BY <1>1, <1>3, <1>4
      <4> QED BY <2>1, <4>1, <4>2
    <3> QED BY <3>1
  <2>5. m \in c + 2 .. s
    BY <1>1, <1>3, <1>4, <2>3, <2>4
  <2> QED BY <2>2, <2>5
<1>16. SenderAt(c)'
  <2>1. \A m \in c + 1 .. s : stored'[Place(m)].msg = m
    BY <1>7, <1>13
  <2>2. c <= s /\ s <= c + WindowSize
    BY <1>1, <1>3, <1>4, <1>7
  <2> HIDE DEF gone
  <2> QED BY <1>8, <1>10, <1>14, <1>15, <2>1, <2>2 DEF SenderAt
<1>17. ASSUME NEW m \in b + 1 .. c PROVE Had(m, e)
  <2>1. CASE m = b + 1
    BY <1>0, <1>1, <1>3, <1>4, <2>1 DEF AckInv
  <2>2. CASE m # b + 1
    <3>1. m \in b + 2 .. c /\ m \in b + 2 .. s
      BY <1>1, <1>3, <1>4, <2>2
    <3> QED BY <1>0, <1>2, <1>1, <1>3, <1>4, <3>1 DEF AckInv
  <2> QED BY <2>1, <2>2
<1>18. \A m : Had(m, e)' <=> Had(m, e)
  BY <1>9 DEF Had, GotThrough
<1>19. AckInv(c, e)'
  <2>1. \A a1 \in acks' : Had(a1.msg, e)'
    BY <1>0, <1>9, <1>18 DEF AckInv
  <2>2. ASSUME NEW m \in c + 2 .. s, Number(m) \in receivedAcks' PROVE Had(m, e)'
    <3>1. Number(m) \in receivedAcks /\ m \in b + 2 .. s
      BY <1>1, <1>3, <1>4, <1>8, <2>2
    <3> QED BY <1>0, <1>2, <1>18, <3>1 DEF AckInv
  <2> QED BY <1>10, <2>1, <2>2 DEF AckInv
<1>20. ReceiverAt(c, e)'
  <2>1. e <= s /\ expected' = e % NumSequenceNumbers
    BY <1>0, <1>2, <1>9 DEF ReceiverAt
  <2>2. CASE Method = "ReliableSequenced"
    <3>1. ASSUME NEW m \in 1 .. c PROVE GotThrough(m)
      <4>1. CASE m <= b
        <5>1. m \in 1 .. b
          BY <4>1
        <5> QED BY <1>0, <2>2, <5>1 DEF ReceiverAt, SequencedAt
      <4>2. CASE ~(m <= b)
        <5>1. m \in b + 1 .. c
          BY <1>1, <1>3, <1>4, <4>2
        <5> QED BY <1>17, <2>2, <5>1 DEF Had
      <4> QED BY <4>1, <4>2
    <3>2. SequencedAt(c, e)'
      BY <1>0, <1>2, <1>9, <1>10, <2>2, <3>1 DEF ReceiverAt, SequencedAt, GotThrough
    <3> QED BY <1>10, <2>1, <2>2, <3>2 DEF ReceiverAt
  <2>3. CASE Method # "ReliableSequenced"
    <3>1. b <= e /\ ~Had(e + 1, e)
      BY <1>0, <1>2, <2>3, ExpectedNotHad
    <3>2. c <= e
      <4>1. ~(c <= e) => e + 1 \in b + 1 .. c
        BY <1>1, <1>3, <1>4, <3>1
      <4> QED BY <1>17, <3>1, <4>1
    <3>3. CASE Method = "ReliableOrdered"
      <4>1. OrderedAt(e)'
        BY <1>0, <1>2, <1>9, <1>10, <2>3, <3>3 DEF ReceiverAt, OrderedAt
      <4> QED BY <1>0, <1>2, <1>9, <1>10, <2>1, <2>3, <3>2, <3>3, <4>1 DEF ReceiverAt
    <3>4. CASE Method # "ReliableOrdered"
      <4>1. UnorderedAt(e)'
        BY <1>0, <1>2, <1>9, <1>10, <2>3, <3>4 DEF ReceiverAt, UnorderedAt, GotThrough
      <4> QED BY <1>0, <1>2, <1>9, <1>10, <2>1, <2>3, <3>2, <3>4, <4>1 DEF ReceiverAt
    <3> QED BY <3>3, <3>4
  <2> QED BY <2>2, <2>3
<1>21. c \in 0 .. MaxMessages
  BY <1>1, <1>3, <1>4
<1> QED BY <1>11, <1>16, <1>19, <1>20, <1>21 DEF WindowAt

\* An early acknowledgement is remembered, and what is sent again has the number
\* it had.
LEMMA EarlyAckWindow ==
    ASSUME TypeInv, QueueInv, WireInv, NEW b \in Nat, NEW e \in Nat, WindowAt(b, e),
           NEW a \in acks, ReceiveAcknowledge(a),
           NEW again \in SUBSET Holes(a.seq), AcknowledgeEarly(a, again)
    PROVE  QueueInv' /\ WireInv' /\ WindowAt(b, e)'
<1>0. TypeOK /\ FilledSlots /\ SenderAt(b) /\ AckInv(b, e) /\ ReceiverAt(b, e)
  BY DEF TypeInv, WindowAt
<1>1. PICK s \in Nat : s = Sent
  BY <1>0, SentFacts
<1>2. /\ a.msg \in Nat /\ a.msg <= s /\ a.seq = Number(a.msg)
      /\ RelativeSequenceNumber(a.seq, windowStart) = a.msg - 1 - b
  BY <1>0, <1>1, AckFacts
<1>3. /\ receivedAcks' = receivedAcks \cup {a.seq}
      /\ stored' = [i \in Slot |-> IF \E nr \in again : nr % WindowSize = i
                                   THEN [stored[i] EXCEPT !.once = FALSE] ELSE stored[i]]
      /\ data' = data \cup {[seq |-> nr, msg |-> stored[nr % WindowSize].msg] : nr \in again}
      /\ UNCHANGED <<windowStart, sendStart>>
      /\ a.msg - 1 - b > 0
  BY <1>2 DEF AcknowledgeEarly
<1>4. UNCHANGED <<accepted, queuedSends, acks, expected, early, withheld, released>>
  BY DEF ReceiveAcknowledge
<1>5. Sent' = s
  BY <1>1, <1>4 DEF Sent
<1>6. a.msg \in b + 2 .. s
  BY <1>2, <1>3
<1>7. /\ b <= s /\ s <= b + WindowSize /\ windowStart = b % NumSequenceNumbers
      /\ \A m \in b + 1 .. s : stored[Place(m)].msg = m
      /\ \A i \in StoredSlots : /\ stored[i].msg \in b + 1 .. s
                                /\ Place(stored[i].msg) = i
                                /\ stored[i].seq = Number(stored[i].msg)
      /\ receivedAcks \subseteq {Number(m) : m \in b + 2 .. s}
  BY <1>0, <1>1 DEF SenderAt
<1>8. WindowSize \in Nat /\ Half \in Nat /\ WindowSize <= Half
  BY Sizes
<1>9. WireInv'
  <2>1. ASSUME NEW nr \in again
        PROVE  \E m \in b + 1 .. s : nr = Number(m) /\ stored[nr % WindowSize].msg = m
    <3>1. PICK k \in 0 .. a.msg - 1 - b - 1 : nr = (windowStart + k) % NumSequenceNumbers
      BY <1>2 DEF Holes
    <3>2. k \in Int /\ b + k + 1 \in b + 1 .. s /\ b + k + 1 \in Int /\ b \in Int
      BY <1>2
    <3>3. nr = Number(b + k + 1)
      BY <1>7, <3>1, <3>2, NumberAfter
    <3>4. nr % WindowSize = Place(b + k + 1)
      BY <3>2, <3>3, NumberFacts
    <3> QED BY <1>7, <3>2, <3>3, <3>4
  <2>2. ASSUME NEW d \in data' \cup acks'
        PROVE  d.msg <= s /\ s < d.msg + Half /\ d.seq = Number(d.msg)
    <3>1. CASE d \in data \cup acks
      BY <1>1, <3>1 DEF WireInv, Half
    <3>2. CASE d \notin data \cup acks
      <4>1. PICK nr \in again : d = [seq |-> nr, msg |-> stored[nr % WindowSize].msg]
        BY <1>3, <1>4, <3>2
      <4>2. PICK m \in b + 1 .. s : nr = Number(m) /\ stored[nr % WindowSize].msg = m
        BY <2>1
      <4>3. d.msg = m /\ d.seq = Number(m)
        BY <4>1, <4>2
      <4>4. m <= s /\ s < m + Half
        BY <1>7, <1>8
      <4> QED BY <4>3, <4>4
    <3> QED BY <3>1, <3>2
  <2> QED BY <1>5, <2>2 DEF WireInv, Half
<1>10. QueueInv'
  BY <1>1, <1>3, <1>4, <1>5 DEF QueueInv
<1>11. ASSUME NEW i \in Slot
       PROVE  /\ stored'[i].msg = stored[i].msg /\ stored'[i].seq = stored[i].seq
              /\ i \in StoredSlots' => i \in StoredSlots
  <2>1. stored[i] \in Stored
    BY <1>0 DEF TypeOK
  <2>2. stored'[i] = stored[i] \/ stored'[i] = [stored[i] EXCEPT !.once = FALSE]
    BY <1>3
  <2>3. stored'[i].msg = stored[i].msg /\ stored'[i].seq = stored[i].seq
    BY <2>1, <2>2 DEF Stored
  <2>4. stored[i] = NoMessage => stored'[i] = NoMessage
    BY <2>2, MarkedEmpty, Zenon
  <2> QED BY <2>3, <2>4 DEF StoredSlots
<1>12. SenderAt(b)'
  <2>1. ASSUME NEW m \in b + 1 .. s PROVE stored'[Place(m)].msg = m
    <3>1. Place(m) \in Slot
      BY NumberFacts
    <3> QED BY <1>7, <1>11, <3>1
  <2>2. ASSUME NEW i \in StoredSlots'
        PROVE  /\ stored'[i].msg \in b + 1 .. s
               /\ Place(stored'[i].msg) = i
               /\ stored'[i].seq = Number(stored'[i].msg)
    <3>1. i \in Slot
      BY DEF StoredSlots
    <3> QED BY <1>7, <1>11, <3>1
  <2>3. receivedAcks' \subseteq {Number(m) : m \in b + 2 .. s}
    BY <1>2, <1>3, <1>6, <1>7
  <2> QED BY <1>3, <1>5, <1>7, <2>1, <2>2, <2>3 DEF SenderAt
<1>13. \A m : Had(m, e)' <=> Had(m, e)
  BY <1>4 DEF Had, GotThrough
<1>14. AckInv(b, e)'
  <2>1. \A a1 \in acks' : Had(a1.msg, e)'
    BY <1>0, <1>4, <1>13 DEF AckInv
  <2>2. ASSUME NEW m \in b + 2 .. s, Number(m) \in receivedAcks' PROVE Had(m, e)'
    <3>1. CASE Number(m) \in receivedAcks
      BY <1>0, <1>1, <1>13, <3>1 DEF AckInv
    <3>2. CASE Number(m) \notin receivedAcks
      <4>1. Number(m) = Number(a.msg)
        BY <1>2, <1>3, <2>2, <3>2
      <4>2. /\ m - a.msg < NumSequenceNumbers /\ a.msg - m < NumSequenceNumbers
            /\ m \in Int /\ a.msg \in Int
        BY <1>6, <1>7, Sizes
      <4>3. m = a.msg
        BY <4>1, <4>2, SameNumber
      <4> QED BY <1>0, <1>13, <4>3 DEF AckInv
    <3> QED BY <3>1, <3>2
  <2> QED BY <1>5, <2>1, <2>2 DEF AckInv
<1>15. ReceiverAt(b, e)'
  BY <1>0, <1>1, <1>4, <1>5 DEF ReceiverAt, OrderedAt, UnorderedAt, SequencedAt, GotThrough
<1> QED BY <1>9, <1>10, <1>12, <1>14, <1>15 DEF WindowAt

-----------------------------------------------------------------------------
\* The receivers.

\* What the numbers on the wire stand for, at the receiver: no message is too
\* early for its window.
LEMMA DatagramFacts ==
    ASSUME TypeOK, QueueInv, WireInv, NEW b \in Nat, NEW e \in Nat, WindowAt(b, e),
           NEW d \in data
    PROVE  /\ d.msg \in Nat /\ d.msg # 0 /\ d.msg <= Sent /\ d.seq = Number(d.msg)
           /\ d.seq % WindowSize = Place(d.msg) /\ Place(d.msg) \in Slot
           /\ RelativeSequenceNumber(d.seq, expected) = d.msg - 1 - e
           /\ d.msg - 1 - e < IF Method = "ReliableSequenced" THEN WindowSize + 1 ELSE WindowSize
<1>1. /\ Half \in Nat /\ WindowSize \in Nat /\ Sent \in Nat /\ MaxMessages \in Nat
  BY Sizes, SentFacts
<1>2. /\ d.msg \in Nat /\ d.msg # 0 /\ d.msg <= Sent /\ Sent < d.msg + Half
      /\ d.seq = Number(d.msg)
  BY <1>1 DEF WireInv, TypeOK, Datagram, Half
<1>3. d.seq % WindowSize = Place(d.msg) /\ Place(d.msg) \in Slot
  BY <1>2, NumberFacts
<1>4. e <= Sent /\ Sent <= b + WindowSize /\ expected = e % NumSequenceNumbers
  BY DEF WindowAt, SenderAt, ReceiverAt
<1>5. b <= IF Method = "ReliableSequenced" THEN e + 1 ELSE e
  <2>1. CASE Method = "ReliableSequenced"
    <3>1. CASE b = 0
      BY <2>1, <3>1
    <3>2. CASE b # 0
      <4>1. GotThrough(b) /\ \A i \in DOMAIN released : released[i] <= e + 1
        BY <2>1, <3>2 DEF WindowAt, ReceiverAt, SequencedAt
      <4>2. PICK i \in DOMAIN released : released[i] >= b
        BY <2>1, <4>1 DEF GotThrough
      <4>3. released[i] <= e + 1 /\ released[i] \in Nat
        BY <4>1, ReleasedNumbers
      <4> QED BY <2>1, <4>2, <4>3
    <3> QED BY <3>1, <3>2
  <2>2. CASE Method # "ReliableSequenced"
    BY <2>2 DEF WindowAt, ReceiverAt
  <2> QED BY <2>1, <2>2
<1>6. d.msg - 1 - e < IF Method = "ReliableSequenced" THEN WindowSize + 1 ELSE WindowSize
  BY <1>1, <1>2, <1>4, <1>5
<1>7. /\ d.msg - 1 \in Int /\ e \in Int
      /\ -Half <= (d.msg - 1) - e /\ (d.msg - 1) - e <= WindowSize
  BY <1>1, <1>2, <1>4, <1>6
<1>8. RelativeSequenceNumber(d.seq, expected) = (d.msg - 1) - e
  BY <1>2, <1>4, <1>7, RelativeOfNear DEF Number
<1> QED BY <1>2, <1>3, <1>6, <1>8

\* What a step of a receiver has to show.
LEMMA ReceivedWindow ==
    ASSUME QueueInv, WireInv, NEW b \in Nat, NEW e \in Nat, WindowAt(b, e),
           NEW d \in data, ReceiveMessage(d),
           NEW f \in Nat, ReceiverAt(b, f)', Had(d.msg, f)',
           \A m \in Nat : m <= Sent /\ Had(m, e) => Had(m, f)', TypeOK
    PROVE  QueueInv' /\ WireInv' /\ WindowAt(b, f)'
<1>1. /\ UNCHANGED <<accepted, queuedSends, sendStart, windowStart, receivedAcks, stored, data>>
      /\ acks' = acks \cup {d}
  BY DEF ReceiveMessage
<1>2. Sent' = Sent
  BY <1>1 DEF Sent
<1>3. QueueInv' /\ WireInv'
  BY <1>1, <1>2 DEF QueueInv, WireInv
<1>4. SenderAt(b)'
  BY <1>1, <1>2 DEF WindowAt, SenderAt, StoredSlots
<1>5. AckInv(b, f)'
  <2>1. ASSUME NEW a \in acks' PROVE Had(a.msg, f)'
    <3>1. CASE a \in acks
      <4>1. a.msg \in Nat /\ a.msg <= Sent /\ Had(a.msg, e)
        BY <3>1, Sizes DEF TypeOK, Datagram, WireInv, WindowAt, AckInv
      <4> QED BY <4>1
    <3>2. CASE a = d
      BY <3>2
    <3> QED BY <1>1, <3>1, <3>2
  <2>2. ASSUME NEW m \in b + 2 .. Sent', Number(m) \in receivedAcks' PROVE Had(m, f)'
    <3>1. m \in b + 2 .. Sent /\ m \in Nat /\ m <= Sent
      BY <1>2, SentFacts
    <3>2. Had(m, e)
      BY <1>1, <2>2, <3>1 DEF WindowAt, AckInv
    <3> QED BY <3>1, <3>2
  <2> QED BY <2>1, <2>2 DEF AckInv
<1> QED BY <1>3, <1>4, <1>5 DEF WindowAt

\* Once round the window.
LEMMA OnceRound ==
    ASSUME NEW m \in Int
    PROVE  Place(m + WindowSize) = Place(m)
<1> DEFINE W == WindowSize
           q == (m - 1) \div W
           r == (m - 1) % W
<1>1. W \in Nat \ {0} /\ m - 1 \in Int
  BY Sizes
<1>2. r \in 0 .. W - 1 /\ q \in Int /\ m - 1 = W * q + r
  BY <1>1, DivisionOfInt
<1> HIDE DEF q, r
<1>3. (m + W) - 1 = W * (q + 1) + r /\ q + 1 \in Int /\ (m + W) - 1 \in Int
  <2>1. W * (q + 1) = W * q + W
    BY <1>1, <1>2, SMT
  <2>2. W * q \in Int
    BY <1>1, <1>2
  <2> QED BY <1>1, <1>2, <2>1, <2>2
<1>4. ((m + W) - 1) % W = r
  BY <1>1, <1>2, <1>3, RemainderUnique, Zenon
<1> QED BY <1>4 DEF Place, r

\* The receiver that expected the message after e takes d and the run behind it,
\* and expects the message after f.
PassesTo(d, e, f) ==
    /\ EarlyRun(d) = f - e - 1
    /\ \A k \in 0 .. f - e - 2 : After(d, k) = Place(e + k + 2)
    /\ \A m \in e + 2 .. f : Place(m) \in early
    /\ expected' = f % NumSequenceNumbers
    /\ early' \subseteq {Place(m) : m \in f + 2 .. Sent}
    /\ early' \subseteq early
    /\ \A m \in f + 1 .. Sent : Place(m) \in early' <=> Place(m) \in early
    /\ \A m \in e + 1 .. f : Place(m) \notin early'

\* A message on time takes with it the run of those that came early; the receiver
\* then expects one that has not come.
LEMMA OnTimeRun ==
    ASSUME TypeOK, QueueInv, WireInv, NEW b \in Nat, NEW e \in Nat, WindowAt(b, e),
           Method # "ReliableSequenced", NEW d \in data,
           RelativeSequenceNumber(d.seq, expected) = 0, Advance(EarlyRun(d))
    PROVE  /\ d.msg = e + 1
           /\ \E f \in e + 1 .. Sent : PassesTo(d, e, f)
<1> DEFINE run == EarlyRun(d)
           f == e + 1 + run
           passed == {(expected + k) % WindowSize : k \in 0 .. run}
<1>1. /\ WindowSize \in Nat \ {0} /\ Sent \in Nat
  BY Sizes, SentFacts
<1>2. /\ SenderAt(b) /\ ReceiverAt(b, e) /\ expected = e % NumSequenceNumbers
      /\ early \subseteq {Place(m) : m \in e + 2 .. Sent}
  BY DEF WindowAt, ReceiverAt
<1>3. /\ e <= Sent /\ Sent <= e + WindowSize
      /\ \A m \in e + 1 .. e + WindowSize : Place(m) \in early => m \in e + 2 .. Sent
  BY <1>1, <1>2, ExpectedNotHad
<1>4. d.msg = e + 1 /\ e + 1 <= Sent
  <2>1. d.msg \in Nat /\ d.msg <= Sent /\ 0 = d.msg - 1 - e
    BY DatagramFacts
  <2> QED BY <2>1
<1>5. /\ run \in 0 .. WindowSize
      /\ \A k \in Nat : After(d, k) = (expected + (k + 1)) % WindowSize
      /\ \A k \in 0 .. run - 1 : After(d, k) \in early
      /\ After(d, run) \notin early \ {expected % WindowSize}
  BY EarlyRunFound
<1>6. ASSUME NEW k \in Int PROVE (expected + k) % WindowSize = Place(e + k + 1)
  BY <1>2, e \in Int, NumberAfter, Zenon
<1> HIDE DEF run
<1>7. run \in Nat /\ run <= WindowSize
  BY <1>1, <1>5
<1>8. ASSUME NEW k \in Nat PROVE After(d, k) = Place(e + k + 2)
  <2>1. k + 1 \in Int /\ e + (k + 1) + 1 = e + k + 2
    OBVIOUS
  <2>2. (expected + (k + 1)) % WindowSize = Place(e + k + 2)
    BY <1>6, <2>1
  <2> QED BY <1>5, <2>2
<1>9. expected % WindowSize = Place(e + 1) /\ Place(e + 1) \notin early
  <2>1. (expected + 0) % WindowSize = Place(e + 0 + 1) /\ e + 0 + 1 = e + 1
    BY <1>6
  <2>2. expected + 0 = expected
    BY DEF TypeOK, SeqNr
  <2>3. e + 1 \in e + 1 .. e + WindowSize /\ e + 1 \notin e + 2 .. Sent
    BY <1>1
  <2> QED BY <1>3, <2>1, <2>2, <2>3
<1>10. run <= WindowSize - 1
  <2>1. ASSUME run = WindowSize PROVE FALSE
    <3>1. run - 1 \in 0 .. run - 1 /\ run - 1 \in Nat /\ e + (run - 1) + 2 = (e + 1) + WindowSize
          /\ e + 1 \in Int
      BY <1>1, <2>1
    <3>2. Place((e + 1) + WindowSize) \in early
      BY <1>5, <1>8, <3>1
    <3> QED BY <1>9, <3>1, <3>2, OnceRound
  <2> QED BY <1>1, <1>7, <2>1
<1>11. f \in Nat /\ e + 1 <= f /\ f <= e + WindowSize
  BY <1>1, <1>7, <1>10
<1>12. ASSUME NEW m \in e + 2 .. f PROVE Place(m) \in early /\ m <= Sent
  <2>1. m - e - 2 \in 0 .. run - 1 /\ m - e - 2 \in Nat /\ e + (m - e - 2) + 2 = m
    BY <1>7
  <2>2. Place(m) \in early
    BY <1>5, <1>8, <2>1
  <2>3. m \in e + 1 .. e + WindowSize
    BY <1>1, <1>11
  <2> QED BY <1>3, <2>2, <2>3
<1>13. f <= Sent
  <2>1. CASE run = 0
    BY <1>4, <2>1
  <2>2. CASE run # 0
    <3>1. f \in e + 2 .. f
      BY <1>7, <2>2
    <3> QED BY <1>12, <3>1
  <2> QED BY <2>1, <2>2
<1>14. Place(f + 1) \notin early
  <2>1. e + run + 2 = f + 1
    BY <1>7
  <2>2. After(d, run) = Place(f + 1)
    BY <1>7, <1>8, <2>1
  <2> QED BY <1>5, <1>9, <2>2 DEF run
<1>15. passed = {Place(m) : m \in e + 1 .. f}
  <2> DEFINE places == {Place(m) : m \in e + 1 .. f}
  <2>1. ASSUME NEW i \in passed PROVE i \in places
    <3>1. PICK k \in 0 .. run : i = (expected + k) % WindowSize
      OBVIOUS
    <3>2. k \in Int /\ e + k + 1 \in e + 1 .. f
      BY <1>7
    <3>3. i = Place(e + k + 1)
      BY <1>6, <3>1, <3>2
    <3> QED BY <3>2, <3>3
  <2>2. ASSUME NEW i \in places PROVE i \in passed
    <3>1. PICK m \in e + 1 .. f : i = Place(m)
      OBVIOUS
    <3>2. m - e - 1 \in 0 .. run /\ m - e - 1 \in Int /\ e + (m - e - 1) + 1 = m
      BY <1>7
    <3>3. (expected + (m - e - 1)) % WindowSize = i
      BY <1>6, <3>1, <3>2
    <3> QED BY <3>2, <3>3
  <2> HIDE DEF passed, places
  <2>3. passed = places
    BY <2>1, <2>2
  <2> QED BY <2>3 DEF places
<1>16. expected' = (expected + 1 + run) % NumSequenceNumbers /\ early' = early \ passed
  BY DEF Advance, run
<1>17. expected' = f % NumSequenceNumbers
  <2>1. 1 + run \in Int /\ e \in Int /\ expected + 1 + run = expected + (1 + run)
        /\ f = e + (1 + run)
    BY <1>7 DEF TypeOK, SeqNr
  <2>2. ((e % NumSequenceNumbers) + (1 + run)) % NumSequenceNumbers
            = (e + (1 + run)) % NumSequenceNumbers
    BY <2>1, CountedOn, Zenon
  <2> QED BY <1>2, <1>16, <2>1, <2>2
<1> HIDE DEF f, passed
<1>18. early' \subseteq {Place(m) : m \in f + 2 .. Sent}
  <2> SUFFICES ASSUME NEW i \in early' PROVE \E m \in f + 2 .. Sent : i = Place(m)
    OBVIOUS
  <2>1. PICK m \in e + 2 .. Sent : i = Place(m)
    BY <1>2, <1>16
  <2>2. i \in early /\ \A n \in e + 1 .. f : i # Place(n)
    BY <1>15, <1>16
  <2>3. ~(m <= f)
    <3>1. m <= f => m \in e + 1 .. f
      BY <1>1
    <3> QED BY <2>1, <2>2, <3>1
  <2>4. m # f + 1
    BY <1>14, <2>1, <2>2
  <2>5. m \in f + 2 .. Sent
    BY <1>11, <2>3, <2>4
  <2> QED BY <2>1, <2>5
<1>19. ASSUME NEW m \in f + 1 .. Sent PROVE Place(m) \in early' <=> Place(m) \in early
  <2>1. ASSUME NEW n \in e + 1 .. f, Place(m) = Place(n) PROVE FALSE
    <3>1. m - n < WindowSize /\ n - m < WindowSize /\ m \in Int /\ n \in Int /\ m # n
      BY <1>1, <1>3, <1>11
    <3> QED BY <2>1, <3>1, SamePlace
  <2> QED BY <1>15, <1>16, <2>1
<1>20. \A m \in e + 1 .. f : Place(m) \notin early'
  BY <1>15, <1>16
<1>21. /\ f \in e + 1 .. Sent /\ EarlyRun(d) = f - e - 1
       /\ \A k \in 0 .. f - e - 2 : After(d, k) = Place(e + k + 2)
  <2>1. f = e + 1 + run /\ run = EarlyRun(d)
    BY DEF f, run
  <2>2. f \in e + 1 .. Sent /\ run = f - e - 1
    BY <1>1, <1>7, <1>13, <2>1
  <2> QED BY <1>8, <2>1, <2>2
<1>22. early' \subseteq early
  BY <1>16
<1>23. PassesTo(d, e, f)
  BY <1>12, <1>17, <1>18, <1>19, <1>20, <1>21, <1>22 DEF PassesTo
<1> QED BY <1>4, <1>21, <1>23

\* A receiver that passes the run still has what it had.
LEMMA HadKept ==
    ASSUME NEW b \in Nat, NEW e \in Nat, WindowAt(b, e), Method # "ReliableSequenced",
           NEW f \in Nat, e <= f, Sent \in Nat,
           \A m \in f + 1 .. Sent : Place(m) \in early => Place(m) \in early'
    PROVE  \A m \in Nat : m <= Sent /\ Had(m, e) => Had(m, f)'
<1> SUFFICES ASSUME NEW m \in Nat, m <= Sent, Had(m, e) PROVE Had(m, f)'
  OBVIOUS
<1>1. CASE m <= f
  BY <1>1 DEF Had
<1>2. CASE ~(m <= f)
  <2>1. m \in f + 1 .. Sent /\ ~(m <= e)
    BY <1>2
  <2>2. Place(m) \in early
    BY <2>1 DEF Had
  <2> QED BY <2>1, <2>2 DEF Had
<1> QED BY <1>1, <1>2

\* The ordered receiver releases up to the message before the one it expects next.
LEMMA OrderedWindow ==
    ASSUME TypeInv, QueueInv, WireInv, NEW b \in Nat, NEW e \in Nat, WindowAt(b, e),
           Method = "ReliableOrdered", NEW d \in data, ReceiveMessage(d)
    PROVE  QueueInv' /\ WireInv' /\ \E f \in 0 .. MaxMessages : WindowAt(b, f)'
<1> DEFINE relate == RelativeSequenceNumber(d.seq, expected)
<1>0. TypeOK /\ SenderAt(b) /\ ReceiverAt(b, e) /\ Method # "ReliableSequenced"
  BY DEF TypeInv, WindowAt
<1>1. /\ WindowSize \in Nat \ {0} /\ MaxMessages \in Nat
      /\ Sent \in Nat /\ Sent <= MaxMessages
  BY <1>0, Sizes, SentFacts
<1>2. /\ OrderedAt(e) /\ b <= e /\ e <= Sent /\ expected = e % NumSequenceNumbers
      /\ early \subseteq {Place(m) : m \in e + 2 .. Sent}
  BY <1>0 DEF ReceiverAt
<1>3. /\ Sent <= e + WindowSize
      /\ \A m \in e + 1 .. e + WindowSize : Place(m) \in early => m \in e + 2 .. Sent
  BY <1>0, <1>1, ExpectedNotHad
<1>4. /\ d.msg \in Nat /\ d.msg # 0 /\ d.msg <= Sent
      /\ d.seq % WindowSize = Place(d.msg) /\ Place(d.msg) \in Slot
      /\ relate = d.msg - 1 - e /\ relate < WindowSize
  BY <1>0, DatagramFacts
<1>5. Sent' = Sent
  BY DEF ReceiveMessage, Sent
<1>6. /\ \A i \in Slot : withheld[i] \in 0 .. MaxMessages
      /\ Len(released) = e /\ \A i \in 1 .. e : released[i] = i
      /\ \A m \in e + 2 .. Sent : Place(m) \in early => withheld[Place(m)] = m
  BY <1>0, <1>2 DEF TypeOK, OrderedAt
<1>7. CASE relate = 0
  <2> DEFINE run == EarlyRun(d)
  <2>1. /\ Advance(run)
        /\ withheld' = [i \in Slot |->
              IF \E k \in 0 .. run - 1 : After(d, k) = i THEN 0 ELSE withheld[i]]
        /\ released' = released \o <<d.msg>> \o [k \in 1 .. run |-> withheld[After(d, k - 1)]]
    <3>1. ReceiveOrdered(d, relate)
      BY DEF ReceiveMessage
    <3>2. ~(relate \in 1 .. WindowSize) /\ ~(relate < 0) /\ ~(relate > WindowSize)
      BY <1>1, <1>7
    <3> QED BY <3>1, <3>2, Zenon DEF ReceiveOrdered
  <2>2. d.msg = e + 1
    BY <1>4, <1>7
  <2>3. PICK f \in e + 1 .. Sent : PassesTo(d, e, f)
    BY <1>0, <1>7, <2>1, OnTimeRun
  <2> HIDE DEF run
  <2>4. run = f - e - 1 /\ f \in Nat /\ e + 1 <= f /\ f <= Sent /\ run \in Nat
    BY <1>1, <2>3 DEF run, PassesTo
  <2>5. ASSUME NEW k \in 1 .. run
        PROVE  withheld[After(d, k - 1)] = e + 1 + k
    <3>1. k - 1 \in 0 .. f - e - 2 /\ e + (k - 1) + 2 = e + 1 + k
          /\ e + 1 + k \in e + 2 .. f /\ e + 1 + k \in e + 2 .. Sent
      BY <1>1, <2>4
    <3>2. After(d, k - 1) = Place(e + 1 + k) /\ Place(e + 1 + k) \in early
      BY <2>3, <3>1 DEF PassesTo
    <3> QED BY <1>6, <3>1, <3>2
  <2>6. Len(released') = f /\ \A i \in 1 .. f : released'[i] = i
    <3> DEFINE head == released \o <<d.msg>>
               tail == [k \in 1 .. run |-> e + 1 + k]
    <3>1. [k \in 1 .. run |-> withheld[After(d, k - 1)]] = tail
      BY <2>5
    <3>2. head \in Seq(Nat) /\ Len(head) = e + 1 /\ \A i \in 1 .. e + 1 : head[i] = i
      <4>1. released \in Seq(Nat)
        <5>1. \A i \in 1 .. Len(released) : released[i] \in Nat
          BY <1>6
        <5>2. released \in Seq(1 .. MaxMessages)
          BY <1>0 DEF TypeOK
        <5> QED BY <5>1, <5>2
      <4>2. <<d.msg>> \in Seq(Nat) /\ Len(<<d.msg>>) = 1 /\ <<d.msg>>[1] = d.msg
        BY <1>4
      <4>3. /\ head \in Seq(Nat) /\ Len(head) = e + 1
            /\ \A i \in 1 .. e + 1 : head[i] = IF i <= e THEN released[i] ELSE <<d.msg>>[i - e]
        BY <1>6, <4>1, <4>2, ConcatProperties
      <4>4. ASSUME NEW i \in 1 .. e + 1 PROVE head[i] = i
        <5>1. CASE i <= e
          BY <1>6, <4>3, <5>1
        <5>2. CASE ~(i <= e)
          <6>1. i = e + 1 /\ i - e = 1
            BY <5>2
          <6> QED BY <2>2, <4>2, <4>3, <5>2, <6>1
        <5> QED BY <5>1, <5>2
      <4> QED BY <4>3, <4>4
    <3> HIDE DEF head
    <3>3. tail \in Seq(Nat) /\ Len(tail) = run /\ \A k \in 1 .. run : tail[k] = e + 1 + k
      BY <2>4
    <3> HIDE DEF tail
    <3>4. /\ Len(head \o tail) = (e + 1) + run
          /\ \A i \in 1 .. (e + 1) + run :
                (head \o tail)[i] = IF i <= e + 1 THEN head[i] ELSE tail[i - (e + 1)]
      <4>1. /\ Len(head \o tail) = Len(head) + Len(tail)
            /\ \A i \in 1 .. Len(head) + Len(tail) :
                  (head \o tail)[i] = IF i <= Len(head) THEN head[i] ELSE tail[i - Len(head)]
        BY <3>2, <3>3, ConcatProperties
      <4> QED BY <3>2, <3>3, <4>1
    <3>5. released' = head \o tail
      BY <2>1, <3>1 DEF head
    <3>6. (e + 1) + run = f
      BY <2>4
    <3>7. ASSUME NEW i \in 1 .. f PROVE (head \o tail)[i] = i
      <4>1. CASE i <= e + 1
        <5>1. i \in 1 .. e + 1
          BY <4>1
        <5> QED BY <3>2, <3>4, <3>6, <4>1, <5>1
      <4>2. CASE ~(i <= e + 1)
        <5>1. i - (e + 1) \in 1 .. run /\ e + 1 + (i - (e + 1)) = i
          BY <2>4, <4>2
        <5> QED BY <3>3, <3>4, <3>6, <4>2, <5>1
      <4> QED BY <4>1, <4>2
    <3> QED BY <3>4, <3>5, <3>6, <3>7
  <2>7. ASSUME NEW m \in f + 2 .. Sent, Place(m) \in early' PROVE withheld'[Place(m)] = m
    <3>1. m \in e + 2 .. Sent /\ m \in Int /\ Place(m) \in early /\ Place(m) \in Slot
      BY <2>3, <2>4, <2>7, NumberFacts DEF PassesTo
    <3>2. ASSUME NEW k \in 0 .. run - 1, After(d, k) = Place(m) PROVE FALSE
      <4>1. k \in 0 .. f - e - 2 /\ e + k + 2 \in e + 1 .. f
        BY <2>4
      <4> QED BY <2>3, <2>7, <3>2, <4>1 DEF PassesTo
    <3>3. withheld'[Place(m)] = withheld[Place(m)]
      BY <2>1, <3>1, <3>2
    <3> QED BY <1>6, <3>1, <3>3
  <2>8. ReceiverAt(b, f)'
    <3>1. OrderedAt(f)'
      BY <1>5, <2>6, <2>7 DEF OrderedAt
    <3>2. b <= f /\ f <= Sent
      BY <1>2, <2>4
    <3> QED BY <1>0, <1>5, <2>3, <3>1, <3>2 DEF ReceiverAt, PassesTo
  <2>9. Had(d.msg, f)'
    BY <1>0, <2>2, <2>4 DEF Had
  <2>10. \A m \in Nat : m <= Sent /\ Had(m, e) => Had(m, f)'
    BY <1>0, <1>1, <2>3, <2>4, HadKept DEF PassesTo
  <2>11. f \in 0 .. MaxMessages
    BY <1>1, <2>4
  <2> QED BY <1>0, <2>4, <2>8, <2>9, <2>10, <2>11, ReceivedWindow
<1>8. CASE relate # 0
  <2>1. CASE /\ relate \in 1 .. WindowSize
             /\ early' = early \cup {d.seq % WindowSize}
             /\ withheld' = [withheld EXCEPT ![d.seq % WindowSize] = d.msg]
             /\ UNCHANGED <<expected, released>>
    <3>1. d.msg \in e + 2 .. Sent /\ d.msg \in Int
      BY <1>4, <2>1
    <3>2. early' = early \cup {Place(d.msg)} /\ withheld' = [withheld EXCEPT ![Place(d.msg)] = d.msg]
      BY <1>4, <2>1
    <3>3. early' \subseteq {Place(m) : m \in e + 2 .. Sent}
      BY <1>2, <3>1, <3>2
    <3>4. ASSUME NEW m \in e + 2 .. Sent, Place(m) \in early' PROVE withheld'[Place(m)] = m
      <4>1. withheld \in [Slot -> 0 .. MaxMessages] /\ Place(m) \in Slot /\ m \in Int
        BY <1>0, NumberFacts DEF TypeOK
      <4>2. CASE Place(m) = Place(d.msg)
        <5>1. m - d.msg < WindowSize /\ d.msg - m < WindowSize
          BY <1>1, <1>3, <3>1
        <5>2. m = d.msg
          BY <3>1, <4>1, <4>2, <5>1, SamePlace
        <5> QED BY <3>2, <4>1, <5>2
      <4>3. CASE Place(m) # Place(d.msg)
        <5>1. Place(m) \in early /\ withheld'[Place(m)] = withheld[Place(m)]
          BY <3>2, <3>4, <4>1, <4>3
        <5> QED BY <1>6, <5>1
      <4> QED BY <4>2, <4>3
    <3>5. ReceiverAt(b, e)'
      <4>1. OrderedAt(e)'
        BY <1>5, <1>6, <2>1, <3>4 DEF OrderedAt
      <4> QED BY <1>0, <1>2, <1>5, <2>1, <3>3, <4>1 DEF ReceiverAt
    <3>6. Had(d.msg, e)'
      BY <1>0, <3>2 DEF Had
    <3>7. \A m \in Nat : m <= Sent /\ Had(m, e) => Had(m, e)'
      BY <1>0, <3>2 DEF Had
    <3>8. e \in 0 .. MaxMessages
      BY <1>1, <1>2
    <3> QED BY <1>0, <3>5, <3>6, <3>7, <3>8, ReceivedWindow
  <2>2. CASE relate < 0 /\ UNCHANGED receiverVars
    <3>1. d.msg <= e
      BY <1>4, <2>2
    <3>2. \A m : Had(m, e)' <=> Had(m, e)
      BY <2>2 DEF Had, GotThrough
    <3>3. Had(d.msg, e)'
      BY <1>0, <3>1 DEF Had
    <3>4. ReceiverAt(b, e)'
      BY <1>0, <1>5, <2>2 DEF ReceiverAt, OrderedAt
    <3>5. e \in 0 .. MaxMessages
      BY <1>1, <1>2
    <3> QED BY <1>0, <3>2, <3>3, <3>4, <3>5, ReceivedWindow
  <2>3. ~(relate > WindowSize)
    BY <1>1, <1>4
  <2> QED BY <1>8, <2>1, <2>2, <2>3 DEF ReceiveMessage, ReceiveOrdered
<1> QED BY <1>7, <1>8

\* One more message is released.
LEMMA ReleasedOneMore ==
    ASSUME TypeOK, NEW n \in 1 .. MaxMessages, released' = Append(released, n)
    PROVE  /\ DOMAIN released = 1 .. Len(released) /\ Len(released) \in Nat
           /\ DOMAIN released' = 1 .. Len(released) + 1
           /\ \A i \in 1 .. Len(released) : released'[i] = released[i]
           /\ released'[Len(released) + 1] = n
           /\ \A i \in 1 .. Len(released) + 1 : i \in 1 .. Len(released) \/ i = Len(released) + 1
<1>1. released \in Seq(1 .. MaxMessages)
  BY DEF TypeOK
<1>2. /\ Append(released, n) \in Seq(1 .. MaxMessages)
      /\ Len(Append(released, n)) = Len(released) + 1
      /\ \A i \in 1 .. Len(released) : Append(released, n)[i] = released[i]
      /\ Append(released, n)[Len(released) + 1] = n
  BY <1>1, AppendProperties
<1>3. Len(released) \in Nat /\ DOMAIN released = 1 .. Len(released)
  BY ReleasedNumbers
<1>4. DOMAIN released' = 1 .. Len(released')
  BY <1>2
<1> QED BY <1>2, <1>3, <1>4

\* What an unordered receiver has released, when it releases one more.
LEMMA UnorderedOneMore ==
    ASSUME TypeOK, Method = "ReliableUnordered", NEW e \in Nat, UnorderedAt(e), Sent \in Nat,
           Sent' = Sent,
           NEW n \in 1 .. MaxMessages, n <= Sent, released' = Append(released, n), ~GotThrough(n),
           NEW f \in Nat,
           \A m \in 1 .. Sent :
               m <= f \/ Place(m) \in early' <=> m <= e \/ Place(m) \in early \/ m = n
    PROVE  UnorderedAt(f)'
<1> DEFINE l == Len(released)
<1>1. /\ DOMAIN released = 1 .. l /\ l \in Nat
      /\ DOMAIN released' = 1 .. l + 1
      /\ \A i \in 1 .. l : released'[i] = released[i]
      /\ released'[l + 1] = n
      /\ \A i \in 1 .. l + 1 : i \in 1 .. l \/ i = l + 1
  BY ReleasedOneMore
<1>2. /\ \A m \in 1 .. Sent : m <= e \/ Place(m) \in early <=> GotThrough(m)
      /\ \A i \in DOMAIN released : released[i] <= Sent
      /\ \A i, j \in DOMAIN released : released[i] = released[j] => i = j
  BY DEF UnorderedAt
<1> HIDE DEF l
<1>3. \A m : GotThrough(m) <=> \E i \in 1 .. l : released[i] = m
  BY <1>1 DEF GotThrough
<1>4. \A m : GotThrough(m)' <=> \E i \in 1 .. l + 1 : released'[i] = m
  BY <1>1 DEF GotThrough
<1>5. l + 1 \in 1 .. l + 1 /\ \A i \in 1 .. l : i \in 1 .. l + 1 /\ i # l + 1
  BY <1>1
<1>6. \A m : GotThrough(m)' <=> GotThrough(m) \/ m = n
  BY <1>1, <1>3, <1>4, <1>5
<1>7. \A i \in DOMAIN released' : released'[i] <= Sent
  BY <1>1, <1>2
<1>8. ASSUME NEW i \in DOMAIN released', NEW j \in DOMAIN released', released'[i] = released'[j]
      PROVE  i = j
  <2>1. \A k \in 1 .. l : released'[k] # n
    BY <1>1, <1>3
  <2> QED BY <1>1, <1>2, <1>8, <2>1
<1> QED BY <1>2, <1>6, <1>7, <1>8 DEF UnorderedAt

\* The unordered receiver: its bits tell what it has released.
LEMMA UnorderedWindow ==
    ASSUME TypeInv, QueueInv, WireInv, NEW b \in Nat, NEW e \in Nat, WindowAt(b, e),
           Method = "ReliableUnordered", NEW d \in data, ReceiveMessage(d)
    PROVE  QueueInv' /\ WireInv' /\ \E f \in 0 .. MaxMessages : WindowAt(b, f)'
<1> DEFINE relate == RelativeSequenceNumber(d.seq, expected)
<1>0. TypeOK /\ SenderAt(b) /\ ReceiverAt(b, e)
      /\ Method # "ReliableSequenced" /\ Method # "ReliableOrdered"
  BY DEF TypeInv, WindowAt
<1>1. /\ WindowSize \in Nat \ {0} /\ MaxMessages \in Nat
      /\ Sent \in Nat /\ Sent <= MaxMessages
  BY <1>0, Sizes, SentFacts
<1>2. /\ UnorderedAt(e) /\ b <= e /\ e <= Sent /\ expected = e % NumSequenceNumbers
      /\ early \subseteq {Place(m) : m \in e + 2 .. Sent}
  BY <1>0 DEF ReceiverAt
<1>3. /\ Sent <= e + WindowSize
      /\ \A m \in e + 1 .. e + WindowSize : Place(m) \in early => m \in e + 2 .. Sent
  BY <1>0, <1>1, ExpectedNotHad
<1>4. /\ d.msg \in Nat /\ d.msg # 0 /\ d.msg <= Sent
      /\ d.seq % WindowSize = Place(d.msg) /\ Place(d.msg) \in Slot
      /\ relate = d.msg - 1 - e /\ relate < WindowSize
  BY <1>0, DatagramFacts
<1>5. Sent' = Sent
  BY DEF ReceiveMessage, Sent
<1>6. d.msg \in 1 .. MaxMessages /\ d.msg \in 1 .. Sent
  BY <1>1, <1>4
<1>7. ReceiveUnordered(d, relate)
  BY <1>0 DEF ReceiveMessage
<1>8. e \in 0 .. MaxMessages
  BY <1>1, <1>2
<1>9. CASE relate = 0 /\ Advance(EarlyRun(d)) /\ released' = Append(released, d.msg)
  <2>1. d.msg = e + 1
    BY <1>4, <1>9
  <2>2. PICK f \in e + 1 .. Sent : PassesTo(d, e, f)
    BY <1>0, <1>9, OnTimeRun
  <2>3. f \in Nat /\ e + 1 <= f /\ f <= Sent /\ f \in 0 .. MaxMessages
    BY <1>1, <2>2
  <2>4. ~GotThrough(d.msg)
    <3>1. d.msg \in e + 1 .. e + WindowSize /\ d.msg \notin e + 2 .. Sent /\ ~(d.msg <= e)
      BY <1>1, <2>1
    <3>2. Place(d.msg) \notin early
      BY <1>3, <3>1
    <3> QED BY <1>2, <1>6, <3>1, <3>2 DEF UnorderedAt
  <2>5. ASSUME NEW m \in 1 .. Sent
        PROVE  m <= f \/ Place(m) \in early' <=> m <= e \/ Place(m) \in early \/ m = d.msg
    <3>1. CASE m <= e + 1
      BY <2>1, <2>3, <3>1
    <3>2. CASE m \in e + 2 .. f
      BY <2>2, <3>2 DEF PassesTo
    <3>3. CASE m \in f + 1 .. Sent
      <4>1. ~(m <= f) /\ ~(m <= e) /\ m # d.msg
        BY <2>1, <2>3, <3>3
      <4> QED BY <2>2, <3>3, <4>1 DEF PassesTo
    <3> QED BY <1>1, <2>3, <3>1, <3>2, <3>3
  <2>6. UnorderedAt(f)'
    BY <1>0, <1>1, <1>2, <1>4, <1>5, <1>6, <1>9, <2>3, <2>4, <2>5, UnorderedOneMore
  <2>7. ReceiverAt(b, f)'
    <3>1. b <= f
      BY <1>2, <2>3
    <3> QED BY <1>0, <1>5, <2>2, <2>3, <2>6, <3>1 DEF ReceiverAt, PassesTo
  <2>8. Had(d.msg, f)'
    BY <1>0, <2>1, <2>3 DEF Had
  <2>9. \A m \in Nat : m <= Sent /\ Had(m, e) => Had(m, f)'
    <3>1. \A m \in f + 1 .. Sent : Place(m) \in early => Place(m) \in early'
      BY <2>2 DEF PassesTo
    <3> QED BY <1>0, <1>1, <2>3, <3>1, HadKept
  <2> QED BY <1>0, <2>3, <2>7, <2>8, <2>9, ReceivedWindow
<1>10. CASE /\ relate \in 1 .. WindowSize
            /\ d.seq % WindowSize \notin early
            /\ early' = early \cup {d.seq % WindowSize}
            /\ released' = Append(released, d.msg)
            /\ UNCHANGED expected
  <2>1. d.msg \in e + 2 .. Sent /\ d.msg \in Int
    BY <1>4, <1>10
  <2>2. early' = early \cup {Place(d.msg)} /\ Place(d.msg) \notin early
    BY <1>4, <1>10
  <2>3. early' \subseteq {Place(m) : m \in e + 2 .. Sent}
    BY <1>2, <2>1, <2>2
  <2>4. ~GotThrough(d.msg)
    <3>1. ~(d.msg <= e)
      BY <2>1
    <3> QED BY <1>2, <1>6, <2>2, <3>1 DEF UnorderedAt
  <2>5. ASSUME NEW m \in 1 .. Sent
        PROVE  m <= e \/ Place(m) \in early' <=> m <= e \/ Place(m) \in early \/ m = d.msg
    <3>1. ASSUME ~(m <= e), Place(m) = Place(d.msg) PROVE m = d.msg
      <4>1. m - d.msg < WindowSize /\ d.msg - m < WindowSize /\ m \in Int
        BY <1>1, <1>3, <2>1, <3>1
      <4> QED BY <2>1, <3>1, <4>1, SamePlace
    <3> QED BY <2>2, <3>1
  <2>6. UnorderedAt(e)'
    BY <1>0, <1>1, <1>2, <1>4, <1>5, <1>6, <1>10, <2>4, <2>5, UnorderedOneMore
  <2>7. ReceiverAt(b, e)'
    BY <1>0, <1>2, <1>5, <1>10, <2>3, <2>6 DEF ReceiverAt
  <2>8. Had(d.msg, e)' /\ \A m \in Nat : m <= Sent /\ Had(m, e) => Had(m, e)'
    BY <1>0, <2>2 DEF Had
  <2> QED BY <1>0, <1>8, <2>7, <2>8, ReceivedWindow
<1>11. CASE /\ relate < 0 \/ d.seq % WindowSize \in early
            /\ UNCHANGED <<expected, early, released>>
  <2>1. Had(d.msg, e)
    <3>1. relate < 0 => d.msg <= e
      BY <1>4
    <3> QED BY <1>0, <1>4, <1>11, <3>1 DEF Had
  <2>2. \A m : Had(m, e)' <=> Had(m, e)
    BY <1>11 DEF Had, GotThrough
  <2>3. ReceiverAt(b, e)'
    BY <1>0, <1>5, <1>11 DEF ReceiverAt, UnorderedAt, GotThrough
  <2> QED BY <1>0, <1>8, <2>1, <2>2, <2>3, ReceivedWindow
<1>12. ~(relate > WindowSize)
  BY <1>1, <1>4
<1> QED BY <1>7, <1>9, <1>10, <1>11, <1>12 DEF ReceiveUnordered

\* What a sequenced receiver has released, when it moves on to f.
LEMMA SequencedMovesOn ==
    ASSUME TypeInv, QueueInv, WireInv, NEW b \in Nat, NEW e \in Nat, WindowAt(b, e),
           Method = "ReliableSequenced", NEW d \in data, ReceiveMessage(d),
           NEW f \in Nat, e <= f, f <= Sent, e + 1 <= d.msg, d.msg <= f + 1, f <= d.msg,
           expected' = f % NumSequenceNumbers, released' = Append(released, d.msg)
    PROVE  QueueInv' /\ WireInv' /\ WindowAt(b, f)'
<1> DEFINE l == Len(released)
<1>0. TypeOK /\ SequencedAt(b, e)
  BY DEF TypeInv, WindowAt, ReceiverAt
<1>1. d.msg \in 1 .. MaxMessages /\ d.msg \in Nat /\ MaxMessages \in Nat
  BY <1>0, Sizes DEF TypeOK, Datagram
<1>2. /\ DOMAIN released = 1 .. l /\ l \in Nat
      /\ DOMAIN released' = 1 .. l + 1
      /\ \A i \in 1 .. l : released'[i] = released[i]
      /\ released'[l + 1] = d.msg
      /\ \A i \in 1 .. l + 1 : i \in 1 .. l \/ i = l + 1
  BY <1>0, <1>1, ReleasedOneMore
<1>3. \A i \in 1 .. l : released[i] \in Nat
  BY <1>0, <1>2, ReleasedNumbers
<1>4. /\ \A i \in 1 .. l : released[i] <= e + 1 /\ released[i] <= Sent
      /\ \A i, j \in 1 .. l : i < j => released[i] <= released[j]
      /\ \A m \in 1 .. e : GotThrough(m)
      /\ \A m \in 1 .. b : GotThrough(m)
  BY <1>0, <1>2 DEF SequencedAt
<1> HIDE DEF l
<1>5. \A m : GotThrough(m) <=> \E i \in 1 .. l : released[i] >= m
  BY <1>2 DEF GotThrough
<1>6. \A m : GotThrough(m)' <=> \E i \in 1 .. l + 1 : released'[i] >= m
  BY <1>2 DEF GotThrough
<1>7. l + 1 \in 1 .. l + 1 /\ \A i \in 1 .. l : i \in 1 .. l + 1
  BY <1>2
<1>8. \A m : GotThrough(m) => GotThrough(m)'
  BY <1>2, <1>5, <1>6, <1>7
<1>9. ASSUME NEW m \in Int, m <= d.msg PROVE GotThrough(m)'
  <2>1. released'[l + 1] >= m
    BY <1>1, <1>2, <1>9
  <2> QED BY <1>6, <1>7, <2>1
<1>10. Sent' = Sent
  BY DEF ReceiveMessage, Sent
<1>11. SequencedAt(b, f)'
  <2>1. ASSUME NEW i \in 1 .. l + 1 PROVE released'[i] <= f + 1 /\ released'[i] <= Sent'
    <3>1. CASE i \in 1 .. l
      <4>1. /\ released[i] <= e + 1 /\ released[i] <= Sent
            /\ released[i] \in Nat /\ released'[i] = released[i]
        BY <1>2, <1>3, <1>4, <3>1
      <4> QED BY <1>10, <4>1
    <3>2. CASE i = l + 1
      <4>1. d.msg <= Sent
        BY <1>0, DatagramFacts
      <4> QED BY <1>2, <1>10, <3>2, <4>1
    <3> QED BY <1>2, <3>1, <3>2
  <2>2. ASSUME NEW i \in 1 .. l + 1, NEW j \in 1 .. l + 1, i < j
        PROVE  released'[i] <= released'[j]
    <3>1. i \in 1 .. l
      BY <1>2, <2>2
    <3>2. CASE j \in 1 .. l
      BY <1>2, <1>4, <2>2, <3>1, <3>2
    <3>3. CASE j = l + 1
      <4>1. released[i] <= e + 1 /\ released[i] \in Nat /\ released'[i] = released[i]
        BY <1>2, <1>3, <1>4, <3>1
      <4> QED BY <1>1, <1>2, <3>3, <4>1
    <3> QED BY <1>2, <3>2, <3>3
  <2>3. \A m \in 1 .. f : GotThrough(m)'
    <3> TAKE m \in 1 .. f
    <3>1. m \in Int /\ m <= d.msg
      BY <1>1
    <3> QED BY <1>9, <3>1
  <2>4. \A m \in 1 .. b : GotThrough(m)'
    BY <1>4, <1>8
  <2> QED BY <1>2, <2>1, <2>2, <2>3, <2>4 DEF SequencedAt
<1>12. ReceiverAt(b, f)'
  BY <1>11, <1>10 DEF ReceiverAt
<1>13. Had(d.msg, f)'
  BY <1>1, <1>9 DEF Had
<1>14. \A m \in Nat : m <= Sent /\ Had(m, e) => Had(m, f)'
  BY <1>8 DEF Had
<1> QED BY <1>0, <1>12, <1>13, <1>14, ReceivedWindow

\* The sequenced receiver moves to an early message, and past one on time.
LEMMA SequencedWindow ==
    ASSUME TypeInv, QueueInv, WireInv, NEW b \in Nat, NEW e \in Nat, WindowAt(b, e),
           Method = "ReliableSequenced", NEW d \in data, ReceiveMessage(d)
    PROVE  QueueInv' /\ WireInv' /\ \E f \in 0 .. MaxMessages : WindowAt(b, f)'
<1> DEFINE relate == RelativeSequenceNumber(d.seq, expected)
<1>0. TypeOK /\ ReceiverAt(b, e) /\ SequencedAt(b, e)
  BY DEF TypeInv, WindowAt, ReceiverAt
<1>1. /\ WindowSize \in Nat \ {0} /\ MaxMessages \in Nat
      /\ Sent \in Nat /\ Sent <= MaxMessages
  BY <1>0, Sizes, SentFacts
<1>2. /\ d.msg \in Nat /\ d.msg # 0 /\ d.msg <= Sent
      /\ relate = d.msg - 1 - e /\ relate < WindowSize + 1
  BY <1>0, DatagramFacts
<1>3. e <= Sent /\ expected = e % NumSequenceNumbers
  BY <1>0 DEF ReceiverAt
<1>4. ReceiveSequenced(d, relate)
  BY DEF ReceiveMessage
<1>5. ASSUME NEW k \in Int
      PROVE  (expected + k) % NumSequenceNumbers = (e + k) % NumSequenceNumbers
  BY <1>3, e \in Int, CountedOn, Zenon
<1>6. CASE /\ relate = 0
           /\ expected' = (expected + 1) % NumSequenceNumbers
           /\ released' = Append(released, d.msg)
  <2>1. /\ e + 1 \in Nat /\ e <= e + 1 /\ e + 1 <= Sent /\ e + 1 <= d.msg
        /\ d.msg <= (e + 1) + 1 /\ e + 1 \in 0 .. MaxMessages
    BY <1>1, <1>2, <1>6
  <2>2. expected' = (e + 1) % NumSequenceNumbers
    BY <1>5, <1>6
  <2>3. PICK f \in 0 .. MaxMessages : f = e + 1
    BY <2>1
  <2>4. f \in Nat
    BY <2>1, <2>3
  <2> QED BY <1>6, <2>1, <2>2, <2>3, <2>4, SequencedMovesOn
<1>7. CASE /\ relate \in 1 .. WindowSize
           /\ expected' = (expected + relate) % NumSequenceNumbers
           /\ released' = Append(released, d.msg)
  <2>1. PICK f \in 0 .. MaxMessages : f = e + relate
    BY <1>1, <1>2, <1>7
  <2>2. /\ f \in Nat /\ e <= f /\ f <= Sent /\ e + 1 <= d.msg /\ d.msg <= f + 1 /\ f <= d.msg
    BY <1>1, <1>2, <1>7, <2>1
  <2>3. expected' = f % NumSequenceNumbers
    <3>1. relate \in Int
      BY <1>2
    <3> HIDE DEF relate
    <3> QED BY <1>5, <1>7, <2>1, <3>1
  <2> QED BY <1>7, <2>2, <2>3, SequencedMovesOn
<1>8. CASE relate < 0 /\ UNCHANGED <<expected, released>>
  <2>1. d.msg \in 1 .. e
    BY <1>2, <1>8
  <2>2. \A m : GotThrough(m)' <=> GotThrough(m)
    BY <1>8 DEF GotThrough
  <2>3. Had(d.msg, e)' /\ \A m \in Nat : m <= Sent /\ Had(m, e) => Had(m, e)'
    BY <1>0, <2>1, <2>2 DEF Had, SequencedAt
  <2>4. ReceiverAt(b, e)'
    <3>1. Sent' = Sent
      BY DEF ReceiveMessage, Sent
    <3>2. SequencedAt(b, e)'
      BY <1>0, <1>8, <2>2, <3>1 DEF SequencedAt
    <3> QED BY <1>3, <1>8, <3>1, <3>2 DEF ReceiverAt
  <2>5. e \in 0 .. MaxMessages
    BY <1>1, <1>3
  <2> QED BY <1>0, <2>3, <2>4, <2>5, ReceivedWindow
<1>9. ~(relate > WindowSize)
  BY <1>1, <1>2
<1> QED BY <1>4, <1>6, <1>7, <1>8, <1>9 DEF ReceiveSequenced

-----------------------------------------------------------------------------
\* The windows of both ends, whatever the wire does.

\* At the start nothing was sent.
LEMMA InitWindow == Init => WindowInv
<1> SUFFICES ASSUME Init PROVE WindowInv
  OBVIOUS
<1>1. /\ 0 \in 0 .. MaxMessages /\ NumSequenceNumbers \in Nat \ {0} /\ WindowSize \in Nat
      /\ 0 % NumSequenceNumbers = 0 /\ Sent = 0 /\ DOMAIN released = {}
      /\ DOMAIN queuedSends = {} /\ Len(queuedSends) = 0 /\ Len(released) = 0
  <2>1. released = <<>> /\ queuedSends = <<>> /\ accepted = 0
    BY DEF Init
  <2>2. /\ DOMAIN released = {} /\ Len(released) = 0
        /\ DOMAIN queuedSends = {} /\ Len(queuedSends) = 0
    BY <2>1
  <2>3. Sent = 0
    <3>1. 0 - 0 = 0
      OBVIOUS
    <3> QED BY <2>1, <2>2, <3>1, Zenon DEF Sent
  <2>4. 0 \in Int /\ NumSequenceNumbers \in Nat \ {0} /\ WindowSize \in Nat
        /\ 0 \in 0 .. NumSequenceNumbers - 1 /\ 0 = NumSequenceNumbers * 0 + 0
        /\ 0 \in 0 .. MaxMessages
    BY Sizes
  <2>5. 0 % NumSequenceNumbers = 0
    BY <2>4, RemainderUnique, Zenon
  <2> QED BY <2>2, <2>3, <2>4, <2>5
<1>2. QueueInv /\ WireInv
  BY <1>1 DEF Init, QueueInv, WireInv
<1>3. SenderAt(0)
  <2>1. StoredSlots = {}
    BY DEF Init, StoredSlots
  <2>2. \A m \in 0 + 1 .. 0 : FALSE
    OBVIOUS
  <2> QED BY <1>1, <2>1, <2>2 DEF Init, SenderAt
<1>4. AckInv(0, 0)
  BY <1>1 DEF Init, AckInv
<1>5. ReceiverAt(0, 0)
  <2>1. \A m \in Int : ~(m \in 1 .. 0) /\ ~(m \in 0 + 2 .. 0)
    OBVIOUS
  <2>2. OrderedAt(0) /\ UnorderedAt(0) /\ SequencedAt(0, 0)
    BY <1>1, <2>1 DEF Init, OrderedAt, UnorderedAt, SequencedAt, GotThrough
  <2> QED BY <1>1, <2>2 DEF Init, ReceiverAt
<1>6. WindowAt(0, 0)
  BY <1>3, <1>4, <1>5 DEF WindowAt
<1> QED BY <1>1, <1>2, <1>6 DEF WindowInv

\* Every step keeps the windows.
LEMMA NextWindow == TypeInv /\ WindowInv /\ [Next]_vars => WindowInv'
<1> SUFFICES ASSUME TypeInv, WindowInv, [Next]_vars PROVE WindowInv'
  OBVIOUS
<1>1. PICK b \in 0 .. MaxMessages, e \in 0 .. MaxMessages : WindowAt(b, e)
  BY DEF WindowInv
<1>2. TypeOK /\ QueueInv /\ WireInv /\ b \in Nat /\ e \in Nat
  BY Sizes DEF TypeInv, WindowInv
<1>3. ASSUME NEW c \in 0 .. MaxMessages, NEW f \in 0 .. MaxMessages,
             QueueInv', WireInv', WindowAt(c, f)'
      PROVE  WindowInv'
  BY <1>3 DEF WindowInv
<1>4. CASE Enqueue
  BY <1>1, <1>2, <1>3, <1>4, EnqueueWindow
<1>5. CASE \/ Flag \/ TestFlush \/ ClearFlush
           \/ \E d \in data \cup acks : Lose(d)
           \/ UNCHANGED vars
  BY <1>1, <1>2, <1>3, <1>5, QuietWindow
<1>6. ASSUME NEW due \in SUBSET StoredSlots, SendQueuedMessages(due) PROVE WindowInv'
  BY <1>1, <1>2, <1>3, <1>6, SendWindow
<1>7. ASSUME NEW a \in acks, ReceiveAcknowledge(a) PROVE WindowInv'
  <2>1. CASE AcknowledgeOnTime(a)
    BY <1>1, <1>2, <1>3, <1>7, <2>1, OnTimeWindow
  <2>2. ASSUME NEW again \in SUBSET Holes(a.seq), AcknowledgeEarly(a, again) PROVE WindowInv'
    BY <1>1, <1>2, <1>3, <1>7, <2>2, EarlyAckWindow
  <2> QED BY <1>7, <2>1, <2>2 DEF ReceiveAcknowledge
<1>8. ASSUME NEW d \in data, ReceiveMessage(d) PROVE WindowInv'
  <2>1. QueueInv' /\ WireInv' /\ \E f \in 0 .. MaxMessages : WindowAt(b, f)'
    BY <1>1, <1>2, <1>8, OrderedWindow, UnorderedWindow, SequencedWindow, MethodAssumption
  <2> QED BY <1>3, <2>1
<1> QED BY <1>4, <1>5, <1>6, <1>7, <1>8 DEF Next, User, Sender, Wire

\* Both ends and the wire always agree on the messages that the wrapped numbers
\* stand for: the sender's window, the receiver's, the bits of what came early at
\* either end, and the datagrams and acknowledgements under way.
THEOREM WindowInvariant == Spec => []WindowInv
BY InitWindow, NextWindow, ChannelTypeInvariant, PTL DEF Spec

-----------------------------------------------------------------------------
\* What the windows mean for the user.

\* A message the sender has let go was had by the receiver.
LEMMA WindowKeeps == TypeInv /\ WindowInv => KeptUntilThrough
<1> SUFFICES ASSUME TypeInv, WindowInv, NEW m \in 1 .. accepted
             PROVE  \/ \E i \in DOMAIN queuedSends : queuedSends[i] = m
                    \/ \E i \in Slot : stored[i].msg = m
                    \/ GotThrough(m)
  BY DEF KeptUntilThrough
<1>1. PICK b \in 0 .. MaxMessages, e \in 0 .. MaxMessages : WindowAt(b, e)
  BY DEF WindowInv
<1>2. TypeOK /\ QueueInv /\ SenderAt(b) /\ ReceiverAt(b, e)
  BY <1>1 DEF TypeInv, WindowInv, WindowAt
<1>3. /\ Len(queuedSends) \in Nat /\ DOMAIN queuedSends = 1 .. Len(queuedSends)
      /\ Sent \in Nat /\ accepted = Sent + Len(queuedSends)
  BY <1>2, SentFacts
<1>4. CASE m > Sent
  <2>1. PICK i \in DOMAIN queuedSends : i = m - Sent
    BY <1>3, <1>4
  <2>2. queuedSends[i] = m
    BY <1>2, <1>3, <2>1 DEF QueueInv
  <2> QED BY <2>2
<1>5. CASE m \in b + 1 .. Sent
  <2>1. stored[Place(m)].msg = m /\ Place(m) \in Slot
    BY <1>2, <1>5, NumberFacts DEF SenderAt
  <2> QED BY <2>1
<1>6. CASE m \in 1 .. b
  <2>1. m \in 1 .. Sent
    BY <1>2, <1>3, <1>6 DEF SenderAt
  <2>2. CASE Method = "ReliableSequenced"
    BY <1>2, <1>6, <2>2 DEF ReceiverAt, SequencedAt
  <2>3. CASE Method = "ReliableOrdered"
    <3>1. b <= e /\ Len(released) = e /\ \A i \in 1 .. e : released[i] = i
      BY <1>2, <2>3 DEF ReceiverAt, OrderedAt
    <3>2. m \in 1 .. e /\ DOMAIN released = 1 .. e
      BY <1>2, <1>6, <3>1, ReleasedNumbers
    <3> QED BY <2>3, <3>1, <3>2 DEF GotThrough
  <2>4. CASE Method = "ReliableUnordered"
    <3>1. b <= e /\ UnorderedAt(e)
      BY <1>2, <2>4 DEF ReceiverAt
    <3>2. m <= e
      BY <1>6, <3>1
    <3> QED BY <2>1, <3>1, <3>2 DEF UnorderedAt
  <2> QED BY <2>2, <2>3, <2>4, MethodAssumption
<1> QED BY <1>3, <1>4, <1>5, <1>6

\* A message leaves the queue and the slots of the sender only when it has got
\* through, for every method and every window the numbers allow: an acknowledgement
\* is never taken for that of another message, one window's or one round's later.
THEOREM ForgottenOnlyWhenThrough == Spec => []KeptUntilThrough
BY WindowKeeps, ChannelTypeInvariant, WindowInvariant, PTL

\* No datagram is ahead of the receiver's window, however late the wire delivers it
\* within its Lifetime: the branch of the three receivers that drops a message as
\* too early, although it has been acknowledged, is never taken.
THEOREM NothingTooEarly == Spec => []NeverTooEarly
<1>1. ASSUME TypeInv, WindowInv, NEW d \in data
      PROVE  RelativeSequenceNumber(d.seq, expected)
                 < IF Method = "ReliableSequenced" THEN WindowSize + 1 ELSE WindowSize
  <2>1. PICK b \in 0 .. MaxMessages, e \in 0 .. MaxMessages : WindowAt(b, e)
    BY <1>1 DEF WindowInv
  <2>2. TypeOK /\ QueueInv /\ WireInv /\ b \in Nat /\ e \in Nat
    BY <1>1, Sizes DEF TypeInv, WindowInv
  <2> QED BY <2>1, <2>2, DatagramFacts, Zenon
<1>2. TypeInv /\ WindowInv => NeverTooEarly
  BY <1>1 DEF NeverTooEarly
<1> QED BY <1>2, ChannelTypeInvariant, WindowInvariant, PTL

\* The slots of the sender and its window go together.
LEMMA SlotsAreWindow == TypeInv /\ WindowInv => StoredIsWindow
<1> SUFFICES ASSUME TypeInv, WindowInv PROVE StoredIsWindow
  OBVIOUS
<1>1. PICK b \in 0 .. MaxMessages, e \in 0 .. MaxMessages : WindowAt(b, e)
  BY DEF WindowInv
<1>2. TypeOK /\ QueueInv /\ SenderAt(b) /\ b \in Nat
  BY <1>1, Sizes DEF TypeInv, WindowInv, WindowAt
<1>3. Sent \in Nat /\ b <= Sent /\ windowStart = b % NumSequenceNumbers
  BY <1>2, SentFacts DEF SenderAt
<1>4. WindowSize - GetAllowedSends - 1 = Sent - b - 1
  <2>1. GetAllowedSends = WindowSize - (Sent - b) /\ WindowSize \in Nat
    BY <1>2, AllowedFacts, Sizes
  <2> QED BY <1>3, <2>1
<1>5. ASSUME NEW i \in StoredSlots
      PROVE  /\ stored[i].msg \in b + 1 .. Sent /\ stored[i].seq = Number(stored[i].msg)
             /\ stored[i].seq % WindowSize = i
  <2>1. /\ stored[i].msg \in b + 1 .. Sent /\ stored[i].seq = Number(stored[i].msg)
        /\ Place(stored[i].msg) = i
    BY <1>2 DEF SenderAt
  <2>2. PICK m \in b + 1 .. Sent : m = stored[i].msg
    BY <2>1
  <2>3. Number(m) % WindowSize = Place(m)
    BY NumberFacts
  <2> QED BY <2>1, <2>2, <2>3
<1> DEFINE numbers == {stored[i].seq : i \in StoredSlots}
<1>6. ASSUME NEW nr \in numbers PROVE nr \in Window
  <2>1. PICK i \in StoredSlots : nr = stored[i].seq
    OBVIOUS
  <2>2. PICK m \in b + 1 .. Sent : m = stored[i].msg
    BY <1>5
  <2>3. PICK k \in 0 .. Sent - b - 1 : m = b + k + 1
    BY <1>3
  <2>4. (windowStart + k) % NumSequenceNumbers = Number(m)
    BY <1>2, <1>3, <2>3, NumberAfter
  <2>5. nr = (windowStart + k) % NumSequenceNumbers
    BY <1>5, <2>1, <2>2, <2>4
  <2> QED BY <1>4, <2>5 DEF Window
<1>7. ASSUME NEW nr \in Window PROVE nr \in numbers
  <2>1. PICK k \in 0 .. Sent - b - 1 : nr = (windowStart + k) % NumSequenceNumbers
    BY <1>4 DEF Window
  <2>2. PICK m \in b + 1 .. Sent : m = b + k + 1
    BY <1>3
  <2>3. nr = Number(m)
    BY <1>2, <1>3, <2>1, <2>2, NumberAfter
  <2>4. PICK i \in Slot : i = Place(m)
    BY NumberFacts
  <2>5. stored[i].msg = m /\ m # 0
    BY <1>2, <2>4 DEF SenderAt
  <2>6. i \in StoredSlots
    BY <2>5 DEF StoredSlots, NoMessage
  <2>7. nr = stored[i].seq
    BY <1>5, <2>3, <2>5, <2>6
  <2> QED BY <2>6, <2>7
<1> HIDE DEF numbers
<1>8. numbers = Window
  BY <1>6, <1>7
<1> QED BY <1>5, <1>8 DEF StoredIsWindow, numbers

\* ExecuteSend never overwrites a message that still waits for its acknowledgement
\* (the assertion there), and DestoreMessage never finds a slot empty (where it
\* throws), for every window that divides the numbers and is less than half of them.
THEOREM SlotsMatchWindow == Spec => []StoredIsWindow
BY SlotsAreWindow, ChannelTypeInvariant, WindowInvariant, PTL

-----------------------------------------------------------------------------
\* The channel keeps the promise of its method.

\* What the windows promise of the messages released.
LEMMA WindowPromises ==
    ASSUME TypeInv, WindowInv
    PROVE  /\ Channel!Promised(released)
           /\ \A i \in DOMAIN released : released[i] \in 1 .. accepted
<1>1. PICK b \in 0 .. MaxMessages, e \in 0 .. MaxMessages : WindowAt(b, e)
  BY DEF WindowInv
<1>2. TypeOK /\ QueueInv /\ ReceiverAt(b, e)
  BY <1>1 DEF TypeInv, WindowInv, WindowAt
<1>3. /\ Len(queuedSends) \in Nat /\ Sent \in Nat /\ accepted = Sent + Len(queuedSends)
      /\ e <= Sent
  BY <1>2, SentFacts DEF ReceiverAt
<1>4. /\ DOMAIN released = 1 .. Len(released)
      /\ \A i \in DOMAIN released : released[i] \in 1 .. MaxMessages /\ released[i] \in Nat
  BY <1>2, ReleasedNumbers
<1>5. CASE Method = "ReliableOrdered"
  <2>1. /\ DOMAIN released = 1 .. e /\ \A i \in 1 .. e : released[i] = i
    BY <1>2, <1>4, <1>5 DEF ReceiverAt, OrderedAt
  <2>2. Channel!Promised(released)
    BY <1>5, <2>1 DEF Channel!Promised
  <2> QED BY <1>3, <2>1, <2>2
<1>6. CASE Method = "ReliableUnordered"
  <2>1. UnorderedAt(e)
    BY <1>2, <1>6 DEF ReceiverAt
  <2>2. Channel!Promised(released)
    BY <1>6, <2>1 DEF Channel!Promised, UnorderedAt
  <2>3. ASSUME NEW i \in DOMAIN released PROVE released[i] \in 1 .. accepted
    <3>1. released[i] <= Sent
      BY <2>1 DEF UnorderedAt
    <3> QED BY <1>3, <1>4, <3>1
  <2> QED BY <2>2, <2>3
<1>7. CASE Method = "ReliableSequenced"
  <2>1. SequencedAt(b, e)
    BY <1>2, <1>7 DEF ReceiverAt
  <2>2. Channel!Promised(released)
    BY <1>7, <2>1 DEF Channel!Promised, SequencedAt
  <2>3. ASSUME NEW i \in DOMAIN released PROVE released[i] \in 1 .. accepted
    <3>1. released[i] <= Sent
      BY <2>1 DEF SequencedAt
    <3> QED BY <1>3, <1>4, <3>1
  <2> QED BY <2>2, <2>3
<1> QED BY <1>5, <1>6, <1>7, MethodAssumption

\* A receiver only adds to what it has released.
LEMMA ReleasedGrows ==
    ASSUME TypeInv, TypeInv', NEW d \in data, ReceiveMessage(d)
    PROVE  SubSeq(released', 1, Len(released)) = released
<1> DEFINE relate == RelativeSequenceNumber(d.seq, expected)
           l == Len(released)
           S == 0 .. MaxMessages
<1>0. TypeOK /\ released \in Seq(S) /\ l \in Nat /\ d.msg \in 1 .. MaxMessages
  BY BoundAssumption DEF TypeInv, TypeOK, Datagram
<1>1. ASSUME NEW t \in Seq(S), released' = released \o t
      PROVE  SubSeq(released', 1, l) = released
  <2>1. \A i \in 1 .. l : released'[i] = released[i]
    <3>1. Len(t) \in Nat
      OBVIOUS
    <3>2. \A i \in 1 .. l + Len(t) : (released \o t)[i] = IF i <= l THEN released[i] ELSE t[i - l]
      BY <1>0, ConcatProperties
    <3> QED BY <1>0, <1>1, <3>1, <3>2
  <2>2. \A i \in 1 .. l : released[i] \in S
    BY <1>0, ElementOfSeq
  <2>3. \A i \in 1 .. l : released'[i] \in S
    BY <2>1, <2>2
  <2>4. /\ SubSeq(released', 1, l) \in Seq(S)
        /\ Len(SubSeq(released', 1, l)) = IF 1 <= l THEN l - 1 + 1 ELSE 0
        /\ \A i \in 1 .. l - 1 + 1 : SubSeq(released', 1, l)[i] = released'[1 + i - 1]
    <3>1. 1 \in Int /\ l \in Int
      BY <1>0
    <3> HIDE DEF S
    <3> QED BY <2>3, <3>1, SubSeqProperties
  <2>5. Len(SubSeq(released', 1, l)) = Len(released)
    BY <1>0, <2>4
  <2>6. \A i \in 1 .. l : SubSeq(released', 1, l)[i] = released[i]
    BY <1>0, <2>1, <2>4
  <2> HIDE DEF S
  <2> QED BY <1>0, <2>4, <2>5, <2>6, SeqEqual
<1>2. ASSUME released' = released PROVE SubSeq(released', 1, l) = released
  <2>1. <<>> \in Seq(S) /\ released' = released \o <<>>
    BY <1>0, <1>2, ConcatEmptySeq
  <2> QED BY <1>1, <2>1
<1>3. ASSUME released' = Append(released, d.msg) PROVE SubSeq(released', 1, l) = released
  <2>1. <<d.msg>> \in Seq(S) /\ released' = released \o <<d.msg>>
    BY <1>0, <1>3
  <2> QED BY <1>1, <2>1
<1>4. CASE ReceiveOrdered(d, relate)
  <2>1. CASE UNCHANGED released
    BY <1>2, <2>1
  <2>2. CASE /\ relate = 0
             /\ released' = released \o <<d.msg>>
                               \o [k \in 1 .. EarlyRun(d) |-> withheld[After(d, k - 1)]]
    <3>1. /\ EarlyRun(d) \in 0 .. WindowSize /\ \A k \in Nat : After(d, k) \in Slot
      BY <1>0, <2>2, EarlyRunFound
    <3> DEFINE run == EarlyRun(d)
               tail == [k \in 1 .. run |-> withheld[After(d, k - 1)]]
    <3>2. run \in Nat
      BY <3>1, WindowAssumption
    <3>3. tail \in Seq(S)
      <4>1. ASSUME NEW k \in 1 .. run PROVE withheld[After(d, k - 1)] \in S
        <5>1. After(d, k - 1) \in Slot
          BY <3>1, <3>2, k - 1 \in Nat
        <5> QED BY <1>0, <5>1 DEF TypeOK
      <4> HIDE DEF run, S
      <4> QED BY <3>2, <4>1
    <3> HIDE DEF tail
    <3>4. released' = (released \o <<d.msg>>) \o tail
      BY <2>2 DEF tail
    <3>5. <<d.msg>> \in Seq(S)
      BY <1>0
    <3>6. released' = released \o (<<d.msg>> \o tail)
      BY <1>0, <3>3, <3>4, <3>5, ConcatAssociative
    <3>7. <<d.msg>> \o tail \in Seq(S)
      BY <3>3, <3>5, ConcatProperties
    <3> QED BY <1>1, <3>6, <3>7
  <2> QED BY <1>4, <2>1, <2>2 DEF ReceiveOrdered
<1>5. CASE ReceiveUnordered(d, relate) \/ ReceiveSequenced(d, relate)
  BY <1>2, <1>3, <1>5 DEF ReceiveUnordered, ReceiveSequenced
<1> QED BY <1>4, <1>5 DEF ReceiveMessage

\* The channel implements what its delivery method promises: ordered messages come
\* in the order they were sent and without gaps, unordered ones at most once,
\* sequenced ones never after a newer one, whatever the wire loses, repeats and
\* reorders.
THEOREM ReliableKeepsPromise == Spec => KeepsPromise
<1> DEFINE Seen == /\ Channel!Promised(released)
                   /\ \A i \in DOMAIN released : released[i] \in 1 .. accepted
<1>1. Init => Channel!Init
  BY DEF Init, Channel!Init
<1>2. TypeInv /\ WindowInv => Seen
  BY WindowPromises
<1>3. ASSUME TypeInv, TypeInv', Seen', [Next]_vars
      PROVE  [Channel!Next]_<<accepted, released>>
  <2>1. CASE Enqueue
    BY <2>1 DEF Enqueue, Channel!Next, Channel!Accept
  <2>2. ASSUME NEW d \in data, ReceiveMessage(d)
        PROVE  [Channel!Next]_<<accepted, released>>
    <3>1. accepted' = accepted
      BY <2>2 DEF ReceiveMessage
    <3>2. CASE released' # released
      <4>1. SubSeq(released', 1, Len(released)) = released
        BY <1>3, <2>2, ReleasedGrows
      <4>2. /\ Channel!Promised(released')
            /\ \A i \in DOMAIN released' : released'[i] \in 1 .. accepted'
        BY <1>3 DEF Channel!Promised
      <4> QED BY <3>1, <3>2, <4>1, <4>2 DEF Channel!Next, Channel!Release
    <3> QED BY <3>1, <3>2
  <2>3. CASE \/ Flag \/ TestFlush \/ ClearFlush
             \/ \E due \in SUBSET StoredSlots : SendQueuedMessages(due)
             \/ \E a \in acks : ReceiveAcknowledge(a)
             \/ \E d \in data \cup acks : Lose(d)
             \/ UNCHANGED vars
    <3>1. UNCHANGED <<accepted, released>>
      BY <2>3 DEF Flag, TestFlush, ClearFlush, SendQueuedMessages, ReceiveAcknowledge, Lose, vars
    <3> QED BY <3>1
  <2> QED BY <1>3, <2>1, <2>2, <2>3 DEF Next, User, Sender, Wire
<1> HIDE DEF Seen
<1> QED BY <1>1, <1>2, <1>3, ChannelTypeInvariant, WindowInvariant, PTL
        DEF Spec, KeepsPromise, Channel!Spec
=============================================================================
