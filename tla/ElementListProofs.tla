------------------------- MODULE ElementListProofs -------------------------
(***************************************************************************)
(* What the scan for a free ID guarantees for EVERY list, and what it      *)
(* guarantees only for a list sorted by ID.                                *)
(*                                                                         *)
(* The scan is defined by where it breaks, so a fact about all positions   *)
(* before that one is proved from a least position that violates it: the   *)
(* minimum exists because < is well founded on the natural numbers.        *)
(***************************************************************************)
EXTENDS ElementList, WellFoundedInduction, TLAPS

\* Every non-empty set of natural numbers has a least element.
LEMMA LeastElement ==
    ASSUME NEW S \in SUBSET Nat, S # {}
    PROVE  \E n \in S : \A m \in S : n <= m
<1> DEFINE Less == {ss \in Nat \X Nat : ss[1] < ss[2]}
<1>1. IsWellFoundedOn(Less, Nat)
  BY NatLessThanWellFounded DEF OpToRel
<1> HIDE DEF Less
<1>2. PICK n \in S : \A m \in S : ~(<<m, n>> \in Less)
  BY <1>1, WFMin
<1> USE DEF Less
<1>3. ASSUME NEW m \in S PROVE n <= m
  <2>1. m \in Nat /\ n \in Nat /\ ~(<<m, n>> \in Less)
    BY <1>2
  <2>2. ~(m < n)
    BY <2>1
  <2> QED
    BY <2>1, <2>2
<1> QED
  BY <1>3

\* The scan always stops: at the first element that exceeds its candidate, or
\* behind the list.
LEMMA ScanStops ==
    ASSUME NEW ids \in Seq(Nat)
    PROVE  \E i \in 1 .. Len(ids) + 1 : BreaksAt(ids, i)
<1> DEFINE Stops == {i \in 1 .. Len(ids) + 1 : i \in DOMAIN ids => ids[i] > Candidate(ids, i)}
<1>1. Len(ids) \in Nat /\ DOMAIN ids = 1 .. Len(ids)
  OBVIOUS
<1>2. Len(ids) + 1 \in Stops
  BY <1>1
<1>3. Stops \in SUBSET Nat /\ Stops # {}
  BY <1>1, <1>2
<1>4. PICK i \in Stops : \A m \in Stops : i <= m
  BY <1>3, LeastElement
<1>5. ASSUME NEW j \in 1 .. (i - 1)
      PROVE  ids[j] <= Candidate(ids, j)
  <2>1. j \in 1 .. Len(ids) /\ j < i /\ j \in 1 .. Len(ids) + 1
    BY <1>1, <1>4
  <2>2. j \notin Stops
    BY <1>4, <2>1, <1>1
  <2>3. ~(ids[j] > Candidate(ids, j))
    BY <2>1, <2>2, <1>1
  <2>4. ids[j] \in Nat /\ Candidate(ids, j) \in Nat
    BY <2>1, <1>1 DEF Candidate
  <2> QED
    BY <2>3, <2>4
<1>6. BreaksAt(ids, i)
  BY <1>4, <1>5 DEF BreaksAt
<1> QED
  BY <1>4, <1>6

\* The break that FreeID chooses is one.
LEMMA FreeIDBreak ==
    ASSUME NEW ids \in Seq(Nat)
    PROVE  \E i \in 1 .. Len(ids) + 1 : BreaksAt(ids, i) /\ FreeID(ids) = Candidate(ids, i)
BY ScanStops DEF FreeID

\* Add numbers an element from 1 to one more than the number of elements, in
\* whatever order they are listed: IDs cannot drift upwards as players come
\* and go (PlayersController.Add, VehiclesController.Add).
THEOREM FreeIDBounded ==
    ASSUME NEW ids \in Seq(Nat)
    PROVE  FreeID(ids) \in 1 .. Len(ids) + 1
<1>1. PICK i \in 1 .. Len(ids) + 1 : BreaksAt(ids, i) /\ FreeID(ids) = Candidate(ids, i)
  BY FreeIDBreak
<1>2. Len(ids) \in Nat /\ DOMAIN ids = 1 .. Len(ids)
  OBVIOUS
<1> DEFINE Above == {j \in 1 .. (i - 1) : ids[j] > j}
<1>3. Above = {}
  <2>1. SUFFICES ASSUME Above # {} PROVE FALSE
    OBVIOUS
  <2>2. Above \in SUBSET Nat
    BY <1>2
  <2>3. PICK j \in Above : \A m \in Above : j <= m
    BY <2>1, <2>2, LeastElement
  <2>4. j \in 1 .. (i - 1) /\ ids[j] > j /\ ids[j] <= Candidate(ids, j)
    BY <1>1, <2>3 DEF BreaksAt
  <2>5. j # 1
    BY <1>2, <2>4 DEF Candidate
  <2>6. j - 1 \in 1 .. (i - 1) /\ j - 1 \notin Above
    BY <1>2, <2>3, <2>4, <2>5
  <2>7. ids[j - 1] <= j - 1 /\ ids[j - 1] \in Nat /\ ids[j] \in Nat
    BY <1>2, <2>4, <2>6
  <2>8. Candidate(ids, j) = ids[j - 1] + 1
    BY <2>5 DEF Candidate
  <2> QED
    BY <2>4, <2>7, <2>8
<1>4. CASE i = 1
  BY <1>1, <1>2, <1>4 DEF Candidate
<1>5. CASE i # 1
  <2>1. i - 1 \in 1 .. (i - 1) /\ i - 1 \in DOMAIN ids /\ i - 1 \notin Above
    BY <1>2, <1>3, <1>5
  <2>2. ids[i - 1] \in Nat /\ ids[i - 1] <= i - 1
    BY <1>2, <2>1
  <2>3. Candidate(ids, i) = ids[i - 1] + 1
    BY <1>5 DEF Candidate
  <2> QED
    BY <1>1, <1>2, <2>2, <2>3
<1> QED
  BY <1>4, <1>5

\* On a list that IS sorted by ID the scan finds an ID nobody has: with the
\* result of OrderBy kept, PlayersController.Add would never repeat an ID.
THEOREM FreeIDFreshIfSorted ==
    ASSUME NEW ids \in Seq(Nat), StrictlySorted(ids)
    PROVE  FreeID(ids) \notin Elements(ids)
<1>1. PICK i \in 1 .. Len(ids) + 1 : BreaksAt(ids, i) /\ FreeID(ids) = Candidate(ids, i)
  BY FreeIDBreak
<1>2. Len(ids) \in Nat /\ DOMAIN ids = 1 .. Len(ids)
  OBVIOUS
<1>3. SUFFICES ASSUME NEW k \in DOMAIN ids PROVE ids[k] # Candidate(ids, i)
  BY <1>1 DEF Elements
<1>4. CASE k < i
  <2>1. i # 1 /\ i - 1 \in DOMAIN ids /\ ids[k] <= ids[i - 1]
    BY <1>2, <1>4 DEF StrictlySorted
  <2>2. Candidate(ids, i) = ids[i - 1] + 1
    BY <2>1 DEF Candidate
  <2> QED
    BY <1>2, <2>1, <2>2
<1>5. CASE k >= i
  <2>1. i \in DOMAIN ids /\ ids[i] <= ids[k]
    BY <1>2, <1>5 DEF StrictlySorted
  <2>2. ids[i] > Candidate(ids, i)
    BY <1>1, <2>1 DEF BreaksAt
  <2>3. Candidate(ids, i) \in Nat
    BY <1>2 DEF Candidate
  <2> QED
    BY <1>2, <2>1, <2>2, <2>3
<1> QED
  BY <1>2, <1>4, <1>5

\* On a dense list the scan runs off the end, so the list stays dense: the
\* ID of a vehicle is its position (VehiclesController.Add).
THEOREM FreeIDOfDense ==
    ASSUME NEW ids \in Seq(Nat), Dense(ids)
    PROVE  FreeID(ids) = Len(ids) + 1 /\ Dense(Append(ids, FreeID(ids)))
<1>1. PICK i \in 1 .. Len(ids) + 1 : BreaksAt(ids, i) /\ FreeID(ids) = Candidate(ids, i)
  BY FreeIDBreak
<1>2. Len(ids) \in Nat /\ DOMAIN ids = 1 .. Len(ids)
  OBVIOUS
<1>3. Candidate(ids, i) = i
  BY <1>2 DEF Candidate, Dense
<1>4. i \notin DOMAIN ids
  BY <1>1, <1>2, <1>3 DEF BreaksAt, Dense
<1>5. FreeID(ids) = Len(ids) + 1
  BY <1>1, <1>2, <1>3, <1>4
<1> QED
  BY <1>2, <1>5 DEF Dense

-----------------------------------------------------------------------------
\* Removing an element removes it and nothing else (PlayersController.Remove).
THEOREM WithoutElements ==
    ASSUME NEW S, NEW list \in Seq(S), NEW e, Distinct(list)
    PROVE  /\ Without(list, e) \in Seq(S)
           /\ Distinct(Without(list, e))
           /\ Elements(Without(list, e)) = Elements(list) \ {e}
<1>1. CASE e \notin Elements(list)
  BY <1>1 DEF Without
<1>2. CASE e \in Elements(list)
  <2>1. Len(list) \in Nat /\ DOMAIN list = 1 .. Len(list)
    OBVIOUS
  <2>2. PICK k \in DOMAIN list : list[k] = e
    BY <1>2 DEF Elements
  <2>3. FirstIndex(list, e) = k
    <3>1. \A j \in DOMAIN list : list[j] = e => j = k
      BY <2>2 DEF Distinct
    <3>2. \A j \in 1 .. k - 1 : list[j] # e
      BY <2>1, <2>2, <3>1
    <3> QED
      BY <2>2, <3>1, <3>2 DEF FirstIndex
  <2> DEFINE shorter == [i \in 1 .. Len(list) - 1 |-> IF i < k THEN list[i] ELSE list[i + 1]]
  <2>4. Without(list, e) = shorter
    BY <1>2, <2>3 DEF Without
  <2>5. shorter \in Seq(S)
    BY <2>1, <2>2
  <2>6. Distinct(shorter)
    BY <2>1, <2>2 DEF Distinct
  <2>7. Elements(shorter) \subseteq Elements(list) \ {e}
    BY <2>1, <2>2 DEF Elements, Distinct
  <2>8. ASSUME NEW x \in Elements(list) \ {e}
        PROVE  x \in Elements(shorter)
    <3>1. PICK i \in DOMAIN list : list[i] = x
      BY DEF Elements
    <3>2. i # k
      BY <2>2, <3>1
    <3>3. CASE i < k
      BY <2>1, <2>2, <3>1, <3>3 DEF Elements
    <3>4. CASE i > k
      <4>1. i - 1 \in 1 .. Len(list) - 1 /\ ~(i - 1 < k) /\ (i - 1) + 1 = i
        BY <2>1, <2>2, <3>4
      <4>2. shorter[i - 1] = x /\ i - 1 \in DOMAIN shorter
        BY <3>1, <4>1
      <4> QED
        BY <4>2 DEF Elements
    <3> QED
      BY <2>1, <2>2, <3>1, <3>2, <3>3, <3>4
  <2> QED
    BY <2>4, <2>5, <2>6, <2>7, <2>8
<1> QED
  BY <1>1, <1>2

\* Appending an element that is not on the list adds it and nothing else.
LEMMA AppendElements ==
    ASSUME NEW S, NEW list \in Seq(S), NEW e \in S
    PROVE  /\ Append(list, e) \in Seq(S)
           /\ Elements(Append(list, e)) = Elements(list) \cup {e}
           /\ Distinct(list) /\ e \notin Elements(list) => Distinct(Append(list, e))
<1>1. Len(list) \in Nat /\ DOMAIN list = 1 .. Len(list)
  OBVIOUS
<1>2. DOMAIN Append(list, e) = 1 .. Len(list) + 1
  OBVIOUS
<1>3. \A i \in 1 .. Len(list) + 1 :
         Append(list, e)[i] = IF i = Len(list) + 1 THEN e ELSE list[i]
  BY <1>1
<1>4. Elements(Append(list, e)) = Elements(list) \cup {e}
  <2>1. Elements(Append(list, e)) \subseteq Elements(list) \cup {e}
    BY <1>1, <1>2, <1>3 DEF Elements
  <2>2. Elements(list) \subseteq Elements(Append(list, e))
    BY <1>1, <1>2, <1>3 DEF Elements
  <2>3. e \in Elements(Append(list, e))
    <3>1. Len(list) + 1 \in DOMAIN Append(list, e) /\ Append(list, e)[Len(list) + 1] = e
      BY <1>1, <1>2, <1>3
    <3> QED
      BY <3>1 DEF Elements
  <2> QED
    BY <2>1, <2>2, <2>3
<1>5. Distinct(list) /\ e \notin Elements(list) => Distinct(Append(list, e))
  BY <1>1, <1>2, <1>3 DEF Distinct, Elements
<1> QED
  BY <1>4, <1>5

\* Removing the first entry for an element keeps every other element, also
\* from a list that holds some of them twice (List.Remove).
LEMMA FirstRemoved ==
    ASSUME NEW S, NEW list \in Seq(S), NEW e
    PROVE  /\ Without(list, e) \in Seq(S)
           /\ Elements(Without(list, e)) \subseteq Elements(list)
           /\ Elements(list) \ {e} \subseteq Elements(Without(list, e))
<1>1. CASE e \notin Elements(list)
  BY <1>1 DEF Without
<1>2. CASE e \in Elements(list)
  <2>1. Len(list) \in Nat /\ DOMAIN list = 1 .. Len(list)
    OBVIOUS
  <2> DEFINE Entries == {i \in DOMAIN list : list[i] = e}
             k == FirstIndex(list, e)
             shorter == [i \in 1 .. Len(list) - 1 |-> IF i < k THEN list[i] ELSE list[i + 1]]
  <2>2. k \in DOMAIN list /\ list[k] = e
    <3>1. Entries \in SUBSET Nat /\ Entries # {}
      BY <1>2, <2>1 DEF Elements
    <3>2. PICK m \in Entries : \A n \in Entries : m <= n
      BY <3>1, LeastElement
    <3>3. \A j \in 1 .. m - 1 : list[j] # e
      BY <2>1, <3>2
    <3> QED
      BY <3>2, <3>3 DEF FirstIndex
  <2>3. Without(list, e) = shorter
    BY <1>2 DEF Without
  <2> HIDE DEF k
  <2>4. \A i \in 1 .. Len(list) - 1 : list[i] \in S /\ list[i + 1] \in S
    BY <2>1
  <2>5. shorter \in Seq(S)
    BY <2>1, <2>2, <2>4
  <2>6. Elements(shorter) \subseteq Elements(list)
    BY <2>1, <2>2 DEF Elements
  <2>7. ASSUME NEW x \in Elements(list) \ {e}
        PROVE  x \in Elements(shorter)
    <3>1. PICK i \in DOMAIN list : list[i] = x
      BY DEF Elements
    <3>2. CASE i < k
      BY <2>1, <2>2, <3>1, <3>2 DEF Elements
    <3>3. CASE i > k
      <4>1. i - 1 \in 1 .. Len(list) - 1 /\ ~(i - 1 < k) /\ (i - 1) + 1 = i
        BY <2>1, <2>2, <3>3
      <4>2. shorter[i - 1] = x /\ i - 1 \in DOMAIN shorter
        BY <3>1, <4>1
      <4> QED
        BY <4>2 DEF Elements
    <3> QED
      BY <2>1, <2>2, <3>1, <3>2, <3>3
  <2> QED
    BY <2>3, <2>5, <2>6, <2>7
<1> QED
  BY <1>1, <1>2
=============================================================================
