---------------------------- MODULE ElementList ----------------------------
(***************************************************************************)
(* The lists of elements the server keeps: PlayersController and           *)
(* VehiclesController hold a List<T>, give a new element the ID that a     *)
(* scan of the list, in LIST order, finds free, and remove an element by   *)
(* identity.                                                               *)
(*                                                                         *)
(* The operators about IDs take the sequence of the elements' IDs.  Both   *)
(* controllers begin Add with `OrderBy(x => x.ID)', which returns a sorted *)
(* copy that nobody keeps: the scan sees the elements in the order they    *)
(* were added.                                                             *)
(***************************************************************************)
EXTENDS Naturals, Sequences

\* What is on a list.
Elements(list) == {list[i] : i \in DOMAIN list}

\* The candidate the scan holds when it looks at element i of the list: one
\* more than the ID before it, and 1 at the head.
Candidate(ids, i) == IF i = 1 THEN 1 ELSE ids[i - 1] + 1

\* The scan breaks at the first element whose ID exceeds the candidate, and
\* runs off the end of the list when there is none.
BreaksAt(ids, i) ==
    /\ i \in DOMAIN ids => ids[i] > Candidate(ids, i)
    /\ \A j \in 1 .. (i - 1) : ids[j] <= Candidate(ids, j)

\* Faulty variants: the number of elements as the ID, and the ID after the last.
CountAsID(ids) == Len(ids)
IDAfterLast(ids) == IF ids = <<>> THEN 1 ELSE ids[Len(ids)] + 1

\* The ID that Add gives the new element.
FreeID(ids) == Candidate(ids, CHOOSE i \in 1 .. Len(ids) + 1 : BreaksAt(ids, i))

\* Faulty variant: Remove of an equal copy, which finds nothing to remove.
WithoutNothing(list, e) == list

\* List.Remove: the list without the first entry for e, if there is one.
FirstIndex(list, e) ==
    CHOOSE i \in DOMAIN list : list[i] = e /\ \A j \in 1 .. i - 1 : list[j] # e
Without(list, e) ==
    IF e \in Elements(list)
    THEN [i \in 1 .. Len(list) - 1 |->
             IF i < FirstIndex(list, e) THEN list[i] ELSE list[i + 1]]
    ELSE list

-----------------------------------------------------------------------------
\* Each element is on the list once.
Distinct(list) == \A i, j \in DOMAIN list : list[i] = list[j] => i = j

\* The list sorted by ID that OrderBy returns and Add drops.
StrictlySorted(ids) == \A i, j \in DOMAIN ids : i < j => ids[i] < ids[j]

\* The list 1, 2, ..., n of a controller nothing is ever removed from.
Dense(ids) == \A i \in DOMAIN ids : ids[i] = i
=============================================================================
