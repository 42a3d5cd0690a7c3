-------------------------- MODULE ScriptDomainProofs --------------------------
(***************************************************************************)
(* For any number of script types and requests: the two lists of a domain  *)
(* stay together well enough that no script type is ticked twice, that     *)
(* what can be aborted is ticked, and that a domain without running        *)
(* scripts lists none, so that the next start is not refused.              *)
(*                                                                         *)
(* The proof rests on where the manager stands: whatever its state and the *)
(* function it runs next, both lists are empty outside Running and         *)
(* Aborting, because the last script off the list takes the unlisted       *)
(* threads with it (CheckState); and on the turn: a script that is being   *)
(* constructed is still ticked when it lists itself.                       *)
(***************************************************************************)
EXTENDS ScriptDomain, ElementListProofs, FiniteSetTheorems

\* The states in which nothing runs.
Down == {"Empty", "NoneFound", "Loaded", "Aborted"}

\* The function the manager runs next is one for its state, and what starts
\* scripts was asked for.
ManagerInv ==
  /\ call = "LoadScripts" => pState \in {"Empty", "NoneFound"}
  /\ call = "LaunchScriptThreads" => pState \in {"Loaded", "Aborted"}
  /\ call = "AbortScripts" => pState = "Running"
  /\ call \in {"LoadScripts", "LaunchScriptThreads"} => pAction \in Starts

\* Every launch was asked for: the action that asks for the next one is not
\* among those that have been launched.
LaunchesAsked == launches + (IF pAction \in Starts THEN 1 ELSE 0) <= requests

DownInv == pState \in Down => scriptList = <<>> /\ scriptThreadList = <<>>

OneListedPerType ==
  \A t, u \in Elements(scriptThreadList) : t[1] = u[1] => t = u

\* A thread has the turn only in the loop of a Tick, never while the scripts are
\* aborted; one that is being constructed stays on the list for as long.
TurnInv ==
  turn # NoThread =>
    /\ phase = "ticking" /\ ThreadID # 0 /\ call # "AbortScripts"
    /\ Unstarted(turn) => turn \in Elements(scriptThreadList)

DomainInv ==
  /\ TypeOK
  /\ ManagerInv /\ LaunchesAsked /\ OnlyAbortingWaits
  /\ DownInv /\ OneListedPerType /\ ListedAreTicked
  /\ TurnInv

-----------------------------------------------------------------------------
\* The lists.

\* The first m entries can be kept without the set: the entry after them that
\* is kept gets the next place.
LEMMA KeptExists ==
  ASSUME NEW T, NEW list \in Seq(T), NEW S
  PROVE  \E f \in UNION {[1 .. n -> DOMAIN list] : n \in 0 .. Len(list)} :
           KeepsAllBut(f, list, S)
<1> DEFINE Kept(m) == {i \in 1 .. m : list[i] \notin S}
           Upto(m, n, f) == /\ f \in [1 .. n -> DOMAIN list]
                            /\ {f[i] : i \in 1 .. n} = Kept(m)
                            /\ \A i, j \in 1 .. n : i < j => f[i] < f[j]
           Fits(m) == \E n \in 0 .. m : \E f : Upto(m, n, f)
           Bad == {m \in 0 .. Len(list) : ~Fits(m)}
<1>1. Len(list) \in Nat /\ DOMAIN list = 1 .. Len(list)
  OBVIOUS
<1>2. Bad = {}
  <2>1. SUFFICES ASSUME Bad # {} PROVE FALSE
    OBVIOUS
  <2> HIDE DEF Fits
  <2>2. Bad \in SUBSET Nat
    BY <1>1
  <2>3. PICK m \in Bad : \A k \in Bad : m <= k
    BY <2>1, <2>2, LeastElement
  <2>4. m # 0
    <3> USE DEF Fits
    <3>1. Upto(0, 0, [i \in 1 .. 0 |-> 1])
      OBVIOUS
    <3>2. 0 \in 0 .. 0
      OBVIOUS
    <3> QED
      BY <3>1, <3>2
  <2>5. m - 1 \in 0 .. Len(list) /\ m - 1 \notin Bad /\ m \in DOMAIN list
    BY <1>1, <2>3, <2>4
  <2>6. Fits(m - 1)
    BY <2>5
  <2> USE DEF Fits
  <2>7. PICK n \in 0 .. m - 1 : \E f : Upto(m - 1, n, f)
    BY <2>6
  <2>8. PICK f : Upto(m - 1, n, f)
    BY <2>7
  <2>9. CASE list[m] \in S
    <3>1. Kept(m) = Kept(m - 1)
      BY <1>1, <2>5, <2>9
    <3>2. Upto(m, n, f) /\ n \in 0 .. m
      BY <2>5, <2>8, <3>1
    <3> QED
      BY <2>3, <3>2
  <2>10. CASE list[m] \notin S
    <3> DEFINE g == [i \in 1 .. n + 1 |-> IF i = n + 1 THEN m ELSE f[i]]
    <3>1. Kept(m) = Kept(m - 1) \cup {m}
      BY <1>1, <2>5, <2>10
    <3>2. n + 1 \in 0 .. m /\ n \in Nat
      BY <2>5
    <3>3. \A i \in 1 .. n : i \in 1 .. n + 1 /\ g[i] = f[i] /\ f[i] \in Kept(m - 1)
      BY <2>8, <3>2
    <3>4. n + 1 \in 1 .. n + 1 /\ g[n + 1] = m /\ 1 .. n + 1 = (1 .. n) \cup {n + 1}
      BY <3>2
    <3>5. g \in [1 .. n + 1 -> DOMAIN list]
      BY <2>5, <2>8, <3>2
    <3>6. {g[i] : i \in 1 .. n + 1} = Kept(m)
      BY <2>8, <3>1, <3>3, <3>4
    <3>7. ASSUME NEW i \in 1 .. n + 1, NEW j \in 1 .. n + 1, i < j
          PROVE  g[i] < g[j]
      <4>1. i \in 1 .. n
        BY <3>2, <3>7
      <4>2. g[i] = f[i] /\ f[i] \in 1 .. m - 1
        BY <3>3, <4>1
      <4>3. CASE j = n + 1
        BY <2>5, <3>4, <4>2, <4>3
      <4>4. CASE j # n + 1
        BY <2>8, <3>3, <3>4, <3>7, <4>2, <4>4, <4>1
      <4> QED
        BY <4>3, <4>4
    <3>8. Upto(m, n + 1, g)
      BY <3>5, <3>6, <3>7
    <3> QED
      BY <2>3, <3>2, <3>8
  <2> QED
    BY <2>9, <2>10
<1>3. Fits(Len(list))
  <2> HIDE DEF Fits
  <2> QED
    BY <1>1, <1>2
<1>4. PICK n \in 0 .. Len(list) : \E f : Upto(Len(list), n, f)
  BY <1>3
<1>5. PICK f : Upto(Len(list), n, f)
  BY <1>4
<1>6. DOMAIN f = 1 .. n
  BY <1>5
<1>7. KeepsAllBut(f, list, S)
  BY <1>1, <1>5, <1>6 DEF KeepsAllBut
<1> QED
  BY <1>5, <1>7

\* Aborting a set of threads takes them off a list and nothing else.
LEMMA AllRemoved ==
  ASSUME NEW T, NEW list \in Seq(T), NEW S
  PROVE  /\ WithoutAll(list, S) \in Seq(T)
         /\ Elements(WithoutAll(list, S)) = Elements(list) \ S
<1> DEFINE Maps == UNION {[1 .. n -> DOMAIN list] : n \in 0 .. Len(list)}
           kept == CHOOSE f \in Maps : KeepsAllBut(f, list, S)
           shorter == [i \in DOMAIN kept |-> list[kept[i]]]
<1>1. kept \in Maps /\ KeepsAllBut(kept, list, S)
  BY KeptExists
<1>2. WithoutAll(list, S) = shorter
  BY DEF WithoutAll
<1> HIDE DEF kept
<1>3. PICK n \in 0 .. Len(list) : kept \in [1 .. n -> DOMAIN list]
  BY <1>1
<1>4. shorter \in [1 .. n -> T] /\ n \in Nat
  BY <1>3
<1>5. shorter \in Seq(T)
  BY <1>4
<1>6. Elements(shorter) = Elements(list) \ S
  <2>1. \A i \in DOMAIN kept : kept[i] \in DOMAIN list /\ list[kept[i]] \notin S
    BY <1>1 DEF KeepsAllBut
  <2>2. ASSUME NEW x \in Elements(list) \ S PROVE x \in Elements(shorter)
    <3>1. PICK k \in DOMAIN list : list[k] = x
      BY DEF Elements
    <3>2. PICK i \in DOMAIN kept : kept[i] = k
      BY <1>1, <3>1 DEF KeepsAllBut
    <3> QED
      BY <3>1, <3>2 DEF Elements
  <2>3. Elements(shorter) \subseteq Elements(list) \ S
    BY <2>1 DEF Elements
  <2> QED
    BY <2>2, <2>3
<1> QED
  BY <1>2, <1>5, <1>6

-----------------------------------------------------------------------------
\* The state manager.

\* What ChangeState comes to: it launches, or it settles the action.
LEMMA Changed ==
  ASSUME NEW s \in {"NoneFound", "Loaded", "Running", "Aborted"}, ChangeState(s)
  PROVE  /\ pState' = s
         /\ \/ call' = "none" /\ pAction' = "Idle"
            \/ /\ call' = "LaunchScriptThreads" /\ pAction' = pAction
               /\ pAction \in Starts /\ s \in {"Loaded", "Aborted"}
BY DEF ChangeState, Followed

\* What RequestAction comes to: it calls a function for the state, or nothing
\* and the action is settled.
LEMMA Picked ==
  ASSUME NEW action \in Actions, NEW s \in States, Request(action, s)
  PROVE  \/ call' = "none" /\ pAction' = "Idle"
         \/ /\ call' = "LoadScripts" /\ pAction' = action
            /\ action \in Starts /\ s \in {"Empty", "NoneFound"}
         \/ /\ call' = "LaunchScriptThreads" /\ pAction' = action
            /\ action \in Starts /\ s \in {"Loaded", "Aborted"}
         \/ /\ call' = "AbortScripts" /\ pAction' = action /\ s = "Running"
BY DEF Request, Requested

\* The part of the invariant that a step keeps if it changes neither the lists,
\* the threads nor the turn, whatever the manager does.
ListsInv == OneListedPerType /\ ListedAreTicked

LEMMA ListsKept ==
  ASSUME ListsInv, UNCHANGED <<lists, life>>
  PROVE  ListsInv'
BY DEF ListsInv, OneListedPerType, ListedAreTicked, Ticked, Alive, lists, Elements

\* An empty domain.
LEMMA EmptyLists ==
  ASSUME scriptList' = <<>>, scriptThreadList' = <<>>
  PROVE  DownInv' /\ ListsInv'
BY DEF DownInv, ListsInv, OneListedPerType, ListedAreTicked, Ticked, Elements

LEMMA LoadKeeps == DomainInv /\ LoadScripts => DomainInv'
<1> SUFFICES ASSUME DomainInv, LoadScripts PROVE DomainInv'
  OBVIOUS
<1> USE DEF DomainInv, lists, frame
<1>1. /\ call = "LoadScripts" /\ pState \in {"Empty", "NoneFound"}
      /\ scriptTypeList' \in SUBSET Types
      /\ UNCHANGED <<remote, lists, life, launches, frame, requests>>
  BY DEF LoadScripts, ManagerInv, TypeOK
<1>2. PICK s \in {"NoneFound", "Loaded"} : ChangeState(s)
  BY DEF LoadScripts
<1>3. /\ pState' = s
      /\ \/ call' = "none" /\ pAction' = "Idle"
         \/ call' = "LaunchScriptThreads" /\ pAction' = pAction /\ pAction \in Starts
            /\ s = "Loaded"
  BY <1>2, Changed
<1>4. TypeOK'
  BY <1>1, <1>3 DEF TypeOK, States, Actions, Calls
<1>5. ManagerInv' /\ OnlyAbortingWaits'
  BY <1>3 DEF ManagerInv, OnlyAbortingWaits
<1>6. LaunchesAsked'
  BY <1>1, <1>3 DEF LaunchesAsked, Starts, TypeOK
<1>7. DownInv' /\ OneListedPerType' /\ ListedAreTicked'
  BY <1>1, EmptyLists DEF DownInv, Down, ListsInv
<1>8. TurnInv'
  BY <1>1, <1>3 DEF TurnInv, Unstarted
<1> QED
  BY <1>4, <1>5, <1>6, <1>7, <1>8

\* The launch is never refused, and it is the one that was asked for.
LEMMA LaunchKeeps == DomainInv /\ LaunchScriptThreads => DomainInv'
<1> SUFFICES ASSUME DomainInv, LaunchScriptThreads PROVE DomainInv'
  OBVIOUS
<1> USE DEF DomainInv, frame
<1>1. /\ call = "LaunchScriptThreads" /\ pState \in {"Loaded", "Aborted"}
      /\ pAction \in Starts /\ scriptList = <<>> /\ scriptThreadList = <<>>
      /\ UNCHANGED <<remote, scriptTypeList, scriptList, frame, requests>>
  BY DEF LaunchScriptThreads, ManagerInv, DownInv, Down
<1>2. /\ launches' = launches + 1 /\ ChangeState("Running")
      /\ \E order \in [1 .. Cardinality(scriptTypeList) -> scriptTypeList] :
           LET new == [i \in DOMAIN order |-> <<order[i], launches + 1>>]
           IN  /\ scriptThreadList' = scriptThreadList \o new
               /\ life' = [t \in Thread |->
                             IF t \in Elements(new) THEN "launched" ELSE life[t]]
  BY <1>1 DEF LaunchScriptThreads
<1>3. PICK order \in [1 .. Cardinality(scriptTypeList) -> scriptTypeList] :
        LET new == [i \in DOMAIN order |-> <<order[i], launches + 1>>]
        IN  /\ scriptThreadList' = scriptThreadList \o new
            /\ life' = [t \in Thread |->
                          IF t \in Elements(new) THEN "launched" ELSE life[t]]
  BY <1>2
<1> DEFINE new == [i \in DOMAIN order |-> <<order[i], launches + 1>>]
<1>4. pState' = "Running" /\ call' = "none" /\ pAction' = "Idle"
  BY <1>2, Changed
<1>5. launches \in Nat /\ requests \in 0 .. MaxRequests /\ launches + 1 <= requests
  BY <1>1 DEF LaunchesAsked, TypeOK
<1>6. launches + 1 \in 1 .. MaxRequests
  BY <1>5, RequestBound
<1>7. Cardinality(scriptTypeList) \in Nat
  BY FoldersAreFinite, FS_Subset, FS_CardinalityType DEF TypeOK
<1>8. \A i \in DOMAIN order : order[i] \in Types
  BY DEF TypeOK
<1>9. new \in Seq(Thread)
  BY <1>6, <1>7, <1>8 DEF Thread
<1>10. scriptThreadList' = new
  BY <1>1, <1>3, <1>9
<1>11. \A t \in Elements(new) : t = <<t[1], launches + 1>>
  BY DEF Elements
<1>12. life' \in [Thread -> {"none", "launched", "constructing", "running", "dead"}]
  BY <1>3 DEF TypeOK
<1>13. TypeOK'
  <2>1. launches' = launches + 1
    BY <1>2
  <2>2. launches' \in 0 .. MaxRequests
    BY <1>6, <2>1, RequestBound
  <2> HIDE DEF new
  <2>3. scriptThreadList' \in Seq(Thread)
    BY <1>9, <1>10
  <2> QED
    BY <1>1, <1>4, <1>12, <2>2, <2>3 DEF TypeOK, States, Actions, Calls
<1>14. ManagerInv' /\ OnlyAbortingWaits' /\ DownInv'
  BY <1>4 DEF ManagerInv, OnlyAbortingWaits, DownInv, Down
<1>15. LaunchesAsked'
  BY <1>1, <1>2, <1>4, <1>5 DEF LaunchesAsked, Starts
<1>16. OneListedPerType'
  BY <1>10, <1>11 DEF OneListedPerType
<1>17. ListedAreTicked'
  BY <1>1 DEF ListedAreTicked, Elements
<1>18. TurnInv'
  <2>1. SUFFICES ASSUME turn # NoThread
                 PROVE  Unstarted(turn)' => turn \in Elements(new)
    BY <1>1, <1>4, <1>10 DEF TurnInv
  <2>2. ~Unstarted(turn) /\ turn \in Thread
    BY <1>1, <2>1 DEF TurnInv, Elements, TypeOK
  <2> QED
    BY <1>1, <1>3, <2>2 DEF Unstarted
<1> QED
  BY <1>13, <1>14, <1>15, <1>16, <1>17, <1>18

\* The last script off the list takes the unlisted threads with it.
LEMMA TerminatedKeeps ==
  ASSUME DomainInv, Terminated, scriptList' = <<>>, call # "LaunchScriptThreads"
  PROVE  /\ ManagerInv' /\ OnlyAbortingWaits' /\ DownInv' /\ ListsInv'
         /\ pState' \in States /\ pAction' \in Actions /\ call' \in Calls
         /\ pAction' \in Starts => pAction \in Starts
         /\ scriptThreadList' = <<>>
<1>1. scriptThreadList' = <<>> /\ ChangeState("Aborted")
  BY DEF Terminated
<1>2. /\ pState' = "Aborted"
      /\ \/ call' = "none" /\ pAction' = "Idle"
         \/ call' = "LaunchScriptThreads" /\ pAction' = pAction /\ pAction \in Starts
  BY <1>1, Changed
<1>3. ManagerInv' /\ OnlyAbortingWaits'
  BY <1>2 DEF ManagerInv, OnlyAbortingWaits
<1>4. /\ pState' \in States /\ pAction' \in Actions /\ call' \in Calls
      /\ pAction' \in Starts => pAction \in Starts
  BY <1>2 DEF DomainInv, TypeOK, States, Actions, Calls, Starts
<1> QED
  BY <1>1, <1>3, <1>4, EmptyLists

LEMMA AbortScriptsKeeps == DomainInv /\ AbortScripts => DomainInv'
<1> SUFFICES ASSUME DomainInv, AbortScripts PROVE DomainInv'
  OBVIOUS
<1> DEFINE aborted == {t \in Elements(scriptList) : Alive(t)}
<1> USE DEF DomainInv, loaded, frame
<1>1. /\ call = "AbortScripts" /\ pState = "Running"
      /\ life' = [t \in Thread |-> IF t \in aborted THEN "dead" ELSE life[t]]
      /\ scriptList' = WithoutAll(scriptList, aborted)
      /\ UNCHANGED <<remote, loaded, frame, requests>>
  BY DEF AbortScripts, ManagerInv
<1>2. /\ scriptList' \in Seq(Thread)
      /\ Elements(scriptList') = Elements(scriptList) \ aborted
  BY <1>1, AllRemoved DEF TypeOK
<1>3. life' \in [Thread -> {"none", "launched", "constructing", "running", "dead"}]
  BY <1>1 DEF TypeOK
<1>4. CASE aborted # {} /\ scriptList' = <<>>
  <2>1. Terminated
    BY <1>4 DEF AbortScripts
  <2>2. /\ ManagerInv' /\ OnlyAbortingWaits' /\ DownInv' /\ ListsInv'
        /\ pState' \in States /\ pAction' \in Actions /\ call' \in Calls
        /\ pAction' \in Starts => pAction \in Starts
        /\ scriptThreadList' = <<>>
    BY <1>1, <1>4, <2>1, TerminatedKeeps
  <2>3. TypeOK'
    BY <1>1, <1>2, <1>3, <2>2 DEF TypeOK
  <2>4. LaunchesAsked'
    BY <1>1, <2>2 DEF LaunchesAsked, TypeOK
  <2>5. TurnInv'
    BY <1>1 DEF TurnInv
  <2> QED
    BY <2>2, <2>3, <2>4, <2>5 DEF ListsInv
<1>5. CASE ~(aborted # {} /\ scriptList' = <<>>)
  <2>1. /\ scriptThreadList' = WithoutAll(scriptThreadList, aborted)
        /\ pState' = "Aborting" /\ call' = "none" /\ pAction' = pAction
    BY <1>5 DEF AbortScripts
  <2>2. /\ scriptThreadList' \in Seq(Thread)
        /\ Elements(scriptThreadList') = Elements(scriptThreadList) \ aborted
    BY <2>1, AllRemoved DEF TypeOK
  <2>3. TypeOK'
    BY <1>1, <1>2, <1>3, <2>1, <2>2 DEF TypeOK, States, Calls
  <2>4. ManagerInv' /\ OnlyAbortingWaits' /\ DownInv' /\ LaunchesAsked'
    BY <1>1, <2>1 DEF ManagerInv, OnlyAbortingWaits, DownInv, Down, LaunchesAsked
  <2>5. OneListedPerType'
    BY <2>2 DEF OneListedPerType
  <2>6. ListedAreTicked'
    <3>1. \A t \in Thread : Alive(t)' => t \notin aborted /\ Alive(t)
      BY <1>1 DEF Alive
    <3>2. \A t \in Elements(scriptList') : t \in Thread
      BY <1>2 DEF Elements
    <3> QED
      BY <1>2, <3>1, <3>2 DEF ListedAreTicked
  <2>7. TurnInv'
    BY <1>1 DEF TurnInv
  <2> QED
    BY <2>3, <2>4, <2>5, <2>6, <2>7
<1> QED
  BY <1>4, <1>5

-----------------------------------------------------------------------------
\* What is asked of the domain: between two Ticks, when no thread has the turn.

\* A request adds one to the launches that may follow.
LEMMA AskedCounts ==
  ASSUME DomainInv, Asked, launches' = launches
  PROVE  /\ requests' \in 0 .. MaxRequests /\ LaunchesAsked'
         /\ turn = NoThread /\ call = "none"
BY RequestBound DEF DomainInv, Asked, LaunchesAsked, TypeOK, TurnInv

LEMMA PickedInv ==
  ASSUME NEW action \in Actions, NEW s \in States, pState' = s, Request(action, s)
  PROVE  ManagerInv' /\ OnlyAbortingWaits' /\ call' \in Calls /\ pAction' \in Actions
<1>1. \/ call' = "none" /\ pAction' = "Idle"
      \/ /\ call' = "LoadScripts" /\ pAction' = action
         /\ action \in Starts /\ s \in {"Empty", "NoneFound"}
      \/ /\ call' = "LaunchScriptThreads" /\ pAction' = action
         /\ action \in Starts /\ s \in {"Loaded", "Aborted"}
      \/ /\ call' = "AbortScripts" /\ pAction' = action /\ s = "Running"
  BY Picked
<1> QED
  BY <1>1 DEF ManagerInv, OnlyAbortingWaits, Calls, Actions

\* A new domain has the state and the lists of a new one.
LEMMA FreshEmpty ==
  ASSUME TypeOK, Fresh
  PROVE  /\ pState' = "Empty" /\ scriptTypeList' = {}
         /\ scriptList' = <<>> /\ scriptThreadList' = <<>>
         /\ life' \in [Thread -> {"none", "launched", "constructing", "running", "dead"}]
         /\ DownInv' /\ ListsInv'
BY EmptyLists DEF Fresh, TypeOK

LEMMA ConsoleCommandKeeps ==
  ASSUME DomainInv, NEW action \in {"StartScripts", "AbortScripts"}, ConsoleCommand(action)
  PROVE  DomainInv'
<1> USE DEF DomainInv, lists, loaded, frame
<1>1. /\ Asked /\ Request(action, pState) /\ phase' = "entered"
      /\ UNCHANGED <<ThreadID, turn, remote, pState, lists, loaded, life>>
  BY DEF ConsoleCommand, Entered
<1>2. /\ requests' \in 0 .. MaxRequests /\ LaunchesAsked' /\ turn = NoThread
      /\ call = "none"
  BY <1>1, AskedCounts
<1>3. action \in Actions /\ pState \in States
  BY DEF Actions, TypeOK
<1>4. ManagerInv' /\ OnlyAbortingWaits' /\ call' \in Calls /\ pAction' \in Actions
  BY <1>1, <1>3, PickedInv
<1>5. TypeOK'
  BY <1>1, <1>2, <1>4 DEF TypeOK
<1>6. DownInv' /\ ListsInv' /\ TurnInv'
  BY <1>1, <1>2, ListsKept DEF DownInv, ListsInv, TurnInv
<1> QED
  BY <1>2, <1>4, <1>5, <1>6 DEF ListsInv

LEMMA ReloadScriptsKeeps == DomainInv /\ ReloadScripts => DomainInv'
<1> SUFFICES ASSUME DomainInv, ReloadScripts PROVE DomainInv'
  OBVIOUS
<1> USE DEF DomainInv, lists, loaded, frame
<1>1. /\ Asked /\ Fresh /\ Request("ReloadAndStartScripts", "Empty")
      /\ remote' = TRUE /\ phase' = "entered"
      /\ UNCHANGED <<ThreadID, turn, launches>>
  BY DEF ReloadScripts, Entered
<1>2. /\ requests' \in 0 .. MaxRequests /\ LaunchesAsked' /\ turn = NoThread
  BY <1>1, AskedCounts
<1>3. /\ pState' = "Empty" /\ scriptTypeList' = {}
      /\ scriptList' = <<>> /\ scriptThreadList' = <<>>
      /\ life' \in [Thread -> {"none", "launched", "constructing", "running", "dead"}]
      /\ DownInv' /\ ListsInv'
  BY <1>1, FreshEmpty
<1>4. ManagerInv' /\ OnlyAbortingWaits' /\ call' \in Calls /\ pAction' \in Actions
  BY <1>1, <1>3, PickedInv DEF Actions, States
<1>5. TypeOK'
  BY <1>1, <1>2, <1>3, <1>4 DEF TypeOK, States
<1>6. TurnInv'
  BY <1>1, <1>2 DEF TurnInv
<1> QED
  BY <1>2, <1>3, <1>4, <1>5, <1>6 DEF ListsInv

LEMMA GameReloadedKeeps == DomainInv /\ GameReloaded => DomainInv'
<1> SUFFICES ASSUME DomainInv, GameReloaded PROVE DomainInv'
  OBVIOUS
<1> USE DEF DomainInv, lists, loaded, frame
<1>1. Asked /\ remote' = TRUE /\ UNCHANGED frame
  BY DEF GameReloaded
<1>2. CASE remote /\ scriptList = <<>>
  <2>1. /\ Request("RestartScripts", pState)
        /\ UNCHANGED <<pState, lists, loaded, life>>
    BY <1>2 DEF GameReloaded
  <2>2. /\ requests' \in 0 .. MaxRequests /\ LaunchesAsked' /\ turn = NoThread
    BY <1>1, <2>1, AskedCounts
  <2>3. pState \in States
    BY DEF TypeOK
  <2>4. ManagerInv' /\ OnlyAbortingWaits' /\ call' \in Calls /\ pAction' \in Actions
    BY <2>1, <2>3, PickedInv DEF Actions
  <2>5. TypeOK'
    BY <1>1, <2>1, <2>2, <2>4 DEF TypeOK
  <2>6. DownInv' /\ ListsInv' /\ TurnInv'
    BY <1>1, <2>1, <2>2, ListsKept DEF DownInv, ListsInv, TurnInv
  <2> QED
    BY <2>2, <2>4, <2>5, <2>6 DEF ListsInv
<1>3. CASE ~(remote /\ scriptList = <<>>)
  <2>1. Fresh /\ Request("RestartScripts", "Empty") /\ UNCHANGED launches
    BY <1>3 DEF GameReloaded
  <2>2. /\ requests' \in 0 .. MaxRequests /\ LaunchesAsked' /\ turn = NoThread
    BY <1>1, <2>1, AskedCounts
  <2>3. /\ pState' = "Empty" /\ scriptTypeList' = {}
        /\ scriptList' = <<>> /\ scriptThreadList' = <<>>
        /\ life' \in [Thread -> {"none", "launched", "constructing", "running", "dead"}]
        /\ DownInv' /\ ListsInv'
    BY <2>1, FreshEmpty
  <2>4. ManagerInv' /\ OnlyAbortingWaits' /\ call' \in Calls /\ pAction' \in Actions
    BY <2>1, <2>3, PickedInv DEF Actions, States
  <2>5. TypeOK'
    BY <1>1, <2>1, <2>2, <2>3, <2>4 DEF TypeOK, States
  <2>6. TurnInv'
    BY <1>1, <2>2 DEF TurnInv
  <2> QED
    BY <2>2, <2>3, <2>4, <2>5, <2>6 DEF ListsInv
<1> QED
  BY <1>2, <1>3

LEMMA GameTerminatedKeeps == DomainInv /\ GameTerminated => DomainInv'
<1> SUFFICES ASSUME DomainInv, GameTerminated PROVE DomainInv'
  OBVIOUS
<1> USE DEF DomainInv, frame
<1>1. /\ Asked /\ Fresh /\ remote' = FALSE /\ pAction' = "Idle"
      /\ UNCHANGED <<call, launches, frame>>
  BY DEF GameTerminated
<1>2. /\ requests' \in 0 .. MaxRequests /\ LaunchesAsked' /\ turn = NoThread
      /\ call = "none"
  BY <1>1, AskedCounts
<1>3. /\ pState' = "Empty" /\ scriptTypeList' = {}
      /\ scriptList' = <<>> /\ scriptThreadList' = <<>>
      /\ life' \in [Thread -> {"none", "launched", "constructing", "running", "dead"}]
      /\ DownInv' /\ ListsInv'
  BY <1>1, FreshEmpty
<1>4. ManagerInv' /\ OnlyAbortingWaits'
  BY <1>1, <1>2 DEF ManagerInv, OnlyAbortingWaits
<1>5. TypeOK'
  <2>1. call' \in Calls /\ pAction' \in Actions /\ pState' \in States
    BY <1>1, <1>3 DEF TypeOK, States, Actions
  <2>2. remote' \in BOOLEAN
    BY <1>1
  <2>3. /\ launches' \in 0 .. MaxRequests
        /\ phase' \in {"between", "entered", "ticking", "drawing"}
        /\ ThreadID' \in Nat /\ turn' \in Thread \cup {NoThread}
    BY <1>1 DEF TypeOK
  <2> QED
    BY <1>2, <1>3, <2>1, <2>2, <2>3 DEF TypeOK
<1>6. TurnInv'
  BY <1>1, <1>2 DEF TurnInv
<1> QED
  BY <1>2, <1>3, <1>4, <1>5, <1>6 DEF ListsInv

-----------------------------------------------------------------------------
\* A frame.

\* The manager, the lists and the threads are left alone.
Apart == UNCHANGED <<remote, state, lists, loaded, life, requests>>

LEMMA ApartKeeps ==
  ASSUME DomainInv, Apart, TurnInv', ThreadID' \in Nat,
         phase' \in {"between", "entered", "ticking", "drawing"},
         turn' \in Thread \cup {NoThread}
  PROVE  DomainInv'
<1> USE DEF DomainInv, Apart, state, lists, loaded
<1>1. TypeOK'
  BY DEF TypeOK
<1>2. ManagerInv' /\ LaunchesAsked' /\ OnlyAbortingWaits' /\ DownInv'
  BY DEF ManagerInv, LaunchesAsked, OnlyAbortingWaits, DownInv
<1>3. ListsInv'
  BY ListsKept DEF ListsInv
<1> QED
  BY <1>1, <1>2, <1>3 DEF ListsInv

LEMMA TickKeeps ==
  ASSUME DomainInv, BeginTick \/ RunThreadTick \/ TickFails \/ TicksDone
  PROVE  DomainInv'
<1> USE DEF DomainInv, Apart, state, lists, loaded
<1>1. CASE BeginTick
  <2>1. /\ Apart /\ phase' = "ticking" /\ turn' = turn /\ turn = NoThread
        /\ ThreadID' = Len(scriptThreadList)
    BY <1>1 DEF BeginTick, TurnInv
  <2>2. ThreadID' \in Nat
    BY <2>1 DEF TypeOK
  <2> QED
    BY <2>1, <2>2, ApartKeeps DEF TurnInv
<1>2. CASE RunThreadTick
  <2>1. /\ Apart /\ phase = "ticking" /\ phase' = phase /\ call = "none"
        /\ turn = NoThread /\ ThreadID \in DOMAIN scriptThreadList
    BY <1>2 DEF RunThreadTick, Ticking
  <2> DEFINE t == scriptThreadList[ThreadID]
  <2>2. /\ t \in Thread /\ t \in Elements(scriptThreadList)
        /\ ThreadID \in Nat /\ ThreadID # 0 /\ ThreadID - 1 \in Nat
    BY <2>1 DEF TypeOK, Elements
  <2>3. CASE turn' = t /\ ThreadID' = ThreadID
    BY <2>1, <2>2, <2>3, ApartKeeps DEF TurnInv
  <2>4. CASE ThreadID' = ThreadID - 1 /\ turn' = turn
    BY <2>1, <2>2, <2>4, ApartKeeps DEF TurnInv
  <2> QED
    BY <1>2, <2>3, <2>4 DEF RunThreadTick
<1>3. CASE TickFails
  BY <1>3, ApartKeeps DEF TickFails, Ticking, TurnInv
<1>4. CASE TicksDone
  BY <1>4, ApartKeeps DEF TicksDone, Ticking, TurnInv, TypeOK
<1> QED
  BY <1>1, <1>2, <1>3, <1>4

\* A script that draws badly goes off the list it is aborted from, and is
\* ticked on.
LEMMA DrawingKeeps == DomainInv /\ PerFrameDrawing => DomainInv'
<1> SUFFICES ASSUME DomainInv, PerFrameDrawing PROVE DomainInv'
  OBVIOUS
<1> USE DEF DomainInv, loaded
<1>1. /\ call = "none" /\ phase' = "between" /\ turn = NoThread
      /\ UNCHANGED <<remote, loaded, life, ThreadID, turn, requests>>
  BY DEF PerFrameDrawing, TurnInv
<1>2. TurnInv'
  BY <1>1 DEF TurnInv
<1>3. CASE pState = "Aborting" /\ scriptList = <<>>
  <2>1. Terminated /\ scriptList' = <<>>
    BY <1>3 DEF PerFrameDrawing
  <2>2. /\ ManagerInv' /\ OnlyAbortingWaits' /\ DownInv' /\ ListsInv'
        /\ pState' \in States /\ pAction' \in Actions /\ call' \in Calls
        /\ pAction' \in Starts => pAction \in Starts
        /\ scriptThreadList' = <<>>
    BY <1>1, <2>1, TerminatedKeeps
  <2>3. TypeOK'
    BY <1>1, <2>1, <2>2 DEF TypeOK
  <2>4. LaunchesAsked'
    BY <1>1, <2>2 DEF LaunchesAsked, TypeOK
  <2> QED
    BY <1>2, <2>2, <2>3, <2>4 DEF ListsInv
<1>4. CASE ~(pState = "Aborting" /\ scriptList = <<>>)
  <2>1. PICK bad \in SUBSET Elements(scriptList) :
          /\ bad # {} => pState = "Running" /\ "draws badly" \in Behaviours
          /\ scriptList' = WithoutAll(scriptList, bad)
          /\ UNCHANGED <<state, scriptThreadList>>
    BY <1>4 DEF PerFrameDrawing
  <2>2. /\ scriptList' \in Seq(Thread)
        /\ Elements(scriptList') = Elements(scriptList) \ bad
    BY <2>1, AllRemoved DEF TypeOK
  <2>3. TypeOK'
    BY <1>1, <2>1, <2>2 DEF TypeOK, state
  <2>4. ManagerInv' /\ LaunchesAsked' /\ OnlyAbortingWaits'
    BY <1>1, <2>1 DEF ManagerInv, LaunchesAsked, OnlyAbortingWaits, state
  <2>5. DownInv'
    <3>1. SUFFICES ASSUME pState' \in Down PROVE scriptList' = <<>> /\ scriptThreadList' = <<>>
      BY DEF DownInv
    <3>2. scriptList = <<>> /\ scriptThreadList' = <<>>
      BY <2>1, <3>1 DEF DownInv, state
    <3>3. Elements(scriptList') = {}
      BY <2>2, <3>2 DEF Elements
    <3> QED
      BY <2>2, <3>2, <3>3 DEF Elements
  <2>6. OneListedPerType' /\ ListedAreTicked'
    BY <1>1, <2>1, <2>2 DEF OneListedPerType, ListedAreTicked, Ticked, Alive
  <2> QED
    BY <1>2, <2>3, <2>4, <2>5, <2>6
<1> QED
  BY <1>3, <1>4

-----------------------------------------------------------------------------
\* The turn of a thread.

Lives == {"none", "launched", "constructing", "running", "dead"}

\* A thread that gives back the turn may have listed itself or gone off the
\* list, if what is alive and listed is still ticked.
LEMMA GivenBack ==
  ASSUME DomainInv, turn' = NoThread, ThreadID' \in Nat,
         UNCHANGED <<remote, state, scriptThreadList, loaded, phase, requests>>,
         scriptList' \in Seq(Thread), life' \in [Thread -> Lives],
         \A u \in Elements(scriptList') : Alive(u)' => u \in Elements(scriptThreadList),
         pState \in Down => scriptList' = <<>>
  PROVE  DomainInv'
<1> USE DEF DomainInv, state, loaded
<1>1. TypeOK'
  BY DEF TypeOK, Lives
<1>2. ManagerInv' /\ LaunchesAsked' /\ OnlyAbortingWaits' /\ DownInv' /\ TurnInv'
  BY DEF ManagerInv, LaunchesAsked, OnlyAbortingWaits, DownInv, TurnInv
<1>3. OneListedPerType' /\ ListedAreTicked'
  BY DEF OneListedPerType, ListedAreTicked, Ticked
<1> QED
  BY <1>1, <1>2, <1>3

LEMMA GiveBackKeeps ==
  ASSUME DomainInv, NEW t \in Thread,
         \/ Started(t) \/ WaitInConstructor(t) \/ FailInConstructor(t)
         \/ TickDone(t) \/ ScriptError(t) \/ AbortSelf(t) \/ CallGame(t)
  PROVE  DomainInv'
<1> USE DEF DomainInv, lists
<1> DEFINE Back == /\ turn' = NoThread
                   /\ UNCHANGED <<remote, state, scriptThreadList, loaded, phase, requests>>
<1>1. /\ turn = t /\ t # NoThread /\ ThreadID \in Nat /\ ThreadID - 1 \in Nat
      /\ Unstarted(t) => t \in Elements(scriptThreadList)
  <2>1. turn = t /\ t # NoThread
    BY DEF Started, WaitInConstructor, FailInConstructor, TickDone, ScriptError,
           AbortSelf, CallGame, Has
  <2>2. ThreadID \in Nat
    BY DEF TypeOK
  <2> QED
    BY <2>1, <2>2 DEF TurnInv
<1>2. /\ life \in [Thread -> Lives] /\ scriptList \in Seq(Thread)
      /\ scriptThreadList \in Seq(Thread)
  BY DEF TypeOK, Lives
<1>3. /\ \A u \in Elements(scriptList) : u \in Thread
      /\ \A u \in Elements(scriptList) : Alive(u) => u \in Elements(scriptThreadList)
      /\ pState \in Down => scriptList = <<>> /\ scriptThreadList = <<>>
  BY <1>2 DEF ListedAreTicked, Ticked, DownInv, Elements
<1>4. CASE Started(t)
  <2>1. /\ Back /\ ThreadID' = ThreadID - 1 /\ Unstarted(t)
        /\ life' = [life EXCEPT ![t] = "running"] /\ scriptList' = Append(scriptList, t)
    BY <1>4 DEF Started, GiveBack, Becomes
  <2>2. /\ life' \in [Thread -> Lives] /\ scriptList' \in Seq(Thread)
        /\ Elements(scriptList') = Elements(scriptList) \cup {t}
    BY <1>2, <2>1, AppendElements DEF Lives
  <2>3. ASSUME NEW u \in Elements(scriptList'), Alive(u)'
        PROVE  u \in Elements(scriptThreadList)
    BY <1>1, <1>2, <1>3, <2>1, <2>2, <2>3 DEF Alive
  <2>4. pState \notin Down
    BY <1>1, <1>3, <2>1 DEF Elements
  <2> QED
    BY <1>1, <2>1, <2>2, <2>3, <2>4, GivenBack
<1>5. CASE WaitInConstructor(t) \/ FailInConstructor(t) \/ AbortSelf(t)
  <2>1. /\ Back /\ ThreadID' = ThreadID - 1 /\ Alive(t) /\ scriptList' = scriptList
    BY <1>5 DEF WaitInConstructor, FailInConstructor, AbortSelf, GiveBack, Unstarted, Alive
  <2>2. PICK l \in Lives : life' = [life EXCEPT ![t] = l]
    BY <1>5 DEF WaitInConstructor, FailInConstructor, AbortSelf, Becomes, Lives
  <2>3. life' \in [Thread -> Lives] /\ scriptList' \in Seq(Thread)
    BY <1>2, <2>1, <2>2
  <2>4. ASSUME NEW u \in Elements(scriptList'), Alive(u)'
        PROVE  u \in Elements(scriptThreadList)
    BY <1>2, <1>3, <2>1, <2>2, <2>4 DEF Alive
  <2> QED
    BY <1>1, <1>3, <2>1, <2>3, <2>4, GivenBack
<1>6. CASE TickDone(t) \/ CallGame(t)
  <2>1. /\ Back /\ ThreadID' \in {ThreadID, ThreadID - 1}
        /\ scriptList' = scriptList /\ life' = life
    BY <1>6 DEF TickDone, CallGame, GiveBack, state, loaded
  <2>2. \A u \in Elements(scriptList') : Alive(u)' => u \in Elements(scriptThreadList)
    BY <1>3, <2>1 DEF Alive
  <2> QED
    BY <1>1, <1>2, <1>3, <2>1, <2>2, GivenBack
<1>7. CASE ScriptError(t)
  <2>1. /\ Back /\ ThreadID' = ThreadID - 1 /\ life' = [life EXCEPT ![t] = "dead"]
        /\ scriptList' = Without(scriptList, t)
    BY <1>7 DEF ScriptError, GiveBack, Becomes
  <2>2. /\ life' \in [Thread -> Lives] /\ scriptList' \in Seq(Thread)
        /\ Elements(scriptList') \subseteq Elements(scriptList)
    BY <1>2, <2>1, FirstRemoved DEF Lives
  <2>3. ASSUME NEW u \in Elements(scriptList'), Alive(u)'
        PROVE  u \in Elements(scriptThreadList)
    BY <1>2, <1>3, <2>1, <2>2, <2>3 DEF Alive
  <2>4. pState \in Down => scriptList' = <<>>
    BY <1>3, <2>1 DEF Without, Elements
  <2> QED
    BY <1>1, <2>1, <2>2, <2>3, <2>4, GivenBack
<1> QED
  BY <1>4, <1>5, <1>6, <1>7

\* The last listed script may be aborted by one that is no longer listed; the
\* state is checked then, and the next launch may follow at once.
LEMMA AbortOtherKeeps ==
  ASSUME DomainInv, NEW t \in Thread, NEW other \in Elements(scriptList),
         AbortOther(t, other)
  PROVE  DomainInv'
<1> USE DEF DomainInv, loaded, frame
<1>1. /\ turn = t /\ t # NoThread /\ call = "none" /\ life[t] = "running"
      /\ other # t /\ life' = [life EXCEPT ![other] = "dead"]
      /\ scriptList' = Without(scriptList, other)
      /\ UNCHANGED <<remote, loaded, frame, requests>>
  BY DEF AbortOther, Has, Becomes
<1>2. /\ scriptList' \in Seq(Thread) /\ other \in Thread
      /\ Elements(scriptList') \subseteq Elements(scriptList)
      /\ \A u \in Elements(scriptList) : u \in Thread
  <2>1. scriptList \in Seq(Thread)
    BY DEF TypeOK
  <2>2. \A u \in Elements(scriptList) : u \in Thread
    BY <2>1 DEF Elements
  <2> QED
    BY <1>1, <2>1, <2>2, FirstRemoved
<1>3. /\ life' \in [Thread -> {"none", "launched", "constructing", "running", "dead"}]
      /\ life'[t] = "running" /\ life'[other] = "dead"
      /\ \A u \in Thread : Alive(u)' => u # other /\ Alive(u)
  BY <1>1, <1>2 DEF TypeOK, Alive
<1>4. CASE scriptList' = <<>> /\ pState = "Aborting"
  <2>1. Terminated
    BY <1>4 DEF AbortOther
  <2>2. /\ ManagerInv' /\ OnlyAbortingWaits' /\ DownInv' /\ ListsInv'
        /\ pState' \in States /\ pAction' \in Actions /\ call' \in Calls
        /\ pAction' \in Starts => pAction \in Starts
        /\ scriptThreadList' = <<>>
    BY <1>1, <1>4, <2>1, TerminatedKeeps
  <2>3. TypeOK'
    BY <1>1, <1>2, <1>3, <2>2 DEF TypeOK
  <2>4. LaunchesAsked'
    BY <1>1, <2>2 DEF LaunchesAsked, TypeOK
  <2>5. call' # "AbortScripts"
    BY <2>1, Changed DEF Terminated
  <2>6. TurnInv'
    BY <1>1, <1>3, <2>5 DEF TurnInv, Unstarted
  <2> QED
    BY <2>2, <2>3, <2>4, <2>6 DEF ListsInv
<1>5. CASE ~(scriptList' = <<>> /\ pState = "Aborting")
  <2>1. scriptThreadList' = Without(scriptThreadList, other) /\ UNCHANGED state
    BY <1>5 DEF AbortOther
  <2>2. /\ scriptThreadList' \in Seq(Thread)
        /\ Elements(scriptThreadList') \subseteq Elements(scriptThreadList)
        /\ Elements(scriptThreadList) \ {other} \subseteq Elements(scriptThreadList')
    BY <2>1, FirstRemoved DEF TypeOK
  <2>3. TypeOK'
    BY <1>1, <1>2, <1>3, <2>1, <2>2 DEF TypeOK, state
  <2>4. ManagerInv' /\ LaunchesAsked' /\ OnlyAbortingWaits'
    BY <1>1, <2>1 DEF ManagerInv, LaunchesAsked, OnlyAbortingWaits, state
  <2>5. DownInv'
    BY <1>2, <2>1 DEF DownInv, state, Elements
  <2>6. OneListedPerType' /\ ListedAreTicked'
    BY <1>2, <1>3, <2>2 DEF OneListedPerType, ListedAreTicked, Ticked
  <2>7. TurnInv'
    BY <1>1, <1>3, <2>1 DEF TurnInv, Unstarted, state
  <2> QED
    BY <2>3, <2>4, <2>5, <2>6, <2>7
<1> QED
  BY <1>4, <1>5

-----------------------------------------------------------------------------
LEMMA DomainInit == Init => DomainInv
<1> SUFFICES ASSUME Init PROVE DomainInv
  OBVIOUS
<1>1. 0 \in 0 .. MaxRequests
  BY RequestBound
<1>2. TypeOK
  <2>1. remote \in BOOLEAN
    BY DEF Init
  <2> QED
    BY <1>1, <2>1 DEF Init, TypeOK, States, Actions, Calls
<1>3. ManagerInv /\ LaunchesAsked /\ OnlyAbortingWaits
  BY DEF Init, ManagerInv, LaunchesAsked, Starts, OnlyAbortingWaits
<1>4. DownInv /\ OneListedPerType /\ ListedAreTicked /\ TurnInv
  BY DEF Init, DownInv, OneListedPerType, ListedAreTicked, TurnInv, Elements
<1> QED
  BY <1>2, <1>3, <1>4 DEF DomainInv

LEMMA DomainNext == DomainInv /\ [Next]_vars => DomainInv'
<1> SUFFICES ASSUME DomainInv, [Next]_vars PROVE DomainInv'
  OBVIOUS
<1>1. CASE UNCHANGED vars
  <2>1. Apart /\ UNCHANGED <<call, phase, ThreadID, turn>>
    BY <1>1 DEF vars, Apart, frame, state
  <2>2. TurnInv'
    BY <2>1 DEF DomainInv, TurnInv, Apart, Unstarted, lists
  <2> QED
    BY <2>1, <2>2, ApartKeeps DEF DomainInv, TypeOK
<1>2. CASE ManagerStep
  BY <1>2, LoadKeeps, LaunchKeeps, AbortScriptsKeeps DEF ManagerStep
<1>3. CASE \E action \in {"StartScripts", "AbortScripts"} : ConsoleCommand(action)
  BY <1>3, ConsoleCommandKeeps
<1>4. CASE ReloadScripts \/ GameReloaded \/ GameTerminated
  BY <1>4, ReloadScriptsKeeps, GameReloadedKeeps, GameTerminatedKeeps
<1>5. CASE FrameStep
  <2>1. CASE BeginTick \/ RunThreadTick \/ TickFails \/ TicksDone \/ PerFrameDrawing
    BY <2>1, TickKeeps, DrawingKeeps
  <2>2. CASE \E t \in Thread : TurnStep(t)
    BY <2>2, GiveBackKeeps, AbortOtherKeeps DEF TurnStep
  <2> QED
    BY <1>5, <2>1, <2>2 DEF FrameStep
<1> QED
  BY <1>1, <1>2, <1>3, <1>4, <1>5 DEF Next

\* Whatever is asked of the domain and whatever its scripts do, the manager's
\* state says what the lists hold, and every launch was asked for
\* (RemoteScriptDomainStateManager, RemoteScriptDomain::CheckState).
THEOREM DomainInvariant == Spec => []DomainInv
BY DomainInit, DomainNext, PTL DEF Spec

\* No script type is ever ticked twice, however many threads of earlier launches
\* live on (LaunchScriptThreads, CheckState).
THEOREM NoTypeTickedTwice == Spec => []OneTickedPerType
<1>1. DomainInv => OneTickedPerType
  BY DEF DomainInv, OneListedPerType, OneTickedPerType, Ticked
<1> QED
  BY <1>1, DomainInvariant, PTL

\* A script that can be aborted is ticked, or dead: Abort finds no thread that
\* will never come to its end (AddRunningScript, RemoveRunningScript).
THEOREM ListedScriptsAreTicked == Spec => []ListedAreTicked
<1>1. DomainInv => ListedAreTicked
  BY DEF DomainInv
<1> QED
  BY <1>1, DomainInvariant, PTL

\* Nothing is listed while nothing runs, so LaunchScriptThreads never refuses.
THEOREM DownListsNothing == Spec => []NothingListedWhenDown
<1>1. DomainInv => NothingListedWhenDown
  BY DEF DomainInv, TypeOK, DownInv, Down, States, NothingListedWhenDown
<1> QED
  BY <1>1, DomainInvariant, PTL

\* An action that was asked for waits for nothing but scripts that are being
\* aborted (RequestAction, ChangeState).
THEOREM ActionsAreSettled == Spec => []OnlyAbortingWaits
<1>1. DomainInv => OnlyAbortingWaits
  BY DEF DomainInv
<1> QED
  BY <1>1, DomainInvariant, PTL
=============================================================================
