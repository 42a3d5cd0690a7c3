--------------------------- MODULE NetThreadProofs ---------------------------
(***************************************************************************)
(* For any number of scripts and helpers: while none was ticked before its *)
(* first wait, at most one thread runs, and only while the game's thread   *)
(* stands still for it.  So TickNow and Wait implement TurnTaking.         *)
(*                                                                         *)
(* The proof follows the two flags of the thread that is given the turn.   *)
(* Its runFlag is set from SetRunFlag until it passes it, its stopFlag is  *)
(* not set from ResetStopFlag until it stops, and no other thread's        *)
(* runFlag is ever set.  A call to the game is added to this: its thread   *)
(* stays the current one until it goes on, so its answer is not lost.      *)
(***************************************************************************)
EXTENDS NetThread, ElementListProofs

\* Where a thread is in its loop.
Loop == {"begun", "halted", "waiting", "resumed", "running"}

\* A thread that does not have the turn: it cannot get past its runFlag.
Still(t) ==
  /\ at[t] \in {"unborn", "new", "begun", "waiting", "unwinding", "ended"}
  /\ ~runFlag[t]

\* The thread the game stands still for has not yet taken the turn, has it, or
\* has given it back.
NotYet(t) == at[t] = "waiting" /\ runFlag[t] /\ ~stopFlag[t]
Now(t) == at[t] \in {"resumed", "running", "halted"} /\ ~runFlag[t] /\ ~stopFlag[t]
Over(t) == Still(t) /\ stopFlag[t]
InTurn(t) == NotYet(t) \/ Now(t) \/ Over(t)

ThreadInv(t) ==
  /\ flags[t] = t
  /\ bInLoop[t] <=> at[t] \in Loop
  /\ bThreadActive[t] <=> at[t] = "running"
  /\ Served(t) => InTurn(t)
  /\ ~Served(t) => Still(t)

\* What TickNow may take for granted where it is.
GameInv ==
  /\ ticking # "free" => pCurrentThread \in Threads
  /\ ticking = "resetting" => at[pCurrentThread] \in {"begun", "waiting"}
  /\ ticking = "setting" =>
       at[pCurrentThread] = "waiting" /\ ~stopFlag[pCurrentThread]

TurnInv == Timely => GameInv /\ \A t \in Threads : ThreadInv(t)

\* A thread whose call to the game has not returned; the game has not yet
\* answered it, or has.
Calling(t) == reason[t] = "command" /\ at[t] \in {"halted", "waiting", "resumed"}

Asking(t) ==
  /\ at[t] \in {"halted", "waiting"}
  /\ ~runFlag[t]
  /\ ticking \in {"blocked", "returning", "answering", "again"}
  /\ IF ticking = "again"
     THEN LastRemoteEventResult = t
     ELSE RemoteEventList # <<>> /\ RemoteEventList[Len(RemoteEventList)] = t

Answered(t) ==
  /\ ticking \in {"testing", "resetting", "setting", "blocked"}
  /\ LastRemoteEventResult = t
  /\ ticking = "blocked" => at[t] \in {"waiting", "resumed"} /\ ~stopFlag[t]

\* A call keeps its thread the current one until it returns, and a thread has
\* made none before it has run.
CallOf(t) ==
  /\ at[t] \in {"unborn", "new", "begun"} => reason[t] = "continue"
  /\ Calling(t) =>
       /\ pCurrentThread = t
       /\ IF bJustWaitingForCommand[t] THEN Asking(t) ELSE Answered(t)

\* The game comes back to the thread it answers by its index in the list.
IndexInv ==
  ticking # "free" /\ ThreadID # 0 =>
    ThreadID \in DOMAIN scriptThreadList /\ scriptThreadList[ThreadID] = pCurrentThread

CallInv == Timely /\ InPlace => IndexInv /\ \A t \in Threads : CallOf(t)

-----------------------------------------------------------------------------
\* The types.

LEMMA TurnTypes ==
  ASSUME TypeOK, NEW t \in Threads, NEW i \in Nat, Turn(t, i)
  PROVE  TypeOK'
BY DEF Turn, TypeOK, GamePlaces, code, lists

LEMMA TypesInit == Init => TypeOK
BY DEF Init, TypeOK, Places, GamePlaces

LEMMA GameStepTypes == TypeOK /\ GameInv /\ GameStep => TypeOK'
<1> SUFFICES ASSUME TypeOK, GameInv, GameStep PROVE TypeOK'
  OBVIOUS
<1> USE DEF objects, code, domain, lists, GoTo, GamePlaces
<1>1. CASE TestThread
  BY <1>1 DEF TestThread, TypeOK
<1>2. CASE ResetStopFlag
  <2>1. stopFlag' \in [Threads -> BOOLEAN] /\ mishaps' \subseteq {"early", "moved"}
    BY <1>2 DEF ResetStopFlag, TypeOK
  <2> QED
    BY <1>2, <2>1 DEF ResetStopFlag, TypeOK
<1>3. CASE SetRunFlag
  <2>1. runFlag' \in [Threads -> BOOLEAN]
    BY <1>3 DEF SetRunFlag, TypeOK
  <2> QED
    BY <1>3, <2>1 DEF SetRunFlag, TypeOK
<1>4. CASE PassStopFlag
  BY <1>4 DEF PassStopFlag, TypeOK
<1>5. CASE ReturnState
  BY <1>5 DEF ReturnState, TypeOK
<1>6. CASE ProcessRemoteEvents
  <2>1. LastRemoteEventResult' \in Threads \cup {NoThread}
    <3>1. CASE RemoteEventList = <<>>
      BY <1>6, <3>1 DEF ProcessRemoteEvents, TypeOK
    <3>2. CASE RemoteEventList # <<>>
      <4>1. RemoteEventList[Len(RemoteEventList)] \in Threads \cup {NoThread}
        BY <3>2 DEF TypeOK
      <4> QED
        BY <1>6, <3>2, <4>1 DEF ProcessRemoteEvents
    <3> QED
      BY <3>1, <3>2
  <2> QED
    BY <1>6, <2>1 DEF ProcessRemoteEvents, TypeOK
<1>7. CASE RunTickAgain
  <2>1. CASE ThreadID = 0 /\ Turn(pCurrentThread, 0)
    BY <1>7, <2>1, TurnTypes DEF RunTickAgain, GameInv
  <2>2. CASE ThreadID \in DOMAIN scriptThreadList /\ Turn(scriptThreadList[ThreadID], ThreadID)
    <3>1. scriptThreadList[ThreadID] \in Threads /\ ThreadID \in Nat
      BY <2>2 DEF TypeOK, Threads
    <3> QED
      BY <2>2, <3>1, TurnTypes
  <2>3. CASE ticking' = "free" /\ UNCHANGED <<objects, code, domain, lists, ThreadID, mishaps>>
    BY <2>3 DEF TypeOK
  <2> QED
    BY <1>7, <2>1, <2>2, <2>3 DEF RunTickAgain
<1> QED
  BY <1>1, <1>2, <1>3, <1>4, <1>5, <1>6, <1>7 DEF GameStep

LEMMA ThreadStepTypes ==
  ASSUME TypeOK, NEW t \in Threads, ThreadStep(t)
  PROVE  TypeOK'
<1> USE DEF objects, code, domain, lists, game, Places, TypeOK
<1>1. CASE ThreadBegins(t)
  BY <1>1 DEF ThreadBegins
<1>2. CASE SetStopFlag(t)
  BY <1>2 DEF SetStopFlag
<1>3. CASE PassRunFlag(t)
  BY <1>3 DEF PassRunFlag
<1>4. CASE SleepOn(t)
  BY <1>4 DEF SleepOn
<1>5. CASE Continue(t)
  BY <1>5 DEF Continue
<1>6. CASE Halt(t, "continue") \/ Halt(t, "wait")
  <2>1. CASE Halt(t, "continue")
    BY <2>1 DEF Halt
  <2>2. CASE Halt(t, "wait")
    BY <2>2 DEF Halt
  <2> QED
    BY <1>6, <2>1, <2>2
<1>7. CASE RaiseEvent(t)
  <2>1. RemoteEventList' \in Seq(Threads \cup {NoThread})
    BY <1>7 DEF RaiseEvent
  <2>2. CASE pCurrentThread = NoThread
    BY <1>7, <2>1, <2>2 DEF RaiseEvent
  <2>3. CASE pCurrentThread # NoThread
    <3>1. pCurrentThread \in Threads
      BY <2>3
    <3>2. /\ at' = [at EXCEPT ![t] = "halted"]
          /\ reason' = [reason EXCEPT ![t] = "command"]
          /\ flags' = [flags EXCEPT ![t] = pCurrentThread]
          /\ bThreadActive' = [bThreadActive EXCEPT ![pCurrentThread] = FALSE]
          /\ bJustWaitingForCommand' =
               [bJustWaitingForCommand EXCEPT ![pCurrentThread] = TRUE]
          /\ UNCHANGED <<bRunning, bInLoop, runFlag, stopFlag, pCurrentThread,
                         LastRemoteEventResult, lists, game>>
      BY <1>7, <2>3 DEF RaiseEvent
    <3> QED
      BY <2>1, <3>1, <3>2
  <2> QED
    BY <2>2, <2>3
<1>8. CASE AddRunningScript(t)
  BY <1>8 DEF AddRunningScript
<1>9. CASE AbortSelf(t)
  BY <1>9 DEF AbortSelf, Abort
<1>10. CASE EndThread(t)
  BY <1>10 DEF EndThread
<1> QED
  BY <1>1, <1>2, <1>3, <1>4, <1>5, <1>6, <1>7, <1>8, <1>9, <1>10
     DEF ThreadStep, RunningStep

LEMMA TypesNext == TypeOK /\ TurnInv /\ [Next]_vars => TypeOK'
<1> SUFFICES ASSUME TypeOK, TurnInv, [Next]_vars PROVE TypeOK'
  OBVIOUS
<1> USE DEF objects, code, domain, lists, game
<1>1. CASE UNCHANGED vars
  BY <1>1 DEF vars, TypeOK
<1>2. ASSUME NEW i \in DOMAIN scriptThreadList, RunThreadTick(i) PROVE TypeOK'
  <2>1. scriptThreadList[i] \in Threads /\ i \in Nat
    BY DEF TypeOK, Threads
  <2> QED
    BY <1>2, <2>1, TurnTypes DEF RunThreadTick
<1>3. ASSUME NEW t \in Helpers, RunHelperTick(t) PROVE TypeOK'
  BY <1>3, TurnTypes DEF RunHelperTick, Threads
<1>4. CASE Timely /\ GameStep
  BY <1>4, GameStepTypes DEF TurnInv
<1>5. CASE DrawingCall
  BY <1>5 DEF DrawingCall, TypeOK
<1>6. ASSUME NEW t \in Threads, Launch(t) PROVE TypeOK'
  BY <1>6 DEF Launch, TypeOK, Places
<1>7. ASSUME NEW t \in Threads, ThreadStep(t) PROVE TypeOK'
  BY <1>7, ThreadStepTypes
<1>8. ASSUME NEW t \in Scripts, AbortOther(t) PROVE TypeOK'
  <2>1. scriptThreadList' \in Seq(Scripts)
    BY <1>8, FirstRemoved DEF AbortOther, TypeOK
  <2>2. mishaps' \subseteq {"early", "moved"}
    BY <1>8 DEF AbortOther, TypeOK
  <2>3. t \in Threads /\ Abort(t) /\ scriptList' \subseteq Scripts
    BY <1>8 DEF AbortOther, Threads, TypeOK
  <2> QED
    BY <2>1, <2>2, <2>3 DEF Abort, TypeOK, Places
<1> QED
  BY <1>1, <1>2, <1>3, <1>4, <1>5, <1>6, <1>7, <1>8 DEF Next

-----------------------------------------------------------------------------
\* The turn.

\* A step that concerns the flags and the place of at most one thread.
Beside(t) ==
  /\ UNCHANGED <<ticking, pCurrentThread>>
  /\ \A u \in Threads \ {t} :
       /\ at'[u] = at[u] /\ flags'[u] = flags[u]
       /\ bInLoop'[u] = bInLoop[u] /\ bThreadActive'[u] = bThreadActive[u]
       /\ runFlag'[u] = runFlag[u] /\ stopFlag'[u] = stopFlag[u]

LEMMA ThreadStepBeside ==
  ASSUME TypeOK, Timely, TurnInv, NEW t \in Threads, ThreadStep(t)
  PROVE  Beside(t)
<1> USE DEF objects, code, domain, lists, game, TypeOK, Beside
<1>0. flags[t] = t /\ (at[t] = "running" => pCurrentThread = t)
  BY DEF TurnInv, ThreadInv, Still, Served
<1>1. CASE ThreadBegins(t)
  BY <1>1 DEF ThreadBegins
<1>2. CASE SetStopFlag(t)
  BY <1>0, <1>2 DEF SetStopFlag
<1>3. CASE PassRunFlag(t)
  BY <1>0, <1>3 DEF PassRunFlag
<1>4. CASE SleepOn(t)
  BY <1>4 DEF SleepOn
<1>5. CASE Continue(t)
  BY <1>0, <1>5 DEF Continue
<1>6. CASE Halt(t, "continue") \/ Halt(t, "wait")
  BY <1>6 DEF Halt
<1>7. CASE RaiseEvent(t)
  <2>1. pCurrentThread = t /\ t # NoThread
    BY <1>0, <1>7, NoThreadIsNone DEF RaiseEvent
  <2> QED
    BY <1>7, <2>1 DEF RaiseEvent
<1>8. CASE AddRunningScript(t)
  BY <1>8 DEF AddRunningScript
<1>9. CASE AbortSelf(t)
  BY <1>9 DEF AbortSelf, Abort
<1>10. CASE EndThread(t)
  BY <1>10 DEF EndThread
<1> QED
  BY <1>1, <1>2, <1>3, <1>4, <1>5, <1>6, <1>7, <1>8, <1>9, <1>10
     DEF ThreadStep, RunningStep

LEMMA ThreadStepTurn ==
  ASSUME TypeOK, Timely, TurnInv, NEW t \in Threads, ThreadStep(t)
  PROVE  ThreadInv(t)'
<1> USE DEF objects, code, domain, lists, game, TypeOK, ThreadInv, Served,
            InTurn, NotYet, Now, Over, Still, Loop
<1>0. ThreadInv(t)
  BY DEF TurnInv
<1>1. CASE ThreadBegins(t)
  BY <1>0, <1>1 DEF ThreadBegins
<1>2. CASE SetStopFlag(t)
  BY <1>0, <1>2 DEF SetStopFlag
<1>3. CASE PassRunFlag(t)
  BY <1>0, <1>3 DEF PassRunFlag
<1>4. CASE SleepOn(t)
  BY <1>0, <1>4 DEF SleepOn
<1>5. CASE Continue(t)
  BY <1>0, <1>5 DEF Continue
<1>6. CASE Halt(t, "continue") \/ Halt(t, "wait")
  BY <1>0, <1>6 DEF Halt
<1>7. CASE RaiseEvent(t)
  <2>1. pCurrentThread = t /\ t # NoThread
    BY <1>0, <1>7, NoThreadIsNone DEF RaiseEvent
  <2> QED
    BY <1>0, <1>7, <2>1 DEF RaiseEvent
<1>8. CASE AddRunningScript(t)
  BY <1>0, <1>8 DEF AddRunningScript
<1>9. CASE AbortSelf(t)
  BY <1>0, <1>9 DEF AbortSelf, Abort
<1>10. CASE EndThread(t)
  BY <1>0, <1>10 DEF EndThread
<1> QED
  BY <1>1, <1>2, <1>3, <1>4, <1>5, <1>6, <1>7, <1>8, <1>9, <1>10
     DEF ThreadStep, RunningStep

\* The thread that TickNow is about to start has not yet been given its
\* runFlag, so its own code can do no more than reach its wait.
LEMMA ThreadStepGame ==
  ASSUME TypeOK, Timely, TurnInv, NEW t \in Threads, ThreadStep(t)
  PROVE  GameInv'
<1>1. GameInv /\ ThreadInv(t) /\ Beside(t)
  BY ThreadStepBeside DEF TurnInv
<1>2. CASE pCurrentThread # t
  BY <1>1, <1>2 DEF GameInv, Beside, TypeOK
<1>3. CASE pCurrentThread = t /\ ticking = "resetting"
  <2>1. at[t] \in {"begun", "waiting"} /\ ~runFlag[t] /\ flags[t] = t
    BY <1>1, <1>3 DEF GameInv, ThreadInv, Still, Served
  <2>2. SetStopFlag(t)
    BY <2>1 DEF ThreadStep, RunningStep, ThreadBegins, PassRunFlag, SleepOn,
                Continue, Halt, RaiseEvent, AddRunningScript, AbortSelf, EndThread
  <2> QED
    BY <1>1, <1>3, <2>2 DEF SetStopFlag, GameInv, Beside, TypeOK
<1>4. CASE pCurrentThread = t /\ ticking = "setting"
  <2>1. at[t] = "waiting" /\ ~runFlag[t] /\ flags[t] = t
    BY <1>1, <1>4 DEF GameInv, ThreadInv, Still, Served
  <2> QED
    BY <2>1 DEF ThreadStep, RunningStep, ThreadBegins, SetStopFlag, PassRunFlag,
                SleepOn, Continue, Halt, RaiseEvent, AddRunningScript, AbortSelf,
                EndThread
<1>5. CASE pCurrentThread = t /\ ticking \notin {"resetting", "setting"}
  BY <1>1, <1>5 DEF GameInv, Beside
<1> QED
  BY <1>2, <1>3, <1>4, <1>5

\* The game's own step that resets the stopFlag keeps Timely only if the
\* thread was waiting.
LEMMA GameStepTurn ==
  ASSUME TypeOK, Timely, Timely', TurnInv, GameStep
  PROVE  GameInv' /\ \A u \in Threads : ThreadInv(u)'
<1> USE DEF objects, code, domain, lists, TypeOK, GoTo
<1>0. GameInv /\ \A u \in Threads : ThreadInv(u)
  BY DEF TurnInv
<1>1. CASE TestThread
  <2>1. UNCHANGED <<objects, code, pCurrentThread>> /\ ticking = "testing"
        /\ ticking' \in {"resetting", "returning"}
    BY <1>1 DEF TestThread
  <2>2. \A u \in Threads : ThreadInv(u)'
    BY <1>0, <2>1 DEF ThreadInv, InTurn, NotYet, Now, Over, Still, Served
  <2>3. pCurrentThread \in Threads
    BY <1>0, <2>1 DEF GameInv
  <2>4. CASE ticking' = "resetting"
    <3>1. bInLoop[pCurrentThread] /\ ~bThreadActive[pCurrentThread]
      BY <1>1, <2>4 DEF TestThread
    <3>2. at[pCurrentThread] \in {"begun", "waiting"}
      BY <1>0, <2>1, <2>3, <3>1 DEF ThreadInv, Still, Loop, Served
    <3> QED
      BY <2>1, <2>2, <2>3, <2>4, <3>2 DEF GameInv
  <2>5. CASE ticking' = "returning"
    BY <2>1, <2>2, <2>3, <2>5 DEF GameInv
  <2> QED
    BY <2>1, <2>4, <2>5
<1>2. CASE ResetStopFlag
  <2>1. pCurrentThread \in Threads /\ at[pCurrentThread] = "waiting"
    BY <1>0, <1>2 DEF ResetStopFlag, GameInv, Timely
  <2>2. /\ UNCHANGED <<bRunning, bInLoop, bThreadActive, runFlag, code, pCurrentThread>>
        /\ ticking = "resetting" /\ ticking' = "setting"
        /\ stopFlag' = [stopFlag EXCEPT ![pCurrentThread] = FALSE]
    BY <1>2 DEF ResetStopFlag
  <2>3. GameInv'
    BY <2>1, <2>2 DEF GameInv
  <2>4. \A u \in Threads : ThreadInv(u)'
    BY <1>0, <2>1, <2>2 DEF ThreadInv, InTurn, NotYet, Now, Over, Still, Served
  <2> QED
    BY <2>3, <2>4
<1>3. CASE SetRunFlag
  <2>1. /\ pCurrentThread \in Threads /\ at[pCurrentThread] = "waiting"
        /\ ~stopFlag[pCurrentThread]
    BY <1>0, <1>3 DEF SetRunFlag, GameInv
  <2>2. /\ UNCHANGED <<bRunning, bInLoop, bThreadActive, stopFlag, code, pCurrentThread>>
        /\ ticking = "setting" /\ ticking' = "blocked"
        /\ runFlag' = [runFlag EXCEPT ![pCurrentThread] = TRUE]
    BY <1>3 DEF SetRunFlag
  <2>3. GameInv'
    BY <2>1, <2>2 DEF GameInv
  <2>4. \A u \in Threads : ThreadInv(u)'
    BY <1>0, <2>1, <2>2 DEF ThreadInv, InTurn, NotYet, Now, Over, Still, Served
  <2> QED
    BY <2>3, <2>4
<1>4. CASE PassStopFlag
  <2>1. /\ UNCHANGED <<objects, code, pCurrentThread>>
        /\ ticking = "blocked" /\ ticking' = "returning" /\ stopFlag[pCurrentThread]
    BY <1>4 DEF PassStopFlag
  <2> QED
    BY <1>0, <2>1 DEF GameInv, ThreadInv, InTurn, NotYet, Now, Over, Still, Served
<1>5. CASE ReturnState
  <2>1. /\ UNCHANGED <<objects, code>>
        /\ ticking = "returning"
        /\ ticking' = "free" \/ (ticking' = "answering" /\ pCurrentThread' = pCurrentThread)
    BY <1>5 DEF ReturnState
  <2> QED
    BY <1>0, <2>1 DEF GameInv, ThreadInv, InTurn, NotYet, Now, Over, Still, Served
<1>6. CASE ProcessRemoteEvents
  <2>1. /\ UNCHANGED <<objects, code, pCurrentThread>>
        /\ ticking = "answering" /\ ticking' = "again"
    BY <1>6 DEF ProcessRemoteEvents
  <2> QED
    BY <1>0, <2>1 DEF GameInv, ThreadInv, InTurn, NotYet, Now, Over, Still, Served
<1>7. CASE RunTickAgain
  <2>1. /\ ticking = "again" /\ ticking' \in {"testing", "free"}
        /\ ticking' = "testing" => pCurrentThread' \in Threads
        /\ UNCHANGED <<bInLoop, bThreadActive, runFlag, stopFlag, code>>
    BY <1>0, <1>7 DEF RunTickAgain, Turn, GameInv, Threads
  <2> QED
    BY <1>0, <2>1 DEF GameInv, ThreadInv, InTurn, NotYet, Now, Over, Still, Served
<1> QED
  BY <1>1, <1>2, <1>3, <1>4, <1>5, <1>6, <1>7 DEF GameStep

\* A script is aborted between two turns or in the turn of another: it does
\* not have the turn itself.
LEMMA AbortedIsStill ==
  ASSUME TypeOK, Timely, TurnInv, NEW t \in Threads,
         ticking = "free" \/ \E u \in Threads \ {t} : at[u] = "running"
  PROVE  ~Served(t) /\ Still(t)
<1>1. ~Served(t)
  BY DEF TurnInv, ThreadInv, Still, Served
<1> QED
  BY <1>1 DEF TurnInv, ThreadInv

LEMMA AbortOtherTurn ==
  ASSUME TypeOK, Timely, TurnInv, NEW t \in Scripts, AbortOther(t)
  PROVE  GameInv' /\ \A u \in Threads : ThreadInv(u)'
<1>1. /\ t \in Threads /\ Abort(t)
      /\ ticking = "free" \/ \E u \in Threads \ {t} : at[u] = "running"
  BY DEF AbortOther, Threads
<1>2. ~Served(t) /\ Still(t)
  BY <1>1, AbortedIsStill
<1>3. ticking \in {"free", "blocked"}
  BY <1>1 DEF TurnInv, ThreadInv, Still, Served
<1>4. /\ UNCHANGED <<ticking, pCurrentThread, runFlag, flags>>
      /\ at' = [at EXCEPT ![t] = "unwinding"]
      /\ bInLoop' = [bInLoop EXCEPT ![t] = FALSE]
      /\ bThreadActive' = [bThreadActive EXCEPT ![t] = FALSE]
      /\ stopFlag' = [stopFlag EXCEPT ![t] = TRUE]
  BY <1>1 DEF Abort, domain
<1>5. GameInv'
  BY <1>3, <1>4 DEF TurnInv, GameInv
<1>6. ASSUME NEW u \in Threads PROVE ThreadInv(u)'
  <2>1. ThreadInv(u)
    BY DEF TurnInv
  <2>2. CASE u = t
    BY <1>1, <1>2, <1>4, <2>1, <2>2
       DEF TypeOK, ThreadInv, Still, Served, Loop
  <2>3. CASE u # t
    BY <1>1, <1>4, <2>1, <2>3
       DEF TypeOK, ThreadInv, InTurn, NotYet, Now, Over, Still, Served, Loop
  <2> QED
    BY <2>2, <2>3
<1> QED
  BY <1>5, <1>6

\* The start of a turn, from a game that stands still for nobody.
LEMMA TurnTurn ==
  ASSUME TypeOK, Timely, TurnInv, ticking = "free", NEW t \in Threads, NEW i,
         Turn(t, i)
  PROVE  GameInv' /\ \A u \in Threads : ThreadInv(u)'
BY DEF Turn, code, lists, TypeOK, TurnInv, GameInv, ThreadInv, InTurn, NotYet,
       Now, Over, Still, Served

LEMMA TurnNext == TypeOK /\ TurnInv /\ [Next]_vars => TurnInv'
<1> SUFFICES ASSUME TypeOK, TurnInv, [Next]_vars, Timely'
             PROVE  GameInv' /\ \A u \in Threads : ThreadInv(u)'
  BY DEF TurnInv
<1> USE DEF objects, code, domain, lists, game
<1>1. CASE UNCHANGED vars
  BY <1>1 DEF vars, Timely, TurnInv, GameInv, ThreadInv, InTurn, NotYet, Now, Over, Still, Served
<1>2. ASSUME Timely, NEW i \in DOMAIN scriptThreadList, RunThreadTick(i)
      PROVE  GameInv' /\ \A u \in Threads : ThreadInv(u)'
  <2>1. scriptThreadList[i] \in Threads
    BY DEF TypeOK, Threads
  <2> QED
    BY <1>2, <2>1, TurnTurn DEF RunThreadTick
<1>3. ASSUME Timely, NEW t \in Helpers, RunHelperTick(t)
      PROVE  GameInv' /\ \A u \in Threads : ThreadInv(u)'
  BY <1>3, TurnTurn DEF RunHelperTick, Threads
<1>4. CASE Timely /\ GameStep
  BY <1>4, GameStepTurn
<1>5. CASE Timely /\ DrawingCall
  BY <1>5 DEF DrawingCall, TurnInv, GameInv, ThreadInv, InTurn, NotYet, Now, Over,
              Still, Served
<1>6. ASSUME Timely, NEW t \in Threads, Launch(t)
      PROVE  GameInv' /\ \A u \in Threads : ThreadInv(u)'
  BY <1>6 DEF Launch, TypeOK, TurnInv, GameInv, ThreadInv, InTurn, NotYet, Now, Over,
              Still, Served, Loop
<1>7. ASSUME Timely, NEW t \in Threads, ThreadStep(t)
      PROVE  GameInv' /\ \A u \in Threads : ThreadInv(u)'
  <2>1. GameInv' /\ ThreadInv(t)' /\ Beside(t)
    BY <1>7, ThreadStepGame, ThreadStepTurn, ThreadStepBeside
  <2>2. ASSUME NEW u \in Threads \ {t} PROVE ThreadInv(u)'
    BY <1>7, <2>1 DEF Beside, TurnInv, ThreadInv, InTurn, NotYet, Now, Over, Still, Served
  <2> QED
    BY <2>1, <2>2
<1>8. ASSUME Timely, NEW t \in Scripts, AbortOther(t)
      PROVE  GameInv' /\ \A u \in Threads : ThreadInv(u)'
  BY <1>8, AbortOtherTurn
<1> QED
  BY <1>1, <1>2, <1>3, <1>4, <1>5, <1>6, <1>7, <1>8 DEF Next

LEMMA TurnInit == Init => TurnInv
BY DEF Init, TurnInv, GameInv, ThreadInv, Still, Served, Loop

\* While no thread was ticked before its first wait, the flags of every thread
\* are what its place in its loop and the place of the game's thread in
\* TickNow require (NetThread.cpp, TickNow and ThreadWaitForContinue).
THEOREM TurnInvariant == Spec => [](TypeOK /\ TurnInv)
<1>1. Init => TypeOK /\ TurnInv
  BY TypesInit, TurnInit
<1>2. TypeOK /\ TurnInv /\ [Next]_vars => (TypeOK /\ TurnInv)'
  BY TypesNext, TurnNext
<1> QED
  BY <1>1, <1>2, PTL DEF Spec

\* Every variable of the threads and of the domain keeps its type: the current
\* thread is one whenever TickNow uses it.
THEOREM ThreadTypesCorrect == Spec => []TypeOK
BY TurnInvariant, PTL

LEMMA TurnsAreExclusive == TurnInv => OneAtATime
BY DEF TurnInv, OneAtATime, ThreadInv, Still, Served, Runs

\* However many scripts there are, at most one of them runs, and only while
\* the game's thread stands at the stopFlag of that one (TickNow).
THEOREM ScriptsRunOneAtATime == Spec => []OneAtATime
BY TurnInvariant, TurnsAreExclusive, PTL

-----------------------------------------------------------------------------
\* Taking turns.

LEMMA TurnsInit == Init => Turns!Init
BY DEF Init, Turns!Init, Runs, Timely

\* A step of the game's thread moves the game, or nothing TurnTaking sees.
LEMMA GameStepTakesTurns ==
  ASSUME TypeOK, Timely, Timely', TurnInv, GameStep
  PROVE  [Turns!Next]_(Turns!vars)
<1> USE DEF objects, code, domain, lists, GoTo, Turns!vars, Runs
<1>1. CASE SetRunFlag
  <2>1. pCurrentThread \in Threads /\ ticking = "setting"
    BY <1>1 DEF SetRunFlag, TurnInv, GameInv
  <2>2. Turns!Stand(pCurrentThread)
    BY <1>1, <2>1 DEF SetRunFlag, Turns!Stand
  <2> QED
    BY <2>1, <2>2 DEF Turns!Next
<1>2. CASE PassStopFlag
  <2>1. pCurrentThread \in Threads /\ ticking = "blocked"
        /\ stopFlag[pCurrentThread]
    BY <1>2 DEF PassStopFlag, TurnInv, GameInv
  <2>2. Runs = {}
    BY <2>1 DEF TurnInv, ThreadInv, InTurn, NotYet, Now, Over, Still, Served
  <2>3. Turns!GoOn
    BY <1>2, <2>1, <2>2, NoThreadIsNone DEF PassStopFlag, Turns!GoOn
  <2> QED
    BY <2>3 DEF Turns!Next
<1>3. CASE TestThread \/ ResetStopFlag \/ ReturnState \/ ProcessRemoteEvents \/ RunTickAgain
  <2>1. ticking # "blocked" /\ ticking' # "blocked" /\ at' = at
    BY <1>3 DEF TestThread, ResetStopFlag, ReturnState, ProcessRemoteEvents,
                RunTickAgain, Turn
  <2> QED
    BY <2>1
<1> QED
  BY <1>1, <1>2, <1>3 DEF GameStep

LEMMA ThreadStepTakesTurns ==
  ASSUME TypeOK, Timely, Timely', TurnInv, NEW t \in Threads, ThreadStep(t)
  PROVE  [Turns!Next]_(Turns!vars)
<1> USE DEF Turns!vars
<1>0. Beside(t) /\ ThreadInv(t)
  BY ThreadStepBeside DEF TurnInv
<1>1. CASE Continue(t)
  <2>1. at[t] = "resumed" /\ Served(t)
    BY <1>0, <1>1 DEF Continue, ThreadInv, Still
  <2>2. Runs = {}
    BY <2>1 DEF Runs, TurnInv, ThreadInv, Still, Served
  <2>3. Runs' = {t}
    BY <1>0, <1>1, <2>2 DEF Runs, Beside, Continue, TypeOK
  <2>4. Turns!Start(t)
    BY <1>0, <2>1, <2>2, <2>3 DEF Turns!Start, Served, Beside
  <2> QED
    BY <2>4 DEF Turns!Next
<1>2. CASE at[t] = "running" /\ at'[t] # "running"
  <2>1. Runs = {t}
    BY <1>0, <1>2 DEF Runs, TurnInv, ThreadInv, Still, Served
  <2>2. Runs' = {}
    BY <1>0, <1>2, <2>1 DEF Runs, Beside
  <2>3. Turns!Stop(t)
    BY <1>0, <2>1, <2>2 DEF Turns!Stop, Beside
  <2> QED
    BY <2>3 DEF Turns!Next
<1>3. CASE at[t] = "running" <=> at'[t] = "running"
  <2>1. Runs' = Runs
    BY <1>0, <1>3 DEF Runs, Beside
  <2> QED
    BY <1>0, <2>1 DEF Beside
<1>4. at'[t] = "running" => at[t] = "running" \/ Continue(t)
  BY DEF ThreadStep, RunningStep, ThreadBegins, SetStopFlag, PassRunFlag, SleepOn,
         Halt, RaiseEvent, AddRunningScript, AbortSelf, Abort, EndThread, TypeOK, code
<1> QED
  BY <1>1, <1>2, <1>3, <1>4

LEMMA TurnsNext ==
  ASSUME TypeOK, TurnInv, [Next]_vars
  PROVE  [Turns!Next]_(Turns!vars)
<1> USE DEF Turns!vars, objects, code, domain, lists, game
<1>1. CASE ~Timely'
  BY <1>1 DEF Turns!Next, Turns!Race
<1>2. CASE UNCHANGED vars
  BY <1>2 DEF vars, Runs, Timely
<1>3. CASE Timely' /\ Next
  <2>1. Timely
    BY <1>3 DEF Next
  <2>2. ASSUME NEW t, NEW i, Turn(t, i), ticking = "free"
        PROVE  UNCHANGED Turns!vars
    BY <1>3, <2>1, <2>2 DEF Turn, Runs
  <2>3. ASSUME NEW i \in DOMAIN scriptThreadList, RunThreadTick(i)
        PROVE  UNCHANGED Turns!vars
    BY <2>2, <2>3 DEF RunThreadTick
  <2>4. ASSUME NEW t \in Helpers, RunHelperTick(t)
        PROVE  UNCHANGED Turns!vars
    BY <2>2, <2>4 DEF RunHelperTick
  <2>5. CASE DrawingCall
    BY <1>3, <2>1, <2>5 DEF DrawingCall, Runs
  <2>6. ASSUME NEW t \in Threads, Launch(t)
        PROVE  UNCHANGED Turns!vars
    BY <1>3, <2>1, <2>6 DEF Launch, Runs, TypeOK
  <2>7. ASSUME NEW t \in Scripts, AbortOther(t)
        PROVE  UNCHANGED Turns!vars
    <3>1. t \in Threads /\ at[t] # "running"
      BY <2>1, <2>7, AbortedIsStill DEF AbortOther, Threads, Still
    <3>2. at' = [at EXCEPT ![t] = "unwinding"] /\ UNCHANGED <<ticking, pCurrentThread>>
      BY <2>7 DEF AbortOther, Abort
    <3>3. Runs' = Runs
      BY <3>1, <3>2 DEF Runs, TypeOK
    <3> QED
      BY <1>3, <2>1, <3>2, <3>3
  <2> QED
    BY <1>3, <2>1, <2>3, <2>4, <2>5, <2>6, <2>7, GameStepTakesTurns, ThreadStepTakesTurns
       DEF Next
<1> QED
  BY <1>1, <1>2, <1>3

\* The two flags of every thread, the tests of TickNow and the calls to the
\* game's domain together implement the taking of turns, step by step.
THEOREM ImplementsTurnTaking == Spec => TakesTurns
<1>1. TypeOK /\ TurnInv /\ [Next]_vars => [Turns!Next]_(Turns!vars)
  BY TurnsNext
<1> QED
  BY <1>1, TurnsInit, TurnInvariant, PTL DEF Spec, TakesTurns, Turns!Spec

-----------------------------------------------------------------------------
\* The calls to the game's domain.

\* What a thread's step leaves alone of the calls of the others.
AsideOfCalls(t) ==
  /\ UNCHANGED <<LastRemoteEventResult, ThreadID, scriptThreadList, mishaps>>
  /\ at[t] # "running" => RemoteEventList' = RemoteEventList
  /\ \A u \in Threads \ {t} :
       /\ reason'[u] = reason[u]
       /\ bJustWaitingForCommand'[u] = bJustWaitingForCommand[u]

LEMMA ThreadStepAsideOfCalls ==
  ASSUME TypeOK, Timely, TurnInv, NEW t \in Threads, ThreadStep(t)
  PROVE  AsideOfCalls(t)
<1> USE DEF objects, code, domain, lists, game, TypeOK, AsideOfCalls
<1>1. CASE ThreadBegins(t)
  BY <1>1 DEF ThreadBegins
<1>2. CASE SetStopFlag(t)
  BY <1>2 DEF SetStopFlag
<1>3. CASE PassRunFlag(t)
  BY <1>3 DEF PassRunFlag
<1>4. CASE SleepOn(t)
  BY <1>4 DEF SleepOn
<1>5. CASE Continue(t)
  BY <1>5 DEF Continue
<1>6. CASE Halt(t, "continue") \/ Halt(t, "wait")
  BY <1>6 DEF Halt
<1>7. CASE RaiseEvent(t)
  <2>1. pCurrentThread = t /\ t # NoThread
    BY <1>7, NoThreadIsNone DEF RaiseEvent, TurnInv, ThreadInv, Still, Served
  <2> QED
    BY <1>7, <2>1 DEF RaiseEvent
<1>8. CASE AddRunningScript(t)
  BY <1>8 DEF AddRunningScript
<1>9. CASE AbortSelf(t)
  BY <1>9 DEF AbortSelf, Abort
<1>10. CASE EndThread(t)
  BY <1>10 DEF EndThread
<1> QED
  BY <1>1, <1>2, <1>3, <1>4, <1>5, <1>6, <1>7, <1>8, <1>9, <1>10
     DEF ThreadStep, RunningStep

\* A thread's step and its own call.
LEMMA ThreadStepOwnCall ==
  ASSUME TypeOK, Timely, TurnInv, NEW t \in Threads, CallOf(t), ThreadStep(t)
  PROVE  CallOf(t)'
<1> USE DEF objects, code, domain, lists, game, TypeOK, CallOf, Calling
<1>0. ThreadInv(t)
  BY DEF TurnInv
<1>1. CASE ThreadBegins(t)
  BY <1>1 DEF ThreadBegins
<1>2. CASE SetStopFlag(t)
  <2>1. CASE at[t] = "begun"
    BY <1>2, <2>1 DEF SetStopFlag
  <2>2. CASE at[t] = "halted"
    <3>1. Served(t)
      BY <1>0, <2>2 DEF ThreadInv, Still
    <3>2. Calling(t) => Asking(t) /\ bJustWaitingForCommand[t]
      BY <2>2, <3>1 DEF Answered, Served
    <3> QED
      BY <1>0, <1>2, <2>2, <3>2 DEF SetStopFlag, ThreadInv, Asking
  <2> QED
    BY <1>2, <2>1, <2>2 DEF SetStopFlag
<1>3. CASE PassRunFlag(t)
  <2>1. runFlag[t] /\ Served(t) /\ ~stopFlag[t]
    BY <1>0, <1>3 DEF PassRunFlag, ThreadInv, Still, InTurn, NotYet, Now, Over
  <2>2. Calling(t) => Answered(t) /\ ~bJustWaitingForCommand[t]
    BY <2>1 DEF Asking
  <2> QED
    BY <1>3, <2>1, <2>2 DEF PassRunFlag, Answered
<1>4. CASE SleepOn(t)
  BY <1>4 DEF SleepOn
<1>5. CASE Continue(t)
  BY <1>5 DEF Continue
<1>6. CASE Halt(t, "continue") \/ Halt(t, "wait")
  BY <1>6 DEF Halt
<1>7. CASE RaiseEvent(t)
  <2>1. Served(t) /\ pCurrentThread = t /\ t # NoThread /\ ~runFlag[t]
    BY <1>0, <1>7, NoThreadIsNone
       DEF RaiseEvent, ThreadInv, Still, Served, InTurn, NotYet, Now, Over
  <2>2. RemoteEventList' # <<>> /\ RemoteEventList'[Len(RemoteEventList')] = t
    BY <1>7 DEF RaiseEvent
  <2>3. /\ at'[t] = "halted" /\ bJustWaitingForCommand'[t]
        /\ UNCHANGED <<runFlag, ticking, pCurrentThread>>
    BY <1>7, <2>1 DEF RaiseEvent
  <2> QED
    BY <2>1, <2>2, <2>3 DEF Asking, Served
<1>8. CASE AddRunningScript(t)
  BY <1>8 DEF AddRunningScript
<1>9. CASE AbortSelf(t)
  BY <1>9 DEF AbortSelf, Abort
<1>10. CASE EndThread(t)
  BY <1>10 DEF EndThread
<1> QED
  BY <1>1, <1>2, <1>3, <1>4, <1>5, <1>6, <1>7, <1>8, <1>9, <1>10
     DEF ThreadStep, RunningStep

LEMMA ThreadStepCalls ==
  ASSUME TypeOK, Timely, InPlace, TurnInv, CallInv, NEW t \in Threads, ThreadStep(t)
  PROVE  IndexInv' /\ \A u \in Threads : CallOf(u)'
<1>1. Beside(t) /\ AsideOfCalls(t) /\ IndexInv /\ \A u \in Threads : CallOf(u)
  BY ThreadStepBeside, ThreadStepAsideOfCalls DEF CallInv
<1>2. IndexInv'
  BY <1>1 DEF IndexInv, Beside, AsideOfCalls
<1>3. CallOf(t)'
  BY <1>1, ThreadStepOwnCall
<1>4. ASSUME NEW u \in Threads \ {t} PROVE CallOf(u)'
  <2>1. CASE Calling(u)
    <3>1. pCurrentThread = u
      BY <1>1, <2>1 DEF CallOf
    <3>2. at[t] # "running"
      BY <3>1 DEF TurnInv, ThreadInv, Still, Served
    <3> QED
      BY <1>1, <2>1, <3>2 DEF Beside, AsideOfCalls, CallOf, Calling, Asking, Answered
  <2>2. CASE ~Calling(u)
    BY <1>1, <2>2 DEF Beside, AsideOfCalls, CallOf, Calling
  <2> QED
    BY <2>1, <2>2
<1> QED
  BY <1>2, <1>3, <1>4

\* The game's thread finds the thread that called where it left it, answers it
\* and gives it the turn again.
LEMMA GameStepCalls ==
  ASSUME TypeOK, Timely, Timely', InPlace, TurnInv, CallInv, GameStep
  PROVE  IndexInv' /\ \A u \in Threads : CallOf(u)'
<1> USE DEF objects, code, domain, lists, GoTo, TypeOK
<1>0. GameInv /\ IndexInv /\ \A u \in Threads : CallOf(u) /\ ThreadInv(u)
  BY DEF TurnInv, CallInv
<1>1. CASE TestThread
  <2>1. ASSUME NEW u \in Threads, Calling(u) PROVE ticking' = "resetting"
    <3>1. pCurrentThread = u /\ ~Served(u)
      BY <1>0, <1>1, <2>1 DEF TestThread, CallOf, Served
    <3>2. bInLoop[u] /\ ~bThreadActive[u]
      BY <1>0, <2>1, <3>1 DEF Calling, ThreadInv, Loop
    <3> QED
      BY <1>1, <3>1, <3>2 DEF TestThread
  <2>2. ASSUME NEW u \in Threads PROVE CallOf(u)'
    BY <1>0, <1>1, <2>1, <2>2 DEF TestThread, CallOf, Calling, Asking, Answered
  <2> QED
    BY <1>0, <1>1, <2>2 DEF TestThread, IndexInv
<1>2. CASE ResetStopFlag
  BY <1>0, <1>2 DEF ResetStopFlag, IndexInv, CallOf, Calling, Asking, Answered
<1>3. CASE SetRunFlag
  BY <1>0, <1>3 DEF SetRunFlag, IndexInv, GameInv, CallOf, Calling, Asking, Answered
<1>4. CASE PassStopFlag
  BY <1>0, <1>4 DEF PassStopFlag, IndexInv, CallOf, Calling, Asking, Answered
<1>5. CASE ReturnState
  <2>1. IndexInv'
    BY <1>0, <1>5 DEF ReturnState, IndexInv
  <2>2. ASSUME NEW u \in Threads PROVE CallOf(u)'
    BY <1>0, <1>5, <2>2 DEF ReturnState, CallOf, Calling, Asking, Answered
  <2> QED
    BY <2>1, <2>2
<1>6. CASE ProcessRemoteEvents
  <2>1. IndexInv'
    BY <1>0, <1>6 DEF ProcessRemoteEvents, IndexInv
  <2>2. ASSUME NEW u \in Threads PROVE CallOf(u)'
    BY <1>0, <1>6, <2>2 DEF ProcessRemoteEvents, CallOf, Calling, Asking, Answered
  <2> QED
    BY <2>1, <2>2
<1>7. CASE RunTickAgain
  <2>1. ticking = "again" /\ pCurrentThread \in Threads
    BY <1>0, <1>7 DEF RunTickAgain, GameInv
  <2>2. PICK i \in Nat :
          /\ Turn(pCurrentThread, i)
          /\ i # 0 => /\ i \in DOMAIN scriptThreadList
                      /\ scriptThreadList[i] = pCurrentThread
    <3>1. CASE ThreadID = 0
      BY <1>7, <3>1 DEF RunTickAgain
    <3>2. CASE ThreadID # 0
      BY <1>0, <1>7, <2>1, <3>2 DEF RunTickAgain, IndexInv
    <3> QED
      BY <3>1, <3>2
  <2>3. /\ ThreadID' = i /\ pCurrentThread' = pCurrentThread
        /\ scriptThreadList' = scriptThreadList /\ ticking' = "testing"
        /\ bJustWaitingForCommand' = [bJustWaitingForCommand EXCEPT ![pCurrentThread] = FALSE]
        /\ UNCHANGED <<at, reason, LastRemoteEventResult>>
    BY <2>2 DEF Turn
  <2>4. IndexInv'
    BY <2>2, <2>3 DEF IndexInv
  <2>5. ASSUME NEW u \in Threads PROVE CallOf(u)'
    <3>1. Calling(u) => pCurrentThread = u /\ LastRemoteEventResult = u
      BY <1>0, <2>1 DEF CallOf, Asking, Answered
    <3> QED
      BY <1>0, <2>1, <2>3, <3>1 DEF CallOf, Calling, Answered
  <2> QED
    BY <2>4, <2>5
<1> QED
  BY <1>1, <1>2, <1>3, <1>4, <1>5, <1>6, <1>7 DEF GameStep

LEMMA FreeCalls ==
  ASSUME TypeOK, CallInv, Timely, InPlace, ticking = "free"
  PROVE  \A u \in Threads : ~Calling(u)
BY DEF CallInv, CallOf, Asking, Answered

LEMMA AbortOtherCalls ==
  ASSUME TypeOK, Timely, InPlace, InPlace', TurnInv, CallInv,
         NEW t \in Scripts, AbortOther(t)
  PROVE  IndexInv' /\ \A u \in Threads : CallOf(u)'
<1>1. t \in Threads /\ Abort(t)
  BY DEF AbortOther, Threads
<1>2. IndexInv'
  BY <1>1 DEF AbortOther, Abort, InPlace, IndexInv, domain
<1>3. /\ UNCHANGED <<bJustWaitingForCommand, runFlag, reason, domain, ticking>>
      /\ at' = [at EXCEPT ![t] = "unwinding"]
      /\ stopFlag' = [stopFlag EXCEPT ![t] = TRUE]
  BY <1>1 DEF Abort
<1>4. ASSUME NEW u \in Threads PROVE CallOf(u)'
  BY <1>1, <1>3, <1>4 DEF CallInv, CallOf, Calling, Asking, Answered, TypeOK, domain
<1> QED
  BY <1>2, <1>4

LEMMA CallsInit == Init => CallInv
BY DEF Init, CallInv, IndexInv, CallOf, Calling

LEMMA CallsNext == TypeOK /\ TurnInv /\ CallInv /\ [Next]_vars => CallInv'
<1> DEFINE Kept == IndexInv' /\ \A u \in Threads : CallOf(u)'
<1> SUFFICES ASSUME TypeOK, TurnInv, CallInv, [Next]_vars, Timely', InPlace'
             PROVE  Kept
  BY DEF CallInv
<1> USE DEF objects, code, domain, lists, game
<1>1. CASE UNCHANGED vars
  BY <1>1 DEF vars, Timely, InPlace, CallInv, IndexInv, CallOf, Calling, Asking, Answered
<1>2. CASE Next /\ ~InPlace
  <2>1. InPlace'
    OBVIOUS
  <2>2. mishaps \subseteq mishaps'
    BY <1>2 DEF Next, RunThreadTick, RunHelperTick, GameStep, DrawingCall, Launch,
       ThreadStep, RunningStep, AbortOther, Turn, TestThread, ResetStopFlag,
       SetRunFlag, PassStopFlag, ReturnState, ProcessRemoteEvents, RunTickAgain,
       ThreadBegins, SetStopFlag, PassRunFlag, SleepOn, Continue, Halt, RaiseEvent,
       AddRunningScript, AbortSelf, EndThread
  <2> QED
    BY <1>2, <2>1, <2>2 DEF InPlace
<1>3. ASSUME Timely, InPlace, NEW i \in DOMAIN scriptThreadList, RunThreadTick(i)
      PROVE  Kept
  <2>1. IndexInv'
    BY <1>3 DEF RunThreadTick, Turn, IndexInv, TypeOK
  <2>2. ASSUME NEW u \in Threads PROVE CallOf(u)'
    BY <1>3, <2>2, FreeCalls DEF RunThreadTick, Turn, CallInv, CallOf, Calling
  <2> QED
    BY <2>1, <2>2
<1>4. ASSUME Timely, InPlace, NEW t \in Helpers, RunHelperTick(t) PROVE Kept
  <2>1. IndexInv'
    BY <1>4 DEF RunHelperTick, Turn, IndexInv
  <2>2. ASSUME NEW u \in Threads PROVE CallOf(u)'
    BY <1>4, <2>2, FreeCalls DEF RunHelperTick, Turn, CallInv, CallOf, Calling
  <2> QED
    BY <2>1, <2>2
<1>5. CASE Timely /\ InPlace /\ GameStep
  BY <1>5, GameStepCalls
<1>6. CASE Timely /\ InPlace /\ DrawingCall
  BY <1>6, FreeCalls DEF DrawingCall, CallInv, CallOf, Calling, IndexInv
<1>7. ASSUME Timely, InPlace, NEW t \in Threads, Launch(t) PROVE Kept
  <2>1. IndexInv'
    BY <1>7 DEF Launch, IndexInv
  <2>2. ASSUME NEW u \in Threads PROVE CallOf(u)'
    BY <1>7, <2>2, FreeCalls DEF Launch, CallInv, CallOf, Calling, TypeOK
  <2> QED
    BY <2>1, <2>2
<1>8. ASSUME Timely, InPlace, NEW t \in Threads, ThreadStep(t) PROVE Kept
  BY <1>8, ThreadStepCalls
<1>9. ASSUME Timely, InPlace, NEW t \in Scripts, AbortOther(t) PROVE Kept
  BY <1>9, AbortOtherCalls
<1> QED
  BY <1>1, <1>2, <1>3, <1>4, <1>5, <1>6, <1>7, <1>8, <1>9 DEF Next

\* A call to the game is answered before its thread goes on: the calling
\* thread stays the current one, and its event stays the last of the list.
THEOREM CallInvariant == Spec => []CallInv
<1>1. TypeOK /\ TurnInv /\ CallInv /\ [Next]_vars => CallInv'
  BY CallsNext
<1> QED
  BY <1>1, CallsInit, TurnInvariant, PTL DEF Spec

LEMMA CallsReturnTheirOwn == CallInv => OwnResult
BY DEF CallInv, OwnResult, CallOf, Calling, Asking, Answered

\* However many calls were listed before it and whatever else was drawn in the
\* meantime: a thread that comes back from WaitForCommandResult finds the
\* result of its own call in the one place all threads share.
THEOREM CallsHaveTheirOwnResult == Spec => []OwnResult
BY CallInvariant, CallsReturnTheirOwn, PTL
=============================================================================
