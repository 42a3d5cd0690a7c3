----------------------------- MODULE NetThread ------------------------------
(***************************************************************************)
(* The threads of the script host of the client (ScriptHookDotNet).  Every *)
(* script, the drawing of the scripts' frames and the remote processing    *)
(* run on a thread of their own, a NetThread, but never by themselves: the *)
(* game's thread hands each of them the turn (TickNow), by resetting its   *)
(* stopFlag, setting its runFlag and waiting for the stopFlag, and the     *)
(* thread hands it back when it has done its tick, sleeps (Wait), needs    *)
(* the game's own domain to execute a call (RaiseEventInLocalScriptDomain, *)
(* WaitForCommandResult), or is aborted.                                   *)
(*                                                                         *)
(* runFlag is an AutoResetEvent: the wait that passes it resets it.        *)
(* stopFlag is a ManualResetEvent and starts signalled.                    *)
(*                                                                         *)
(* One value of "at" is one place between two accesses to what the threads *)
(* share; "ticking" is that place for the game's thread.                   *)
(***************************************************************************)
EXTENDS ElementList

CONSTANTS
  Scripts,     \* the threads of the scripts
  Helpers,     \* the domain's own: pRenderThread, RemoteProcessing::Thread
  NoThread,    \* the null reference
  MaxEvents    \* bound: events that wait in RemoteEventList

Threads == Scripts \cup Helpers

ASSUME NoThreadIsNone == NoThread \notin Threads
ASSUME HelpersAreNoScripts == Scripts \cap Helpers = {}

VARIABLES
  \* NetThread, one of each for every thread
  bRunning, bInLoop, bThreadActive, bJustWaitingForCommand,
  runFlag, stopFlag,
  at,          \* where the thread's own code is
  reason,      \* which of the three waits it is in
  flags,       \* the NetThread object whose events it waits on
  \* the domain and the game's thread
  pCurrentThread, RemoteEventList, LastRemoteEventResult,
  scriptList, scriptThreadList,
  ticking,     \* where the game's thread is in RunThreadTick
  ThreadID,    \* its index into scriptThreadList, 0 for a helper
  mishaps      \* history: "early", a thread was ticked before its first wait;
               \* "moved", scriptThreadList shifted under the game's index

objects == <<bRunning, bInLoop, bThreadActive, bJustWaitingForCommand,
             runFlag, stopFlag>>
code == <<at, reason, flags>>
domain == <<pCurrentThread, RemoteEventList, LastRemoteEventResult>>
lists == <<scriptList, scriptThreadList>>
game == <<ticking, ThreadID, mishaps>>
vars == <<objects, code, domain, lists, game>>

Places == {"unborn", "new", "begun", "halted", "waiting", "resumed",
           "running", "unwinding", "ended"}
GamePlaces == {"free", "testing", "resetting", "setting", "blocked",
               "returning", "answering", "again"}

Init ==
  /\ bRunning = [t \in Threads |-> FALSE]
  /\ bInLoop = [t \in Threads |-> FALSE]
  /\ bThreadActive = [t \in Threads |-> FALSE]
  /\ bJustWaitingForCommand = [t \in Threads |-> FALSE]
  /\ runFlag = [t \in Threads |-> FALSE]
  /\ stopFlag = [t \in Threads |-> TRUE]
  /\ at = [t \in Threads |-> "unborn"]
  /\ reason = [t \in Threads |-> "continue"]
  /\ flags = [t \in Threads |-> t]
  /\ pCurrentThread = NoThread
  /\ RemoteEventList = <<>>
  /\ LastRemoteEventResult = NoThread
  /\ scriptList = {}
  /\ scriptThreadList = <<>>
  /\ ticking = "free"
  /\ ThreadID = 0
  /\ mishaps = {}

-----------------------------------------------------------------------------
(* The game's thread.                                                      *)

GoTo(from, to) == ticking = from /\ ticking' = to

\* Faulty variant: the domain's own threads listed among the scripts'.
LaunchListsAll(t) ==
  /\ ticking = "free"
  /\ at[t] = "unborn"
  /\ at' = [at EXCEPT ![t] = "new"]
  /\ scriptThreadList' = Append(scriptThreadList, t)
  /\ UNCHANGED <<objects, reason, flags, domain, scriptList, game>>

Launch(t) ==
  /\ ticking = "free"
  /\ at[t] = "unborn"
  /\ at' = [at EXCEPT ![t] = "new"]
  /\ scriptThreadList' = IF t \in Scripts THEN Append(scriptThreadList, t)
                         ELSE scriptThreadList
  /\ UNCHANGED <<objects, reason, flags, domain, scriptList, game>>

\* TickNowWithState begins.
Turn(t, i) ==
  /\ ticking' = "testing"
  /\ ThreadID' = i
  /\ pCurrentThread' = t
  /\ bJustWaitingForCommand' = [bJustWaitingForCommand EXCEPT ![t] = FALSE]
  /\ UNCHANGED <<bRunning, bInLoop, bThreadActive, runFlag, stopFlag, code,
                 RemoteEventList, LastRemoteEventResult, lists, mishaps>>

RunThreadTick(i) ==
  /\ ticking = "free"
  /\ Turn(scriptThreadList[i], i)

\* RunRenderThreadTick and RunRemoteProcessingThreadTick.
RunHelperTick(t) ==
  /\ ticking = "free"
  /\ at[t] # "unborn"
  /\ Turn(t, 0)

\* TickNow returns at once from a thread outside its loop and from one that
\* has the turn already.
TestThread ==
  /\ ticking = "testing"
  /\ ticking' = IF bInLoop[pCurrentThread] /\ ~bThreadActive[pCurrentThread]
                THEN "resetting" ELSE "returning"
  /\ UNCHANGED <<objects, code, domain, lists, ThreadID, mishaps>>

\* Faulty variant: the stopFlag of the last turn is not reset.
StopFlagLeftSet ==
  /\ GoTo("resetting", "setting")
  /\ UNCHANGED stopFlag
  /\ mishaps' = IF at[pCurrentThread] = "begun"
                THEN mishaps \cup {"early"} ELSE mishaps
  /\ UNCHANGED <<bRunning, bInLoop, bThreadActive, bJustWaitingForCommand,
                 runFlag, code, domain, lists, ThreadID>>

ResetStopFlag ==
  /\ GoTo("resetting", "setting")
  /\ stopFlag' = [stopFlag EXCEPT ![pCurrentThread] = FALSE]
  /\ mishaps' = IF at[pCurrentThread] = "begun"
                THEN mishaps \cup {"early"} ELSE mishaps
  /\ UNCHANGED <<bRunning, bInLoop, bThreadActive, bJustWaitingForCommand,
                 runFlag, code, domain, lists, ThreadID>>

SetRunFlag ==
  /\ GoTo("setting", "blocked")
  /\ runFlag' = [runFlag EXCEPT ![pCurrentThread] = TRUE]
  /\ UNCHANGED <<bRunning, bInLoop, bThreadActive, bJustWaitingForCommand,
                 stopFlag, code, domain, lists, ThreadID, mishaps>>

PassStopFlag ==
  /\ GoTo("blocked", "returning")
  /\ stopFlag[pCurrentThread]
  /\ UNCHANGED <<objects, code, domain, lists, ThreadID, mishaps>>

\* Faulty variant: the state is dropped, as TickNow does.
ReturnWithoutAnswer ==
  /\ ticking = "returning"
  /\ \/ /\ bJustWaitingForCommand[pCurrentThread]
        /\ ticking' = "free"
        /\ pCurrentThread' = NoThread
     \/ /\ ~bJustWaitingForCommand[pCurrentThread]
        /\ ticking' = "free"
        /\ pCurrentThread' = NoThread
  /\ UNCHANGED <<objects, code, RemoteEventList, LastRemoteEventResult, lists,
                 ThreadID, mishaps>>

\* TickNowWithState tells whether the thread waits for a command's result.
ReturnState ==
  /\ ticking = "returning"
  /\ \/ /\ bJustWaitingForCommand[pCurrentThread]
        /\ ticking' = "answering"
        /\ UNCHANGED pCurrentThread
     \/ /\ ~bJustWaitingForCommand[pCurrentThread]
        /\ ticking' = "free"
        /\ pCurrentThread' = NoThread
  /\ UNCHANGED <<objects, code, RemoteEventList, LastRemoteEventResult, lists,
                 ThreadID, mishaps>>

\* Faulty variant: later events do not overwrite the result.
FirstResultKept ==
  /\ GoTo("answering", "again")
  /\ LastRemoteEventResult' =
       IF RemoteEventList = <<>> THEN LastRemoteEventResult
       ELSE RemoteEventList[1]
  /\ RemoteEventList' = <<>>
  /\ UNCHANGED <<objects, code, pCurrentThread, lists, ThreadID, mishaps>>

\* The events are executed in their order, each overwrites the one result.
ProcessRemoteEvents ==
  /\ GoTo("answering", "again")
  /\ LastRemoteEventResult' =
       IF RemoteEventList = <<>> THEN LastRemoteEventResult
       ELSE RemoteEventList[Len(RemoteEventList)]
  /\ RemoteEventList' = <<>>
  /\ UNCHANGED <<objects, code, pCurrentThread, lists, ThreadID, mishaps>>

\* The loop of ScriptDomain::Tick calls RunThreadTick again with the same
\* index, and is left by an exception when the list has become too short.
RunTickAgain ==
  /\ ticking = "again"
  /\ \/ ThreadID = 0 /\ Turn(pCurrentThread, 0)
     \/ /\ ThreadID \in DOMAIN scriptThreadList
        /\ Turn(scriptThreadList[ThreadID], ThreadID)
     \/ /\ ThreadID > Len(scriptThreadList)
        /\ ticking' = "free"
        /\ UNCHANGED <<objects, code, domain, lists, ThreadID, mishaps>>

\* The handlers of PerFrameScriptDrawing run on the game's thread, with no
\* thread current: their calls are listed like any other, but nobody waits,
\* and they are executed with the calls of the next thread that makes one.
DrawingCall ==
  /\ ticking = "free"
  /\ Len(RemoteEventList) < MaxEvents
  /\ RemoteEventList' = Append(RemoteEventList, NoThread)
  /\ pCurrentThread' = NoThread
  /\ UNCHANGED <<objects, code, LastRemoteEventResult, lists, game>>

-----------------------------------------------------------------------------
(* The thread's own code.                                                  *)

ThreadBegins(t) ==
  /\ at[t] = "new"
  /\ at' = [at EXCEPT ![t] = "begun"]
  /\ bRunning' = [bRunning EXCEPT ![t] = TRUE]
  /\ bInLoop' = [bInLoop EXCEPT ![t] = TRUE]
  /\ bThreadActive' = [bThreadActive EXCEPT ![t] = FALSE]
  /\ UNCHANGED <<bJustWaitingForCommand, runFlag, stopFlag, reason, flags,
                 domain, lists, game>>

\* stopFlag->Set(), after which the thread stands at runFlag->WaitOne().
SetStopFlag(t) ==
  /\ at[t] \in {"begun", "halted"}
  /\ at' = [at EXCEPT ![t] = "waiting"]
  /\ stopFlag' = [stopFlag EXCEPT ![flags[t]] = TRUE]
  /\ UNCHANGED <<bRunning, bInLoop, bThreadActive, bJustWaitingForCommand,
                 runFlag, reason, flags, domain, lists, game>>

\* Faulty variant: runFlag is a ManualResetEvent too.
PassManualFlag(t) ==
  /\ at[t] = "waiting"
  /\ runFlag[flags[t]]
  /\ at' = [at EXCEPT ![t] = "resumed"]
  /\ UNCHANGED runFlag
  /\ UNCHANGED <<bRunning, bInLoop, bThreadActive, bJustWaitingForCommand,
                 stopFlag, reason, flags, domain, lists, game>>

PassRunFlag(t) ==
  /\ at[t] = "waiting"
  /\ runFlag[flags[t]]
  /\ at' = [at EXCEPT ![t] = "resumed"]
  /\ runFlag' = [runFlag EXCEPT ![flags[t]] = FALSE]
  /\ UNCHANGED <<bRunning, bInLoop, bThreadActive, bJustWaitingForCommand,
                 stopFlag, reason, flags, domain, lists, game>>

\* A sleeping thread whose time is not over gives the turn straight back.
SleepOn(t) ==
  /\ at[t] = "resumed"
  /\ reason[t] = "wait"
  /\ bRunning[t]
  /\ at' = [at EXCEPT ![t] = "halted"]
  /\ UNCHANGED <<objects, reason, flags, domain, lists, game>>

Continue(t) ==
  /\ at[t] = "resumed"
  /\ reason[t] = "wait" => bRunning[t]
  /\ at' = [at EXCEPT ![t] = "running"]
  /\ bThreadActive' = [bThreadActive EXCEPT ![flags[t]] = TRUE]
  /\ flags' = [flags EXCEPT ![t] = t]
  /\ UNCHANGED <<bRunning, bInLoop, bJustWaitingForCommand, runFlag, stopFlag,
                 reason, domain, lists, game>>

\* The end of a tick (ThreadWaitForContinue) and Wait.
Halt(t, why) ==
  /\ at[t] = "running"
  /\ why = "continue" => bRunning[t]
  /\ at' = [at EXCEPT ![t] = "halted"]
  /\ reason' = [reason EXCEPT ![t] = why]
  /\ bThreadActive' = [bThreadActive EXCEPT ![t] = FALSE]
  /\ UNCHANGED <<bRunning, bInLoop, bJustWaitingForCommand, runFlag, stopFlag,
                 flags, domain, lists, game>>

\* A call that the game's own domain must execute.  It waits on the thread
\* the domain holds for the current one, and not at all if there is none.
RaiseEvent(t) ==
  /\ at[t] = "running"
  /\ Len(RemoteEventList) < MaxEvents
  /\ RemoteEventList' = Append(RemoteEventList, t)
  /\ IF pCurrentThread = NoThread
     THEN UNCHANGED <<at, reason, flags, bThreadActive, bJustWaitingForCommand>>
     ELSE /\ at' = [at EXCEPT ![t] = "halted"]
          /\ reason' = [reason EXCEPT ![t] = "command"]
          /\ flags' = [flags EXCEPT ![t] = pCurrentThread]
          /\ bThreadActive' = [bThreadActive EXCEPT ![pCurrentThread] = FALSE]
          /\ bJustWaitingForCommand' =
               [bJustWaitingForCommand EXCEPT ![pCurrentThread] = TRUE]
  /\ UNCHANGED <<bRunning, bInLoop, runFlag, stopFlag, pCurrentThread,
                 LastRemoteEventResult, lists, game>>

\* A script that has been constructed and started is listed.
AddRunningScript(t) ==
  /\ at[t] = "running"
  /\ t \in Scripts \ scriptList
  /\ scriptList' = scriptList \cup {t}
  /\ UNCHANGED <<objects, code, domain, scriptThreadList, game>>

\* Faulty variant: ThreadEnds does not set the stopFlag.
AbortSilently(t) ==
  /\ at' = [at EXCEPT ![t] = "unwinding"]
  /\ bRunning' = [bRunning EXCEPT ![t] = FALSE]
  /\ bInLoop' = [bInLoop EXCEPT ![t] = FALSE]
  /\ bThreadActive' = [bThreadActive EXCEPT ![t] = FALSE]
  /\ UNCHANGED stopFlag
  /\ UNCHANGED <<bJustWaitingForCommand, runFlag, reason, flags, domain,
                 ticking, ThreadID>>

\* The flags are set at once; the exception then unwinds the thread's stack
\* beside whatever else runs.
Abort(t) ==
  /\ at' = [at EXCEPT ![t] = "unwinding"]
  /\ bRunning' = [bRunning EXCEPT ![t] = FALSE]
  /\ bInLoop' = [bInLoop EXCEPT ![t] = FALSE]
  /\ bThreadActive' = [bThreadActive EXCEPT ![t] = FALSE]
  /\ stopFlag' = [stopFlag EXCEPT ![t] = TRUE]
  /\ UNCHANGED <<bJustWaitingForCommand, runFlag, reason, flags, domain,
                 ticking, ThreadID>>

\* The exception leaves Abort before it calls OnEnd: the lists keep t.
AbortSelf(t) ==
  /\ t \in Scripts
  /\ at[t] = "running"
  /\ Abort(t)
  /\ UNCHANGED <<lists, mishaps>>

\* Called by the game between two ticks or by another thread that has the
\* turn; OnEnd takes t off both lists.
AbortOther(t) ==
  /\ t \in scriptList
  /\ at[t] # "ended"
  /\ ticking = "free" \/ \E u \in Threads \ {t} : at[u] = "running"
  /\ Abort(t)
  /\ scriptList' = scriptList \ {t}
  /\ scriptThreadList' = Without(scriptThreadList, t)
  /\ mishaps' =
       IF ticking # "free" /\ ThreadID # 0
          /\ \/ ThreadID \notin DOMAIN scriptThreadList'
             \/ scriptThreadList'[ThreadID] # pCurrentThread
       THEN mishaps \cup {"moved"} ELSE mishaps

EndThread(t) ==
  /\ at[t] = "unwinding"
  /\ at' = [at EXCEPT ![t] = "ended"]
  /\ UNCHANGED <<objects, reason, flags, domain, lists, game>>

-----------------------------------------------------------------------------

GameStep == \/ TestThread \/ ResetStopFlag \/ SetRunFlag \/ PassStopFlag
            \/ ReturnState \/ ProcessRemoteEvents \/ RunTickAgain

RunningStep(t) == \/ Halt(t, "continue") \/ Halt(t, "wait") \/ RaiseEvent(t)
                  \/ AddRunningScript(t) \/ AbortSelf(t)

ThreadStep(t) ==
  \/ ThreadBegins(t) \/ SetStopFlag(t) \/ PassRunFlag(t)
  \/ SleepOn(t) \/ Continue(t) \/ RunningStep(t) \/ EndThread(t)

Timely == "early" \notin mishaps
InPlace == "moved" \notin mishaps

\* A thread that was ticked before its first wait runs beside the game, and
\* may leave it waiting for ever: the model goes no further.
Next ==
  /\ Timely
  /\ \/ \E i \in DOMAIN scriptThreadList : RunThreadTick(i)
     \/ \E t \in Helpers : RunHelperTick(t)
     \/ GameStep
     \/ DrawingCall
     \/ \E t \in Threads : Launch(t) \/ ThreadStep(t)
     \/ \E t \in Scripts : AbortOther(t)

\* The operating system runs every thread that can run; a thread that has
\* the turn gives it back in the end (a script that loops for ever freezes
\* the game by design).
Fairness ==
  /\ WF_vars(Timely /\ GameStep)
  /\ \A t \in Threads : WF_vars(Timely /\ ThreadStep(t))

Spec == Init /\ [][Next]_vars

FairSpec == Spec /\ Fairness

-----------------------------------------------------------------------------

\* The types; the index that is ticked is a number whatever the lists do.
TypeOK ==
  /\ \A f \in {bRunning, bInLoop, bThreadActive, bJustWaitingForCommand,
             runFlag, stopFlag} : f \in [Threads -> BOOLEAN]
  /\ at \in [Threads -> Places]
  /\ reason \in [Threads -> {"continue", "wait", "command"}]
  /\ flags \in [Threads -> Threads]
  /\ pCurrentThread \in Threads \cup {NoThread}
  /\ RemoteEventList \in Seq(Threads \cup {NoThread})
  /\ LastRemoteEventResult \in Threads \cup {NoThread}
  /\ scriptList \subseteq Scripts
  /\ scriptThreadList \in Seq(Scripts)
  /\ ticking \in GamePlaces
  /\ ThreadID \in Nat
  /\ mishaps \subseteq {"early", "moved"}

Served(t) == ticking = "blocked" /\ pCurrentThread = t

Runs == {t \in Threads : at[t] = "running"}

\* Scripts share the game, the domain and each other's objects without a
\* lock: while one of them runs the game stands still for it, so none other
\* runs and the game's thread does not either.  A thread that was ticked
\* before its first wait runs beside the game (NetThread.cpp:168).
OneAtATime == Timely => \A t \in Runs : Served(t) /\ Runs = {t}

\* The result of a call is kept in one place for all threads
\* (LastRemoteEventResult): a thread that comes back from its call finds the
\* result of its own call there, whatever else was listed before - unless it
\* has aborted a script listed before it and so lost its index to another.
OwnResult ==
  Timely /\ InPlace => \A t \in Threads :
    at[t] = "resumed" /\ reason[t] = "command" => LastRemoteEventResult = t

\* The game is stopped by its scripts, but not for good.
GameGoesOn == Timely /\ ticking = "blocked" ~> ~Timely \/ ticking # "blocked"

\* A thread that waits for the game to execute its call gets its answer
\* before the game turns to anything else.
EveryCallReturns ==
  \A t \in Threads :
    Timely /\ InPlace /\ at[t] = "waiting" /\ reason[t] = "command"
      ~> ~Timely \/ ~InPlace \/ at[t] # "waiting"

\* The handing over of the turn through two flags implements taking turns.
Turns == INSTANCE TurnTaking WITH
  Threads <- Threads, NoThread <- NoThread,
  standing <- IF ticking = "blocked" THEN pCurrentThread ELSE NoThread,
  turn <- Runs,
  raced <- ~Timely

\* TickNow and Wait implement TurnTaking: the game stands still for one thread,
\* which alone runs, and goes on when it has stopped.
TakesTurns == Turns!Spec

=============================================================================
