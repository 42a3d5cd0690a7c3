---------------------------- MODULE ScriptDomain ----------------------------
(***************************************************************************)
(* The scripts of the client's script host: how they are found, launched,  *)
(* ticked, aborted and launched again (RemoteScriptDomain, its state       *)
(* manager and the frames NetHook drives it with).                         *)
(*                                                                         *)
(* The state manager is two variables, what the domain is doing (pState)   *)
(* and what it was asked for (pAction), and functions that call each other *)
(* in tail position: RequestAction and ChangeState pick the next one,      *)
(* which ends in a ChangeState.  "call" is the one that is picked; until   *)
(* there is none the game's thread does nothing else.                      *)
(*                                                                         *)
(* Two lists go wrong separately: scriptThreadList, which is ticked, and   *)
(* scriptList, which is aborted.  A thread is named by its script's type   *)
(* and the launch it comes from.  That only one thread runs at a time is   *)
(* taken from NetThread; here a thread has the turn for as many steps as   *)
(* it likes.                                                               *)
(***************************************************************************)
EXTENDS ElementList, FiniteSets

CONSTANTS
  Types,        \* the script types in the scripts folder
  NoThread,     \* the null reference
  Behaviours,   \* what scripts do besides ticking
  MaxRequests   \* bound: actions requested of the domain

ASSUME FoldersAreFinite == IsFiniteSet(Types)
ASSUME RequestBound == MaxRequests \in Nat
ASSUME KnownBehaviours ==
  Behaviours \subseteq
    {"waits", "fails", "draws badly", "aborts itself", "aborts others"}

Thread == Types \X (1 .. MaxRequests)

VARIABLES
  remote,            \* the domain exists
  pState, pAction,
  call,              \* the function of the state manager to run next
  scriptTypeList, scriptList, scriptThreadList,
  life,              \* how far each thread has come
  launches,          \* the number of launches
  phase,             \* where the game's thread is: in a Tick or between two
  ThreadID,          \* the index of the loop of ScriptDomain::Tick
  turn,              \* the thread that has the turn
  requests

state == <<pState, pAction, call>>
lists == <<scriptList, scriptThreadList>>
loaded == <<scriptTypeList, launches>>
frame == <<phase, ThreadID, turn>>
vars == <<remote, state, lists, loaded, life, frame, requests>>

States == {"Empty", "NoneFound", "Loaded", "Running", "Aborting", "Aborted"}
Actions == {"Idle", "StartScripts", "RestartScripts", "AbortScripts",
            "ReloadAndStartScripts"}
Calls == {"none", "LoadScripts", "LaunchScriptThreads", "AbortScripts"}

Fresh ==
  /\ pState' = "Empty"
  /\ scriptTypeList' = {}
  /\ scriptList' = <<>>
  /\ scriptThreadList' = <<>>
  /\ life' = [t \in Thread |-> IF life[t] = "none" THEN "none" ELSE "dead"]

Init ==
  /\ remote = FALSE
  /\ pState = "Empty"
  /\ pAction = "Idle"
  /\ call = "none"
  /\ scriptTypeList = {}
  /\ scriptList = <<>>
  /\ scriptThreadList = <<>>
  /\ life = [t \in Thread |-> "none"]
  /\ launches = 0
  /\ phase = "between"
  /\ ThreadID = 0
  /\ turn = NoThread
  /\ requests = 0

-----------------------------------------------------------------------------
(* The state manager.                                                      *)

Starts == {"StartScripts", "RestartScripts", "ReloadAndStartScripts"}

\* What a request leads to in a state; "none" ends it.  ReloadAndStartScripts
\* is only asked of a new, empty domain.
Requested(action, s) ==
  CASE action \in Starts /\ s \in {"Empty", "NoneFound"} -> "LoadScripts"
    [] action \in Starts /\ s \in {"Loaded", "Aborted"} -> "LaunchScriptThreads"
    [] action \in {"RestartScripts", "AbortScripts"} /\ s = "Running"
         -> "AbortScripts"
    [] OTHER -> "none"

\* RequestAction(action) in state s.
Request(action, s) ==
  /\ call' = Requested(action, s)
  /\ pAction' = IF Requested(action, s) = "none" THEN "Idle" ELSE action

\* What the action that was asked for leads to when a state is reached.
\* Loading, Starting and Aborting lead nowhere and are passed over.
Followed(action, s) ==
  CASE action \in Starts /\ s = "Empty" -> "LoadScripts"
    [] action \in Starts /\ s \in {"Loaded", "Aborted"} -> "LaunchScriptThreads"
    [] OTHER -> "none"

\* Faulty variant: reaching a state does not settle the action.
ChangeStateOnly(s) ==
  /\ pState' = s
  /\ call' = Followed(pAction, s)
  /\ pAction' = pAction

ChangeState(s) ==
  /\ pState' = s
  /\ call' = Followed(pAction, s)
  /\ pAction' = IF Followed(pAction, s) = "none" THEN "Idle" ELSE pAction

LoadScripts ==
  /\ call = "LoadScripts"
  /\ \/ /\ scriptTypeList' = {}
        /\ ChangeState("NoneFound")
     \/ /\ scriptTypeList' = Types
        /\ ChangeState("Loaded")
  /\ UNCHANGED <<remote, lists, life, launches, frame, requests>>

\* The files are launched in the order they were found.  While scripts are
\* listed the launch is refused, and the action stays asked for.
LaunchScriptThreads ==
  /\ call = "LaunchScriptThreads"
  /\ IF scriptList # <<>>
     THEN /\ call' = "none"
          /\ UNCHANGED <<pState, pAction, scriptThreadList, life, launches>>
     ELSE /\ \E order \in [1 .. Cardinality(scriptTypeList) -> scriptTypeList] :
               LET new == [i \in DOMAIN order |-> <<order[i], launches + 1>>]
               IN /\ Distinct(order)
                  /\ scriptThreadList' = scriptThreadList \o new
                  /\ life' = [t \in Thread |->
                                IF t \in Elements(new) THEN "launched" ELSE life[t]]
          /\ launches' = launches + 1
          /\ ChangeState("Running")
  /\ UNCHANGED <<remote, scriptTypeList, scriptList, frame, requests>>

\* Faulty variant: the threads that ended unlisted stay.
TerminatedListed ==
  /\ UNCHANGED scriptThreadList
  /\ ChangeState("Aborted")

\* CheckState when it finds the last script gone.
Terminated ==
  /\ scriptThreadList' = <<>>
  /\ ChangeState("Aborted")

Alive(t) == life[t] \in {"launched", "constructing", "running"}

\* The list without the threads of a set: the others, at increasing places.
KeepsAllBut(f, list, S) ==
  /\ {f[i] : i \in DOMAIN f} = {i \in DOMAIN list : list[i] \notin S}
  /\ \A i, j \in DOMAIN f : i < j => f[i] < f[j]
WithoutAll(list, S) ==
  LET kept == CHOOSE f \in UNION {[1 .. n -> DOMAIN list] : n \in 0 .. Len(list)} :
                KeepsAllBut(f, list, S)
  IN  [i \in DOMAIN kept |-> list[kept[i]]]

\* Faulty variant: AbortScripts takes the scripts for ended.
AbortAtOnce ==
  /\ call = "AbortScripts"
  /\ LET aborted == {t \in Elements(scriptList) : Alive(t)}
     IN /\ life' = [t \in Thread |-> IF t \in aborted THEN "dead" ELSE life[t]]
        /\ scriptList' = WithoutAll(scriptList, aborted)
        /\ IF aborted # {}
           THEN Terminated
           ELSE /\ scriptThreadList' = WithoutAll(scriptThreadList, aborted)
                /\ pState' = "Aborting"
                /\ call' = "none"
                /\ UNCHANGED pAction
  /\ UNCHANGED <<remote, loaded, frame, requests>>

\* Faulty variant: the loop counts upwards while scripts go off the list.
AbortUpwards ==
  /\ call = "AbortScripts"
  /\ LET aborted == {scriptList[i] : i \in {i \in DOMAIN scriptList :
                                       i % 2 = 1 /\ Alive(scriptList[i])}}
     IN /\ life' = [t \in Thread |-> IF t \in aborted THEN "dead" ELSE life[t]]
        /\ scriptList' = WithoutAll(scriptList, aborted)
        /\ IF aborted # {} /\ scriptList' = <<>>
           THEN Terminated
           ELSE /\ scriptThreadList' = WithoutAll(scriptThreadList, aborted)
                /\ pState' = "Aborting"
                /\ call' = "none"
                /\ UNCHANGED pAction
  /\ UNCHANGED <<remote, loaded, frame, requests>>

\* Every listed script is aborted.  Abort calls OnEnd, which takes a script
\* off the lists, only for a thread that is alive; the last one to go checks
\* the state.
AbortScripts ==
  /\ call = "AbortScripts"
  /\ LET aborted == {t \in Elements(scriptList) : Alive(t)}
     IN /\ life' = [t \in Thread |-> IF t \in aborted THEN "dead" ELSE life[t]]
        /\ scriptList' = WithoutAll(scriptList, aborted)
        /\ IF aborted # {} /\ scriptList' = <<>>
           THEN Terminated
           ELSE /\ scriptThreadList' = WithoutAll(scriptThreadList, aborted)
                /\ pState' = "Aborting"
                /\ call' = "none"
                /\ UNCHANGED pAction
  /\ UNCHANGED <<remote, loaded, frame, requests>>

-----------------------------------------------------------------------------
(* What is asked of the domain, by the console and by the game.            *)

Asked ==
  /\ call = "none"
  /\ phase = "between"
  /\ requests < MaxRequests
  /\ requests' = requests + 1

\* A command is entered when the keys are checked, just before the Tick.
Entered ==
  /\ Asked
  /\ phase' = "entered"
  /\ UNCHANGED <<ThreadID, turn>>

ConsoleCommand(action) ==
  /\ Entered
  /\ remote
  /\ Request(action, pState)
  /\ UNCHANGED <<remote, pState, lists, loaded, life>>

\* Whatever RemoveAllScripts and the ten seconds of WaitForScriptsToAbort
\* come to, the domain is unloaded with all that is in it.
ReloadScripts ==
  /\ Entered
  /\ remote' = TRUE
  /\ Fresh
  /\ Request("ReloadAndStartScripts", "Empty")
  /\ UNCHANGED launches

\* A domain without running scripts is kept.
GameReloaded ==
  /\ Asked
  /\ remote' = TRUE
  /\ IF remote /\ scriptList = <<>>
     THEN /\ Request("RestartScripts", pState)
          /\ UNCHANGED <<pState, lists, loaded, life>>
     ELSE /\ Fresh
          /\ Request("RestartScripts", "Empty")
          /\ UNCHANGED launches
  /\ UNCHANGED frame

GameTerminated ==
  /\ Asked
  /\ remote
  /\ remote' = FALSE
  /\ Fresh
  /\ pAction' = "Idle"
  /\ UNCHANGED <<call, launches, frame>>

-----------------------------------------------------------------------------
(* A frame.                                                                *)

BeginTick ==
  /\ remote
  /\ call = "none"
  /\ phase \in {"between", "entered"}
  /\ phase' = "ticking"
  /\ ThreadID' = Len(scriptThreadList)
  /\ UNCHANGED <<remote, state, lists, loaded, life, turn, requests>>

Ticking == phase = "ticking" /\ call = "none" /\ turn = NoThread

\* TickNow returns at once from a thread that has ended or not begun yet.
RunThreadTick ==
  /\ Ticking
  /\ ThreadID \in DOMAIN scriptThreadList
  /\ \/ /\ Alive(scriptThreadList[ThreadID])
        /\ turn' = scriptThreadList[ThreadID]
        /\ UNCHANGED ThreadID
     \/ /\ life[scriptThreadList[ThreadID]] \in {"dead", "launched"}
        /\ ThreadID' = ThreadID - 1
        /\ UNCHANGED turn
  /\ UNCHANGED <<remote, state, lists, loaded, life, phase, requests>>

\* The index is past the end of a list that was shortened: the exception
\* leaves the Tick.
TickFails ==
  /\ Ticking
  /\ ThreadID > Len(scriptThreadList)
  /\ phase' = "between"
  /\ ThreadID' = 0
  /\ UNCHANGED <<remote, state, lists, loaded, life, turn, requests>>

TicksDone ==
  /\ Ticking
  /\ ThreadID = 0
  /\ phase' = "drawing"
  /\ UNCHANGED <<remote, state, lists, loaded, life, ThreadID, turn, requests>>

\* Faulty variant: CheckState does not look whether scripts are left.
DrawWithoutCount ==
  /\ remote
  /\ call = "none"
  /\ phase \in {"drawing", "between"}
  /\ phase' = "between"
  /\ IF pState = "Aborting"
     THEN Terminated /\ UNCHANGED scriptList
     ELSE /\ \E bad \in SUBSET Elements(scriptList) :
               /\ bad # {} => pState = "Running" /\ "draws badly" \in Behaviours
               /\ scriptList' = WithoutAll(scriptList, bad)
          /\ UNCHANGED <<state, scriptThreadList>>
  /\ UNCHANGED <<remote, loaded, life, ThreadID, turn, requests>>

\* PerFrameScriptDrawing ends the Tick; PerFrameDrawing comes with a Draw of
\* its own.  Both check the state first, then call the handlers of every
\* script; one that throws goes off scriptList, and its thread lives on.
PerFrameDrawing ==
  /\ remote
  /\ call = "none"
  /\ phase \in {"drawing", "between"}
  /\ phase' = "between"
  /\ IF pState = "Aborting" /\ scriptList = <<>>
     THEN Terminated /\ UNCHANGED scriptList
     ELSE /\ \E bad \in SUBSET Elements(scriptList) :
               /\ bad # {} => pState = "Running" /\ "draws badly" \in Behaviours
               /\ scriptList' = WithoutAll(scriptList, bad)
          /\ UNCHANGED <<state, scriptThreadList>>
  /\ UNCHANGED <<remote, loaded, life, ThreadID, turn, requests>>

-----------------------------------------------------------------------------
(* What the thread that has the turn does with it.                         *)

Has(t) == turn = t /\ t # NoThread /\ call = "none"

\* Faulty variant: the index is decremented twice.
GiveBackTwice ==
  /\ turn' = NoThread
  /\ ThreadID' = ThreadID - 2
  /\ UNCHANGED <<phase, remote, loaded, requests>>

GiveBack ==
  /\ turn' = NoThread
  /\ ThreadID' = ThreadID - 1
  /\ UNCHANGED <<phase, remote, loaded, requests>>

Becomes(t, l) == life' = [life EXCEPT ![t] = l]

Unstarted(t) == life[t] \in {"launched", "constructing"}

\* OnStartup: the constructor of the script, which may wait.
Started(t) ==
  /\ Has(t) /\ Unstarted(t)
  /\ Becomes(t, "running")
  /\ scriptList' = Append(scriptList, t)
  /\ GiveBack
  /\ UNCHANGED <<state, scriptThreadList>>

WaitInConstructor(t) ==
  /\ Has(t) /\ Unstarted(t)
  /\ "waits" \in Behaviours
  /\ Becomes(t, "constructing")
  /\ GiveBack
  /\ UNCHANGED <<state, lists>>

FailInConstructor(t) ==
  /\ Has(t) /\ Unstarted(t)
  /\ "fails" \in Behaviours
  /\ Becomes(t, "dead")
  /\ GiveBack
  /\ UNCHANGED <<state, lists>>

TickDone(t) ==
  /\ Has(t) /\ life[t] = "running"
  /\ GiveBack
  /\ UNCHANGED <<state, lists, life>>

\* ScriptError takes the script off scriptList, and the script aborts itself.
ScriptError(t) ==
  /\ Has(t) /\ life[t] = "running"
  /\ "fails" \in Behaviours
  /\ Becomes(t, "dead")
  /\ scriptList' = Without(scriptList, t)
  /\ GiveBack
  /\ UNCHANGED <<state, scriptThreadList>>

\* Abort of the own thread throws before it can call OnEnd.
AbortSelf(t) ==
  /\ Has(t) /\ life[t] = "running"
  /\ "aborts itself" \in Behaviours
  /\ Becomes(t, "dead")
  /\ GiveBack
  /\ UNCHANGED <<state, lists>>

AbortOther(t, other) ==
  /\ Has(t) /\ life[t] = "running"
  /\ "aborts others" \in Behaviours
  /\ other \in Elements(scriptList) \ {t}
  /\ life[other] = "running"
  /\ Becomes(other, "dead")
  /\ scriptList' = Without(scriptList, other)
  /\ IF scriptList' = <<>> /\ pState = "Aborting"
     THEN Terminated
     ELSE /\ scriptThreadList' = Without(scriptThreadList, other)
          /\ UNCHANGED state
  /\ UNCHANGED <<remote, loaded, frame, requests>>

\* A call that the game executes: then the same INDEX is given the turn.
CallGame(t) ==
  /\ Has(t)
  /\ ThreadID \in DOMAIN scriptThreadList => scriptThreadList[ThreadID] # t
  /\ turn' = NoThread
  /\ UNCHANGED <<remote, state, lists, loaded, life, phase, ThreadID, requests>>

TurnStep(t) ==
  \/ Started(t) \/ WaitInConstructor(t) \/ FailInConstructor(t)
  \/ TickDone(t) \/ ScriptError(t) \/ AbortSelf(t)
  \/ \E other \in Elements(scriptList) : AbortOther(t, other)
  \/ CallGame(t)

ManagerStep == LoadScripts \/ LaunchScriptThreads \/ AbortScripts

FrameStep == \/ BeginTick \/ RunThreadTick \/ TickFails \/ TicksDone
             \/ PerFrameDrawing
             \/ \E t \in Thread : TurnStep(t)

Next ==
  \/ ManagerStep
  \/ \E action \in {"StartScripts", "AbortScripts"} : ConsoleCommand(action)
  \/ ReloadScripts \/ GameReloaded \/ GameTerminated
  \/ FrameStep

\* The player goes on playing: frames come, and the state manager and the
\* thread that has the turn come to an end.
Fairness == WF_vars(ManagerStep) /\ WF_vars(FrameStep)

Spec == Init /\ [][Next]_vars

FairSpec == Spec /\ Fairness

-----------------------------------------------------------------------------

\* The types: launches stay within the requests, and every state of the manager
\* is one of ScriptState.
TypeOK ==
  /\ remote \in BOOLEAN
  /\ pState \in States /\ pAction \in Actions /\ call \in Calls
  /\ scriptTypeList \in SUBSET Types
  /\ scriptList \in Seq(Thread) /\ scriptThreadList \in Seq(Thread)
  /\ life \in [Thread -> {"none", "launched", "constructing", "running", "dead"}]
  /\ launches \in 0 .. MaxRequests /\ requests \in 0 .. MaxRequests
  /\ phase \in {"between", "entered", "ticking", "drawing"}
  /\ ThreadID \in Nat
  /\ turn \in Thread \cup {NoThread}

Ticked == {t \in Elements(scriptThreadList) : Alive(t)}

\* A script type never runs twice: threads of an earlier launch that live on,
\* unlisted, are not ticked beside those of the next one.
OneTickedPerType == \A t, u \in Ticked : t[1] = u[1] => t = u

\* What can be aborted is also ticked: a listed script that is alive but not
\* ticked would never end and hold up every later start.
ListedAreTicked ==
  \A t \in Elements(scriptList) : Alive(t) => t \in Ticked

\* When nothing is running nothing is listed, so the next start is not
\* refused (LaunchScriptThreads).
NothingListedWhenDown ==
  call = "none" /\ pState \notin {"Running", "Aborting"} => scriptList = <<>>

\* An action that was asked for is not forgotten: it waits only while the
\* scripts are being aborted.
OnlyAbortingWaits ==
  call = "none" /\ pAction # "Idle" => pState = "Aborting"

\* When every script is past its constructor and none has aborted itself,
\* an abort ends: the listed scripts all go, whatever their order.
CleanAbortEnds ==
  /\ call = "AbortScripts"
  /\ \A t \in Ticked : ~Unstarted(t)
  /\ \A t \in Elements(scriptList) : Alive(t)
  ~> pState \in {"Aborted", "Empty"}

\* "Start scripts again if they were aborted earlier": an abort that finds no
\* script alive ends, and the scripts can be started again.
AbortedScriptsCanStart ==
  call = "AbortScripts" /\ Ticked = {} ~> pState \in {"Aborted", "Empty"}

=============================================================================
