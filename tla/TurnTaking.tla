----------------------------- MODULE TurnTaking -----------------------------
(***************************************************************************)
(* What the script host promises its scripts: the game's thread and the    *)
(* threads of the scripts take turns.  The game stands still for one       *)
(* thread at a time; only that thread may run its code, and the game goes  *)
(* on only when the thread has stopped again.                              *)
(*                                                                         *)
(* The promise is given for threads that were already waiting for their    *)
(* first turn when they were given one; "raced" records that the game came *)
(* too early for a thread, from when on nothing is promised (NetThread     *)
(* says how that happens).                                                 *)
(***************************************************************************)

CONSTANTS Threads, NoThread

VARIABLES
  standing,   \* the thread the game stands still for, NoThread if it runs
  turn,       \* the threads that run code of their own
  raced       \* a thread was given a turn before it waited for one

vars == <<standing, turn, raced>>

Init ==
  /\ standing = NoThread
  /\ turn = {}
  /\ raced = FALSE

Stand(t) ==
  /\ standing = NoThread
  /\ standing' = t
  /\ UNCHANGED <<turn, raced>>

Start(t) ==
  /\ standing = t
  /\ turn = {}
  /\ turn' = {t}
  /\ UNCHANGED <<standing, raced>>

Stop(t) ==
  /\ turn = {t}
  /\ turn' = {}
  /\ UNCHANGED <<standing, raced>>

GoOn ==
  /\ turn = {}
  /\ standing # NoThread
  /\ standing' = NoThread
  /\ UNCHANGED <<turn, raced>>

Race == raced'

Next ==
  \/ \E t \in Threads : Stand(t) \/ Start(t) \/ Stop(t)
  \/ GoOn
  \/ Race

Spec == Init /\ [][Next]_vars

=============================================================================
