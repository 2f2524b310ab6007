---------------------------- MODULE ChildLifecycle ----------------------------
(***************************************************************************)
(* What an implementation of ChildProcess (childProcess.hpp) promises its   *)
(* owner, the service manager: the child's state never returns to STARTING, *)
(* only a starting child becomes RUNNING, an expected death is the end of a *)
(* termination, and every change of the state is reported by a callback of  *)
(* its own, which runs later and carries the state of that later moment.    *)
(***************************************************************************)
EXTENDS Naturals

VARIABLES life,    \* "unborn", "alive", "destroyed" or "crashed"
          state,   \* ProcessState; "NULL" before the construction
          reports  \* how many posted callbacks have not run

vars == <<life, state, reports>>

ProcessState == {"STARTING", "RUNNING", "TERMINATING", "KILLING", "DEAD", "EXPECTDEAD"}

Init == life = "unborn" /\ state = "NULL" /\ reports = 0

\* The constructor: a NOTIFY child is STARTING until it says that it is ready.
Create ==
  /\ life = "unborn"
  /\ life' = "alive"
  /\ state' \in {"STARTING", "RUNNING"}
  /\ reports' = 1

\* The state is set, to the same value too, and the report of it posted.
SetState ==
  /\ life = "alive"
  /\ \/ state' \in {"TERMINATING", "KILLING", "DEAD"}
     \/ state = "STARTING" /\ state' = "RUNNING"
     \/ state = "TERMINATING" /\ state' = "EXPECTDEAD"
  /\ reports' = reports + 1
  /\ UNCHANGED life

\* The oldest callback runs.
Report ==
  /\ life \in {"alive", "destroyed"}
  /\ reports > 0
  /\ reports' = reports - 1
  /\ UNCHANGED <<life, state>>

Destroy ==
  /\ life = "alive"
  /\ life' = "destroyed"
  /\ UNCHANGED <<state, reports>>

\* A callback of a destroyed child uses what is freed, or processTerminated()
\* throws: nothing happens any more.
Crash ==
  /\ life \in {"alive", "destroyed"}
  /\ life' = "crashed"
  /\ UNCHANGED <<state, reports>>

Next == Create \/ SetState \/ Report \/ Destroy \/ Crash

\* The owner is told of every change while it keeps the child.
Spec == Init /\ [][Next]_vars /\ WF_vars(life = "alive" /\ Report)
=============================================================================
