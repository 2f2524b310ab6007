------------------------ MODULE ProcessServiceManager ------------------------
(***************************************************************************)
(* The service manager of containerInitd (ProcessServiceManager.cpp): it   *)
(* launches the configured services in dependency order, reports when all  *)
(* of them run, restarts or gives up on the ones that die, reaps their     *)
(* processes and terminates them.                                          *)
(*                                                                         *)
(* Everything runs on one boost::asio io_context, so the unit of atomicity *)
(* is one handler, and the handlers that are ready to run form a FIFO      *)
(* queue.  A step is one handler, one call the host makes on the manager   *)
(* between two handlers, or one event of the world: a child process that   *)
(* exits, a timer that expires.                                            *)
(*                                                                         *)
(* The children are seen through the interface the manager is written      *)
(* against (childProcess.hpp, injected by the creator of                   *)
(* ProcessServiceManager.hpp:40): a child has a state, changes it on its   *)
(* own, posts a report of every change, and the report carries the state   *)
(* the child has when the report RUNS.  ReportsDeath = FALSE is the one    *)
(* implementation in the repository, which never enters DEAD.              *)
(***************************************************************************)
EXTENDS Naturals, Sequences, FiniteSets, SequencesExt

CONSTANTS Services,      \* the configured service names
          StartAfter,    \* StartAfter[s]: the services s is started after
          Notify,        \* the services of Type NOTIFY (the others are BASIC)
          Critical,      \* the services whose failure action is REBOOT_CONTAINER
          MayFail,       \* the services whose process may fail without being told to stop
          Adopted,       \* orphans init has adopted: processes the manager does not know
          ReportsDeath,  \* whether a child enters DEAD when its process dies unexpectedly
          MaxStarts,     \* bound: how often the host calls start()
          MaxStops       \* bound: how often the host calls startTerminating()

ASSUME ServicesAssumption == IsFiniteSet(Services) /\ Adopted \cap Services = {}
ASSUME GraphAssumption == StartAfter \in [Services -> SUBSET Services]
ASSUME KindsAssumption == /\ Notify \subseteq Services
                          /\ Critical \subseteq Services
                          /\ MayFail \subseteq Services
                          /\ ReportsDeath \in BOOLEAN
ASSUME BoundsAssumption == MaxStarts \in Nat /\ MaxStops \in Nat

VARIABLES
  daemon,                  \* "up", or how the init process ended
  state,                   \* the manager's State
  hasNotifiedStartupReady, \* notifyStartupReadyCb has been called
  terminationNotified,     \* notifyTerminationReadyCb has been called (main.cpp's flag)
  startupMap,              \* startupMap[s]: what s still waits for; {} when s is no key
  started,                 \* the keys of the manager's map of services
  child,                   \* child[s]: the state of s's ChildProcess, "NULL" if there is none
  hasPid,                  \* hasPid[s]: that child has a process it has not seen reaped
  restartTimer,            \* restartTimer[s]: a restart of s is armed
  runningTimestamp,        \* "none", "recent" (under a minute ago) or "old"
  zombies,                 \* processes that exited and are not reaped yet
  queue,                   \* the handlers ready to run, oldest first
  everReady,               \* history: the services reported RUNNING since start()
  starts, stops            \* how many of the host's bounded calls were made

progress == <<state, hasNotifiedStartupReady, startupMap, everReady>>
services == <<started, child, hasPid, restartTimer, runningTimestamp>>
host     == <<starts, stops>>
vars     == <<daemon, progress, terminationNotified, services, zombies, queue, host>>

-----------------------------------------------------------------------------
\* The enumerations of ProcessServiceManager.hpp and childProcess.hpp.
State        == {"STARTING", "RUNNING", "TERMINATING", "TERMINARED"}
ProcessState == {"STARTING", "RUNNING", "TERMINATING", "KILLING", "DEAD", "EXPECTDEAD"}

\* The handlers that can be in the queue.  A "dangling" report is one whose
\* ChildProcess has been destroyed since it was posted: it holds a raw pointer,
\* and `last` is what the freed object held.
StateChange(s)      == [kind |-> "stateChange", name |-> s]
Dangling(s, st)     == [kind |-> "dangling", name |-> s, last |-> st]
RestartTimeout(s)   == [kind |-> "restart", name |-> s]
Sigchld             == [kind |-> "sigchld"]
TerminateWithCleanup == [kind |-> "cleanup"]
NotifyTermination   == [kind |-> "notifyTermination"]

\* Module ReverseTermination posts terminateDependencies.
Handler == [kind : {"stateChange", "restart", "terminateDependencies"}, name : Services]
             \cup [kind : {"dangling"}, name : Services, last : ProcessState \cup {"NULL"}]
             \cup [kind : {"sigchld", "cleanup", "notifyTermination"}]

\* The handlers that report a change of each child of S, in one of the orders
\* in which an unordered_map may be walked.
Reports(S) == {[i \in DOMAIN o |-> StateChange(o[i])] : o \in SetToSeqs(S)}

InitialState(s) == IF s \in Notify THEN "STARTING" ELSE "RUNNING"

\* Destroying the children of S leaves their queued reports pointing nowhere.
MarkDangling(q, S) ==
  [i \in DOMAIN q |-> IF q[i].kind = "stateChange" /\ q[i].name \in S
                      THEN Dangling(q[i].name, child[q[i].name])
                      ELSE q[i]]

-----------------------------------------------------------------------------
(* pruneDependencies erases `name` from every list of the map and returns  *)
(* the services whose list becomes empty by that, which leave the map.     *)

\* BUG: a name is erased from a list only when it is all the list holds.
PruneWholeListsOnly(m, name) == [k \in Services |-> IF m[k] \subseteq {name} THEN {} ELSE m[k]]
\* BUG: a service is launched as soon as one of its dependencies is RUNNING.
FreedByFirst(m, name) == {k \in Services : name \in m[k]}

Prune(m, name) == [k \in Services |-> m[k] \ {name}]
Freed(m, name) == {k \in Services : m[k] # {} /\ m[k] \subseteq {name}}

\* BUG: the services that still wait are not looked at.
LaunchedAreRunning == \A s \in started : child[s] = "RUNNING"

\* checkAllChildProcessesIsRunning(): nothing waits, and every service of the
\* map has a child that runs.
AllChildProcessesRunning ==
  /\ \A s \in Services : startupMap[s] = {}
  /\ \A s \in started : child[s] = "RUNNING"

\* map.insert({s, newChildProcess(s)}) for every s of S, after the handlers q.
\* For a key the map already holds the insertion fails: the new child is
\* destroyed at once and its report dangles.
Launch(S, q) ==
  LET fresh == S \ started
  IN  /\ started' = started \cup S
      /\ child' = [s \in Services |-> IF s \in fresh THEN InitialState(s) ELSE child[s]]
      /\ hasPid' = [s \in Services |-> s \in fresh \/ hasPid[s]]
      /\ \E o \in SetToSeqs(S) :
           queue' = q \o [i \in DOMAIN o |-> IF o[i] \in fresh
                                             THEN StateChange(o[i])
                                             ELSE Dangling(o[i], InitialState(o[i]))]

Init ==
  /\ daemon = "up"
  /\ state = "TERMINATING"
  /\ hasNotifiedStartupReady = FALSE
  /\ terminationNotified = FALSE
  /\ startupMap = [s \in Services |-> {}]
  /\ started = {}
  /\ child = [s \in Services |-> "NULL"]
  /\ hasPid = [s \in Services |-> FALSE]
  /\ restartTimer = [s \in Services |-> FALSE]
  /\ runningTimestamp = [s \in Services |-> "none"]
  /\ zombies = {}
  /\ queue = << >>
  /\ everReady = {}
  /\ starts = 0
  /\ stops = 0

-----------------------------------------------------------------------------
(* The calls of the host.                                                  *)

\* start(): launches the services that wait for nothing.
Start ==
  /\ state \notin {"STARTING", "RUNNING"}
  /\ starts < MaxStarts
  /\ starts' = starts + 1
  /\ startupMap' = StartAfter
  /\ everReady' = {}
  /\ Launch({s \in Services : StartAfter[s] = {}}, queue)
  /\ state' = IF Services = {} THEN "RUNNING" ELSE "STARTING"
  /\ hasNotifiedStartupReady' = (hasNotifiedStartupReady \/ Services = {})
  /\ UNCHANGED <<daemon, terminationNotified, restartTimer, runningTimestamp, zombies, stops>>

\* BUG: armed restarts survive the clearing of the map.
MapClearKeepsTimers(q) ==
  /\ started' = {}
  /\ child' = [s \in Services |-> "NULL"]
  /\ hasPid' = [s \in Services |-> FALSE]
  /\ runningTimestamp' = [s \in Services |-> "none"]
  /\ zombies' = zombies \ Services
  /\ queue' = MarkDangling(queue, Services) \o q
  /\ UNCHANGED restartTimer

\* map.clear(): every child is destroyed, its process group killed and its
\* process waited for; armed timers are cancelled.  q is what else is posted.
MapClear(q) ==
  /\ started' = {}
  /\ child' = [s \in Services |-> "NULL"]
  /\ hasPid' = [s \in Services |-> FALSE]
  /\ restartTimer' = [s \in Services |-> FALSE]
  /\ runningTimestamp' = [s \in Services |-> "none"]
  /\ zombies' = zombies \ Services
  /\ queue' = MarkDangling(queue, Services) \o q

\* BUG: the termination is not reported.
ForceTerminateSilently ==
  /\ state # "TERMINARED"
  /\ state' = "TERMINARED"
  /\ MapClear(<< >>)
  /\ UNCHANGED <<daemon, hasNotifiedStartupReady, startupMap, everReady,
                 terminationNotified, starts>>

\* forceTerminateAndNotifyTerminationReadyCb()
ForceTerminate ==
  /\ state # "TERMINARED"
  /\ state' = "TERMINARED"
  /\ MapClear(<<NotifyTermination>>)
  /\ UNCHANGED <<daemon, hasNotifiedStartupReady, startupMap, everReady,
                 terminationNotified, starts>>

\* startTerminating() while the services are still being started gives up on
\* an orderly termination.
StartTerminatingWhileStarting ==
  /\ state = "STARTING"
  /\ stops < MaxStops
  /\ stops' = stops + 1
  /\ ForceTerminate

\* startTerminating() otherwise: restarts are cancelled, every child is told to
\* terminate, and only when there is no child at all is the manager terminated.
\* (When state is TERMINATING the call returns at once.)
StartTerminating ==
  /\ state \in {"RUNNING", "TERMINARED"}
  /\ stops < MaxStops
  /\ stops' = stops + 1
  /\ restartTimer' = [s \in Services |-> FALSE]
  /\ LET present == {s \in started : child[s] # "NULL"}
     IN  /\ child' = [s \in Services |-> IF s \in present THEN "TERMINATING" ELSE child[s]]
         /\ \E reports \in Reports(present) :
              queue' = queue \o reports
                             \o (IF present = {} THEN <<NotifyTermination>> ELSE << >>)
         /\ state' = IF present = {} THEN "TERMINARED" ELSE state
  /\ UNCHANGED <<daemon, hasNotifiedStartupReady, startupMap, everReady, terminationNotified,
                 started, hasPid, runningTimestamp, zombies, starts>>

HostForceTerminate == ForceTerminate /\ UNCHANGED stops

Host == Start \/ StartTerminatingWhileStarting \/ StartTerminating \/ HostForceTerminate

-----------------------------------------------------------------------------
(* The children and the world.                                             *)

\* Child s enters the state st on its own and posts the report of it.
SetProcessState(s, st) ==
  /\ child' = [child EXCEPT ![s] = st]
  /\ queue' = Append(queue, StateChange(s))
  /\ UNCHANGED <<daemon, progress, terminationNotified, started, hasPid, restartTimer,
                 runningTimestamp, zombies, host>>

\* BUG: the change is not reported.
ChildReadySilently(s) ==
  /\ child[s] = "STARTING" /\ hasPid[s]
  /\ child' = [child EXCEPT ![s] = "RUNNING"]
  /\ UNCHANGED <<daemon, progress, terminationNotified, started, hasPid, restartTimer,
                 runningTimestamp, zombies, queue, host>>

\* A NOTIFY child says it is ready.
ChildReady(s) == child[s] = "STARTING" /\ hasPid[s] /\ SetProcessState(s, "RUNNING")

\* A start, heartbeat or watchdog timeout of the child, or the timeout of its
\* termination: it is sent SIGKILL.
ChildTimeout(s) ==
  /\ \/ child[s] \in {"STARTING", "RUNNING"} /\ hasPid[s] /\ s \in MayFail
     \/ child[s] = "TERMINATING"
  /\ SetProcessState(s, "KILLING")

\* A process exits; SIGCHLDs that arrive while one is pending are merged.
Exits(p) ==
  /\ zombies' = zombies \cup {p}
  /\ queue' = IF Contains(queue, Sigchld) THEN queue ELSE Append(queue, Sigchld)
  /\ UNCHANGED <<daemon, progress, terminationNotified, services, host>>

ChildExit(s) ==
  /\ hasPid[s] /\ s \notin zombies
  /\ s \in MayFail \/ child[s] \in {"TERMINATING", "KILLING"}
  /\ Exits(s)

AdoptedExit(p) == p \notin zombies /\ Exits(p)

\* The 300 ms of a restart pass.
RestartTimerExpires(s) ==
  /\ restartTimer[s]
  /\ restartTimer' = [restartTimer EXCEPT ![s] = FALSE]
  /\ queue' = Append(queue, RestartTimeout(s))
  /\ UNCHANGED <<daemon, progress, terminationNotified, started, child, hasPid,
                 runningTimestamp, zombies, host>>

\* A minute passes since s became ready.
MinutePasses(s) ==
  /\ runningTimestamp[s] = "recent"
  /\ runningTimestamp' = [runningTimestamp EXCEPT ![s] = "old"]
  /\ UNCHANGED <<daemon, progress, terminationNotified, started, child, hasPid,
                 restartTimer, zombies, queue, host>>

World ==
  \/ \E s \in Services : \/ ChildReady(s) \/ ChildTimeout(s) \/ ChildExit(s)
                         \/ RestartTimerExpires(s) \/ MinutePasses(s)
  \/ \E p \in Adopted : AdoptedExit(p)

-----------------------------------------------------------------------------
(* stateChangeCb(name, st), with q the handlers queued behind this one.    *)

\* The first branch of STARTING: the last child has become ready.
StartupDone(s, st, q) ==
  /\ state = "STARTING" /\ st = "RUNNING" /\ AllChildProcessesRunning
  /\ state' = "RUNNING"
  /\ hasNotifiedStartupReady' = TRUE
  /\ everReady' = everReady \cup {s}
  /\ runningTimestamp' = [runningTimestamp EXCEPT ![s] = "recent"]
  /\ queue' = q
  /\ UNCHANGED <<startupMap, started, child, hasPid, restartTimer, zombies>>

\* Its other branch: the services that waited for s alone are launched.
StartDependents(s, st, q) ==
  /\ state = "STARTING" /\ st = "RUNNING" /\ ~AllChildProcessesRunning
  /\ Launch(Freed(startupMap, s), q)
  /\ runningTimestamp' = [runningTimestamp EXCEPT ![s] = "recent"]
  /\ startupMap' = Prune(startupMap, s)
  /\ everReady' = everReady \cup {s}
  /\ UNCHANGED <<state, hasNotifiedStartupReady, restartTimer, zombies>>

\* While RUNNING a report of RUNNING comes from a restarted child (or from one
\* whose first report was overtaken by the end of the startup).
RememberReady(s, st, q) ==
  /\ state = "RUNNING" /\ st = "RUNNING"
  /\ everReady' = everReady \cup {s}
  /\ runningTimestamp' = [runningTimestamp EXCEPT ![s] = "recent"]
  /\ queue' = q
  /\ UNCHANGED <<state, hasNotifiedStartupReady, startupMap, started, child, hasPid,
                 restartTimer, zombies>>

\* resetServiceAndProcess(): the child is destroyed, and its process with it.
ResetServiceAndProcess(s) ==
  /\ child' = [child EXCEPT ![s] = "NULL"]
  /\ hasPid' = [hasPid EXCEPT ![s] = FALSE]
  /\ zombies' = zombies \ {s}

\* BUG: terminateWithCleanup() takes init for terminated already and returns.
GiveUpSilently(s, st, q) ==
  /\ state \in {"STARTING", "RUNNING"} /\ st = "DEAD"
  /\ s \in Critical \/ runningTimestamp[s] # "old"
  /\ ResetServiceAndProcess(s)
  /\ restartTimer' = [restartTimer EXCEPT ![s] = FALSE]
  /\ queue' = MarkDangling(q, {s})
  /\ UNCHANGED <<progress, started, runningTimestamp>>

\* unexpectedChildProcessDeath(), the branches that give up on the container:
\* the service is critical, was never ready, or was ready for under a minute.
\* (terminateWithCleanup compares where it means to assign: state stays.)
GiveUp(s, st, q) ==
  /\ state \in {"STARTING", "RUNNING"} /\ st = "DEAD"
  /\ s \in Critical \/ runningTimestamp[s] # "old"
  /\ ResetServiceAndProcess(s)
  /\ restartTimer' = [restartTimer EXCEPT ![s] = FALSE]
  /\ queue' = Append(MarkDangling(q, {s}), TerminateWithCleanup)
  /\ UNCHANGED <<progress, started, runningTimestamp>>

\* BUG: the time at which the dead child became ready is kept.
ArmRestartKeepingTimestamp(s, st, q) ==
  /\ state \in {"STARTING", "RUNNING"} /\ st = "DEAD"
  /\ s \notin Critical /\ runningTimestamp[s] = "old"
  /\ ResetServiceAndProcess(s)
  /\ restartTimer' = [restartTimer EXCEPT ![s] = TRUE]
  /\ queue' = MarkDangling(q, {s})
  /\ UNCHANGED <<progress, started, runningTimestamp>>

\* BUG: the failure action of the service is not looked at.
ArmRestartOfAny(s, st, q) ==
  /\ state \in {"STARTING", "RUNNING"} /\ st = "DEAD"
  /\ runningTimestamp[s] = "old"
  /\ ResetServiceAndProcess(s)
  /\ restartTimer' = [restartTimer EXCEPT ![s] = TRUE]
  /\ runningTimestamp' = [runningTimestamp EXCEPT ![s] = "none"]
  /\ queue' = MarkDangling(q, {s})
  /\ UNCHANGED <<progress, started>>

\* BUG: the entry of the dead service is erased from the map.
ArmRestartErasing(s, st, q) ==
  /\ state \in {"STARTING", "RUNNING"} /\ st = "DEAD"
  /\ s \notin Critical /\ runningTimestamp[s] = "old"
  /\ ResetServiceAndProcess(s)
  /\ started' = started \ {s}
  /\ restartTimer' = [restartTimer EXCEPT ![s] = TRUE]
  /\ runningTimestamp' = [runningTimestamp EXCEPT ![s] = "none"]
  /\ queue' = MarkDangling(q, {s})
  /\ UNCHANGED progress

\* Its last branch: a restart is armed.
ArmRestart(s, st, q) ==
  /\ state \in {"STARTING", "RUNNING"} /\ st = "DEAD"
  /\ s \notin Critical /\ runningTimestamp[s] = "old"
  /\ ResetServiceAndProcess(s)
  /\ restartTimer' = [restartTimer EXCEPT ![s] = TRUE]
  /\ runningTimestamp' = [runningTimestamp EXCEPT ![s] = "none"]
  /\ queue' = MarkDangling(q, {s})
  /\ UNCHANGED <<progress, started>>

\* The reports that change nothing.
ReportIgnored(st, q) ==
  /\ state \notin {"STARTING", "RUNNING"} \/ st \notin {"RUNNING", "DEAD"}
  /\ queue' = q
  /\ UNCHANGED <<progress, services, zombies>>

\* The callback looks the service up in the map (getServiceAndProcess).
LooksUp(st) == state \in {"STARTING", "RUNNING"} /\ st \in {"RUNNING", "DEAD"}

StateChangeCb(s, st, q) ==
  /\ LooksUp(st) => s \in started
  /\ \/ StartupDone(s, st, q) \/ StartDependents(s, st, q) \/ RememberReady(s, st, q)
     \/ GiveUp(s, st, q) \/ ArmRestart(s, st, q) \/ ReportIgnored(st, q)
  /\ UNCHANGED <<daemon, terminationNotified, host>>

-----------------------------------------------------------------------------
(* The handlers.  Each runs at the head of the queue.                      *)

Running(kind) == queue # << >> /\ Head(queue).kind = kind

\* A report reads the child's state now, not when it was posted.
ReportHandler ==
  /\ Running("stateChange")
  /\ LET s == Head(queue).name IN StateChangeCb(s, child[s], Tail(queue))

\* A report of a destroyed child: freed memory may still hold its last state ...
StaleReportHandler ==
  /\ Running("dangling")
  /\ StateChangeCb(Head(queue).name, Head(queue).last, Tail(queue))

\* ... or not.  The report of a death destroys the child whose std::function is
\* running, and then reads `name`, which that function owned.
UseAfterFree ==
  /\ \/ Running("dangling")
     \/ /\ Running("stateChange")
        /\ state \in {"STARTING", "RUNNING"} /\ child[Head(queue).name] = "DEAD"
  /\ daemon' = "crashed"
  /\ UNCHANGED <<progress, terminationNotified, services, zombies, queue, host>>

\* BUG: the test of the error code is inverted.
RestartTimeoutReturns ==
  /\ Running("restart")
  /\ queue' = Tail(queue)
  /\ UNCHANGED <<daemon, progress, terminationNotified, services, zombies, host>>

\* restartTimeoutHandler(): a new child replaces what the entry holds.
RestartTimeoutHandler ==
  /\ Running("restart")
  /\ LET s == Head(queue).name
     IN  /\ s \in started
         /\ child' = [child EXCEPT ![s] = InitialState(s)]
         /\ hasPid' = [hasPid EXCEPT ![s] = TRUE]
         /\ zombies' = zombies \ {s}
         /\ queue' = Append(MarkDangling(Tail(queue), {s}), StateChange(s))
  /\ UNCHANGED <<daemon, progress, terminationNotified, started, restartTimer,
                 runningTimestamp, host>>

\* getServiceAndProcess() of a service that is not in the map: abort().
MapCorruption ==
  /\ \/ Running("restart")
     \/ Running("stateChange") /\ LooksUp(child[Head(queue).name])
     \/ Running("dangling") /\ LooksUp(Head(queue).last)
  /\ Head(queue).name \notin started
  /\ daemon' = "aborted"
  /\ UNCHANGED <<progress, terminationNotified, services, zombies, queue, host>>

NullEntries == {s \in started : child[s] = "NULL"}

\* BUG: a clean exit is expected whether the child was told to stop or not.
CleanExitIsExpected(s, exitOk) == IF s \in exitOk THEN "EXPECTDEAD" ELSE "DEAD"

\* processTerminated() of every reaped child; exitOk are those that exited with
\* status 0 or by the signal they were sent.  A child that is not told to stop,
\* or does not stop well, becomes DEAD only if the implementation reports it.
StateAfterExit(s, exitOk) ==
  IF child[s] = "TERMINATING" /\ s \in exitOk THEN "EXPECTDEAD"
  ELSE IF ReportsDeath THEN "DEAD" ELSE child[s]

\* BUG: one waitpid() per SIGCHLD, as if they were never merged.
SignalHandlerReapsOne ==
  /\ Running("sigchld")
  /\ \E p \in zombies : /\ p \in Services /\ zombies' = zombies \ {p}
                        /\ child' = [child EXCEPT ![p] = "DEAD"]
                        /\ hasPid' = [hasPid EXCEPT ![p] = FALSE]
                        /\ queue' = Append(Tail(queue), StateChange(p))
  /\ UNCHANGED <<daemon, progress, terminationNotified, started, restartTimer,
                 runningTimestamp, host>>

\* signalHandler(): waitpid() until nothing is left, handlePid() for each.
\* A pid no entry has is looked for in all of them, NULL ones included.
SignalHandler ==
  /\ Running("sigchld")
  /\ zombies \cap Adopted # {} => NullEntries = {}
  /\ \E exitOk \in SUBSET (zombies \cap Services) :
       LET dead == zombies \cap Services
           reporting == {s \in dead : StateAfterExit(s, exitOk) \in {"DEAD", "EXPECTDEAD"}}
       IN  /\ child' = [s \in Services |->
                          IF s \in dead THEN StateAfterExit(s, exitOk) ELSE child[s]]
           /\ \E reports \in Reports(reporting) : queue' = Tail(queue) \o reports
           /\ hasPid' = [s \in Services |-> hasPid[s] /\ s \notin dead]
  /\ zombies' = {}
  /\ UNCHANGED <<daemon, progress, terminationNotified, started, restartTimer,
                 runningTimestamp, host>>

\* handlePid() dereferences the child of every entry it passes, and the order
\* of the entries is not specified.
NullDereference ==
  /\ Running("sigchld")
  /\ zombies # {} /\ NullEntries # {}
  /\ daemon' = "crashed"
  /\ UNCHANGED <<progress, terminationNotified, services, zombies, queue, host>>

NotifyTerminationHandler ==
  /\ Running("notifyTermination")
  /\ terminationNotified' = TRUE
  /\ queue' = Tail(queue)
  /\ UNCHANGED <<daemon, progress, services, zombies, host>>

\* The posted half of terminateWithCleanup(): map.clear() and exit().
CleanupHandler ==
  /\ Running("cleanup")
  /\ daemon' = "exited"
  /\ MapClear(<< >>)
  /\ UNCHANGED <<progress, terminationNotified, host>>

RunHandler ==
  \/ ReportHandler \/ StaleReportHandler \/ UseAfterFree
  \/ RestartTimeoutHandler \/ MapCorruption
  \/ SignalHandler \/ NullDereference
  \/ NotifyTerminationHandler \/ CleanupHandler

-----------------------------------------------------------------------------
Next == daemon = "up" /\ (Host \/ World \/ RunHandler)

Spec == Init /\ [][Next]_vars

\* The io_context is run without pause and a timer that is armed expires.
LoopFairness ==
  /\ WF_vars(daemon = "up" /\ RunHandler)
  /\ \A s \in Services : WF_vars(daemon = "up" /\ RestartTimerExpires(s))

FairSpec == Spec /\ LoopFairness

\* Beyond it: a service that is being started becomes ready, and one that is
\* told to stop, or killed, exits.  The services decide that, not the manager:
\* it is assumed only where a property is about well-behaved services.
ServiceFairness ==
  \A s \in Services : /\ WF_vars(daemon = "up" /\ ChildReady(s))
                      /\ WF_vars(daemon = "up" /\ child[s] \in {"TERMINATING", "KILLING"}
                                               /\ ChildExit(s))

WellBehavedSpec == FairSpec /\ ServiceFairness

-----------------------------------------------------------------------------
(* What must hold.                                                         *)

\* Types, and ownership: only an entry of the map has a child or an armed timer,
\* and only a child has a process, running or not yet reaped (ServiceAndProcess,
\* ProcessServiceManager.cpp:12).
TypeOK ==
  /\ daemon \in {"up", "exited", "aborted", "crashed"}
  /\ state \in State
  /\ hasNotifiedStartupReady \in BOOLEAN
  /\ terminationNotified \in BOOLEAN
  /\ startupMap \in [Services -> SUBSET Services]
  /\ started \subseteq Services
  /\ child \in [Services -> ProcessState \cup {"NULL"}]
  /\ hasPid \in [Services -> BOOLEAN]
  /\ restartTimer \in [Services -> BOOLEAN]
  /\ runningTimestamp \in [Services -> {"none", "recent", "old"}]
  /\ zombies \subseteq Services \cup Adopted
  /\ queue \in Seq(Handler)
  /\ everReady \subseteq Services
  /\ starts \in 0..MaxStarts
  /\ stops \in 0..MaxStops
  /\ \A s \in Services :
       /\ child[s] # "NULL" \/ restartTimer[s] => s \in started
       /\ hasPid[s] => child[s] # "NULL"
       /\ s \in zombies => hasPid[s]

\* While the first startup lasts and after it, exactly the services whose
\* dependencies have all been RUNNING are started: none too early, none
\* forgotten (start() and pruneDependencies(), README "start in dependency order").
StartOrder ==
  daemon = "up" /\ starts = 1 /\ state \in {"STARTING", "RUNNING"} =>
    started = {s \in Services : StartAfter[s] \subseteq everReady}

\* The startup never stalls with nothing left to wait for: when every service
\* is RUNNING, a report that will find that out is still queued (the end of the
\* startup is only ever looked for in stateChangeCb, line 457).  The first startup
\* is meant: a later one may find entries in the map, whose services it does not
\* launch and who report nothing (line 150).
StartupNotLost ==
  daemon = "up" /\ starts = 1 /\ state = "STARTING" /\ Services # {} /\ AllChildProcessesRunning =>
    \E i \in DOMAIN queue : queue[i].kind = "stateChange"

\* The startup is reported once, and only in a state in which every configured
\* service has been launched and is RUNNING (notifyStartupReady(), line 460).
ReadyMeansAllRunning ==
  [][hasNotifiedStartupReady' # hasNotifiedStartupReady =>
       /\ hasNotifiedStartupReady'
       /\ starts' = 1 => \A s \in Services : s \in started' /\ child'[s] = "RUNNING"]_vars

\* A process that has exited is never forgotten, whoever it belongs to and
\* however its SIGCHLD was merged: the handler that reaps it is queued.
NoZombieForgotten ==
  daemon = "up" /\ zombies # {} => Contains(queue, Sigchld)

\* A restart, armed or due, is the only one of its service and never replaces a
\* live child: every other path that creates a child has to cancel it first.
RestartExclusive ==
  daemon = "up" /\ starts = 1 /\ state # "TERMINARED" =>
    \A s \in Services :
      LET due == {i \in DOMAIN queue : queue[i] = RestartTimeout(s)}
      IN  /\ restartTimer[s] \/ due # {} => child[s] = "NULL"
          /\ Cardinality(due) + (IF restartTimer[s] THEN 1 ELSE 0) <= 1

\* Every handler finds the entry it looks up, however late it runs: init aborts
\* on an unknown name (getServiceAndProcess(), line 423) only after the map has
\* been cleared under the handlers that were queued, by forceTerminate().
AbortOnlyAfterClear ==
  daemon = "aborted" /\ starts = 1 => state = "TERMINARED"

\* An entry without a child, which handlePid() would dereference (line 518), is
\* never left behind: its restart is armed or due, or init is going down because
\* it has given up or has been told to terminate.
NoServiceForgotten ==
  daemon = "up" /\ starts = 1 /\ stops = 0 /\ state # "TERMINARED" =>
    \A s \in NullEntries :
      \/ restartTimer[s]
      \/ \E i \in DOMAIN queue : queue[i] \in {RestartTimeout(s), TerminateWithCleanup}

\* What ends the duty to look after the services.
Over == daemon # "up" \/ state = "TERMINARED"

\* The death of a service is answered: it is restarted unless it is critical, or
\* init gives up and exits (README "restart crashed processes",
\* unexpectedChildProcessDeath(), REBOOT_CONTAINER, line 365).
DeathIsAnswered ==
  \A s \in Services :
    (s \in zombies /\ child[s] # "TERMINATING") ~> ((restartTimer[s] /\ s \notin Critical) \/ Over)

\* A critical service that has lost its process gets no other one as long as it
\* is in the map: not from the reports, restarts and launches that run between
\* its death and the clean-up that was posted for it (lines 365 and 408), nor
\* from a start() that finds it there.
CriticalDeathIsFinal ==
  [][\A s \in Critical : s \in started /\ ~hasPid[s] => ~hasPid'[s]]_vars

\* An armed restart leads to a new child (restartTimeoutHandler()).
RestartHappens ==
  \A s \in Services : restartTimer[s] ~> (child[s] # "NULL" \/ Over)

\* What keeps a startup from going on: a service that may fail has failed.
Failing ==
  \E s \in MayFail : s \in zombies \/ restartTimer[s] \/ child[s] \in {"KILLING", "DEAD"}

\* Every startup goes on until all services run, in whatever order they become
\* ready, unless the host gives up or a service fails again and again; services
\* that do become ready are assumed.
StartupCompletes ==
  ServiceFairness => ((state = "STARTING") ~> (state = "RUNNING" \/ Failing \/ Over))

\* The host is told of the termination, whatever is queued before it.
TerminationIsReported ==
  (state = "TERMINARED") ~> (terminationNotified \/ daemon # "up")

\* README:7 and 26: asked to terminate, init terminates its children gracefully
\* and is done when they are ("all process terminated", line 492).
GracefulTermination ==
  (state = "RUNNING" /\ \E s \in Services : child[s] = "TERMINATING") ~> Over
=============================================================================
