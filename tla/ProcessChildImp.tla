---------------------------- MODULE ProcessChildImp ----------------------------
(***************************************************************************)
(* One ProcessChildImp (childProcessImp.cpp), the ChildProcess the          *)
(* repository implements: it forks the service's processes, watches the     *)
(* start, the heartbeat or the watchdog of the service with timers, tells   *)
(* it to stop and escalates to SIGKILL, and is told when a process of its   *)
(* pid has been reaped.                                                     *)
(*                                                                         *)
(* A service that has a control socket (NOTIFY, heartbeat or watchdog) is   *)
(* forked by forkProcessAndExecWithSocket, whose pid the constructor        *)
(* discards; only such a service without heartbeat and watchdog is forked   *)
(* again by forkProcessAndExec, whose pid it keeps.  For every other        *)
(* service the member pid is never initialized.                             *)
(*                                                                         *)
(* As in ProcessServiceManager, a step is one handler of the io_context,    *)
(* one call of the owner, or one event of the world, except that the        *)
(* handler of SIGCHLD takes one step per system call: between the waitpid() *)
(* that reaps the process and the kill() of processTerminated() the kernel  *)
(* may give the process number to somebody else.  fork() is assumed to      *)
(* succeed.                                                                 *)
(***************************************************************************)
EXTENDS Naturals, Sequences, FiniteSets, SequencesExt

CONSTANTS Threshold,  \* failureThreshold of the heartbeat
          MaxStops    \* bound: how often the owner calls startTerminating()

ASSUME BoundsAssumption == Threshold \in Nat \ {0} /\ MaxStops \in Nat

VARIABLES
  life,      \* "unborn", "alive", "destroyed", or "crashed" by a use after free
  service,   \* the ProcessService of the child
  state,     \* ProcessState; "NULL" before the construction
  pid,       \* what the member pid holds: "own", 0, or "garbage" (uninitialized)
  pc,        \* what init executes: its "loop"; its "signal" handler, to call
             \* waitpid(); or, the process being "reaped", processTerminated()
  running,   \* the processes of the service that run
  doomed,    \* those that were sent SIGKILL
  exitOk,    \* own exited with status 0 or by the SIGTERM it was sent
  zombies,   \* the processes that exited and are not reaped
  recycled,  \* the number of own, and of its group, is that of a stranger now
  stray,     \* history: who has sent a signal to the stranger
  armed,     \* the timers that wait to expire
  reading,   \* an async_read of the control socket is outstanding
  unackedHeartbeatCount,
  queue,     \* the handlers ready to run, oldest first
  stops      \* how many of the owner's bounded calls were made

processes == <<running, doomed, exitOk, zombies>>
kernel    == <<processes, recycled, stray>>
object    == <<service, pid, armed, reading, unackedHeartbeatCount>>
vars      == <<life, state, object, kernel, pc, queue, stops>>

\* Forked with the control socket; forked without; and what own forks, which
\* stays in its process group.
Process == {"socket", "own", "worker"}
Timer   == {"start", "heartbeat", "watchdog", "stop"}
Handler == Timer \cup {"report", "read", "sigchld"}
Caller  == {"startTerminating", "timeout", "destructor", "processTerminated", "dangling"}
Service == [notify : BOOLEAN, monitor : {"none", "heartbeat", "watchdog"}]
ProcessState == {"STARTING", "RUNNING", "TERMINATING", "KILLING", "DEAD", "EXPECTDEAD"}

\* The service is given a control socket (the condition of line 41).
HasSocket(svc) == svc.notify \/ svc.monitor # "none"
\* The service's pid is kept (the innermost branch, line 80).
HasPid(svc) == svc.notify /\ svc.monitor = "none"

Init ==
  /\ life = "unborn"
  /\ service \in Service
  /\ state = "NULL"
  /\ pid = "garbage"
  /\ pc = "loop"
  /\ running = {} /\ doomed = {} /\ exitOk = FALSE /\ zombies = {}
  /\ recycled = FALSE /\ stray = {}
  /\ armed = {}
  /\ reading = FALSE
  /\ unackedHeartbeatCount = 0
  /\ queue = << >>
  /\ stops = 0

-----------------------------------------------------------------------------
\* setProcessState(): the report reads the member when it runs.
SetProcessState(st, q) == state' = st /\ queue' = Append(q, "report")

\* kill(pid, ...) is called by who.  A garbage pid is no process of the child; 0 is
\* init's own process group, where PID 1 is alone and immune.
Signals(who) == stray' = stray \cup (IF pid = "own" /\ recycled THEN {who} ELSE {})

\* kill(pid, SIGKILL) of the timeouts: the process, not its group.
SigKill ==
  /\ doomed' = doomed \cup (IF pid = "own" THEN running \cap {"own"} ELSE {})
  /\ Signals("timeout")

\* kill(-pid, SIGKILL): the process and its group.
Group == {"own", "worker"}
SigKillGroup(who) ==
  /\ doomed' = doomed \cup (IF pid = "own" THEN running \cap Group ELSE {})
  /\ Signals(who)

\* The constructor.  (The watchdog of a NOTIFY service is never started.)
Construct ==
  /\ life = "unborn"
  /\ life' = "alive"
  /\ running' = (IF HasSocket(service) THEN {"socket"} ELSE {})
                \cup (IF HasPid(service) THEN {"own"} ELSE {})
  /\ pid' \in IF HasPid(service) THEN {"own"} ELSE {"garbage", "zero"}
  /\ armed' = (IF service.notify THEN {"start"} ELSE {})
              \cup (IF service.monitor = "heartbeat" THEN {"heartbeat"} ELSE {})
              \cup (IF service.monitor = "watchdog" /\ ~service.notify THEN {"watchdog"} ELSE {})
  /\ reading' = HasSocket(service)
  /\ SetProcessState(IF service.notify THEN "STARTING" ELSE "RUNNING", queue)
  /\ UNCHANGED <<service, doomed, exitOk, zombies, recycled, stray, pc, unackedHeartbeatCount, stops>>

\* The destructor: timers are cancelled, the process group is killed and the
\* process waited for.
\* The handlers that are queued keep their pointer to the object.
Destroy ==
  /\ life = "alive"
  /\ life' = "destroyed"
  /\ armed' = {}
  /\ reading' = FALSE
  /\ LET gone == IF pid = "own" THEN {"own"} ELSE {}
     IN  /\ running' = running \ gone /\ zombies' = zombies \ gone
         /\ doomed' = (doomed \ gone) \cup (IF pid = "own" THEN running \cap {"worker"} ELSE {})
  /\ Signals("destructor")
  /\ UNCHANGED <<service, state, pid, exitOk, recycled, pc, unackedHeartbeatCount, queue, stops>>

\* startTerminating(): SIGTERM, and a stop timer in the place of the one there
\* may be.  stopTimeout stays 0, so the timer is due at once.
StartTerminating ==
  /\ life = "alive"
  /\ stops < MaxStops
  /\ stops' = stops + 1
  /\ armed' = (armed \ {"start"}) \cup {"stop"}
  /\ SetProcessState("TERMINATING", queue)
  /\ Signals("startTerminating")
  /\ UNCHANGED <<life, service, pid, reading, unackedHeartbeatCount, processes, recycled, pc>>

Owner == pc = "loop" /\ (Construct \/ Destroy \/ StartTerminating)

-----------------------------------------------------------------------------
(* The world.                                                              *)

\* The service writes to its control socket.
ServiceWrites ==
  /\ pc = "loop" /\ "socket" \in running /\ reading
  /\ reading' = FALSE
  /\ queue' = Append(queue, "read")
  /\ UNCHANGED <<life, state, service, pid, armed, unackedHeartbeatCount, kernel, pc, stops>>

\* The process forks; the new one is a member of its group.
OwnForks ==
  /\ "own" \in running \ doomed /\ "worker" \notin running \cup zombies
  /\ running' = running \cup {"worker"}
  /\ UNCHANGED <<life, state, object, doomed, exitOk, zombies, recycled, stray, pc, queue, stops>>

\* It leaves the group, or exits and is reaped by its parent.
WorkerLeaves ==
  /\ "worker" \in running \ doomed
  /\ running' = running \ {"worker"}
  /\ UNCHANGED <<life, state, object, doomed, exitOk, zombies, recycled, stray, pc, queue, stops>>

\* A process exits, by itself or by a signal; a SIGKILLed one never exits well.
\* An orphan becomes a zombie of init's.  SIGCHLDs that arrive while one is pending
\* are merged.
ProcessExits(p) ==
  /\ p \in running
  /\ p = "worker" => "own" \notin running
  /\ running' = running \ {p}
  /\ doomed' = doomed \ {p}
  /\ zombies' = zombies \cup {p}
  /\ \E ok \in BOOLEAN : /\ p \in doomed => ~ok
                         /\ exitOk' = IF p = "own" THEN ok ELSE exitOk
  /\ queue' = IF Contains(queue, "sigchld") THEN queue ELSE Append(queue, "sigchld")
  /\ UNCHANGED <<life, state, object, recycled, stray, pc, stops>>

\* A process number is given away again when no process, zombie or group has it.
NumberRecycled ==
  /\ life # "unborn" /\ HasPid(service) /\ ~recycled
  /\ (running \cup zombies) \cap Group = {}
  /\ recycled' = TRUE
  /\ UNCHANGED <<life, state, object, processes, stray, pc, queue, stops>>

TimerExpires(t) ==
  /\ pc = "loop" /\ t \in armed
  /\ armed' = armed \ {t}
  /\ queue' = Append(queue, t)
  /\ UNCHANGED <<life, state, service, pid, reading, unackedHeartbeatCount, kernel, pc, stops>>

\* Timers and sockets are looked at between two handlers.
Reactor == ServiceWrites \/ \E t \in Timer : TimerExpires(t)

World == OwnForks \/ WorkerLeaves \/ NumberRecycled \/ \E p \in Process : ProcessExits(p)

-----------------------------------------------------------------------------
(* The handlers.  Each runs at the head of the queue.  A timer that is       *)
(* reset after it expired does not take back its handler.                   *)

Running(handler) == pc = "loop" /\ life = "alive" /\ queue # << >> /\ Head(queue) = handler

\* The owner's callback runs.
ReportHandler ==
  /\ Running("report")
  /\ queue' = Tail(queue)
  /\ UNCHANGED <<life, state, object, kernel, pc, stops>>

\* handleRead() does nothing, and the socket is not read again.
HandleRead ==
  /\ Running("read")
  /\ queue' = Tail(queue)
  /\ UNCHANGED <<life, state, object, kernel, pc, stops>>

\* startTimeoutHandler() and watchdogTimeoutHandle() both kill the process.
KillingTimeoutHandler ==
  /\ Running("start") \/ Running("watchdog")
  /\ SigKill
  /\ SetProcessState("KILLING", Tail(queue))
  /\ UNCHANGED <<life, object, running, exitOk, zombies, recycled, pc, stops>>

\* BUG: one heartbeat more than the threshold goes unanswered.
HeartBeatOffByOne ==
  /\ Running("heartbeat")
  /\ unackedHeartbeatCount' = unackedHeartbeatCount + 1
  /\ \/ /\ unackedHeartbeatCount' <= Threshold
        /\ armed' = armed \cup {"heartbeat"}
        /\ queue' = Tail(queue)
        /\ UNCHANGED <<state, doomed, stray>>
     \/ /\ unackedHeartbeatCount' > Threshold
        /\ SigKill
        /\ SetProcessState("KILLING", Tail(queue))
        /\ UNCHANGED armed
  /\ UNCHANGED <<life, service, pid, reading, running, exitOk, zombies, recycled, pc, stops>>

\* BUG: the heartbeat is not timed again.
HeartBeatNotTimedAgain ==
  /\ Running("heartbeat")
  /\ unackedHeartbeatCount' = unackedHeartbeatCount + 1
  /\ \/ /\ unackedHeartbeatCount' < Threshold
        /\ queue' = Tail(queue)
        /\ UNCHANGED <<state, doomed, stray>>
     \/ /\ unackedHeartbeatCount' >= Threshold
        /\ SigKill
        /\ SetProcessState("KILLING", Tail(queue))
  /\ UNCHANGED <<life, service, pid, armed, reading, running, exitOk, zombies, recycled, pc, stops>>

\* heartBeatTimeoutHandle(): nothing ever acknowledges a heartbeat.
HeartBeatTimeoutHandle ==
  /\ Running("heartbeat")
  /\ unackedHeartbeatCount' = unackedHeartbeatCount + 1
  /\ \/ /\ unackedHeartbeatCount' < Threshold
        /\ armed' = armed \cup {"heartbeat"}
        /\ queue' = Tail(queue)
        /\ UNCHANGED <<state, doomed, stray>>
     \/ /\ unackedHeartbeatCount' >= Threshold
        /\ SigKill
        /\ SetProcessState("KILLING", Tail(queue))
        /\ UNCHANGED armed
  /\ UNCHANGED <<life, service, pid, reading, running, exitOk, zombies, recycled, pc, stops>>

\* BUG: the process is not killed.
StopTimeoutOnlyReports ==
  /\ Running("stop")
  /\ SetProcessState("KILLING", Tail(queue))
  /\ UNCHANGED <<life, object, kernel, pc, stops>>

\* stopTimeoutHandler()
StopTimeoutHandler ==
  /\ Running("stop")
  /\ SigKill
  /\ SetProcessState("KILLING", Tail(queue))
  /\ UNCHANGED <<life, object, running, exitOk, zombies, recycled, pc, stops>>

\* BUG: a clean exit is expected of a child that was not told to stop.
AnyCleanExitReported ==
  \/ exitOk /\ SetProcessState("EXPECTDEAD", queue)
  \/ ~exitOk /\ UNCHANGED <<queue, state>>

\* The end of processTerminated(): only an expected death changes the state and is
\* reported; any other one leaves the child in the state it was in.
DeathReported ==
  \/ state = "TERMINATING" /\ exitOk /\ SetProcessState("EXPECTDEAD", queue)
  \/ ~(state = "TERMINATING" /\ exitOk) /\ UNCHANGED <<queue, state>>

\* BUG: the member pid is kept.
ProcessTerminatedKeepsPid ==
  /\ pc = "reaped"
  /\ pc' = "signal"
  /\ armed' = {}
  /\ SigKillGroup("processTerminated")
  /\ DeathReported
  /\ UNCHANGED <<life, service, pid, reading, unackedHeartbeatCount, running, exitOk, zombies,
                 recycled, stops>>

\* BUG: the process group of the dead process is left alone.
ProcessTerminatedSparesGroup ==
  /\ pc = "reaped"
  /\ pc' = "signal"
  /\ armed' = {} /\ pid' = "zero"
  /\ DeathReported
  /\ UNCHANGED <<life, service, reading, unackedHeartbeatCount, processes, recycled, stray, stops>>

\* processTerminated(), of a process that waitpid() has reaped already: the rest
\* of its group is killed.  If there is no such group, the number may be that
\* of a stranger by now.
ProcessTerminated ==
  /\ pc = "reaped"
  /\ pc' = "signal"
  /\ armed' = {} /\ pid' = "zero"
  /\ SigKillGroup("processTerminated")
  /\ DeathReported
  /\ UNCHANGED <<life, service, reading, unackedHeartbeatCount, running, exitOk, zombies,
                 recycled, stops>>

\* kill() may be refused to init (EPERM) when there is somebody to kill; the
\* exception is caught nowhere.
ProcessTerminatedThrows ==
  /\ pc = "reaped"
  /\ "worker" \in running \cup zombies \/ recycled
  /\ life' = "crashed"
  /\ armed' = {} /\ pid' = "zero"
  /\ UNCHANGED <<state, service, reading, unackedHeartbeatCount, kernel, pc, queue, stops>>

\* The manager's signalHandler() begins.
SignalHandler ==
  /\ pc = "loop" /\ life \in {"alive", "destroyed"} /\ queue # << >> /\ Head(queue) = "sigchld"
  /\ pc' = "signal"
  /\ queue' = Tail(queue)
  /\ UNCHANGED <<life, state, object, kernel, stops>>

\* It reaps a zombie, and tells the child whose pid it was; or there is none left.
Waitpid ==
  /\ pc = "signal"
  /\ \/ \E p \in zombies :
          /\ zombies' = zombies \ {p}
          /\ pc' = IF p = "own" /\ pid = "own" /\ life = "alive" THEN "reaped" ELSE "signal"
     \/ zombies = {} /\ pc' = "loop" /\ UNCHANGED zombies
  /\ UNCHANGED <<life, state, object, running, doomed, exitOk, recycled, stray, queue, stops>>

\* A handler of a destroyed child uses freed memory: it may find what the
\* object held, which makes a timeout signal the pid, or crash.
DanglingHandler ==
  /\ pc = "loop" /\ life = "destroyed" /\ queue # << >> /\ Head(queue) # "sigchld"
  /\ \/ /\ queue' = Tail(queue)
        /\ IF Head(queue) \in Timer THEN Signals("dangling") ELSE UNCHANGED stray
        /\ UNCHANGED life
     \/ life' = "crashed" /\ UNCHANGED <<queue, stray>>
  /\ UNCHANGED <<state, object, processes, recycled, pc, stops>>

RunHandler == \/ ReportHandler \/ HandleRead \/ KillingTimeoutHandler
              \/ HeartBeatTimeoutHandle \/ StopTimeoutHandler \/ SignalHandler
              \/ Waitpid \/ ProcessTerminated \/ ProcessTerminatedThrows
              \/ DanglingHandler

Next == life # "crashed" /\ (Owner \/ Reactor \/ World \/ RunHandler)

Spec == Init /\ [][Next]_vars

\* The io_context is run without pause, a timer that is armed expires, and a
\* process that was sent SIGKILL exits.
Fairness ==
  /\ WF_vars(life # "crashed" /\ RunHandler)
  /\ \A t \in Timer : WF_vars(life # "crashed" /\ TimerExpires(t))
  /\ \A p \in Process : WF_vars(life # "crashed" /\ p \in doomed /\ ProcessExits(p))

FairSpec == Spec /\ Fairness

-----------------------------------------------------------------------------
(* What must hold.                                                         *)

Pending(t) == t \in armed \/ Contains(queue, t)
Reports    == Cardinality({i \in DOMAIN queue : queue[i] = "report"})

\* The process whose pid the child held has been reaped.
Reaped == HasPid(service) /\ pid = "zero"

\* Types, and: only a living child has a timer that can expire.
TypeOK ==
  /\ life \in {"unborn", "alive", "destroyed", "crashed"}
  /\ service \in Service
  /\ state \in ProcessState \cup {"NULL"}
  /\ pid \in {"own", "zero", "garbage"}
  /\ pc \in {"loop", "signal", "reaped"}
  /\ running \subseteq Process /\ doomed \subseteq running
  /\ exitOk \in BOOLEAN
  /\ zombies \subseteq Process \ running
  /\ recycled \in BOOLEAN
  /\ stray \subseteq Caller
  /\ armed \subseteq Timer
  /\ reading \in BOOLEAN
  /\ unackedHeartbeatCount \in 0..Threshold
  /\ queue \in Seq(Handler)
  /\ stops \in 0..MaxStops
  /\ life \in {"unborn", "destroyed"} => armed = {} /\ ~reading

\* Signals meet the process of the child or its zombie, never a process that was
\* given the number later, however the timeouts, the exit, its SIGCHLD and the
\* owner's calls are ordered: processTerminated() clears the member (line 170) in
\* the handler that reaps.  Excepted are its own kill() of the group, which
\* follows the reaping (line 171), and what a destroyed child still does; and
\* the number is a stranger's only within that handler.
PidIsHeld ==
  /\ stray \subseteq {"processTerminated", "dangling"}
  /\ life = "alive" /\ pid = "own" /\ recycled => pc = "reaped"

\* The process whose pid the child holds does not outlive the object: the
\* destructor kills it and waits for it (lines 113-125).  Nor is what it has
\* forked into its group left unkilled when it has died, from whatever cause
\* (line 171), or been destroyed.
NoProcessLeftBehind ==
  /\ life = "destroyed" /\ pid = "own" => "own" \notin running \cup zombies
  /\ life # "crashed" /\ (Reaped \/ (life = "destroyed" /\ HasPid(service))) =>
       ("worker" \in running => "worker" \in doomed)

\* Supervision never lapses: until a child is told to stop, is killed or is
\* reaped, the timeout that would find it stuck is armed or due.
SupervisionNeverLapses ==
  life = "alive" /\ state \in {"STARTING", "RUNNING"} /\ ~Reaped =>
    /\ state = "STARTING" => Pending("start")
    /\ service.monitor = "heartbeat" => Pending("heartbeat")
    /\ service.monitor = "watchdog" /\ ~service.notify => Pending("watchdog")

\* Told to stop, the process whose pid the child holds is gone in the end even
\* if it ignores SIGTERM (startTerminating(), stopTimeoutHandler()).
TerminationEscalates ==
  (life = "alive" /\ state = "TERMINATING" /\ "own" \in running) ~> "own" \notin running

\* The child implements the interface its owner relies on.
Lifecycle == INSTANCE ChildLifecycle WITH reports <- Reports
ImplementsLifecycle == Lifecycle!Spec

\* "name: ... started with pid" (line 103), and README:9, the services are
\* started with fork(): once constructed, a child's pid is that of a process
\* that was started for the service.
StartedWithPid ==
  life = "alive" /\ state \in {"STARTING", "RUNNING"} /\ queue = <<"report">> => pid \in running
=============================================================================
