# Verification of containerInitd

TLA+ models of containerInitd, the init process (PID 1) of a container: it
starts the configured services in dependency order, reaps what exits, restarts
or gives up on services that die, and terminates the services. The modules are
translated from the C++ sources in `src/src/daemon` and `src/include`, are
model-checked with TLC on small instances, and the properties that matter most
are proved with TLAPS for every instance.

In this file `PSM` is `src/src/daemon/ProcessServiceManager.cpp`, `CPI` is
`src/src/daemon/childProcessImp.cpp` and `DEP` is
`src/src/daemon/processServiceDependency.cpp`; `FE`, `LO` and `PC` are
`forkProcesAndExec.cpp`, `loggerOutputForwarderImp.cpp` and `parseConfigure.cpp`
in the same directory.

## 1. Inventory

| component | state it keeps | operations | module |
|---|---|---|---|
| `ProcessServiceManager` (PSM) | manager state, map service → (child, restart timer, time of readiness), startup map, terminal map | `start`, `startTerminating`, `forceTerminateAndNotifyTerminationReadyCb`; handlers: a child's report (`stateChangeCb`), a restart timeout, SIGCHLD, posted clean-up and notification; `terminateDependencyServices` | `ProcessServiceManager`, `ReverseTermination` |
| dependency validation (DEP) | the map of dependents, the set of visited services, the trace of a depth-first search | `createServiceDependencyGraph`; `createTerminalDependency` | `DependencyCheck`; `StopAfter` of `ReverseTermination` |
| `ProcessChildImp` (CPI) | `ProcessState`, `pid`, start/heartbeat/watchdog/stop timer, count of unanswered heartbeats, control socket | constructor, destructor, `startTerminating`, `processTerminated`, one handler per timer, `handleRead` | `ProcessChildImp`, `ChildLifecycle` |
| fork and exec (`forkProcesAndExec.cpp`) | none in the parent; kill switch, process group, descriptors in the child | `forkProcessAndExec`, `forkProcessAndExecWithSocket` | `ForkAndExec` |
| exit status (`processExitStatus.cpp`) | none | `isSuccessExit`, `getProcessExitDescription` | `exitOk` in both process modules |
| `LoggerOutputForwarderImp` | a pipe, an asynchronous read, a prefix | constructor, destructor, `handleRead`/`readAll`, `readRemaining`, `write` | `LoggerOutputForwarder`, `LogIntake` |
| duration parser | none | `parseDuration`, `operator>>` | `ParseTimeDuration` |
| configuration parser | the services of a configuration, the logger | `parseConfigureFromDirectory`, `readConfigurationImpl`, `addProcessService` | `ParseConfigure` |
| service description | members, stream operators | `operator>>` of type, action and output | `ParseConfigure` |
| environment, logger prefix | strings | get, set, format | not modelled |
| `main` | – | parses, validates, becomes a subreaper, constructs a manager | `Main` |

How they interact. Everything in the parent runs on one `boost::asio::io_context`:
there are no threads, and a step of the system is one handler. The manager owns
the children and calls them directly; a child calls back only through a handler
it posts (`setProcessState`, CPI:238), which runs later, holds a raw `this`, and
reads the child's state at that later time. Timers post a handler when they
expire; destroying or re-arming a timer cancels it only if it has not expired.
Processes exit at any time; SIGCHLDs that arrive while one is pending are merged.
The host may call the manager between two handlers.

Below the event loop there are processes: between `fork` and `execve` the new
process runs beside init, either may die first, and init's destructor of a child
waits for it. Output goes the other way, through a pipe that init reads in an
asynchronous handler and once more when the service has been reaped, while its
descendants may still write. Before all this `main` turns a directory of JSON
files into the configuration every other part takes for granted.

What is hard here is therefore order: reports, timeouts, SIGCHLDs and the host's
calls meet in one queue in every order, objects die between posting and running,
and each of the manager's decisions relies on state that was set some handlers
ago. The hazards, each at its line with the properties that would catch it, are
listed under `hazards` in `PROJECT.json`.

What makes each component correct:

* the manager – order and completeness of the startup, a true readiness report,
  no lost zombie, one restart at a time, every death answered, every termination
  reported;
* the validation – it ends, and what it accepts is what the manager relies on;
* a child – its timeouts and its owner's calls never signal a process number that
  has been given to somebody else, nothing of the service is left behind, a stuck
  process is found, a termination escalates, every change of state is reported;
* fork and exec – a service gets exactly its descriptors, none outlives init, and
  init never waits for a process nobody has killed;
* the forwarder – what is written is taken from the pipe once, in order, the last
  words of a service included, reading ends, and each message becomes a line of the
  log (which it does not, run `garbled`);
* the parsers and `main` – the manager gets what the files say, and only what the
  other parts can rely on.

## 2. The modules

### ProcessServiceManager

Children are seen through `childProcess.hpp`: a state that changes on its own,
and a report of each change. `ReportsDeath` says whether a child enters `DEAD`
when its process dies unexpectedly, which the interface provides for
(`childProcess.hpp:20`) and the manager handles; `ProcessChildImp` never does
it. The runs use `TRUE` for what the manager is written to do, and `FALSE` for
what the program does with its own child.

| definition | code |
|---|---|
| `Start` | `start`, PSM:134 |
| `StartTerminating`, `StartTerminatingWhileStarting` | `startTerminating` and `checkAndSetTerminatingState`, PSM:220, PSM:288 |
| `ForceTerminate` | PSM:276 |
| `StartupDone`, `StartDependents`, `RememberReady`, `GiveUp`, `ArmRestart`, `ReportIgnored` | the branches of `stateChangeCb`, PSM:444, with `unexpectedChildProcessDeath`, PSM:361, and `pruneDependencies`, PSM:23 |
| `RestartTimeoutHandler` | PSM:416 |
| `SignalHandler` | `signalHandler` and `handlePid`, PSM:514–543 |
| `CleanupHandler`, `NotifyTerminationHandler` | the handlers posted at PSM:410 and PSM:272/285 |
| `MapCorruption` | the `abort` of `getServiceAndProcess`, PSM:185 |
| `NullDereference` | `handlePid` passing an entry without a child, PSM:518 |
| `UseAfterFree`, `StaleReportHandler` | a report of a destroyed child; `resetServiceAndProcess` destroying the callback that runs, PSM:364 |
| `ChildReady`, `ChildTimeout`, `ChildExit`, `AdoptedExit`, `RestartTimerExpires`, `MinutePasses` | the world |

`queue` is the io_context. `daemon` says whether init is `up`, has `exited`,
`aborted` (a failed assertion) or `crashed` (undefined behaviour); nothing
happens after it leaves `up`. Iteration over an `unordered_map` is any order
(`SetToSeqs`). A time stamp is `none`, `recent` (under a minute) or `old`.

Left out: the branch of `stateChangeCb` for the state `TERMINATING`, which cannot
be reached (theorem `TerminatingIsInitialOnly`). The startup graph is an input
(`StartAfter`): it is what `start` takes, and the repository's own
`createServiceDependencyGraph` refuses every acyclic graph with an edge (run
`dag`).

### ReverseTermination

Extends the manager by the `terminalMap` that `start` takes beside the startup
graph. `StopAfter` is the map `createTerminalDependency` (DEP:107) makes, which
nothing calls. `StartTerminatingInReverse` and `TerminateDependenciesHandler` are
PSM:246–274 and PSM:192–218. Both loops read what their earlier iterations changed,
so a step takes a record of the parts they change (`Now`) along the order in which
the map is walked, any order, and makes the result the state (`Commit`). The record
`after[i]` is the one after `i` iterations, in `StopEntries` for the loop over the
services and in `TerminateDependencyServices` for the one inside. `overtaken` is
history, for `StopsInReverse`. All other actions are the manager's.

### DependencyCheck

`Init` picks the configuration; one action per iteration of the first loop
(`ExamineService`), one for `checkAllProcessServiceExist`, and the recursive
search with an explicit stack (`TakeRoot`, `Descend`, `Return`; `Enter` is the
beginning of a call of `detectCycleDFS`). `outcome` is the verdict; an exception
is a verdict too. `Acceptable` says of the graph alone what the verdict amounts
to, so that `VerdictIsOfTheGraph` excludes that it depends on hash order.

### ProcessChildImp and ChildLifecycle

One child with its processes. `service` (NOTIFY or not; heartbeat, watchdog or
neither) is picked by `Init`. `pid` is `own` for the one kind of service whose
pid is kept, and `garbage` or 0 where the constructor leaves it uninitialized.
`running`, `doomed` (sent SIGKILL) and `zombies` are the processes; `worker` is what
`own` forks into its process group. `armed` are
the timers that have not expired; the handlers of those that have are in `queue`.
`kill(0, …)` reaches init's own process group, in which PID 1 is alone (its
children call `setpgrp`) and immune, so it changes nothing in the model.

The handler of SIGCHLD takes one step per system call (`pc`): `Waitpid` reaps, and
`ProcessTerminated` (CPI:162) then clears `pid` and kills the group of a process that
is reaped already (CPI:171). In between the kernel may give the number away
(`recycled`, which takes that no process, zombie or group has it any more), and
`stray` remembers who has signalled the stranger. The kill may also be refused, and
the exception ends init (`ProcessTerminatedThrows`).

The length of a timeout is abstracted: an armed timer may expire at any time
(`stopTimeout` is 0 in the code whatever the configuration says).

`ChildLifecycle` is the interface as a specification: which changes of state a
`ChildProcess` may make, and that every change is reported while the child lives.
`ProcessChildImp` implements it (`ImplementsLifecycle`) with the number of queued
reports as the one mapped variable. The manager ignores every report but RUNNING
and DEAD, so the changes between TERMINATING, KILLING and EXPECTDEAD that the
interface allows and the manager's module does not make (a queued stop timeout
that turns EXPECTDEAD into KILLING) make no difference to it.

This module has no step between `fork` and `execve`: its `kill` finds the process
group of a child that has got past `setpgrp`.

### ForkAndExec

One service whose caller keeps the pid, from before `fork` to the end. A step is
one system call of the new process (`SetKillSwitch` … `Execve`, FE:32–109) or
what init does without waiting; init may die at any time (`InitDies`). `fork` and
`socketpair` may fail, and so may the checked calls of the new process
(`StepFails`). `fd` is the descriptor table of the new process, with close-on-exec;
its numbers are those init has when it constructs a child, up to `MaxFd`. `Destroy`,
`Waitpid` and `WaitpidAny` are the destructor (CPI:113–125), whose `waitpid`
blocks init's only thread; `other` is the service that suffers if it does.

### LoggerOutputForwarder and LogIntake

One forwarder. The pipe carries packets (`O_DIRECT`), so the bytes `FIONREAD`
announces are counted in packets (`due`); a step is one `read`. `readRemaining`
(LO:51) keeps the result of `read` in a `size_t`: a failed read is a message of a
huge length (`RemainingFails`, or `RemainingCrashes`, since a byte outside the
buffer is read) and makes the counter grow. `holders` are the processes with the write
end. `collected` are the messages that `read` has returned, `output` is what last went
out to the descriptor. They are two things: `write` (LO:115) calls `write(2)` with an
array of `iovec` where `writev(2)` is meant (LO:134, LO:137), so that two or three raw
bytes of the array go out (`RawBytes`) instead of the line that the comment of LO:117
describes (`LogLine`), after a failed read as well. `OutputIsTheLog` says what the
comment says, and run `garbled` refutes it.

`LogIntake` is what the writers may rely on: message after message is taken from the
pipe, each once, and none stays there for ever while the forwarder lives. It promises
nothing about what becomes of it. `LoggerOutputForwarder` implements it.

### ParseTimeDuration, ParseConfigure and Main

`ParseTimeDuration` is `parseDuration` on what the code looks at: number, unit,
white space; products wrap. `ParseConfigure` reads a directory picked by `Init`:
`ListFiles` (which may fail half way), `ReadFile`, one step per entry. A malformed
value is one outside the domain of its meaning (`TypeOf`, `DurationOf`, …), which
`get` refuses and `get_optional` takes for absent. `startTimeout` is a sequence of
at most one value, empty where the code leaves the member uninitialized. `Main`
adds the validation (as one step: `IsAccepted`, which `VerdictIsOfTheGraph` of
`DependencyCheck` justifies), `prctl` and the construction of the manager.
`main` returns after that; it calls neither `start` nor `run`, which is why the
host of the manager's module makes the calls.

### MC and proof modules

`MCProcessServiceManager`, `MCReverseTermination`, `MCDependencyCheck` and `MCMain`
define the small instances named in the `.cfg` files; the other modules need only
numbers and names. `*_proofs` hold the theorems; those about the manager are in
`ProcessServiceManager_proofs` and, each built on the one before,
`RestartAndStartup_proofs` and `ReverseTermination_proofs`. An operator that follows a comment
`BUG:` is the form a plausible mistake would give the definition after it; no
specification uses it. `PROJECT.json` pairs each with the property it breaks.

## 3. The runs

| run | question | instance |
|---|---|---|
| `start_order` | order, completeness and truth of the startup (`StartOrder`, `StartupNotLost`, `ReadyMeansAllRunning`, `StartupCompletes`), reaping (`NoZombieForgotten`), when init may abort or be left with an entry without a child (`AbortOnlyAfterClear`, `NoServiceForgotten`), and that every death, restart and termination is answered (`DeathIsAnswered`: by a restart, or, always if the service is critical, by the end of init; `CriticalDeathIsFinal`: until then a critical service gets no other process; `RestartHappens`, `TerminationIsReported`) | c after a and b; c NOTIFY; a critical; a and c may fail; an adopted orphan; 1 start; the host may terminate by force |
| `reverse` | `StopsInReverse`; `RestartExclusive`: is an armed or due restart the only one, never meeting a live child? | b after a, c after a and b; b and c may fail and be restarted; 1 start, 1 stop |
| `dependencies` | `TypeOK`, `AcceptedIsWellFormed`, `NoServiceTwiceOnTrace`, `VerdictIsOfTheGraph`, `ReachesVerdict` | all lists of up to two of three services and an unknown name |
| `child` | `TypeOK`, `PidIsHeld`, `NoProcessLeftBehind`, `SupervisionNeverLapses`, `TerminationEscalates`, `ImplementsLifecycle` | all six kinds of service, threshold 2, 2 termination requests; a worker in the group; a stranger that gets the number |
| `fork` | `TypeOK`, `ServiceHasItsStreams`, `NoServiceOutlivesInit`, `OthersAreReported` | every choice of streams and socket, descriptors up to 14 |
| `output` | `TypeOK`, `LastWordsAreRead`, `ListensWhileOpen`, `ReadingEnds`, `ImplementsIntake`: what is read, not what goes out | a worker in the service's group and a daemon that left it; 3 packets in the pipe, 6 messages |
| `configuration` | `TypeOK`, `ManagerGetsTheConfiguration`, `ManagerCanRelyOnIt` | directories of up to three files with up to two entries about two services, each with at most one optional or malformed value |

Five runs show where the code does something else than the repository says.

| run | what it shows |
|---|---|
| `no_restart` | README:13 promises restarts. `processTerminated` (CPI:192–200) enters no state on an unexpected death, so nobody hears of it. |
| `graceful` | README:7 and :26 promise graceful termination. No code sets the state TERMINATING, so the manager never learns that its children have terminated. |
| `started_pid` | CPI:103 prints "started with pid". A BASIC service is not forked at all; the pid of one with a heartbeat or watchdog is discarded (CPI:41–83). |
| `dag` | README:22 promises the topological order of a DAG. `at()` in DEP:73 throws on every acyclic graph with an edge; what is accepted instead has a cycle, whose message (DEP:32) DEP:68 drops. |
| `garbled` | LO:117–124 describes what `write` is to write: prefix, text, newline. It calls `write(2)` with the array of `iovec` (LO:134, LO:137): two or three bytes of a pointer go out instead of any message. |

Four more deviations are visible in the models without a run of their own. PC:180 says
that a BASIC service needs no start timeout; a NOTIFY service, which does, never gets
the one configured for it, because the assignment is behind the throw and the member
stays uninitialized (PC:176–183; `Service` of `ParseConfigure` leaves it empty).
CPI:171 signals the group of a process that has been reaped, whose number may be
somebody else's; `PidIsHeld` excepts this call by name. The other two are at
the level of the manager, for a child that reports DEAD as the interface
provides: a due restart after `map.clear()` runs into the assertion of PSM:185
(action `MapCorruption`), and a termination in reverse order takes a service without
a process for gone even if its restart is due, or its death not reported yet
(PSM:201, PSM:212, PSM:252). The service is restarted all the same, and the one it
was started after is told to stop while it runs; a chain of three services and one
request to stop suffice. `StopsInReverse` excepts exactly these (`overtaken`).
Today's `ProcessChildImp` hides both, because no child enters DEAD and so no restart
is ever armed (run `no_restart`).

**Bounds.** `MaxStarts` and `MaxStops` bound the host's calls to one each: the
properties of the startup and of the termination are about the first, and the
theorems on types and zombies cover every number of calls; a second start over
leftovers is too large for a run. Three services are needed for one with two
dependencies (`start_order`), and for a cycle
beside or behind another service (`dependencies`). The queue, the number of
restarts and the number of exits need no bound of their own: a child posts
finitely many reports, and restarts reuse the same entries. `reverse` needs a chain of three, so that a service is told to stop by a later walk, after
the end of another one, and so that a service taken for gone too early can be restarted
before the walk reaches the next; that `c` waits for both others makes one walk spare
what the other one frees. A threshold of 2 has a
heartbeat that is re-armed and one that kills. `MaxFd = 14` is the largest
descriptor that two pipes and a socket pair behind the descriptors of init take (13),
plus one that stays free. One worker and one stranger are enough for `child`: the properties ask whether there is
one. `Capacity = 3` and `MaxMessages = 6` let a pipe be full,
be emptied by one reader and fill again before the other. In `MCMain` the largest
number is 1023 and a second has 4 units, so that the defaults of 100 s and 200 s fit
and a configured 300 s overflows; the arithmetic is the same at every width.
`CHECK_DEADLOCK FALSE` is set everywhere because the system may really stop: init
has exited, or it idles with nothing left to do, or a check has returned.

**Fairness.** `LoopFairness`: the host runs the io_context without pause
(otherwise nothing at all works), so a queued handler eventually runs, and an
armed timer expires; timers of the kernel do. In `ProcessChildImp`,
`LoggerOutputForwarder` and `ForkAndExec` the kernel is fair too: a process that
was sent SIGKILL exits, a readable pipe is reported, a new process gets to run up
to `execve`. Services decide whether they become ready and whether they exit when
told to, so `ServiceFairness` is no part of the specification: it is the premise
of `StartupCompletes`, which also excuses a startup in which a service fails, and
`WellBehavedSpec` assumes it in run `graceful` only, where it makes the counterexample
stronger. `ReadingEnds` is stated for processes the kill reaches: one that has left
the group may keep the pipe for ever, and then `readRemaining` does not return.
`OthersAreReported` excepts a destructor that had nothing to kill
(`NothingToKill`), in which init does wait for ever. No fairness is assumed for
the host's calls, failures, or exits.

**Scope of the properties.** Several are conditioned on `daemon = "up"` (nothing
is promised once init has crashed) and some on the first startup (`starts = 1`):
`start` over a map that still has entries is one of the listed hazards and
breaks ordering by itself. `StopsInReverse` is about every request to stop of the
first run of the services.
`ManagerGetsTheConfiguration` excepts a listing of the directory that failed half
way.

## 4. The proofs

All theorems hold for every set of services (finite), every graph, every choice
of failures, and every bound. The only assumptions are the named `ASSUME`s of
the modules: types of the constants, finiteness of the services, adopted
processes are not services, a threshold of at least one (PC:143 enforces it, and
theorem `ManagerRelies` says so of whatever the manager is constructed with). A
directory (`DirectoriesAssumption`) is a sequence of files whose entries are
sequences, with names among `Names`: that many files and entries, of any content,
is all a directory can hold.

* `ProcessServiceManager_proofs`
  * `TypeCorrect`: `TypeOK` is inductive by itself; its last conjunct is the
    ownership of children, timers and processes.
  * `StartsInOrder`, `ReadinessIsTrue`: `StartOrder` is not inductive. `OrderInv`
    adds that what a service still waits for is its list minus the services
    reported ready (so pruning frees exactly those whose last dependency is
    ready), and that before the first start nothing has been started.
    `ReadyMeansAllRunning` follows for the step that reports readiness: nothing
    waits, hence every list is within the ready services, hence by `StartOrder`
    everything is started, and what is started was just seen RUNNING.
  * `ZombiesAreReaped`: a SIGCHLD is queued whenever a process becomes a zombie,
    and only the handler that empties `zombies` takes it out of the queue.
  * `TerminatingIsInitialOnly`: the state TERMINATING has an empty map and queue
    of reports and is never entered again; justifies leaving its branch out.
* `RestartAndStartup_proofs`, about the first run of the services but for the last
  * `RestartsAreExclusive`: `RestartExclusive` counts the restarts of a service and
    is far from inductive. `RestartInv` says what the queue holds per service: a
    report has a child to ask; a report of a destroyed child was made by a death
    that is not made good yet; a restart that is due belongs to an entry with no
    child, no armed timer and no time stamp; and behind a restart there is neither
    another one of its service nor a report of the child it replaces
    (`RestartsLast`). The order matters: a stale report that ran after the restart
    had made a new child would arm a second one.
  * `StartupIsNotLost`: `StartupNotLost` is inductive together with `RestartInv`. A
    handler that consumes the last report while everything runs completes the
    startup; one that does not has just made a child, whose report it posts, and no
    report is lost to a child that has been destroyed.
  * `AbortsOnlyWhenCleared`, `NobodyIsForgotten`: from `RestartInv` the name in a due
    restart is found as long as the map has not been cleared; `LookedAfter` adds that
    every entry without a child has its restart armed or due, or the clean-up queued.
  * `OnlyDeathsBringInitDown`: with children that do not report their death, which is
    what `ProcessChildImp` is, no entry is ever without a child and no report
    outlives its child (`Quiet`), so that each of `MapCorruption`, `NullDereference`,
    `UseAfterFree` and `GiveUp` is impossible until a termination clears the map.
    The hazards at PSM:364, PSM:423 and PSM:518 are real for the interface, and
    out of reach of the program as it is.
  * `CriticalServicesStayDead`, about any number of starts: `NoCriticalRestart` says that
    no restart of a critical service is armed or queued, which every handler that posts,
    marks or consumes keeps. The other way to a process is a launch, and it only gives
    one to services that are new to the map.
* `ReverseTermination_proofs`, about the manager with a `terminalMap`
  * A walk is a recursive function over the positions of an order; what holds of its
    last value is proved with `Iterations`: a set of positions that has 0 and, with
    each one, the next, is all of them. The invariant of both loops is `Walked`: child
    and timer of a service are as they were, or it was told to stop or its timer
    cancelled; everything posted is a report of who was told or a walk for who was
    taken for gone; whoever is not waited for any more was taken for gone.
  * `ServicesStopInReverse`: the step that tells a service to stop comes long after
    those started after it were taken for gone, so it has to be known that they stay
    gone. `GoneStayGone` says of each of them but the `overtaken` that it has no
    process, no armed timer, and nothing in the queue that would give it one. Whoever
    is taken for gone has no process (no child, or a `DEAD` one) and its timer is
    cancelled in the same step; `TimerAlone` says that a restart which is
    armed is not due as well and has no child to meet, and holds even when the map is
    cleared and `RestartInv` says nothing of timers.
  * `RestartsAreExclusiveInReverse`: a walk keeps `RestartInv`, because it only
    cancels timers and tells children that exist.
* `DependencyCheck_proofs`: `SearchInv` relates the stack to the map of
  dependents – a caller's service has the callee among its dependents, a service
  whose search returned without an exception has only visited dependents – from
  which `AcceptedGraphsAreWellFormed`, `RecursionIsBounded`, and
  `OnlyCyclicGraphsAreAccepted`: what the code does is the opposite of what it is
  for. `VerdictInv` adds that the roots and whatever the search has
  still to descend to are taken from the map of dependents, and that no exception has
  been thrown for a graph that is acceptable; with it `VerdictDependsOnTheGraph`.
* `ProcessChildImp_proofs`
  * `TypeCorrect`: that `unackedHeartbeatCount` stays within the threshold needs
    `HeartbeatOnce`: the heartbeat timeout is armed or due at most once, and not
    at all at the threshold.
  * `SignalsReachTheChild`, `DestructorReaps`: `PidFollowsProcess` says that the member
    holds the number of a process that runs or is a zombie, but for the moment between
    `waitpid` and the clearing of the member, and `RecycledWhenUnused` that the number is
    given away only when the whole group is gone. So no stranger has it while init is in
    its loop (`NoStrangerInTheLoop`), where the timeouts and the owner's calls are. What
    CPI:171 does is in the model and is excepted by name: the theorem is not about it.
  * `StuckChildrenAreFound`: each handler either keeps the timer armed or due, or
    ends the need for it; per action from lemma `SupervisionKept`.
  * `ChildImplementsLifecycle`: every step is one of `ChildLifecycle` or a stutter. The
    mapped variable is the number of queued reports, so the lemmas are about the
    cardinality of a set of positions under `Append` and `Tail`.
* `ForkAndExec_proofs`
  * `ServicesDieWithInit`: `Orphaned` follows the new process through the window:
    once init is dead it is dead too, or has not looked at its parent yet.
  * `WaitIsForTheKilled`: `Awaited` relates the process group to the step the new
    process is at, so that a kill after `setpgrp` reached it.
  * `StreamsAreInPlace`: `FilesInv` follows the descriptor table through the moves:
    at each step, which are at their numbers already and which still are where init
    opened them (`Moved`), and that every other one closes on `execve`
    (`OthersClose`). No move overwrites what is still to be moved, because init opens
    the descriptors it passes on above all the numbers they are moved to (`Passed`).
  * `TypeCorrect`, with the invariant above and `RestTyped`.
* `LoggerOutputForwarder_proofs`: `ForwarderInv` says that the messages read and
  those in the pipe are together 1 to `written`, what `readRemaining` still counts on
  is in the pipe, and a read is outstanding unless init is reading. From it
  `LastWords`, `NobodyIsIgnored`, `TypeCorrect` and `ForwarderImplementsIntake` (every
  step is one of `LogIntake` or a stutter: a failed read, though `write` is called,
  takes nothing from the pipe). None of them is about what goes out.
* `Main_proofs`: `ManagerRelies` from `Parsed` (every service comes from a tree that
  was accepted) and `Validated` (nothing changes between the validation and the
  construction), and from the arithmetic of durations (`DurationIsPositive`).
  `ConfigurationReachesTheManager` from `Progress`: what has been read is exactly what
  is not left (`LeftAfter`, `EntriesAfter`), the files left are in order, and each
  service read so far comes from the first place that names it (`ReadUpTo`). The sorted
  list is described by what it is (`SortedFiles`), not computed, so that no induction
  is needed. `TypeCorrect` from `Typed`.

Only model-checked: every liveness property (`DeathIsAnswered`,
`RestartHappens`, `TerminationIsReported`,
`StartupCompletes`, `ReachesVerdict`, `TerminationEscalates`, `OthersAreReported`,
`ReadingEnds`, and what `ImplementsIntake` and `ImplementsLifecycle` say beyond their
steps), which is out of the prover's reach. Every state invariant and every action
property of the runs is a theorem, `RestartExclusive` with and without a `terminalMap`.

## 5. What is not modelled, and why

* The environment (`environment.cpp`): `addProcessService` fills one and drops it
  (PC:190), so that no state depends on it. The logger prefix only words a message.
* The comparison operators of `ProcessService` (`processService.cpp:7-29`): nothing
  calls them. (They compare `standardErr` with `standardOut`, and `!=` of two
  heartbeats is not the negation of `==`.)
* `uidAndGid`, `argv` and `env` of a service beyond their presence: they are passed on.
* Everything that only words a message.
* Failure of `kill` where the code only reports or drops it (not that of CPI:171, which
  throws), and of `pipe2`.
* Reuse of process numbers outside `ProcessChildImp`. The manager's module sees no
  exception of a child either: a handler of SIGCHLD that throws (CPI:173) is
  modelled in `ProcessChildImp` only.

## 6. Plan

Done: every component but the environment and the logger prefix; every state
invariant and every action property of the runs proved for every instance, and the
steps of the two refinements.

Next: compose the manager with `ProcessChildImp` children instead of the abstract
ones, for one service.
