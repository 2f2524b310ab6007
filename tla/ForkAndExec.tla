------------------------------ MODULE ForkAndExec ------------------------------
(***************************************************************************)
(* How a service comes to life and is put to death: both halves of          *)
(* forkProcesAndExec.cpp, and the end ~ProcessChildImp() makes of it        *)
(* (childProcessImp.cpp:113).                                               *)
(*                                                                         *)
(* After fork() two processes run, and init may get anywhere in its event   *)
(* loop, or die, between any two system calls of the other: a step is one   *)
(* system call of the new process, or what init does without waiting.       *)
(* `other` is any other service of init, which exits when it likes and is   *)
(* reaped by init's SIGCHLD handler, if init gets back to its loop.         *)
(*                                                                         *)
(* Descriptors: before the service is constructed init holds 0, 1 and 2 and *)
(* the five of the io_context and its signal_set (3 to 7), which close on   *)
(* exec.                                                                    *)
(*                                                                         *)
(* The caller keeps the pid it is given; which services' pids are kept is   *)
(* in module ProcessChildImp, which has no step before execve().           *)
(***************************************************************************)
EXTENDS Naturals, FiniteSets, FiniteSetsExt

CONSTANT MaxFd   \* bound: the largest descriptor

ASSUME MaxFdAssumption == MaxFd \in Nat /\ MaxFd >= 14

VARIABLES
  init,        \* "before", "running", "waiting" in the destructor, or "dead"
  stdout,      \* where forkProcessAndExec() is told to send each stream:
  stderr,      \*   a descriptor of init
  control,     \* the child's end of the control socket, NoFd without one
  pid,         \* what fork() returned: "child" or "failed" (-1); "none" before, and once reaped
  pc,          \* what the new process does next; "service" after execve()
  killSwitch,  \* PR_SET_PDEATHSIG is set
  ppid,        \* what getppid() returns to it
  group,       \* its process group
  fd,          \* fd[i]: what its descriptor i refers to
  cloexec,     \* its descriptors that close on exec
  found,       \* history: what the new process was about to do when init killed it
  other        \* the other service: "running", "zombie", "reported" to its owner,
               \* or "stolen" by a waitpid() that was not for it

call     == <<stdout, stderr, control>>
parent   == <<init, call, pid, found>>
identity == <<killSwitch, ppid, group>>
files    == <<fd, cloexec>>
process  == <<pc, identity, files>>
vars     == <<parent, process, other>>

-----------------------------------------------------------------------------
STDIN_FILENO           == 0
STDOUT_FILENO          == 1
STDERR_FILENO          == 2
CHILDSOCKET_FILENO     == 3
ORIGINAL_STDOUT_FILENO == 4
ORIGINAL_STDERR_FILENO == 5
NoFd                   == MaxFd + 1

\* The life of the new process.  "doomed": SIGKILL or _exit(), not reaped yet.
Steps == {"prctl", "getppid", "setpgrp", "saveStreams", "stdin", "stdout", "stderr",
          "socket", "execve"}
Gone  == {"doomed", "reaped"}

Fds == 0..MaxFd

\* What a descriptor may refer to: "closed" is nothing at all.
Files == {"stdin", "stdout", "stderr", "asio", "closed", "/dev/null",
          "outputForwarder", "outputPipe", "errputForwarder", "errputPipe",
          "initSocket", "childSocket"}

InitFd(i) == CASE i = 0 -> "stdin" [] i = 1 -> "stdout" [] i = 2 -> "stderr"
               [] i \in 3..7 -> "asio" [] OTHER -> "closed"

LowestFree(f) == Min({i \in Fds : f[i] = "closed"})

\* pipe2() and socketpair(): init's end x and the service's end y.
OpenPair(f, x, y) ==
  LET i == LowestFree(f)
      g == [f EXCEPT ![i] = x]
  IN  [g EXCEPT ![LowestFree(g)] = y]

FdOf(f, x) == CHOOSE i \in Fds : f[i] = x

\* Init picks whose log goes where, and whether there is a control socket.
Init ==
  /\ init = "before" /\ pid = "none" /\ found = "none" /\ other = "running"
  /\ pc = "none" /\ killSwitch = FALSE /\ ppid = "init" /\ group = "init"
  /\ \E forwardOut, forwardErr, socket \in BOOLEAN :
       LET f0 == [i \in Fds |-> InitFd(i)]
           f1 == IF forwardOut THEN OpenPair(f0, "outputForwarder", "outputPipe") ELSE f0
           f2 == IF forwardErr THEN OpenPair(f1, "errputForwarder", "errputPipe") ELSE f1
           f3 == IF socket THEN OpenPair(f2, "initSocket", "childSocket") ELSE f2
       IN  /\ fd = f3
           /\ cloexec = {i \in Fds : i > 2 /\ f3[i] # "closed"}
           /\ stdout = IF forwardOut THEN FdOf(f1, "outputPipe") ELSE STDOUT_FILENO
           /\ stderr = IF forwardErr THEN FdOf(f2, "errputPipe") ELSE STDERR_FILENO
           /\ control = IF socket THEN FdOf(f3, "childSocket") ELSE NoFd

-----------------------------------------------------------------------------
(* The parent's half.                                                      *)

\* The new process has init's descriptors, process group and signals.
Fork ==
  /\ init = "before"
  /\ init' = "running"
  /\ pid' = "child" /\ pc' = "prctl"
  /\ UNCHANGED <<call, identity, files, found, other>>

\* fork() fails; the caller takes -1 for a pid.
ForkFails ==
  /\ init = "before"
  /\ init' = "running"
  /\ pid' = "failed"
  /\ UNCHANGED <<call, process, found, other>>

\* socketpair() fails: logAndExit() ends init itself.
SocketpairFails ==
  /\ init = "before" /\ control # NoFd
  /\ init' = "dead"
  /\ UNCHANGED <<call, pid, process, found, other>>

\* Init dies, for whatever reason.  The kernel sends what PR_SET_PDEATHSIG asks
\* for, and gives the children to another process.
InitDies ==
  /\ init \in {"running", "waiting"}
  /\ init' = "dead"
  /\ ppid' = "reaper"
  /\ pc' = IF killSwitch /\ pc \notin Gone THEN "doomed" ELSE pc
  /\ UNCHANGED <<call, pid, killSwitch, group, files, found, other>>

\* ~ProcessChildImp(): SIGKILL to the group -pid.  There is no such group before
\* setpgrp() (ESRCH); for pid -1 the signal is for process 1, init itself, which
\* is immune.  Then waitpid().
Destroy ==
  /\ init = "running" /\ pid # "none"
  /\ init' = "waiting"
  /\ found' = pc
  /\ pc' = IF pid = "child" /\ group = "own" THEN "doomed" ELSE pc
  /\ UNCHANGED <<call, pid, identity, files, other>>

\* waitpid(pid) returns when that process has exited.
Waitpid ==
  /\ init = "waiting" /\ pid = "child" /\ pc = "doomed"
  /\ init' = "running"
  /\ pid' = "none" /\ pc' = "reaped"
  /\ UNCHANGED <<call, identity, files, found, other>>

\* waitpid(-1) takes the exit of any other service, or fails when there is none.
WaitpidAny ==
  /\ init = "waiting" /\ pid = "failed" /\ other # "running"
  /\ init' = "running"
  /\ pid' = "none"
  /\ other' = IF other = "zombie" THEN "stolen" ELSE other
  /\ UNCHANGED <<call, process, found>>

\* BUG: the pid of what was reaped is kept.
SignalHandlerKeepsPid ==
  /\ init = "running"
  /\ other = "zombie" \/ pc = "doomed"
  /\ other' = IF other = "zombie" THEN "reported" ELSE other
  /\ pc' = IF pc = "doomed" THEN "reaped" ELSE pc
  /\ UNCHANGED <<init, call, pid, identity, files, found>>

\* signalHandler() reaps whatever has exited; processTerminated() sets pid to 0.
SignalHandler ==
  /\ init = "running"
  /\ other = "zombie" \/ pc = "doomed"
  /\ other' = IF other = "zombie" THEN "reported" ELSE other
  /\ pc' = IF pc = "doomed" THEN "reaped" ELSE pc
  /\ pid' = IF pc = "doomed" THEN "none" ELSE pid
  /\ UNCHANGED <<init, call, identity, files, found>>

Parent == Fork \/ ForkFails \/ SocketpairFails \/ InitDies \/ Destroy
            \/ Waitpid \/ WaitpidAny \/ SignalHandler

-----------------------------------------------------------------------------
(* The child's half: child() and setupKillSwitch().                        *)

Proceed(from, to) == pc = from /\ pc' = to

SetKillSwitch ==
  /\ Proceed("prctl", "getppid")
  /\ killSwitch' = TRUE
  /\ UNCHANGED <<parent, ppid, group, files, other>>

\* BUG: that init may have died before prctl() is not looked at.
CheckNothing ==
  /\ Proceed("getppid", "setpgrp")
  /\ UNCHANGED <<parent, identity, files, other>>

CheckParent ==
  /\ pc = "getppid"
  /\ pc' = IF ppid = "init" THEN "setpgrp" ELSE "doomed"
  /\ UNCHANGED <<parent, identity, files, other>>

\* BUG: the service stays in init's group.
KeepProcessGroup ==
  /\ Proceed("setpgrp", "saveStreams")
  /\ UNCHANGED <<parent, identity, files, other>>

SetProcessGroup ==
  /\ Proceed("setpgrp", "saveStreams")
  /\ group' = "own"
  /\ UNCHANGED <<parent, killSwitch, ppid, files, other>>

\* dup2(from, to): a copy does not close on exec; dup2(i, i) does nothing at all.
Dup2(f, from, to) == [f EXCEPT ![to] = f[from]]
Keep(c, from, to) == IF from = to THEN c ELSE c \ {to}

\* dup2() and close() of the copied descriptor.
MoveFd(from, to) ==
  /\ fd' = [Dup2(fd, from, to) EXCEPT ![from] = "closed"]
  /\ cloexec' = Keep(cloexec, from, to) \ {from}

SaveStreams ==
  /\ Proceed("saveStreams", "stdin")
  /\ fd' = Dup2(Dup2(fd, STDOUT_FILENO, ORIGINAL_STDOUT_FILENO),
                STDERR_FILENO, ORIGINAL_STDERR_FILENO)
  /\ cloexec' = cloexec \ {ORIGINAL_STDOUT_FILENO, ORIGINAL_STDERR_FILENO}
  /\ UNCHANGED <<parent, identity, other>>

\* open("/dev/null"), dup2() and close(): what is opened closes with its number.
OpenStdin ==
  /\ Proceed("stdin", "stdout")
  /\ fd' = [fd EXCEPT ![STDIN_FILENO] = "/dev/null"]
  /\ UNCHANGED <<parent, identity, cloexec, other>>

\* One of the two streams: nothing is done for one that stays where it is.
RedirectStream(stream, target) ==
  /\ IF stream = target THEN UNCHANGED files ELSE MoveFd(stream, target)
  /\ UNCHANGED <<parent, identity, other>>

RedirectStdout == Proceed("stdout", "stderr") /\ RedirectStream(stdout, STDOUT_FILENO)
RedirectStderr == Proceed("stderr", "socket") /\ RedirectStream(stderr, STDERR_FILENO)

\* BUG: the socket keeps its number, where the service does not look for it.
LeaveSocket ==
  /\ Proceed("socket", "execve")
  /\ UNCHANGED <<parent, identity, files, other>>

PassSocket ==
  /\ Proceed("socket", "execve")
  /\ IF control = NoFd THEN UNCHANGED files ELSE MoveFd(control, CHILDSOCKET_FILENO)
  /\ UNCHANGED <<parent, identity, other>>

\* The kill switch survives execve(), the descriptors marked for it do not.
Execve ==
  /\ Proceed("execve", "service")
  /\ fd' = [i \in Fds |-> IF i \in cloexec THEN "closed" ELSE fd[i]]
  /\ cloexec' = {}
  /\ UNCHANGED <<parent, identity, other>>

\* logAndExit() after a system call that fails, execve() among them.
StepFails ==
  /\ pc \in {"prctl", "setpgrp", "stdin", "execve"}
  /\ pc' = "doomed"
  /\ UNCHANGED <<parent, identity, files, other>>

ServiceExits ==
  /\ Proceed("service", "doomed")
  /\ UNCHANGED <<parent, identity, files, other>>

OtherExits ==
  /\ other = "running"
  /\ other' = "zombie"
  /\ UNCHANGED <<parent, process>>

Child == SetKillSwitch \/ CheckParent \/ SetProcessGroup \/ SaveStreams \/ OpenStdin
           \/ RedirectStdout \/ RedirectStderr \/ PassSocket \/ Execve \/ StepFails

Next == Parent \/ Child \/ ServiceExits \/ OtherExits

Spec == Init /\ [][Next]_vars

\* Init's loop runs without pause, and so does the new process up to execve().
Fairness == /\ WF_vars(Fork \/ ForkFails \/ SocketpairFails)
            /\ WF_vars(Waitpid) /\ WF_vars(WaitpidAny) /\ WF_vars(SignalHandler)
            /\ WF_vars(Child)

FairSpec == Spec /\ Fairness

-----------------------------------------------------------------------------
(* What must hold.                                                         *)

\* Types; a process is reaped only with its pid forgotten.
TypeOK ==
  /\ init \in {"before", "running", "waiting", "dead"}
  /\ stdout \in Fds /\ stderr \in Fds /\ control \in Fds \cup {NoFd}
  /\ pid \in {"none", "child", "failed"}
  /\ pc \in {"none", "service"} \cup Steps \cup Gone
  /\ killSwitch \in BOOLEAN
  /\ ppid \in {"init", "reaper"}
  /\ group \in {"init", "own"}
  /\ fd \in [Fds -> Files]
  /\ cloexec \subseteq Fds
  /\ found \in {"none", "service"} \cup Steps \cup Gone
  /\ other \in {"running", "zombie", "reported", "stolen"}
  /\ pc = "reaped" => pid = "none"

\* A service starts with its input closed off, its streams where the
\* configuration wants them, the streams of init at the numbers it looks for
\* them, its end of the control socket if it has one, and nothing else of
\* init's; the moves happen in an order in which none overwrites what a later
\* one needs (child(), forkProcesAndExec.cpp:60-88).
Expected(i) ==
  CASE i = STDIN_FILENO  -> "/dev/null"
    [] i = STDOUT_FILENO -> IF stdout = STDOUT_FILENO THEN "stdout" ELSE "outputPipe"
    [] i = STDERR_FILENO -> IF stderr = STDERR_FILENO THEN "stderr" ELSE "errputPipe"
    [] i = CHILDSOCKET_FILENO     -> IF control = NoFd THEN "closed" ELSE "childSocket"
    [] i = ORIGINAL_STDOUT_FILENO -> "stdout"
    [] i = ORIGINAL_STDERR_FILENO -> "stderr"
    [] OTHER -> "closed"

ServiceHasItsStreams == pc = "service" => \A i \in Fds : fd[i] = Expected(i)

\* No service outlives init, whenever init dies between fork() and execve() or
\* later: the kill switch is set and then the parent is checked
\* (setupKillSwitch(), lines 32-46).
NoServiceOutlivesInit == init = "dead" => pc # "service"

\* The destructor's kill() had nothing to reach: the fork had failed, or the new
\* process had not yet got past setpgrp().
NothingToKill ==
  init = "waiting" /\ (pid = "failed" \/ found \in {"prctl", "getppid", "setpgrp"})

\* The death of another service reaches its owner although init may be waiting
\* in a destructor: that wait is for a process that has been killed, unless
\* there was nothing to kill (childProcessImp.cpp:113-127).
OthersAreReported ==
  (other = "zombie") ~> (other = "reported" \/ init = "dead" \/ NothingToKill)
=============================================================================
