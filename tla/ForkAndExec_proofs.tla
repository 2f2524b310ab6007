-------------------------- MODULE ForkAndExec_proofs --------------------------
(***************************************************************************)
(* Proofs about ForkAndExec, for every number of descriptors: what the kill *)
(* switch and the check after it are worth together, what the destructor's  *)
(* wait rests on, and that the moves of the descriptors put each where the  *)
(* service looks for it.                                                    *)
(***************************************************************************)
EXTENDS ForkAndExec, TLAPS

\* A process that is past prctl() has the kill switch; one that init has left
\* behind is gone, or has not yet compared its parent, which is another one.
Orphaned ==
  /\ init = "before" => pc = "none"
  /\ pc \notin {"none", "prctl"} \cup Gone => killSwitch
  /\ init = "dead" => pc \in {"none", "prctl", "getppid"} \cup Gone
  /\ init = "dead" /\ pc # "none" => ppid = "reaper"

\* What init does: only its death can leave a process behind.
LEMMA ParentOrphaned ==
  ASSUME Orphaned, Parent
  PROVE  Orphaned'
  <1>1. CASE Fork
    BY <1>1 DEF Fork, Orphaned, Gone, identity
  <1>2. CASE ForkFails \/ SocketpairFails
    BY <1>2 DEF ForkFails, SocketpairFails, Orphaned, Gone, process, identity
  <1>3. CASE InitDies
    BY <1>3 DEF InitDies, Orphaned, Gone
  <1>4. CASE Destroy \/ Waitpid \/ SignalHandler
    BY <1>4 DEF Destroy, Waitpid, SignalHandler, Orphaned, Gone, identity
  <1>5. CASE WaitpidAny
    BY <1>5 DEF WaitpidAny, Orphaned, Gone, process, identity
  <1> QED BY <1>1, <1>2, <1>3, <1>4, <1>5 DEF Parent

\* What the new process does: it gets past getppid() only as a child of init.
LEMMA ChildOrphaned ==
  ASSUME Orphaned, Child
  PROVE  Orphaned'
  <1>1. CASE SetKillSwitch
    BY <1>1 DEF SetKillSwitch, Proceed, Orphaned, Gone, parent
  <1>2. CASE CheckParent
    BY <1>2 DEF CheckParent, Orphaned, Gone, parent, identity
  <1>3. CASE SetProcessGroup
    BY <1>3 DEF SetProcessGroup, Proceed, Orphaned, Gone, parent
  <1>4. CASE SaveStreams \/ OpenStdin \/ Execve
    BY <1>4 DEF SaveStreams, OpenStdin, Execve, Proceed, Orphaned, Gone, parent, identity
  <1>5. CASE RedirectStdout \/ RedirectStderr \/ PassSocket
    BY <1>5 DEF RedirectStdout, RedirectStderr, RedirectStream, PassSocket, Proceed,
                Orphaned, Gone, parent, identity
  <1>6. CASE StepFails
    BY <1>6 DEF StepFails, Orphaned, Gone, parent, identity
  <1> QED BY <1>1, <1>2, <1>3, <1>4, <1>5, <1>6 DEF Child

LEMMA OrphanedInvariant == Spec => []Orphaned
  <1>1. Init => Orphaned
    BY DEF Init, Orphaned, Gone
  <1>2. Orphaned /\ [Next]_vars => Orphaned'
    <2>1. ASSUME Orphaned, ServiceExits
          PROVE  Orphaned'
      BY <2>1 DEF ServiceExits, Proceed, Orphaned, Gone, parent, identity
    <2>2. ASSUME Orphaned, OtherExits \/ UNCHANGED vars
          PROVE  Orphaned'
      BY <2>2 DEF OtherExits, vars, parent, process, identity, Orphaned, Gone
    <2> QED BY <2>1, <2>2, ParentOrphaned, ChildOrphaned DEF Next
  <1> QED BY <1>1, <1>2, PTL DEF Spec

\* No service outlives init, wherever between fork() and the end of the service
\* init dies (setupKillSwitch()).
THEOREM ServicesDieWithInit == Spec => []NoServiceOutlivesInit
  <1>1. Orphaned => NoServiceOutlivesInit
    BY DEF Orphaned, NoServiceOutlivesInit, Gone
  <1> QED BY <1>1, OrphanedInvariant, PTL

-----------------------------------------------------------------------------
\* A process that is past setpgrp() leads its group, which kill(-pid) reaches;
\* the one the destructor waits for was found before that, or has been killed.
Awaited ==
  /\ init = "before" => pid = "none" /\ pc = "none"
  /\ pid \in {"none", "child", "failed"}
  /\ pid = "child" => pc \notin {"none", "reaped"}
  /\ pc \notin {"none", "prctl", "getppid", "setpgrp"} \cup Gone => group = "own"
  /\ init = "waiting" => /\ pid # "none"
                         /\ pid = "child" => \/ found \in {"prctl", "getppid", "setpgrp"}
                                             \/ pc = "doomed"

LEMMA ParentAwaited ==
  ASSUME Awaited, Parent
  PROVE  Awaited'
  <1>1. CASE Fork
    BY <1>1 DEF Fork, Awaited, Gone, identity
  <1>2. CASE ForkFails \/ SocketpairFails
    BY <1>2 DEF ForkFails, SocketpairFails, Awaited, Gone, process, identity
  <1>3. CASE InitDies
    BY <1>3 DEF InitDies, Awaited, Gone
  <1>4. CASE Destroy
    BY <1>4 DEF Destroy, Awaited, Gone, identity
  <1>5. CASE Waitpid \/ SignalHandler
    BY <1>5 DEF Waitpid, SignalHandler, Awaited, Gone, identity
  <1>6. CASE WaitpidAny
    BY <1>6 DEF WaitpidAny, Awaited, Gone, process, identity
  <1> QED BY <1>1, <1>2, <1>3, <1>4, <1>5, <1>6 DEF Parent

LEMMA ChildAwaited ==
  ASSUME Awaited, Child
  PROVE  Awaited'
  <1>1. CASE SetKillSwitch \/ CheckParent
    BY <1>1 DEF SetKillSwitch, CheckParent, Proceed, Awaited, Gone, parent, identity
  <1>2. CASE SetProcessGroup
    BY <1>2 DEF SetProcessGroup, Proceed, Awaited, Gone, parent
  <1>3. CASE SaveStreams \/ OpenStdin \/ Execve
    BY <1>3 DEF SaveStreams, OpenStdin, Execve, Proceed, Awaited, Gone, parent, identity
  <1>4. CASE RedirectStdout \/ RedirectStderr \/ PassSocket
    BY <1>4 DEF RedirectStdout, RedirectStderr, RedirectStream, PassSocket, Proceed,
                Awaited, Gone, parent, identity
  <1>5. CASE StepFails
    BY <1>5 DEF StepFails, Awaited, Gone, parent, identity
  <1> QED BY <1>1, <1>2, <1>3, <1>4, <1>5 DEF Child

\* What OthersAreReported rests on: while init waits in the destructor, the
\* process it waits for has been killed, unless there was nothing to kill
\* (~ProcessChildImp(): kill(-pid) before waitpid(pid)).
THEOREM WaitIsForTheKilled == Spec => [](init = "waiting" => pc = "doomed" \/ NothingToKill)
  <1>1. Init => Awaited
    BY DEF Init, Awaited, Gone
  <1>2. Awaited /\ [Next]_vars => Awaited'
    <2>1. ASSUME Awaited, ServiceExits
          PROVE  Awaited'
      BY <2>1 DEF ServiceExits, Proceed, Awaited, Gone, parent, identity
    <2>2. ASSUME Awaited, OtherExits \/ UNCHANGED vars
          PROVE  Awaited'
      BY <2>2 DEF OtherExits, vars, parent, process, identity, Awaited, Gone
    <2> QED BY <2>1, <2>2, ParentAwaited, ChildAwaited DEF Next
  <1>3. Awaited => (init = "waiting" => pc = "doomed" \/ NothingToKill)
    BY DEF Awaited, NothingToKill
  <1> QED BY <1>1, <1>2, <1>3, PTL DEF Spec

-----------------------------------------------------------------------------
(* The descriptors.  Where each stream is at each step: every one that is to *)
(* be moved still is where init opened it, above all the numbers that the    *)
(* moves write to, and no two of them are at one number.                     *)

Opening == {"none", "prctl", "getppid", "setpgrp", "saveStreams"}

\* Where init opened the ends it passes on.
Passed ==
  /\ stdout \in Fds /\ stderr \in Fds /\ control \in Fds \cup {NoFd}
  /\ stdout # STDOUT_FILENO => stdout > 7 /\ stdout # stderr /\ stdout # control
  /\ stderr # STDERR_FILENO => stderr > 7 /\ stderr # control
  /\ control # NoFd => control > 7

\* What the new process will find at each number, or still has to move there.
Moved ==
  /\ pc \in {"stdout", "stderr", "socket", "execve"} => fd[0] = "/dev/null"
  /\ pc \in Opening \cup {"stdin", "stdout"} =>
       fd[1] = "stdout" /\ (stdout # STDOUT_FILENO => fd[stdout] = "outputPipe")
  /\ pc \in {"stderr", "socket", "execve"} => fd[1] = Expected(1)
  /\ pc \in Opening \cup {"stdin", "stdout", "stderr"} =>
       fd[2] = "stderr" /\ (stderr # STDERR_FILENO => fd[stderr] = "errputPipe")
  /\ pc \in {"socket", "execve"} => fd[2] = Expected(2)
  /\ pc \in Opening \cup {"stdin", "stdout", "stderr", "socket"} =>
       3 \in cloexec /\ (control # NoFd => fd[control] = "childSocket")
  /\ pc = "execve" => IF control = NoFd THEN 3 \in cloexec
                      ELSE 3 \notin cloexec /\ fd[3] = "childSocket"
  /\ pc \in {"stdin", "stdout", "stderr", "socket", "execve"} =>
       /\ fd[4] = "stdout" /\ fd[5] = "stderr"
       /\ 4 \notin cloexec /\ 5 \notin cloexec

\* Whatever else is open closes when the service is executed.
OthersClose ==
  /\ cloexec \subseteq Fds
  /\ 0 \notin cloexec /\ 1 \notin cloexec /\ 2 \notin cloexec
  /\ pc \notin {"service"} \cup Gone => \A i \in Fds : i > 5 => fd[i] = "closed" \/ i \in cloexec

\* A process that is gone is forgotten, and fork() is called once.
Forgotten ==
  /\ init = "before" => pc = "none"
  /\ pc = "reaped" => pid = "none"

FilesInv ==
  /\ Passed /\ Moved /\ OthersClose /\ Forgotten
  /\ fd \in [Fds -> Files]
  /\ pc \in {"none", "service"} \cup Steps \cup Gone
  /\ pc = "service" => \A i \in Fds : fd[i] = Expected(i)

LEMMA FdNumbers == {0, 1, 2, 3, 4, 5, 6, 7, 8, 9, 10, 11, 12, 13, 14} \subseteq Fds /\ Fds \subseteq Nat
  BY MaxFdAssumption DEF Fds

\* The free numbers are those from n on.
FreeFrom(f, n) == \A i \in Fds : f[i] = "closed" <=> i >= n

\* The lowest free number, when the free ones are those from n on.
LEMMA LowestFreeIs ==
  ASSUME NEW f, NEW n \in Fds, \A i \in Fds : f[i] = "closed" <=> i >= n
  PROVE  LowestFree(f) = n
  <1> DEFINE S == {i \in Fds : f[i] = "closed"}
  <1>1. n \in S /\ \A i \in S : n <= i
    BY FdNumbers
  <1>2. S \subseteq Nat
    BY FdNumbers
  <1> HIDE DEF S
  <1>3. \A m \in S : (\A i \in S : m <= i) => m = n
    BY <1>1, <1>2
  <1>4. Min(S) = n
    BY <1>1, <1>3 DEF Min
  <1> QED BY <1>4 DEF LowestFree, S

\* Opening a pair changes none of the descriptors that are open.
LEMMA OpenPairProperties ==
  ASSUME NEW f \in [Fds -> Files], NEW n \in {8, 10, 12},
         FreeFrom(f, n),
         NEW x \in Files, NEW y \in Files, x # "closed", y # "closed"
  PROVE  /\ OpenPair(f, x, y) \in [Fds -> Files]
         /\ \A i \in Fds : f[i] # "closed" => OpenPair(f, x, y)[i] = f[i]
         /\ \E i \in Fds : OpenPair(f, x, y)[i] = y
         /\ FreeFrom(OpenPair(f, x, y), n + 2)
  <1>0. n \in Fds /\ n + 1 \in Fds /\ Fds \subseteq Nat /\ n \in Nat
    BY MaxFdAssumption DEF Fds
  <1> DEFINE g == [f EXCEPT ![n] = x]
             h == [g EXCEPT ![n + 1] = y]
  <1>1. LowestFree(f) = n
    BY <1>0, LowestFreeIs DEF FreeFrom
  <1>2. \A i \in Fds : g[i] = "closed" <=> i >= n + 1
    BY <1>0 DEF FreeFrom
  <1>3. LowestFree(g) = n + 1
    <2> HIDE DEF g
    <2> QED BY <1>0, <1>2, LowestFreeIs
  <1>4. OpenPair(f, x, y) = h
    BY <1>1, <1>3 DEF OpenPair
  <1>5. /\ h \in [Fds -> Files]
        /\ h[n + 1] = y
        /\ \A i \in Fds : h[i] = "closed" <=> i >= n + 2
    BY <1>0, <1>2
  <1>6. \A i \in Fds : f[i] # "closed" => h[i] = f[i]
    BY <1>0 DEF FreeFrom
  <1> QED BY <1>0, <1>4, <1>5, <1>6 DEF FreeFrom

LEMMA FdOfProperties ==
  ASSUME NEW f, NEW x, NEW i \in Fds, f[i] = x
  PROVE  FdOf(f, x) \in Fds /\ f[FdOf(f, x)] = x
  BY DEF FdOf

LEMMA InitFiles == Init => FilesInv
  <1> SUFFICES ASSUME Init
               PROVE  FilesInv
    OBVIOUS
  <1> USE FdNumbers
  <1> DEFINE f0 == [i \in Fds |-> InitFd(i)]
             f1(a) == IF a THEN OpenPair(f0, "outputForwarder", "outputPipe") ELSE f0
             f2(a, b) == IF b THEN OpenPair(f1(a), "errputForwarder", "errputPipe") ELSE f1(a)
             f3(a, b, c) == IF c THEN OpenPair(f2(a, b), "initSocket", "childSocket") ELSE f2(a, b)
  <1>1. PICK a \in BOOLEAN, b \in BOOLEAN, c \in BOOLEAN :
          /\ fd = f3(a, b, c)
          /\ cloexec = {i \in Fds : i > 2 /\ f3(a, b, c)[i] # "closed"}
          /\ stdout = IF a THEN FdOf(f1(a), "outputPipe") ELSE STDOUT_FILENO
          /\ stderr = IF b THEN FdOf(f2(a, b), "errputPipe") ELSE STDERR_FILENO
          /\ control = IF c THEN FdOf(f3(a, b, c), "childSocket") ELSE NoFd
    BY DEF Init
  <1> DEFINE g1 == f1(a)
             g2 == f2(a, b)
             g3 == f3(a, b, c)
  <1>2. /\ f0 \in [Fds -> Files]
        /\ f0[0] = "stdin" /\ f0[1] = "stdout" /\ f0[2] = "stderr"
        /\ \A i \in Fds : i \in 3..7 => f0[i] = "asio"
        /\ FreeFrom(f0, 8)
    <2>1. \A i \in Fds : /\ InitFd(i) \in Files
                         /\ i \in 3..7 => InitFd(i) = "asio"
                         /\ InitFd(i) = "closed" <=> i >= 8
      <3>1. ASSUME NEW i \in Fds
            PROVE  /\ InitFd(i) \in Files
                   /\ i \in 3..7 => InitFd(i) = "asio"
                   /\ InitFd(i) = "closed" <=> i >= 8
        <4>1. i \in Nat
          OBVIOUS
        <4>2. CASE i \in 3..7
          BY <4>1, <4>2 DEF InitFd, Files
        <4>3. CASE i \in 0..2
          BY <4>1, <4>3 DEF InitFd, Files
        <4>4. CASE i >= 8
          BY <4>1, <4>4 DEF InitFd, Files
        <4> QED BY <4>1, <4>2, <4>3, <4>4
      <3> QED BY <3>1
    <2>2. InitFd(0) = "stdin" /\ InitFd(1) = "stdout" /\ InitFd(2) = "stderr"
      BY DEF InitFd, Files
    <2> HIDE DEF InitFd, Files
    <2>3. f0 \in [Fds -> Files]
      BY <2>1
    <2>4. \A i \in Fds : f0[i] = InitFd(i)
      OBVIOUS
    <2>5. 0 \in Fds /\ 1 \in Fds /\ 2 \in Fds
      OBVIOUS
    <2> HIDE DEF f0
    <2> QED BY <2>1, <2>2, <2>3, <2>4, <2>5 DEF FreeFrom
  <1>3. g1 = IF a THEN OpenPair(f0, "outputForwarder", "outputPipe") ELSE f0
    OBVIOUS
  <1>4. g2 = IF b THEN OpenPair(g1, "errputForwarder", "errputPipe") ELSE g1
    OBVIOUS
  <1>5. g3 = IF c THEN OpenPair(g2, "initSocket", "childSocket") ELSE g2
    OBVIOUS
  <1>6. /\ fd = g3
        /\ cloexec = {i \in Fds : i > 2 /\ g3[i] # "closed"}
        /\ stdout = IF a THEN FdOf(g1, "outputPipe") ELSE STDOUT_FILENO
        /\ stderr = IF b THEN FdOf(g2, "errputPipe") ELSE STDERR_FILENO
        /\ control = IF c THEN FdOf(g3, "childSocket") ELSE NoFd
    BY <1>1
  <1> HIDE DEF f0, f1, f2, f3, g1, g2, g3
  <1>7. /\ g1 \in [Fds -> Files]
        /\ \A i \in Fds : f0[i] # "closed" => g1[i] = f0[i]
        /\ \E n \in {8, 10} : FreeFrom(g1, n)
        /\ a => \E i \in Fds : g1[i] = "outputPipe"
    <2>1. CASE a
      <3> "outputForwarder" \in Files /\ "outputPipe" \in Files
        BY DEF Files
      <3>0. \A x, y \in Files : x # "closed" /\ y # "closed" =>
              /\ OpenPair(f0, x, y) \in [Fds -> Files]
              /\ \A i \in Fds : f0[i] # "closed" => OpenPair(f0, x, y)[i] = f0[i]
              /\ \E i \in Fds : OpenPair(f0, x, y)[i] = y
              /\ FreeFrom(OpenPair(f0, x, y), 8 + 2) /\ 8 + 2 = 10
        BY <1>2, OpenPairProperties
      <3>1. g1 = OpenPair(f0, "outputForwarder", "outputPipe")
        BY <1>3, <2>1
      <3>2. /\ g1 \in [Fds -> Files]
            /\ \A i \in Fds : f0[i] # "closed" => g1[i] = f0[i]
            /\ \E i \in Fds : g1[i] = "outputPipe"
            /\ FreeFrom(g1, 10)
        BY <3>0, <3>1
      <3> QED BY <3>2
    <2>2. CASE ~a
      BY <1>2, <1>3, <2>2
    <2> QED BY <2>1, <2>2
  <1>8. /\ g2 \in [Fds -> Files]
        /\ \A i \in Fds : g1[i] # "closed" => g2[i] = g1[i]
        /\ \E n \in {8, 10, 12} : FreeFrom(g2, n)
        /\ b => \E i \in Fds : g2[i] = "errputPipe"
    <2>0. PICK n \in {8, 10} : FreeFrom(g1, n)
      BY <1>7
    <2>1. CASE b
      <3> "errputForwarder" \in Files /\ "errputPipe" \in Files
        BY DEF Files
      <3>0. \A x, y \in Files : x # "closed" /\ y # "closed" =>
              /\ OpenPair(g1, x, y) \in [Fds -> Files]
              /\ \A i \in Fds : g1[i] # "closed" => OpenPair(g1, x, y)[i] = g1[i]
              /\ \E i \in Fds : OpenPair(g1, x, y)[i] = y
              /\ FreeFrom(OpenPair(g1, x, y), n + 2)
        BY <1>7, <2>0, OpenPairProperties
      <3>1. g2 = OpenPair(g1, "errputForwarder", "errputPipe")
        BY <1>4, <2>1
      <3>2. /\ g2 \in [Fds -> Files]
            /\ \A i \in Fds : g1[i] # "closed" => g2[i] = g1[i]
            /\ \E i \in Fds : g2[i] = "errputPipe"
            /\ FreeFrom(g2, n + 2)
        BY <3>0, <3>1
      <3>3. n + 2 \in {8, 10, 12}
        OBVIOUS
      <3> QED BY <3>2, <3>3
    <2>2. CASE ~b
      BY <1>4, <1>7, <2>2
    <2> QED BY <2>1, <2>2
  <1>9. /\ g3 \in [Fds -> Files]
        /\ \A i \in Fds : g2[i] # "closed" => g3[i] = g2[i]
        /\ c => \E i \in Fds : g3[i] = "childSocket"
    <2>0. PICK n \in {8, 10, 12} : FreeFrom(g2, n)
      BY <1>8
    <2>1. CASE c
      <3> "initSocket" \in Files /\ "childSocket" \in Files
        BY DEF Files
      <3>0. \A x, y \in Files : x # "closed" /\ y # "closed" =>
              /\ OpenPair(g2, x, y) \in [Fds -> Files]
              /\ \A i \in Fds : g2[i] # "closed" => OpenPair(g2, x, y)[i] = g2[i]
              /\ \E i \in Fds : OpenPair(g2, x, y)[i] = y
              /\ FreeFrom(OpenPair(g2, x, y), n + 2)
        BY <1>8, <2>0, OpenPairProperties
      <3>1. g3 = OpenPair(g2, "initSocket", "childSocket")
        BY <1>5, <2>1
      <3>2. /\ g3 \in [Fds -> Files]
            /\ \A i \in Fds : g2[i] # "closed" => g3[i] = g2[i]
            /\ \E i \in Fds : g3[i] = "childSocket"
        BY <3>0, <3>1
      <3> QED BY <3>2
    <2>2. CASE ~c
      BY <1>5, <1>8, <2>2
    <2> QED BY <2>1, <2>2
  <1>10. /\ g3[0] = "stdin" /\ g3[1] = "stdout" /\ g3[2] = "stderr"
         /\ \A i \in Fds : i \in 3..7 => g3[i] = "asio"
    BY <1>2, <1>7, <1>8, <1>9
  <1>11. a => stdout \in Fds /\ g3[stdout] = "outputPipe"
    <2>1. a => stdout \in Fds /\ g1[stdout] = "outputPipe"
      BY <1>6, <1>7, FdOfProperties
    <2> QED BY <1>8, <1>9, <2>1
  <1>12. b => stderr \in Fds /\ g3[stderr] = "errputPipe"
    <2>1. b => stderr \in Fds /\ g2[stderr] = "errputPipe"
      BY <1>6, <1>8, FdOfProperties
    <2> QED BY <1>9, <2>1
  <1>13. c => control \in Fds /\ g3[control] = "childSocket"
    BY <1>6, <1>9, FdOfProperties
  <1>14. \A i \in Fds : g3[i] \notin {"stdin", "stdout", "stderr", "asio"} => i > 7
    BY <1>10
  <1>15. /\ ~a => stdout = 1
         /\ ~b => stderr = 2
         /\ ~c => control = NoFd
    BY <1>6 DEF STDOUT_FILENO, STDERR_FILENO
  <1>16. NoFd \notin Fds
    BY MaxFdAssumption DEF NoFd, Fds
  <1>17. Passed
    <2>1. a => stdout > 7
      BY <1>11, <1>14
    <2>2. b => stderr > 7
      BY <1>12, <1>14
    <2>3. c => control > 7
      BY <1>13, <1>14
    <2>4. a /\ b => stdout # stderr
      BY <1>11, <1>12
    <2>5. a /\ c => stdout # control
      BY <1>11, <1>13
    <2>6. b /\ c => stderr # control
      BY <1>12, <1>13
    <2>7. stdout \in Fds /\ stderr \in Fds /\ control \in Fds \cup {NoFd}
      BY <1>11, <1>12, <1>13, <1>15
    <2> QED BY <1>15, <1>16, <2>1, <2>2, <2>3, <2>4, <2>5, <2>6, <2>7
            DEF Passed, STDOUT_FILENO, STDERR_FILENO
  <1>18. pc = "none" /\ init = "before" /\ pid = "none"
    BY DEF Init
  <1>19. Moved
    BY <1>6, <1>10, <1>11, <1>12, <1>13, <1>15, <1>18
       DEF Moved, Opening, STDOUT_FILENO, STDERR_FILENO
  <1>20. OthersClose
    BY <1>6, <1>18 DEF OthersClose
  <1> QED BY <1>6, <1>9, <1>17, <1>18, <1>19, <1>20 DEF FilesInv, Forgotten

\* What the service finds depends on the call alone.
LEMMA ExpectedIsFixed == UNCHANGED call => \A i : Expected(i)' = Expected(i)
  BY DEF call, Expected

\* A move writes to its target and closes its source.
LEMMA MoveFdEffect ==
  ASSUME fd \in [Fds -> Files], NEW from \in Fds, NEW to \in Fds, from # to, MoveFd(from, to)
  PROVE  /\ fd' \in [Fds -> Files]
         /\ fd'[to] = fd[from] /\ fd'[from] = "closed"
         /\ \A i \in Fds : i # from /\ i # to => fd'[i] = fd[i]
         /\ cloexec' = cloexec \ {from, to}
  <1>1. fd' = [[fd EXCEPT ![to] = fd[from]] EXCEPT ![from] = "closed"]
    BY DEF MoveFd, Dup2
  <1>2. cloexec' = cloexec \ {from, to}
    BY DEF MoveFd, Keep
  <1>3. fd' \in [Fds -> Files]
    BY <1>1 DEF Files
  <1> QED BY <1>1, <1>2, <1>3

\* A step that touches no descriptor and stays before the moves, or ends the process.
LEMMA FilesUntouched ==
  ASSUME FilesInv, UNCHANGED <<call, files>>,
         \/ pc' = pc
         \/ pc \in Opening /\ pc' \in Opening \ {"none"}
         \/ pc' \in Gone
  PROVE  /\ Passed' /\ Moved' /\ OthersClose'
         /\ fd' \in [Fds -> Files]
         /\ pc' \in {"none", "service"} \cup Steps \cup Gone
         /\ pc' = "service" => \A i \in Fds : fd'[i] = Expected(i)'
  <1>1. UNCHANGED <<stdout, stderr, control, fd, cloexec>>
    BY DEF call, files
  <1>2. Passed'
    BY <1>1 DEF FilesInv, Passed
  <1>3. \A i : Expected(i)' = Expected(i)
    BY ExpectedIsFixed
  <1>4. Moved'
    <2>1. CASE pc' = pc
      BY <1>1, <1>3, <2>1 DEF FilesInv, Moved
    <2>2. CASE pc \in Opening /\ pc' \in Opening
      BY <1>1, <2>2 DEF FilesInv, Moved, Opening
    <2>3. CASE pc' \in Gone
      BY <2>3 DEF Moved, Opening, Gone
    <2> QED BY <2>1, <2>2, <2>3
  <1>5. OthersClose'
    BY <1>1 DEF FilesInv, OthersClose, Opening, Gone
  <1>6. pc' \in {"none", "service"} \cup Steps \cup Gone
    BY DEF FilesInv, Opening, Steps, Gone
  <1>7. pc' = "service" => \A i \in Fds : fd'[i] = Expected(i)'
    BY <1>1, <1>3 DEF FilesInv, Opening, Gone
  <1> QED BY <1>1, <1>2, <1>4, <1>5, <1>6, <1>7 DEF FilesInv

\* What init does changes no descriptor of the new process.
LEMMA ParentFiles ==
  ASSUME FilesInv, Parent
  PROVE  FilesInv'
  <1>1. UNCHANGED <<call, files>>
    BY DEF Parent, Fork, ForkFails, SocketpairFails, InitDies, Destroy, Waitpid, WaitpidAny,
           SignalHandler, process
  <1>2. Forgotten' /\ (pc' = pc \/ (pc = "none" /\ pc' = "prctl") \/ pc' \in Gone)
    <2>1. CASE Fork
      BY <2>1 DEF Fork, FilesInv, Forgotten
    <2>2. CASE ForkFails \/ SocketpairFails
      BY <2>2 DEF ForkFails, SocketpairFails, process, FilesInv, Forgotten
    <2>3. CASE InitDies
      BY <2>3 DEF InitDies, FilesInv, Forgotten, Gone
    <2>4. CASE Destroy
      BY <2>4 DEF Destroy, FilesInv, Forgotten, Gone
    <2>5. CASE Waitpid \/ SignalHandler
      BY <2>5 DEF Waitpid, SignalHandler, FilesInv, Forgotten, Gone
    <2>6. CASE WaitpidAny
      BY <2>6 DEF WaitpidAny, process, FilesInv, Forgotten
    <2> QED BY <2>1, <2>2, <2>3, <2>4, <2>5, <2>6 DEF Parent
  <1>3. \/ pc' = pc
        \/ pc \in Opening /\ pc' \in Opening \ {"none"}
        \/ pc' \in Gone
    BY <1>2 DEF Opening
  <1>4. /\ Passed' /\ Moved' /\ OthersClose'
        /\ fd' \in [Fds -> Files]
        /\ pc' \in {"none", "service"} \cup Steps \cup Gone
        /\ pc' = "service" => \A i \in Fds : fd'[i] = Expected(i)'
    BY <1>1, <1>3, FilesUntouched
  <1> QED BY <1>2, <1>4 DEF FilesInv

\* Before the moves, and when the process ends.
LEMMA SetupFiles ==
  ASSUME FilesInv, SetKillSwitch \/ CheckParent \/ SetProcessGroup \/ StepFails \/ ServiceExits
  PROVE  FilesInv'
  <1>1. UNCHANGED <<call, files>> /\ UNCHANGED <<init, pid>>
    BY DEF SetKillSwitch, CheckParent, SetProcessGroup, StepFails, ServiceExits, parent
  <1>2. \/ pc \in Opening /\ pc' \in Opening \ {"none"}
        \/ pc' = "doomed"
    BY DEF SetKillSwitch, CheckParent, SetProcessGroup, StepFails, ServiceExits, Proceed, Opening
  <1>3. pc # "none"
    BY DEF SetKillSwitch, CheckParent, SetProcessGroup, StepFails, ServiceExits, Proceed
  <1>4. Forgotten'
    BY <1>1, <1>2, <1>3 DEF FilesInv, Forgotten, Opening
  <1>5. /\ Passed' /\ Moved' /\ OthersClose'
        /\ fd' \in [Fds -> Files]
        /\ pc' \in {"none", "service"} \cup Steps \cup Gone
        /\ pc' = "service" => \A i \in Fds : fd'[i] = Expected(i)'
    BY <1>1, <1>2, FilesUntouched DEF Gone
  <1> QED BY <1>4, <1>5 DEF FilesInv

\* The parts that no step of the moves disturbs.
LEMMA MovesKeep ==
  ASSUME FilesInv, UNCHANGED parent, pc \in Steps, pc' \in Steps
  PROVE  /\ Passed' /\ Forgotten'
         /\ pc' \in {"none", "service"} \cup Steps \cup Gone
         /\ UNCHANGED <<stdout, stderr, control>>
         /\ \A i : Expected(i)' = Expected(i)
  <1>1. UNCHANGED <<stdout, stderr, control, init, pid>> /\ UNCHANGED call
    BY DEF parent, call
  <1>2. Passed'
    BY <1>1 DEF FilesInv, Passed
  <1>3. Forgotten'
    BY <1>1 DEF FilesInv, Forgotten, Steps
  <1> QED BY <1>1, <1>2, <1>3, ExpectedIsFixed

LEMMA SaveStreamsFiles ==
  ASSUME FilesInv, SaveStreams
  PROVE  FilesInv'
  <1>1. pc = "saveStreams" /\ pc' = "stdin" /\ UNCHANGED parent
    BY DEF SaveStreams, Proceed
  <1>2. /\ Passed' /\ Forgotten' /\ pc' \in {"none", "service"} \cup Steps \cup Gone
        /\ UNCHANGED <<stdout, stderr, control>>
    BY <1>1, MovesKeep DEF Steps
  <1>3. fd \in [Fds -> Files] /\ Passed /\ Moved /\ OthersClose
    BY DEF FilesInv
  <1>4. fd' = [[fd EXCEPT ![4] = fd[1]] EXCEPT ![5] = [fd EXCEPT ![4] = fd[1]][2]]
    BY DEF SaveStreams, Dup2, STDOUT_FILENO, STDERR_FILENO, ORIGINAL_STDOUT_FILENO,
           ORIGINAL_STDERR_FILENO
  <1>5. /\ fd' \in [Fds -> Files]
        /\ fd'[4] = fd[1] /\ fd'[5] = fd[2]
        /\ \A i \in Fds : i # 4 /\ i # 5 => fd'[i] = fd[i]
    BY <1>3, <1>4, FdNumbers
  <1>6. cloexec' = cloexec \ {4, 5}
    BY DEF SaveStreams, ORIGINAL_STDOUT_FILENO, ORIGINAL_STDERR_FILENO
  <1>7. fd[1] = "stdout" /\ fd[2] = "stderr" /\ 3 \in cloexec
    BY <1>1, <1>3 DEF Moved, Opening
  <1>8. /\ stdout # STDOUT_FILENO => fd'[stdout] = "outputPipe"
        /\ stderr # STDERR_FILENO => fd'[stderr] = "errputPipe"
        /\ control # NoFd => fd'[control] = "childSocket"
    BY <1>1, <1>3, <1>5 DEF Moved, Opening, Passed
  <1>9. Moved'
    BY <1>1, <1>2, <1>5, <1>6, <1>7, <1>8, FdNumbers DEF Moved, Opening
  <1>10. OthersClose'
    BY <1>1, <1>3, <1>5, <1>6, FdNumbers DEF OthersClose, Gone
  <1> QED BY <1>1, <1>2, <1>5, <1>9, <1>10 DEF FilesInv

LEMMA OpenStdinFiles ==
  ASSUME FilesInv, OpenStdin
  PROVE  FilesInv'
  <1>1. pc = "stdin" /\ pc' = "stdout" /\ UNCHANGED parent /\ cloexec' = cloexec
    BY DEF OpenStdin, Proceed
  <1>2. /\ Passed' /\ Forgotten' /\ pc' \in {"none", "service"} \cup Steps \cup Gone
        /\ UNCHANGED <<stdout, stderr, control>>
    BY <1>1, MovesKeep DEF Steps
  <1>3. fd \in [Fds -> Files] /\ Passed /\ Moved /\ OthersClose
    BY DEF FilesInv
  <1>4. fd' = [fd EXCEPT ![0] = "/dev/null"]
    BY DEF OpenStdin, STDIN_FILENO
  <1>5. /\ fd' \in [Fds -> Files]
        /\ fd'[0] = "/dev/null"
        /\ \A i \in Fds : i # 0 => fd'[i] = fd[i]
    BY <1>3, <1>4, FdNumbers DEF Files
  <1>6. /\ stdout # STDOUT_FILENO => fd'[stdout] = "outputPipe"
        /\ stderr # STDERR_FILENO => fd'[stderr] = "errputPipe"
        /\ control # NoFd => fd'[control] = "childSocket"
    BY <1>1, <1>3, <1>5 DEF Moved, Passed
  <1>7. /\ fd'[1] = "stdout" /\ fd'[2] = "stderr" /\ fd'[4] = "stdout" /\ fd'[5] = "stderr"
        /\ 3 \in cloexec /\ 4 \notin cloexec /\ 5 \notin cloexec
    BY <1>1, <1>3, <1>5, FdNumbers DEF Moved
  <1>8. Moved'
    BY <1>1, <1>2, <1>5, <1>6, <1>7 DEF Moved, Opening
  <1>9. OthersClose'
    BY <1>1, <1>3, <1>5, FdNumbers DEF OthersClose, Gone
  <1> QED BY <1>1, <1>2, <1>5, <1>8, <1>9 DEF FilesInv

LEMMA RedirectStdoutFiles ==
  ASSUME FilesInv, RedirectStdout
  PROVE  FilesInv'
  <1>1. pc = "stdout" /\ pc' = "stderr" /\ UNCHANGED parent
    BY DEF RedirectStdout, RedirectStream, Proceed
  <1>2. /\ Passed' /\ Forgotten' /\ pc' \in {"none", "service"} \cup Steps \cup Gone
        /\ UNCHANGED <<stdout, stderr, control>>
        /\ \A i : Expected(i)' = Expected(i)
    BY <1>1, MovesKeep DEF Steps
  <1>3. fd \in [Fds -> Files] /\ Passed /\ Moved /\ OthersClose
    BY DEF FilesInv
  <1>4. CASE stdout = 1
    <2>1. fd' = fd /\ cloexec' = cloexec
      BY <1>4 DEF RedirectStdout, RedirectStream, STDOUT_FILENO, files
    <2>2. Expected(1) = "stdout"
      BY <1>4 DEF Expected, STDIN_FILENO, STDOUT_FILENO, STDERR_FILENO,
           CHILDSOCKET_FILENO, ORIGINAL_STDOUT_FILENO, ORIGINAL_STDERR_FILENO
    <2>3. Moved'
      BY <1>1, <1>2, <1>3, <2>1, <2>2 DEF Moved, Opening
    <2>4. OthersClose'
      BY <1>1, <1>3, <2>1 DEF OthersClose, Gone
    <2> QED BY <1>1, <1>2, <1>3, <2>1, <2>3, <2>4 DEF FilesInv
  <1>5. CASE stdout # 1
    <2>1. MoveFd(stdout, 1)
      BY <1>5 DEF RedirectStdout, RedirectStream, STDOUT_FILENO
    <2>2. stdout \in Fds /\ 1 \in Fds /\ stdout > 7
      BY <1>3, <1>5, FdNumbers DEF Passed, STDOUT_FILENO
    <2>3. /\ fd' \in [Fds -> Files]
          /\ fd'[1] = fd[stdout] /\ fd'[stdout] = "closed"
          /\ \A i \in Fds : i # stdout /\ i # 1 => fd'[i] = fd[i]
          /\ cloexec' = cloexec \ {stdout, 1}
      BY <1>3, <1>5, <2>1, <2>2, MoveFdEffect
    <2>4. fd'[1] = Expected(1)
      BY <1>1, <1>3, <1>5, <2>3 DEF Expected, Moved, STDIN_FILENO, STDOUT_FILENO, STDERR_FILENO,
           CHILDSOCKET_FILENO, ORIGINAL_STDOUT_FILENO, ORIGINAL_STDERR_FILENO
    <2>5. /\ stderr # STDERR_FILENO => fd'[stderr] = "errputPipe"
          /\ control # NoFd => fd'[control] = "childSocket"
      BY <1>1, <1>3, <1>5, <2>3, FdNumbers DEF Moved, Passed, STDOUT_FILENO
    <2>6. /\ fd'[0] = "/dev/null" /\ fd'[2] = "stderr" /\ fd'[4] = "stdout" /\ fd'[5] = "stderr"
          /\ 3 \in cloexec' /\ 4 \notin cloexec' /\ 5 \notin cloexec'
      BY <1>1, <1>3, <2>2, <2>3, FdNumbers DEF Moved
    <2>7. Moved'
      BY <1>1, <1>2, <2>4, <2>5, <2>6 DEF Moved, Opening
    <2>8. OthersClose'
      BY <1>1, <1>3, <2>2, <2>3, FdNumbers DEF OthersClose, Gone
    <2> QED BY <1>1, <1>2, <2>3, <2>7, <2>8 DEF FilesInv
  <1> QED BY <1>4, <1>5

LEMMA RedirectStderrFiles ==
  ASSUME FilesInv, RedirectStderr
  PROVE  FilesInv'
  <1>1. pc = "stderr" /\ pc' = "socket" /\ UNCHANGED parent
    BY DEF RedirectStderr, RedirectStream, Proceed
  <1>2. /\ Passed' /\ Forgotten' /\ pc' \in {"none", "service"} \cup Steps \cup Gone
        /\ UNCHANGED <<stdout, stderr, control>>
        /\ \A i : Expected(i)' = Expected(i)
    BY <1>1, MovesKeep DEF Steps
  <1>3. fd \in [Fds -> Files] /\ Passed /\ Moved /\ OthersClose
    BY DEF FilesInv
  <1>4. CASE stderr = 2
    <2>1. fd' = fd /\ cloexec' = cloexec
      BY <1>4 DEF RedirectStderr, RedirectStream, STDERR_FILENO, files
    <2>2. Expected(2) = "stderr"
      BY <1>4 DEF Expected, STDIN_FILENO, STDOUT_FILENO, STDERR_FILENO,
           CHILDSOCKET_FILENO, ORIGINAL_STDOUT_FILENO, ORIGINAL_STDERR_FILENO
    <2>3. Moved'
      BY <1>1, <1>2, <1>3, <2>1, <2>2 DEF Moved, Opening
    <2>4. OthersClose'
      BY <1>1, <1>3, <2>1 DEF OthersClose, Gone
    <2> QED BY <1>1, <1>2, <1>3, <2>1, <2>3, <2>4 DEF FilesInv
  <1>5. CASE stderr # 2
    <2>1. MoveFd(stderr, 2)
      BY <1>5 DEF RedirectStderr, RedirectStream, STDERR_FILENO
    <2>2. stderr \in Fds /\ 2 \in Fds /\ stderr > 7
      BY <1>3, <1>5, FdNumbers DEF Passed, STDERR_FILENO
    <2>3. /\ fd' \in [Fds -> Files]
          /\ fd'[2] = fd[stderr] /\ fd'[stderr] = "closed"
          /\ \A i \in Fds : i # stderr /\ i # 2 => fd'[i] = fd[i]
          /\ cloexec' = cloexec \ {stderr, 2}
      BY <1>3, <1>5, <2>1, <2>2, MoveFdEffect
    <2>4. fd'[2] = Expected(2)
      BY <1>1, <1>3, <1>5, <2>3 DEF Expected, Moved, STDIN_FILENO, STDOUT_FILENO, STDERR_FILENO,
           CHILDSOCKET_FILENO, ORIGINAL_STDOUT_FILENO, ORIGINAL_STDERR_FILENO
    <2>5. control # NoFd => fd'[control] = "childSocket"
      BY <1>1, <1>3, <1>5, <2>3, FdNumbers DEF Moved, Passed, STDERR_FILENO
    <2>6. /\ fd'[0] = "/dev/null" /\ fd'[1] = Expected(1) /\ fd'[4] = "stdout" /\ fd'[5] = "stderr"
          /\ 3 \in cloexec' /\ 4 \notin cloexec' /\ 5 \notin cloexec'
      BY <1>1, <1>3, <2>2, <2>3, FdNumbers DEF Moved
    <2>7. Moved'
      BY <1>1, <1>2, <2>4, <2>5, <2>6 DEF Moved, Opening
    <2>8. OthersClose'
      BY <1>1, <1>3, <2>2, <2>3, FdNumbers DEF OthersClose, Gone
    <2> QED BY <1>1, <1>2, <2>3, <2>7, <2>8 DEF FilesInv
  <1> QED BY <1>4, <1>5

LEMMA PassSocketFiles ==
  ASSUME FilesInv, PassSocket
  PROVE  FilesInv'
  <1>1. pc = "socket" /\ pc' = "execve" /\ UNCHANGED parent
    BY DEF PassSocket, Proceed
  <1>2. /\ Passed' /\ Forgotten' /\ pc' \in {"none", "service"} \cup Steps \cup Gone
        /\ UNCHANGED <<stdout, stderr, control>>
        /\ \A i : Expected(i)' = Expected(i)
    BY <1>1, MovesKeep DEF Steps
  <1>3. fd \in [Fds -> Files] /\ Passed /\ Moved /\ OthersClose
    BY DEF FilesInv
  <1>4. CASE control = NoFd
    <2>1. fd' = fd /\ cloexec' = cloexec
      BY <1>4 DEF PassSocket, files
    <2>2. Moved'
      BY <1>1, <1>2, <1>3, <1>4, <2>1 DEF Moved, Opening
    <2>3. OthersClose'
      BY <1>1, <1>3, <2>1 DEF OthersClose, Gone
    <2> QED BY <1>1, <1>2, <1>3, <2>1, <2>2, <2>3 DEF FilesInv
  <1>5. CASE control # NoFd
    <2>1. MoveFd(control, 3)
      BY <1>5 DEF PassSocket, CHILDSOCKET_FILENO
    <2>2. control \in Fds /\ 3 \in Fds /\ control > 7
      BY <1>3, <1>5, FdNumbers DEF Passed
    <2>3. control # 3
      BY <2>2
    <2>4. /\ fd' \in [Fds -> Files]
          /\ fd'[3] = fd[control] /\ fd'[control] = "closed"
          /\ \A i \in Fds : i # control /\ i # 3 => fd'[i] = fd[i]
          /\ cloexec' = cloexec \ {control, 3}
      BY <1>3, <2>1, <2>2, <2>3, MoveFdEffect
    <2>5. /\ fd'[0] = "/dev/null" /\ fd'[1] = Expected(1) /\ fd'[2] = Expected(2)
          /\ fd'[4] = "stdout" /\ fd'[5] = "stderr"
          /\ fd'[3] = "childSocket" /\ 3 \notin cloexec' /\ 4 \notin cloexec' /\ 5 \notin cloexec'
      BY <1>1, <1>3, <1>5, <2>2, <2>4, FdNumbers DEF Moved
    <2>6. Moved'
      BY <1>1, <1>2, <1>5, <2>5 DEF Moved, Opening
    <2>7. OthersClose'
      BY <1>1, <1>3, <2>2, <2>4, FdNumbers DEF OthersClose, Gone
    <2> QED BY <1>1, <1>2, <2>4, <2>6, <2>7 DEF FilesInv
  <1> QED BY <1>4, <1>5

LEMMA ExecveFiles ==
  ASSUME FilesInv, Execve
  PROVE  FilesInv'
  <1>1. pc = "execve" /\ pc' = "service" /\ UNCHANGED parent
    BY DEF Execve, Proceed
  <1>2. UNCHANGED <<stdout, stderr, control, init, pid>> /\ UNCHANGED call
    BY <1>1 DEF parent, call
  <1>3. fd \in [Fds -> Files] /\ Passed /\ Moved /\ OthersClose /\ Forgotten
    BY DEF FilesInv
  <1>4. /\ fd' = [i \in Fds |-> IF i \in cloexec THEN "closed" ELSE fd[i]]
        /\ cloexec' = {}
    BY DEF Execve
  <1>5. /\ fd[0] = "/dev/null" /\ fd[1] = Expected(1) /\ fd[2] = Expected(2)
        /\ fd[4] = "stdout" /\ fd[5] = "stderr" /\ 4 \notin cloexec /\ 5 \notin cloexec
        /\ 0 \notin cloexec /\ 1 \notin cloexec /\ 2 \notin cloexec
    BY <1>1, <1>3 DEF Moved, OthersClose
  <1>6. fd' \in [Fds -> Files]
    BY <1>3, <1>4 DEF Files
  <1>7. /\ Expected(0) = "/dev/null" /\ Expected(4) = "stdout" /\ Expected(5) = "stderr"
        /\ Expected(3) = IF control = NoFd THEN "closed" ELSE "childSocket"
    BY DEF Expected, STDIN_FILENO, STDOUT_FILENO, STDERR_FILENO, CHILDSOCKET_FILENO,
           ORIGINAL_STDOUT_FILENO, ORIGINAL_STDERR_FILENO
  <1>8. ASSUME NEW i \in Fds
        PROVE  fd'[i] = Expected(i)
    <2>1. CASE i \in {0, 1, 2, 4, 5}
      BY <1>4, <1>5, <1>7, <2>1
    <2>2. CASE i = 3
      BY <1>1, <1>3, <1>4, <1>7, <2>2 DEF Moved
    <2>3. CASE i > 5
      <3>1. fd'[i] = "closed"
        BY <1>1, <1>3, <1>4, <2>3 DEF OthersClose, Gone
      <3>2. Expected(i) = "closed"
        BY <2>3, FdNumbers DEF Expected, STDIN_FILENO, STDOUT_FILENO, STDERR_FILENO,
           CHILDSOCKET_FILENO, ORIGINAL_STDOUT_FILENO, ORIGINAL_STDERR_FILENO
      <3> QED BY <3>1, <3>2
    <2> QED BY <2>1, <2>2, <2>3, FdNumbers
  <1>9. Passed' /\ Forgotten' /\ Moved' /\ OthersClose'
    BY <1>1, <1>2, <1>3, <1>4 DEF Passed, Forgotten, Moved, OthersClose, Opening
  <1>10. \A i \in Fds : fd'[i] = Expected(i)'
    BY <1>2, <1>8, ExpectedIsFixed
  <1> QED BY <1>1, <1>6, <1>9, <1>10 DEF FilesInv

LEMMA FilesInvariant == Spec => []FilesInv
  <1>1. FilesInv /\ [Next]_vars => FilesInv'
    <2> SUFFICES ASSUME FilesInv, [Next]_vars
                 PROVE  FilesInv'
      OBVIOUS
    <2>1. CASE Child
      BY <2>1, SetupFiles, SaveStreamsFiles, OpenStdinFiles, RedirectStdoutFiles,
         RedirectStderrFiles, PassSocketFiles, ExecveFiles DEF Child
    <2>2. CASE OtherExits \/ UNCHANGED vars
      <3>1. UNCHANGED <<call, files>> /\ UNCHANGED <<init, pid, pc>>
        BY <2>2 DEF OtherExits, vars, parent, process
      <3>2. Forgotten'
        BY <3>1 DEF FilesInv, Forgotten
      <3>3. /\ Passed' /\ Moved' /\ OthersClose'
            /\ fd' \in [Fds -> Files]
            /\ pc' \in {"none", "service"} \cup Steps \cup Gone
            /\ pc' = "service" => \A i \in Fds : fd'[i] = Expected(i)'
        BY <3>1, FilesUntouched
      <3> QED BY <3>2, <3>3 DEF FilesInv
    <2> QED BY <2>1, <2>2, ParentFiles, SetupFiles DEF Next
  <1> QED BY <1>1, InitFiles, PTL DEF Spec

\* A service starts with its streams where the configuration wants them, its
\* control socket where it looks for it, and nothing else of init's: no move of
\* a descriptor overwrites one that a later move needs (child(),
\* forkProcesAndExec.cpp:60-88).
THEOREM StreamsAreInPlace == Spec => []ServiceHasItsStreams
  <1>1. FilesInv => ServiceHasItsStreams
    BY DEF FilesInv, ServiceHasItsStreams
  <1> QED BY <1>1, FilesInvariant, PTL

\* The rest of the state, whose types need nothing of the descriptors.
RestTyped ==
  /\ init \in {"before", "running", "waiting", "dead"}
  /\ pid \in {"none", "child", "failed"}
  /\ killSwitch \in BOOLEAN
  /\ ppid \in {"init", "reaper"}
  /\ group \in {"init", "own"}
  /\ found \in {"none", "service"} \cup Steps \cup Gone
  /\ other \in {"running", "zombie", "reported", "stolen"}

LEMMA ParentTyped ==
  ASSUME RestTyped, FilesInv, Parent
  PROVE  RestTyped'
  <1>1. CASE Fork \/ ForkFails \/ SocketpairFails
    BY <1>1 DEF Fork, ForkFails, SocketpairFails, process, identity, RestTyped
  <1>2. CASE InitDies
    BY <1>2 DEF InitDies, RestTyped
  <1>3. CASE Destroy
    BY <1>3 DEF Destroy, identity, RestTyped, FilesInv
  <1>4. CASE Waitpid \/ WaitpidAny
    BY <1>4 DEF Waitpid, WaitpidAny, process, identity, RestTyped
  <1>5. CASE SignalHandler
    BY <1>5 DEF SignalHandler, identity, RestTyped
  <1> QED BY <1>1, <1>2, <1>3, <1>4, <1>5 DEF Parent

LEMMA ChildTyped ==
  ASSUME RestTyped, Child
  PROVE  RestTyped'
  <1>1. CASE SetKillSwitch \/ CheckParent \/ SetProcessGroup
    BY <1>1 DEF SetKillSwitch, CheckParent, SetProcessGroup, parent, identity, RestTyped
  <1>2. CASE SaveStreams \/ OpenStdin \/ Execve \/ StepFails
    BY <1>2 DEF SaveStreams, OpenStdin, Execve, StepFails, parent, identity, RestTyped
  <1>3. CASE RedirectStdout \/ RedirectStderr \/ PassSocket
    BY <1>3 DEF RedirectStdout, RedirectStderr, RedirectStream, PassSocket, parent, identity,
                RestTyped
  <1> QED BY <1>1, <1>2, <1>3 DEF Child

\* The types; above all, a process is reaped only with its pid forgotten, so that
\* no signal or wait is for a pid that another process may have been given
\* (processTerminated(), ~ProcessChildImp()).
THEOREM TypeCorrect == Spec => []TypeOK
  <1>1. Init => RestTyped
    BY DEF Init, RestTyped
  <1>2. RestTyped /\ FilesInv /\ [Next]_vars => RestTyped'
    <2>1. ASSUME RestTyped, ServiceExits \/ OtherExits \/ UNCHANGED vars
          PROVE  RestTyped'
      BY <2>1 DEF ServiceExits, OtherExits, vars, parent, process, identity, RestTyped
    <2> QED BY <2>1, ParentTyped, ChildTyped DEF Next
  <1>3. RestTyped /\ FilesInv => TypeOK
    BY DEF RestTyped, FilesInv, Passed, OthersClose, Forgotten, TypeOK
  <1> QED BY <1>1, <1>2, <1>3, FilesInvariant, PTL DEF Spec
=============================================================================
