------------------------ MODULE RestartAndStartup_proofs ------------------------
(***************************************************************************)
(* More proofs about ProcessServiceManager, of its first run: a restart     *)
(* never meets a live child or another restart, a startup never stalls with *)
(* nothing left to wait for, an entry without a child is looked after, and  *)
(* what can bring init down; and of every run: a critical service that has  *)
(* lost its process gets no other one.                                      *)
(***************************************************************************)
EXTENDS ProcessServiceManager_proofs

-----------------------------------------------------------------------------
(* What the queue holds for each service.                                  *)

\* The first run of the services: since the first start() and until the map is
\* cleared.
FirstRun == daemon = "up" /\ starts = 1 /\ state # "TERMINARED"

\* A queued handler fits the entry of its service: a report has a child to ask,
\* a dangling one was made by a death that is not made good yet, and a restart
\* that is due is the only thing that will happen to its entry.
Fits(h) ==
  /\ h.kind = "stateChange" => child[h.name] # "NULL"
  /\ h.kind = "dangling" => h.last = "DEAD" /\ child[h.name] = "NULL" /\ h.name \in started
  /\ h.kind = "restart" => /\ h.name \in started /\ child[h.name] = "NULL"
                           /\ ~restartTimer[h.name] /\ runningTimestamp[h.name] = "none"

\* Behind a restart there is neither another one of the service nor a report of
\* the child it replaces.
RestartsLast(q) ==
  \A i, j \in DOMAIN q :
    q[i].kind = "restart" /\ q[j].kind \in {"restart", "dangling"} /\ q[i].name = q[j].name => j <= i

Disciplined ==
  /\ \A s \in Services : restartTimer[s] => child[s] = "NULL" /\ runningTimestamp[s] = "none"
  /\ \A i \in DOMAIN queue : Fits(queue[i])
  /\ RestartsLast(queue)

\* Before the first start() nothing concerns a service.
NothingQueued ==
  starts = 0 => \A i \in DOMAIN queue : queue[i].kind \in {"sigchld", "notifyTermination"}

RestartInv == OrderInv /\ NothingQueued /\ (FirstRun => Disciplined)

-----------------------------------------------------------------------------
(* Queues.                                                                 *)

\* The handlers of a queue after one is posted, several are, or one has run.
LEMMA Positions ==
  ASSUME NEW q \in Seq(Handler)
  PROVE  /\ \A h \in Handler :
              /\ DOMAIN Append(q, h) = 1..(Len(q) + 1)
              /\ Append(q, h)[Len(q) + 1] = h
              /\ \A i \in DOMAIN q : Append(q, h)[i] = q[i]
         /\ \A r \in Seq(Handler) :
              /\ DOMAIN (q \o r) = 1..(Len(q) + Len(r))
              /\ \A i \in DOMAIN q : (q \o r)[i] = q[i]
              /\ \A i \in DOMAIN (q \o r) : i \in DOMAIN q \/ (i - Len(q) \in DOMAIN r
                                                              /\ (q \o r)[i] = r[i - Len(q)])
         /\ q # << >> =>
              /\ 1 \in DOMAIN q /\ Head(q) = q[1]
              /\ \A i \in DOMAIN Tail(q) : i + 1 \in DOMAIN q /\ Tail(q)[i] = q[i + 1]
         /\ DOMAIN q = 1..Len(q) /\ Len(q) \in Nat
  OBVIOUS

\* Consuming a handler, and posting one that is neither a restart nor dangling,
\* leave a restart behind what concerns its service.
LEMMA RestartsLastTail ==
  ASSUME NEW q \in Seq(Handler), q # << >>, RestartsLast(q)
  PROVE  RestartsLast(Tail(q))
  <1> SUFFICES ASSUME NEW i \in DOMAIN Tail(q), NEW j \in DOMAIN Tail(q),
                      Tail(q)[i].kind = "restart", Tail(q)[j].kind \in {"restart", "dangling"},
                      Tail(q)[i].name = Tail(q)[j].name
               PROVE  j <= i
    BY DEF RestartsLast
  <1>1. /\ i + 1 \in DOMAIN q /\ Tail(q)[i] = q[i + 1]
        /\ j + 1 \in DOMAIN q /\ Tail(q)[j] = q[j + 1]
    BY Positions
  <1>2. j + 1 <= i + 1
    BY <1>1 DEF RestartsLast
  <1>3. i \in Int /\ j \in Int
    OBVIOUS
  <1> QED BY <1>2, <1>3

LEMMA RestartsLastConcat ==
  ASSUME NEW q \in Seq(Handler), RestartsLast(q), NEW r \in Seq(Handler),
         \A i \in DOMAIN r : r[i].kind \notin {"restart", "dangling"}
  PROVE  RestartsLast(q \o r)
  <1>1. \A i \in DOMAIN (q \o r) :
          (q \o r)[i].kind \in {"restart", "dangling"} => i \in DOMAIN q /\ (q \o r)[i] = q[i]
    BY Positions
  <1> QED BY <1>1 DEF RestartsLast

LEMMA RestartsLastAppend ==
  ASSUME NEW q \in Seq(Handler), RestartsLast(q), NEW h \in Handler,
         \/ h.kind \notin {"restart", "dangling"}
         \/ h.kind = "restart" /\ \A i \in DOMAIN q : ~(q[i].kind = "restart" /\ q[i].name = h.name)
  PROVE  RestartsLast(Append(q, h))
  <1> SUFFICES ASSUME NEW i \in DOMAIN Append(q, h), NEW j \in DOMAIN Append(q, h),
                      Append(q, h)[i].kind = "restart",
                      Append(q, h)[j].kind \in {"restart", "dangling"},
                      Append(q, h)[i].name = Append(q, h)[j].name
               PROVE  j <= i
    BY DEF RestartsLast
  <1>1. /\ i \in 1..(Len(q) + 1) /\ j \in 1..(Len(q) + 1) /\ Len(q) \in Nat
        /\ i \in DOMAIN q \/ i = Len(q) + 1
        /\ j \in DOMAIN q \/ j = Len(q) + 1
    <2>1. DOMAIN Append(q, h) = 1..(Len(q) + 1) /\ DOMAIN q = 1..Len(q) /\ Len(q) \in Nat
      BY Positions
    <2> QED BY <2>1
  <1>2. CASE i = Len(q) + 1
    BY <1>1, <1>2
  <1>3. CASE i \in DOMAIN q
    <2>1. q[i].kind = "restart" /\ Append(q, h)[i] = q[i]
      BY <1>3, Positions
    <2>2. j \in DOMAIN q /\ Append(q, h)[j] = q[j]
      <3>1. CASE j = Len(q) + 1
        <4>1. Append(q, h)[j] = h
          BY <3>1, Positions
        <4> QED BY <1>3, <2>1, <4>1
      <3> QED BY <1>1, <3>1, Positions
    <2> QED BY <1>3, <2>1, <2>2 DEF RestartsLast
  <1> QED BY <1>1, <1>2, <1>3

\* Destroying a child whose restart is not due leaves it so.
LEMMA RestartsLastMarked ==
  ASSUME TypeOK, NEW q \in Seq(Handler), RestartsLast(q), NEW S,
         \A i \in DOMAIN q : q[i].kind = "restart" => q[i].name \notin S
  PROVE  RestartsLast(MarkDangling(q, S))
  <1> DEFINE m == MarkDangling(q, S)
  <1>1. /\ DOMAIN m = DOMAIN q
        /\ \A i \in DOMAIN q : \/ m[i] = q[i]
                               \/ /\ q[i].name \in S /\ q[i].kind = "stateChange"
                                  /\ m[i].kind = "dangling" /\ m[i].name = q[i].name
    BY DEF MarkDangling, Dangling
  <1> HIDE DEF m
  <1>2. \A i \in DOMAIN q : m[i].kind = "restart" => m[i] = q[i]
    BY <1>1
  <1>3. RestartsLast(m)
    BY <1>1, <1>2 DEF RestartsLast
  <1> QED BY <1>3 DEF m

\* What destroying the children of S makes of each handler.
LEMMA Marked ==
  ASSUME NEW q \in Seq(Handler), NEW S, NEW i \in DOMAIN q
  PROVE  /\ DOMAIN MarkDangling(q, S) = DOMAIN q
         /\ q[i].kind = "stateChange" /\ q[i].name \in S =>
              MarkDangling(q, S)[i] = Dangling(q[i].name, child[q[i].name])
         /\ ~(q[i].kind = "stateChange" /\ q[i].name \in S) => MarkDangling(q, S)[i] = q[i]
  BY DEF MarkDangling

LEMMA QueueNames ==
  ASSUME TypeOK, NEW i \in DOMAIN queue
  PROVE  /\ queue[i] \in Handler
         /\ queue[i].kind \in {"stateChange", "dangling", "restart"} => queue[i].name \in Services
  <1>1. queue[i] \in Handler
    BY DEF TypeOK
  <1> QED BY <1>1, HandlerNames

-----------------------------------------------------------------------------
(* Restarts.                                                               *)

\* A child that changes its state has neither an armed restart nor one due.
LEMMA SetProcessStateDisciplined ==
  ASSUME TypeOK, Disciplined, NEW s \in Services, NEW st \in ProcessState, child[s] # "NULL",
         SetProcessState(s, st)
  PROVE  Disciplined'
  <1>0. st # "NULL" /\ queue \in Seq(Handler) /\ StateChange(s) \in Handler
    BY HandlerMembers DEF ProcessState, TypeOK
  <1>1. /\ child' = [child EXCEPT ![s] = st]
        /\ queue' = Append(queue, StateChange(s))
        /\ UNCHANGED <<started, restartTimer, runningTimestamp>>
    BY DEF SetProcessState
  <1>2. /\ \A t \in Services : child'[t] = "NULL" <=> child[t] = "NULL"
        /\ child'[s] # "NULL"
    BY <1>0, <1>1 DEF TypeOK
  <1>3. ASSUME NEW i \in DOMAIN queue'
        PROVE  Fits(queue[i])'
    <2>1. CASE i \in DOMAIN queue
      <3>1. queue'[i] = queue[i]
        BY <1>0, <1>1, <2>1, Positions
      <3> QED BY <1>1, <1>2, <2>1, <3>1, QueueNames DEF Disciplined, Fits
    <2>2. CASE i = Len(queue) + 1
      <3>1. queue'[i] = StateChange(s)
        BY <1>0, <1>1, <2>2, Positions
      <3> QED BY <1>2, <3>1 DEF Fits, StateChange
    <2>3. i \in 1..(Len(queue) + 1) /\ Len(queue) \in Nat /\ DOMAIN queue = 1..Len(queue)
      BY <1>0, <1>1
    <2> QED BY <2>1, <2>2, <2>3
  <1>4. RestartsLast(queue')
    BY <1>0, <1>1, RestartsLastAppend DEF Disciplined, StateChange
  <1> QED BY <1>1, <1>2, <1>3, <1>4 DEF Disciplined, RestartsLast

LEMMA ExitsDisciplined ==
  ASSUME TypeOK, Disciplined, NEW p, Exits(p)
  PROVE  Disciplined'
  <1>0. queue \in Seq(Handler) /\ Sigchld \in Handler
    BY HandlerMembers DEF TypeOK
  <1>1. /\ UNCHANGED <<started, child, restartTimer, runningTimestamp>>
        /\ queue' = queue \/ queue' = Append(queue, Sigchld)
    BY DEF Exits, services
  <1>2. ASSUME NEW i \in DOMAIN queue'
        PROVE  (i \in DOMAIN queue /\ queue'[i] = queue[i]) \/ queue'[i] = Sigchld
    BY <1>0, <1>1
  <1>3. \A i \in DOMAIN queue' : Fits(queue[i])'
    BY <1>1, <1>2 DEF Disciplined, Fits, Sigchld
  <1>4. RestartsLast(queue')
    BY <1>0, <1>1, RestartsLastAppend DEF Disciplined, Sigchld
  <1> QED BY <1>1, <1>3, <1>4 DEF Disciplined, RestartsLast

\* A restart that was armed becomes due: no other one is.
LEMMA RestartTimerExpiresDisciplined ==
  ASSUME TypeOK, Disciplined, NEW s \in Services, RestartTimerExpires(s)
  PROVE  Disciplined'
  <1>0. queue \in Seq(Handler) /\ RestartTimeout(s) \in Handler
    BY HandlerMembers DEF TypeOK
  <1>1. /\ restartTimer[s]
        /\ restartTimer' = [restartTimer EXCEPT ![s] = FALSE]
        /\ queue' = Append(queue, RestartTimeout(s))
        /\ UNCHANGED <<started, child, runningTimestamp>>
    BY DEF RestartTimerExpires
  <1>2. s \in started /\ child[s] = "NULL" /\ runningTimestamp[s] = "none"
    BY <1>1 DEF TypeOK, Disciplined
  <1>3. \A t \in Services : restartTimer'[t] => restartTimer[t] /\ t # s
    BY <1>1 DEF TypeOK
  <1>4. \A i \in DOMAIN queue : ~(queue[i].kind = "restart" /\ queue[i].name = s)
    BY <1>1 DEF Disciplined, Fits
  <1>5. ASSUME NEW i \in DOMAIN queue'
        PROVE  Fits(queue[i])'
    <2>1. CASE i \in DOMAIN queue
      <3>1. queue'[i] = queue[i]
        BY <1>0, <1>1, <2>1, Positions
      <3> QED BY <1>1, <1>3, <2>1, <3>1, QueueNames DEF Disciplined, Fits
    <2>2. CASE i = Len(queue) + 1
      <3>1. queue'[i] = RestartTimeout(s)
        BY <1>0, <1>1, <2>2, Positions
      <3> QED BY <1>1, <1>2, <1>3, <3>1 DEF Fits, RestartTimeout
    <2>3. i \in 1..(Len(queue) + 1) /\ Len(queue) \in Nat /\ DOMAIN queue = 1..Len(queue)
      BY <1>0, <1>1
    <2> QED BY <2>1, <2>2, <2>3
  <1>6. RestartsLast(queue')
    BY <1>0, <1>1, <1>4, RestartsLastAppend DEF Disciplined, RestartTimeout
  <1> QED BY <1>1, <1>3, <1>5, <1>6 DEF Disciplined, RestartsLast

\* Only a service that has become ready again can have been so for a minute.
LEMMA MinutePassesDisciplined ==
  ASSUME TypeOK, Disciplined, NEW s \in Services, MinutePasses(s)
  PROVE  Disciplined'
  <1>1. /\ runningTimestamp[s] = "recent"
        /\ UNCHANGED <<started, child, restartTimer, queue>>
        /\ \A t \in Services : runningTimestamp[t] = "none" => runningTimestamp'[t] = "none"
    BY DEF MinutePasses, TypeOK
  <1> QED BY <1>1, QueueNames DEF Disciplined, Fits, RestartsLast

LEMMA WorldDisciplined ==
  ASSUME TypeOK, Disciplined, World
  PROVE  Disciplined'
  <1>1. ASSUME NEW s \in Services, ChildReady(s) \/ ChildTimeout(s)
        PROVE  Disciplined'
    BY <1>1, SetProcessStateDisciplined DEF ChildReady, ChildTimeout, ProcessState, TypeOK
  <1> QED BY <1>1, ExitsDisciplined, RestartTimerExpiresDisciplined, MinutePassesDisciplined
          DEF World, ChildExit, AdoptedExit

\* The queued reports of the children of S are reports of members of S.
LEMMA ReportsContent ==
  ASSUME NEW S \in SUBSET Services, NEW r \in Reports(S)
  PROVE  \A i \in DOMAIN r : \E s \in S : r[i] = StateChange(s)
  <1>1. PICK o \in SetToSeqs(S) : r = [i \in DOMAIN o |-> StateChange(o[i])]
    BY DEF Reports
  <1>2. PICK n \in Nat : o \in [1..n -> S]
    BY OrdersDomain
  <1> QED BY <1>1, <1>2

\* Services that are all new to the map are launched with a report each.
LEMMA LaunchContent ==
  ASSUME TypeOK, NEW S \in SUBSET Services, S \cap started = {}, NEW q \in Seq(Handler),
         Launch(S, q)
  PROVE  /\ \A i \in DOMAIN queue' : \/ i \in DOMAIN q /\ queue'[i] = q[i]
                                     \/ \E s \in S : queue'[i] = StateChange(s)
         /\ RestartsLast(q) => RestartsLast(queue')
         /\ \A s \in Services : child'[s] = IF s \in S THEN InitialState(s) ELSE child[s]
         /\ started' = started \cup S
  <1>0. S \ started = S
    OBVIOUS
  <1>1. PICK o \in SetToSeqs(S) :
          queue' = q \o [i \in DOMAIN o |-> IF o[i] \in S \ started THEN StateChange(o[i])
                                             ELSE Dangling(o[i], InitialState(o[i]))]
    BY DEF Launch
  <1> DEFINE r == [i \in DOMAIN o |-> IF o[i] \in S \ started THEN StateChange(o[i])
                                      ELSE Dangling(o[i], InitialState(o[i]))]
  <1>2. r \in Seq(Handler)
    BY LaunchReportsType
  <1>3. PICK n \in Nat : o \in [1..n -> S]
    BY OrdersDomain
  <1>4. \A i \in DOMAIN r : \E s \in S : r[i] = StateChange(s)
    BY <1>0, <1>3
  <1> HIDE DEF r
  <1>5. queue' = q \o r
    BY <1>1 DEF r
  <1>6. /\ \A s \in Services : child'[s] = IF s \in S THEN InitialState(s) ELSE child[s]
        /\ started' = started \cup S
    BY <1>0 DEF Launch
  <1>7. \A i \in DOMAIN queue' : \/ i \in DOMAIN q /\ queue'[i] = q[i]
                                 \/ \E s \in S : queue'[i] = StateChange(s)
    BY <1>2, <1>4, <1>5, Positions
  <1>8. RestartsLast(q) => RestartsLast(queue')
    BY <1>2, <1>4, <1>5, RestartsLastConcat DEF StateChange
  <1> QED BY <1>6, <1>7, <1>8

\* The first start() finds nothing that concerns a service.
LEMMA StartDisciplined ==
  ASSUME RestartInv, daemon = "up", Start
  PROVE  NothingQueued' /\ (FirstRun' => Disciplined')
  <1> DEFINE S == {s \in Services : StartAfter[s] = {}}
  <1>0. TypeOK /\ queue \in Seq(Handler) /\ starts' = starts + 1 /\ starts \in Nat
    BY BoundsAssumption DEF RestartInv, OrderInv, Start, TypeOK
  <1>1. NothingQueued'
    BY <1>0 DEF NothingQueued
  <1>2. ASSUME FirstRun'
        PROVE  Disciplined'
    <2>1. starts = 0 /\ started = {}
      BY <1>0, <1>2 DEF FirstRun, RestartInv, OrderInv
    <2>2. \A s \in Services : ~restartTimer[s]
      BY <1>0, <2>1 DEF TypeOK
    <2>3. S \in SUBSET Services /\ S \cap started = {} /\ Launch(S, queue)
      BY <2>1 DEF Start
    <2> HIDE DEF S
    <2>4. \A i \in DOMAIN queue' : \/ i \in DOMAIN queue /\ queue'[i] = queue[i]
                                   \/ \E s \in S : queue'[i] = StateChange(s)
      BY <1>0, <2>3, LaunchContent
    <2>5. \A s \in S : child'[s] # "NULL"
      BY <1>0, <2>3, LaunchContent DEF InitialState
    <2>6. \A i \in DOMAIN queue : queue[i].kind \in {"sigchld", "notifyTermination"}
      BY <2>1 DEF RestartInv, NothingQueued
    <2>7. restartTimer' = restartTimer
      BY DEF Start
    <2>8. \A i \in DOMAIN queue' : \/ queue'[i].kind \in {"sigchld", "notifyTermination"}
                                   \/ \E s \in S : queue'[i] = StateChange(s)
      BY <2>4, <2>6
    <2>9. \A i \in DOMAIN queue' : Fits(queue[i])'
      BY <2>5, <2>8 DEF Fits, StateChange
    <2>10. RestartsLast(queue')
      BY <2>8 DEF RestartsLast, StateChange
    <2> QED BY <2>2, <2>7, <2>9, <2>10 DEF Disciplined, RestartsLast
  <1> QED BY <1>1, <1>2

LEMMA StartTerminatingDisciplined ==
  ASSUME RestartInv, daemon = "up", StartTerminating
  PROVE  NothingQueued' /\ (FirstRun' => Disciplined')
  <1> DEFINE present == {s \in started : child[s] # "NULL"}
             last == IF present = {} THEN <<NotifyTermination>> ELSE << >>
  <1>0. TypeOK /\ queue \in Seq(Handler) /\ starts' = starts
    BY DEF RestartInv, OrderInv, StartTerminating, TypeOK
  <1>1. present \in SUBSET Services /\ last \in Seq(Handler)
    BY <1>0, HandlerMembers DEF TypeOK
  <1>2. PICK r \in Reports(present) : queue' = queue \o r \o last
    BY DEF StartTerminating
  <1>3. /\ child' = [s \in Services |-> IF s \in present THEN "TERMINATING" ELSE child[s]]
        /\ \A s \in Services : ~restartTimer'[s]
        /\ state' = IF present = {} THEN "TERMINARED" ELSE state
        /\ state \in {"RUNNING", "TERMINARED"}
        /\ UNCHANGED <<daemon, started, runningTimestamp>>
    BY DEF StartTerminating
  <1>4. \A i \in DOMAIN last : last[i] = NotifyTermination
    OBVIOUS
  <1>5. \A s \in Services : child'[s] = "NULL" <=> child[s] = "NULL"
    BY <1>3
  <1>6. \A s \in present : child'[s] # "NULL"
    BY <1>1, <1>5
  <1>7. starts = 0 => present = {}
    BY DEF RestartInv, OrderInv
  <1> HIDE DEF present, last
  <1>8. r \in Seq(Handler) /\ \A i \in DOMAIN r : \E s \in present : r[i] = StateChange(s)
    BY <1>1, ReportsType, ReportsContent
  <1>9. \A i \in DOMAIN queue' : \/ i \in DOMAIN queue /\ queue'[i] = queue[i]
                                 \/ \E s \in present : queue'[i] = StateChange(s)
                                 \/ queue'[i] = NotifyTermination
    <2>1. queue \o r \in Seq(Handler)
      BY <1>0, <1>8, QueueOps
    <2>2. \A i \in DOMAIN (queue \o r) : \/ i \in DOMAIN queue /\ (queue \o r)[i] = queue[i]
                                         \/ \E s \in present : (queue \o r)[i] = StateChange(s)
      BY <1>0, <1>8, Positions
    <2> QED BY <1>1, <1>2, <1>4, <2>1, <2>2, Positions
  <1>10. NothingQueued'
    BY <1>0, <1>7, <1>9 DEF NothingQueued, RestartInv, NotifyTermination
  <1>11. ASSUME FirstRun'
         PROVE  Disciplined'
    <2>1. Disciplined
      BY <1>0, <1>3, <1>11 DEF FirstRun, RestartInv
    <2>2. \A i \in DOMAIN queue' : Fits(queue[i])'
      BY <1>0, <1>3, <1>5, <1>6, <1>9, <2>1, QueueNames
         DEF Disciplined, Fits, StateChange, NotifyTermination
    <2>3. RestartsLast(queue')
      BY <1>9, <2>1 DEF Disciplined, RestartsLast, StateChange, NotifyTermination
    <2> QED BY <1>3, <2>2, <2>3 DEF Disciplined, RestartsLast
  <1> QED BY <1>10, <1>11

LEMMA HostDisciplined ==
  ASSUME RestartInv, daemon = "up", Host
  PROVE  NothingQueued' /\ (FirstRun' => Disciplined')
  <1>1. ASSUME ForceTerminate
        PROVE  NothingQueued' /\ (FirstRun' => Disciplined')
    <2>1. state' = "TERMINARED" /\ starts' = starts
      BY <1>1 DEF ForceTerminate
    <2>2. ASSUME starts = 0
          PROVE  NothingQueued'
      <3>1. queue \in Seq(Handler) /\ TypeOK /\ <<NotifyTermination>> \in Seq(Handler)
        BY HandlerMembers DEF RestartInv, OrderInv, TypeOK
      <3> DEFINE m == MarkDangling(queue, Services)
      <3>2. m \in Seq(Handler) /\ DOMAIN m = DOMAIN queue
        BY <3>1, MarkDanglingProperties DEF TypeOK
      <3>3. \A i \in DOMAIN m : m[i].kind \in {"sigchld", "notifyTermination"}
        BY <2>2, <3>1, <3>2, MarkDanglingProperties DEF RestartInv, NothingQueued, TypeOK
      <3>4. queue' = m \o <<NotifyTermination>>
        BY <1>1 DEF ForceTerminate, MapClear
      <3> HIDE DEF m
      <3>5. \A i \in DOMAIN <<NotifyTermination>> :
              <<NotifyTermination>>[i].kind = "notifyTermination"
        BY DEF NotifyTermination
      <3> QED BY <3>1, <3>2, <3>3, <3>4, <3>5, Positions DEF NothingQueued
    <2> QED BY <2>1, <2>2 DEF NothingQueued, FirstRun
  <1> QED BY <1>1, StartDisciplined, StartTerminatingDisciplined
          DEF Host, StartTerminatingWhileStarting, HostForceTerminate

\* What is behind the handler that runs, and what is known of that handler.
LEMMA Consumed ==
  ASSUME TypeOK, Disciplined, NEW k, Running(k)
  PROVE  /\ Tail(queue) \in Seq(Handler)
         /\ Head(queue) \in Handler /\ Head(queue).kind = k
         /\ \A i \in DOMAIN Tail(queue) : Fits(Tail(queue)[i])
         /\ RestartsLast(Tail(queue))
         /\ Fits(Head(queue))
         /\ k = "restart" =>
              \A i \in DOMAIN Tail(queue) :
                ~(Tail(queue)[i].kind \in {"restart", "dangling"} /\ Tail(queue)[i].name = Head(queue).name)
  <1>0. queue \in Seq(Handler) /\ queue # << >>
    BY RunningHandler DEF TypeOK
  <1>1. Tail(queue) \in Seq(Handler) /\ Head(queue) \in Handler /\ Head(queue).kind = k
    BY RunningHandler
  <1>2. /\ 1 \in DOMAIN queue /\ Head(queue) = queue[1]
        /\ \A i \in DOMAIN Tail(queue) : i + 1 \in DOMAIN queue /\ Tail(queue)[i] = queue[i + 1]
    BY <1>0, Positions
  <1>3. \A i \in DOMAIN Tail(queue) : Fits(Tail(queue)[i])
    BY <1>2 DEF Disciplined
  <1>4. RestartsLast(Tail(queue))
    BY <1>0, RestartsLastTail DEF Disciplined
  <1>5. Fits(Head(queue))
    BY <1>2 DEF Disciplined
  <1>6. ASSUME k = "restart", NEW i \in DOMAIN Tail(queue),
               Tail(queue)[i].kind \in {"restart", "dangling"}, Tail(queue)[i].name = Head(queue).name
        PROVE  FALSE
    <2>1. i + 1 <= 1
      BY <1>1, <1>2, <1>6 DEF Disciplined, RestartsLast
    <2>2. i \in 1..Len(Tail(queue)) /\ Len(Tail(queue)) \in Nat
      BY <1>1
    <2> QED BY <2>1, <2>2
  <1> QED BY <1>1, <1>3, <1>4, <1>5, <1>6

\* The report of a death leaves the reports of that child dangling, and they
\* held the state DEAD.
LEMMA DeathMarks ==
  ASSUME TypeOK, NEW s \in Services, child[s] \in {"DEAD", "NULL"}, NEW q \in Seq(Handler),
         \A i \in DOMAIN q : Fits(q[i])
  PROVE  /\ DOMAIN MarkDangling(q, {s}) = DOMAIN q
         /\ MarkDangling(q, {s}) \in Seq(Handler)
         /\ \A i \in DOMAIN q :
              \/ MarkDangling(q, {s})[i] = q[i] /\ ~(q[i].kind = "stateChange" /\ q[i].name = s)
              \/ MarkDangling(q, {s})[i] = Dangling(s, "DEAD")
  <1>1. \A i \in DOMAIN q : q[i].kind = "stateChange" /\ q[i].name = s => child[s] = "DEAD"
    BY DEF Fits
  <1>2. child \in [Services -> ProcessState \cup {"NULL"}]
    BY DEF TypeOK
  <1> QED BY <1>1, <1>2, Marked, MarkDanglingProperties

\* ... and in their order.
LEMMA DeathKeepsOrder ==
  ASSUME TypeOK, NEW s \in Services, child[s] \in {"DEAD", "NULL"}, NEW q \in Seq(Handler),
         \A i \in DOMAIN q : Fits(q[i]), RestartsLast(q)
  PROVE  RestartsLast(MarkDangling(q, {s}))
  <1>1. CASE child[s] = "DEAD"
    <2>1. \A i \in DOMAIN q : q[i].kind = "restart" => q[i].name \notin {s}
      BY <1>1 DEF Fits
    <2> QED BY <2>1, RestartsLastMarked
  <1>2. CASE child[s] = "NULL"
    <2>1. \A i \in DOMAIN q : ~(q[i].kind = "stateChange" /\ q[i].name = s)
      BY <1>2 DEF Fits
    <2>2. /\ DOMAIN MarkDangling(q, {s}) = DOMAIN q
          /\ \A i \in DOMAIN q : MarkDangling(q, {s})[i] = q[i]
      BY <2>1 DEF MarkDangling
    <2> QED BY <2>2 DEF RestartsLast
  <1> QED BY <1>1, <1>2

\* A report keeps the discipline: that of a live child stamps a service that has
\* no restart, and that of a death arms one only where there is none.
LEMMA StateChangeCbDisciplined ==
  ASSUME RestartInv, FirstRun, NEW s \in Services, NEW st,
         st = "RUNNING" => child[s] = "RUNNING",
         st = "DEAD" => child[s] \in {"DEAD", "NULL"},
         NEW q \in Seq(Handler), \A i \in DOMAIN q : Fits(q[i]), RestartsLast(q),
         StateChangeCb(s, st, q)
  PROVE  Disciplined'
  <1>0. TypeOK /\ Disciplined /\ starts = 1 /\ daemon = "up"
    BY DEF RestartInv, OrderInv, FirstRun
  <1>00. \A i \in DOMAIN q : /\ q[i] \in Handler
                             /\ q[i].kind \in {"stateChange", "dangling", "restart"} => q[i].name \in Services
    <2>1. \A i \in DOMAIN q : q[i] \in Handler
      OBVIOUS
    <2> QED BY <2>1, HandlerNames
  <1>1. CASE StartupDone(s, st, q) \/ RememberReady(s, st, q)
    <2>1. /\ child[s] = "RUNNING" /\ queue' = q
          /\ runningTimestamp' = [runningTimestamp EXCEPT ![s] = "recent"]
          /\ UNCHANGED <<started, child, restartTimer>>
      BY <1>1 DEF StartupDone, RememberReady
    <2>2. \A t \in Services : t # s => runningTimestamp'[t] = runningTimestamp[t]
      BY <1>0, <2>1 DEF TypeOK
    <2>3. ASSUME NEW i \in DOMAIN queue'
          PROVE  Fits(queue[i])'
      BY <1>00, <2>1, <2>2, <2>3 DEF Fits
    <2> QED BY <1>0, <2>1, <2>2, <2>3 DEF Disciplined, RestartsLast
  <1>2. CASE StartDependents(s, st, q)
    <2> DEFINE S == Freed(startupMap, s)
    <2>1. S \in SUBSET Services /\ S \cap started = {} /\ Launch(S, q)
      BY <1>0, <1>2 DEF StartDependents, Freed, RestartInv, OrderInv, StartupMapFollowsReports
    <2>2. /\ child[s] = "RUNNING" /\ restartTimer' = restartTimer
          /\ runningTimestamp' = [runningTimestamp EXCEPT ![s] = "recent"]
      BY <1>2 DEF StartDependents
    <2> HIDE DEF S
    <2>3. \A i \in DOMAIN queue' : \/ i \in DOMAIN q /\ queue'[i] = q[i]
                                   \/ \E t \in S : queue'[i] = StateChange(t)
      BY <1>0, <2>1, LaunchContent
    <2>4. RestartsLast(queue')
      BY <1>0, <2>1, LaunchContent
    <2>5. /\ \A t \in Services : child'[t] = IF t \in S THEN InitialState(t) ELSE child[t]
          /\ started' = started \cup S
      BY <1>0, <2>1, LaunchContent
    <2>6. \A t \in S : child'[t] # "NULL"
      BY <2>1, <2>5 DEF InitialState
    <2>7. /\ \A t \in Services : t # s => runningTimestamp'[t] = runningTimestamp[t]
          /\ \A t \in Services : child[t] # "NULL" => child'[t] # "NULL"
          /\ \A t \in started : t \in started' /\ child'[t] = child[t]
          /\ \A t \in Services : restartTimer[t] => t \in started /\ t # s
      BY <1>0, <2>1, <2>2, <2>5, <2>6 DEF TypeOK, Disciplined
    <2>8. ASSUME NEW i \in DOMAIN queue'
          PROVE  Fits(queue[i])'
      <3>1. CASE i \in DOMAIN q /\ queue'[i] = q[i]
        BY <1>00, <2>2, <2>7, <3>1 DEF Fits
      <3>2. CASE \E t \in S : queue'[i] = StateChange(t)
        BY <2>6, <3>2 DEF Fits, StateChange
      <3> QED BY <2>3, <3>1, <3>2
    <2>9. \A t \in Services : restartTimer'[t] => child'[t] = "NULL" /\ runningTimestamp'[t] = "none"
      BY <1>0, <2>2, <2>7 DEF Disciplined
    <2> QED BY <2>4, <2>8, <2>9 DEF Disciplined, RestartsLast
  <1>3. CASE GiveUp(s, st, q)
    <2> DEFINE m == MarkDangling(q, {s})
    <2>1. /\ child' = [child EXCEPT ![s] = "NULL"]
          /\ restartTimer' = [restartTimer EXCEPT ![s] = FALSE]
          /\ queue' = Append(m, TerminateWithCleanup)
          /\ UNCHANGED <<started, runningTimestamp>>
          /\ s \in started /\ child[s] \in {"DEAD", "NULL"}
      BY <1>3 DEF GiveUp, ResetServiceAndProcess, StateChangeCb, LooksUp
    <2>2. /\ DOMAIN m = DOMAIN q /\ m \in Seq(Handler)
          /\ \A i \in DOMAIN q : \/ m[i] = q[i] /\ ~(q[i].kind = "stateChange" /\ q[i].name = s)
                                 \/ m[i] = Dangling(s, "DEAD")
      BY <1>0, <2>1, DeathMarks
    <2>3. RestartsLast(m)
      BY <1>0, <2>1, DeathKeepsOrder
    <2> HIDE DEF m
    <2>4. /\ \A t \in Services : t # s => child'[t] = child[t] /\ restartTimer'[t] = restartTimer[t]
          /\ child'[s] = "NULL" /\ ~restartTimer'[s]
      BY <1>0, <2>1 DEF TypeOK
    <2>5. \A i \in DOMAIN queue' : \/ i \in DOMAIN m /\ queue'[i] = m[i]
                                   \/ queue'[i] = TerminateWithCleanup
      BY <2>1, <2>2, HandlerMembers
    <2>6. RestartsLast(queue')
      BY <2>1, <2>2, <2>3, RestartsLastAppend, HandlerMembers DEF TerminateWithCleanup
    <2>7. ASSUME NEW i \in DOMAIN queue'
          PROVE  Fits(queue[i])'
      <3>1. CASE i \in DOMAIN q /\ queue'[i] = q[i] /\ ~(q[i].kind = "stateChange" /\ q[i].name = s)
        BY <1>00, <2>1, <2>4, <3>1 DEF Fits
      <3>2. CASE queue'[i] = Dangling(s, "DEAD")
        BY <2>1, <2>4, <3>2 DEF Fits, Dangling
      <3>3. CASE queue'[i] = TerminateWithCleanup
        BY <3>3 DEF Fits, TerminateWithCleanup
      <3> QED BY <2>2, <2>5, <3>1, <3>2, <3>3
    <2>8. \A t \in Services : restartTimer'[t] => child'[t] = "NULL" /\ runningTimestamp'[t] = "none"
      BY <1>0, <2>1, <2>4 DEF Disciplined
    <2> QED BY <2>6, <2>7, <2>8 DEF Disciplined, RestartsLast
  <1>4. CASE ArmRestart(s, st, q)
    <2> DEFINE m == MarkDangling(q, {s})
    <2>1. /\ child' = [child EXCEPT ![s] = "NULL"]
          /\ restartTimer' = [restartTimer EXCEPT ![s] = TRUE]
          /\ runningTimestamp' = [runningTimestamp EXCEPT ![s] = "none"]
          /\ queue' = m /\ started' = started
          /\ s \in started /\ child[s] \in {"DEAD", "NULL"} /\ runningTimestamp[s] = "old"
      BY <1>4 DEF ArmRestart, ResetServiceAndProcess, StateChangeCb, LooksUp
    <2>2. /\ DOMAIN m = DOMAIN q /\ m \in Seq(Handler)
          /\ \A i \in DOMAIN q : \/ m[i] = q[i] /\ ~(q[i].kind = "stateChange" /\ q[i].name = s)
                                 \/ m[i] = Dangling(s, "DEAD")
      BY <1>0, <2>1, DeathMarks
    <2>3. RestartsLast(m)
      BY <1>0, <2>1, DeathKeepsOrder
    <2> HIDE DEF m
    <2>4. /\ \A t \in Services : t # s => /\ child'[t] = child[t]
                                         /\ restartTimer'[t] = restartTimer[t]
                                         /\ runningTimestamp'[t] = runningTimestamp[t]
          /\ child'[s] = "NULL" /\ runningTimestamp'[s] = "none"
      BY <1>0, <2>1 DEF TypeOK
    <2>5. \A i \in DOMAIN q : ~(q[i].kind = "restart" /\ q[i].name = s)
      BY <2>1 DEF Fits
    <2>6. ASSUME NEW i \in DOMAIN queue'
          PROVE  Fits(queue[i])'
      <3>1. CASE i \in DOMAIN q /\ queue'[i] = q[i] /\ ~(q[i].kind = "stateChange" /\ q[i].name = s)
        BY <1>00, <2>1, <2>4, <2>5, <3>1 DEF Fits
      <3>2. CASE queue'[i] = Dangling(s, "DEAD")
        BY <2>1, <2>4, <3>2 DEF Fits, Dangling
      <3> QED BY <2>1, <2>2, <3>1, <3>2
    <2>7. \A t \in Services : restartTimer'[t] => child'[t] = "NULL" /\ runningTimestamp'[t] = "none"
      BY <1>0, <2>4 DEF Disciplined
    <2> QED BY <2>1, <2>3, <2>6, <2>7 DEF Disciplined, RestartsLast
  <1>5. CASE ReportIgnored(st, q)
    <2>1. queue' = q /\ UNCHANGED services
      BY <1>5 DEF ReportIgnored
    <2> QED BY <1>0, <2>1 DEF services, Disciplined, Fits, RestartsLast
  <1> QED BY <1>1, <1>2, <1>3, <1>4, <1>5 DEF StateChangeCb

LEMMA RestartTimeoutHandlerDisciplined ==
  ASSUME RestartInv, FirstRun, RestartTimeoutHandler
  PROVE  Disciplined'
  <1> DEFINE s == Head(queue).name
             q == Tail(queue)
  <1>0. TypeOK /\ Disciplined /\ Running("restart")
    BY DEF RestartInv, OrderInv, RestartTimeoutHandler
  <1>1. /\ q \in Seq(Handler) /\ s \in Services
        /\ \A i \in DOMAIN q : Fits(q[i])
        /\ RestartsLast(q)
        /\ \A i \in DOMAIN q : ~(q[i].kind \in {"restart", "dangling"} /\ q[i].name = s)
        /\ child[s] = "NULL" /\ ~restartTimer[s]
    BY <1>0, Consumed, HandlerNames DEF Fits
  <1>2. /\ child' = [child EXCEPT ![s] = InitialState(s)]
        /\ queue' = Append(MarkDangling(q, {s}), StateChange(s))
        /\ UNCHANGED <<started, restartTimer, runningTimestamp>>
    BY DEF RestartTimeoutHandler
  <1>3. \A i \in DOMAIN q : /\ q[i] \in Handler
                            /\ q[i].kind \in {"stateChange", "dangling", "restart"} => q[i].name \in Services
    <2>1. \A i \in DOMAIN q : q[i] \in Handler
      BY <1>1
    <2> QED BY <2>1, HandlerNames
  <1> HIDE DEF s, q
  <1>4. /\ child'[s] # "NULL"
        /\ \A t \in Services : t # s => child'[t] = child[t]
    BY <1>0, <1>1, <1>2 DEF TypeOK, InitialState
  <1> DEFINE m == MarkDangling(q, {s})
  <1>5. /\ DOMAIN m = DOMAIN q
        /\ \A i \in DOMAIN q : m[i] = q[i]
    <2>1. \A i \in DOMAIN q : ~(q[i].kind = "stateChange" /\ q[i].name = s)
      BY <1>1 DEF Fits
    <2> QED BY <2>1 DEF MarkDangling
  <1>6. m \in Seq(Handler) /\ StateChange(s) \in Handler
    BY <1>0, <1>1, MarkDanglingProperties, HandlerMembers DEF TypeOK
  <1>7. RestartsLast(m)
    BY <1>1, <1>5 DEF RestartsLast
  <1> HIDE DEF m
  <1>8. queue' = Append(m, StateChange(s))
    BY <1>2 DEF m
  <1>9. \A i \in DOMAIN queue' : \/ i \in DOMAIN q /\ queue'[i] = q[i]
                                 \/ queue'[i] = StateChange(s)
    BY <1>5, <1>6, <1>8
  <1>10. RestartsLast(queue')
    BY <1>6, <1>7, <1>8, RestartsLastAppend DEF StateChange
  <1>11. ASSUME NEW i \in DOMAIN queue'
         PROVE  Fits(queue[i])'
    <2>1. CASE i \in DOMAIN q /\ queue'[i] = q[i]
      BY <1>1, <1>2, <1>3, <1>4, <2>1 DEF Fits
    <2>2. CASE queue'[i] = StateChange(s)
      BY <1>4, <2>2 DEF Fits, StateChange
    <2> QED BY <1>9, <2>1, <2>2
  <1>12. \A t \in Services : restartTimer'[t] => child'[t] = "NULL" /\ runningTimestamp'[t] = "none"
    BY <1>0, <1>1, <1>2, <1>4 DEF Disciplined
  <1> QED BY <1>10, <1>11, <1>12 DEF Disciplined, RestartsLast

\* Reaping changes the state of children and posts their reports; it neither
\* makes nor destroys a child.
LEMMA SignalHandlerKeeps ==
  ASSUME RestartInv, SignalHandler
  PROVE  /\ \A s \in Services : child'[s] = "NULL" <=> child[s] = "NULL"
         /\ \A i \in DOMAIN queue' :
              \/ i \in DOMAIN Tail(queue) /\ queue'[i] = Tail(queue)[i]
              \/ \E s \in zombies \cap Services : queue'[i] = StateChange(s)
         /\ RestartsLast(Tail(queue)) => RestartsLast(queue')
         /\ \A s \in zombies \cap Services : child'[s] # "NULL"
  <1>0. TypeOK /\ Tail(queue) \in Seq(Handler)
    BY RunningHandler DEF RestartInv, OrderInv, SignalHandler
  <1>1. PICK exitOk \in SUBSET (zombies \cap Services) :
          LET dead == zombies \cap Services
              reporting == {s \in dead : StateAfterExit(s, exitOk) \in {"DEAD", "EXPECTDEAD"}}
          IN  /\ child' = [s \in Services |->
                             IF s \in dead THEN StateAfterExit(s, exitOk) ELSE child[s]]
              /\ \E reports \in Reports(reporting) : queue' = Tail(queue) \o reports
    BY DEF SignalHandler
  <1> DEFINE dead == zombies \cap Services
             reporting == {s \in dead : StateAfterExit(s, exitOk) \in {"DEAD", "EXPECTDEAD"}}
  <1>2. PICK r \in Reports(reporting) : queue' = Tail(queue) \o r
    BY <1>1
  <1>3. reporting \in SUBSET Services /\ reporting \subseteq dead
    OBVIOUS
  <1>4. \A s \in dead : child[s] # "NULL" /\ child'[s] # "NULL"
    BY <1>0, <1>1 DEF TypeOK, StateAfterExit
  <1>5. \A s \in Services : s \notin dead => child'[s] = child[s]
    BY <1>1
  <1> DEFINE q == Tail(queue)
  <1>6. q \in Seq(Handler) /\ queue' = q \o r
    BY <1>0, <1>2
  <1> HIDE DEF q, dead, reporting
  <1>7. r \in Seq(Handler) /\ \A i \in DOMAIN r : \E s \in reporting : r[i] = StateChange(s)
    BY <1>3, ReportsType, ReportsContent
  <1>8. \A i \in DOMAIN queue' : \/ i \in DOMAIN q /\ queue'[i] = q[i]
                                 \/ \E s \in dead : queue'[i] = StateChange(s)
    BY <1>3, <1>6, <1>7, Positions
  <1>9. RestartsLast(q) => RestartsLast(queue')
    BY <1>6, <1>7, RestartsLastConcat DEF StateChange
  <1> QED BY <1>4, <1>5, <1>8, <1>9 DEF q, dead

LEMMA SignalHandlerDisciplined ==
  ASSUME RestartInv, FirstRun, SignalHandler
  PROVE  Disciplined'
  <1>0. TypeOK /\ Disciplined /\ Running("sigchld")
    BY DEF RestartInv, OrderInv, SignalHandler
  <1>1. UNCHANGED <<started, restartTimer, runningTimestamp>>
    BY DEF SignalHandler
  <1>2. /\ Tail(queue) \in Seq(Handler)
        /\ \A i \in DOMAIN Tail(queue) : Fits(Tail(queue)[i])
        /\ RestartsLast(Tail(queue))
    BY <1>0, Consumed
  <1>3. \A i \in DOMAIN Tail(queue) :
          Tail(queue)[i].kind \in {"stateChange", "dangling", "restart"} => Tail(queue)[i].name \in Services
    <2>1. \A i \in DOMAIN Tail(queue) : Tail(queue)[i] \in Handler
      BY <1>2
    <2> QED BY <2>1, HandlerNames
  <1>4. ASSUME NEW i \in DOMAIN queue'
        PROVE  Fits(queue[i])'
    <2>1. CASE i \in DOMAIN Tail(queue) /\ queue'[i] = Tail(queue)[i]
      BY <1>1, <1>2, <1>3, <2>1, SignalHandlerKeeps DEF Fits
    <2>2. CASE \E s \in zombies \cap Services : queue'[i] = StateChange(s)
      BY <2>2, SignalHandlerKeeps DEF Fits, StateChange
    <2> QED BY <2>1, <2>2, SignalHandlerKeeps
  <1> QED BY <1>0, <1>1, <1>2, <1>4, SignalHandlerKeeps DEF Disciplined, RestartsLast

LEMMA RunHandlerDisciplined ==
  ASSUME RestartInv, daemon = "up", RunHandler, FirstRun'
  PROVE  Disciplined'
  <1> USE DEF progress, services, host
  <1>0. TypeOK
    BY DEF RestartInv, OrderInv
  <1>1. CASE UseAfterFree \/ MapCorruption \/ NullDereference \/ CleanupHandler
    BY <1>1 DEF UseAfterFree, MapCorruption, NullDereference, CleanupHandler, FirstRun
  <1>2. CASE ReportHandler \/ StaleReportHandler
    <2> DEFINE s == Head(queue).name
               q == Tail(queue)
    <2>1. PICK st : StateChangeCb(s, st, q) /\ (ReportHandler => st = child[s])
                                            /\ (StaleReportHandler => st = Head(queue).last)
      <3>1. CASE ReportHandler
        <4>1. Head(queue).kind = "stateChange" /\ StateChangeCb(s, child[s], q)
          BY <3>1 DEF ReportHandler, Running
        <4>2. ~StaleReportHandler
          BY <4>1 DEF StaleReportHandler, Running
        <4> QED BY <4>1, <4>2
      <3>2. CASE StaleReportHandler
        <4>1. Head(queue).kind = "dangling" /\ StateChangeCb(s, Head(queue).last, q)
          BY <3>2 DEF StaleReportHandler, Running
        <4>2. ~ReportHandler
          BY <4>1 DEF ReportHandler, Running
        <4> QED BY <4>1, <4>2
      <3> QED BY <1>2, <3>1, <3>2
    <2>2. FirstRun /\ Disciplined
      <3>1. daemon = "up" /\ starts = 1 /\ (state' # "TERMINARED" => state # "TERMINARED")
        BY <1>2, <2>1 DEF StateChangeCb, StartupDone, StartDependents, RememberReady, GiveUp,
                          ArmRestart, ReportIgnored, FirstRun
      <3> QED BY <3>1 DEF FirstRun, RestartInv
    <2>3. /\ q \in Seq(Handler) /\ Head(queue) \in Handler
          /\ Head(queue).kind \in {"stateChange", "dangling"}
          /\ \A i \in DOMAIN q : Fits(q[i])
          /\ RestartsLast(q)
          /\ Fits(Head(queue))
      BY <1>0, <1>2, <2>2, Consumed DEF ReportHandler, StaleReportHandler
    <2>4. s \in Services
      BY <2>3, HandlerNames
    <2>5. /\ st = "RUNNING" => child[s] = "RUNNING"
          /\ st = "DEAD" => child[s] \in {"DEAD", "NULL"}
      <3>1. CASE ReportHandler
        BY <2>1, <3>1
      <3>2. CASE StaleReportHandler
        BY <2>1, <2>3, <3>2 DEF Fits, StaleReportHandler, Running
      <3> QED BY <1>2, <3>1, <3>2
    <2> HIDE DEF s, q
    <2> QED BY <2>1, <2>2, <2>3, <2>4, <2>5, StateChangeCbDisciplined
  <1>3. CASE RestartTimeoutHandler
    BY <1>3, RestartTimeoutHandlerDisciplined DEF RestartTimeoutHandler, FirstRun
  <1>4. CASE SignalHandler
    BY <1>4, SignalHandlerDisciplined DEF SignalHandler, FirstRun
  <1>5. CASE NotifyTerminationHandler
    <2>1. /\ FirstRun /\ Disciplined /\ Running("notifyTermination") /\ queue' = Tail(queue)
          /\ UNCHANGED services
      BY <1>5 DEF NotifyTerminationHandler, FirstRun, RestartInv
    <2>2. /\ \A i \in DOMAIN Tail(queue) : Fits(Tail(queue)[i])
          /\ RestartsLast(Tail(queue))
      BY <1>0, <2>1, Consumed
    <2> QED BY <2>1, <2>2 DEF Disciplined, Fits, RestartsLast
  <1> QED BY <1>1, <1>2, <1>3, <1>4, <1>5 DEF RunHandler

\* Before the first start() only adopted processes exit, and reaping them posts
\* nothing.
LEMMA NothingQueuedStep ==
  ASSUME RestartInv, daemon = "up", World \/ RunHandler
  PROVE  NothingQueued'
  <1> USE DEF progress, services, host
  <1>0. TypeOK /\ queue \in Seq(Handler)
    BY DEF RestartInv, OrderInv, TypeOK
  <1> SUFFICES ASSUME starts' = 0
               PROVE  \A i \in DOMAIN queue' : queue'[i].kind \in {"sigchld", "notifyTermination"}
    BY DEF NothingQueued
  <1>1. starts = 0
    BY DEF World, ChildReady, ChildTimeout, SetProcessState, ChildExit, AdoptedExit, Exits,
           RestartTimerExpires, MinutePasses, RunHandler, ReportHandler, StaleReportHandler,
           StateChangeCb, UseAfterFree, RestartTimeoutHandler, MapCorruption, SignalHandler,
           NullDereference, NotifyTerminationHandler, CleanupHandler
  <1>2. /\ \A i \in DOMAIN queue : queue[i].kind \in {"sigchld", "notifyTermination"}
        /\ \A s \in Services : child[s] = "NULL" /\ ~restartTimer[s] /\ s \notin zombies
    BY <1>0, <1>1 DEF RestartInv, OrderInv, NothingQueued, TypeOK
  <1>3. CASE World
    <2>1. ASSUME NEW p, Exits(p)
          PROVE  \A i \in DOMAIN queue' : queue'[i] = Sigchld \/ (i \in DOMAIN queue /\ queue'[i] = queue[i])
      BY <1>0, <2>1, HandlerMembers DEF Exits
    <2>2. ASSUME NEW s \in Services, MinutePasses(s)
          PROVE  queue' = queue
      BY <2>2 DEF MinutePasses
    <2>3. ASSUME NEW s \in Services
          PROVE  ~ChildReady(s) /\ ~ChildTimeout(s) /\ ~RestartTimerExpires(s)
      BY <1>2, <2>3 DEF ChildReady, ChildTimeout, RestartTimerExpires
    <2>4. (\E p : Exits(p)) \/ (\E s \in Services : MinutePasses(s))
      BY <1>3, <2>3 DEF World, ChildExit, AdoptedExit
    <2> QED BY <1>2, <2>1, <2>2, <2>4 DEF Sigchld
  <1>4. CASE RunHandler
    <2>1. queue # << >> => 1 \in DOMAIN queue /\ Head(queue) = queue[1]
                           /\ \A i \in DOMAIN Tail(queue) : i + 1 \in DOMAIN queue
                                                            /\ Tail(queue)[i] = queue[i + 1]
      BY <1>0, Positions
    <2>2. queue # << >> => Head(queue).kind \in {"sigchld", "notifyTermination"}
      BY <1>2, <2>1
    <2>3. SignalHandler \/ NullDereference \/ NotifyTerminationHandler
      BY <1>4, <2>2 DEF RunHandler, ReportHandler, StaleReportHandler, UseAfterFree,
            RestartTimeoutHandler, MapCorruption, CleanupHandler, Running
    <2>4. CASE SignalHandler
      <3>1. zombies \cap Services = {} /\ queue # << >>
        BY <1>2, <2>4 DEF SignalHandler, Running
      <3> QED BY <1>2, <2>1, <2>4, <3>1, SignalHandlerKeeps
    <2>5. CASE NullDereference \/ NotifyTerminationHandler
      BY <1>2, <2>1, <2>5 DEF NullDereference, NotifyTerminationHandler, Running
    <2> QED BY <2>3, <2>4, <2>5
  <1> QED BY <1>3, <1>4

LEMMA InitRestart == Init => RestartInv
  <1> SUFFICES ASSUME Init
               PROVE  RestartInv
    OBVIOUS
  <1>1. NothingQueued /\ ~FirstRun
    BY DEF Init, NothingQueued, FirstRun
  <1> QED BY <1>1, InitOrdered DEF RestartInv

LEMMA StepRestart == RestartInv /\ [Next]_vars => RestartInv'
  <1> SUFFICES ASSUME RestartInv, [Next]_vars
               PROVE  RestartInv'
    OBVIOUS
  <1>1. OrderInv' /\ TypeOK
    BY StepOrdered DEF RestartInv, OrderInv
  <1>2. CASE UNCHANGED vars
    <2>1. NothingQueued' /\ (FirstRun' <=> FirstRun) /\ (Disciplined => Disciplined')
      BY <1>2 DEF vars, progress, services, host, RestartInv, NothingQueued, FirstRun, Disciplined,
                  Fits, RestartsLast
    <2> QED BY <1>1, <2>1 DEF RestartInv
  <1>3. CASE daemon = "up" /\ Host
    BY <1>1, <1>3, HostDisciplined DEF RestartInv
  <1>4. CASE daemon = "up" /\ World
    <2>1. FirstRun' => FirstRun
      BY <1>4 DEF FirstRun, progress, host, World, ChildReady, ChildTimeout, SetProcessState,
                  ChildExit, AdoptedExit, Exits, RestartTimerExpires, MinutePasses
    <2> QED BY <1>1, <1>4, <2>1, WorldDisciplined, NothingQueuedStep DEF RestartInv
  <1>5. CASE daemon = "up" /\ RunHandler
    BY <1>1, <1>5, RunHandlerDisciplined, NothingQueuedStep DEF RestartInv
  <1> QED BY <1>2, <1>3, <1>4, <1>5 DEF Next

LEMMA DisciplineMakesExclusive ==
  ASSUME RestartInv
  PROVE  RestartExclusive
  <1> SUFFICES ASSUME FirstRun, NEW s \in Services
               PROVE  LET due == {i \in DOMAIN queue : queue[i] = RestartTimeout(s)}
                      IN  /\ restartTimer[s] \/ due # {} => child[s] = "NULL"
                          /\ Cardinality(due) + (IF restartTimer[s] THEN 1 ELSE 0) <= 1
    BY DEF RestartExclusive, FirstRun
  <1> DEFINE due == {i \in DOMAIN queue : queue[i] = RestartTimeout(s)}
  <1>1. Disciplined /\ TypeOK
    BY DEF RestartInv, OrderInv
  <1>2. restartTimer[s] => child[s] = "NULL" /\ due = {}
    BY <1>1 DEF Disciplined, Fits, RestartTimeout
  <1>3. due # {} => child[s] = "NULL"
    BY <1>1 DEF Disciplined, Fits, RestartTimeout
  <1>4. \A i, j \in due : i = j
    <2>1. \A i, j \in due : j <= i /\ i <= j /\ i \in Int /\ j \in Int
      BY <1>1 DEF Disciplined, RestartsLast, RestartTimeout, TypeOK
    <2> QED BY <2>1
  <1> HIDE DEF due
  <1>5. due = {} \/ \E i : due = {i}
    BY <1>4
  <1>6. Cardinality(due) \in {0, 1} /\ (due = {} => Cardinality(due) = 0)
    BY <1>5, FS_EmptySet, FS_Singleton
  <1>7. /\ restartTimer[s] \/ due # {} => child[s] = "NULL"
        /\ Cardinality(due) + (IF restartTimer[s] THEN 1 ELSE 0) <= 1
    BY <1>2, <1>3, <1>6
  <1> QED BY <1>7 DEF due

\* A restart, armed or due, is the only one of its service and never replaces a
\* live child.
THEOREM RestartsAreExclusive == Spec => []RestartExclusive
  BY DisciplineMakesExclusive, InitRestart, StepRestart, PTL DEF Spec

-----------------------------------------------------------------------------
(* The end of the startup is found out by a report, so one must be queued   *)
(* whenever all that is started runs and nothing waits.                     *)

HasReport(q) == \E i \in DOMAIN q : q[i].kind = "stateChange"

\* What else is posted, or consumed, leaves a report in the queue.
LEMMA ReportStays ==
  ASSUME NEW q \in Seq(Handler), HasReport(q)
  PROVE  /\ \A h \in Handler : HasReport(Append(q, h))
         /\ q # << >> /\ Head(q).kind # "stateChange" => HasReport(Tail(q))
         /\ \A r \in Seq(Handler) : HasReport(q \o r)
  <1>1. PICK i \in 1..Len(q) : q[i].kind = "stateChange"
    BY DEF HasReport
  <1>2. ASSUME NEW h \in Handler
        PROVE  HasReport(Append(q, h))
    <2>1. i \in DOMAIN Append(q, h) /\ Append(q, h)[i] = q[i]
      BY <1>1
    <2> QED BY <1>1, <2>1 DEF HasReport
  <1>3. ASSUME NEW r \in Seq(Handler)
        PROVE  HasReport(q \o r)
    <2>1. i \in DOMAIN (q \o r) /\ (q \o r)[i] = q[i]
      BY <1>1
    <2> QED BY <1>1, <2>1 DEF HasReport
  <1>4. ASSUME q # << >>, Head(q).kind # "stateChange"
        PROVE  HasReport(Tail(q))
    <2>1. i # 1
      BY <1>1, <1>4
    <2>2. i - 1 \in DOMAIN Tail(q) /\ Tail(q)[i - 1] = q[i]
      BY <1>1, <1>4, <2>1
    <2> QED BY <1>1, <2>2 DEF HasReport
  <1> QED BY <1>2, <1>3, <1>4

\* A report that is posted is queued.
LEMMA ReportPosted ==
  ASSUME NEW q \in Seq(Handler), NEW s \in Services
  PROVE  HasReport(Append(q, StateChange(s)))
  <1>1. StateChange(s) \in Handler /\ StateChange(s).kind = "stateChange"
    BY HandlerMembers DEF StateChange
  <1>2. Len(q) + 1 \in DOMAIN Append(q, StateChange(s))
        /\ Append(q, StateChange(s))[Len(q) + 1] = StateChange(s)
    BY <1>1, Positions
  <1> QED BY <1>1, <1>2 DEF HasReport

\* So is one of every service that is launched and new to the map.
LEMMA LaunchPosts ==
  ASSUME NEW S \in SUBSET Services, S \cap started = {}, S # {}, NEW q \in Seq(Handler),
         Launch(S, q)
  PROVE  HasReport(queue')
  <1>0. S \ started = S
    OBVIOUS
  <1>1. PICK o \in SetToSeqs(S) :
          queue' = q \o [i \in DOMAIN o |-> IF o[i] \in S \ started THEN StateChange(o[i])
                                             ELSE Dangling(o[i], InitialState(o[i]))]
    BY DEF Launch
  <1> DEFINE r == [i \in DOMAIN o |-> IF o[i] \in S \ started THEN StateChange(o[i])
                                      ELSE Dangling(o[i], InitialState(o[i]))]
  <1>2. r \in Seq(Handler)
    BY LaunchReportsType
  <1>3. Cardinality(S) \in Nat /\ Cardinality(S) # 0
    BY ServicesAssumption, FS_Subset, FS_CardinalityType, FS_EmptySet
  <1>4. o \in [1..Cardinality(S) -> S] /\ 1 \in 1..Cardinality(S)
    BY <1>3 DEF SetToSeqs
  <1>5. 1 \in DOMAIN r /\ r[1].kind = "stateChange"
    BY <1>0, <1>4 DEF StateChange
  <1> HIDE DEF r
  <1>6. queue' = q \o r
    BY <1>1 DEF r
  <1>7. Len(q) + 1 \in DOMAIN queue' /\ queue'[Len(q) + 1] = r[1]
    BY <1>2, <1>5, <1>6
  <1> QED BY <1>5, <1>7 DEF HasReport

\* A service that is started and does not run keeps the startup from being over.
LEMMA NotAllRunning ==
  ASSUME NEW s \in started', child'[s] # "RUNNING"
  PROVE  ~AllChildProcessesRunning'
  BY DEF AllChildProcessesRunning

LEMMA StateChangeCbLosesNothing ==
  ASSUME RestartInv, FirstRun, NEW s \in Services, NEW st, NEW q \in Seq(Handler),
         (st = child[s] /\ st # "NULL") \/ st = "DEAD", StateChangeCb(s, st, q),
         state' = "STARTING", AllChildProcessesRunning'
  PROVE  HasReport(queue')
  <1>0. TypeOK /\ starts = 1 /\ daemon = "up"
    BY DEF RestartInv, OrderInv, FirstRun
  <1>1. CASE StartDependents(s, st, q)
    <2> DEFINE S == Freed(startupMap, s)
    <2>1. S \in SUBSET Services /\ S \cap started = {} /\ Launch(S, q)
      BY <1>0, <1>1 DEF StartDependents, Freed, RestartInv, OrderInv, StartupMapFollowsReports
    <2>2. ASSUME S = {}
          PROVE  FALSE
      <3>1. started' = started /\ child' = child
        BY <1>0, <2>1, <2>2 DEF Launch, TypeOK
      <3>2. \A k \in Services : startupMap[k] \ {s} = {}
        BY <1>1 DEF StartDependents, Prune, AllChildProcessesRunning
      <3>3. \A k \in Services : startupMap[k] = {}
        BY <2>2, <3>2 DEF Freed
      <3>4. AllChildProcessesRunning
        BY <3>1, <3>3 DEF AllChildProcessesRunning
      <3> QED BY <1>1, <3>4 DEF StartDependents
    <2> HIDE DEF S
    <2> QED BY <2>1, <2>2, LaunchPosts
  <1>2. CASE GiveUp(s, st, q) \/ ArmRestart(s, st, q)
    <2>1. s \in started' /\ child'[s] = "NULL"
      BY <1>0, <1>2 DEF GiveUp, ArmRestart, ResetServiceAndProcess, StateChangeCb, LooksUp, TypeOK
    <2> QED BY <2>1, NotAllRunning
  <1>3. CASE ReportIgnored(st, q)
    <2>1. st \notin {"RUNNING", "DEAD"} /\ child' = child /\ started' = started
      BY <1>3 DEF ReportIgnored, progress, services
    <2>2. s \in started' /\ child'[s] # "RUNNING"
      BY <1>0, <2>1 DEF TypeOK
    <2> QED BY <2>2, NotAllRunning
  <1> QED BY <1>1, <1>2, <1>3 DEF StateChangeCb, StartupDone, RememberReady

LEMMA WorldLosesNothing ==
  ASSUME RestartInv, StartupNotLost, daemon = "up", World, starts' = 1, state' = "STARTING",
         Services # {}, AllChildProcessesRunning'
  PROVE  HasReport(queue')
  <1> USE DEF progress, services, host
  <1>0. TypeOK /\ queue \in Seq(Handler)
    BY DEF RestartInv, OrderInv, TypeOK
  <1>1. UNCHANGED <<state, starts, startupMap, started>>
    BY DEF World, ChildReady, ChildTimeout, SetProcessState, ChildExit, AdoptedExit, Exits,
           RestartTimerExpires, MinutePasses
  <1>2. ASSUME NEW s \in Services, NEW st, SetProcessState(s, st)
        PROVE  HasReport(queue')
    BY <1>0, <1>2, ReportPosted DEF SetProcessState
  <1>3. ASSUME child' = child, \/ queue' = queue
                               \/ \E h \in Handler : queue' = Append(queue, h)
        PROVE  HasReport(queue')
    <2>1. AllChildProcessesRunning
      BY <1>1, <1>3 DEF AllChildProcessesRunning
    <2>2. HasReport(queue)
      BY <1>1, <2>1 DEF StartupNotLost, HasReport
    <2> QED BY <1>0, <1>3, <2>2, ReportStays
  <1>4. ASSUME NEW p, Exits(p)
        PROVE  HasReport(queue')
    BY <1>3, <1>4, HandlerMembers DEF Exits
  <1>5. ASSUME NEW s \in Services, RestartTimerExpires(s) \/ MinutePasses(s)
        PROVE  HasReport(queue')
    BY <1>3, <1>5, HandlerMembers DEF RestartTimerExpires, MinutePasses
  <1> QED BY <1>2, <1>4, <1>5 DEF World, ChildReady, ChildTimeout, ChildExit, AdoptedExit

LEMMA RunHandlerLosesNothing ==
  ASSUME RestartInv, StartupNotLost, daemon = "up", RunHandler, daemon' = "up", starts' = 1,
         state' = "STARTING", Services # {}, AllChildProcessesRunning'
  PROVE  HasReport(queue')
  <1> USE DEF progress, services, host
  <1>0. TypeOK /\ queue \in Seq(Handler)
    BY DEF RestartInv, OrderInv, TypeOK
  <1>1. FirstRun /\ Disciplined
    <2>1. starts = 1
      BY DEF RunHandler, ReportHandler, StaleReportHandler,
           StateChangeCb, UseAfterFree, RestartTimeoutHandler, MapCorruption, SignalHandler,
           NullDereference, NotifyTerminationHandler, CleanupHandler
    <2>2. state # "TERMINARED"
      BY DEF RunHandler, ReportHandler, StaleReportHandler, StateChangeCb, StartupDone,
           StartDependents, RememberReady, GiveUp, ArmRestart, ReportIgnored, UseAfterFree,
           RestartTimeoutHandler, MapCorruption, SignalHandler, NullDereference,
           NotifyTerminationHandler, CleanupHandler
    <2> QED BY <2>1, <2>2 DEF FirstRun, RestartInv
  <1>2. CASE ReportHandler \/ StaleReportHandler
    <2> DEFINE s == Head(queue).name
               q == Tail(queue)
    <2>1. PICK k \in {"stateChange", "dangling"} : Running(k)
      BY <1>2 DEF ReportHandler, StaleReportHandler
    <2>2. q \in Seq(Handler) /\ Head(queue) \in Handler /\ Head(queue).kind = k /\ Fits(Head(queue))
      BY <1>0, <1>1, <2>1, Consumed
    <2>3. s \in Services
      BY <2>2, HandlerNames
    <2>4. \E st : /\ (st = child[s] /\ st # "NULL") \/ st = "DEAD"
                  /\ StateChangeCb(s, st, q)
      BY <1>2, <2>2 DEF ReportHandler, StaleReportHandler, Running, Fits
    <2> HIDE DEF s, q
    <2> QED BY <1>1, <2>2, <2>3, <2>4, StateChangeCbLosesNothing
  <1>3. CASE RestartTimeoutHandler
    <2>1. /\ queue' = Append(MarkDangling(Tail(queue), {Head(queue).name}), StateChange(Head(queue).name))
          /\ Tail(queue) \in Seq(Handler) /\ Head(queue).name \in Services
      BY <1>0, <1>3, RunningHandler, HandlerNames DEF RestartTimeoutHandler
    <2>2. MarkDangling(Tail(queue), {Head(queue).name}) \in Seq(Handler)
      BY <1>0, <2>1, MarkDanglingProperties DEF TypeOK
    <2> QED BY <2>1, <2>2, ReportPosted
  <1>4. CASE SignalHandler
    <2>1. /\ UNCHANGED <<state, starts, startupMap, started>>
          /\ Head(queue).kind = "sigchld" /\ queue # << >>
      BY <1>4 DEF SignalHandler, Running
    <2>2. PICK exitOk \in SUBSET (zombies \cap Services) :
            LET dead == zombies \cap Services
                reporting == {s \in dead : StateAfterExit(s, exitOk) \in {"DEAD", "EXPECTDEAD"}}
            IN  /\ child' = [s \in Services |->
                               IF s \in dead THEN StateAfterExit(s, exitOk) ELSE child[s]]
                /\ \E reports \in Reports(reporting) : queue' = Tail(queue) \o reports
      BY <1>4 DEF SignalHandler
    <2> DEFINE reporting == {s \in zombies \cap Services :
                               StateAfterExit(s, exitOk) \in {"DEAD", "EXPECTDEAD"}}
    <2>3. PICK r \in Reports(reporting) : queue' = Tail(queue) \o r
      BY <2>2
    <2>4. \A s \in Services : child'[s] = "RUNNING" => child[s] = "RUNNING"
      BY <2>2 DEF StateAfterExit
    <2>5. AllChildProcessesRunning
      BY <1>0, <2>1, <2>4 DEF AllChildProcessesRunning, TypeOK
    <2>6. HasReport(queue)
      BY <2>1, <2>5 DEF StartupNotLost, HasReport
    <2>7. HasReport(Tail(queue)) /\ Tail(queue) \in Seq(Handler)
      BY <1>0, <2>1, <2>6, ReportStays
    <2>8. reporting \in SUBSET Services
      OBVIOUS
    <2> HIDE DEF reporting
    <2>9. r \in Seq(Handler)
      BY <2>8, ReportsType
    <2> QED BY <2>3, <2>7, <2>9, ReportStays
  <1>5. CASE NotifyTerminationHandler
    <2>1. /\ UNCHANGED <<state, starts, startupMap, started, child>>
          /\ Head(queue).kind = "notifyTermination" /\ queue # << >> /\ queue' = Tail(queue)
      BY <1>5 DEF NotifyTerminationHandler, Running
    <2>2. AllChildProcessesRunning
      BY <2>1 DEF AllChildProcessesRunning
    <2>3. HasReport(queue)
      BY <2>1, <2>2 DEF StartupNotLost, HasReport
    <2> QED BY <1>0, <2>1, <2>3, ReportStays
  <1> QED BY <1>2, <1>3, <1>4, <1>5
          DEF RunHandler, UseAfterFree, MapCorruption, NullDereference, CleanupHandler

LEMMA StepLosesNothing ==
  ASSUME RestartInv, StartupNotLost, [Next]_vars
  PROVE  StartupNotLost'
  <1> USE DEF progress, services, host
  <1> SUFFICES ASSUME daemon' = "up", starts' = 1, state' = "STARTING", Services # {},
                      AllChildProcessesRunning'
               PROVE  HasReport(queue')
    BY DEF StartupNotLost, HasReport
  <1>1. CASE UNCHANGED vars
    BY <1>1 DEF vars, StartupNotLost, AllChildProcessesRunning, HasReport
  <1>2. CASE daemon = "up" /\ Host
    <2>1. Start
      BY <1>2 DEF Host, StartTerminatingWhileStarting, HostForceTerminate, ForceTerminate,
                  StartTerminating
    <2> DEFINE S == {s \in Services : StartAfter[s] = {}}
    <2>2. starts = 0 /\ queue \in Seq(Handler)
      BY <2>1, BoundsAssumption DEF Start, RestartInv, OrderInv, TypeOK
    <2>3. started = {}
      BY <2>2 DEF RestartInv, OrderInv
    <2>4. S = Services /\ Launch(S, queue)
      BY <2>1, GraphAssumption DEF Start, AllChildProcessesRunning
    <2> HIDE DEF S
    <2> QED BY <2>2, <2>3, <2>4, LaunchPosts
  <1>3. CASE daemon = "up" /\ World
    BY <1>3, WorldLosesNothing
  <1>4. CASE daemon = "up" /\ RunHandler
    BY <1>4, RunHandlerLosesNothing
  <1> QED BY <1>1, <1>2, <1>3, <1>4 DEF Next

\* The first startup never stalls with nothing left to wait for: when every
\* service runs, a report that will find that out is queued.
THEOREM StartupIsNotLost == Spec => []StartupNotLost
  <1>1. Init => StartupNotLost
    BY DEF Init, StartupNotLost
  <1>2. RestartInv /\ StartupNotLost /\ [Next]_vars => StartupNotLost'
    BY StepLosesNothing
  <1> QED BY <1>1, <1>2, InitRestart, StepRestart, PTL DEF Spec

-----------------------------------------------------------------------------
(* The entries of the map: a handler finds the one it looks up, and one      *)
(* without a child is looked after.                                          *)

\* No handler of the first run looks in vain for its service: what is queued
\* fits, and a report, live or dangling, or a restart of a service has an entry.
THEOREM AbortsOnlyWhenCleared == Spec => []AbortOnlyAfterClear
  <1> USE DEF progress, services, host
  <1>1. Init => AbortOnlyAfterClear
    BY DEF Init, AbortOnlyAfterClear
  <1>2. ASSUME RestartInv, AbortOnlyAfterClear, [Next]_vars
        PROVE  AbortOnlyAfterClear'
    <2>1. CASE UNCHANGED vars
      BY <1>2, <2>1 DEF vars, AbortOnlyAfterClear
    <2>2. CASE daemon = "up" /\ MapCorruption
      <3>1. TypeOK /\ state' = state /\ starts' = starts
        BY <1>2, <2>2 DEF RestartInv, OrderInv, MapCorruption
      <3>2. CASE FirstRun
        <4>1. Disciplined
          BY <1>2, <3>2 DEF RestartInv
        <4>2. PICK k \in {"stateChange", "dangling", "restart"} : Running(k)
          BY <2>2 DEF MapCorruption
        <4>3. Head(queue) \in Handler /\ Head(queue).kind = k /\ Fits(Head(queue))
          BY <3>1, <4>1, <4>2, Consumed
        <4>4. Head(queue).name \in Services /\ Head(queue).name \notin started
          BY <2>2, <4>2, <4>3, HandlerNames DEF MapCorruption
        <4> QED BY <3>1, <4>3, <4>4 DEF Fits, TypeOK
      <3>3. CASE ~FirstRun
        BY <2>2, <3>1, <3>3 DEF FirstRun, AbortOnlyAfterClear
      <3> QED BY <3>2, <3>3
    <2>3. CASE daemon = "up" /\ ~MapCorruption
      <3>1. daemon' # "aborted"
        BY <1>2, <2>3 DEF Next, vars, Host, Start, StartTerminatingWhileStarting, StartTerminating,
           HostForceTerminate, ForceTerminate, World, ChildReady, ChildTimeout, SetProcessState,
           ChildExit, AdoptedExit, Exits, RestartTimerExpires, MinutePasses, RunHandler,
           ReportHandler, StaleReportHandler, StateChangeCb, UseAfterFree, RestartTimeoutHandler,
           SignalHandler, NullDereference, NotifyTerminationHandler, CleanupHandler
      <3> QED BY <3>1 DEF AbortOnlyAfterClear
    <2> QED BY <1>2, <2>1, <2>2, <2>3 DEF Next
  <1> QED BY <1>1, <1>2, InitRestart, StepRestart, PTL DEF Spec

InQueue(q, h) == \E i \in DOMAIN q : q[i] = h

\* A handler that is no report stays in the queue until it runs.
LEMMA HandlerStays ==
  ASSUME NEW q \in Seq(Handler), NEW h, h.kind # "stateChange", InQueue(q, h)
  PROVE  /\ \A g \in Handler : InQueue(Append(q, g), h)
         /\ \A r \in Seq(Handler) : InQueue(q \o r, h)
         /\ \A S : InQueue(MarkDangling(q, S), h)
         /\ q # << >> /\ Head(q) # h => InQueue(Tail(q), h)
  <1>1. PICK i \in DOMAIN q : q[i] = h
    BY DEF InQueue
  <1>2. ASSUME NEW g \in Handler
        PROVE  InQueue(Append(q, g), h)
    BY <1>1, Positions DEF InQueue
  <1>3. ASSUME NEW r \in Seq(Handler)
        PROVE  InQueue(q \o r, h)
    <2>1. i \in DOMAIN (q \o r) /\ (q \o r)[i] = q[i]
      BY <1>1
    <2> QED BY <1>1, <2>1 DEF InQueue
  <1>4. ASSUME NEW S
        PROVE  InQueue(MarkDangling(q, S), h)
    <2>1. i \in DOMAIN MarkDangling(q, S) /\ MarkDangling(q, S)[i] = h
      BY <1>1 DEF MarkDangling
    <2> QED BY <2>1 DEF InQueue
  <1>5. ASSUME q # << >>, Head(q) # h
        PROVE  InQueue(Tail(q), h)
    <2>1. i # 1
      BY <1>1, <1>5
    <2>2. i - 1 \in DOMAIN Tail(q) /\ Tail(q)[i - 1] = q[i]
      BY <1>1, <1>5, <2>1
    <2> QED BY <1>1, <2>2 DEF InQueue
  <1> QED BY <1>2, <1>3, <1>4, <1>5

\* The handlers that look after the entry of s.
Answers(s) == {RestartTimeout(s), TerminateWithCleanup}

LookedAfter(s) == restartTimer[s] \/ \E h \in Answers(s) : InQueue(queue, h)

LEMMA AnswersStay ==
  ASSUME NEW s, NEW h \in Answers(s)
  PROVE  h.kind \in {"restart", "cleanup"} /\ (h.kind = "restart" => h.name = s)
  BY DEF Answers, RestartTimeout, TerminateWithCleanup

\* They stay in the queue whatever is queued behind them, until one of them runs.
LEMMA AnswersKept ==
  ASSUME NEW s, NEW q \in Seq(Handler), NEW h \in Answers(s), InQueue(q, h)
  PROVE  /\ \A g \in Handler : InQueue(Append(q, g), h)
         /\ \A r \in Seq(Handler) : InQueue(q \o r, h)
         /\ \A S : InQueue(MarkDangling(q, S), h)
         /\ q # << >> /\ Head(q).kind \notin {"restart", "cleanup"} => InQueue(Tail(q), h)
  <1>1. h.kind \in {"restart", "cleanup"} /\ h.kind # "stateChange"
    BY AnswersStay
  <1>2. Head(q).kind \notin {"restart", "cleanup"} => Head(q) # h
    BY <1>1
  <1> QED BY <1>1, <1>2, HandlerStays

\* A step that neither cancels the restart of s nor consumes what answers for it.
LEMMA StillLookedAfter ==
  ASSUME NEW s \in Services, TypeOK, LookedAfter(s), restartTimer[s] => restartTimer'[s],
         \A h \in Answers(s) : InQueue(queue, h) => InQueue(queue', h)
  PROVE  LookedAfter(s)'
  BY DEF LookedAfter, Answers, RestartTimeout, TerminateWithCleanup

LEMMA StateChangeCbForgetsNobody ==
  ASSUME TypeOK, NEW k \in {"stateChange", "dangling"}, Running(k), NEW t \in Services, NEW st,
         StateChangeCb(t, st, Tail(queue)), NEW s \in started', child'[s] = "NULL",
         s \in started /\ child[s] = "NULL" => LookedAfter(s)
  PROVE  LookedAfter(s)'
  <1> DEFINE q == Tail(queue)
  <1>0. q \in Seq(Handler) /\ queue \in Seq(Handler) /\ queue # << >> /\ Head(queue).kind = k
    BY RunningHandler DEF TypeOK
  <1>1. \A h \in Answers(s) : /\ h.kind # "stateChange"
                              /\ InQueue(queue, h) => InQueue(q, h)
    BY <1>0, AnswersStay, HandlerStays
  <1> HIDE DEF q
  <1>2. ASSUME s \in started, child[s] = "NULL", s \in Services, restartTimer[s] => restartTimer'[s],
               \A h \in Answers(s) : InQueue(q, h) => InQueue(queue', h)
        PROVE  LookedAfter(s)'
    BY <1>1, <1>2, StillLookedAfter
  <1>3. CASE StartupDone(t, st, q) \/ RememberReady(t, st, q) \/ ReportIgnored(st, q)
    <2>1. UNCHANGED <<child, started, restartTimer>> /\ queue' = q
      BY <1>3 DEF StartupDone, RememberReady, ReportIgnored, services
    <2> QED BY <1>2, <2>1 DEF TypeOK
  <1>4. CASE StartDependents(t, st, q)
    <2> DEFINE S == Freed(startupMap, t)
    <2>1. S \in SUBSET Services /\ Launch(S, q) /\ restartTimer' = restartTimer
      BY <1>4 DEF StartDependents, Freed
    <2> HIDE DEF S
    <2>2. s \in started /\ child[s] = "NULL" /\ s \in Services
      BY <2>1 DEF Launch, InitialState, TypeOK
    <2>3. PICK o \in SetToSeqs(S) :
            queue' = q \o [i \in DOMAIN o |-> IF o[i] \in S \ started THEN StateChange(o[i])
                                               ELSE Dangling(o[i], InitialState(o[i]))]
      BY <2>1 DEF Launch
    <2>4. \A h \in Answers(s) : InQueue(q, h) => InQueue(queue', h)
      BY <1>0, <1>1, <2>1, <2>3, LaunchReportsType, HandlerStays
    <2> QED BY <1>2, <2>1, <2>2, <2>4
  <1>5. CASE GiveUp(t, st, q)
    <2>1. queue' = Append(MarkDangling(q, {t}), TerminateWithCleanup)
      BY <1>5 DEF GiveUp
    <2>2. MarkDangling(q, {t}) \in Seq(Handler) /\ TerminateWithCleanup \in Handler
      BY <1>0, MarkDanglingProperties, HandlerMembers DEF TypeOK
    <2>3. InQueue(queue', TerminateWithCleanup)
      BY <2>1, <2>2, Positions DEF InQueue
    <2> QED BY <2>3 DEF LookedAfter, Answers, TerminateWithCleanup
  <1>6. CASE ArmRestart(t, st, q)
    <2>1. /\ child' = [child EXCEPT ![t] = "NULL"] /\ started' = started
          /\ restartTimer' = [restartTimer EXCEPT ![t] = TRUE]
          /\ queue' = MarkDangling(q, {t})
      BY <1>6 DEF ArmRestart, ResetServiceAndProcess
    <2>2. CASE s = t
      BY <2>1, <2>2 DEF LookedAfter, TypeOK
    <2>3. CASE s # t
      <3>1. s \in started /\ child[s] = "NULL" /\ s \in Services
            /\ (restartTimer[s] => restartTimer'[s])
        BY <2>1, <2>3 DEF TypeOK
      <3>2. \A h \in Answers(s) : InQueue(q, h) => InQueue(queue', h)
        BY <1>0, <1>1, <2>1, HandlerStays
      <3> QED BY <1>2, <3>1, <3>2
    <2> QED BY <2>2, <2>3
  <1> QED BY <1>3, <1>4, <1>5, <1>6 DEF StateChangeCb, q

\* An entry of the first run without a child has its restart armed or due, or
\* init is going down.
THEOREM NobodyIsForgotten == Spec => []NoServiceForgotten
  <1> USE DEF progress, services, host
  <1>1. Init => NoServiceForgotten
    BY DEF Init, NoServiceForgotten
  <1>2. ASSUME RestartInv, NoServiceForgotten, [Next]_vars
        PROVE  NoServiceForgotten'
    <2>0. TypeOK /\ queue \in Seq(Handler)
      BY <1>2 DEF RestartInv, OrderInv, TypeOK
    <2> SUFFICES ASSUME daemon' = "up", starts' = 1, stops' = 0, state' # "TERMINARED",
                        NEW s \in started', child'[s] = "NULL"
                 PROVE  LookedAfter(s)'
      BY DEF NoServiceForgotten, NullEntries, LookedAfter, InQueue, Answers
    <2>1. ASSUME daemon = "up", starts = 1, stops = 0, state # "TERMINARED", s \in started,
                 child[s] = "NULL"
          PROVE  LookedAfter(s)
      BY <1>2, <2>1 DEF NoServiceForgotten, NullEntries, LookedAfter, InQueue, Answers
    <2>2. CASE UNCHANGED vars
      BY <2>1, <2>2 DEF vars, LookedAfter
    <2>3. CASE daemon = "up" /\ Host
      <3>1. Start
        BY <2>0, <2>3, BoundsAssumption DEF Host, StartTerminatingWhileStarting, HostForceTerminate,
                   ForceTerminate, StartTerminating, TypeOK
      <3>2. starts = 0
        BY <2>0, <3>1, BoundsAssumption DEF Start, TypeOK
      <3>3. started = {} /\ Launch({t \in Services : StartAfter[t] = {}}, queue)
        BY <1>2, <3>1, <3>2 DEF RestartInv, OrderInv, Start
      <3> QED BY <3>3 DEF Launch, InitialState
    <2>4. CASE daemon = "up" /\ World
      <3>1. UNCHANGED <<daemon, state, started, starts, stops>>
        BY <2>4 DEF World, ChildReady, ChildTimeout, SetProcessState, ChildExit, AdoptedExit, Exits,
                    RestartTimerExpires, MinutePasses
      <3>2. s \in started /\ s \in Services
        BY <2>0, <3>1 DEF TypeOK
      <3>3. ASSUME child[s] = "NULL", restartTimer' = restartTimer,
                   queue' = queue \/ \E h \in Handler : queue' = Append(queue, h)
            PROVE  LookedAfter(s)'
        <4>1. LookedAfter(s)
          BY <2>1, <2>4, <3>1, <3>2, <3>3
        <4>2. \A h \in Answers(s) : InQueue(queue, h) => InQueue(queue', h)
          BY <2>0, <3>3, AnswersKept
        <4> QED BY <2>0, <3>2, <3>3, <4>1, <4>2, StillLookedAfter
      <3>4. ASSUME NEW t \in Services, ChildReady(t) \/ ChildTimeout(t)
            PROVE  LookedAfter(s)'
        BY <2>0, <3>3, <3>4, HandlerMembers DEF ChildReady, ChildTimeout, SetProcessState, TypeOK
      <3>5. ASSUME NEW p, Exits(p)
            PROVE  LookedAfter(s)'
        BY <3>3, <3>5, HandlerMembers DEF Exits
      <3>6. ASSUME NEW t \in Services, MinutePasses(t)
            PROVE  LookedAfter(s)'
        BY <3>3, <3>6 DEF MinutePasses
      <3>7. ASSUME NEW t \in Services, RestartTimerExpires(t)
            PROVE  LookedAfter(s)'
        <4>1. /\ queue' = Append(queue, RestartTimeout(t)) /\ child' = child
              /\ restartTimer' = [restartTimer EXCEPT ![t] = FALSE]
              /\ RestartTimeout(t) \in Handler
          BY <3>7, HandlerMembers DEF RestartTimerExpires
        <4>2. CASE s = t
          <5>1. InQueue(queue', RestartTimeout(s))
            BY <2>0, <4>1, <4>2, Positions DEF InQueue
          <5> QED BY <5>1 DEF LookedAfter, Answers, RestartTimeout
        <4>3. CASE s # t
          <5>1. LookedAfter(s)
            BY <2>1, <2>4, <3>1, <3>2, <4>1
          <5>2. \A h \in Answers(s) : InQueue(queue, h) => InQueue(queue', h)
            BY <2>0, <4>1, AnswersKept
          <5> QED BY <2>0, <3>2, <4>1, <4>3, <5>1, <5>2, StillLookedAfter DEF TypeOK
        <4> QED BY <4>2, <4>3
      <3> QED BY <2>4, <3>4, <3>5, <3>6, <3>7 DEF World, ChildExit, AdoptedExit
    <2>5. CASE daemon = "up" /\ RunHandler
      <3>1. starts = 1 /\ stops = 0
        BY <2>5 DEF RunHandler, ReportHandler, StaleReportHandler, StateChangeCb, UseAfterFree,
              RestartTimeoutHandler, MapCorruption, SignalHandler, NullDereference,
              NotifyTerminationHandler, CleanupHandler
      <3>2. state # "TERMINARED"
        BY <2>5 DEF RunHandler, ReportHandler, StaleReportHandler, StateChangeCb, StartupDone,
              StartDependents, RememberReady, GiveUp, ArmRestart, ReportIgnored, UseAfterFree,
              RestartTimeoutHandler, MapCorruption, SignalHandler, NullDereference,
              NotifyTerminationHandler, CleanupHandler
      <3>3. s \in started /\ child[s] = "NULL" => LookedAfter(s)
        BY <2>1, <2>5, <3>1, <3>2
      <3>4. CASE ReportHandler \/ StaleReportHandler
        <4>1. PICK k \in {"stateChange", "dangling"} : Running(k)
          BY <3>4 DEF ReportHandler, StaleReportHandler
        <4>2. Head(queue).name \in Services
          BY <2>0, <4>1, RunningHandler, HandlerNames
        <4>3. \E st : StateChangeCb(Head(queue).name, st, Tail(queue))
          BY <3>4 DEF ReportHandler, StaleReportHandler
        <4> QED BY <2>0, <3>3, <4>1, <4>2, <4>3, StateChangeCbForgetsNobody
      <3>5. CASE RestartTimeoutHandler
        <4> DEFINE t == Head(queue).name
        <4>1. /\ queue # << >> /\ Head(queue).kind = "restart" /\ Tail(queue) \in Seq(Handler)
              /\ t \in Services
          BY <2>0, <3>5, RunningHandler, HandlerNames DEF RestartTimeoutHandler
        <4>2. /\ started' = started /\ restartTimer' = restartTimer
              /\ child' = [child EXCEPT ![t] = InitialState(t)]
              /\ queue' = Append(MarkDangling(Tail(queue), {t}), StateChange(t))
          BY <3>5 DEF RestartTimeoutHandler
        <4>3. s # t /\ s \in started /\ child[s] = "NULL" /\ s \in Services
          BY <2>0, <4>1, <4>2 DEF InitialState, TypeOK
        <4>4. \A h \in Answers(s) : Head(queue) # h
          BY <4>1, <4>3, AnswersStay
        <4>5. \A h \in Answers(s) : InQueue(queue, h) => InQueue(Tail(queue), h)
          BY <2>0, <4>1, <4>4, AnswersStay, HandlerStays
        <4>6. \A h \in Answers(s) : InQueue(Tail(queue), h) => InQueue(MarkDangling(Tail(queue), {t}), h)
          BY <4>1, AnswersKept
        <4>7. MarkDangling(Tail(queue), {t}) \in Seq(Handler) /\ StateChange(t) \in Handler
          BY <2>0, <4>1, MarkDanglingProperties, HandlerMembers DEF TypeOK
        <4>8. \A h \in Answers(s) : InQueue(MarkDangling(Tail(queue), {t}), h) => InQueue(queue', h)
          BY <4>2, <4>7, AnswersKept
        <4> QED BY <2>0, <3>3, <4>2, <4>3, <4>5, <4>6, <4>8, StillLookedAfter
      <3>6. CASE SignalHandler
        <4>1. /\ started' = started /\ restartTimer' = restartTimer /\ s \in Services
              /\ queue # << >> /\ Head(queue).kind = "sigchld"
          BY <2>0, <3>6 DEF SignalHandler, Running, TypeOK
        <4>2. child[s] = "NULL"
          BY <1>2, <3>6, <4>1, SignalHandlerKeeps
        <4>3. \E r \in Seq(Handler) : queue' = Tail(queue) \o r
          <5>1. PICK exitOk \in SUBSET (zombies \cap Services) :
                  \E r \in Reports({t \in zombies \cap Services :
                                      StateAfterExit(t, exitOk) \in {"DEAD", "EXPECTDEAD"}}) :
                    queue' = Tail(queue) \o r
            BY <3>6 DEF SignalHandler
          <5> DEFINE reporting == {t \in zombies \cap Services :
                                     StateAfterExit(t, exitOk) \in {"DEAD", "EXPECTDEAD"}}
          <5>2. reporting \in SUBSET Services
            OBVIOUS
          <5>3. PICK r \in Reports(reporting) : queue' = Tail(queue) \o r
            BY <5>1
          <5> HIDE DEF reporting
          <5> QED BY <5>2, <5>3, ReportsType
        <4>4. \A h \in Answers(s) : InQueue(queue, h) => InQueue(queue', h)
          <5>1. Tail(queue) \in Seq(Handler)
            BY <2>0, <4>1
          <5>2. \A h \in Answers(s) : InQueue(queue, h) => InQueue(Tail(queue), h)
            BY <2>0, <4>1, AnswersKept
          <5> QED BY <4>3, <5>1, <5>2, AnswersKept
        <4> QED BY <2>0, <3>3, <4>1, <4>2, <4>4, StillLookedAfter
      <3>7. CASE NotifyTerminationHandler
        <4>1. /\ UNCHANGED <<started, child, restartTimer>> /\ queue' = Tail(queue)
              /\ queue # << >> /\ Head(queue).kind = "notifyTermination"
          BY <3>7 DEF NotifyTerminationHandler, Running
        <4>2. \A h \in Answers(s) : InQueue(queue, h) => InQueue(queue', h)
          BY <2>0, <4>1, AnswersKept
        <4>3. s \in Services
          BY <2>0, <4>1 DEF TypeOK
        <4> QED BY <2>0, <3>3, <4>1, <4>2, <4>3, StillLookedAfter
      <3> QED BY <2>5, <3>4, <3>5, <3>6, <3>7
              DEF RunHandler, UseAfterFree, MapCorruption, NullDereference, CleanupHandler
    <2> QED BY <1>2, <2>2, <2>3, <2>4, <2>5 DEF Next
  <1> QED BY <1>1, <1>2, InitRestart, StepRestart, PTL DEF Spec

-----------------------------------------------------------------------------
(* With a child that never enters DEAD, as the one of the repository         *)
(* (processTerminated(), childProcessImp.cpp:193), nothing of the manager    *)
(* brings init down before the map has been cleared.                        *)

BeforeClear == starts = 0 \/ (starts = 1 /\ state # "TERMINARED")

Quiet ==
  /\ daemon = "up"
  /\ \A i \in DOMAIN queue : queue[i].kind \in {"stateChange", "sigchld", "notifyTermination"}
  /\ \A s \in Services : child[s] # "DEAD" /\ ~restartTimer[s]
  /\ NullEntries = {}

\* What is left behind the handler that runs is as quiet.
LEMMA QuietTail ==
  ASSUME TypeOK, Quiet, queue # << >>
  PROVE  /\ Tail(queue) \in Seq(Handler)
         /\ Head(queue).kind \in {"stateChange", "sigchld", "notifyTermination"}
         /\ \A i \in DOMAIN Tail(queue) :
              Tail(queue)[i].kind \in {"stateChange", "sigchld", "notifyTermination"}
  <1>1. queue \in Seq(Handler)
    BY DEF TypeOK
  <1>2. /\ 1 \in DOMAIN queue /\ Head(queue) = queue[1]
        /\ \A i \in DOMAIN Tail(queue) : i + 1 \in DOMAIN queue /\ Tail(queue)[i] = queue[i + 1]
    BY <1>1, Positions
  <1>3. Tail(queue) \in Seq(Handler)
    BY <1>1
  <1> QED BY <1>2, <1>3 DEF Quiet

LEMMA HostQuiet ==
  ASSUME RestartInv, RestartInv', Quiet, BeforeClear', Host
  PROVE  Quiet'
  <1>0. TypeOK /\ queue \in Seq(Handler) /\ TypeOK'
    BY DEF RestartInv, OrderInv, TypeOK
  <1>1. CASE Start
    <2> DEFINE S == {s \in Services : StartAfter[s] = {}}
    <2>1. starts = 0
      BY <1>0, <1>1, BoundsAssumption DEF Start, BeforeClear, TypeOK
    <2>2. /\ S \in SUBSET Services /\ S \cap started = {} /\ Launch(S, queue)
          /\ started = {} /\ restartTimer' = restartTimer /\ daemon' = daemon
      BY <1>1, <2>1 DEF Start, RestartInv, OrderInv
    <2> HIDE DEF S
    <2>3. \A i \in DOMAIN queue' : \/ i \in DOMAIN queue /\ queue'[i] = queue[i]
                                   \/ \E s \in S : queue'[i] = StateChange(s)
      BY <1>0, <2>2, LaunchContent
    <2>4. /\ \A s \in Services : child'[s] = IF s \in S THEN InitialState(s) ELSE child[s]
          /\ started' = started \cup S
      BY <1>0, <2>2, LaunchContent
    <2>5. \A i \in DOMAIN queue' : queue'[i].kind \in {"stateChange", "sigchld", "notifyTermination"}
      BY <2>3 DEF Quiet, StateChange
    <2> QED BY <2>2, <2>4, <2>5 DEF Quiet, NullEntries, InitialState
  <1>2. CASE ForceTerminate
    <2>1. starts' = 0
      BY <1>2 DEF ForceTerminate, BeforeClear
    <2>2. \A i \in DOMAIN queue' : queue'[i].kind \in {"sigchld", "notifyTermination"}
      BY <2>1 DEF RestartInv, NothingQueued
    <2>3. /\ started' = {} /\ daemon' = daemon
          /\ \A s \in Services : child'[s] = "NULL" /\ ~restartTimer'[s]
      BY <1>2 DEF ForceTerminate, MapClear
    <2> QED BY <2>2, <2>3 DEF Quiet, NullEntries
  <1>3. CASE StartTerminating
    <2> DEFINE present == {s \in started : child[s] # "NULL"}
               last == IF present = {} THEN <<NotifyTermination>> ELSE << >>
    <2>1. present \in SUBSET Services /\ last \in Seq(Handler)
      BY <1>0, HandlerMembers DEF TypeOK
    <2>2. PICK r \in Reports(present) : queue' = queue \o r \o last
      BY <1>3 DEF StartTerminating
    <2>3. /\ child' = [s \in Services |-> IF s \in present THEN "TERMINATING" ELSE child[s]]
          /\ \A s \in Services : ~restartTimer'[s]
          /\ UNCHANGED <<daemon, started>>
      BY <1>3 DEF StartTerminating
    <2>4. \A i \in DOMAIN last : last[i] = NotifyTermination
      OBVIOUS
    <2>5. \A s \in Services : child'[s] # "DEAD" /\ (child'[s] = "NULL" => child[s] = "NULL")
      BY <2>3 DEF Quiet
    <2> HIDE DEF present, last
    <2>6. r \in Seq(Handler) /\ \A i \in DOMAIN r : \E s \in present : r[i] = StateChange(s)
      BY <2>1, ReportsType, ReportsContent
    <2>7. /\ queue \o r \in Seq(Handler)
          /\ \A i \in DOMAIN (queue \o r) : \/ i \in DOMAIN queue /\ (queue \o r)[i] = queue[i]
                                            \/ \E s \in present : (queue \o r)[i] = StateChange(s)
      BY <1>0, <2>6, Positions, QueueOps
    <2>8. \A i \in DOMAIN queue' : \/ i \in DOMAIN queue /\ queue'[i] = queue[i]
                                   \/ \E s \in present : queue'[i] = StateChange(s)
                                   \/ queue'[i] = NotifyTermination
      BY <2>1, <2>2, <2>4, <2>7, Positions
    <2>9. \A i \in DOMAIN queue' : queue'[i].kind \in {"stateChange", "sigchld", "notifyTermination"}
      BY <2>8 DEF Quiet, StateChange, NotifyTermination
    <2>10. NullEntries' = {}
      BY <1>0, <2>3, <2>5 DEF NullEntries, Quiet, TypeOK
    <2> QED BY <2>3, <2>5, <2>9, <2>10 DEF Quiet
  <1> QED BY <1>1, <1>2, <1>3 DEF Host, StartTerminatingWhileStarting, HostForceTerminate

LEMMA WorldQuiet ==
  ASSUME TypeOK, Quiet, World
  PROVE  Quiet'
  <1> USE DEF services
  <1>0. queue \in Seq(Handler)
    BY DEF TypeOK
  <1>1. ASSUME UNCHANGED <<daemon, started, restartTimer>>,
               \A s \in Services : child'[s] # "DEAD" /\ (child'[s] = "NULL" => child[s] = "NULL"),
               \/ queue' = queue
               \/ \E h \in Handler : queue' = Append(queue, h) /\ h.kind \in {"stateChange", "sigchld"}
        PROVE  Quiet'
    <2>1. \A i \in DOMAIN queue' : queue'[i].kind \in {"stateChange", "sigchld", "notifyTermination"}
      BY <1>0, <1>1 DEF Quiet
    <2> QED BY <1>1, <2>1 DEF Quiet, NullEntries, TypeOK
  <1>2. ASSUME NEW s \in Services, NEW st \in {"RUNNING", "KILLING"}, SetProcessState(s, st)
        PROVE  Quiet'
    <2>1. StateChange(s) \in Handler /\ StateChange(s).kind = "stateChange"
      BY HandlerMembers DEF StateChange
    <2>2. \A t \in Services : child'[t] # "DEAD" /\ (child'[t] = "NULL" => child[t] = "NULL")
      BY <1>2 DEF SetProcessState, Quiet, TypeOK
    <2> QED BY <1>1, <1>2, <2>1, <2>2 DEF SetProcessState
  <1>3. ASSUME NEW p, Exits(p)
        PROVE  Quiet'
    <2>1. Sigchld \in Handler /\ Sigchld.kind = "sigchld"
      BY HandlerMembers DEF Sigchld
    <2> QED BY <1>1, <1>3, <2>1 DEF Exits, Quiet
  <1>4. ASSUME NEW s \in Services, MinutePasses(s)
        PROVE  Quiet'
    BY <1>1, <1>4 DEF MinutePasses, Quiet
  <1>5. \A s \in Services : ~RestartTimerExpires(s)
    BY DEF RestartTimerExpires, Quiet
  <1> QED BY <1>2, <1>3, <1>4, <1>5 DEF World, ChildReady, ChildTimeout, ChildExit, AdoptedExit

LEMMA RunHandlerQuiet ==
  ASSUME ~ReportsDeath, RestartInv, Quiet, BeforeClear, RunHandler
  PROVE  Quiet'
  <1> USE DEF progress, services, host
  <1>0. TypeOK
    BY DEF RestartInv, OrderInv
  <1>1. queue # << >>
    BY DEF RunHandler, ReportHandler, StaleReportHandler, UseAfterFree, RestartTimeoutHandler,
           MapCorruption, SignalHandler, NullDereference, NotifyTerminationHandler, CleanupHandler,
           Running
  <1>2. Head(queue).kind \in {"stateChange", "sigchld", "notifyTermination"}
    BY <1>0, <1>1, QuietTail
  <1>3. starts = 0 => Head(queue).kind # "stateChange"
    <2>1. 1 \in DOMAIN queue /\ Head(queue) = queue[1]
      BY <1>0, <1>1, Positions DEF TypeOK
    <2> QED BY <2>1 DEF RestartInv, NothingQueued
  <1>4. Head(queue).kind = "stateChange" => /\ FirstRun
                                            /\ Head(queue).name \in Services
                                            /\ Head(queue).name \in started
                                            /\ child[Head(queue).name] # "NULL"
    <2> SUFFICES ASSUME Head(queue).kind = "stateChange"
                 PROVE  /\ FirstRun
                        /\ Head(queue).name \in Services
                        /\ Head(queue).name \in started
                        /\ child[Head(queue).name] # "NULL"
      OBVIOUS
    <2>1. FirstRun /\ Disciplined /\ Running("stateChange")
      BY <1>1, <1>3 DEF BeforeClear, FirstRun, Quiet, RestartInv, Running
    <2>2. Head(queue) \in Handler /\ Fits(Head(queue))
      BY <1>0, <2>1, Consumed
    <2>3. Head(queue).name \in Services
      BY <2>2, HandlerNames
    <2> QED BY <1>0, <2>1, <2>2, <2>3 DEF Fits, TypeOK
  <1>5. CASE ReportHandler
    <2> DEFINE s == Head(queue).name
               q == Tail(queue)
    <2>1. /\ FirstRun /\ s \in Services /\ child[s] # "NULL" /\ child[s] # "DEAD"
          /\ StateChangeCb(s, child[s], q)
      BY <1>4, <1>5 DEF ReportHandler, Running, Quiet
    <2>2. /\ q \in Seq(Handler)
          /\ \A i \in DOMAIN q : q[i].kind \in {"stateChange", "sigchld", "notifyTermination"}
      BY <1>0, <1>1, QuietTail
    <2> HIDE DEF s, q
    <2>3. CASE StartDependents(s, child[s], q)
      <3> DEFINE S == Freed(startupMap, s)
      <3>1. S \in SUBSET Services /\ S \cap started = {} /\ Launch(S, q)
        BY <2>1, <2>3 DEF StartDependents, Freed, FirstRun, RestartInv, OrderInv,
                          StartupMapFollowsReports
      <3>2. restartTimer' = restartTimer /\ daemon' = daemon
        BY <2>1, <2>3 DEF StartDependents, StateChangeCb
      <3> HIDE DEF S
      <3>3. \A i \in DOMAIN queue' : \/ i \in DOMAIN q /\ queue'[i] = q[i]
                                     \/ \E t \in S : queue'[i] = StateChange(t)
        BY <1>0, <2>2, <3>1, LaunchContent
      <3>4. /\ \A t \in Services : child'[t] = IF t \in S THEN InitialState(t) ELSE child[t]
            /\ started' = started \cup S
        BY <1>0, <2>2, <3>1, LaunchContent
      <3>5. \A i \in DOMAIN queue' : queue'[i].kind \in {"stateChange", "sigchld", "notifyTermination"}
        BY <2>2, <3>3 DEF StateChange
      <3> QED BY <1>0, <3>1, <3>2, <3>4, <3>5 DEF Quiet, NullEntries, InitialState, TypeOK
    <2>4. CASE StartupDone(s, child[s], q) \/ RememberReady(s, child[s], q) \/ ReportIgnored(child[s], q)
      BY <2>1, <2>2, <2>4 DEF StartupDone, RememberReady, ReportIgnored, StateChangeCb, Quiet, NullEntries
    <2> QED BY <2>1, <2>3, <2>4 DEF StateChangeCb, GiveUp, ArmRestart
  <1>6. CASE SignalHandler
    <2>1. /\ \A s \in Services : child'[s] = "NULL" <=> child[s] = "NULL"
          /\ \A i \in DOMAIN queue' :
               \/ i \in DOMAIN Tail(queue) /\ queue'[i] = Tail(queue)[i]
               \/ \E s \in zombies \cap Services : queue'[i] = StateChange(s)
      BY <1>6, SignalHandlerKeeps
    <2>2. \A s \in Services : child'[s] # "DEAD"
      BY <1>6 DEF SignalHandler, StateAfterExit, Quiet
    <2>3. UNCHANGED <<daemon, started, restartTimer>>
      BY <1>6 DEF SignalHandler
    <2>4. \A i \in DOMAIN queue' : queue'[i].kind \in {"stateChange", "sigchld", "notifyTermination"}
      BY <1>0, <1>1, <2>1, QuietTail DEF StateChange
    <2> QED BY <1>0, <2>1, <2>2, <2>3, <2>4 DEF Quiet, NullEntries, TypeOK
  <1>7. CASE NotifyTerminationHandler
    <2>1. queue' = Tail(queue) /\ UNCHANGED <<daemon, started, child, restartTimer>>
      BY <1>7 DEF NotifyTerminationHandler
    <2> QED BY <1>0, <1>1, <2>1, QuietTail DEF Quiet, NullEntries
  <1>8. ~UseAfterFree /\ ~MapCorruption /\ ~NullDereference
    BY <1>2, <1>4 DEF UseAfterFree, MapCorruption, NullDereference, Running, Quiet
  <1>9. ~StaleReportHandler /\ ~RestartTimeoutHandler /\ ~CleanupHandler
    BY <1>2 DEF StaleReportHandler, RestartTimeoutHandler, CleanupHandler, Running
  <1> QED BY <1>5, <1>6, <1>7, <1>8, <1>9 DEF RunHandler

\* Unless a child reports its death, init neither aborts, nor crashes, nor exits
\* before the services of the first run have been cleared: no report outlives
\* its child, no entry is without one, and every name that is looked up is found.
THEOREM OnlyDeathsBringInitDown ==
  Spec => [](~ReportsDeath /\ (starts = 0 \/ (starts = 1 /\ state # "TERMINARED")) => daemon = "up")
  <1> DEFINE QuietInv == ~ReportsDeath /\ BeforeClear => Quiet
  <1>1. Init => QuietInv
    BY DEF Init, Quiet, NullEntries
  <1>2. ASSUME RestartInv, RestartInv', QuietInv, [Next]_vars
        PROVE  QuietInv'
    <2> SUFFICES ASSUME ~ReportsDeath, BeforeClear'
                 PROVE  Quiet'
      OBVIOUS
    <2>0. TypeOK /\ TypeOK'
      BY <1>2 DEF RestartInv, OrderInv
    <2>1. CASE UNCHANGED vars
      BY <1>2, <2>1 DEF vars, progress, services, host, Quiet, NullEntries, BeforeClear
    <2>2. CASE daemon = "up" /\ ~UNCHANGED vars
      <3>1. BeforeClear
        <4>1. CASE Start
          BY <2>0, <4>1, BoundsAssumption DEF Start, BeforeClear, TypeOK
        <4>2. CASE ~Start
          <5>1. starts' = starts /\ (state = "TERMINARED" => state' = "TERMINARED")
            BY <1>2, <2>2, <4>2 DEF Next, progress, services, host, Host,
                 StartTerminatingWhileStarting, StartTerminating,
                 HostForceTerminate, ForceTerminate, World, ChildReady, ChildTimeout, SetProcessState,
                 ChildExit, AdoptedExit, Exits, RestartTimerExpires, MinutePasses, RunHandler,
                 ReportHandler, StaleReportHandler, StateChangeCb, StartupDone, StartDependents,
                 RememberReady, GiveUp, ArmRestart, ReportIgnored, UseAfterFree,
                 RestartTimeoutHandler, MapCorruption, SignalHandler, NullDereference,
                 NotifyTerminationHandler, CleanupHandler
          <5> QED BY <5>1 DEF BeforeClear
        <4> QED BY <4>1, <4>2
      <3>2. Quiet
        BY <1>2, <3>1
      <3> QED BY <1>2, <2>0, <2>2, <3>1, <3>2, HostQuiet, WorldQuiet, RunHandlerQuiet DEF Next
    <2> QED BY <1>2, <2>1, <2>2 DEF Next
  <1>3. QuietInv => (~ReportsDeath /\ (starts = 0 \/ (starts = 1 /\ state # "TERMINARED"))
                       => daemon = "up")
    BY DEF Quiet, BeforeClear
  <1>4. RestartInv /\ QuietInv /\ [Next]_vars => QuietInv'
    BY <1>2, StepRestart
  <1> QED BY <1>1, <1>3, <1>4, InitRestart, StepRestart, PTL DEF Spec

-----------------------------------------------------------------------------
(* No restart of a critical service is ever armed, and so none falls due: an *)
(* entry whose child has died stays without a process.                       *)

SparesCritical(q) == \A i \in DOMAIN q : q[i].kind = "restart" => q[i].name \notin Critical

NoCriticalRestart == TypeOK /\ (\A s \in Critical : ~restartTimer[s]) /\ SparesCritical(queue)

\* Consuming a handler, posting any but the restart of a critical service and
\* marking reports as dangling leave no restart of a critical service behind.
LEMMA SparesCriticalStays ==
  ASSUME NEW q \in Seq(Handler), SparesCritical(q)
  PROVE  /\ \A h \in Handler : (h.kind = "restart" => h.name \notin Critical)
                                 => SparesCritical(Append(q, h))
         /\ \A r \in Seq(Handler) : SparesCritical(r) => SparesCritical(q \o r)
         /\ q # << >> => /\ SparesCritical(Tail(q))
                         /\ Head(q).kind = "restart" => Head(q).name \notin Critical
         /\ \A S : SparesCritical(MarkDangling(q, S))
  <1>1. ASSUME NEW h \in Handler, h.kind = "restart" => h.name \notin Critical
        PROVE  SparesCritical(Append(q, h))
    <2>1. \A i \in DOMAIN Append(q, h) : Append(q, h)[i] = h \/ (i \in DOMAIN q /\ Append(q, h)[i] = q[i])
      BY Positions
    <2> QED BY <1>1, <2>1 DEF SparesCritical
  <1>2. ASSUME NEW r \in Seq(Handler), SparesCritical(r)
        PROVE  SparesCritical(q \o r)
    BY <1>2, Positions DEF SparesCritical
  <1>3. q # << >> => /\ SparesCritical(Tail(q))
                     /\ Head(q).kind = "restart" => Head(q).name \notin Critical
    BY Positions DEF SparesCritical
  <1>4. ASSUME NEW S
        PROVE  SparesCritical(MarkDangling(q, S))
    <2> DEFINE m == MarkDangling(q, S)
    <2>1. /\ DOMAIN m = DOMAIN q
          /\ \A i \in DOMAIN q : m[i] = q[i] \/ m[i].kind = "dangling"
      BY DEF MarkDangling, Dangling
    <2> HIDE DEF m
    <2>2. SparesCritical(m)
      BY <2>1 DEF SparesCritical
    <2> QED BY <2>2 DEF m
  <1> QED BY <1>1, <1>2, <1>3, <1>4

\* Launching posts reports and gives processes to services new to the map only.
LEMMA LaunchSparesCritical ==
  ASSUME NEW S \in SUBSET Services, NEW q \in Seq(Handler), SparesCritical(q), Launch(S, q)
  PROVE  SparesCritical(queue')
  <1> DEFINE r(o) == [i \in DOMAIN o |-> IF o[i] \in S \ started THEN StateChange(o[i])
                                         ELSE Dangling(o[i], InitialState(o[i]))]
  <1>1. PICK o \in SetToSeqs(S) : queue' = q \o r(o)
    BY DEF Launch
  <1>2. r(o) \in Seq(Handler)
    BY LaunchReportsType
  <1>3. SparesCritical(r(o))
    BY DEF SparesCritical, StateChange, Dangling
  <1> HIDE DEF r
  <1> QED BY <1>1, <1>2, <1>3, SparesCriticalStays

\* Reports of children are no restarts.
LEMMA ReportsSpareCritical ==
  ASSUME NEW S \in SUBSET Services, NEW r \in Reports(S)
  PROVE  r \in Seq(Handler) /\ SparesCritical(r)
  BY ReportsType, ReportsContent DEF SparesCritical, StateChange

LEMMA MapClearSparesCritical ==
  ASSUME NoCriticalRestart, NEW q \in Seq(Handler), SparesCritical(q), MapClear(q)
  PROVE  (\A s \in Critical : ~restartTimer'[s]) /\ SparesCritical(queue')
  <1>1. MarkDangling(queue, Services) \in Seq(Handler)
    BY MarkDanglingProperties DEF NoCriticalRestart, TypeOK
  <1>2. SparesCritical(MarkDangling(queue, Services))
    BY SparesCriticalStays DEF NoCriticalRestart, TypeOK
  <1> QED BY <1>1, <1>2, SparesCriticalStays, KindsAssumption DEF MapClear

\* A report arms a restart only of a service that is not critical.
LEMMA StateChangeCbSparesCritical ==
  ASSUME NoCriticalRestart, NEW s \in Services, NEW st, NEW q \in Seq(Handler), SparesCritical(q),
         StateChangeCb(s, st, q)
  PROVE  (\A t \in Critical : ~restartTimer'[t]) /\ SparesCritical(queue')
  <1>0. TypeOK /\ restartTimer \in [Services -> BOOLEAN]
    BY DEF NoCriticalRestart, TypeOK
  <1>1. CASE StartDependents(s, st, q)
    <2>1. Freed(startupMap, s) \in SUBSET Services /\ Launch(Freed(startupMap, s), q)
      BY <1>1 DEF Freed, StartDependents
    <2>2. SparesCritical(queue')
      BY <2>1, LaunchSparesCritical
    <2> QED BY <1>1, <2>2 DEF StartDependents, NoCriticalRestart
  <1>2. CASE GiveUp(s, st, q)
    <2>1. MarkDangling(q, {s}) \in Seq(Handler) /\ SparesCritical(MarkDangling(q, {s}))
      BY <1>0, MarkDanglingProperties, SparesCriticalStays DEF TypeOK
    <2>2. SparesCritical(queue')
      BY <1>2, <2>1, SparesCriticalStays, HandlerMembers DEF GiveUp, TerminateWithCleanup
    <2> QED BY <1>0, <1>2, <2>2, KindsAssumption DEF GiveUp, NoCriticalRestart
  <1>3. CASE ArmRestart(s, st, q)
    <2>1. SparesCritical(queue')
      BY <1>3, SparesCriticalStays DEF ArmRestart
    <2> QED BY <1>0, <1>3, <2>1, KindsAssumption DEF ArmRestart, NoCriticalRestart
  <1>4. CASE StartupDone(s, st, q) \/ RememberReady(s, st, q) \/ ReportIgnored(st, q)
    BY <1>4 DEF StartupDone, RememberReady, ReportIgnored, services, NoCriticalRestart
  <1> QED BY <1>1, <1>2, <1>3, <1>4 DEF StateChangeCb

LEMMA HostSparesCritical ==
  ASSUME NoCriticalRestart, Host
  PROVE  (\A s \in Critical : ~restartTimer'[s]) /\ SparesCritical(queue')
  <1>0. queue \in Seq(Handler) /\ SparesCritical(queue)
    BY DEF NoCriticalRestart, TypeOK
  <1>1. <<NotifyTermination>> \in Seq(Handler) /\ SparesCritical(<<NotifyTermination>>)
    BY HandlerMembers DEF SparesCritical, NotifyTermination
  <1>2. CASE Start
    BY <1>0, <1>2, LaunchSparesCritical DEF Start, NoCriticalRestart
  <1>3. CASE ForceTerminate
    BY <1>1, <1>3, MapClearSparesCritical DEF ForceTerminate
  <1>4. CASE StartTerminating
    <2> DEFINE present == {s \in started : child[s] # "NULL"}
               last == IF present = {} THEN <<NotifyTermination>> ELSE << >>
    <2>1. PICK r \in Reports(present) : queue' = queue \o r \o last
      BY <1>4 DEF StartTerminating
    <2>2. present \in SUBSET Services
      BY DEF NoCriticalRestart, TypeOK
    <2>3. last \in Seq(Handler) /\ SparesCritical(last)
      BY <1>1 DEF SparesCritical
    <2>4. \A s \in Critical : ~restartTimer'[s]
      BY <1>4, KindsAssumption DEF StartTerminating
    <2> HIDE DEF present, last
    <2>5. r \in Seq(Handler) /\ SparesCritical(r)
      BY <2>2, ReportsSpareCritical
    <2>6. queue \o r \in Seq(Handler) /\ SparesCritical(queue \o r)
      BY <1>0, <2>5, SparesCriticalStays, QueueOps
    <2> QED BY <2>1, <2>3, <2>4, <2>6, SparesCriticalStays
  <1> QED BY <1>2, <1>3, <1>4 DEF Host, StartTerminatingWhileStarting, HostForceTerminate

LEMMA WorldSparesCritical ==
  ASSUME NoCriticalRestart, World
  PROVE  (\A s \in Critical : ~restartTimer'[s]) /\ SparesCritical(queue')
  <1> USE DEF services
  <1>0. TypeOK /\ queue \in Seq(Handler) /\ restartTimer \in [Services -> BOOLEAN]
    BY DEF NoCriticalRestart, TypeOK
  <1>1. ASSUME NEW s \in Services, NEW st, SetProcessState(s, st)
        PROVE  (\A t \in Critical : ~restartTimer'[t]) /\ SparesCritical(queue')
    <2>1. StateChange(s) \in Handler /\ StateChange(s).kind # "restart"
      BY HandlerMembers DEF StateChange
    <2> QED BY <1>0, <1>1, <2>1, SparesCriticalStays DEF SetProcessState, NoCriticalRestart
  <1>2. ASSUME NEW p, Exits(p)
        PROVE  (\A t \in Critical : ~restartTimer'[t]) /\ SparesCritical(queue')
    <2>1. Sigchld \in Handler /\ Sigchld.kind # "restart"
      BY HandlerMembers DEF Sigchld
    <2> QED BY <1>0, <1>2, <2>1, SparesCriticalStays DEF Exits, NoCriticalRestart
  <1>3. ASSUME NEW s \in Services, RestartTimerExpires(s)
        PROVE  (\A t \in Critical : ~restartTimer'[t]) /\ SparesCritical(queue')
    <2>1. s \notin Critical
      BY <1>3 DEF RestartTimerExpires, NoCriticalRestart
    <2>2. RestartTimeout(s) \in Handler /\ RestartTimeout(s).name \notin Critical
      BY <2>1, HandlerMembers DEF RestartTimeout
    <2>3. SparesCritical(queue')
      BY <1>0, <1>3, <2>2, SparesCriticalStays DEF RestartTimerExpires, NoCriticalRestart
    <2> QED BY <1>0, <1>3, <2>1, <2>3, KindsAssumption DEF RestartTimerExpires, NoCriticalRestart
  <1>4. ASSUME NEW s \in Services, MinutePasses(s)
        PROVE  (\A t \in Critical : ~restartTimer'[t]) /\ SparesCritical(queue')
    BY <1>4 DEF MinutePasses, NoCriticalRestart
  <1> QED BY <1>1, <1>2, <1>3, <1>4 DEF World, ChildReady, ChildTimeout, ChildExit, AdoptedExit

LEMMA RunHandlerSparesCritical ==
  ASSUME NoCriticalRestart, RunHandler
  PROVE  (\A s \in Critical : ~restartTimer'[s]) /\ SparesCritical(queue')
  <1> USE DEF services
  <1>0. TypeOK /\ queue \in Seq(Handler) /\ restartTimer \in [Services -> BOOLEAN]
    BY DEF NoCriticalRestart, TypeOK
  <1>1. ASSUME NEW k, Running(k)
        PROVE  Head(queue) \in Handler /\ Tail(queue) \in Seq(Handler) /\ SparesCritical(Tail(queue))
    BY <1>0, <1>1, RunningHandler, SparesCriticalStays DEF NoCriticalRestart
  <1>2. CASE ReportHandler \/ StaleReportHandler
    BY <1>1, <1>2, StateChangeCbSparesCritical, HandlerNames
       DEF ReportHandler, StaleReportHandler, Running
  <1>3. CASE RestartTimeoutHandler
    <2> DEFINE s == Head(queue).name
    <2>1. s \in Services
      BY <1>0, <1>3 DEF RestartTimeoutHandler, TypeOK
    <2>2. MarkDangling(Tail(queue), {s}) \in Seq(Handler) /\ SparesCritical(MarkDangling(Tail(queue), {s}))
      BY <1>0, <1>1, <1>3, MarkDanglingProperties, SparesCriticalStays
         DEF RestartTimeoutHandler, TypeOK
    <2>3. StateChange(s) \in Handler /\ StateChange(s).kind # "restart"
      BY <2>1, HandlerMembers DEF StateChange
    <2> QED BY <1>3, <2>2, <2>3, SparesCriticalStays DEF RestartTimeoutHandler, NoCriticalRestart
  <1>4. CASE SignalHandler
    <2>1. PICK exitOk \in SUBSET (zombies \cap Services) :
            \E r \in Reports({s \in zombies \cap Services :
                                StateAfterExit(s, exitOk) \in {"DEAD", "EXPECTDEAD"}}) :
              queue' = Tail(queue) \o r
      BY <1>4 DEF SignalHandler
    <2> DEFINE reporting == {s \in zombies \cap Services :
                               StateAfterExit(s, exitOk) \in {"DEAD", "EXPECTDEAD"}}
    <2>2. reporting \in SUBSET Services /\ \E r \in Reports(reporting) : queue' = Tail(queue) \o r
      BY <2>1
    <2> HIDE DEF reporting
    <2>3. SparesCritical(queue')
      BY <1>1, <1>4, <2>2, ReportsSpareCritical, SparesCriticalStays DEF SignalHandler
    <2> QED BY <1>4, <2>3 DEF SignalHandler, NoCriticalRestart
  <1>5. CASE CleanupHandler
    <2>1. << >> \in Seq(Handler) /\ SparesCritical(<< >>)
      BY DEF SparesCritical
    <2> QED BY <1>5, <2>1, MapClearSparesCritical DEF CleanupHandler
  <1>6. CASE NotifyTerminationHandler
    BY <1>1, <1>6 DEF NotifyTerminationHandler, NoCriticalRestart
  <1>7. CASE UseAfterFree \/ MapCorruption \/ NullDereference
    BY <1>7 DEF UseAfterFree, MapCorruption, NullDereference, NoCriticalRestart
  <1> QED BY <1>2, <1>3, <1>4, <1>5, <1>6, <1>7 DEF RunHandler

LEMMA StepSparesCritical == NoCriticalRestart /\ [Next]_vars => NoCriticalRestart'
  <1>1. NoCriticalRestart /\ UNCHANGED vars => NoCriticalRestart'
    BY DEF vars, progress, services, host, NoCriticalRestart, TypeOK, SparesCritical
  <1> QED BY <1>1, StepType, HostSparesCritical, WorldSparesCritical, RunHandlerSparesCritical
          DEF Next, NoCriticalRestart

\* A report gives processes to services that are new to the map, no others.
LEMMA ReportRevivesNobody ==
  ASSUME TypeOK, NEW s \in Services, NEW st, NEW q, StateChangeCb(s, st, q),
         NEW t \in Services, t \in started, ~hasPid[t]
  PROVE  ~hasPid'[t]
  BY DEF StateChangeCb, StartupDone, StartDependents, Launch, RememberReady, GiveUp, ArmRestart,
         ReportIgnored, ResetServiceAndProcess, services, TypeOK

\* A critical service whose process has died gets no other one, whatever is
\* queued and whoever calls, until it leaves the map: in every run of the
\* services, and for every graph and every choice of failures
\* (unexpectedChildProcessDeath(), line 365).
THEOREM CriticalServicesStayDead == Spec => CriticalDeathIsFinal
  <1>1. Init => NoCriticalRestart
    BY InitType, KindsAssumption DEF Init, NoCriticalRestart, SparesCritical
  <1>2. ASSUME NoCriticalRestart, [Next]_vars
        PROVE  [\A s \in Critical : s \in started /\ ~hasPid[s] => ~hasPid'[s]]_vars
    <2> SUFFICES ASSUME Next, NEW s \in Critical, s \in started, ~hasPid[s]
                 PROVE  ~hasPid'[s]
      BY <1>2
    <2> USE DEF services
    <2>0. s \in Services /\ TypeOK
      BY <1>2, KindsAssumption DEF NoCriticalRestart
    <2>1. CASE Host
      BY <2>0, <2>1 DEF Host, Start, Launch, StartTerminatingWhileStarting, HostForceTerminate,
         ForceTerminate, MapClear, StartTerminating
    <2>2. CASE World
      BY <2>2 DEF World, ChildReady, ChildTimeout, SetProcessState, ChildExit, AdoptedExit, Exits,
         RestartTimerExpires, MinutePasses
    <2>3. CASE ReportHandler \/ StaleReportHandler
      <3>1. PICK t \in Services : \E st : StateChangeCb(t, st, Tail(queue))
        BY <2>0, <2>3, RunningHandler, HandlerNames DEF ReportHandler, StaleReportHandler
      <3> QED BY <2>0, <3>1, ReportRevivesNobody
    <2>4. CASE RestartTimeoutHandler
      <3>1. Head(queue).name # s
        BY <1>2, <2>0, <2>4, SparesCriticalStays
           DEF RestartTimeoutHandler, Running, NoCriticalRestart, TypeOK
      <3> QED BY <2>0, <2>4, <3>1 DEF RestartTimeoutHandler, TypeOK
    <2>5. CASE SignalHandler
      BY <2>0, <2>5 DEF SignalHandler
    <2>6. CASE CleanupHandler
      BY <2>0, <2>6 DEF CleanupHandler, MapClear
    <2>7. CASE UseAfterFree \/ MapCorruption \/ NullDereference \/ NotifyTerminationHandler
      BY <2>7 DEF UseAfterFree, MapCorruption, NullDereference, NotifyTerminationHandler
    <2> QED BY <2>1, <2>2, <2>3, <2>4, <2>5, <2>6, <2>7 DEF Next, RunHandler
  <1>3. NoCriticalRestart /\ [Next]_vars => NoCriticalRestart'
    BY StepSparesCritical
  <1> QED BY <1>1, <1>2, <1>3, PTL DEF Spec, CriticalDeathIsFinal
=============================================================================
