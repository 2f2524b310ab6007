------------------------ MODULE ProcessChildImp_proofs ------------------------
(***************************************************************************)
(* Proofs about ProcessChildImp for every threshold, every number of        *)
(* termination requests and every kind of service.                          *)
(***************************************************************************)
EXTENDS ProcessChildImp, SequenceTheorems, FiniteSetTheorems, TLAPS

-----------------------------------------------------------------------------
(* The queue.                                                              *)

\* What is in a queue after a handler is posted: what was, and the handler.
LEMMA AppendedHandlers ==
  ASSUME NEW q \in Seq(Handler), NEW h \in Handler
  PROVE  /\ Append(q, h) \in Seq(Handler)
         /\ DOMAIN Append(q, h) = DOMAIN q \cup {Len(q) + 1}
         /\ \A i \in DOMAIN q : Append(q, h)[i] = q[i]
         /\ Append(q, h)[Len(q) + 1] = h
         /\ Len(q) + 1 \notin DOMAIN q
  OBVIOUS

\* What is left in it after its head ran, and where it was.
LEMMA RemainingHandlers ==
  ASSUME NEW q \in Seq(Handler), q # << >>
  PROVE  /\ Tail(q) \in Seq(Handler)
         /\ \A i \in DOMAIN Tail(q) : i + 1 \in DOMAIN q /\ Tail(q)[i] = q[i + 1] /\ i \in Nat
         /\ \A i \in DOMAIN q : i = 1 \/ (i - 1 \in DOMAIN Tail(q) /\ Tail(q)[i - 1] = q[i])
         /\ 1 \in DOMAIN q /\ q[1] = Head(q)
  OBVIOUS

\* Posting adds one handler to those the queue contains.
LEMMA ContainsAppend ==
  ASSUME NEW q \in Seq(Handler), NEW h \in Handler, NEW g
  PROVE  Contains(Append(q, h), g) <=> (Contains(q, g) \/ g = h)
  BY AppendedHandlers DEF Contains

\* Running its head takes no other kind of handler out of the queue.
LEMMA ContainsTail ==
  ASSUME NEW q \in Seq(Handler), q # << >>, NEW g
  PROVE  /\ Contains(q, g) /\ Head(q) # g => Contains(Tail(q), g)
         /\ Contains(Tail(q), g) => Contains(q, g)
  <1>1. ASSUME Contains(q, g), Head(q) # g
        PROVE  Contains(Tail(q), g)
    <2>1. PICK i \in DOMAIN q : q[i] = g
      BY <1>1 DEF Contains
    <2>2. i - 1 \in DOMAIN Tail(q) /\ Tail(q)[i - 1] = g
      BY <1>1, <2>1, RemainingHandlers
    <2> QED BY <2>2 DEF Contains
  <1>2. ASSUME Contains(Tail(q), g)
        PROVE  Contains(q, g)
    <2>1. PICK i \in DOMAIN Tail(q) : Tail(q)[i] = g
      BY <1>2 DEF Contains
    <2> QED BY <2>1, RemainingHandlers DEF Contains
  <1> QED BY <1>1, <1>2

-----------------------------------------------------------------------------
(* Type correctness.  That the count of unacknowledged heartbeats stays     *)
(* within the threshold needs to know that at most one heartbeat timeout is *)
(* armed or due, and none once the threshold is reached.                    *)

\* At most one queued handler is a heartbeat timeout.
OneHeartbeat(q) == \A i, j \in DOMAIN q : q[i] = "heartbeat" /\ q[j] = "heartbeat" => i = j

\* The timeout of the heartbeat is armed or due at most once, and only below
\* the threshold.
HeartbeatOnce ==
  life = "alive" =>
    /\ OneHeartbeat(queue)
    /\ Contains(queue, "heartbeat") => "heartbeat" \notin armed
    /\ Contains(queue, "heartbeat") \/ "heartbeat" \in armed => unackedHeartbeatCount < Threshold
    /\ HasPid(service) => ~Contains(queue, "heartbeat") /\ "heartbeat" \notin armed

\* Nothing is queued or executed before the construction.
NothingBeforeConstruction ==
  life = "unborn" => /\ queue = << >> /\ running = {} /\ zombies = {}
                     /\ unackedHeartbeatCount = 0 /\ pc = "loop" /\ ~recycled

TypeInv == TypeOK /\ HeartbeatOnce /\ NothingBeforeConstruction

\* Posting another handler keeps the heartbeat timeout single.
LEMMA OneHeartbeatAppend ==
  ASSUME NEW q \in Seq(Handler), NEW h \in Handler, OneHeartbeat(q),
         h # "heartbeat" \/ ~Contains(q, "heartbeat")
  PROVE  OneHeartbeat(Append(q, h))
  BY AppendedHandlers DEF OneHeartbeat, Contains

\* Running the head keeps it single, and takes it out if it was the head.
LEMMA OneHeartbeatTail ==
  ASSUME NEW q \in Seq(Handler), q # << >>, OneHeartbeat(q)
  PROVE  /\ OneHeartbeat(Tail(q))
         /\ Head(q) = "heartbeat" => ~Contains(Tail(q), "heartbeat")
  <1>1. OneHeartbeat(Tail(q))
    <2> SUFFICES ASSUME NEW i \in DOMAIN Tail(q), NEW j \in DOMAIN Tail(q),
                        Tail(q)[i] = "heartbeat", Tail(q)[j] = "heartbeat"
                 PROVE  i = j
      BY DEF OneHeartbeat
    <2>1. i + 1 = j + 1
      BY RemainingHandlers DEF OneHeartbeat
    <2> QED BY <2>1, RemainingHandlers
  <1>2. ASSUME Head(q) = "heartbeat", NEW i \in DOMAIN Tail(q), Tail(q)[i] = "heartbeat"
        PROVE  FALSE
    BY <1>2, RemainingHandlers DEF OneHeartbeat
  <1>3. DOMAIN Tail(q) = 1..Len(Tail(q))
    OBVIOUS
  <1> QED BY <1>1, <1>2, <1>3 DEF Contains

\* The handlers that the actions post.
LEMMA HandlerMembers == \A h \in {"report", "read", "sigchld"} \cup Timer : h \in Handler
  BY DEF Handler

\* A report that is posted changes nothing about the heartbeat.
LEMMA ReportAppended ==
  ASSUME NEW q \in Seq(Handler), OneHeartbeat(q)
  PROVE  /\ OneHeartbeat(Append(q, "report"))
         /\ Contains(Append(q, "report"), "heartbeat") <=> Contains(q, "heartbeat")
  <1>1. "report" \in Handler /\ "report" # "heartbeat"
    BY HandlerMembers
  <1> QED BY <1>1, OneHeartbeatAppend, ContainsAppend

LEMMA TypeInit == Init => TypeInv
  <1> SUFFICES ASSUME Init PROVE TypeInv
    OBVIOUS
  <1>1. TypeOK
    <2>1. 0 \in 0..Threshold /\ 0 \in 0..MaxStops
      BY BoundsAssumption
    <2>2. << >> \in Seq(Handler)
      OBVIOUS
    <2>3. /\ running \subseteq Process /\ doomed \subseteq running
          /\ zombies \subseteq Process \ running
          /\ armed \subseteq Timer /\ stray \subseteq Caller
      BY DEF Init
    <2>4. unackedHeartbeatCount \in 0..Threshold /\ stops \in 0..MaxStops /\ queue \in Seq(Handler)
      BY <2>1, <2>2 DEF Init
    <2> QED BY <2>3, <2>4 DEF Init, TypeOK
  <1>2. HeartbeatOnce /\ NothingBeforeConstruction
    BY DEF Init, HeartbeatOnce, NothingBeforeConstruction
  <1> QED BY <1>1, <1>2 DEF TypeInv

LEMMA TypeStep == TypeInv /\ [Next]_vars => TypeInv'
  <1> SUFFICES ASSUME TypeInv, [Next]_vars PROVE TypeInv'
    OBVIOUS
  <1> USE DEF TypeInv
  <1>t. queue \in Seq(Handler) /\ armed \subseteq Timer
    BY DEF TypeOK
  \* Whoever signals, the history holds callers.
  <1>s. \A who \in Caller : Signals(who) => stray' \subseteq Caller
    BY DEF Signals, TypeOK
  <1>1. CASE Construct
    <2>1. queue = << >> /\ queue' = <<"report">>
      BY <1>1 DEF Construct, NothingBeforeConstruction, SetProcessState
    <2>2. /\ armed' \subseteq Timer
          /\ "heartbeat" \in armed' => service.monitor = "heartbeat"
      BY <1>1 DEF Construct, Timer
    <2>3. /\ running' \subseteq Process /\ doomed' = {} /\ zombies' = {}
          /\ pid' \in {"own", "zero", "garbage"}
      BY <1>1 DEF Construct, Process, TypeOK, NothingBeforeConstruction
    <2>4. TypeOK'
      <3>1. queue' \in Seq(Handler)
        BY <2>1, HandlerMembers
      <3>2. life' = "alive" /\ state' \in ProcessState /\ reading' \in BOOLEAN
        BY <1>1 DEF Construct, SetProcessState, ProcessState, HasSocket, TypeOK, Service
      <3> QED BY <1>1, <2>2, <2>3, <3>1, <3>2 DEF Construct, TypeOK
    <2>5. unackedHeartbeatCount' = 0 /\ service' = service
      BY <1>1 DEF Construct, NothingBeforeConstruction
    <2>6. OneHeartbeat(queue') /\ ~Contains(queue', "heartbeat")
      BY <2>1 DEF OneHeartbeat, Contains
    <2>7. HeartbeatOnce'
      BY <2>2, <2>5, <2>6, BoundsAssumption DEF HeartbeatOnce, HasPid
    <2> QED BY <1>1, <2>4, <2>7 DEF NothingBeforeConstruction, Construct
  <1>2. CASE Destroy
    <2>1. stray' \subseteq Caller
      BY <1>2, <1>s DEF Destroy, Caller
    <2>2. TypeOK'
      BY <1>2, <2>1 DEF Destroy, TypeOK
    <2> QED BY <1>2, <2>2 DEF Destroy, HeartbeatOnce, NothingBeforeConstruction
  <1>3. CASE StartTerminating
    <2>1. TypeOK'
      <3>1. queue' \in Seq(Handler) /\ armed' \subseteq Timer /\ stops' \in 0..MaxStops
        BY <1>3, <1>t, AppendedHandlers, HandlerMembers, BoundsAssumption
        DEF StartTerminating, SetProcessState, Timer, TypeOK
      <3>2. stray' \subseteq Caller
        BY <1>3, <1>s DEF StartTerminating, Caller
      <3> QED BY <1>3, <3>1, <3>2
              DEF StartTerminating, TypeOK, SetProcessState, ProcessState, processes
    <2>2. HeartbeatOnce'
      BY <1>3, <1>t, OneHeartbeatAppend, ContainsAppend, HandlerMembers
      DEF StartTerminating, HeartbeatOnce, SetProcessState, Timer, HasPid, processes
    <2> QED BY <1>3, <2>1, <2>2 DEF NothingBeforeConstruction, StartTerminating
  <1>4. CASE ServiceWrites
    <2>1. TypeOK'
      BY <1>4, <1>t, AppendedHandlers, HandlerMembers DEF ServiceWrites, TypeOK, kernel, processes
    <2>2. HeartbeatOnce'
      BY <1>4, <1>t, OneHeartbeatAppend, ContainsAppend, HandlerMembers
      DEF ServiceWrites, HeartbeatOnce, HasPid
    <2> QED BY <1>4, <2>1, <2>2 DEF NothingBeforeConstruction, ServiceWrites, TypeOK
  <1>5. ASSUME NEW p \in Process, ProcessExits(p) PROVE TypeInv'
    <2>1. queue' = queue \/ queue' = Append(queue, "sigchld")
      BY <1>5 DEF ProcessExits
    <2>2. TypeOK'
      BY <1>5, <2>1, <1>t, AppendedHandlers, HandlerMembers DEF ProcessExits, TypeOK, object
    <2>3. HeartbeatOnce'
      BY <1>5, <2>1, <1>t, OneHeartbeatAppend, ContainsAppend, HandlerMembers
      DEF ProcessExits, HeartbeatOnce, HasPid, object
    <2> QED BY <1>5, <2>2, <2>3 DEF NothingBeforeConstruction, ProcessExits
  <1>6. ASSUME NEW t \in Timer, TimerExpires(t) PROVE TypeInv'
    <2>1. life \in {"alive", "crashed"}
      BY <1>6 DEF TimerExpires, TypeOK
    <2>2. TypeOK'
      BY <1>6, <2>1, <1>t, AppendedHandlers, HandlerMembers
      DEF TimerExpires, TypeOK, kernel, processes
    <2>3. HeartbeatOnce'
      <3> SUFFICES ASSUME life = "alive" PROVE HeartbeatOnce'
        BY <1>6 DEF TimerExpires, HeartbeatOnce
      <3>1. OneHeartbeat(queue) /\ (t = "heartbeat" => ~Contains(queue, "heartbeat"))
        BY <1>6 DEF HeartbeatOnce, TimerExpires
      <3>2. /\ OneHeartbeat(queue')
            /\ Contains(queue', "heartbeat") <=> Contains(queue, "heartbeat") \/ t = "heartbeat"
        BY <1>6, <1>t, <3>1, OneHeartbeatAppend, ContainsAppend, HandlerMembers DEF TimerExpires
      <3> QED BY <1>6, <3>2 DEF TimerExpires, HeartbeatOnce, HasPid
    <2> QED BY <1>6, <2>1, <2>2, <2>3 DEF NothingBeforeConstruction, TimerExpires
  <1>7. CASE ReportHandler \/ HandleRead
    <2>1. queue # << >> /\ queue' = Tail(queue) /\ life = "alive"
      BY <1>7 DEF ReportHandler, HandleRead, Running
    <2>2. TypeOK'
      BY <1>7, <2>1, <1>t, RemainingHandlers
      DEF ReportHandler, HandleRead, TypeOK, object, kernel, processes
    <2>3. HeartbeatOnce'
      BY <1>7, <2>1, <1>t, OneHeartbeatTail, ContainsTail
      DEF ReportHandler, HandleRead, HeartbeatOnce, HasPid, object
    <2> QED BY <1>7, <2>1, <2>2, <2>3 DEF NothingBeforeConstruction, ReportHandler, HandleRead
  <1>8. CASE KillingTimeoutHandler \/ StopTimeoutHandler
    <2>1. queue # << >> /\ queue' = Append(Tail(queue), "report") /\ life = "alive"
      BY <1>8 DEF KillingTimeoutHandler, StopTimeoutHandler, Running, SetProcessState
    <2>2. Tail(queue) \in Seq(Handler)
      BY <2>1, <1>t
    <2>3. TypeOK'
      BY <1>8, <2>1, <2>2, AppendedHandlers, HandlerMembers
      DEF KillingTimeoutHandler, StopTimeoutHandler, TypeOK, object, SigKill,
          SetProcessState, ProcessState, Signals, Caller
    <2>4. HeartbeatOnce'
      BY <1>8, <2>1, <2>2, <1>t, OneHeartbeatTail, ContainsTail, ReportAppended
      DEF KillingTimeoutHandler, StopTimeoutHandler, HeartbeatOnce, HasPid, object
    <2> QED BY <1>8, <2>1, <2>3, <2>4
            DEF NothingBeforeConstruction, KillingTimeoutHandler, StopTimeoutHandler
  <1>9. CASE HeartBeatTimeoutHandle
    <2>1. /\ queue # << >> /\ Head(queue) = "heartbeat" /\ life = "alive" /\ life' = "alive"
          /\ queue' = Tail(queue) \/ queue' = Append(Tail(queue), "report")
      BY <1>9 DEF HeartBeatTimeoutHandle, Running, SetProcessState
    <2>2. Tail(queue) \in Seq(Handler) /\ ~Contains(Tail(queue), "heartbeat")
      BY <2>1, <1>t, OneHeartbeatTail DEF HeartbeatOnce
    <2>3. Contains(queue, "heartbeat")
      BY <2>1, <1>t, RemainingHandlers DEF Contains
    <2>4. unackedHeartbeatCount < Threshold /\ "heartbeat" \notin armed
      BY <2>1, <2>3 DEF HeartbeatOnce
    <2>5. TypeOK'
      <3>1. unackedHeartbeatCount' \in 0..Threshold
        BY <1>9, <2>4, BoundsAssumption DEF HeartBeatTimeoutHandle, TypeOK
      <3>2. queue' \in Seq(Handler)
        BY <2>1, <2>2, AppendedHandlers, HandlerMembers
      <3>4. armed' \subseteq Timer
        BY <1>9, <1>t DEF HeartBeatTimeoutHandle, Timer
      <3>3. /\ doomed' \subseteq running' /\ state' \in ProcessState \cup {"NULL"}
            /\ stray' \subseteq Caller
        BY <1>9 DEF HeartBeatTimeoutHandle, TypeOK, SigKill, SetProcessState, ProcessState,
                    Signals, Caller
      <3> QED BY <1>9, <2>1, <3>1, <3>2, <3>3, <3>4 DEF HeartBeatTimeoutHandle, TypeOK
    <2>6. OneHeartbeat(queue') /\ ~Contains(queue', "heartbeat")
      <3>1. OneHeartbeat(Tail(queue))
        BY <2>1, <1>t, OneHeartbeatTail DEF HeartbeatOnce
      <3> QED BY <2>1, <2>2, <3>1, ReportAppended
    <2>7. HeartbeatOnce'
      BY <1>9, <2>1, <2>3, <2>4, <2>6, <1>t
      DEF HeartBeatTimeoutHandle, HeartbeatOnce, HasPid, Timer
    <2> QED BY <2>1, <2>5, <2>7 DEF NothingBeforeConstruction
  <1>10. CASE SignalHandler
    <2>1. queue # << >> /\ queue' = Tail(queue) /\ life' = life /\ life \in {"alive", "destroyed"}
      BY <1>10 DEF SignalHandler
    <2>2. TypeOK'
      BY <1>10, <2>1, <1>t, RemainingHandlers DEF SignalHandler, TypeOK, object, kernel, processes
    <2>3. HeartbeatOnce'
      BY <1>10, <2>1, <1>t, OneHeartbeatTail, ContainsTail
      DEF SignalHandler, HeartbeatOnce, HasPid, object
    <2> QED BY <2>1, <2>2, <2>3 DEF NothingBeforeConstruction
  <1>13. CASE OwnForks \/ WorkerLeaves \/ NumberRecycled
    <2>1. /\ running' \subseteq Process /\ doomed' \subseteq running'
          /\ zombies' \subseteq Process \ running' /\ recycled' \in BOOLEAN
      BY <1>13 DEF OwnForks, WorkerLeaves, NumberRecycled, TypeOK, Process, processes
    <2>2. TypeOK'
      BY <1>13, <2>1 DEF OwnForks, WorkerLeaves, NumberRecycled, TypeOK, object, processes
    <2>3. HeartbeatOnce'
      BY <1>13 DEF OwnForks, WorkerLeaves, NumberRecycled, HeartbeatOnce, HasPid, object
    <2> QED BY <1>13, <2>2, <2>3
            DEF OwnForks, WorkerLeaves, NumberRecycled, NothingBeforeConstruction, object
  <1>14. CASE Waitpid
    <2>1. zombies' \subseteq Process \ running /\ pc' \in {"loop", "signal", "reaped"}
      BY <1>14 DEF Waitpid, TypeOK
    <2>3. TypeOK'
      BY <1>14, <2>1 DEF Waitpid, TypeOK, object
    <2>2. HeartbeatOnce'
      BY <1>14 DEF Waitpid, HeartbeatOnce, HasPid, object
    <2> QED BY <1>14, <2>2, <2>3 DEF Waitpid, NothingBeforeConstruction, object
  <1>15. CASE ProcessTerminated
    <2>1. /\ queue' \in Seq(Handler) /\ state' \in ProcessState \cup {"NULL"}
          /\ OneHeartbeat(queue) =>
               /\ OneHeartbeat(queue')
               /\ Contains(queue', "heartbeat") <=> Contains(queue, "heartbeat")
      <3>1. CASE queue' = queue /\ state' = state
        BY <1>t, <3>1 DEF TypeOK
      <3>2. CASE queue' = Append(queue, "report") /\ state' = "EXPECTDEAD"
        BY <1>t, <3>2, AppendedHandlers, HandlerMembers, ReportAppended DEF ProcessState
      <3> QED BY <1>15, <3>1, <3>2 DEF ProcessTerminated, DeathReported, SetProcessState
    <2>2. doomed' \subseteq running /\ stray' \subseteq Caller
      BY <1>15, <1>s DEF ProcessTerminated, SigKillGroup, TypeOK, Caller
    <2>3. TypeOK'
      BY <1>15, <2>1, <2>2 DEF ProcessTerminated, TypeOK
    <2>4. HeartbeatOnce'
      BY <1>15, <2>1 DEF ProcessTerminated, HeartbeatOnce, HasPid
    <2> QED BY <1>15, <2>3, <2>4 DEF ProcessTerminated, NothingBeforeConstruction
  <1>16. CASE ProcessTerminatedThrows
    <2>1. TypeOK'
      BY <1>16 DEF ProcessTerminatedThrows, TypeOK, kernel, processes
    <2> QED BY <1>16, <2>1 DEF ProcessTerminatedThrows, HeartbeatOnce, NothingBeforeConstruction
  <1>11. CASE DanglingHandler
    <2>1. /\ queue # << >> /\ life = "destroyed" /\ life' \in {"destroyed", "crashed"}
          /\ queue' = Tail(queue) \/ queue' = queue
      BY <1>11 DEF DanglingHandler
    <2>2. TypeOK'
      BY <1>11, <2>1, <1>t, <1>s, RemainingHandlers
      DEF DanglingHandler, TypeOK, object, processes, Caller
    <2> QED BY <2>1, <2>2 DEF HeartbeatOnce, NothingBeforeConstruction, OneHeartbeat
  <1>12. CASE UNCHANGED vars
    BY <1>12 DEF vars, object, kernel, processes, TypeOK, HeartbeatOnce,
                 NothingBeforeConstruction, HasPid
  <1> QED
    BY <1>1, <1>2, <1>3, <1>4, <1>5, <1>6, <1>7, <1>8, <1>9, <1>10, <1>11, <1>12, <1>13,
       <1>14, <1>15, <1>16
    DEF Next, Owner, Reactor, World, RunHandler

\* A child's members stay in their types, and the count of unacknowledged
\* heartbeats within the threshold, however timers and handlers interleave
\* (heartBeatTimeoutHandle()).
THEOREM TypeCorrect == Spec => []TypeOK
  <1>1. TypeInv => TypeOK
    BY DEF TypeInv
  <1> QED BY <1>1, TypeInit, TypeStep, PTL DEF Spec

-----------------------------------------------------------------------------
(* The pid and the supervision.                                            *)

\* The member pid holds the number of the service's process from the construction
\* to the end of processTerminated(), and that process is running or a zombie
\* but for the moment between waitpid() and the clearing of the member.
PidFollowsProcess ==
  /\ pid = "own" => HasPid(service) /\ life # "unborn"
  /\ life # "unborn" /\ HasPid(service) => pid \in {"own", "zero"}
  /\ life = "alive" /\ pid = "own" /\ pc # "reaped" => "own" \in running \cup zombies
  /\ "own" \in running \cup zombies => pid = "own" /\ life = "alive" /\ pc # "reaped"
  /\ pc = "reaped" /\ life # "crashed" => pid = "own" /\ life = "alive"

\* A number is given away only when nobody of the group has it.
RecycledWhenUnused == recycled => (running \cup zombies) \cap Group = {}

ChildInv == TypeInv /\ PidFollowsProcess /\ RecycledWhenUnused
              /\ PidIsHeld /\ NoProcessLeftBehind

LEMMA ChildInit == Init => ChildInv
  BY TypeInit
  DEF Init, ChildInv, PidFollowsProcess, RecycledWhenUnused, PidIsHeld, NoProcessLeftBehind, Reaped

\* While init is in its loop, a living child's signal reaches no stranger.
LEMMA NoStrangerInTheLoop ==
  ASSUME ChildInv, life = "alive", pc = "loop", NEW who, Signals(who)
  PROVE  stray' = stray
  BY DEF ChildInv, PidFollowsProcess, RecycledWhenUnused, Signals, Group

LEMMA ChildStep == ChildInv /\ [Next]_vars => ChildInv'
  <1> SUFFICES ASSUME ChildInv, [Next]_vars
               PROVE  /\ PidFollowsProcess' /\ RecycledWhenUnused'
                      /\ PidIsHeld' /\ NoProcessLeftBehind'
    BY TypeStep DEF ChildInv
  <1> USE DEF ChildInv, PidFollowsProcess, RecycledWhenUnused, PidIsHeld, NoProcessLeftBehind,
              HasPid, Reaped, Group
  <1>1. CASE Construct
    <2>1. pc = "loop" /\ zombies = {} /\ ~recycled /\ stray \subseteq {"processTerminated", "dangling"}
      BY <1>1 DEF Construct, TypeInv, NothingBeforeConstruction
    <2> QED BY <1>1, <2>1 DEF Construct
  <1>2. CASE pc = "loop" /\ Destroy
    <2>1. stray' = stray
      BY <1>2, NoStrangerInTheLoop DEF Destroy
    <2> QED BY <1>2, <2>1 DEF Destroy
  <1>3. CASE pc = "loop" /\ StartTerminating
    <2>1. stray' = stray
      BY <1>3, NoStrangerInTheLoop DEF StartTerminating
    <2> QED BY <1>3, <2>1 DEF StartTerminating, processes
  <1>4. CASE ServiceWrites \/ \E t \in Timer : TimerExpires(t)
    <2>1. UNCHANGED <<life, service, pid, pc, running, doomed, zombies, recycled, stray>>
      BY <1>4 DEF ServiceWrites, TimerExpires, kernel, processes
    <2> QED BY <2>1
  <1>5. ASSUME NEW p \in Process, ProcessExits(p)
        PROVE  PidFollowsProcess' /\ RecycledWhenUnused' /\ PidIsHeld' /\ NoProcessLeftBehind'
    BY <1>5 DEF ProcessExits, object
  <1>6. CASE OwnForks
    BY <1>6 DEF OwnForks, object
  <1>7. CASE WorkerLeaves
    BY <1>7 DEF WorkerLeaves, object
  <1>8. CASE NumberRecycled
    <2>1. /\ UNCHANGED <<life, service, pid, pc, running, doomed, zombies, stray>>
          /\ "own" \notin running \cup zombies /\ (running \cup zombies) \cap Group = {}
      BY <1>8 DEF NumberRecycled, object, processes
    <2>2. life = "alive" /\ pid = "own" => pc = "reaped"
      BY <2>1
    <2> QED BY <2>1, <2>2
  <1>9. CASE ReportHandler \/ HandleRead
    <2>1. UNCHANGED <<life, service, pid, pc, running, doomed, zombies, recycled, stray>>
      BY <1>9 DEF ReportHandler, HandleRead, object, kernel, processes
    <2> QED BY <2>1
  <1>10. CASE KillingTimeoutHandler \/ StopTimeoutHandler
    <2>1. stray' = stray
      BY <1>10, NoStrangerInTheLoop DEF KillingTimeoutHandler, StopTimeoutHandler, Running, SigKill
    <2> QED BY <1>10, <2>1 DEF KillingTimeoutHandler, StopTimeoutHandler, Running, object, SigKill
  <1>11. CASE HeartBeatTimeoutHandle
    <2>1. stray' = stray
      BY <1>11, NoStrangerInTheLoop DEF HeartBeatTimeoutHandle, Running, SigKill
    <2> QED BY <1>11, <2>1 DEF HeartBeatTimeoutHandle, Running, SigKill
  <1>12. CASE SignalHandler
    BY <1>12 DEF SignalHandler, object, kernel, processes
  <1>13. CASE Waitpid
    \* The child whose pid is reaped goes on with processTerminated().
    <2>1. ASSUME NEW p \in zombies, zombies' = zombies \ {p},
                 pc' = IF p = "own" /\ pid = "own" /\ life = "alive" THEN "reaped" ELSE "signal"
          PROVE  PidFollowsProcess' /\ PidIsHeld'
      <3>1. CASE p = "own"
        <4>1. "own" \notin running
          BY <2>1, <3>1 DEF TypeInv, TypeOK
        <4> QED BY <1>13, <2>1, <3>1, <4>1 DEF Waitpid, object
      <3>2. CASE p # "own"
        BY <1>13, <2>1, <3>2 DEF Waitpid, object
      <3> QED BY <3>1, <3>2
    <2>2. CASE zombies = {} /\ pc' = "loop" /\ UNCHANGED zombies
      BY <1>13, <2>2 DEF Waitpid, object
    <2>3. RecycledWhenUnused' /\ NoProcessLeftBehind'
      BY <1>13 DEF Waitpid, object
    <2> QED BY <1>13, <2>1, <2>2, <2>3 DEF Waitpid
  <1>14. CASE life # "crashed" /\ ProcessTerminated
    \* It is the one that may signal a stranger; the group it kills is the own one
    \* if there is any.
    <2>1. stray' \subseteq {"processTerminated", "dangling"}
      BY <1>14 DEF ProcessTerminated, SigKillGroup, Signals
    <2>2. "worker" \in running => "worker" \in doomed' /\ ~recycled
      BY <1>14 DEF ProcessTerminated, SigKillGroup
    <2> QED BY <1>14, <2>1, <2>2 DEF ProcessTerminated
  <1>15. CASE ProcessTerminatedThrows
    BY <1>15 DEF ProcessTerminatedThrows, kernel, processes
  <1>16. CASE DanglingHandler
    BY <1>16 DEF DanglingHandler, Signals, object, processes
  <1>17. CASE UNCHANGED vars
    BY <1>17 DEF vars, object, kernel, processes
  <1> QED
    BY <1>1, <1>2, <1>3, <1>4, <1>5, <1>6, <1>7, <1>8, <1>9, <1>10, <1>11, <1>12, <1>13,
       <1>14, <1>15, <1>16, <1>17
    DEF Next, Owner, Reactor, World, RunHandler

\* The SIGTERM of startTerminating(), the SIGKILLs of the three timeouts and the
\* destructor's meet the process of the child or its zombie, in whatever order
\* exit, SIGCHLD, timeouts and the owner's calls come.  A stranger that has been
\* given the number can be met only by the kill() that processTerminated() sends
\* to the group after the reaping (line 171) and by a handler that outlives the
\* child, and the member holds such a number nowhere but within that handler.
THEOREM SignalsReachTheChild == Spec => []PidIsHeld
  <1>1. ChildInv => PidIsHeld
    BY DEF ChildInv
  <1> QED BY <1>1, ChildInit, ChildStep, PTL DEF Spec

\* Neither the process whose pid a child holds outlives the destructor, running
\* or unreaped, nor does a member of its group go unkilled once it has been
\* reaped or the child destroyed.
THEOREM DestructorReaps == Spec => []NoProcessLeftBehind
  <1>1. ChildInv => NoProcessLeftBehind
    BY DEF ChildInv
  <1> QED BY <1>1, ChildInit, ChildStep, PTL DEF Spec

\* An action that leaves the armed timers and the handlers that are queued
\* keeps the supervision; so does one that ends the need for it.
LEMMA SupervisionKept ==
  ASSUME SupervisionNeverLapses, service' = service, queue \in Seq(Handler), life = "alive",
         \/ state' = state /\ (Reaped => Reaped')
         \/ state' \notin {"STARTING", "RUNNING"},
         \A t \in Timer \ {"stop"} :
           Pending(t) => Pending(t)' \/ state' \notin {"STARTING", "RUNNING"}
  PROVE  SupervisionNeverLapses'
  BY DEF SupervisionNeverLapses, Timer

LEMMA SupervisionInit == Init => SupervisionNeverLapses
  BY DEF Init, SupervisionNeverLapses

LEMMA SupervisionStep == ChildInv /\ SupervisionNeverLapses /\ [Next]_vars => SupervisionNeverLapses'
  <1> SUFFICES ASSUME ChildInv, SupervisionNeverLapses, [Next]_vars
               PROVE  SupervisionNeverLapses'
    OBVIOUS
  <1>t. queue \in Seq(Handler) /\ armed \subseteq Timer
    BY DEF ChildInv, TypeInv, TypeOK
  <1>1. CASE Construct
    BY <1>1 DEF Construct, SupervisionNeverLapses, Pending, SetProcessState
  <1>2. CASE Destroy \/ DanglingHandler
    BY <1>2 DEF Destroy, DanglingHandler, SupervisionNeverLapses
  <1>3. CASE StartTerminating
    BY <1>3 DEF StartTerminating, SetProcessState, SupervisionNeverLapses
  <1>4. CASE ServiceWrites \/ \E p \in Process : ProcessExits(p)
    <2>1. /\ queue' = queue \/ \E h \in Handler : queue' = Append(queue, h)
          /\ UNCHANGED <<life, state, service, pid, armed>>
      BY <1>4, HandlerMembers DEF ServiceWrites, ProcessExits, object
    <2>2. \A t \in Timer : Pending(t) => Pending(t)'
      <3>1. ASSUME NEW h \in Handler, queue' = Append(queue, h), NEW t \in Timer, Pending(t)
            PROVE  Pending(t)'
        <4>1. Contains(queue, t) => Contains(queue', t)
          BY <1>t, <3>1, ContainsAppend
        <4> QED BY <2>1, <3>1, <4>1 DEF Pending
      <3>2. CASE queue' = queue
        BY <2>1, <3>2 DEF Pending
      <3> QED BY <2>1, <3>1, <3>2
    <2> QED BY <1>t, <2>1, <2>2, SupervisionKept DEF SupervisionNeverLapses, Reaped
  <1>5. ASSUME NEW t \in Timer, TimerExpires(t) PROVE SupervisionNeverLapses'
    <2>1. /\ queue' = Append(queue, t) /\ armed' = armed \ {t} /\ t \in Handler
          /\ UNCHANGED <<life, state, service, pid>>
      BY <1>5, HandlerMembers DEF TimerExpires
    <2>2. \A u \in Timer : Pending(u) => Pending(u)'
      BY <1>t, <2>1, ContainsAppend DEF Pending
    <2> QED BY <1>t, <2>1, <2>2, SupervisionKept DEF SupervisionNeverLapses, Reaped
  <1>6. CASE ReportHandler \/ HandleRead
    <2>1. /\ queue # << >> /\ Head(queue) \notin Timer /\ queue' = Tail(queue)
          /\ life = "alive" /\ UNCHANGED <<life, state, service, pid, armed>>
      BY <1>6 DEF ReportHandler, HandleRead, Running, object, Timer
    <2>2. \A t \in Timer : Pending(t) => Pending(t)'
      BY <1>t, <2>1, ContainsTail DEF Pending
    <2> QED BY <1>t, <2>1, <2>2, SupervisionKept DEF Reaped
  <1>7. CASE KillingTimeoutHandler \/ StopTimeoutHandler
    BY <1>7 DEF KillingTimeoutHandler, StopTimeoutHandler, SetProcessState, SupervisionNeverLapses
  <1>8. CASE HeartBeatTimeoutHandle
    <2>1. CASE state' = "KILLING"
      BY <2>1 DEF SupervisionNeverLapses
    <2>2. CASE /\ armed' = armed \cup {"heartbeat"} /\ queue' = Tail(queue)
               /\ UNCHANGED state
      <3>1. /\ queue # << >> /\ Head(queue) = "heartbeat" /\ life = "alive"
            /\ UNCHANGED <<service, pid>>
        BY <1>8 DEF HeartBeatTimeoutHandle, Running
      <3>2. \A t \in Timer : Pending(t) => Pending(t)'
        BY <1>t, <2>2, <3>1, ContainsTail DEF Pending
      <3> QED BY <1>t, <2>2, <3>1, <3>2, SupervisionKept DEF Reaped
    <2> QED BY <1>8, <2>1, <2>2 DEF HeartBeatTimeoutHandle, SetProcessState
  <1>9. CASE SignalHandler
    <2>1. /\ queue # << >> /\ Head(queue) = "sigchld" /\ queue' = Tail(queue)
          /\ UNCHANGED <<life, state, service, pid, armed>>
      BY <1>9 DEF SignalHandler, object
    <2>2. \A t \in Timer : Pending(t) => Pending(t)'
      BY <1>t, <2>1, ContainsTail DEF Pending, Timer
    <2> QED BY <1>t, <2>1, <2>2, SupervisionKept DEF SupervisionNeverLapses, Reaped
  <1>11. CASE life # "crashed" /\ ProcessTerminated
    <2>1. Reaped'
      BY <1>11 DEF ProcessTerminated, Reaped, HasPid, ChildInv, PidFollowsProcess,
                   SupervisionNeverLapses
    <2> QED BY <2>1 DEF SupervisionNeverLapses
  <1>12. CASE OwnForks \/ WorkerLeaves \/ NumberRecycled \/ Waitpid
    BY <1>12 DEF OwnForks, WorkerLeaves, NumberRecycled, Waitpid, object, SupervisionNeverLapses,
                 Reaped, Pending
  <1>13. CASE ProcessTerminatedThrows
    BY <1>13 DEF ProcessTerminatedThrows, SupervisionNeverLapses
  <1>10. CASE UNCHANGED vars
    BY <1>10 DEF vars, object, SupervisionNeverLapses, Reaped, Pending
  <1> QED
    BY <1>1, <1>2, <1>3, <1>4, <1>5, <1>6, <1>7, <1>8, <1>9, <1>10, <1>11, <1>12, <1>13
    DEF Next, Owner, Reactor, World, RunHandler

\* A stuck child is always found: its start, heartbeat or watchdog timeout is
\* armed or due as long as it is neither told to stop, killed nor reaped.
THEOREM StuckChildrenAreFound == Spec => []SupervisionNeverLapses
  <1> DEFINE SupervisionInv == ChildInv /\ SupervisionNeverLapses
  <1>1. Init => SupervisionInv
    BY ChildInit, SupervisionInit
  <1>2. SupervisionInv /\ [Next]_vars => SupervisionInv'
    BY ChildStep, SupervisionStep
  <1>3. SupervisionInv => SupervisionNeverLapses
    OBVIOUS
  <1> QED BY <1>1, <1>2, <1>3, PTL DEF Spec

-----------------------------------------------------------------------------
(* The interface of the owner: how many reports are on their way.          *)

ReportsAt(q) == {i \in DOMAIN q : q[i] = "report"}

LEMMA ReportsAtFinite ==
  ASSUME NEW q \in Seq(Handler)
  PROVE  IsFiniteSet(ReportsAt(q)) /\ Cardinality(ReportsAt(q)) \in Nat
  <1>1. DOMAIN q = 1..Len(q) /\ Len(q) \in Nat
    OBVIOUS
  <1>2. IsFiniteSet(1..Len(q))
    BY <1>1, FS_Interval
  <1>3. ReportsAt(q) \subseteq 1..Len(q)
    BY <1>1 DEF ReportsAt
  <1>4. IsFiniteSet(ReportsAt(q))
    BY <1>2, <1>3, FS_Subset
  <1> QED BY <1>4, FS_CardinalityType

\* Posting a handler adds one report, or none.
LEMMA ReportsAppend ==
  ASSUME NEW q \in Seq(Handler), NEW h \in Handler
  PROVE  Cardinality(ReportsAt(Append(q, h)))
           = Cardinality(ReportsAt(q)) + (IF h = "report" THEN 1 ELSE 0)
  <1> DEFINE n == Len(q) + 1
  <1>1. n \notin ReportsAt(q)
    BY AppendedHandlers DEF ReportsAt
  <1>2. ReportsAt(Append(q, h)) = ReportsAt(q) \cup (IF h = "report" THEN {n} ELSE {})
    BY AppendedHandlers DEF ReportsAt
  <1> HIDE DEF n
  <1>3. CASE h = "report"
    BY <1>1, <1>2, <1>3, ReportsAtFinite, FS_AddElement
  <1>4. CASE h # "report"
    <2>1. ReportsAt(Append(q, h)) = ReportsAt(q)
      BY <1>2, <1>4
    <2> QED BY <1>4, <2>1, ReportsAtFinite
  <1> QED BY <1>3, <1>4

\* Running the head takes one report out of the queue, or none.
LEMMA ReportsTail ==
  ASSUME NEW q \in Seq(Handler), q # << >>
  PROVE  Cardinality(ReportsAt(Tail(q)))
           = Cardinality(ReportsAt(q)) - (IF Head(q) = "report" THEN 1 ELSE 0)
  <1> DEFINE T == ReportsAt(Tail(q))
             S == ReportsAt(q) \ {1}
             shift == [i \in T |-> i + 1]
  <1>1. /\ Tail(q) \in Seq(Handler)
        /\ \A i \in DOMAIN Tail(q) : i + 1 \in DOMAIN q /\ Tail(q)[i] = q[i + 1] /\ i \in Nat /\ i > 0
        /\ \A i \in DOMAIN q : i = 1 \/ (i - 1 \in DOMAIN Tail(q) /\ Tail(q)[i - 1] = q[i])
        /\ 1 \in DOMAIN q /\ q[1] = Head(q)
        /\ \A i \in DOMAIN q : i \in Nat
    OBVIOUS
  <1>2. shift \in [T -> S]
    BY <1>1 DEF ReportsAt
  <1>3. \A i, j \in T : shift[i] = shift[j] => i = j
    BY <1>1 DEF ReportsAt
  <1>4. \A j \in S : \E i \in T : shift[i] = j
    <2>1. ASSUME NEW j \in S
          PROVE  j - 1 \in T /\ j \in Nat
      BY <1>1 DEF ReportsAt
    <2>2. ASSUME NEW j \in S
          PROVE  shift[j - 1] = j
      BY <2>1
    <2> QED BY <2>1, <2>2
  <1>5. shift \in Bijection(T, S)
    <2> HIDE DEF T, S, shift
    <2>1. DOMAIN shift = T
      BY <1>2
    <2> QED BY <1>2, <1>3, <1>4, <2>1 DEF Bijection, Injection, Surjection, IsInjective
  <1>6. IsFiniteSet(T)
    BY <1>1, ReportsAtFinite
  <1>7. Cardinality(S) = Cardinality(T)
    <2> HIDE DEF T, S, shift
    <2>1. ExistsBijection(T, S)
      BY <1>5 DEF ExistsBijection
    <2> QED BY <1>6, <2>1, FS_Bijection
  <1>8. Cardinality(S) = IF 1 \in ReportsAt(q) THEN Cardinality(ReportsAt(q)) - 1
                         ELSE Cardinality(ReportsAt(q))
    BY ReportsAtFinite, FS_RemoveElement
  <1>9. 1 \in ReportsAt(q) <=> Head(q) = "report"
    BY <1>1 DEF ReportsAt
  <1>10. Cardinality(ReportsAt(q)) \in Nat
    BY ReportsAtFinite
  <1> HIDE DEF T, S
  <1>11. Cardinality(T) = Cardinality(ReportsAt(q)) - (IF Head(q) = "report" THEN 1 ELSE 0)
    BY <1>7, <1>8, <1>9, <1>10
  <1> QED BY <1>11 DEF T

LEMMA ReportsIs == Reports = Cardinality(ReportsAt(queue)) /\ Reports' = Cardinality(ReportsAt(queue'))
  BY DEF Reports, ReportsAt

\* Every step is a step of the interface, or shows nothing to the owner.
LEMMA LifecycleStep == ChildInv /\ [Next]_vars => [Lifecycle!Next]_(Lifecycle!vars)
  <1> SUFFICES ASSUME ChildInv, [Next]_vars
               PROVE  [Lifecycle!Next]_(Lifecycle!vars)
    OBVIOUS
  <1> USE DEF Lifecycle!Next, Lifecycle!vars
  <1>t. queue \in Seq(Handler)
    BY DEF ChildInv, TypeInv, TypeOK
  <1>n. Reports \in Nat
    BY <1>t, ReportsIs, ReportsAtFinite
  <1>p. \A h \in Handler : queue' = Append(queue, h) =>
          Reports' = Reports + (IF h = "report" THEN 1 ELSE 0)
    BY <1>t, ReportsIs, ReportsAppend
  <1>q. queue # << >> /\ queue' = Tail(queue) =>
          Reports' = Reports - (IF Head(queue) = "report" THEN 1 ELSE 0)
    BY <1>t, ReportsIs, ReportsTail
  <1>r. queue # << >> /\ queue' = Append(Tail(queue), "report") /\ Head(queue) # "report" =>
          Reports' = Reports + 1
    <2> SUFFICES ASSUME queue # << >>, queue' = Append(Tail(queue), "report"),
                        Head(queue) # "report"
                 PROVE  Reports' = Reports + 1
      OBVIOUS
    <2>1. Tail(queue) \in Seq(Handler)
      BY <1>t
    <2>2. Cardinality(ReportsAt(Tail(queue))) = Cardinality(ReportsAt(queue)) /\
          Cardinality(ReportsAt(queue)) \in Nat
      BY <1>t, ReportsTail, ReportsAtFinite
    <2>3. Cardinality(ReportsAt(queue')) = Cardinality(ReportsAt(Tail(queue))) + 1
      BY <2>1, HandlerMembers, ReportsAppend
    <2> QED BY <2>2, <2>3, ReportsIs
  <1>1. CASE Construct
    <2>1. queue = << >> /\ queue' = Append(queue, "report")
      BY <1>1 DEF Construct, SetProcessState, ChildInv, TypeInv, NothingBeforeConstruction
    <2>2. ReportsAt(queue) = {}
      BY <2>1 DEF ReportsAt
    <2>3. Reports = 0
      BY <2>2, ReportsIs, FS_EmptySet
    <2>4. Reports' = 1
      BY <1>p, <2>1, <2>3, HandlerMembers
    <2> QED BY <1>1, <2>4 DEF Construct, SetProcessState, Lifecycle!Create
  <1>2. CASE Destroy
    <2>1. Reports' = Reports
      BY <1>2, ReportsIs DEF Destroy
    <2> QED BY <1>2, <2>1 DEF Destroy, Lifecycle!Destroy
  <1>3. CASE StartTerminating
    <2>1. Reports' = Reports + 1
      BY <1>3, <1>p, HandlerMembers DEF StartTerminating, SetProcessState
    <2> QED BY <1>3, <2>1 DEF StartTerminating, SetProcessState, Lifecycle!SetState
  <1>4. CASE World \/ Reactor
    <2>1. /\ UNCHANGED <<life, state>>
          /\ queue' = queue \/ \E h \in Handler \ {"report"} : queue' = Append(queue, h)
      BY <1>4, HandlerMembers
      DEF World, Reactor, ServiceWrites, ProcessExits, TimerExpires, Timer, OwnForks,
          WorkerLeaves, NumberRecycled
    <2>2. Reports' = Reports
      BY <1>n, <1>p, <2>1, ReportsIs
    <2> QED BY <2>1, <2>2
  <1>5. CASE ReportHandler
    <2>1. /\ life = "alive" /\ UNCHANGED <<life, state>>
          /\ queue # << >> /\ Head(queue) = "report" /\ queue' = Tail(queue)
      BY <1>5 DEF ReportHandler, Running
    <2>2. Reports' = Reports - 1 /\ Reports > 0
      <3>1. Reports' = Reports - 1
        BY <1>q, <2>1
      <3>2. Reports' \in Nat
        <4>1. queue' \in Seq(Handler)
          BY <1>t, <2>1
        <4> QED BY <4>1, ReportsIs, ReportsAtFinite
      <3> QED BY <1>n, <3>1, <3>2
    <2> QED BY <2>1, <2>2 DEF Lifecycle!Report
  <1>6. CASE HandleRead
    <2>1. /\ UNCHANGED <<life, state>>
          /\ queue # << >> /\ Head(queue) = "read" /\ queue' = Tail(queue)
      BY <1>6 DEF HandleRead, Running
    <2>2. Reports' = Reports
      BY <1>n, <1>q, <2>1
    <2> QED BY <2>1, <2>2
  <1>7. CASE KillingTimeoutHandler \/ StopTimeoutHandler
    <2>1. /\ life = "alive" /\ UNCHANGED life /\ state' = "KILLING"
          /\ queue # << >> /\ Head(queue) # "report" /\ queue' = Append(Tail(queue), "report")
      BY <1>7 DEF KillingTimeoutHandler, StopTimeoutHandler, Running, SetProcessState
    <2> QED BY <1>r, <2>1 DEF Lifecycle!SetState
  <1>8. CASE HeartBeatTimeoutHandle
    <2>1. /\ life = "alive" /\ UNCHANGED life
          /\ queue # << >> /\ Head(queue) = "heartbeat"
          /\ \/ queue' = Tail(queue) /\ UNCHANGED state
             \/ queue' = Append(Tail(queue), "report") /\ state' = "KILLING"
      BY <1>8 DEF HeartBeatTimeoutHandle, Running, SetProcessState
    <2>2. CASE queue' = Tail(queue) /\ UNCHANGED state
      BY <1>n, <1>q, <2>1, <2>2
    <2>3. CASE queue' = Append(Tail(queue), "report") /\ state' = "KILLING"
      BY <1>r, <2>1, <2>3 DEF Lifecycle!SetState
    <2> QED BY <2>1, <2>2, <2>3
  <1>9. CASE SignalHandler
    <2>1. /\ UNCHANGED <<life, state>>
          /\ queue # << >> /\ Head(queue) = "sigchld" /\ queue' = Tail(queue)
      BY <1>9 DEF SignalHandler
    <2>2. Reports' = Reports
      BY <1>n, <1>q, <2>1
    <2> QED BY <2>1, <2>2
  <1>12. CASE Waitpid
    <2>1. Reports' = Reports
      BY <1>12, ReportsIs DEF Waitpid
    <2> QED BY <1>12, <2>1 DEF Waitpid
  <1>13. CASE life # "crashed" /\ ProcessTerminated
    <2>1. life = "alive"
      BY <1>13 DEF ProcessTerminated, ChildInv, PidFollowsProcess
    <2>2. CASE queue' = queue /\ UNCHANGED state
      <3>1. Reports' = Reports
        BY <2>2, ReportsIs
      <3> QED BY <1>13, <2>2, <3>1 DEF ProcessTerminated
    <2>3. CASE state = "TERMINATING" /\ SetProcessState("EXPECTDEAD", queue)
      <3>1. Reports' = Reports + 1
        BY <2>3, <1>p, HandlerMembers DEF SetProcessState
      <3> QED BY <1>13, <2>1, <2>3, <3>1 DEF ProcessTerminated, SetProcessState, Lifecycle!SetState
    <2> QED BY <1>13, <2>2, <2>3 DEF ProcessTerminated, DeathReported
  <1>14. CASE life # "crashed" /\ ProcessTerminatedThrows
    <2>1. life = "alive" /\ life' = "crashed" /\ UNCHANGED state
      BY <1>14 DEF ProcessTerminatedThrows, ChildInv, PidFollowsProcess
    <2>2. Reports' = Reports
      BY <1>14, ReportsIs DEF ProcessTerminatedThrows
    <2> QED BY <2>1, <2>2 DEF Lifecycle!Crash
  <1>10. CASE DanglingHandler
    <2>1. /\ life = "destroyed" /\ queue # << >> /\ UNCHANGED state
          /\ \/ queue' = Tail(queue) /\ UNCHANGED life
             \/ life' = "crashed" /\ UNCHANGED queue
      BY <1>10 DEF DanglingHandler
    <2>2. CASE queue' = Tail(queue) /\ UNCHANGED life
      <3>1. Reports' \in Nat
        <4>1. queue' \in Seq(Handler)
          BY <1>t, <2>1, <2>2
        <4> QED BY <4>1, ReportsIs, ReportsAtFinite
      <3>2. Reports' = Reports \/ (Reports' = Reports - 1 /\ Reports > 0)
        BY <1>n, <1>q, <2>1, <2>2, <3>1
      <3> QED BY <2>1, <2>2, <3>2 DEF Lifecycle!Report
    <2>3. CASE life' = "crashed" /\ UNCHANGED queue
      <3>1. Reports' = Reports
        BY <2>3, ReportsIs
      <3> QED BY <2>1, <2>3, <3>1 DEF Lifecycle!Crash
    <2> QED BY <2>1, <2>2, <2>3
  <1>11. CASE UNCHANGED vars
    <2>1. Reports' = Reports
      BY <1>11, ReportsIs DEF vars
    <2> QED BY <1>11, <2>1 DEF vars
  <1> QED BY <1>1, <1>2, <1>3, <1>4, <1>5, <1>6, <1>7, <1>8, <1>9, <1>10, <1>11, <1>12,
             <1>13, <1>14
          DEF Next, Owner, RunHandler

\* The child implements the interface its owner relies on, but for the promise
\* that every report is delivered: no state returns to STARTING, only a starting
\* child becomes RUNNING, an expected death ends a termination, and each change
\* posts one report (setProcessState(), processTerminated()); it is destroyed, or
\* init crashes, at most once.
THEOREM ChildImplementsLifecycle == Spec => Lifecycle!Init /\ [][Lifecycle!Next]_(Lifecycle!vars)
  <1>1. Init => Lifecycle!Init
    <2> SUFFICES ASSUME Init
                 PROVE  Lifecycle!Init
      OBVIOUS
    <2>1. ReportsAt(queue) = {}
      BY DEF Init, ReportsAt
    <2>2. Reports = 0
      BY <2>1, ReportsIs, FS_EmptySet
    <2> QED BY <2>2 DEF Init, Lifecycle!Init
  <1> QED BY <1>1, ChildInit, ChildStep, LifecycleStep, PTL DEF Spec
=============================================================================
