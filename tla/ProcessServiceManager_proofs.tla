-------------------- MODULE ProcessServiceManager_proofs --------------------
(***************************************************************************)
(* Proofs about ProcessServiceManager for every set of services, every     *)
(* dependency graph, every choice of failures and every bound.             *)
(***************************************************************************)
EXTENDS ProcessServiceManager, FiniteSetTheorems, TLAPS

-----------------------------------------------------------------------------
(* The queue.                                                              *)

\* Every handler that is posted is a Handler.
LEMMA HandlerMembers ==
  /\ \A s \in Services : StateChange(s) \in Handler /\ RestartTimeout(s) \in Handler
  /\ \A s \in Services, st \in ProcessState \cup {"NULL"} : Dangling(s, st) \in Handler
  /\ Sigchld \in Handler /\ TerminateWithCleanup \in Handler /\ NotifyTermination \in Handler
  BY DEF StateChange, RestartTimeout, Dangling, Sigchld, TerminateWithCleanup,
         NotifyTermination, Handler

\* A handler that names a service names one of the configuration.
LEMMA HandlerNames ==
  ASSUME NEW h \in Handler
  PROVE  /\ h.kind \in {"stateChange", "dangling", "restart"} => h.name \in Services
         /\ h.kind = "dangling" => h.last \in ProcessState \cup {"NULL"}
  BY DEF Handler

\* The orders of a finite set are functions on 1..n for one number n.
LEMMA OrdersDomain ==
  ASSUME NEW S \in SUBSET Services
  PROVE  \E n \in Nat : \A o \in SetToSeqs(S) : o \in [1..n -> S]
  <1>1. Cardinality(S) \in Nat
    BY ServicesAssumption, FS_Subset, FS_CardinalityType
  <1> QED BY <1>1 DEF SetToSeqs

\* The queued reports of the children of S are a sequence of handlers.
LEMMA ReportsType ==
  ASSUME NEW S \in SUBSET Services, NEW r \in Reports(S)
  PROVE  r \in Seq(Handler)
  <1>1. PICK o \in SetToSeqs(S) : r = [i \in DOMAIN o |-> StateChange(o[i])]
    BY DEF Reports
  <1>2. PICK n \in Nat : o \in [1..n -> S]
    BY OrdersDomain
  <1>3. r \in [1..n -> Handler]
    BY <1>1, <1>2, HandlerMembers
  <1> QED BY <1>3

\* So are the first reports of the children that are launched.
LEMMA LaunchReportsType ==
  ASSUME NEW S \in SUBSET Services, NEW fresh, NEW o \in SetToSeqs(S)
  PROVE  [i \in DOMAIN o |-> IF o[i] \in fresh THEN StateChange(o[i])
                             ELSE Dangling(o[i], InitialState(o[i]))] \in Seq(Handler)
  <1> DEFINE h(s) == IF s \in fresh THEN StateChange(s) ELSE Dangling(s, InitialState(s))
             r == [i \in DOMAIN o |-> h(o[i])]
  <1>1. \A s \in S : h(s) \in Handler
    BY HandlerMembers DEF InitialState, ProcessState
  <1>2. PICK n \in Nat : o \in [1..n -> S]
    BY OrdersDomain
  <1> HIDE DEF h
  <1>3. r \in [1..n -> Handler]
    BY <1>1, <1>2
  <1>4. r \in Seq(Handler)
    BY <1>3
  <1> QED BY <1>4 DEF h

\* Marking reports as dangling keeps a sequence of handlers, its length, and
\* every handler that is no report.
LEMMA MarkDanglingProperties ==
  ASSUME NEW q \in Seq(Handler), NEW S,
         child \in [Services -> ProcessState \cup {"NULL"}]
  PROVE  /\ MarkDangling(q, S) \in Seq(Handler)
         /\ DOMAIN MarkDangling(q, S) = DOMAIN q
         /\ \A i \in DOMAIN q : q[i].kind # "stateChange" => MarkDangling(q, S)[i] = q[i]
  <1> DEFINE f(h) == IF h.kind = "stateChange" /\ h.name \in S
                     THEN Dangling(h.name, child[h.name]) ELSE h
             r == [i \in DOMAIN q |-> f(q[i])]
  <1>1. \A h \in Handler : f(h) \in Handler
    BY HandlerMembers, HandlerNames
  <1>2. \A h : h.kind # "stateChange" => f(h) = h
    OBVIOUS
  <1>3. PICK n \in Nat : q \in [1..n -> Handler]
    OBVIOUS
  <1> HIDE DEF f
  <1>4. r \in [1..n -> Handler]
    BY <1>1, <1>3
  <1>5. /\ r \in Seq(Handler)
        /\ DOMAIN r = DOMAIN q
        /\ \A i \in DOMAIN q : q[i].kind # "stateChange" => r[i] = q[i]
    BY <1>2, <1>3, <1>4
  <1>6. MarkDangling(q, S) = r
    BY DEF MarkDangling, f
  <1> QED BY <1>5, <1>6

-----------------------------------------------------------------------------
(* Types and ownership.                                                    *)

\* Posting and consuming handlers keeps a sequence of handlers.
LEMMA QueueOps ==
  ASSUME NEW q \in Seq(Handler)
  PROVE  /\ \A h \in Handler : Append(q, h) \in Seq(Handler)
         /\ \A r \in Seq(Handler) : q \o r \in Seq(Handler)
         /\ q # << >> => Head(q) \in Handler /\ Tail(q) \in Seq(Handler)
  OBVIOUS

\* Launching services keeps the types and who owns what.
LEMMA LaunchType ==
  ASSUME TypeOK, NEW S \in SUBSET Services, NEW q \in Seq(Handler), Launch(S, q)
  PROVE  /\ started' \subseteq Services
         /\ child' \in [Services -> ProcessState \cup {"NULL"}]
         /\ hasPid' \in [Services -> BOOLEAN]
         /\ queue' \in Seq(Handler)
         /\ \A s \in Services : /\ s \in started => s \in started'
                                /\ child'[s] # "NULL" => s \in started'
                                /\ hasPid'[s] => child'[s] # "NULL"
                                /\ hasPid[s] => hasPid'[s]
  <1>1. queue' \in Seq(Handler)
    <2>1. PICK o \in SetToSeqs(S) :
            queue' = q \o [i \in DOMAIN o |-> IF o[i] \in S \ started
                                              THEN StateChange(o[i])
                                              ELSE Dangling(o[i], InitialState(o[i]))]
      BY DEF Launch
    <2>2. [i \in DOMAIN o |-> IF o[i] \in S \ started
                              THEN StateChange(o[i])
                              ELSE Dangling(o[i], InitialState(o[i]))] \in Seq(Handler)
      BY LaunchReportsType
    <2> QED BY <2>1, <2>2, QueueOps
  <1>2. \A s \in Services : InitialState(s) \in ProcessState /\ InitialState(s) # "NULL"
    BY DEF InitialState, ProcessState
  <1> QED BY <1>1, <1>2 DEF Launch, TypeOK

\* So does clearing the map.
LEMMA MapClearType ==
  ASSUME TypeOK, NEW q \in Seq(Handler), MapClear(q)
  PROVE  /\ started' \subseteq Services
         /\ child' \in [Services -> ProcessState \cup {"NULL"}]
         /\ hasPid' \in [Services -> BOOLEAN]
         /\ restartTimer' \in [Services -> BOOLEAN]
         /\ runningTimestamp' \in [Services -> {"none", "recent", "old"}]
         /\ zombies' \subseteq Services \cup Adopted
         /\ queue' \in Seq(Handler)
         /\ \A s \in Services : /\ child'[s] = "NULL" /\ ~hasPid'[s] /\ ~restartTimer'[s]
                                /\ s \notin zombies'
  <1>1. queue' \in Seq(Handler)
    BY MarkDanglingProperties, QueueOps DEF MapClear, TypeOK
  <1> QED BY <1>1 DEF MapClear, TypeOK

LEMMA ForceTerminateType ==
  ASSUME TypeOK, ForceTerminate, stops' \in 0..MaxStops
  PROVE  TypeOK'
  <1>1. <<NotifyTermination>> \in Seq(Handler)
    BY HandlerMembers
  <1>2. MapClear(<<NotifyTermination>>)
    BY DEF ForceTerminate
  <1> QED BY <1>1, <1>2, MapClearType DEF ForceTerminate, TypeOK, State

LEMMA HostType ==
  ASSUME TypeOK, Host
  PROVE  TypeOK'
  <1>1. CASE Start
    <2> DEFINE S == {s \in Services : StartAfter[s] = {}}
    <2>1. S \in SUBSET Services /\ Launch(S, queue) /\ queue \in Seq(Handler)
      BY <1>1 DEF Start, TypeOK
    <2> HIDE DEF S
    <2>2. starts' \in 0..MaxStarts
      BY <1>1, BoundsAssumption DEF Start, TypeOK
    <2>3. state' \in State /\ hasNotifiedStartupReady' \in BOOLEAN
      BY <1>1 DEF Start, TypeOK, State
    <2> QED BY <1>1, <2>1, <2>2, <2>3, LaunchType, GraphAssumption DEF Start, TypeOK
  <1>2. CASE StartTerminatingWhileStarting
    <2>1. stops' \in 0..MaxStops
      BY <1>2, BoundsAssumption DEF StartTerminatingWhileStarting, TypeOK
    <2> QED BY <1>2, <2>1, ForceTerminateType DEF StartTerminatingWhileStarting
  <1>3. CASE StartTerminating
    <2> DEFINE present == {s \in started : child[s] # "NULL"}
    <2>1. stops' \in 0..MaxStops
      BY <1>3, BoundsAssumption DEF StartTerminating, TypeOK
    <2>2. queue' \in Seq(Handler)
      <3>1. PICK r \in Reports(present) :
              queue' = queue \o r \o (IF present = {} THEN <<NotifyTermination>> ELSE << >>)
        BY <1>3 DEF StartTerminating
      <3>2. present \in SUBSET Services /\ queue \in Seq(Handler)
        BY DEF TypeOK
      <3>3. r \in Seq(Handler)
        BY <3>1, <3>2, ReportsType
      <3>4. (IF present = {} THEN <<NotifyTermination>> ELSE << >>) \in Seq(Handler)
        BY HandlerMembers
      <3> HIDE DEF present
      <3> QED BY <3>1, <3>2, <3>3, <3>4, QueueOps
    <2> QED BY <1>3, <2>1, <2>2 DEF StartTerminating, TypeOK, State, ProcessState
  <1>4. CASE HostForceTerminate
    <2>1. stops' \in 0..MaxStops
      BY <1>4 DEF HostForceTerminate, TypeOK
    <2> QED BY <1>4, <2>1, ForceTerminateType DEF HostForceTerminate
  <1> QED BY <1>1, <1>2, <1>3, <1>4 DEF Host

LEMMA WorldType ==
  ASSUME TypeOK, World
  PROVE  TypeOK'
  <1> USE DEF TypeOK, progress, services, host
  <1>1. ASSUME NEW s \in Services, NEW st \in ProcessState, SetProcessState(s, st), child[s] # "NULL"
        PROVE  TypeOK'
    BY <1>1, HandlerMembers, QueueOps DEF SetProcessState, ProcessState
  <1>2. ASSUME NEW s \in Services, ChildReady(s)
        PROVE  TypeOK'
    BY <1>1, <1>2 DEF ChildReady, ProcessState
  <1>3. ASSUME NEW s \in Services, ChildTimeout(s)
        PROVE  TypeOK'
    BY <1>1, <1>3 DEF ChildTimeout, ProcessState
  <1>4. ASSUME NEW p \in Services \cup Adopted, Exits(p), p \in Services => hasPid[p]
        PROVE  TypeOK'
    BY <1>4, HandlerMembers, QueueOps DEF Exits
  <1>5. ASSUME NEW s \in Services, RestartTimerExpires(s)
        PROVE  TypeOK'
    BY <1>5, HandlerMembers, QueueOps DEF RestartTimerExpires
  <1>6. ASSUME NEW s \in Services, MinutePasses(s)
        PROVE  TypeOK'
    BY <1>6 DEF MinutePasses
  <1>7. ASSUME NEW s \in Services, ChildExit(s)
        PROVE  TypeOK'
    BY <1>4, <1>7 DEF ChildExit
  <1>8. ASSUME NEW p \in Adopted, AdoptedExit(p)
        PROVE  TypeOK'
    BY <1>4, <1>8, ServicesAssumption DEF AdoptedExit
  <1> QED BY <1>2, <1>3, <1>5, <1>6, <1>7, <1>8 DEF World

\* A report, whatever state it reads, keeps the types.
LEMMA StateChangeCbType ==
  ASSUME TypeOK, NEW s \in Services, NEW st \in ProcessState \cup {"NULL"},
         NEW q \in Seq(Handler), StateChangeCb(s, st, q)
  PROVE  TypeOK'
  <1> USE DEF progress, services, host
  <1>0. UNCHANGED <<daemon, terminationNotified, host>>
    BY DEF StateChangeCb
  <1>1. CASE StartupDone(s, st, q)
    BY <1>0, <1>1 DEF StartupDone, TypeOK, State
  <1>2. CASE StartDependents(s, st, q)
    <2>1. Freed(startupMap, s) \in SUBSET Services /\ Launch(Freed(startupMap, s), q)
      BY <1>2 DEF StartDependents, Freed
    <2>2. startupMap' \in [Services -> SUBSET Services]
      BY <1>2 DEF StartDependents, Prune, TypeOK
    <2>3. runningTimestamp' \in [Services -> {"none", "recent", "old"}]
      BY <1>2 DEF StartDependents, TypeOK
    <2>4. everReady' \subseteq Services
      BY <1>2 DEF StartDependents, TypeOK
    <2> QED BY <1>0, <1>2, <2>1, <2>2, <2>3, <2>4, LaunchType DEF StartDependents, TypeOK
  <1>3. CASE RememberReady(s, st, q)
    BY <1>0, <1>3 DEF RememberReady, TypeOK
  <1>4. CASE GiveUp(s, st, q)
    <2>1. queue' \in Seq(Handler)
      BY <1>4, MarkDanglingProperties, HandlerMembers, QueueOps DEF GiveUp, TypeOK
    <2> QED BY <1>0, <1>4, <2>1 DEF GiveUp, ResetServiceAndProcess, TypeOK
  <1>5. CASE ArmRestart(s, st, q)
    <2>1. queue' \in Seq(Handler)
      BY <1>5, MarkDanglingProperties DEF ArmRestart, TypeOK
    <2>2. s \in started
      BY <1>5 DEF StateChangeCb, LooksUp, ArmRestart
    <2> QED BY <1>0, <1>5, <2>1, <2>2 DEF ArmRestart, ResetServiceAndProcess, TypeOK
  <1>6. CASE ReportIgnored(st, q)
    BY <1>0, <1>6 DEF ReportIgnored, TypeOK
  <1> QED BY <1>1, <1>2, <1>3, <1>4, <1>5, <1>6 DEF StateChangeCb

\* The handler at the head of the queue, and the queue behind it.
LEMMA RunningHandler ==
  ASSUME TypeOK, NEW k, Running(k)
  PROVE  /\ queue # << >>
         /\ Head(queue) \in Handler
         /\ Head(queue).kind = k
         /\ Tail(queue) \in Seq(Handler)
  BY QueueOps DEF Running, TypeOK

LEMMA SignalHandlerType ==
  ASSUME TypeOK, SignalHandler
  PROVE  TypeOK'
  <1> USE DEF progress, services, host
  <1>1. PICK exitOk \in SUBSET (zombies \cap Services) :
          LET dead == zombies \cap Services
              reporting == {s \in dead : StateAfterExit(s, exitOk) \in {"DEAD", "EXPECTDEAD"}}
          IN  /\ child' = [s \in Services |->
                             IF s \in dead THEN StateAfterExit(s, exitOk) ELSE child[s]]
              /\ \E reports \in Reports(reporting) : queue' = Tail(queue) \o reports
              /\ hasPid' = [s \in Services |-> hasPid[s] /\ s \notin dead]
    BY DEF SignalHandler
  <1> DEFINE dead == zombies \cap Services
             reporting == {s \in dead : StateAfterExit(s, exitOk) \in {"DEAD", "EXPECTDEAD"}}
  <1>2. \A s \in Services : StateAfterExit(s, exitOk) \in ProcessState \cup {"NULL"}
    BY DEF StateAfterExit, ProcessState, TypeOK
  <1>3. /\ child' \in [Services -> ProcessState \cup {"NULL"}]
        /\ hasPid' \in [Services -> BOOLEAN]
    BY <1>1, <1>2 DEF TypeOK
  <1>4. queue' \in Seq(Handler)
    <2>1. PICK r \in Reports(reporting) : queue' = Tail(queue) \o r
      BY <1>1
    <2>2. reporting \in SUBSET Services
      OBVIOUS
    <2>3. Tail(queue) \in Seq(Handler)
      BY RunningHandler DEF SignalHandler
    <2> HIDE DEF reporting
    <2> QED BY <2>1, <2>2, <2>3, ReportsType, QueueOps
  <1>5. \A s \in Services : /\ child'[s] # "NULL" => s \in started
                            /\ hasPid'[s] => child'[s] # "NULL"
    <2> SUFFICES ASSUME NEW s \in Services
                 PROVE  /\ child'[s] # "NULL" => s \in started
                        /\ hasPid'[s] => child'[s] # "NULL"
      OBVIOUS
    <2>1. CASE s \in zombies
      <3>1. child'[s] = StateAfterExit(s, exitOk) /\ hasPid'[s] = FALSE
        BY <1>1, <2>1
      <3>2. child[s] # "NULL" /\ s \in started
        BY <2>1 DEF TypeOK
      <3> QED BY <3>1, <3>2
    <2>2. CASE s \notin zombies
      BY <1>1, <2>2 DEF TypeOK
    <2> QED BY <2>1, <2>2
  <1> QED BY <1>3, <1>4, <1>5 DEF SignalHandler, TypeOK

LEMMA RunHandlerType ==
  ASSUME TypeOK, RunHandler
  PROVE  TypeOK'
  <1> USE DEF progress, services, host
  <1>1. CASE ReportHandler
    <2>1. /\ Head(queue).name \in Services
          /\ Tail(queue) \in Seq(Handler)
          /\ StateChangeCb(Head(queue).name, child[Head(queue).name], Tail(queue))
      BY <1>1, RunningHandler, HandlerNames DEF ReportHandler
    <2>2. child[Head(queue).name] \in ProcessState \cup {"NULL"}
      BY <2>1 DEF TypeOK
    <2> QED BY <2>1, <2>2, StateChangeCbType
  <1>2. CASE StaleReportHandler
    <2>1. /\ Head(queue).name \in Services
          /\ Head(queue).last \in ProcessState \cup {"NULL"}
          /\ Tail(queue) \in Seq(Handler)
          /\ StateChangeCb(Head(queue).name, Head(queue).last, Tail(queue))
      BY <1>2, RunningHandler, HandlerNames DEF StaleReportHandler
    <2> QED BY <2>1, StateChangeCbType
  <1>3. CASE UseAfterFree \/ MapCorruption \/ NullDereference
    BY <1>3 DEF UseAfterFree, MapCorruption, NullDereference, TypeOK
  <1>4. CASE RestartTimeoutHandler
    <2> DEFINE s == Head(queue).name
    <2>1. s \in Services /\ Tail(queue) \in Seq(Handler)
      BY <1>4, RunningHandler, HandlerNames DEF RestartTimeoutHandler
    <2>2. InitialState(s) \in ProcessState /\ InitialState(s) # "NULL"
      BY DEF InitialState, ProcessState
    <2>3. /\ s \in started
          /\ child' = [child EXCEPT ![s] = InitialState(s)]
          /\ hasPid' = [hasPid EXCEPT ![s] = TRUE]
          /\ zombies' = zombies \ {s}
          /\ queue' = Append(MarkDangling(Tail(queue), {s}), StateChange(s))
          /\ UNCHANGED <<daemon, progress, terminationNotified, started, restartTimer,
                         runningTimestamp, host>>
      BY <1>4 DEF RestartTimeoutHandler
    <2> HIDE DEF s
    <2>4. queue' \in Seq(Handler)
      BY <2>1, <2>3, MarkDanglingProperties, HandlerMembers, QueueOps DEF TypeOK
    <2> QED BY <2>1, <2>2, <2>3, <2>4 DEF TypeOK
  <1>5. CASE SignalHandler
    BY <1>5, SignalHandlerType
  <1>6. CASE NotifyTerminationHandler
    BY <1>6, RunningHandler DEF NotifyTerminationHandler, TypeOK
  <1>7. CASE CleanupHandler
    <2>1. << >> \in Seq(Handler)
      OBVIOUS
    <2> QED BY <1>7, <2>1, MapClearType DEF CleanupHandler, TypeOK
  <1> QED BY <1>1, <1>2, <1>3, <1>4, <1>5, <1>6, <1>7 DEF RunHandler

LEMMA InitType == Init => TypeOK
  <1> SUFFICES ASSUME Init
               PROVE  TypeOK
    OBVIOUS
  <1>1. queue \in Seq(Handler)
    BY DEF Init
  <1>2. starts \in 0..MaxStarts /\ stops \in 0..MaxStops
    BY BoundsAssumption DEF Init
  <1> QED BY <1>1, <1>2 DEF Init, TypeOK, State

LEMMA StepType == TypeOK /\ [Next]_vars => TypeOK'
  <1> SUFFICES ASSUME TypeOK, [Next]_vars
               PROVE  TypeOK'
    OBVIOUS
  <1>1. CASE UNCHANGED vars
    BY <1>1 DEF vars, progress, services, host, TypeOK
  <1> QED BY <1>1, HostType, WorldType, RunHandlerType DEF Next

\* Every variable keeps its type, and nothing but an entry of the manager's map
\* owns a child, a process or an armed restart.
THEOREM TypeCorrect == Spec => []TypeOK
  BY InitType, StepType, PTL DEF Spec

-----------------------------------------------------------------------------
(* The order of the startup.  StartOrder relates `started` to the reports; *)
(* to be inductive it has to say how startupMap, which the code decides    *)
(* by, follows the reports, that nothing waits once the startup is over,   *)
(* and that nothing was launched before start().                           *)

StartupMapFollowsReports ==
  \A s \in Services : /\ startupMap[s] = StartAfter[s] \ everReady
                      /\ s \in started <=> startupMap[s] = {}

OrderInv ==
  /\ TypeOK
  /\ starts = 0 => started = {} /\ state \notin {"STARTING", "RUNNING"}
  /\ daemon = "up" /\ starts = 1 /\ state \in {"STARTING", "RUNNING"} =>
       StartupMapFollowsReports
  /\ daemon = "up" /\ starts = 1 /\ state = "RUNNING" =>
       \A s \in Services : startupMap[s] = {}

\* start() launches the services that wait for nothing.
LEMMA StartOrdered ==
  ASSUME OrderInv, Start
  PROVE  OrderInv'
  <1>1. TypeOK'
    BY HostType DEF OrderInv, Host
  <1>2. starts' = starts + 1 /\ starts \in Nat
    BY BoundsAssumption DEF Start, OrderInv, TypeOK
  <1>3. CASE starts = 0
    <2>1. /\ startupMap' = StartAfter
          /\ everReady' = {}
          /\ started' = {s \in Services : StartAfter[s] = {}}
          /\ state' = "RUNNING" => Services = {}
      BY <1>3 DEF Start, Launch, OrderInv
    <2>2. StartupMapFollowsReports'
      BY <2>1, GraphAssumption DEF StartupMapFollowsReports
    <2> QED BY <1>1, <1>2, <1>3, <2>1, <2>2 DEF OrderInv
  <1>4. CASE starts # 0
    BY <1>1, <1>2, <1>4 DEF OrderInv
  <1> QED BY <1>3, <1>4

\* A report of RUNNING prunes what the report frees, and launches exactly that.
LEMMA StartDependentsOrdered ==
  ASSUME OrderInv, NEW s \in Services, NEW st, NEW q, daemon = "up", starts = 1,
         StartDependents(s, st, q)
  PROVE  StartupMapFollowsReports'
  <1>1. StartupMapFollowsReports
    BY DEF OrderInv, StartDependents
  <1>2. /\ startupMap' = [k \in Services |-> startupMap[k] \ {s}]
        /\ everReady' = everReady \cup {s}
        /\ started' = started \cup {k \in Services : startupMap[k] # {} /\ startupMap[k] \subseteq {s}}
    BY DEF StartDependents, Launch, Prune, Freed
  <1>3. ASSUME NEW k \in Services
        PROVE  /\ startupMap'[k] = StartAfter[k] \ everReady'
               /\ k \in started' <=> startupMap'[k] = {}
    <2>1. startupMap'[k] = startupMap[k] \ {s} /\ startupMap[k] = StartAfter[k] \ everReady
      BY <1>1, <1>2 DEF StartupMapFollowsReports
    <2>2. startupMap'[k] = StartAfter[k] \ everReady'
      BY <1>2, <2>1
    <2>3. k \in started' <=> startupMap[k] = {} \/ startupMap[k] \subseteq {s}
      BY <1>1, <1>2 DEF StartupMapFollowsReports
    <2> QED BY <2>1, <2>2, <2>3
  <1> QED BY <1>3 DEF StartupMapFollowsReports

\* No other report touches the order: when the last child has become ready,
\* nothing waits any more.
LEMMA StateChangeCbOrdered ==
  ASSUME OrderInv, NEW s \in Services, NEW st, NEW q, daemon = "up", TypeOK',
         StateChangeCb(s, st, q)
  PROVE  OrderInv'
  <1> USE DEF progress, services, host
  <1>0. UNCHANGED <<daemon, starts>>
    BY DEF StateChangeCb
  <1>1. CASE StartupDone(s, st, q) \/ RememberReady(s, st, q)
    <2>1. /\ UNCHANGED <<startupMap, started>>
          /\ everReady' = everReady \cup {s}
          /\ state \in {"STARTING", "RUNNING"}
      BY <1>1 DEF StartupDone, RememberReady
    <2>2. CASE starts = 1
      <3>1. StartupMapFollowsReports
        BY <2>1, <2>2 DEF OrderInv
      <3>2. \A k \in Services : startupMap[k] = {}
        BY <1>1, <2>2 DEF StartupDone, AllChildProcessesRunning, RememberReady, OrderInv
      <3>3. StartupMapFollowsReports'
        BY <2>1, <3>1, <3>2 DEF StartupMapFollowsReports
      <3> QED BY <1>0, <2>1, <2>2, <3>2, <3>3 DEF OrderInv
    <2>3. CASE starts # 1
      BY <1>0, <2>1, <2>3 DEF OrderInv
    <2> QED BY <2>2, <2>3
  <1>2. CASE StartDependents(s, st, q)
    <2>1. starts # 0
      BY <1>2 DEF StartDependents, OrderInv
    <2>2. state' = "STARTING"
      BY <1>2 DEF StartDependents
    <2> QED BY <1>0, <1>2, <2>1, <2>2, StartDependentsOrdered DEF OrderInv
  <1>3. CASE GiveUp(s, st, q) \/ ArmRestart(s, st, q) \/ ReportIgnored(st, q)
    <2>1. UNCHANGED <<state, startupMap, started, everReady>>
      BY <1>3 DEF GiveUp, ArmRestart, ReportIgnored
    <2> QED BY <1>0, <2>1 DEF OrderInv, StartupMapFollowsReports
  <1> QED BY <1>1, <1>2, <1>3 DEF StateChangeCb

LEMMA InitOrdered == Init => OrderInv
  BY InitType DEF Init, OrderInv

LEMMA StepOrdered == OrderInv /\ [Next]_vars => OrderInv'
  <1> SUFFICES ASSUME OrderInv, [Next]_vars
               PROVE  OrderInv'
    OBVIOUS
  <1> USE DEF progress, services, host
  <1>1. TypeOK'
    BY StepType DEF OrderInv
  <1>2. CASE UNCHANGED vars
    BY <1>1, <1>2 DEF vars, OrderInv, StartupMapFollowsReports
  <1>3. CASE daemon = "up" /\ Host
    <2>1. CASE Start
      BY <2>1, StartOrdered
    <2>2. CASE ForceTerminate
      BY <1>1, <2>2 DEF ForceTerminate, MapClear, OrderInv
    <2>3. CASE StartTerminating
      BY <1>1, <2>3 DEF StartTerminating, OrderInv, StartupMapFollowsReports
    <2> QED BY <1>3, <2>1, <2>2, <2>3 DEF Host, StartTerminatingWhileStarting, HostForceTerminate
  <1>4. CASE daemon = "up" /\ World
    <2>1. UNCHANGED <<daemon, progress, started, starts>>
      BY <1>4 DEF World, ChildReady, ChildTimeout, SetProcessState, ChildExit, AdoptedExit,
                  Exits, RestartTimerExpires, MinutePasses
    <2> QED BY <1>1, <2>1 DEF OrderInv, StartupMapFollowsReports
  <1>5. CASE daemon = "up" /\ RunHandler
    <2>1. CASE ReportHandler
      <3>1. Head(queue).name \in Services
        BY <2>1, RunningHandler, HandlerNames DEF ReportHandler, OrderInv
      <3> QED BY <1>1, <1>5, <2>1, <3>1, StateChangeCbOrdered DEF ReportHandler
    <2>2. CASE StaleReportHandler
      <3>1. Head(queue).name \in Services
        BY <2>2, RunningHandler, HandlerNames DEF StaleReportHandler, OrderInv
      <3> QED BY <1>1, <1>5, <2>2, <3>1, StateChangeCbOrdered DEF StaleReportHandler
    <2>3. CASE UseAfterFree \/ MapCorruption \/ NullDereference
      BY <1>1, <2>3 DEF UseAfterFree, MapCorruption, NullDereference, OrderInv
    <2>4. CASE RestartTimeoutHandler \/ SignalHandler \/ NotifyTerminationHandler
      <3>1. UNCHANGED <<daemon, progress, started, starts>>
        BY <2>4 DEF RestartTimeoutHandler, SignalHandler, NotifyTerminationHandler
      <3> QED BY <1>1, <3>1 DEF OrderInv, StartupMapFollowsReports
    <2>5. CASE CleanupHandler
      BY <1>1, <2>5 DEF CleanupHandler, MapClear, OrderInv
    <2> QED BY <1>5, <2>1, <2>2, <2>3, <2>4, <2>5 DEF RunHandler
  <1> QED BY <1>2, <1>3, <1>4, <1>5 DEF Next

\* The services that are started are, at every moment of the first startup and
\* after it, exactly those whose dependencies have all been reported RUNNING.
THEOREM StartsInOrder == Spec => []StartOrder
  <1>1. OrderInv => StartOrder
    BY GraphAssumption DEF OrderInv, StartupMapFollowsReports, StartOrder, TypeOK
  <1> QED BY <1>1, InitOrdered, StepOrdered, PTL DEF Spec

\* The startup is reported only when every configured service runs.
THEOREM ReadinessIsTrue == Spec => ReadyMeansAllRunning
  <1> USE DEF progress, services, host
  <1>1. ASSUME OrderInv, [Next]_vars, hasNotifiedStartupReady' # hasNotifiedStartupReady
        PROVE  /\ hasNotifiedStartupReady'
               /\ starts' = 1 => \A s \in Services : s \in started' /\ child'[s] = "RUNNING"
    <2>1. CASE Start
      BY <1>1, <2>1 DEF Start, OrderInv, TypeOK
    <2>2. ASSUME NEW s, NEW st, NEW q, StartupDone(s, st, q), UNCHANGED starts, daemon = "up"
          PROVE  /\ hasNotifiedStartupReady'
                 /\ starts' = 1 => \A t \in Services : t \in started' /\ child'[t] = "RUNNING"
      BY <1>1, <2>2 DEF StartupDone, AllChildProcessesRunning, OrderInv, StartupMapFollowsReports
    <2>3. \/ Start
          \/ daemon = "up" /\ \E s, st, q : StartupDone(s, st, q) /\ UNCHANGED starts
      BY <1>1 DEF Next, vars, Host, StartTerminatingWhileStarting, StartTerminating,
           HostForceTerminate, ForceTerminate, World, ChildReady, ChildTimeout, SetProcessState,
           ChildExit, AdoptedExit, Exits, RestartTimerExpires, MinutePasses, RunHandler,
           ReportHandler, StaleReportHandler, StateChangeCb, StartDependents, RememberReady,
           GiveUp, ArmRestart, ReportIgnored, UseAfterFree, RestartTimeoutHandler, MapCorruption,
           SignalHandler, NullDereference, NotifyTerminationHandler, CleanupHandler
    <2> QED BY <2>1, <2>2, <2>3
  <1> QED BY <1>1, InitOrdered, StepOrdered, PTL DEF Spec, ReadyMeansAllRunning

-----------------------------------------------------------------------------
(* The reaping.  Whatever is posted, marked or consumed, a queued SIGCHLD  *)
(* handler stays in the queue until it runs.                               *)

LEMMA SigchldStays ==
  ASSUME NEW q \in Seq(Handler), Contains(q, Sigchld)
  PROVE  /\ \A h \in Handler : Contains(Append(q, h), Sigchld)
         /\ \A r \in Seq(Handler) : Contains(q \o r, Sigchld)
         /\ q # << >> /\ Head(q).kind # "sigchld" => Contains(Tail(q), Sigchld)
  <1>1. PICK i \in 1..Len(q) : q[i] = Sigchld
    BY DEF Contains
  <1>2. ASSUME NEW h \in Handler
        PROVE  Contains(Append(q, h), Sigchld)
    <2>1. i \in 1..Len(Append(q, h)) /\ Append(q, h)[i] = Sigchld
      BY <1>1
    <2> QED BY <2>1 DEF Contains
  <1>3. ASSUME NEW r \in Seq(Handler)
        PROVE  Contains(q \o r, Sigchld)
    <2>1. i \in 1..Len(q \o r) /\ (q \o r)[i] = Sigchld
      BY <1>1
    <2> QED BY <2>1 DEF Contains
  <1>4. ASSUME q # << >>, Head(q).kind # "sigchld"
        PROVE  Contains(Tail(q), Sigchld)
    <2>1. q[1].kind # "sigchld" /\ Sigchld.kind = "sigchld"
      BY <1>4 DEF Sigchld
    <2>2. i # 1
      BY <1>1, <2>1
    <2>3. i - 1 \in 1..Len(Tail(q)) /\ Tail(q)[i - 1] = Sigchld
      BY <1>1, <1>4, <2>2
    <2> QED BY <2>3 DEF Contains
  <1> QED BY <1>2, <1>3, <1>4

LEMMA SigchldStaysMarked ==
  ASSUME TypeOK, NEW q \in Seq(Handler), Contains(q, Sigchld), NEW S
  PROVE  /\ Contains(MarkDangling(q, S), Sigchld)
         /\ MarkDangling(q, S) \in Seq(Handler)
  <1>1. PICK i \in 1..Len(q) : q[i] = Sigchld
    BY DEF Contains
  <1>2. /\ MarkDangling(q, S) \in Seq(Handler)
        /\ DOMAIN MarkDangling(q, S) = DOMAIN q
        /\ MarkDangling(q, S)[i] = Sigchld
    BY <1>1, MarkDanglingProperties DEF TypeOK, Sigchld
  <1>3. i \in 1..Len(MarkDangling(q, S))
    BY <1>1, <1>2
  <1> QED BY <1>2, <1>3 DEF Contains

LEMMA LaunchKeepsSigchld ==
  ASSUME TypeOK, NEW S \in SUBSET Services, NEW q \in Seq(Handler), Contains(q, Sigchld),
         Launch(S, q)
  PROVE  Contains(queue', Sigchld)
  <1>1. PICK o \in SetToSeqs(S) :
          queue' = q \o [i \in DOMAIN o |-> IF o[i] \in S \ started
                                            THEN StateChange(o[i])
                                            ELSE Dangling(o[i], InitialState(o[i]))]
    BY DEF Launch
  <1> QED BY <1>1, LaunchReportsType, SigchldStays

LEMMA MapClearKeepsSigchld ==
  ASSUME TypeOK, NEW q \in Seq(Handler), MapClear(q), Contains(queue, Sigchld)
  PROVE  Contains(queue', Sigchld)
  <1>1. queue \in Seq(Handler)
    BY DEF TypeOK
  <1> QED BY <1>1, SigchldStaysMarked, SigchldStays DEF MapClear

\* A report consumes itself and nothing else.
LEMMA StateChangeCbKeepsSigchld ==
  ASSUME TypeOK, NEW s \in Services, NEW st, NEW q \in Seq(Handler), Contains(q, Sigchld),
         StateChangeCb(s, st, q)
  PROVE  Contains(queue', Sigchld) /\ zombies' \subseteq zombies
  <1>1. CASE StartDependents(s, st, q)
    <2>1. Freed(startupMap, s) \in SUBSET Services
      BY DEF Freed
    <2> QED BY <1>1, <2>1, LaunchKeepsSigchld DEF StartDependents
  <1>2. CASE GiveUp(s, st, q)
    BY <1>2, SigchldStaysMarked, SigchldStays, HandlerMembers DEF GiveUp, ResetServiceAndProcess
  <1>3. CASE ArmRestart(s, st, q)
    BY <1>3, SigchldStaysMarked DEF ArmRestart, ResetServiceAndProcess
  <1> QED BY <1>1, <1>2, <1>3 DEF StateChangeCb, StartupDone, RememberReady, ReportIgnored

LEMMA HostForgetsNoZombie ==
  ASSUME TypeOK, NoZombieForgotten, daemon = "up", Host
  PROVE  NoZombieForgotten'
  <1>0. queue \in Seq(Handler)
    BY DEF TypeOK
  <1> SUFFICES ASSUME zombies' # {}
               PROVE  Contains(queue', Sigchld)
    BY DEF NoZombieForgotten
  <1>1. CASE Start
    <2>1. {s \in Services : StartAfter[s] = {}} \in SUBSET Services
      OBVIOUS
    <2>2. Contains(queue, Sigchld)
      BY <1>1 DEF Start, NoZombieForgotten
    <2> QED BY <1>0, <1>1, <2>1, <2>2, LaunchKeepsSigchld DEF Start
  <1>2. CASE ForceTerminate
    <2>1. <<NotifyTermination>> \in Seq(Handler)
      BY HandlerMembers
    <2>2. Contains(queue, Sigchld)
      BY <1>2 DEF ForceTerminate, MapClear, NoZombieForgotten
    <2> QED BY <1>2, <2>1, <2>2, MapClearKeepsSigchld DEF ForceTerminate
  <1>3. CASE StartTerminating
    <2> DEFINE present == {s \in started : child[s] # "NULL"}
    <2>1. PICK r \in Reports(present) :
            queue' = queue \o r \o (IF present = {} THEN <<NotifyTermination>> ELSE << >>)
      BY <1>3 DEF StartTerminating
    <2>2. present \in SUBSET Services
      BY DEF TypeOK
    <2>3. r \in Seq(Handler)
      BY <2>1, <2>2, ReportsType
    <2>4. (IF present = {} THEN <<NotifyTermination>> ELSE << >>) \in Seq(Handler)
      BY HandlerMembers
    <2>5. Contains(queue, Sigchld)
      BY <1>3 DEF StartTerminating, NoZombieForgotten
    <2> HIDE DEF present
    <2>6. queue \o r \in Seq(Handler) /\ Contains(queue \o r, Sigchld)
      BY <1>0, <2>3, <2>5, SigchldStays, QueueOps
    <2> QED BY <2>1, <2>4, <2>6, SigchldStays
  <1> QED BY <1>1, <1>2, <1>3 DEF Host, StartTerminatingWhileStarting, HostForceTerminate

LEMMA WorldForgetsNoZombie ==
  ASSUME TypeOK, NoZombieForgotten, daemon = "up", World
  PROVE  NoZombieForgotten'
  <1>0. queue \in Seq(Handler)
    BY DEF TypeOK
  <1>1. ASSUME NEW s \in Services, NEW st, SetProcessState(s, st)
        PROVE  NoZombieForgotten'
    BY <1>0, <1>1, SigchldStays, HandlerMembers DEF SetProcessState, NoZombieForgotten
  <1>2. ASSUME NEW p, Exits(p)
        PROVE  NoZombieForgotten'
    <2>1. CASE Contains(queue, Sigchld)
      BY <1>2, <2>1 DEF Exits, NoZombieForgotten
    <2>2. CASE ~Contains(queue, Sigchld)
      <3>1. queue' = Append(queue, Sigchld) /\ Sigchld \in Handler
        BY <1>2, <2>2, HandlerMembers DEF Exits
      <3>2. Len(queue') \in 1..Len(queue') /\ queue'[Len(queue')] = Sigchld
        BY <1>0, <3>1
      <3> QED BY <3>2 DEF Contains, NoZombieForgotten
    <2> QED BY <2>1, <2>2
  <1>3. ASSUME NEW s \in Services, RestartTimerExpires(s)
        PROVE  NoZombieForgotten'
    BY <1>0, <1>3, SigchldStays, HandlerMembers DEF RestartTimerExpires, NoZombieForgotten
  <1>4. ASSUME NEW s \in Services, MinutePasses(s)
        PROVE  NoZombieForgotten'
    BY <1>4 DEF MinutePasses, NoZombieForgotten
  <1> QED BY <1>1, <1>2, <1>3, <1>4 DEF World, ChildReady, ChildTimeout, ChildExit, AdoptedExit

LEMMA RunHandlerForgetsNoZombie ==
  ASSUME TypeOK, NoZombieForgotten, daemon = "up", RunHandler
  PROVE  NoZombieForgotten'
  <1> SUFFICES ASSUME zombies' # {}, daemon' = "up"
               PROVE  Contains(queue', Sigchld)
    BY DEF NoZombieForgotten
  <1>1. ASSUME NEW k, Running(k), k # "sigchld", zombies # {}
        PROVE  /\ Tail(queue) \in Seq(Handler)
               /\ Contains(Tail(queue), Sigchld)
               /\ Head(queue) \in Handler
    BY <1>1, RunningHandler, SigchldStays DEF NoZombieForgotten, TypeOK
  <1>2. CASE ReportHandler \/ StaleReportHandler
    <2>1. PICK st : StateChangeCb(Head(queue).name, st, Tail(queue))
      BY <1>2 DEF ReportHandler, StaleReportHandler
    <2>2. Head(queue).name \in Services
      BY <1>2, RunningHandler, HandlerNames DEF ReportHandler, StaleReportHandler
    <2>3. zombies # {}
      BY <2>1 DEF StateChangeCb, StartupDone, StartDependents, RememberReady, GiveUp, ArmRestart,
                  ReportIgnored, ResetServiceAndProcess
    <2> QED BY <1>1, <1>2, <2>1, <2>2, <2>3, StateChangeCbKeepsSigchld
            DEF ReportHandler, StaleReportHandler
  <1>3. CASE RestartTimeoutHandler
    <2>1. zombies # {} /\ Running("restart")
      BY <1>3 DEF RestartTimeoutHandler
    <2>2. StateChange(Head(queue).name) \in Handler
      BY <2>1, RunningHandler, HandlerNames, HandlerMembers
    <2>3. queue' = Append(MarkDangling(Tail(queue), {Head(queue).name}),
                          StateChange(Head(queue).name))
      BY <1>3 DEF RestartTimeoutHandler
    <2> QED BY <1>1, <2>1, <2>2, <2>3, SigchldStaysMarked, SigchldStays
  <1>4. CASE SignalHandler
    BY <1>4 DEF SignalHandler
  <1>5. CASE NotifyTerminationHandler
    BY <1>1, <1>5 DEF NotifyTerminationHandler
  <1>6. CASE UseAfterFree \/ MapCorruption \/ NullDereference \/ CleanupHandler
    BY <1>6 DEF UseAfterFree, MapCorruption, NullDereference, CleanupHandler
  <1> QED BY <1>2, <1>3, <1>4, <1>5, <1>6 DEF RunHandler

\* While init is up, a process that has exited, of a service or adopted, has a
\* handler queued that reaps it.
THEOREM ZombiesAreReaped == Spec => []NoZombieForgotten
  <1>1. Init => NoZombieForgotten
    BY DEF Init, NoZombieForgotten
  <1>2. TypeOK /\ NoZombieForgotten /\ [Next]_vars => NoZombieForgotten'
    <2>1. ASSUME NoZombieForgotten, UNCHANGED vars
          PROVE  NoZombieForgotten'
      BY <2>1 DEF vars, NoZombieForgotten
    <2> QED BY <2>1, HostForgetsNoZombie, WorldForgetsNoZombie, RunHandlerForgetsNoZombie DEF Next
  <1> QED BY <1>1, <1>2, InitType, StepType, PTL DEF Spec

-----------------------------------------------------------------------------
(* The branch of stateChangeCb for TERMINATING (lines 484-508) is no action *)
(* of the model, because no report runs in that state: the constructor      *)
(* enters it and nothing returns to it.                                     *)

NothingReports ==
  state = "TERMINATING" =>
    /\ started = {}
    /\ \A i \in DOMAIN queue : queue[i].kind = "sigchld"

\* In a state in which nothing is started, only adopted processes exit, and the
\* handler that reaps them posts nothing.
LEMMA SignalHandlerReportsNothing ==
  ASSUME TypeOK, NothingReports, state = "TERMINATING", SignalHandler
  PROVE  NothingReports'
  <1>1. started = {} /\ started' = {} /\ state' = state
    BY DEF NothingReports, SignalHandler, progress
  <1>2. zombies \cap Services = {}
    BY <1>1 DEF TypeOK
  <1>3. PICK exitOk \in SUBSET (zombies \cap Services) :
          \E r \in Reports({s \in zombies \cap Services :
                              StateAfterExit(s, exitOk) \in {"DEAD", "EXPECTDEAD"}}) :
            queue' = Tail(queue) \o r
    BY DEF SignalHandler
  <1>4. PICK r \in Reports({}) : queue' = Tail(queue) \o r
    BY <1>2, <1>3
  <1>5. r = << >>
    <2>1. PICK o \in SetToSeqs({}) : r = [i \in DOMAIN o |-> StateChange(o[i])]
      BY <1>4 DEF Reports
    <2>2. DOMAIN o = 1..0
      BY <2>1, FS_EmptySet DEF SetToSeqs
    <2> QED BY <2>1, <2>2
  <1>6. queue # << >> /\ queue \in Seq(Handler) /\ Tail(queue) \in Seq(Handler)
    BY RunningHandler DEF SignalHandler, TypeOK
  <1>7. queue' = Tail(queue)
    BY <1>4, <1>5, <1>6
  <1>8. \A i \in DOMAIN Tail(queue) : i + 1 \in DOMAIN queue /\ Tail(queue)[i] = queue[i + 1]
    BY <1>6
  <1> QED BY <1>1, <1>7, <1>8 DEF NothingReports

\* No report is ever handled in the state TERMINATING.
THEOREM TerminatingIsInitialOnly ==
  Spec => [](state = "TERMINATING" => started = {} /\ \A i \in DOMAIN queue : queue[i].kind = "sigchld")
  <1> USE DEF progress, services, host
  <1>1. Init => NothingReports
    BY DEF Init, NothingReports
  <1>2. TypeOK /\ NothingReports /\ [Next]_vars => NothingReports'
    <2> SUFFICES ASSUME TypeOK, NothingReports, [Next]_vars, state' = "TERMINATING"
                 PROVE  NothingReports'
      BY DEF NothingReports
    <2>1. CASE UNCHANGED vars
      BY <2>1 DEF vars, NothingReports
    <2>2. CASE Host
      BY <2>2 DEF Host, Start, StartTerminatingWhileStarting, HostForceTerminate, ForceTerminate,
                  StartTerminating
    <2>3. CASE World
      <3>1. state = "TERMINATING" /\ started = {} /\ queue \in Seq(Handler)
        BY <2>3 DEF World, ChildReady, ChildTimeout, SetProcessState, ChildExit, AdoptedExit, Exits,
                    RestartTimerExpires, MinutePasses, NothingReports, TypeOK
      <3>2. \A s \in Services : child[s] = "NULL" /\ ~hasPid[s] /\ ~restartTimer[s]
        BY <3>1 DEF TypeOK
      <3>3. ASSUME NEW p, Exits(p)
            PROVE  NothingReports'
        <4>1. CASE queue' = queue
          BY <3>1, <3>3, <4>1 DEF Exits, NothingReports
        <4>2. CASE queue' = Append(queue, Sigchld)
          <5>1. \A i \in DOMAIN queue' : queue'[i] = Sigchld \/ (i \in DOMAIN queue /\ queue'[i] = queue[i])
            BY <3>1, <4>2
          <5> QED BY <3>1, <3>3, <5>1 DEF Exits, NothingReports, Sigchld
        <4> QED BY <3>3, <4>1, <4>2 DEF Exits
      <3>4. ASSUME NEW s \in Services, MinutePasses(s)
            PROVE  NothingReports'
        BY <3>4 DEF MinutePasses, NothingReports
      <3> QED BY <2>3, <3>2, <3>3, <3>4 DEF World, ChildReady, ChildTimeout, ChildExit, AdoptedExit,
                 RestartTimerExpires
    <2>4. CASE RunHandler
      <3>1. state = "TERMINATING"
        BY <2>4 DEF RunHandler, ReportHandler, StaleReportHandler, StateChangeCb, StartupDone,
             StartDependents, RememberReady, GiveUp, ArmRestart, ReportIgnored, UseAfterFree,
             RestartTimeoutHandler, MapCorruption, SignalHandler, NullDereference,
             NotifyTerminationHandler, CleanupHandler, MapClear
      <3>2. queue # << >> => Head(queue).kind = "sigchld"
        BY <3>1 DEF NothingReports, TypeOK
      <3>3. CASE NullDereference
        BY <3>3 DEF NullDereference, NothingReports
      <3> QED BY <2>4, <3>1, <3>2, <3>3, SignalHandlerReportsNothing
              DEF RunHandler, ReportHandler, StaleReportHandler, UseAfterFree,
                  RestartTimeoutHandler, MapCorruption, NotifyTerminationHandler, CleanupHandler,
                  Running
    <2> QED BY <2>1, <2>2, <2>3, <2>4 DEF Next
  <1> QED BY <1>1, <1>2, InitType, StepType, PTL DEF Spec, NothingReports

=============================================================================
