---------------------------------- MODULE Main ----------------------------------
(***************************************************************************)
(* main.cpp: the configuration is parsed, its dependencies are validated,   *)
(* init becomes a subreaper, and the manager is constructed with what was   *)
(* parsed.  (main() returns after that: it neither calls start() nor runs   *)
(* the io_context.)                                                        *)
(*                                                                         *)
(* The validation is one step here; module DependencyCheck has its details. *)
(***************************************************************************)
EXTENDS ParseConfigure

VARIABLE manager   \* what the manager was constructed with, as a sequence of at most one

mainVars == <<vars, manager>>

-----------------------------------------------------------------------------
Returned == {"EXIT_SUCCESS", "EXIT_FAILURE"}

StartAfter(n) == ToSet(services[n].startAfter)
Dependents(n) == {m \in DOMAIN services : n \in StartAfter(m)}

\* createServiceDependencyGraph() throws nothing: no list names its own service,
\* a name twice, or one that is not configured, and (detectCycleDFS calls at()
\* for every dependent of every service) each service that depends on one has
\* dependents of its own (VerdictIsOfTheGraph of module DependencyCheck).
IsAccepted ==
  \A n \in DOMAIN services :
    /\ n \notin StartAfter(n)
    /\ IsInjective(services[n].startAfter)
    /\ StartAfter(n) \subseteq DOMAIN services
    /\ services[n].startAfter # << >> => Dependents(n) # {}

CreateServiceDependencyGraph ==
  /\ pc = "parsed" /\ outcome = "running"
  /\ IF IsAccepted THEN pc' = "prctl" /\ UNCHANGED outcome ELSE Throw
  /\ UNCHANGED <<directory, partial, files, entries, conf, manager>>

\* prctl(PR_SET_CHILD_SUBREAPER) may fail.
BecomeSubreaper ==
  /\ pc = "prctl" /\ outcome = "running"
  /\ \/ pc' = "manager" /\ UNCHANGED outcome
     \/ outcome' = "EXIT_FAILURE" /\ UNCHANGED pc
  /\ UNCHANGED <<directory, partial, files, entries, conf, manager>>

ConstructManager ==
  /\ pc = "manager" /\ outcome = "running"
  /\ manager' = <<services>>
  /\ pc' = "return"
  /\ UNCHANGED <<directory, partial, files, entries, conf, outcome>>

Return ==
  /\ pc = "return" /\ outcome = "running"
  /\ outcome' = "EXIT_SUCCESS"
  /\ UNCHANGED <<directory, partial, files, entries, conf, pc, manager>>

MainInit == Init /\ manager = << >>

Next ==
  \/ ParseConfigureFromDirectory /\ UNCHANGED manager
  \/ CreateServiceDependencyGraph \/ BecomeSubreaper \/ ConstructManager \/ Return

Spec == MainInit /\ [][Next]_mainVars

-----------------------------------------------------------------------------
(* What must hold.                                                         *)

ServiceType ==
  [argv : Seq(STRING), type : {"BASIC", "NOTIFY"}, action : {"RESTART", "REBOOT_CONTAINER"},
   standardErr : {"INIT_PROCESS", "STAND"}, standardOut : {"INIT_PROCESS", "STAND"},
   startTimeout : Seq(Int), stopTimeout : Int,
   heartbeat : Seq([interval : Int, failureThreshold : Int]),
   watchdogTimeout : Seq(Int), env : Seq(STRING), startAfter : Seq(Names)]

\* Types; a program that has ended by an exception has no manager.
TypeOK ==
  /\ partial \in BOOLEAN
  /\ files \in Seq(JsonFiles)
  /\ entries = << >> \/ pc = "entries"
  /\ DOMAIN services \subseteq Names
  /\ \A n \in DOMAIN services : services[n] \in ServiceType
  /\ logger.loggerForward \in BOOLEAN /\ logger.loggerLevel \in Seq(Int)
  /\ pc \in {"list", "files", "entries", "parsed", "prctl", "manager", "return"}
  /\ outcome \in {"running", "terminated"} \cup Returned
  /\ outcome = "terminated" => manager = << >>

\* Where name n is defined: the entries that describe it.
Places(n) ==
  {p \in UNION {{f} \X DOMAIN directory[f].entries : f \in JsonFiles} :
     /\ directory[p[1]].entries[p[2]].key = "processService"
     /\ "name" \in DOMAIN directory[p[1]].entries[p[2]].tree
     /\ directory[p[1]].entries[p[2]].tree.name = n}

Before(p, q) == p[1] < q[1] \/ (p[1] = q[1] /\ p[2] < q[2])

\* The manager is given every service the files define, none of them left out for
\* an error in another, and of several that share a name the first, in the order
\* of the paths and whatever order the directory is in (getJsonFilesFromDirectory(),
\* line 272; insert(), line 210).  A listing that fails half way is excepted.
ManagerGetsTheConfiguration ==
  manager # << >> /\ ~partial =>
    /\ DOMAIN manager[1] = {n \in Names : Places(n) # {}}
    /\ \A n \in DOMAIN manager[1] : \E p \in Places(n) :
         /\ \A q \in Places(n) : p = q \/ Before(p, q)
         /\ manager[1][n] = Service(directory[p[1]].entries[p[2]].tree)

\* What the manager and its children take for granted: dependencies among the
\* configured services, without repetition (GraphAssumption of module
\* ProcessServiceManager); at least one heartbeat before a child is killed
\* (BoundsAssumption of module ProcessChildImp), after a time that is positive
\* unless its product overflows (getHeartbeat(), line 143; strToLongInt(), line 15).
Overflows(d) == \E t \in DurationTexts : IsDuration(t) /\ ~Fits(t) /\ ParseDuration(t) = d

ManagerCanRelyOnIt ==
  manager # << >> =>
    \A n \in DOMAIN manager[1] :
      LET svc == manager[1][n]
      IN  /\ ToSet(svc.startAfter) \subseteq DOMAIN manager[1] \ {n}
          /\ IsInjective(svc.startAfter)
          /\ \A i \in DOMAIN svc.heartbeat :
               /\ svc.heartbeat[i].failureThreshold >= 1
               /\ svc.heartbeat[i].interval > 0 \/ Overflows(svc.heartbeat[i].interval)
=============================================================================
