--------------------------- MODULE DependencyCheck ---------------------------
(***************************************************************************)
(* createServiceDependencyGraph (processServiceDependency.cpp): the        *)
(* configured dependencies are validated and the startup map is made.      *)
(*                                                                         *)
(* The configuration is picked by Init: every service lists names it       *)
(* starts after, possibly itself, a name twice or an unknown one.  The     *)
(* recursion of detectCycleDFS is an explicit stack of calls; the lists it *)
(* walks are filled in the order of an unordered_map, so each is a set     *)
(* taken in any order.                                                     *)
(***************************************************************************)
EXTENDS Naturals, FiniteSets, SequencesExt

CONSTANTS Services,   \* the configured service names
          Names,      \* the names a configuration may mention
          Lists       \* the startAfter lists a service may have

ASSUME ServicesAssumption == IsFiniteSet(Services) /\ Services \subseteq Names
ASSUME ListsAssumption == Lists \subseteq Seq(Names)

VARIABLES
  startAfter,   \* startAfter[s]: the list of the configuration
  phase,        \* what checkProcessServiceIsValid is doing
  pending,      \* the services its first loop has still to examine
  dependents,   \* dependServiceMap: who starts after n; {} when n is no key
  roots,        \* the keys the loop of the cycle check has still to take
  visited,      \* the names the cycle check has called itself for
  stack,        \* its calls that have not returned, innermost last
  outcome,      \* "none", "accepted", or why the configuration was refused
  startupMap    \* the map that is returned

vars == <<startAfter, phase, pending, dependents, roots, visited, stack, outcome, startupMap>>

-----------------------------------------------------------------------------
Keys == {n \in Names : dependents[n] # {}}

\* A call of detectCycleDFS for svc whose loop has still to take `rest`.
Call == [svc : Services, rest : SUBSET Services]

Trace(calls) == {calls[i].svc : i \in DOMAIN calls}

Throw(reason) ==
  /\ outcome' = reason
  /\ phase' = "done"

Init ==
  /\ startAfter \in [Services -> Lists]
  /\ phase = "examine"
  /\ pending = Services
  /\ dependents = [n \in Names |-> {}]
  /\ roots = {}
  /\ visited = {}
  /\ stack = << >>
  /\ outcome = "none"
  /\ startupMap = [s \in Services |-> {}]

-----------------------------------------------------------------------------
(* checkProcessServiceIsValid: one service of its loop.                    *)

\* A list may name svc itself, or a name twice.  (One that does both is refused
\* for what comes first in it; only the message tells.)
ListsItself(svc) == svc \in ToSet(startAfter[svc])
ListsTwice(svc)  == ~IsInjective(startAfter[svc])

RefuseSelf(svc) ==
  /\ ListsItself(svc)
  /\ Throw("self")
  /\ UNCHANGED <<startAfter, pending, dependents, roots, visited, stack, startupMap>>

RefuseDuplicate(svc) ==
  /\ ListsTwice(svc)
  /\ Throw("duplicate")
  /\ UNCHANGED <<startAfter, pending, dependents, roots, visited, stack, startupMap>>

\* BUG: what a service lists twice is not looked at.
ExamineAny(svc) ==
  /\ ~ListsItself(svc)
  /\ pending' = pending \ {svc}
  /\ dependents' = [n \in Names |-> IF n \in ToSet(startAfter[svc])
                                    THEN dependents[n] \cup {svc} ELSE dependents[n]]
  /\ UNCHANGED <<startAfter, phase, roots, visited, stack, outcome, startupMap>>

\* svc is noted as a dependent of every name it lists.
Examine(svc) ==
  /\ ~ListsItself(svc) /\ ~ListsTwice(svc)
  /\ pending' = pending \ {svc}
  /\ dependents' = [n \in Names |-> IF n \in ToSet(startAfter[svc])
                                    THEN dependents[n] \cup {svc} ELSE dependents[n]]
  /\ UNCHANGED <<startAfter, phase, roots, visited, stack, outcome, startupMap>>

ExamineService ==
  /\ phase = "examine"
  /\ \E svc \in pending : RefuseSelf(svc) \/ RefuseDuplicate(svc) \/ Examine(svc)

\* BUG: a service nobody configured is not noticed.
CheckNothing ==
  /\ phase = "examine" /\ pending = {}
  /\ phase' = "search" /\ roots' = Keys
  /\ UNCHANGED <<startAfter, pending, dependents, visited, stack, outcome, startupMap>>

\* checkAllProcessServiceExist: every name depended on is configured.
CheckAllExist ==
  /\ phase = "examine" /\ pending = {}
  /\ IF Keys \subseteq Services
     THEN phase' = "search" /\ roots' = Keys /\ UNCHANGED outcome
     ELSE Throw("unknown") /\ UNCHANGED roots
  /\ UNCHANGED <<startAfter, pending, dependents, visited, stack, startupMap>>

-----------------------------------------------------------------------------
(* checkCircularDependencyProcesService and detectCycleDFS.                *)

\* BUG: a service that is on the trace is entered again.
EnterAlways(svc, calls) ==
  /\ visited' = visited \cup {svc}
  /\ \/ /\ dependents[svc] = {}
        /\ Throw("out_of_range") /\ stack' = calls
     \/ /\ dependents[svc] # {}
        /\ stack' = Append(calls, [svc |-> svc, rest |-> dependents[svc]])
        /\ UNCHANGED <<phase, outcome>>

\* detectCycleDFS(svc), called by the last of `calls`.  A service on the trace
\* closes a cycle: the message is made and dropped.  One that is no key makes
\* dependencyMap.at() throw.
Enter(svc, calls) ==
  /\ visited' = visited \cup {svc}
  /\ \/ /\ svc \in Trace(calls)
        /\ stack' = calls /\ UNCHANGED <<phase, outcome>>
     \/ /\ svc \notin Trace(calls) /\ dependents[svc] = {}
        /\ Throw("out_of_range") /\ stack' = calls
     \/ /\ svc \notin Trace(calls) /\ dependents[svc] # {}
        /\ stack' = Append(calls, [svc |-> svc, rest |-> dependents[svc]])
        /\ UNCHANGED <<phase, outcome>>

\* BUG: the loop of a call is left when the first of its calls returns.
TakenOnly(calls, svc) == Append(Front(calls), [Last(calls) EXCEPT !.rest = {}])

\* The calls after the loop of the innermost one has taken svc.
Taken(calls, svc) == Append(Front(calls), [Last(calls) EXCEPT !.rest = @ \ {svc}])

\* BUG: the loop of a call never gets past a service it has called for.
DescendAgain ==
  /\ phase = "search" /\ stack # << >>
  /\ \E svc \in Last(stack).rest : Enter(svc, stack)
  /\ UNCHANGED <<startAfter, pending, dependents, roots, startupMap>>

\* The innermost call takes the next dependent of its service.
Descend ==
  /\ phase = "search" /\ stack # << >>
  /\ \E svc \in Last(stack).rest :
       Enter(svc, Taken(stack, svc))
  /\ UNCHANGED <<startAfter, pending, dependents, roots, startupMap>>

\* It returns when it has taken all of them.
Return ==
  /\ phase = "search" /\ stack # << >>
  /\ Last(stack).rest = {}
  /\ stack' = Front(stack)
  /\ UNCHANGED <<startAfter, phase, pending, dependents, roots, visited, outcome, startupMap>>

\* The loop over the keys calls it for each that has not been visited.
TakeRoot ==
  /\ phase = "search" /\ stack = << >>
  /\ \E r \in roots :
       /\ roots' = roots \ {r}
       /\ \/ r \in visited /\ UNCHANGED <<phase, visited, stack, outcome>>
          \/ r \notin visited /\ Enter(r, << >>)
  /\ UNCHANGED <<startAfter, pending, dependents, startupMap>>

\* The configuration is accepted: createStartupDenpendency.  (No entry is made
\* in terminalMap: createTerminalDependency is not called.)
Accept ==
  /\ phase = "search" /\ stack = << >> /\ roots = {}
  /\ outcome' = "accepted" /\ phase' = "done"
  /\ startupMap' = [s \in Services |-> ToSet(startAfter[s])]
  /\ UNCHANGED <<startAfter, pending, dependents, roots, visited, stack>>

Next == ExamineService \/ CheckAllExist \/ Descend \/ Return \/ TakeRoot \/ Accept

Spec == Init /\ [][Next]_vars

\* The check is a function that runs until it returns or throws.
FairSpec == Spec /\ WF_vars(Next)

-----------------------------------------------------------------------------
\* Types; the search only ever walks services that are configured.
TypeOK ==
  /\ startAfter \in [Services -> Lists]
  /\ phase \in {"examine", "search", "done"}
  /\ pending \subseteq Services
  /\ dependents \in [Names -> SUBSET Services]
  /\ roots \subseteq Services
  /\ visited \subseteq Services
  /\ stack \in Seq(Call)
  /\ outcome \in {"none", "accepted", "self", "duplicate", "unknown", "out_of_range"}
  /\ startupMap \in [Services -> SUBSET Services]

\* What the manager is started with is what it relies on: a map of configured
\* services to configured services other than themselves, from lists without
\* repetition (GraphAssumption of ProcessServiceManager; a name listed twice
\* would be pruned twice).
AcceptedIsWellFormed ==
  outcome = "accepted" =>
    \A s \in Services : /\ startupMap[s] \subseteq Services \ {s}
                        /\ Cardinality(startupMap[s]) = Len(startAfter[s])

\* The recursion is bounded whatever the graph: no service is entered twice on
\* one path (findService in the trace, line 66).
NoServiceTwiceOnTrace ==
  \A i, j \in DOMAIN stack : stack[i].svc = stack[j].svc => i = j

\* What the verdict comes to: a list names other configured services, each once,
\* and a service that starts after another is started after by a third one.
Acceptable ==
  \A s \in Services :
    /\ ToSet(startAfter[s]) \subseteq Services \ {s}
    /\ IsInjective(startAfter[s])
    /\ startAfter[s] # << >> => \E t \in Services : s \in ToSet(startAfter[t])

\* The verdict is one on the graph: the orders in which the maps are walked, and
\* what the search has visited before and skips, make no difference to it
\* (checkCircularDependencyProcesService(), detectCycleDFS()).
VerdictIsOfTheGraph == outcome # "none" => (outcome = "accepted" <=> Acceptable)

\* The check comes to a verdict on every configuration, cyclic ones included.
ReachesVerdict == <>(phase = "done")

\* A graph has a cycle when some services all have a dependent among them.
Acyclic ==
  \A S \in (SUBSET Services) \ {{}} :
    \E s \in S : \A t \in S : s \notin ToSet(startAfter[t])

\* README:22 ("DAG topological sort") and printCycle (line 32, "Circular
\* dependency"): of the graphs that pass the other checks, exactly those without
\* a cycle are accepted.
DagIsAccepted ==
  outcome \in {"accepted", "out_of_range"} => (outcome = "accepted" <=> Acyclic)
=============================================================================
