-------------------------- MODULE ReverseTermination --------------------------
(***************************************************************************)
(* The manager with a terminalMap: a service that others were started after *)
(* is to be terminated after them (startTerminating() and                   *)
(* terminateDependencyServices(), ProcessServiceManager.cpp:192-274).       *)
(*                                                                         *)
(* start() takes the map from its caller.  createTerminalDependency() would *)
(* make it, though createServiceDependencyGraph() does not call it: StopAfter *)
(* is what it makes.  Everything else the manager does is as in module      *)
(* ProcessServiceManager.                                                   *)
(***************************************************************************)
EXTENDS ProcessServiceManager

VARIABLES
  terminalMap,   \* terminalMap[s]: the services s still waits for; {} when s is no key
  overtaken      \* history: the services a termination took for gone with a handler of theirs queued

reverseVars == <<vars, terminalMap, overtaken>>

\* createTerminalDependency(): s stops after those that start after it.
StopAfter == [s \in Services |-> {t \in Services : s \in StartAfter[t]}]

\* A posted call of terminateDependencyServices().
TerminateDependencies(s) == [kind |-> "terminateDependencies", name |-> s]

-----------------------------------------------------------------------------
(* What startTerminating() and terminateDependencyServices() change, as they *)
(* go along: m.child, m.timer, m.waits (terminalMap), m.posted (the handlers *)
(* they post), m.absent (restartingProcessNum), m.corrupt (an abort), and    *)
(* m.gone, the services they take for gone.                                  *)

Now == [child |-> child, timer |-> restartTimer, waits |-> terminalMap,
        posted |-> << >>, absent |-> 0, corrupt |-> FALSE, gone |-> {}]

\* childProcess->startTerminating()
Tell(m, s) == [m EXCEPT !.child[s] = "TERMINATING", !.posted = Append(@, StateChange(s))]

\* A service without a process is taken for gone: who waited for it is next.
PostGone(m, s) == [m EXCEPT !.posted = Append(@, TerminateDependencies(s)), !.gone = @ \cup {s}]

\* The body of the loop of terminateDependencyServices() for service s.
TerminateService(m, s) ==
  IF s \notin started THEN [m EXCEPT !.corrupt = TRUE]
  ELSE CASE m.child[s] = "NULL" -> PostGone([m EXCEPT !.timer[s] = FALSE], s)
         [] m.child[s] = "DEAD" -> PostGone(m, s)
         [] OTHER               -> Tell(m, s)

\* BUG: those that wait for other services too are not spared.
TerminateAllDependencyServices(m, name, order) ==
  LET waiting == {s \in Services : name \in m.waits[s]}
      after[i \in 0..Len(order)] ==
        IF i = 0 THEN [m EXCEPT !.waits = Prune(m.waits, name)]
        ELSE IF order[i] \in waiting THEN TerminateService(after[i - 1], order[i])
        ELSE after[i - 1]
  IN  after[Len(order)]

\* terminateDependencyServices(name), with an order in which the map is walked.
TerminateDependencyServices(m, name, order) ==
  LET free == Freed(m.waits, name)
      after[i \in 0..Len(order)] ==
        IF i = 0 THEN [m EXCEPT !.waits = Prune(m.waits, name)]
        ELSE IF order[i] \in free THEN TerminateService(after[i - 1], order[i])
        ELSE after[i - 1]
  IN  after[Len(order)]

\* The body of the loop of startTerminating() for the entry of service s.
StopEntry(m, s, order) ==
  LET n == [m EXCEPT !.timer[s] = FALSE]
  IN  IF n.waits[s] # {} THEN n
      ELSE IF n.child[s] # "NULL" THEN Tell(n, s)
      ELSE TerminateDependencyServices([n EXCEPT !.absent = @ + 1, !.gone = @ \cup {s}], s, order)

\* The whole loop, with an order in which the map of services is walked.
StopEntries(entries, order) ==
  LET after[i \in 0..Len(entries)] ==
        IF i = 0 THEN Now ELSE StopEntry(after[i - 1], entries[i], order)
  IN  after[Len(entries)]

\* The services of which a handler is queued: a restart that is due, or a report.
Pending == {queue[i].name : i \in {i \in DOMAIN queue :
                                     queue[i].kind \in {"restart", "stateChange", "dangling"}}}

\* The result m is made the manager's state, q being the handlers queued before.
Commit(m, q) ==
  /\ child' = m.child
  /\ restartTimer' = m.timer
  /\ terminalMap' = m.waits
  /\ queue' = q \o m.posted
  /\ overtaken' = overtaken \cup (m.gone \cap Pending)
  /\ daemon' = IF m.corrupt THEN "aborted" ELSE daemon
  /\ UNCHANGED <<started, hasPid, runningTimestamp, zombies, hasNotifiedStartupReady,
                 startupMap, everReady, terminationNotified, starts>>

\* startTerminating() with a terminalMap: who waits for nobody is told to stop.
\* The map of services and the terminalMap are walked in any order.
StartTerminatingInReverse ==
  /\ state \in {"RUNNING", "TERMINARED"}
  /\ stops < MaxStops
  /\ \E s \in Services : terminalMap[s] # {}
  /\ stops' = stops + 1
  /\ \E entries \in SetToSeqs(started), order \in SetToSeqs(Services) :
       LET m == StopEntries(entries, order)
           none == m.absent = Cardinality(started)
       IN  /\ state' = IF none THEN "TERMINARED" ELSE state
           /\ Commit([m EXCEPT !.posted = @ \o (IF none THEN <<NotifyTermination>> ELSE << >>)],
                     queue)

\* The posted terminateDependencyServices().
TerminateDependenciesHandler ==
  /\ Running("terminateDependencies")
  /\ \E order \in SetToSeqs(Services) :
       Commit(TerminateDependencyServices(Now, Head(queue).name, order), Tail(queue))
  /\ UNCHANGED <<state, stops>>

-----------------------------------------------------------------------------
ReverseInit ==
  /\ Init
  /\ terminalMap = [s \in Services |-> {}]
  /\ overtaken = {}

\* dependencyGraph is assigned by start(); an empty terminalMap leaves
\* startTerminating() as it is.
StartWithTerminalMap == Start /\ terminalMap' = StopAfter /\ UNCHANGED overtaken

StartTerminatingAtOnce ==
  /\ \A s \in Services : terminalMap[s] = {}
  /\ StartTerminating

Otherwise == StartTerminatingWhileStarting \/ HostForceTerminate \/ World \/ RunHandler

ReverseNext ==
  /\ daemon = "up"
  /\ \/ StartWithTerminalMap
     \/ StartTerminatingInReverse
     \/ TerminateDependenciesHandler
     \/ StartTerminatingAtOnce /\ UNCHANGED <<terminalMap, overtaken>>
     \/ Otherwise /\ UNCHANGED <<terminalMap, overtaken>>

ReverseSpec == ReverseInit /\ [][ReverseNext]_reverseVars

-----------------------------------------------------------------------------
\* README:26 ("reverse order"): when a termination begins, and while it goes on,
\* a service is told to stop only when none of those started after it has a
\* process any more.  Excepted are those that were taken for gone although a
\* restart of theirs was due, or their death had not been heard: they are
\* restarted all the same (lines 201, 212 and 252), and the child is not waited for.
StopsInReverse ==
  [][\A s \in Services :
       child[s] # "TERMINATING" /\ child'[s] = "TERMINATING" /\ starts' = 1 =>
         \A t \in StopAfter[s] \ overtaken' : ~hasPid[t]]_reverseVars
=============================================================================
