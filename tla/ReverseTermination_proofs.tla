----------------------- MODULE ReverseTermination_proofs -----------------------
(***************************************************************************)
(* Proofs about ReverseTermination, for every set of services, every graph   *)
(* and every order in which the maps are walked: services stop in reverse    *)
(* order, and the discipline of the restarts survives the walks.            *)
(***************************************************************************)
EXTENDS ReverseTermination, RestartAndStartup_proofs, WellFoundedInduction

-----------------------------------------------------------------------------
(* The loops.                                                              *)

\* Induction on the number of iterations.
LEMMA Iterations ==
  ASSUME NEW n \in Nat, NEW T \in SUBSET (0..n),
         0 \in T, \A i \in 1..n : i - 1 \in T => i \in T
  PROVE  T = 0..n
  <1> DEFINE U == (0..n) \ T
  <1>1. SUFFICES ASSUME U # {}
                 PROVE  FALSE
    OBVIOUS
  <1>2. U \subseteq Nat
    OBVIOUS
  <1> HIDE DEF U
  <1>3. PICK k \in U : \A j \in U : ~(<<j, k>> \in OpToRel(<, Nat))
    BY <1>1, <1>2, WFMin, NatLessThanWellFounded
  <1>4. \A j \in U : ~(j < k)
    BY <1>2, <1>3 DEF OpToRel
  <1>5. k \in 1..n /\ k \notin T
    BY DEF U
  <1>6. k - 1 \in T
    BY <1>4, <1>5 DEF U
  <1> QED BY <1>5, <1>6

\* The states the loop of terminateDependencyServices() goes through.
IsInnerLoop(f, n, b, free, order) ==
  f = [i \in 0..n |-> IF i = 0 THEN b
                      ELSE IF order[i] \in free THEN TerminateService(f[i - 1], order[i])
                      ELSE f[i - 1]]

LEMMA InnerLoopExists ==
  ASSUME NEW n \in Nat, NEW b, NEW free, NEW order
  PROVE  \E f : IsInnerLoop(f, n, b, free, order)
  <1> DEFINE T == {k \in 0..n : \E f : IsInnerLoop(f, k, b, free, order)}
  <1>1. 0 \in T
    <2>1. IsInnerLoop([i \in 0..0 |-> b], 0, b, free, order)
      BY DEF IsInnerLoop
    <2> QED BY <2>1
  <1>2. ASSUME NEW k \in 1..n, k - 1 \in T
        PROVE  k \in T
    <2>1. PICK f : IsInnerLoop(f, k - 1, b, free, order)
      BY <1>2
    <2> DEFINE last == IF order[k] \in free THEN TerminateService(f[k - 1], order[k]) ELSE f[k - 1]
               g == [i \in 0..k |-> IF i = k THEN last ELSE f[i]]
    <2>2. \A i \in 0..(k - 1) : g[i] = f[i]
      OBVIOUS
    <2>3. ASSUME NEW i \in 0..k
          PROVE  g[i] = IF i = 0 THEN b
                        ELSE IF order[i] \in free THEN TerminateService(g[i - 1], order[i])
                        ELSE g[i - 1]
      <3>1. CASE i = k
        <4>1. g[i] = last /\ g[i - 1] = f[k - 1] /\ i # 0
          BY <3>1
        <4> QED BY <3>1, <4>1
      <3>2. CASE i # k
        <4>1. i \in 0..(k - 1) /\ g[i] = f[i] /\ (i # 0 => g[i - 1] = f[i - 1])
          BY <3>2
        <4>2. f[i] = IF i = 0 THEN b
                     ELSE IF order[i] \in free THEN TerminateService(f[i - 1], order[i])
                     ELSE f[i - 1]
          BY <2>1, <4>1 DEF IsInnerLoop
        <4> HIDE DEF g
        <4> QED BY <4>1, <4>2
      <3> QED BY <3>1, <3>2
    <2>4. g = [i \in 0..k |-> g[i]]
      OBVIOUS
    <2> HIDE DEF g
    <2>5. IsInnerLoop(g, k, b, free, order)
      BY <2>3, <2>4 DEF IsInnerLoop
    <2> QED BY <2>5
  <1>3. T \in SUBSET (0..n)
    OBVIOUS
  <1> HIDE DEF T
  <1>4. T = 0..n
    BY <1>1, <1>2, <1>3, Iterations
  <1> QED BY <1>4 DEF T

\* What terminateDependencyServices() computes.
LEMMA InnerLoop ==
  ASSUME NEW m, NEW name, NEW order, Len(order) \in Nat
  PROVE  \E f : /\ IsInnerLoop(f, Len(order), [m EXCEPT !.waits = Prune(m.waits, name)],
                               Freed(m.waits, name), order)
                /\ TerminateDependencyServices(m, name, order) = f[Len(order)]
  <1> DEFINE b == [m EXCEPT !.waits = Prune(m.waits, name)]
             free == Freed(m.waits, name)
             g == CHOOSE f : f = [i \in 0..Len(order) |->
                    IF i = 0 THEN b
                    ELSE IF order[i] \in free THEN TerminateService(f[i - 1], order[i])
                    ELSE f[i - 1]]
  <1>1. TerminateDependencyServices(m, name, order) = g[Len(order)]
    BY Zenon DEF TerminateDependencyServices
  <1> HIDE DEF b, free
  <1>2. PICK f : IsInnerLoop(f, Len(order), b, free, order)
    BY InnerLoopExists
  <1>3. IsInnerLoop(g, Len(order), b, free, order)
    BY <1>2, Zenon DEF IsInnerLoop
  <1> HIDE DEF g
  <1> QED BY <1>1, <1>3 DEF b, free

\* The same of the loop of startTerminating().
IsOuterLoop(f, n, entries, order) ==
  f = [i \in 0..n |-> IF i = 0 THEN Now ELSE StopEntry(f[i - 1], entries[i], order)]

LEMMA OuterLoopExists ==
  ASSUME NEW n \in Nat, NEW entries, NEW order
  PROVE  \E f : IsOuterLoop(f, n, entries, order)
  <1> DEFINE T == {k \in 0..n : \E f : IsOuterLoop(f, k, entries, order)}
  <1>1. 0 \in T
    <2>1. IsOuterLoop([i \in 0..0 |-> Now], 0, entries, order)
      BY DEF IsOuterLoop
    <2> QED BY <2>1
  <1>2. ASSUME NEW k \in 1..n, k - 1 \in T
        PROVE  k \in T
    <2>1. PICK f : IsOuterLoop(f, k - 1, entries, order)
      BY <1>2
    <2> DEFINE last == StopEntry(f[k - 1], entries[k], order)
               g == [i \in 0..k |-> IF i = k THEN last ELSE f[i]]
    <2>2. ASSUME NEW i \in 0..k
          PROVE  g[i] = IF i = 0 THEN Now ELSE StopEntry(g[i - 1], entries[i], order)
      <3>1. CASE i = k
        <4>1. g[i] = last /\ g[i - 1] = f[k - 1] /\ i # 0
          BY <3>1
        <4> QED BY <3>1, <4>1
      <3>2. CASE i # k
        <4>1. i \in 0..(k - 1) /\ g[i] = f[i] /\ (i # 0 => g[i - 1] = f[i - 1])
          BY <3>2
        <4>2. f[i] = IF i = 0 THEN Now ELSE StopEntry(f[i - 1], entries[i], order)
          BY <2>1, <4>1 DEF IsOuterLoop
        <4> HIDE DEF g
        <4> QED BY <4>1, <4>2
      <3> QED BY <3>1, <3>2
    <2>3. g = [i \in 0..k |-> g[i]]
      OBVIOUS
    <2> HIDE DEF g
    <2>4. IsOuterLoop(g, k, entries, order)
      BY <2>2, <2>3 DEF IsOuterLoop
    <2> QED BY <2>4
  <1>3. T \in SUBSET (0..n)
    OBVIOUS
  <1> HIDE DEF T
  <1>4. T = 0..n
    BY <1>1, <1>2, <1>3, Iterations
  <1> QED BY <1>4 DEF T

LEMMA OuterLoop ==
  ASSUME NEW entries, NEW order, Len(entries) \in Nat
  PROVE  \E f : /\ IsOuterLoop(f, Len(entries), entries, order)
                /\ StopEntries(entries, order) = f[Len(entries)]
  <1> DEFINE g == CHOOSE f : f = [i \in 0..Len(entries) |->
                    IF i = 0 THEN Now ELSE StopEntry(f[i - 1], entries[i], order)]
  <1>1. StopEntries(entries, order) = g[Len(entries)]
    BY Zenon DEF StopEntries
  <1>2. PICK f : IsOuterLoop(f, Len(entries), entries, order)
    BY OuterLoopExists
  <1>3. IsOuterLoop(g, Len(entries), entries, order)
    BY <1>2, Zenon DEF IsOuterLoop
  <1> HIDE DEF g
  <1> QED BY <1>1, <1>3

-----------------------------------------------------------------------------
(* What the walks do.                                                      *)

Walk == [child   : [Services -> ProcessState \cup {"NULL"}],
         timer   : [Services -> BOOLEAN],
         waits   : [Services -> SUBSET Services],
         posted  : Seq(Handler),
         absent  : Nat,
         corrupt : BOOLEAN,
         gone    : SUBSET Services]

\* A posted handler: the report of a child that has been told to stop, the walk
\* to those that waited for a service taken for gone, or the final report.
PostedFor(h, m) ==
  \/ h = NotifyTermination
  \/ \E s \in Services : h = StateChange(s) /\ m.child[s] = "TERMINATING"
  \/ \E t \in m.gone : h = TerminateDependencies(t)

\* m is reached by a walk that began by pruning the names of P: who is told to
\* stop waits for nobody, those who do not wait any more for a service wait for
\* one that is in P or taken for gone, and a service taken for gone has no
\* process and no armed restart.
Walked(m, P) ==
  /\ m \in Walk
  /\ \A s \in Services :
       /\ \/ m.child[s] = child[s]
          \/ child[s] # "NULL" /\ m.child[s] = "TERMINATING" /\ m.waits[s] = {}
       /\ m.timer[s] => restartTimer[s]
       /\ m.waits[s] \subseteq terminalMap[s]
       /\ terminalMap[s] \subseteq m.waits[s] \cup m.gone \cup P
  /\ \A t \in m.gone : child[t] \in {"NULL", "DEAD"} /\ (child[t] = "NULL" => ~m.timer[t])
  /\ \A i \in DOMAIN m.posted : PostedFor(m.posted[i], m)

LEMMA TerminateDependenciesIsHandler ==
  \A s \in Services : TerminateDependencies(s) \in Handler
  BY DEF TerminateDependencies, Handler

LEMMA TellWalks ==
  ASSUME NEW m, NEW P, Walked(m, P), NEW s \in Services, m.child[s] # "NULL", m.waits[s] = {}
  PROVE  Walked(Tell(m, s), P)
  <1> DEFINE n == Tell(m, s)
  <1>1. /\ n.child = [m.child EXCEPT ![s] = "TERMINATING"]
        /\ n.posted = Append(m.posted, StateChange(s))
        /\ n.timer = m.timer /\ n.waits = m.waits /\ n.gone = m.gone
        /\ n \in Walk
    <2>1. m \in Walk /\ StateChange(s) \in Handler
      BY HandlerMembers DEF Walked
    <2>2. Append(m.posted, StateChange(s)) \in Seq(Handler)
      BY <2>1, QueueOps DEF Walk
    <2>3. [m.child EXCEPT ![s] = "TERMINATING"] \in [Services -> ProcessState \cup {"NULL"}]
      BY <2>1 DEF Walk, ProcessState
    <2> QED BY <2>1, <2>2, <2>3 DEF Tell, Walk
  <1> HIDE DEF n
  <1>2. \A t \in Services : n.child[t] = IF t = s THEN "TERMINATING" ELSE m.child[t]
    BY <1>1 DEF Walked, Walk
  <1>3. child[s] # "NULL"
    BY DEF Walked
  <1>4. ASSUME NEW i \in DOMAIN n.posted
        PROVE  PostedFor(n.posted[i], n)
    <2>1. m.posted \in Seq(Handler) /\ StateChange(s) \in Handler
      BY HandlerMembers DEF Walked, Walk
    <2>2. (i \in DOMAIN m.posted /\ n.posted[i] = m.posted[i]) \/ n.posted[i] = StateChange(s)
      BY <1>1, <2>1
    <2>3. CASE n.posted[i] = StateChange(s)
      BY <1>2, <2>3 DEF PostedFor
    <2>4. CASE i \in DOMAIN m.posted /\ n.posted[i] = m.posted[i]
      <3>1. PostedFor(m.posted[i], m)
        BY <2>4 DEF Walked
      <3> QED BY <1>1, <1>2, <2>4, <3>1 DEF PostedFor
    <2> QED BY <2>2, <2>3, <2>4
  <1>5. \A t \in Services : \/ n.child[t] = child[t]
                            \/ child[t] # "NULL" /\ n.child[t] = "TERMINATING" /\ n.waits[t] = {}
    BY <1>1, <1>2, <1>3 DEF Walked
  <1>6. Walked(n, P)
    BY <1>1, <1>4, <1>5 DEF Walked
  <1> QED BY <1>6 DEF n

\* Cancelling a restart.
LEMMA CancelWalks ==
  ASSUME NEW m, NEW P, Walked(m, P), NEW s \in Services
  PROVE  /\ Walked([m EXCEPT !.timer[s] = FALSE], P)
         /\ [m EXCEPT !.timer[s] = FALSE].timer[s] = FALSE
         /\ [m EXCEPT !.timer[s] = FALSE].child = m.child
         /\ [m EXCEPT !.timer[s] = FALSE].waits = m.waits
  <1> DEFINE n == [m EXCEPT !.timer[s] = FALSE]
  <1>1. /\ n.timer = [m.timer EXCEPT ![s] = FALSE]
        /\ n.child = m.child /\ n.posted = m.posted /\ n.waits = m.waits /\ n.gone = m.gone
        /\ n \in Walk
    <2>1. m \in Walk
      BY DEF Walked
    <2> QED BY <2>1 DEF Walk
  <1> HIDE DEF n
  <1>2. \A t \in Services : n.timer[t] = IF t = s THEN FALSE ELSE m.timer[t]
    BY <1>1 DEF Walked, Walk
  <1>3. \A h : PostedFor(h, m) => PostedFor(h, n)
    BY <1>1 DEF PostedFor
  <1>4. Walked(n, P)
    BY <1>1, <1>2, <1>3 DEF Walked
  <1> QED BY <1>1, <1>2, <1>4 DEF n

\* Taking a service for gone.
LEMMA PostGoneWalks ==
  ASSUME NEW m, NEW P, Walked(m, P), NEW s \in Services,
         \/ m.child[s] = "DEAD"
         \/ m.child[s] = "NULL" /\ ~m.timer[s]
  PROVE  Walked(PostGone(m, s), P)
  <1> DEFINE n == PostGone(m, s)
  <1>0. m \in Walk /\ TerminateDependencies(s) \in Handler /\ m.posted \in Seq(Handler)
    BY TerminateDependenciesIsHandler DEF Walked, Walk
  <1>1. /\ n.gone = m.gone \cup {s}
        /\ n.posted = Append(m.posted, TerminateDependencies(s))
        /\ n.child = m.child /\ n.timer = m.timer /\ n.waits = m.waits
        /\ n \in Walk
    <2>1. Append(m.posted, TerminateDependencies(s)) \in Seq(Handler)
      BY <1>0, QueueOps
    <2> QED BY <1>0, <2>1 DEF PostGone, Walk
  <1> HIDE DEF n
  <1>2. child[s] = m.child[s]
    BY DEF Walked
  <1>3. ASSUME NEW i \in DOMAIN n.posted
        PROVE  PostedFor(n.posted[i], n)
    <2>1. \/ i \in DOMAIN m.posted /\ n.posted[i] = m.posted[i]
          \/ n.posted[i] = TerminateDependencies(s)
      BY <1>0, <1>1
    <2>2. i \in DOMAIN m.posted => PostedFor(m.posted[i], m)
      BY DEF Walked
    <2> QED BY <1>1, <2>1, <2>2 DEF PostedFor
  <1>4. \A t \in n.gone : child[t] \in {"NULL", "DEAD"} /\ (child[t] = "NULL" => ~n.timer[t])
    BY <1>1, <1>2 DEF Walked
  <1>5. Walked(n, P)
    BY <1>1, <1>3, <1>4 DEF Walked
  <1> QED BY <1>5 DEF n

\* One iteration of the loop of terminateDependencyServices().
LEMMA TerminateServiceWalks ==
  ASSUME NEW m, NEW P, Walked(m, P), NEW s \in Services, m.waits[s] = {}
  PROVE  Walked(TerminateService(m, s), P)
  <1>1. CASE s \notin started
    <2> DEFINE n == [m EXCEPT !.corrupt = TRUE]
    <2>1. /\ n.child = m.child /\ n.timer = m.timer /\ n.waits = m.waits
          /\ n.posted = m.posted /\ n.gone = m.gone /\ n \in Walk
      <3>1. m \in Walk
        BY DEF Walked
      <3> QED BY <3>1 DEF Walk
    <2>2. TerminateService(m, s) = n
      BY <1>1 DEF TerminateService
    <2> HIDE DEF n
    <2>3. \A h : PostedFor(h, m) => PostedFor(h, n)
      BY <2>1 DEF PostedFor
    <2> QED BY <2>1, <2>2, <2>3 DEF Walked
  <1>2. CASE s \in started /\ m.child[s] = "NULL"
    <2> DEFINE n == [m EXCEPT !.timer[s] = FALSE]
    <2>1. TerminateService(m, s) = PostGone(n, s)
      BY <1>2 DEF TerminateService
    <2>2. Walked(n, P) /\ n.timer[s] = FALSE /\ n.child = m.child
      BY CancelWalks
    <2> HIDE DEF n
    <2> QED BY <1>2, <2>1, <2>2, PostGoneWalks
  <1>3. CASE s \in started /\ m.child[s] = "DEAD"
    <2>1. TerminateService(m, s) = PostGone(m, s)
      BY <1>3 DEF TerminateService
    <2> QED BY <1>3, <2>1, PostGoneWalks
  <1>4. CASE s \in started /\ m.child[s] \notin {"NULL", "DEAD"}
    <2>1. TerminateService(m, s) = Tell(m, s)
      BY <1>4 DEF TerminateService
    <2> QED BY <1>4, <2>1, TellWalks
  <1> QED BY <1>1, <1>2, <1>3, <1>4

LEMMA TerminateServiceKeepsWaits ==
  ASSUME NEW m \in Walk, NEW s
  PROVE  TerminateService(m, s).waits = m.waits
  BY DEF TerminateService, PostGone, Tell, Walk

\* Nobody waits for a service any more that is gone.
LEMMA PruneWalks ==
  ASSUME NEW m, NEW P, Walked(m, P), NEW name \in m.gone \cup P
  PROVE  /\ Walked([m EXCEPT !.waits = Prune(m.waits, name)], P)
         /\ [m EXCEPT !.waits = Prune(m.waits, name)].waits = Prune(m.waits, name)
  <1> DEFINE n == [m EXCEPT !.waits = Prune(m.waits, name)]
  <1>1. m \in Walk /\ m.waits \in [Services -> SUBSET Services]
    BY DEF Walked, Walk
  <1>2. /\ n.waits = Prune(m.waits, name)
        /\ n.child = m.child /\ n.timer = m.timer /\ n.posted = m.posted /\ n.gone = m.gone
        /\ n \in Walk
    <2>1. Prune(m.waits, name) \in [Services -> SUBSET Services]
      BY <1>1 DEF Prune
    <2> QED BY <1>1, <2>1 DEF Walk
  <1> HIDE DEF n
  <1>3. \A s \in Services : n.waits[s] = m.waits[s] \ {name}
    BY <1>2 DEF Prune
  <1>4. \A h : PostedFor(h, m) => PostedFor(h, n)
    BY <1>2 DEF PostedFor
  <1>5. \A s \in Services :
          /\ \/ n.child[s] = child[s]
             \/ child[s] # "NULL" /\ n.child[s] = "TERMINATING" /\ n.waits[s] = {}
          /\ n.timer[s] => restartTimer[s]
          /\ n.waits[s] \subseteq terminalMap[s]
          /\ terminalMap[s] \subseteq n.waits[s] \cup n.gone \cup P
    BY <1>2, <1>3 DEF Walked
  <1>6. Walked(n, P)
    BY <1>2, <1>4, <1>5 DEF Walked
  <1> QED BY <1>2, <1>6 DEF n

\* The loop of terminateDependencyServices().
LEMMA TerminateDependencyServicesWalks ==
  ASSUME NEW m, NEW P, Walked(m, P), NEW name \in m.gone \cup P, NEW order \in SetToSeqs(Services)
  PROVE  Walked(TerminateDependencyServices(m, name, order), P)
  <1> DEFINE b == [m EXCEPT !.waits = Prune(m.waits, name)]
             free == Freed(m.waits, name)
             n == Len(order)
  <1>1. PICK k \in Nat : order \in [1..k -> Services]
    BY OrdersDomain
  <1>2. n = k
    BY <1>1
  <1>3. PICK f : IsInnerLoop(f, n, b, free, order) /\ TerminateDependencyServices(m, name, order) = f[n]
    BY <1>1, <1>2, InnerLoop
  <1>4. Walked(b, P) /\ b.waits = Prune(m.waits, name)
    BY PruneWalks
  <1>5. \A s \in free : s \in Services /\ Prune(m.waits, name)[s] = {}
    BY DEF Freed, Prune
  <1> DEFINE T == {i \in 0..n : Walked(f[i], P) /\ f[i].waits = Prune(m.waits, name)}
  <1> HIDE DEF b, free, n
  <1>6. 0 \in T
    <2>1. f[0] = b
      BY <1>1, <1>2, <1>3 DEF IsInnerLoop
    <2> QED BY <1>1, <1>2, <1>4, <2>1
  <1>7. ASSUME NEW i \in 1..n, i - 1 \in T
        PROVE  i \in T
    <2>1. /\ i \in 0..n /\ i # 0
          /\ f[i] = IF order[i] \in free THEN TerminateService(f[i - 1], order[i]) ELSE f[i - 1]
      BY <1>1, <1>2, <1>3 DEF IsInnerLoop
    <2>2. Walked(f[i - 1], P) /\ f[i - 1].waits = Prune(m.waits, name) /\ f[i - 1] \in Walk
      BY <1>7 DEF Walked
    <2>3. CASE order[i] \in free
      <3>1. order[i] \in Services /\ f[i - 1].waits[order[i]] = {}
        BY <1>5, <2>2, <2>3
      <3>2. Walked(TerminateService(f[i - 1], order[i]), P)
        BY <2>2, <3>1, TerminateServiceWalks
      <3>3. TerminateService(f[i - 1], order[i]).waits = Prune(m.waits, name)
        BY <2>2, TerminateServiceKeepsWaits
      <3> QED BY <2>1, <2>3, <3>2, <3>3
    <2>4. CASE order[i] \notin free
      BY <2>1, <2>2, <2>4
    <2> QED BY <2>3, <2>4
  <1>8. T \in SUBSET (0..n) /\ n \in Nat
    BY <1>1, <1>2
  <1> HIDE DEF T
  <1>9. T = 0..n
    BY <1>6, <1>7, <1>8, Iterations
  <1>10. n \in T
    BY <1>8, <1>9
  <1> QED BY <1>3, <1>10 DEF T

\* One iteration of the loop of startTerminating(), and the loop.
LEMMA StopEntryWalks ==
  ASSUME NEW m, Walked(m, {}), NEW s \in Services, NEW order \in SetToSeqs(Services)
  PROVE  Walked(StopEntry(m, s, order), {})
  <1> DEFINE n == [m EXCEPT !.timer[s] = FALSE]
             g == [n EXCEPT !.absent = @ + 1, !.gone = @ \cup {s}]
  <1>1. Walked(n, {}) /\ n.timer[s] = FALSE
    BY CancelWalks
  <1>2. StopEntry(m, s, order) = IF n.waits[s] # {} THEN n
                                 ELSE IF n.child[s] # "NULL" THEN Tell(n, s)
                                 ELSE TerminateDependencyServices(g, s, order)
    BY DEF StopEntry
  <1> HIDE DEF n
  <1>3. CASE n.waits[s] # {}
    BY <1>1, <1>2, <1>3
  <1>4. CASE n.waits[s] = {} /\ n.child[s] # "NULL"
    BY <1>1, <1>2, <1>4, TellWalks
  <1>5. CASE n.waits[s] = {} /\ n.child[s] = "NULL"
    <2>1. /\ g.gone = n.gone \cup {s}
          /\ g.child = n.child /\ g.timer = n.timer /\ g.waits = n.waits /\ g.posted = n.posted
          /\ g \in Walk
      <3> DEFINE h == [n EXCEPT !.absent = @ + 1]
      <3>1. n \in Walk
        BY <1>1 DEF Walked
      <3>2. /\ h \in Walk
            /\ h.gone = n.gone /\ h.child = n.child /\ h.timer = n.timer
            /\ h.waits = n.waits /\ h.posted = n.posted
        BY <3>1 DEF Walk
      <3>3. g = [h EXCEPT !.gone = @ \cup {s}]
        BY <3>1 DEF Walk
      <3> HIDE DEF g, h
      <3> QED BY <3>2, <3>3 DEF Walk
    <2> HIDE DEF g
    <2>2. \A h : PostedFor(h, n) => PostedFor(h, g)
      BY <2>1 DEF PostedFor
    <2>3. child[s] = "NULL"
      BY <1>1, <1>5 DEF Walked
    <2>4. Walked(g, {})
      BY <1>1, <2>1, <2>2, <2>3 DEF Walked
    <2> QED BY <1>2, <1>5, <2>1, <2>4, TerminateDependencyServicesWalks
  <1> QED BY <1>3, <1>4, <1>5

LEMMA NowWalked ==
  ASSUME TypeOK, terminalMap \in [Services -> SUBSET Services], NEW P
  PROVE  Walked(Now, P)
  <1>1. Now.posted = << >> /\ Now.child = child /\ Now.timer = restartTimer
        /\ Now.waits = terminalMap /\ Now.gone = {} /\ Now.absent = 0 /\ Now.corrupt = FALSE
    BY DEF Now
  <1>2. Now \in Walk
    BY DEF Now, Walk, TypeOK
  <1> QED BY <1>1, <1>2 DEF Walked

LEMMA StopEntriesWalks ==
  ASSUME TypeOK, terminalMap \in [Services -> SUBSET Services],
         NEW entries \in SetToSeqs(started), NEW order \in SetToSeqs(Services)
  PROVE  Walked(StopEntries(entries, order), {})
  <1> DEFINE n == Len(entries)
  <1>1. PICK k \in Nat : entries \in [1..k -> Services]
    <2>1. PICK k \in Nat : entries \in [1..k -> started]
      BY OrdersDomain DEF TypeOK
    <2> QED BY <2>1 DEF TypeOK
  <1>2. n = k
    BY <1>1
  <1>3. PICK f : IsOuterLoop(f, n, entries, order) /\ StopEntries(entries, order) = f[n]
    BY <1>1, <1>2, OuterLoop
  <1> DEFINE T == {i \in 0..n : Walked(f[i], {})}
  <1> HIDE DEF n
  <1>4. 0 \in T
    <2>1. f[0] = Now
      BY <1>1, <1>2, <1>3 DEF IsOuterLoop
    <2> QED BY <1>1, <1>2, <2>1, NowWalked
  <1>5. ASSUME NEW i \in 1..n, i - 1 \in T
        PROVE  i \in T
    <2>1. i \in 0..n /\ f[i] = StopEntry(f[i - 1], entries[i], order) /\ entries[i] \in Services
      BY <1>1, <1>2, <1>3 DEF IsOuterLoop
    <2>2. Walked(f[i - 1], {})
      BY <1>5
    <2> QED BY <2>1, <2>2, StopEntryWalks
  <1>6. T \in SUBSET (0..n) /\ n \in Nat
    BY <1>1, <1>2
  <1> HIDE DEF T
  <1>7. T = 0..n
    BY <1>4, <1>5, <1>6, Iterations
  <1> QED BY <1>3, <1>6, <1>7 DEF T

-----------------------------------------------------------------------------
(* The invariant.  StopsInReverse is about the step in which a service is    *)
(* told to stop; by then those started after it may have been taken for gone *)
(* long ago, and it has to be known that they have not come back since.     *)

\* Those that were taken for gone: somebody does not wait for them any more, or
\* will not when a queued walk has been made.
TakenForGone ==
  {t \in Services : \/ \E s \in Services : t \in StopAfter[s] \ terminalMap[s]
                    \/ \E i \in DOMAIN queue : queue[i] = TerminateDependencies(t)}

\* A queued handler will not bring t back: it restarts nothing, and once the
\* manager is not terminated it is no report of a death, which arms a restart.
Harmless(h, t) ==
  h.kind \in {"stateChange", "dangling", "restart"} /\ h.name = t =>
    /\ h.kind # "restart"
    /\ state # "TERMINARED" => h.kind = "stateChange" /\ child[t] # "DEAD"

Settled(t) ==
  /\ ~hasPid[t] /\ ~restartTimer[t]
  /\ \A i \in DOMAIN queue : Harmless(queue[i], t)

\* Unlike Disciplined this is kept when the map is cleared.
TimerAlone(s) ==
  restartTimer[s] => child[s] = "NULL" /\ \A i \in DOMAIN queue : queue[i] # RestartTimeout(s)

GoneStayGone ==
  /\ \A s \in Services : TimerAlone(s)
  /\ \A t \in TakenForGone \ overtaken : Settled(t)
  /\ TakenForGone # {} => state # "STARTING"

ReverseInv ==
  /\ RestartInv
  /\ terminalMap \in [Services -> SUBSET Services]
  /\ starts = 0 => \A s \in Services : terminalMap[s] = {}
  /\ \A s \in Services : child[s] = "DEAD" => ~hasPid[s]
  /\ daemon = "up" /\ starts = 1 => GoneStayGone

-----------------------------------------------------------------------------
(* The steps that walk.                                                    *)

\* The walk is over: the termination may be reported.
LEMMA NotifyWalks ==
  ASSUME NEW m, NEW P, Walked(m, P), NEW x \in {<<NotifyTermination>>, << >>}
  PROVE  Walked([m EXCEPT !.posted = @ \o x], P)
  <1> DEFINE n == [m EXCEPT !.posted = @ \o x]
  <1>1. /\ m \in Walk /\ m.posted \in Seq(Handler)
        /\ x \in Seq(Handler) /\ \A i \in DOMAIN x : x[i] = NotifyTermination
    <2>1. m \in Walk /\ m.posted \in Seq(Handler)
      BY DEF Walked, Walk
    <2>2. NotifyTermination \in Handler
      BY HandlerMembers
    <2>3. x \in Seq(Handler) /\ \A i \in DOMAIN x : x[i] = NotifyTermination
      <3>1. CASE x = << >>
        BY <3>1
      <3>2. CASE x = <<NotifyTermination>>
        BY <2>2, <3>2
      <3> QED BY <3>1, <3>2
    <2> QED BY <2>1, <2>3
  <1>2. /\ n.posted = m.posted \o x
        /\ n.child = m.child /\ n.timer = m.timer /\ n.waits = m.waits /\ n.gone = m.gone
        /\ n \in Walk
    <2>1. m.posted \o x \in Seq(Handler)
      BY <1>1, QueueOps
    <2> QED BY <1>1, <2>1 DEF Walk
  <1> HIDE DEF n
  <1>3. ASSUME NEW i \in DOMAIN n.posted
        PROVE  PostedFor(n.posted[i], n)
    <2>1. \/ i \in DOMAIN m.posted /\ n.posted[i] = m.posted[i]
          \/ n.posted[i] = NotifyTermination
      BY <1>1, <1>2, Positions
    <2>2. i \in DOMAIN m.posted => PostedFor(m.posted[i], m)
      BY DEF Walked
    <2> QED BY <1>2, <2>1, <2>2 DEF PostedFor
  <1>4. Walked(n, P)
    BY <1>2, <1>3 DEF Walked
  <1> QED BY <1>4 DEF n

\* What the queue holds when a walk has been committed.
LEMMA CommitQueue ==
  ASSUME TypeOK, NEW m, NEW P, Walked(m, P), NEW q,
         q = queue \/ (queue # << >> /\ q = Tail(queue)), Commit(m, q)
  PROVE  /\ queue' \in Seq(Handler)
         /\ q \in Seq(Handler) /\ m.posted \in Seq(Handler) /\ queue' = q \o m.posted
         /\ \A i \in DOMAIN queue' : \/ \E j \in DOMAIN queue : queue'[i] = queue[j]
                                     \/ PostedFor(queue'[i], m)
  <1>1. queue \in Seq(Handler) /\ m.posted \in Seq(Handler) /\ queue' = q \o m.posted
    BY DEF TypeOK, Walked, Walk, Commit
  <1>2. q \in Seq(Handler) /\ \A i \in DOMAIN q : \E j \in DOMAIN queue : q[i] = queue[j]
    <2>1. CASE q = queue
      BY <1>1, <2>1
    <2>2. CASE queue # << >> /\ q = Tail(queue)
      BY <1>1, <2>2, Positions, QueueOps
    <2> QED BY <2>1, <2>2
  <1>3. \A i \in DOMAIN queue' : \/ i \in DOMAIN q /\ queue'[i] = q[i]
                                 \/ \E j \in DOMAIN m.posted : queue'[i] = m.posted[j]
    BY <1>1, <1>2, Positions
  <1>4. \A j \in DOMAIN m.posted : PostedFor(m.posted[j], m)
    BY DEF Walked
  <1> QED BY <1>1, <1>2, <1>3, <1>4, QueueOps

LEMMA PostedKinds ==
  ASSUME NEW m, NEW h, PostedFor(h, m)
  PROVE  /\ h.kind \notin {"restart", "dangling"}
         /\ h.kind = "stateChange" => m.child[h.name] = "TERMINATING" /\ h.name \in Services
         /\ h.kind = "terminateDependencies" => h.name \in m.gone
  BY DEF PostedFor, StateChange, TerminateDependencies, NotifyTermination

\* A walk keeps the invariant of the restarts.
LEMMA CommitRestartInv ==
  ASSUME RestartInv, daemon = "up", starts # 0, NEW m, NEW P, Walked(m, P), NEW q,
         q = queue \/ (queue # << >> /\ q = Tail(queue)), Commit(m, q),
         state' \in {state, "TERMINARED"}, stops' \in 0..MaxStops
  PROVE  RestartInv'
  <1>0. TypeOK
    BY DEF RestartInv, OrderInv
  <1>1. /\ child' = m.child /\ restartTimer' = m.timer
        /\ daemon' \in {"up", "aborted"}
        /\ UNCHANGED <<started, hasPid, runningTimestamp, zombies, hasNotifiedStartupReady,
                       startupMap, everReady, terminationNotified, starts>>
    BY DEF Commit
  <1>2. /\ queue' \in Seq(Handler)
        /\ q \in Seq(Handler) /\ m.posted \in Seq(Handler) /\ queue' = q \o m.posted
        /\ \A i \in DOMAIN queue' : \/ \E j \in DOMAIN queue : queue'[i] = queue[j]
                                    \/ PostedFor(queue'[i], m)
    BY <1>0, CommitQueue
  <1>3. \A s \in Services : /\ child'[s] = "NULL" <=> child[s] = "NULL"
                            /\ restartTimer'[s] => restartTimer[s]
    BY <1>1 DEF Walked
  <1>4. TypeOK'
    <2>1. /\ child' \in [Services -> ProcessState \cup {"NULL"}]
          /\ restartTimer' \in [Services -> BOOLEAN]
          /\ state' \in State
      BY <1>0, <1>1 DEF Walked, Walk, TypeOK, State
    <2> QED BY <1>0, <1>1, <1>2, <1>3, <2>1 DEF TypeOK
  <1>5. OrderInv'
    BY <1>1, <1>4 DEF RestartInv, OrderInv, StartupMapFollowsReports
  <1>6. ASSUME FirstRun'
        PROVE  Disciplined'
    <2>1. Disciplined
      BY <1>1, <1>6 DEF FirstRun, RestartInv
    <2>2. ASSUME NEW i \in DOMAIN queue'
          PROVE  Fits(queue[i])'
      <3>1. CASE \E j \in DOMAIN queue : queue'[i] = queue[j]
        <4>1. PICK j \in DOMAIN queue : queue'[i] = queue[j]
          BY <3>1
        <4>2. Fits(queue[j])
          BY <2>1 DEF Disciplined
        <4> QED BY <1>0, <1>1, <1>3, <4>1, <4>2, QueueNames DEF Fits
      <3>2. CASE PostedFor(queue'[i], m)
        BY <1>1, <3>2, PostedKinds DEF Fits
      <3> QED BY <1>2, <3>1, <3>2
    <2>3. RestartsLast(q)
      BY <1>0, <2>1, RestartsLastTail DEF Disciplined, TypeOK
    <2>4. \A i \in DOMAIN m.posted : m.posted[i].kind \notin {"restart", "dangling"}
      BY PostedKinds DEF Walked
    <2>5. RestartsLast(queue')
      BY <1>2, <2>3, <2>4, RestartsLastConcat
    <2> QED BY <1>1, <1>3, <2>1, <2>2, <2>5 DEF Disciplined, RestartsLast
  <1> QED BY <1>1, <1>5, <1>6 DEF RestartInv, NothingQueued

\* Every service is as gone after a walk as before it, and those it takes for
\* gone are gone.
LEMMA CommitGoneStayGone ==
  ASSUME ReverseInv, daemon = "up", starts = 1, state # "STARTING", NEW m, NEW P, Walked(m, P),
         P \subseteq TakenForGone, NEW q, q = queue \/ (queue # << >> /\ q = Tail(queue)),
         Commit(m, q), state' \in {state, "TERMINARED"}
  PROVE  GoneStayGone'
  <1>0. TypeOK /\ GoneStayGone
    BY DEF ReverseInv, RestartInv, OrderInv
  <1>1. /\ child' = m.child /\ restartTimer' = m.timer /\ terminalMap' = m.waits
        /\ overtaken' = overtaken \cup (m.gone \cap Pending) /\ hasPid' = hasPid
    BY DEF Commit
  <1>2. \A i \in DOMAIN queue' : \/ \E j \in DOMAIN queue : queue'[i] = queue[j]
                                 \/ PostedFor(queue'[i], m)
    BY <1>0, CommitQueue
  <1>3. \A s \in Services : /\ restartTimer'[s] => restartTimer[s]
                            /\ child'[s] = "NULL" <=> child[s] = "NULL"
                            /\ child'[s] = "DEAD" => child[s] = "DEAD"
    BY <1>1 DEF Walked
  <1>4. ASSUME NEW s \in Services
        PROVE  TimerAlone(s)'
    <2> SUFFICES ASSUME restartTimer'[s]
                 PROVE  child'[s] = "NULL" /\ \A i \in DOMAIN queue' : queue'[i] # RestartTimeout(s)
      BY DEF TimerAlone
    <2>1. child[s] = "NULL" /\ \A j \in DOMAIN queue : queue[j] # RestartTimeout(s)
      BY <1>0, <1>3 DEF GoneStayGone, TimerAlone
    <2>2. \A i \in DOMAIN queue' : PostedFor(queue'[i], m) => queue'[i] # RestartTimeout(s)
      BY PostedKinds DEF RestartTimeout
    <2> QED BY <1>2, <1>3, <2>1, <2>2
  <1>5. TakenForGone' \subseteq TakenForGone \cup m.gone
    <2> SUFFICES ASSUME NEW t \in TakenForGone', t \notin m.gone
                 PROVE  t \in TakenForGone
      OBVIOUS
    <2>1. t \in Services
      BY DEF TakenForGone
    <2>2. CASE \E s \in Services : t \in StopAfter[s] \ terminalMap'[s]
      <3>1. PICK s \in Services : t \in StopAfter[s] \ terminalMap'[s]
        BY <2>2
      <3>2. t \notin terminalMap[s] \/ t \in P
        BY <1>1, <3>1 DEF Walked
      <3> QED BY <2>1, <3>1, <3>2 DEF TakenForGone
    <2>3. CASE \E i \in DOMAIN queue' : queue'[i] = TerminateDependencies(t)
      <3>1. PICK i \in DOMAIN queue' : queue'[i] = TerminateDependencies(t)
        BY <2>3
      <3>2. ~PostedFor(queue'[i], m)
        BY <3>1, PostedKinds DEF TerminateDependencies
      <3> QED BY <1>2, <2>1, <3>1, <3>2 DEF TakenForGone
    <2> QED BY <2>2, <2>3 DEF TakenForGone
  <1>6. ASSUME NEW t \in TakenForGone' \ overtaken'
        PROVE  Settled(t)'
    <2>0. t \in Services
      BY <1>6 DEF TakenForGone
    <2>1. /\ ~hasPid[t] /\ ~restartTimer'[t]
          /\ \A i \in DOMAIN queue : Harmless(queue[i], t)
      <3>1. CASE t \in TakenForGone
        <4>1. Settled(t)
          BY <1>0, <1>1, <1>6, <3>1 DEF GoneStayGone
        <4> QED BY <1>3, <2>0, <4>1 DEF Settled
      <3>2. CASE t \in m.gone
        <4>1. child[t] \in {"NULL", "DEAD"} /\ (child[t] = "NULL" => ~m.timer[t])
          BY <3>2 DEF Walked
        <4>2. ~hasPid[t]
          BY <1>0, <2>0, <4>1 DEF TypeOK, ReverseInv
        <4>3. ~restartTimer'[t]
          BY <1>0, <1>1, <1>3, <2>0, <4>1 DEF GoneStayGone, TimerAlone
        <4>4. \A i \in DOMAIN queue :
                ~(queue[i].kind \in {"stateChange", "dangling", "restart"} /\ queue[i].name = t)
          BY <1>1, <1>6, <3>2 DEF Pending
        <4> QED BY <4>2, <4>3, <4>4 DEF Harmless
      <3> QED BY <1>5, <1>6, <3>1, <3>2
    <2>2. ASSUME NEW i \in DOMAIN queue'
          PROVE  Harmless(queue[i], t)'
      <3>1. CASE \E j \in DOMAIN queue : queue'[i] = queue[j]
        <4>1. PICK j \in DOMAIN queue : queue'[i] = queue[j]
          BY <3>1
        <4>2. Harmless(queue[j], t)
          BY <2>1
        <4> QED BY <1>3, <2>0, <4>1, <4>2 DEF Harmless
      <3>2. CASE PostedFor(queue'[i], m)
        BY <1>1, <3>2, PostedKinds DEF Harmless
      <3> QED BY <1>2, <3>1, <3>2
    <2> QED BY <1>1, <2>1, <2>2 DEF Settled
  <1>7. state' # "STARTING"
    OBVIOUS
  <1> QED BY <1>4, <1>6, <1>7 DEF GoneStayGone

\* A walk keeps the invariant ...
LEMMA CommitReverseInv ==
  ASSUME ReverseInv, daemon = "up", starts # 0, starts = 1 => state # "STARTING",
         NEW m, NEW P, Walked(m, P), P \subseteq TakenForGone,
         NEW q, q = queue \/ (queue # << >> /\ q = Tail(queue)), Commit(m, q),
         state' \in {state, "TERMINARED"}, stops' \in 0..MaxStops
  PROVE  ReverseInv'
  <1>1. RestartInv'
    BY CommitRestartInv DEF ReverseInv
  <1>2. /\ child' = m.child /\ terminalMap' = m.waits
        /\ UNCHANGED <<hasPid, starts>>
    BY DEF Commit
  <1>3. terminalMap' \in [Services -> SUBSET Services]
    BY <1>2 DEF Walked, Walk
  <1>4. \A s \in Services : child'[s] = "DEAD" => ~hasPid'[s]
    BY <1>2 DEF Walked, ReverseInv
  <1>5. starts' = 1 => GoneStayGone'
    BY <1>2, CommitGoneStayGone
  <1> QED BY <1>1, <1>2, <1>3, <1>4, <1>5 DEF ReverseInv

\* ... and tells a service to stop only when those started after it are gone.
LEMMA CommitStopsInReverse ==
  ASSUME ReverseInv, daemon = "up", starts = 1, NEW m, NEW P, Walked(m, P), P \subseteq TakenForGone,
         NEW q, Commit(m, q),
         NEW s \in Services, child[s] # "TERMINATING", child'[s] = "TERMINATING",
         NEW t \in StopAfter[s] \ overtaken'
  PROVE  ~hasPid[t]
  <1>0. TypeOK /\ GoneStayGone /\ t \in Services
    BY DEF ReverseInv, RestartInv, OrderInv, StopAfter
  <1>1. child' = m.child /\ overtaken \subseteq overtaken'
    BY DEF Commit
  <1>2. m.waits[s] = {} /\ terminalMap[s] \subseteq m.gone \cup P
    BY <1>1 DEF Walked
  <1>3. CASE t \in m.gone
    <2>1. child[t] \in {"NULL", "DEAD"}
      BY <1>3 DEF Walked
    <2> QED BY <1>0, <2>1 DEF TypeOK, ReverseInv
  <1>4. CASE t \in TakenForGone
    BY <1>0, <1>1, <1>4 DEF GoneStayGone, Settled
  <1>5. t \notin terminalMap[s] => t \in TakenForGone
    BY <1>0 DEF TakenForGone
  <1> QED BY <1>2, <1>3, <1>4, <1>5

\* A step that commits the walk m, with the handlers q queued before.
WalkStep(m, P, q) ==
  /\ Walked(m, P) /\ P \subseteq TakenForGone
  /\ q = queue \/ (queue # << >> /\ q = Tail(queue))
  /\ Commit(m, q)
  /\ starts # 0 /\ (starts = 1 => state # "STARTING")
  /\ state' \in {state, "TERMINARED"} /\ stops' \in 0..MaxStops

\* The two actions that walk.
LEMMA WalkingSteps ==
  ASSUME ReverseInv, daemon = "up", StartTerminatingInReverse \/ TerminateDependenciesHandler
  PROVE  \E m, P, q : WalkStep(m, P, q)
  <1>0. TypeOK /\ terminalMap \in [Services -> SUBSET Services]
    BY DEF ReverseInv, RestartInv, OrderInv
  <1>1. CASE StartTerminatingInReverse
    <2>1. PICK entries \in SetToSeqs(started), order \in SetToSeqs(Services) :
            LET m == StopEntries(entries, order)
                none == m.absent = Cardinality(started)
            IN  /\ state' = IF none THEN "TERMINARED" ELSE state
                /\ Commit([m EXCEPT !.posted = @ \o (IF none THEN <<NotifyTermination>> ELSE << >>)],
                          queue)
      BY <1>1 DEF StartTerminatingInReverse
    <2> DEFINE m == StopEntries(entries, order)
               x == IF m.absent = Cardinality(started) THEN <<NotifyTermination>> ELSE << >>
    <2>2. Walked(m, {})
      BY <1>0, StopEntriesWalks
    <2>3. Commit([m EXCEPT !.posted = @ \o x], queue) /\ state' \in {state, "TERMINARED"}
      BY <2>1
    <2>4. x \in {<<NotifyTermination>>, << >>}
      OBVIOUS
    <2> HIDE DEF m, x
    <2>5. Walked([m EXCEPT !.posted = @ \o x], {})
      BY <2>2, <2>4, NotifyWalks
    <2>6. starts # 0 /\ state # "STARTING"
      BY <1>1 DEF StartTerminatingInReverse, ReverseInv
    <2>7. stops' \in 0..MaxStops
      BY <1>0, <1>1, BoundsAssumption DEF StartTerminatingInReverse, TypeOK
    <2>8. WalkStep([m EXCEPT !.posted = @ \o x], {}, queue)
      BY <2>3, <2>5, <2>6, <2>7 DEF WalkStep
    <2> QED BY <2>8
  <1>2. CASE TerminateDependenciesHandler
    <2> DEFINE name == Head(queue).name
    <2>1. /\ queue # << >> /\ Head(queue).kind = "terminateDependencies"
          /\ state' = state /\ stops' = stops
      BY <1>2 DEF TerminateDependenciesHandler, Running
    <2>2. PICK order \in SetToSeqs(Services) :
            Commit(TerminateDependencyServices(Now, name, order), Tail(queue))
      BY <1>2 DEF TerminateDependenciesHandler
    <2>3. 1 \in DOMAIN queue /\ Head(queue) = queue[1] /\ Head(queue) \in Handler
      BY <1>0, <2>1, Positions, QueueOps DEF TypeOK
    <2>4. name \in Services /\ Head(queue) = TerminateDependencies(name)
      BY <2>1, <2>3 DEF Handler, TerminateDependencies
    <2>5. {name} \subseteq TakenForGone
      BY <2>3, <2>4 DEF TakenForGone
    <2>6. Walked(TerminateDependencyServices(Now, name, order), {name})
      BY <1>0, NowWalked, TerminateDependencyServicesWalks
    <2>7. starts # 0
      BY <2>1, <2>3 DEF ReverseInv, RestartInv, NothingQueued
    <2>8. starts = 1 => state # "STARTING"
      BY <2>5 DEF ReverseInv, GoneStayGone
    <2>9. WalkStep(TerminateDependencyServices(Now, name, order), {name}, Tail(queue))
      BY <1>0, <2>1, <2>2, <2>5, <2>6, <2>7, <2>8 DEF WalkStep, TypeOK
    <2> QED BY <2>9
  <1> QED BY <1>1, <1>2

-----------------------------------------------------------------------------
(* The other steps.                                                        *)

Old(h) == \E j \in DOMAIN queue : h = queue[j]

\* The step is not about service t.
Spares(t) ==
  /\ child'[t] = child[t]
  /\ hasPid'[t] => hasPid[t]
  /\ restartTimer'[t] => restartTimer[t]
  /\ \A i \in DOMAIN queue' :
       queue'[i].kind \in {"stateChange", "dangling", "restart"} /\ queue'[i].name = t => Old(queue'[i])

LEMMA Spared ==
  ASSUME NEW t \in Services, Spares(t), state = "TERMINARED" => state' = "TERMINARED"
  PROVE  /\ TimerAlone(t) => TimerAlone(t)'
         /\ Settled(t) => Settled(t)'
  <1>1. TimerAlone(t) => TimerAlone(t)'
    BY DEF Spares, TimerAlone, Old, RestartTimeout
  <1>2. ASSUME Settled(t), NEW i \in DOMAIN queue'
        PROVE  Harmless(queue[i], t)'
    <2>1. CASE queue'[i].kind \in {"stateChange", "dangling", "restart"} /\ queue'[i].name = t
      <3>1. PICK j \in DOMAIN queue : queue'[i] = queue[j]
        BY <2>1 DEF Spares, Old
      <3>2. Harmless(queue[j], t)
        BY <1>2 DEF Settled
      <3> QED BY <3>1, <3>2 DEF Harmless, Spares
    <2>2. CASE ~(queue'[i].kind \in {"stateChange", "dangling", "restart"} /\ queue'[i].name = t)
      BY <2>2 DEF Harmless
    <2> QED BY <2>1, <2>2
  <1>3. Settled(t) => ~hasPid'[t] /\ ~restartTimer'[t]
    BY DEF Settled, Spares
  <1> QED BY <1>1, <1>2, <1>3 DEF Settled

\* No walk is posted, and nobody who is gone comes back.
Keeps ==
  /\ \A i \in DOMAIN queue' : queue'[i].kind = "terminateDependencies" => Old(queue'[i])
  /\ \A t \in Services : TimerAlone(t)' /\ (Settled(t) /\ state # "STARTING" => Settled(t)')

LEMMA SetProcessStateKeeps ==
  ASSUME TypeOK, \A t \in Services : TimerAlone(t), NEW s \in Services,
         ChildReady(s) \/ ChildTimeout(s)
  PROVE  Keeps
  <1> DEFINE st == child'[s]
  <1>0. queue \in Seq(Handler) /\ StateChange(s) \in Handler
    BY HandlerMembers DEF TypeOK
  <1>1. /\ queue' = Append(queue, StateChange(s))
        /\ UNCHANGED <<state, hasPid, restartTimer>>
        /\ \A t \in Services : t # s => child'[t] = child[t]
        /\ child[s] # "NULL"
        /\ ~hasPid[s] => child'[s] = "KILLING"
    BY DEF ChildReady, ChildTimeout, SetProcessState, progress, TypeOK
  <1>2. \A i \in DOMAIN queue' : queue'[i] = StateChange(s) \/ Old(queue'[i])
    BY <1>0, <1>1 DEF Old
  <1>3. ASSUME NEW t \in Services \ {s}
        PROVE  Spares(t)
    BY <1>1, <1>2 DEF Spares, StateChange
  <1>4. TimerAlone(s)'
    BY <1>1 DEF TimerAlone
  <1>5. ASSUME Settled(s)
        PROVE  Settled(s)'
    <2>1. child'[s] = "KILLING"
      BY <1>1, <1>5 DEF Settled
    <2>2. ASSUME NEW i \in DOMAIN queue'
          PROVE  Harmless(queue[i], s)'
      <3>1. CASE queue'[i] = StateChange(s)
        BY <2>1, <3>1 DEF Harmless, StateChange
      <3>2. CASE Old(queue'[i])
        <4>1. PICK j \in DOMAIN queue : queue'[i] = queue[j]
          BY <3>2 DEF Old
        <4>2. Harmless(queue[j], s)
          BY <1>5 DEF Settled
        <4> QED BY <1>1, <2>1, <4>1, <4>2 DEF Harmless
      <3> QED BY <1>2, <3>1, <3>2
    <2> QED BY <1>1, <1>5, <2>2 DEF Settled
  <1>6. \A i \in DOMAIN queue' : queue'[i].kind = "terminateDependencies" => Old(queue'[i])
    BY <1>2 DEF StateChange
  <1> QED BY <1>1, <1>3, <1>4, <1>5, <1>6, Spared DEF Keeps

LEMMA WorldKeeps ==
  ASSUME TypeOK, \A t \in Services : TimerAlone(t), World
  PROVE  Keeps
  <1> USE DEF progress, services
  <1>0. queue \in Seq(Handler)
    BY DEF TypeOK
  <1>1. ASSUME NEW p, Exits(p)
        PROVE  Keeps
    <2>1. /\ \A i \in DOMAIN queue' : queue'[i] = Sigchld \/ Old(queue'[i])
          /\ UNCHANGED <<state, child, hasPid, restartTimer>>
      BY <1>0, <1>1, HandlerMembers DEF Exits, Old
    <2>2. \A t \in Services : Spares(t)
      BY <2>1 DEF Spares, Sigchld
    <2> QED BY <2>1, <2>2, Spared DEF Keeps, Sigchld
  <1>2. ASSUME NEW s \in Services, RestartTimerExpires(s)
        PROVE  Keeps
    <2>1. /\ restartTimer[s] /\ ~restartTimer'[s]
          /\ \A t \in Services : t # s => restartTimer'[t] = restartTimer[t]
          /\ UNCHANGED <<state, child, hasPid>>
      BY <1>2 DEF RestartTimerExpires, TypeOK
    <2>2. \A i \in DOMAIN queue' : queue'[i] = RestartTimeout(s) \/ Old(queue'[i])
      BY <1>0, <1>2, HandlerMembers DEF RestartTimerExpires, Old
    <2>3. \A t \in Services \ {s} : Spares(t)
      BY <2>1, <2>2 DEF Spares, RestartTimeout
    <2>4. TimerAlone(s)' /\ ~Settled(s)
      BY <2>1 DEF TimerAlone, Settled
    <2> QED BY <2>1, <2>2, <2>3, <2>4, Spared DEF Keeps, RestartTimeout
  <1>3. ASSUME NEW s \in Services, MinutePasses(s)
        PROVE  Keeps
    <2>1. UNCHANGED <<state, child, hasPid, restartTimer, queue>>
      BY <1>3 DEF MinutePasses
    <2>2. \A t \in Services : Spares(t)
      BY <2>1 DEF Spares, Old
    <2> QED BY <2>1, <2>2, Spared DEF Keeps, Old
  <1> QED BY <1>1, <1>2, <1>3, SetProcessStateKeeps DEF World, ChildExit, AdoptedExit

LEMMA MarkedOrSame ==
  ASSUME NEW q \in Seq(Handler), NEW S, NEW i \in DOMAIN MarkDangling(q, S)
  PROVE  \/ MarkDangling(q, S)[i].kind = "dangling" /\ MarkDangling(q, S)[i].name \in S
         \/ i \in DOMAIN q /\ MarkDangling(q, S)[i] = q[i]
  BY DEF MarkDangling, Dangling

\* Clearing the map settles everybody: a report of a death is not listened to
\* any more, and what is left of the restarts finds no timer.
LEMMA ForceTerminateKeeps ==
  ASSUME TypeOK, ForceTerminate
  PROVE  Keeps
  <1> DEFINE m == MarkDangling(queue, Services)
  <1>0. queue \in Seq(Handler) /\ <<NotifyTermination>> \in Seq(Handler)
    BY HandlerMembers DEF TypeOK
  <1>1. /\ queue' = m \o <<NotifyTermination>> /\ state' = "TERMINARED"
        /\ \A t \in Services : ~hasPid'[t] /\ ~restartTimer'[t]
    BY DEF ForceTerminate, MapClear
  <1>2. /\ m \in Seq(Handler)
        /\ \A i \in DOMAIN m : \/ m[i].kind = "dangling"
                               \/ Old(m[i])
    <2>1. m \in Seq(Handler)
      BY <1>0, MarkDanglingProperties DEF TypeOK
    <2>2. \A i \in DOMAIN m : m[i].kind = "dangling" \/ (i \in DOMAIN queue /\ m[i] = queue[i])
      BY <1>0, MarkedOrSame
    <2> QED BY <2>1, <2>2 DEF Old
  <1> HIDE DEF m
  <1>3. \A i \in DOMAIN queue' : \/ queue'[i].kind \in {"dangling", "notifyTermination"}
                                 \/ Old(queue'[i])
    <2>1. \A i \in DOMAIN <<NotifyTermination>> :
            <<NotifyTermination>>[i].kind = "notifyTermination"
      BY DEF NotifyTermination
    <2> QED BY <1>0, <1>1, <1>2, <2>1, Positions
  <1>4. ASSUME NEW t \in Services, Settled(t), NEW i \in DOMAIN queue'
        PROVE  Harmless(queue[i], t)'
    <2>1. CASE queue'[i].kind \in {"dangling", "notifyTermination"}
      BY <1>1, <2>1 DEF Harmless
    <2>2. CASE Old(queue'[i])
      <3>1. PICK j \in DOMAIN queue : queue'[i] = queue[j]
        BY <2>2 DEF Old
      <3>2. Harmless(queue[j], t)
        BY <1>4 DEF Settled
      <3> QED BY <1>1, <3>1, <3>2 DEF Harmless
    <2> QED BY <1>3, <2>1, <2>2
  <1> QED BY <1>1, <1>3, <1>4 DEF Keeps, Settled, TimerAlone

LEMMA StartTerminatingKeeps ==
  ASSUME TypeOK, StartTerminating
  PROVE  Keeps
  <1> DEFINE present == {s \in started : child[s] # "NULL"}
             last == IF present = {} THEN <<NotifyTermination>> ELSE << >>
  <1>0. queue \in Seq(Handler) /\ present \in SUBSET Services /\ last \in Seq(Handler)
    BY HandlerMembers DEF TypeOK
  <1>1. PICK r \in Reports(present) : queue' = queue \o r \o last
    BY DEF StartTerminating
  <1>2. /\ child' = [s \in Services |-> IF s \in present THEN "TERMINATING" ELSE child[s]]
        /\ \A s \in Services : ~restartTimer'[s]
        /\ state' = IF present = {} THEN "TERMINARED" ELSE state
        /\ hasPid' = hasPid
    BY DEF StartTerminating
  <1>3. \A i \in DOMAIN last : last[i] = NotifyTermination
    OBVIOUS
  <1> HIDE DEF present, last
  <1>4. r \in Seq(Handler) /\ \A i \in DOMAIN r : \E s \in present : r[i] = StateChange(s)
    BY <1>0, ReportsType, ReportsContent
  <1>5. \A i \in DOMAIN queue' : \/ Old(queue'[i])
                                 \/ \E s \in present : queue'[i] = StateChange(s)
                                 \/ queue'[i] = NotifyTermination
    <2>1. queue \o r \in Seq(Handler)
      BY <1>0, <1>4, QueueOps
    <2>2. \A i \in DOMAIN (queue \o r) : \/ i \in DOMAIN queue /\ (queue \o r)[i] = queue[i]
                                         \/ \E s \in present : (queue \o r)[i] = StateChange(s)
      BY <1>0, <1>4, Positions
    <2> QED BY <1>0, <1>1, <1>3, <2>1, <2>2, Positions DEF Old
  <1>6. \A s \in Services : child'[s] = "DEAD" => child[s] = "DEAD" /\ s \notin present
    BY <1>2
  <1>7. ASSUME NEW t \in Services, Settled(t), NEW i \in DOMAIN queue'
        PROVE  Harmless(queue[i], t)'
    <2>1. CASE Old(queue'[i])
      <3>1. PICK j \in DOMAIN queue : queue'[i] = queue[j]
        BY <2>1 DEF Old
      <3>2. Harmless(queue[j], t)
        BY <1>7 DEF Settled
      <3> QED BY <1>2, <1>6, <3>1, <3>2 DEF Harmless
    <2>2. CASE (\E s \in present : queue'[i] = StateChange(s)) \/ queue'[i] = NotifyTermination
      BY <1>6, <2>2 DEF Harmless, StateChange, NotifyTermination
    <2> QED BY <1>5, <2>1, <2>2
  <1>8. \A i \in DOMAIN queue' : queue'[i].kind = "terminateDependencies" => Old(queue'[i])
    BY <1>5 DEF StateChange, NotifyTermination
  <1> QED BY <1>2, <1>7, <1>8 DEF Keeps, Settled, TimerAlone

\* A report in the first run.
LEMMA StateChangeCbKeeps ==
  ASSUME RestartInv, RestartInv', daemon = "up", starts = 1, \A t \in Services : TimerAlone(t),
         NEW s \in Services, NEW st, queue # << >>, StateChangeCb(s, st, Tail(queue)),
         Settled(s) /\ state # "TERMINARED" => st # "DEAD"
  PROVE  Keeps
  <1> USE DEF progress, services, host
  <1> DEFINE q == Tail(queue)
  <1>0. TypeOK /\ q \in Seq(Handler) /\ \A i \in DOMAIN q : Old(q[i])
    <2>1. TypeOK /\ queue \in Seq(Handler)
      BY DEF RestartInv, OrderInv, TypeOK
    <2> QED BY <2>1, Positions, QueueOps DEF Old
  <1>1. StateChangeCb(s, st, q) /\ daemon' = daemon /\ starts' = starts
    BY DEF StateChangeCb
  <1> HIDE DEF q
  <1>2. CASE StartupDone(s, st, q) \/ RememberReady(s, st, q) \/ ReportIgnored(st, q)
    <2>1. /\ queue' = q /\ UNCHANGED <<child, hasPid, restartTimer>>
          /\ state = "TERMINARED" => state' = "TERMINARED"
      BY <1>2 DEF StartupDone, RememberReady, ReportIgnored
    <2>2. \A t \in Services : Spares(t)
      BY <1>0, <2>1 DEF Spares
    <2> QED BY <1>0, <2>1, <2>2, Spared DEF Keeps
  <1>3. CASE StartDependents(s, st, q)
    <2> DEFINE S == Freed(startupMap, s)
    <2>1. S \in SUBSET Services /\ S \cap started = {} /\ Launch(S, q)
      BY <1>3 DEF StartDependents, Freed, RestartInv, OrderInv, StartupMapFollowsReports
    <2>2. restartTimer' = restartTimer /\ state = "STARTING" /\ state' = state
      BY <1>3 DEF StartDependents
    <2>3. S \ started = S
      BY <2>1
    <2> HIDE DEF S
    <2>4. \A i \in DOMAIN queue' : \/ i \in DOMAIN q /\ queue'[i] = q[i]
                                   \/ \E t \in S : queue'[i] = StateChange(t)
      BY <1>0, <2>1, LaunchContent
    <2>5. \A t \in Services \ S : child'[t] = child[t] /\ hasPid'[t] = hasPid[t]
      BY <1>0, <2>1, <2>3 DEF Launch, TypeOK
    <2>6. \A t \in Services \ S : Spares(t)
      BY <1>0, <2>2, <2>4, <2>5 DEF Spares, StateChange
    <2>7. \A t \in S : TimerAlone(t)'
      BY <1>0, <2>1, <2>2 DEF TypeOK, TimerAlone
    <2> QED BY <1>0, <2>2, <2>4, <2>6, <2>7, Spared DEF Keeps, StateChange
  <1>4. CASE GiveUp(s, st, q) \/ ArmRestart(s, st, q)
    <2> DEFINE m == MarkDangling(q, {s})
    <2>1. /\ queue' = m \/ queue' = Append(m, TerminateWithCleanup)
          /\ child' = [child EXCEPT ![s] = "NULL"] /\ hasPid' = [hasPid EXCEPT ![s] = FALSE]
          /\ \E b \in BOOLEAN : restartTimer' = [restartTimer EXCEPT ![s] = b]
          /\ state \in {"STARTING", "RUNNING"} /\ state' = state /\ st = "DEAD"
      BY <1>4 DEF GiveUp, ArmRestart, ResetServiceAndProcess
    <2>2. /\ m \in Seq(Handler)
          /\ \A i \in DOMAIN m : (m[i].kind = "dangling" /\ m[i].name = s) \/ Old(m[i])
      <3>1. m \in Seq(Handler)
        BY <1>0, MarkDanglingProperties DEF TypeOK
      <3>2. \A i \in DOMAIN m : \/ m[i].kind = "dangling" /\ m[i].name \in {s}
                                \/ i \in DOMAIN q /\ m[i] = q[i]
        BY <1>0, MarkedOrSame
      <3> QED BY <1>0, <3>1, <3>2
    <2> HIDE DEF m
    <2>3. \A i \in DOMAIN queue' : \/ queue'[i].kind = "dangling" /\ queue'[i].name = s
                                   \/ queue'[i].kind = "cleanup"
                                   \/ Old(queue'[i])
      BY <2>1, <2>2, HandlerMembers DEF TerminateWithCleanup
    <2>4. \A t \in Services \ {s} : Spares(t)
      BY <1>0, <2>1, <2>3 DEF Spares, TypeOK
    <2>5. ~Settled(s)
      BY <2>1
    <2>6. TimerAlone(s)'
      <3>1. Disciplined'
        BY <1>1, <2>1 DEF RestartInv, FirstRun
      <3> QED BY <3>1 DEF Disciplined, Fits, TimerAlone, RestartTimeout
    <2> QED BY <2>1, <2>3, <2>4, <2>5, <2>6, Spared DEF Keeps
  <1> QED BY <1>1, <1>2, <1>3, <1>4 DEF StateChangeCb

LEMMA RunHandlerKeeps ==
  ASSUME RestartInv, RestartInv', daemon = "up", starts = 1, \A t \in Services : TimerAlone(t),
         RunHandler, daemon' = "up"
  PROVE  Keeps
  <1> USE DEF progress, services, host
  <1> DEFINE q == Tail(queue)
             s == Head(queue).name
  <1>0. TypeOK /\ queue # << >>
    BY DEF RestartInv, OrderInv, RunHandler, ReportHandler, StaleReportHandler, UseAfterFree,
           RestartTimeoutHandler, MapCorruption, SignalHandler, NullDereference,
           NotifyTerminationHandler, CleanupHandler, Running
  <1>1. /\ q \in Seq(Handler) /\ \A i \in DOMAIN q : Old(q[i])
        /\ 1 \in DOMAIN queue /\ Head(queue) = queue[1] /\ Head(queue) \in Handler
    <2>1. queue \in Seq(Handler)
      BY <1>0 DEF TypeOK
    <2> QED BY <1>0, <2>1, Positions, QueueOps DEF Old
  <1>2. CASE ReportHandler
    <2>1. /\ Head(queue).kind = "stateChange" /\ s \in Services
          /\ StateChangeCb(s, child[s], Tail(queue))
      BY <1>1, <1>2, HandlerNames DEF ReportHandler, Running
    <2>2. Settled(s) /\ state # "TERMINARED" => child[s] # "DEAD"
      BY <1>1, <2>1 DEF Settled, Harmless
    <2> HIDE DEF s
    <2> QED BY <1>0, <2>1, <2>2, StateChangeCbKeeps
  <1>3. CASE StaleReportHandler
    <2>1. /\ Head(queue).kind = "dangling" /\ s \in Services
          /\ StateChangeCb(s, Head(queue).last, Tail(queue))
      BY <1>1, <1>3, HandlerNames DEF StaleReportHandler, Running
    <2>2. Settled(s) => state = "TERMINARED"
      BY <1>1, <2>1 DEF Settled, Harmless
    <2> HIDE DEF s
    <2> QED BY <1>0, <2>1, <2>2, StateChangeCbKeeps
  <1>4. CASE RestartTimeoutHandler
    <2>1. PICK r \in Services :
            /\ Head(queue).kind = "restart" /\ r = Head(queue).name
            /\ child' = [child EXCEPT ![r] = InitialState(r)]
            /\ hasPid' = [hasPid EXCEPT ![r] = TRUE]
            /\ queue' = Append(MarkDangling(q, {r}), StateChange(r))
            /\ UNCHANGED <<state, restartTimer>>
      BY <1>1, <1>4, HandlerNames DEF RestartTimeoutHandler, Running
    <2> DEFINE m == MarkDangling(q, {r})
    <2>2. Head(queue) = RestartTimeout(r)
      BY <1>1, <2>1 DEF Handler, RestartTimeout
    <2>3. ~Settled(r) /\ ~restartTimer[r]
      BY <1>1, <2>1, <2>2 DEF Settled, Harmless, TimerAlone
    <2> HIDE DEF q
    <2>4. m \in Seq(Handler)
      BY <1>0, <1>1, MarkDanglingProperties DEF TypeOK
    <2>5. \A i \in DOMAIN m : (m[i].kind = "dangling" /\ m[i].name = r) \/ Old(m[i])
      <3>1. \A i \in DOMAIN m : \/ m[i].kind = "dangling" /\ m[i].name \in {r}
                                \/ i \in DOMAIN q /\ m[i] = q[i]
        BY <1>1, MarkedOrSame
      <3> QED BY <1>1, <3>1
    <2>6. queue' = Append(m, StateChange(r)) /\ UNCHANGED <<state, restartTimer>>
      BY <2>1
    <2> HIDE DEF m
    <2>7. \A i \in DOMAIN queue' : \/ queue'[i].kind = "dangling" /\ queue'[i].name = r
                                   \/ queue'[i] = StateChange(r)
                                   \/ Old(queue'[i])
      BY <2>4, <2>5, <2>6, HandlerMembers
    <2>8. \A t \in Services \ {r} : child'[t] = child[t] /\ (hasPid'[t] => hasPid[t])
      BY <1>0, <2>1 DEF TypeOK
    <2>9. \A t \in Services \ {r} : Spares(t)
      BY <2>6, <2>7, <2>8 DEF Spares, StateChange
    <2>10. TimerAlone(r)'
      BY <2>3, <2>6 DEF TimerAlone
    <2> QED BY <2>3, <2>6, <2>7, <2>9, <2>10, Spared DEF Keeps, StateChange
  <1>5. CASE SignalHandler
    <2>1. \A i \in DOMAIN queue' : \/ Old(queue'[i])
                                   \/ \E t \in zombies \cap Services : queue'[i] = StateChange(t)
      BY <1>1, <1>5, SignalHandlerKeeps
    <2>2. /\ \A t \in Services \ zombies : child'[t] = child[t]
          /\ \A t \in Services : hasPid'[t] => hasPid[t]
          /\ UNCHANGED <<state, restartTimer>>
      BY <1>5 DEF SignalHandler
    <2>3. \A t \in Services \ zombies : Spares(t)
      BY <2>1, <2>2 DEF Spares, StateChange
    <2>4. \A t \in zombies \cap Services : hasPid[t] /\ child[t] # "NULL"
      BY <1>0 DEF TypeOK
    <2>5. \A t \in zombies \cap Services : ~Settled(t) /\ TimerAlone(t)'
      BY <2>2, <2>4 DEF Settled, TimerAlone
    <2> HIDE DEF q, s
    <2> QED BY <2>1, <2>2, <2>3, <2>5, Spared DEF Keeps, StateChange
  <1>6. CASE NotifyTerminationHandler
    <2>1. queue' = q /\ UNCHANGED <<state, child, hasPid, restartTimer>>
      BY <1>6 DEF NotifyTerminationHandler
    <2>2. \A t \in Services : Spares(t)
      BY <1>1, <2>1 DEF Spares
    <2> HIDE DEF q
    <2> QED BY <1>1, <2>1, <2>2, Spared DEF Keeps
  <1>7. ~UseAfterFree /\ ~MapCorruption /\ ~NullDereference /\ ~CleanupHandler
    BY DEF UseAfterFree, MapCorruption, NullDereference, CleanupHandler
  <1> QED BY <1>2, <1>3, <1>4, <1>5, <1>6, <1>7 DEF RunHandler

\* A child is DEAD only when its process has been reaped.
LEMMA DeadHaveNoProcess ==
  ASSUME TypeOK, \A s \in Services : child[s] = "DEAD" => ~hasPid[s], Host \/ World \/ RunHandler
  PROVE  \A s \in Services : child'[s] = "DEAD" => ~hasPid'[s]
  <1> USE DEF progress, services, host
  <1> DEFINE Goal == \A s \in Services : child'[s] = "DEAD" => ~hasPid'[s]
  <1>1. ASSUME NEW S, NEW q, Launch(S, q)
        PROVE  Goal
    BY <1>1 DEF Launch, InitialState
  <1>2. ASSUME NEW q, MapClear(q)
        PROVE  Goal
    BY <1>2 DEF MapClear
  <1>3. ASSUME UNCHANGED <<child, hasPid>>
        PROVE  Goal
    BY <1>3
  <1>4. ASSUME NEW s, NEW st, NEW q, StateChangeCb(s, st, q)
        PROVE  Goal
    <2>1. CASE GiveUp(s, st, q) \/ ArmRestart(s, st, q)
      BY <2>1 DEF GiveUp, ArmRestart, ResetServiceAndProcess, TypeOK
    <2> QED BY <1>1, <1>3, <1>4, <2>1
            DEF StateChangeCb, StartupDone, StartDependents, RememberReady, ReportIgnored
  <1>5. CASE Host
    <2>1. CASE StartTerminating
      BY <2>1 DEF StartTerminating
    <2> QED BY <1>1, <1>2, <1>5, <2>1 DEF Host, Start, StartTerminatingWhileStarting,
            HostForceTerminate, ForceTerminate
  <1>6. CASE World
    <2>1. ASSUME NEW s \in Services, ChildReady(s) \/ ChildTimeout(s)
          PROVE  Goal
      BY <2>1 DEF ChildReady, ChildTimeout, SetProcessState, TypeOK
    <2> QED BY <1>3, <1>6, <2>1 DEF World, ChildExit, AdoptedExit, Exits, RestartTimerExpires,
            MinutePasses
  <1>7. CASE RunHandler
    <2>1. CASE RestartTimeoutHandler
      BY <2>1 DEF RestartTimeoutHandler, InitialState, TypeOK
    <2>2. CASE SignalHandler
      BY <2>2 DEF SignalHandler
    <2>3. CASE ReportHandler \/ StaleReportHandler
      BY <1>4, <2>3 DEF ReportHandler, StaleReportHandler
    <2>4. CASE CleanupHandler
      BY <1>2, <2>4 DEF CleanupHandler
    <2> QED BY <1>3, <1>7, <2>1, <2>2, <2>3, <2>4
            DEF RunHandler, UseAfterFree, MapCorruption, NullDereference, NotifyTerminationHandler
  <1> QED BY <1>5, <1>6, <1>7

\* Every step but those that walk and start() is one of module
\* ProcessServiceManager and leaves the terminalMap alone.
OtherStep ==
  /\ daemon = "up" /\ UNCHANGED <<terminalMap, overtaken>>
  /\ StartTerminating \/ StartTerminatingWhileStarting \/ HostForceTerminate \/ World \/ RunHandler

LEMMA OtherStepKeeps ==
  ASSUME RestartInv, RestartInv', OtherStep, starts = 1, \A t \in Services : TimerAlone(t),
         daemon' = "up"
  PROVE  Keeps
  <1>1. TypeOK
    BY DEF RestartInv, OrderInv
  <1> QED BY <1>1, StartTerminatingKeeps, ForceTerminateKeeps, WorldKeeps, RunHandlerKeeps
          DEF OtherStep, StartTerminatingWhileStarting, HostForceTerminate

LEMMA OtherStepHost ==
  ASSUME OtherStep
  PROVE  starts' = starts /\ (state' = "STARTING" => state = "STARTING") /\ Next
  <1> USE DEF progress, services, host
  <1>1. Next
    BY DEF OtherStep, Next, Host
  <1>2. starts' = starts /\ (state' = "STARTING" => state = "STARTING")
    BY DEF OtherStep, StartTerminating, StartTerminatingWhileStarting, HostForceTerminate,
           ForceTerminate, World, ChildReady, ChildTimeout, SetProcessState, ChildExit, AdoptedExit,
           Exits, RestartTimerExpires, MinutePasses, RunHandler, ReportHandler, StaleReportHandler,
           StateChangeCb, StartupDone, StartDependents, RememberReady, GiveUp, ArmRestart,
           ReportIgnored, UseAfterFree, RestartTimeoutHandler, MapCorruption, SignalHandler,
           NullDereference, NotifyTerminationHandler, CleanupHandler
  <1> QED BY <1>1, <1>2

LEMMA OtherStepReverseInv ==
  ASSUME ReverseInv, OtherStep
  PROVE  ReverseInv'
  <1>1. RestartInv' /\ TypeOK
    BY OtherStepHost, StepRestart DEF ReverseInv, RestartInv, OrderInv
  <1>2. /\ terminalMap' \in [Services -> SUBSET Services]
        /\ starts' = 0 => \A s \in Services : terminalMap'[s] = {}
    BY OtherStepHost DEF ReverseInv, OtherStep
  <1>3. \A s \in Services : child'[s] = "DEAD" => ~hasPid'[s]
    BY <1>1, OtherStepHost, DeadHaveNoProcess DEF ReverseInv, Next
  <1>4. ASSUME daemon' = "up", starts' = 1
        PROVE  GoneStayGone'
    <2>1. daemon = "up" /\ starts = 1 /\ GoneStayGone
      BY <1>4, OtherStepHost DEF OtherStep, ReverseInv
    <2>2. Keeps
      BY <1>1, <1>4, <2>1, OtherStepKeeps DEF ReverseInv, GoneStayGone
    <2>3. TakenForGone' \subseteq TakenForGone
      <3>1. ASSUME NEW t \in Services, NEW i \in DOMAIN queue', queue'[i] = TerminateDependencies(t)
            PROVE  t \in TakenForGone
        <4>1. Old(queue'[i])
          BY <2>2, <3>1 DEF Keeps, TerminateDependencies
        <4> QED BY <3>1, <4>1 DEF Old, TakenForGone
      <3> QED BY <3>1 DEF OtherStep, TakenForGone
    <2>4. TakenForGone # {} => state # "STARTING" /\ state' # "STARTING"
      BY <2>1, OtherStepHost DEF GoneStayGone
    <2>5. \A t \in TakenForGone' \ overtaken' : Settled(t)'
      <3>1. \A t \in TakenForGone : t \in Services
        BY DEF TakenForGone
      <3>2. overtaken' = overtaken
        BY DEF OtherStep
      <3> QED BY <2>1, <2>2, <2>3, <2>4, <3>1, <3>2 DEF GoneStayGone, Keeps
    <2> QED BY <2>2, <2>3, <2>4, <2>5 DEF GoneStayGone, Keeps
  <1> QED BY <1>1, <1>2, <1>3, <1>4 DEF ReverseInv

\* The first start() makes the terminalMap; nobody is taken for gone then.
LEMMA StartReverseInv ==
  ASSUME ReverseInv, daemon = "up", StartWithTerminalMap
  PROVE  ReverseInv'
  <1>0. Start /\ terminalMap' = StopAfter /\ Next
    BY DEF StartWithTerminalMap, Next, Host
  <1>1. RestartInv' /\ TypeOK /\ RestartInv
    BY <1>0, StepRestart DEF ReverseInv, RestartInv, OrderInv
  <1>2. /\ terminalMap' \in [Services -> SUBSET Services]
        /\ starts' # 0
    BY <1>0, <1>1, BoundsAssumption DEF StopAfter, Start, TypeOK
  <1>3. \A s \in Services : child'[s] = "DEAD" => ~hasPid'[s]
    BY <1>0, <1>1, DeadHaveNoProcess DEF ReverseInv, Next
  <1>4. ASSUME daemon' = "up", starts' = 1
        PROVE  GoneStayGone'
    <2> DEFINE S == {s \in Services : StartAfter[s] = {}}
    <2>1. starts = 0 /\ started = {}
      BY <1>0, <1>1, <1>4, BoundsAssumption DEF Start, TypeOK, RestartInv, OrderInv
    <2>2. S \in SUBSET Services /\ S \cap started = {} /\ Launch(S, queue) /\ queue \in Seq(Handler)
      BY <1>0, <1>1, <2>1 DEF Start, TypeOK
    <2> HIDE DEF S
    <2>3. \A i \in DOMAIN queue' : \/ i \in DOMAIN queue /\ queue'[i] = queue[i]
                                   \/ \E s \in S : queue'[i] = StateChange(s)
      <3>1. TypeOK /\ S \in SUBSET Services /\ S \cap started = {} /\ queue \in Seq(Handler)
            /\ Launch(S, queue)
        BY <1>1, <2>2
      <3> QED BY <3>1, LaunchContent
    <2>4. \A i \in DOMAIN queue' : queue'[i].kind # "terminateDependencies"
      BY <1>1, <2>1, <2>3 DEF RestartInv, NothingQueued, StateChange
    <2>5. TakenForGone' = {}
      BY <1>0, <2>4 DEF TakenForGone, TerminateDependencies, StopAfter
    <2>6. \A s \in Services : ~restartTimer'[s]
      BY <1>0, <1>1, <2>1 DEF Start, TypeOK
    <2> QED BY <2>5, <2>6 DEF GoneStayGone, TimerAlone
  <1> QED BY <1>1, <1>2, <1>3, <1>4 DEF ReverseInv

-----------------------------------------------------------------------------
(* The theorems.                                                           *)

LEMMA InitReverse == ReverseInit => ReverseInv
  <1> SUFFICES ASSUME ReverseInit
               PROVE  ReverseInv
    OBVIOUS
  <1>1. RestartInv
    BY InitRestart DEF ReverseInit
  <1>2. starts = 0 /\ terminalMap = [s \in Services |-> {}] /\ \A s \in Services : child[s] = "NULL"
    BY DEF ReverseInit, Init
  <1> QED BY <1>1, <1>2 DEF ReverseInv

\* The steps of ReverseNext.
LEMMA ReverseCases ==
  ASSUME ReverseNext
  PROVE  /\ daemon = "up"
         /\ \/ StartWithTerminalMap
            \/ StartTerminatingInReverse \/ TerminateDependenciesHandler
            \/ OtherStep
  BY DEF ReverseNext, OtherStep, Otherwise, StartTerminatingAtOnce

LEMMA StepReverse == ReverseInv /\ [ReverseNext]_reverseVars => ReverseInv'
  <1> SUFFICES ASSUME ReverseInv, [ReverseNext]_reverseVars
               PROVE  ReverseInv'
    OBVIOUS
  <1>1. CASE UNCHANGED reverseVars
    <2>1. RestartInv'
      BY <1>1, StepRestart DEF ReverseInv, reverseVars
    <2>2. UNCHANGED <<daemon, state, starts, child, hasPid, restartTimer, queue, terminalMap, overtaken>>
      BY <1>1 DEF reverseVars, vars, progress, services, host
    <2>3. GoneStayGone => GoneStayGone'
      BY <2>2 DEF GoneStayGone, TimerAlone, TakenForGone, Settled, Harmless
    <2> QED BY <2>1, <2>2, <2>3 DEF ReverseInv
  <1>2. CASE ReverseNext
    <2>1. CASE StartWithTerminalMap
      BY <1>2, <2>1, ReverseCases, StartReverseInv
    <2>2. CASE OtherStep
      BY <2>2, OtherStepReverseInv
    <2>3. CASE StartTerminatingInReverse \/ TerminateDependenciesHandler
      <3>1. PICK m, P, q : WalkStep(m, P, q)
        BY <1>2, <2>3, ReverseCases, WalkingSteps
      <3> QED BY <1>2, <3>1, ReverseCases, CommitReverseInv DEF WalkStep
    <2> QED BY <1>2, <2>1, <2>2, <2>3, ReverseCases
  <1> QED BY <1>1, <1>2

\* Nobody but the walks and startTerminating() tells a service to stop.
LEMMA OthersTellNobody ==
  ASSUME TypeOK, Start \/ Otherwise, NEW s \in Services, child[s] # "TERMINATING"
  PROVE  child'[s] # "TERMINATING"
  <1> USE DEF progress, services, host
  <1>1. ASSUME NEW S, NEW q, Launch(S, q)
        PROVE  child'[s] # "TERMINATING"
    BY <1>1 DEF Launch, InitialState
  <1>2. ASSUME NEW q, MapClear(q)
        PROVE  child'[s] # "TERMINATING"
    BY <1>2 DEF MapClear
  <1>3. ASSUME NEW t, NEW st, NEW q, StateChangeCb(t, st, q)
        PROVE  child'[s] # "TERMINATING"
    <2>1. CASE GiveUp(t, st, q) \/ ArmRestart(t, st, q)
      BY <2>1 DEF GiveUp, ArmRestart, ResetServiceAndProcess, TypeOK
    <2> QED BY <1>1, <1>3, <2>1
            DEF StateChangeCb, StartupDone, StartDependents, RememberReady, ReportIgnored
  <1>4. CASE World
    <2>1. ASSUME NEW t \in Services, ChildReady(t) \/ ChildTimeout(t)
          PROVE  child'[s] # "TERMINATING"
      BY <2>1 DEF ChildReady, ChildTimeout, SetProcessState, TypeOK
    <2> QED BY <1>4, <2>1 DEF World, ChildExit, AdoptedExit, Exits, RestartTimerExpires,
            MinutePasses
  <1>5. CASE RunHandler
    <2>1. CASE RestartTimeoutHandler
      BY <2>1 DEF RestartTimeoutHandler, InitialState, TypeOK
    <2>2. CASE SignalHandler
      BY <2>2 DEF SignalHandler, StateAfterExit
    <2>3. CASE ReportHandler \/ StaleReportHandler
      BY <1>3, <2>3 DEF ReportHandler, StaleReportHandler
    <2>4. CASE CleanupHandler
      BY <1>2, <2>4 DEF CleanupHandler
    <2> QED BY <1>5, <2>1, <2>2, <2>3, <2>4
            DEF RunHandler, UseAfterFree, MapCorruption, NullDereference, NotifyTerminationHandler
  <1> QED BY <1>1, <1>2, <1>4, <1>5 DEF Start, Otherwise, StartTerminatingWhileStarting,
          HostForceTerminate, ForceTerminate

\* The order of a termination, for every graph and every order in which the maps
\* are walked (startTerminating() and terminateDependencyServices()).
THEOREM ServicesStopInReverse == ReverseSpec => StopsInReverse
  <1> DEFINE A == \A s \in Services :
                    child[s] # "TERMINATING" /\ child'[s] = "TERMINATING" /\ starts' = 1 =>
                      \A t \in StopAfter[s] \ overtaken' : ~hasPid[t]
  <1>1. ASSUME ReverseInv, [ReverseNext]_reverseVars
        PROVE  [A]_reverseVars
    <2> SUFFICES ASSUME ReverseNext, NEW s \in Services, child[s] # "TERMINATING",
                        child'[s] = "TERMINATING", starts' = 1, NEW t \in StopAfter[s] \ overtaken'
                 PROVE  ~hasPid[t]
      BY <1>1
    <2>0. TypeOK /\ daemon = "up"
      BY <1>1 DEF ReverseInv, RestartInv, OrderInv, ReverseNext
    <2>1. CASE StartTerminatingInReverse \/ TerminateDependenciesHandler
      <3>1. PICK m, P, q : WalkStep(m, P, q)
        BY <1>1, <2>0, <2>1, WalkingSteps
      <3>2. starts = 1
        BY <3>1 DEF WalkStep, Commit
      <3> QED BY <1>1, <2>0, <3>1, <3>2, CommitStopsInReverse DEF WalkStep
    <2>2. CASE StartTerminatingAtOnce /\ UNCHANGED <<terminalMap, overtaken>>
      <3>1. starts = 1 /\ terminalMap[s] = {} /\ t \in Services
        BY <2>2 DEF StartTerminatingAtOnce, StartTerminating, StopAfter
      <3>2. t \in TakenForGone \ overtaken
        BY <2>2, <3>1 DEF TakenForGone
      <3> QED BY <1>1, <2>0, <3>1, <3>2 DEF ReverseInv, GoneStayGone, Settled
    <2>3. CASE StartWithTerminalMap \/ Otherwise
      BY <2>0, <2>3, OthersTellNobody DEF StartWithTerminalMap
    <2> QED BY <2>1, <2>2, <2>3 DEF ReverseNext
  <1> QED BY <1>1, InitReverse, StepReverse, PTL DEF ReverseSpec, StopsInReverse

\* The walks keep the discipline of the restarts too.
THEOREM RestartsAreExclusiveInReverse == ReverseSpec => []RestartExclusive
  <1>1. ReverseInv => RestartExclusive
    BY DisciplineMakesExclusive DEF ReverseInv
  <1> QED BY <1>1, InitReverse, StepReverse, PTL DEF ReverseSpec
=============================================================================
