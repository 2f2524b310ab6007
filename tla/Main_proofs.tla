------------------------------ MODULE Main_proofs ------------------------------
(***************************************************************************)
(* Proofs about Main, for every directory, every set of texts of durations   *)
(* and every width of the numbers: what the manager is constructed with.     *)
(***************************************************************************)
EXTENDS Main, FiniteSetTheorems, TLAPS

LEMMA SmallRemainder ==
  ASSUME NEW n \in Nat, NEW m \in Nat, n < m
  PROVE  n % m = n
  OBVIOUS

\* What fits is not changed by the arithmetic.
LEMMA WrapOfWhatFits ==
  ASSUME NEW n \in Nat, n <= LongMax
  PROVE  Wrap(n) = n
  <1>1. /\ LongMax \in Nat /\ n + LongMax + 1 \in Nat /\ 2 * (LongMax + 1) \in Nat
        /\ n + LongMax + 1 < 2 * (LongMax + 1)
    BY LongAssumption
  <1>2. (n + LongMax + 1) % (2 * (LongMax + 1)) = n + LongMax + 1
    BY <1>1, SmallRemainder
  <1> QED BY <1>1, <1>2 DEF Wrap

\* The product of a quantity and a unit is positive before it wraps.
LEMMA ProductIsPositive ==
  ASSUME NEW text \in Text, IsDuration(text)
  PROVE  Product(text) \in Nat \ {0}
  <1>1. text.quantity \in Nat \ {0}
    <2>1. text.quantity \in 1..LongMax
      BY DEF IsDuration
    <2>2. ASSUME NEW q \in 1..LongMax
          PROVE  q \in Nat \ {0}
      BY LongAssumption
    <2> QED BY <2>1, <2>2
  <1>2. Unit(text) \in Units
    BY DEF IsDuration, Unit, Units
  <1>3. UnitNs[Unit(text)] \in Nat \ {0}
    BY <1>2, UnitAssumption
  <1>4. ASSUME NEW a \in Nat \ {0}, NEW b \in Nat \ {0}
        PROVE  a * b \in Nat \ {0}
    OBVIOUS
  <1> QED BY <1>1, <1>3, <1>4 DEF Product

\* A duration is positive, or its product did not fit.
LEMMA DurationIsPositive ==
  ASSUME NEW t \in DOMAIN DurationOf
  PROVE  DurationOf[t] > 0 \/ Overflows(DurationOf[t])
  <1>1. t \in DurationTexts /\ IsDuration(t) /\ DurationOf[t] = ParseDuration(t)
    BY DEF DurationOf
  <1>2. t \in Text
    BY <1>1, TextsAssumption
  <1>3. CASE Fits(t)
    <2>1. ParseDuration(t) = Product(t)
      BY <1>1, <1>2, <1>3, ProductIsPositive, WrapOfWhatFits DEF Fits, ParseDuration
    <2> QED BY <1>1, <1>2, <2>1, ProductIsPositive
  <1>4. CASE ~Fits(t)
    BY <1>1, <1>4 DEF Overflows
  <1> QED BY <1>3, <1>4

-----------------------------------------------------------------------------
Usable(heartbeat) ==
  /\ heartbeat.failureThreshold >= 1
  /\ heartbeat.interval > 0 \/ Overflows(heartbeat.interval)

LEMMA HeartbeatIsUsable ==
  ASSUME NEW tree, IsHeartbeat(tree)
  PROVE  Usable(Heartbeat(tree))
  <1>1. /\ tree["interval"] \in DOMAIN DurationOf
        /\ tree["failureThreshold"] \in DOMAIN IntValue
        /\ IntValue[tree["failureThreshold"]] > 0
    BY DEF IsHeartbeat, Has, Get
  <1>2. IntValue[tree["failureThreshold"]] >= 1
    BY <1>1, IntAssumption
  <1>3. /\ Heartbeat(tree).interval = DurationOf[tree["interval"]]
        /\ Heartbeat(tree).failureThreshold = IntValue[tree["failureThreshold"]]
    BY DEF Heartbeat, Get
  <1> QED BY <1>1, <1>2, <1>3, DurationIsPositive DEF Usable

LEMMA ServiceIsUsable ==
  ASSUME NEW tree, IsService(tree), NEW i \in DOMAIN Service(tree).heartbeat
  PROVE  Usable(Service(tree).heartbeat[i])
  <1>1. Service(tree).heartbeat = IF "heartbeat" \in DOMAIN tree
                                  THEN <<Heartbeat(tree.heartbeat)>> ELSE << >>
    BY DEF Service
  <1>2. "heartbeat" \in DOMAIN tree
    BY <1>1
  <1>3. Service(tree).heartbeat[i] = Heartbeat(tree.heartbeat)
    BY <1>1, <1>2
  <1> QED BY <1>2, <1>3, HeartbeatIsUsable DEF IsService

-----------------------------------------------------------------------------
\* Every service comes from a tree that was accepted; what is done after the
\* validation is done with what was validated.
Parsed == \A n \in DOMAIN services : \E tree : services[n] = Service(tree) /\ IsService(tree)

Validated ==
  /\ pc \in {"prctl", "manager", "return"} => IsAccepted
  /\ manager # << >> => manager = <<services>> /\ pc = "return"

LEMMA AddParsed ==
  ASSUME Parsed, NEW tree, NEW name, IsService(tree), services' = Add(name, Service(tree))
  PROVE  Parsed'
  <1> SUFFICES ASSUME NEW n \in DOMAIN services'
               PROVE  \E t : services'[n] = Service(t) /\ IsService(t)
    BY DEF Parsed
  <1>1. CASE n = name
    <2>1. services'[n] = Service(tree)
      BY <1>1 DEF Add
    <2> QED BY <2>1
  <1>2. CASE n # name
    <2>1. n \in DOMAIN services /\ services'[n] = services[n]
      BY <1>2 DEF Add
    <2> QED BY <2>1 DEF Parsed
  <1> QED BY <1>1, <1>2

LEMMA ParseStep ==
  ASSUME Parsed, Validated, ParseConfigureFromDirectory, UNCHANGED manager
  PROVE  Parsed' /\ Validated'
  <1>1. pc \in {"list", "files", "entries"} /\ pc' \in {"list", "files", "entries", "parsed"}
    BY DEF ParseConfigureFromDirectory, ListFiles, ReadFile, AddProcessService, SetLogger,
           SkipEntry, FileDone, FilesDone, NextEntry, Throw
  <1>2. Validated'
    BY <1>1 DEF Validated
  <1>3. CASE AddProcessService
    <2> DEFINE tree == Head(entries).tree
    <2>1. \/ UNCHANGED services
          \/ IsService(tree) /\ services' = Add(tree.name, Service(tree))
      BY <1>3 DEF AddProcessService
    <2>2. CASE IsService(tree) /\ services' = Add(tree.name, Service(tree))
      BY <1>2, <2>2, AddParsed
    <2>3. CASE UNCHANGED services
      BY <1>2, <2>3 DEF Parsed
    <2> QED BY <2>1, <2>2, <2>3
  <1>4. CASE ~AddProcessService
    <2>1. \/ ListFiles \/ ReadFile \/ SetLogger \/ SkipEntry \/ FileDone \/ FilesDone
      BY <1>4 DEF ParseConfigureFromDirectory
    <2>2. UNCHANGED services
      <3>1. CASE ListFiles BY <3>1 DEF ListFiles, conf
      <3>2. CASE ReadFile  BY <3>2 DEF ReadFile
      <3>3. CASE SetLogger BY <3>3 DEF SetLogger
      <3>4. CASE SkipEntry BY <3>4 DEF SkipEntry, conf
      <3>5. CASE FileDone  BY <3>5 DEF FileDone, conf
      <3>6. CASE FilesDone BY <3>6 DEF FilesDone, conf
      <3> QED BY <2>1, <3>1, <3>2, <3>3, <3>4, <3>5, <3>6
    <2> QED BY <1>2, <2>2 DEF Parsed
  <1> QED BY <1>3, <1>4

LEMMA MainStep == Parsed /\ Validated /\ [Next]_mainVars => Parsed' /\ Validated'
  <1> SUFFICES ASSUME Parsed, Validated, [Next]_mainVars
               PROVE  Parsed' /\ Validated'
    OBVIOUS
  <1>1. CASE ParseConfigureFromDirectory /\ UNCHANGED manager
    BY <1>1, ParseStep
  <1>2. CASE UNCHANGED services
    <2>1. Parsed' /\ (IsAccepted => IsAccepted')
      BY <1>2 DEF Parsed, IsAccepted, StartAfter, Dependents
    <2>2. CASE CreateServiceDependencyGraph
      BY <2>1, <2>2 DEF CreateServiceDependencyGraph, Throw, Validated
    <2>3. CASE BecomeSubreaper
      BY <2>1, <2>3 DEF BecomeSubreaper, Validated
    <2>4. CASE ConstructManager
      BY <1>2, <2>1, <2>4 DEF ConstructManager, Validated
    <2>5. CASE Return \/ UNCHANGED mainVars
      BY <1>2, <2>1, <2>5 DEF Return, mainVars, vars, Validated
    <2> QED BY <1>1, <2>2, <2>3, <2>4, <2>5 DEF Next
  <1> QED BY <1>1, <1>2 DEF Next, CreateServiceDependencyGraph, BecomeSubreaper, ConstructManager,
             Return, conf, mainVars, vars

\* Whatever the directory holds, a manager is only constructed with services it
\* can rely on.
THEOREM ManagerRelies == Spec => []ManagerCanRelyOnIt
  <1>1. MainInit => Parsed /\ Validated
    BY DEF MainInit, Init, Parsed, Validated
  <1>2. Parsed /\ Validated => ManagerCanRelyOnIt
    <2> SUFFICES ASSUME Parsed, Validated, manager # << >>, NEW n \in DOMAIN manager[1]
                 PROVE  LET svc == manager[1][n]
                        IN  /\ ToSet(svc.startAfter) \subseteq DOMAIN manager[1] \ {n}
                            /\ IsInjective(svc.startAfter)
                            /\ \A i \in DOMAIN svc.heartbeat :
                                 /\ svc.heartbeat[i].failureThreshold >= 1
                                 /\ svc.heartbeat[i].interval > 0
                                      \/ Overflows(svc.heartbeat[i].interval)
      BY DEF ManagerCanRelyOnIt
    <2>1. manager[1] = services /\ IsAccepted
      BY DEF Validated
    <2>2. /\ ToSet(services[n].startAfter) \subseteq DOMAIN services \ {n}
          /\ IsInjective(services[n].startAfter)
      BY <2>1 DEF IsAccepted, StartAfter
    <2>3. PICK tree : services[n] = Service(tree) /\ IsService(tree)
      BY <2>1 DEF Parsed
    <2>4. \A i \in DOMAIN services[n].heartbeat : Usable(services[n].heartbeat[i])
      BY <2>3, ServiceIsUsable
    <2> QED BY <2>1, <2>2, <2>4 DEF Usable
  <1> QED BY <1>1, <1>2, MainStep, PTL DEF Spec

-----------------------------------------------------------------------------
(* The services are those of the entries that have been reached.           *)

\* Entry i of file f describes service n.
Describes(f, i, n) ==
  /\ f \in JsonFiles /\ i \in DOMAIN directory[f].entries
  /\ directory[f].entries[i].key = "processService"
  /\ "name" \in DOMAIN directory[f].entries[i].tree
  /\ directory[f].entries[i].tree.name = n

\* Entry i of file g is among the first k of file f, or in a file before that one.
Reached(f, k, g, i) == g < f \/ (g = f /\ i <= k)

\* The first description of service n.
IsFirst(f, i, n) ==
  /\ Describes(f, i, n)
  /\ \A g, j : Describes(g, j, n) => (g = f /\ j = i) \/ f < g \/ (f = g /\ i < j)

\* When the first k entries of file f have been read, and the files before it.
ReadUpTo(f, k) ==
  /\ \A n \in DOMAIN services :
       \E g, i : /\ IsFirst(g, i, n) /\ Reached(f, k, g, i)
                 /\ services[n] = Service(directory[g].entries[i].tree)
  /\ \A n, g, i : Describes(g, i, n) /\ Reached(f, k, g, i) => n \in DOMAIN services

\* The files that are left are those after file f, in their order.
LeftAfter(f) ==
  /\ files \in Seq(JsonFiles)
  /\ \A i, j \in DOMAIN files : i < j => files[i] < files[j]
  /\ \A g \in JsonFiles : g > f <=> \E i \in DOMAIN files : files[i] = g

\* The entries that are left are those after entry k of file f.
EntriesAfter(f, k) ==
  /\ entries \in Seq(ToSet(directory[f].entries))
  /\ Len(directory[f].entries) = k + Len(entries)
  /\ \A i \in DOMAIN entries : entries[i] = directory[f].entries[k + i]

Progress ==
  /\ directory \in Directories
  /\ pc = "list" => DOMAIN services = {}
  /\ pc \in {"files", "entries"} /\ outcome = "running" /\ ~partial =>
       \E f \in Nat : /\ LeftAfter(f)
                      /\ pc = "files" => ReadUpTo(f + 1, 0)
                      /\ pc = "entries" => /\ f \in JsonFiles
                                           /\ \E k \in Nat : EntriesAfter(f, k) /\ ReadUpTo(f, k)
  /\ pc \in {"parsed", "prctl", "manager", "return"} /\ ~partial =>
       \E f \in Nat : (\A g \in JsonFiles : g <= f) /\ ReadUpTo(f + 1, 0)

LEMMA DirectoryFacts ==
  ASSUME directory \in Directories
  PROVE  /\ JsonFiles \subseteq Nat \ {0} /\ IsFiniteSet(JsonFiles)
         /\ \A f \in JsonFiles : directory[f].entries \in Seq(ToSet(directory[f].entries))
         /\ \A f \in JsonFiles : \A i \in DOMAIN directory[f].entries :
              IsEntry(directory[f].entries[i])
  <1>1. directory \in Seq(ToSet(directory))
    BY DirectoriesAssumption
  <1>2. \A S : \A d \in Seq(S) : DOMAIN d = 1..Len(d) /\ Len(d) \in Nat
    OBVIOUS
  <1>3. DOMAIN directory = 1..Len(directory) /\ Len(directory) \in Nat
    BY <1>1, <1>2
  <1>4. IsFiniteSet(1..Len(directory))
    BY <1>3, FS_Interval
  <1>5. JsonFiles \subseteq DOMAIN directory
    BY DEF JsonFiles
  <1>6. IsFiniteSet(JsonFiles)
    BY <1>3, <1>4, <1>5, FS_Subset
  <1> QED BY <1>3, <1>5, <1>6, DirectoriesAssumption

\* The listing is complete and in order.
LEMMA SortedFilesAre ==
  ASSUME directory \in Directories, NEW l \in SortedFiles
  PROVE  /\ l \in Seq(JsonFiles)
         /\ \A i, j \in DOMAIN l : i < j => l[i] < l[j]
         /\ \A g \in JsonFiles : \E i \in DOMAIN l : l[i] = g
  <1> DEFINE n == Cardinality(JsonFiles)
  <1>1. l \in [1..n -> JsonFiles] /\ \A i, j \in 1..n : i # j => l[i] # l[j]
    BY DEF SortedFiles, SetToSeqs
  <1>2. IsFiniteSet(JsonFiles) /\ n \in Nat
    BY DirectoryFacts, FS_CardinalityType
  <1>3. l \in Injection(1..n, JsonFiles)
    BY <1>1 DEF Injection, IsInjective
  <1>4. Cardinality(1..n) = n
    BY <1>2, FS_Interval
  <1>5. l \in Surjection(1..n, JsonFiles)
    BY <1>2, <1>3, <1>4, FS_Injection
  <1>6. \A g \in JsonFiles : \E i \in 1..n : l[i] = g
    BY <1>5 DEF Surjection
  <1>7. DOMAIN l = 1..n
    BY <1>1
  <1>8. l \in Seq(JsonFiles)
    BY <1>1, <1>2
  <1>9. \A i, j \in DOMAIN l : i < j => l[i] < l[j]
    BY DEF SortedFiles
  <1> QED BY <1>6, <1>7, <1>8, <1>9

\* What was read depends on the directory and the services alone, and not on
\* where one counts from, as long as no description lies between.
LEMMA ReadUpToMoves ==
  ASSUME UNCHANGED <<directory, services>>, NEW f, NEW k, NEW h, NEW m, ReadUpTo(f, k),
         \A n, g, i : Describes(g, i, n) => (Reached(f, k, g, i) <=> Reached(h, m, g, i))
  PROVE  ReadUpTo(h, m)'
  <1>1. /\ \A g, i, n : Describes(g, i, n)' <=> Describes(g, i, n)
        /\ \A g, i, n : IsFirst(g, i, n)' <=> IsFirst(g, i, n)
    BY DEF Describes, IsFirst, JsonFiles
  <1>2. \A g, i : Reached(h, m, g, i)' <=> Reached(h, m, g, i)
    BY DEF Reached
  <1>3. ASSUME NEW n \in DOMAIN services
        PROVE  \E g, i : /\ IsFirst(g, i, n) /\ Reached(h, m, g, i)
                         /\ services[n] = Service(directory[g].entries[i].tree)
    <2>1. PICK g, i : /\ IsFirst(g, i, n) /\ Reached(f, k, g, i)
                      /\ services[n] = Service(directory[g].entries[i].tree)
      BY DEF ReadUpTo
    <2>2. Describes(g, i, n)
      BY <2>1 DEF IsFirst
    <2> QED BY <2>1, <2>2
  <1>4. ASSUME NEW n, NEW g, NEW i, Describes(g, i, n), Reached(h, m, g, i)
        PROVE  n \in DOMAIN services
    BY <1>4 DEF ReadUpTo
  <1> QED BY <1>1, <1>2, <1>3, <1>4 DEF ReadUpTo

\* An entry that describes a service not met before gives it to the services.
LEMMA ReadUpToAdds ==
  ASSUME directory \in Directories, UNCHANGED directory,
         NEW f \in Nat, NEW k \in Nat, ReadUpTo(f, k),
         NEW name, Describes(f, k + 1, name), name \notin DOMAIN services,
         services' = Add(name, Service(directory[f].entries[k + 1].tree))
  PROVE  ReadUpTo(f, k + 1)'
  <1>1. /\ \A g, i, n : Describes(g, i, n)' <=> Describes(g, i, n)
        /\ \A g, i, n : IsFirst(g, i, n)' <=> IsFirst(g, i, n)
    BY DEF Describes, IsFirst, JsonFiles
  <1>2. \A g, i, n : Describes(g, i, n) => g \in Nat /\ i \in Nat
    <2>1. ASSUME NEW g \in JsonFiles, NEW i \in DOMAIN directory[g].entries
          PROVE  g \in Nat /\ i \in Nat
      <3>1. directory[g].entries \in Seq(ToSet(directory[g].entries)) /\ g \in Nat
        BY DirectoryFacts
      <3>2. \A S : \A q \in Seq(S) : DOMAIN q \subseteq Nat
        OBVIOUS
      <3> QED BY <3>1, <3>2
    <2> QED BY <2>1 DEF Describes
  <1>3. \A n, g, i : Describes(g, i, n) =>
          (Reached(f, k + 1, g, i) <=> Reached(f, k, g, i) \/ (g = f /\ i = k + 1))
    BY <1>2 DEF Reached
  <1>4. /\ DOMAIN services' = DOMAIN services \cup {name}
        /\ services'[name] = Service(directory[f].entries[k + 1].tree)
        /\ \A n \in DOMAIN services : services'[n] = services[n]
    BY DEF Add
  <1>5. IsFirst(f, k + 1, name)
    <2>1. \A g, j : Describes(g, j, name) => ~Reached(f, k, g, j)
      BY DEF ReadUpTo
    <2> QED BY <1>2, <2>1 DEF IsFirst, Reached
  <1>6. \A n, g, i : (Describes(g, i, n) \/ IsFirst(g, i, n)) =>
          (Reached(f, k + 1, g, i)' <=> Reached(f, k, g, i) \/ (g = f /\ i = k + 1))
    BY <1>3 DEF IsFirst, Reached
  <1>7. ASSUME NEW n \in DOMAIN services'
        PROVE  \E g, i : /\ IsFirst(g, i, n)' /\ Reached(f, k + 1, g, i)'
                         /\ services'[n] = Service(directory'[g].entries[i].tree)
    <2>1. CASE n = name
      BY <1>1, <1>4, <1>5, <1>6, <2>1
    <2>2. CASE n # name
      <3>1. n \in DOMAIN services /\ services'[n] = services[n]
        BY <1>4, <2>2
      <3>2. PICK g, i : /\ IsFirst(g, i, n) /\ Reached(f, k, g, i)
                        /\ services[n] = Service(directory[g].entries[i].tree)
        BY <3>1 DEF ReadUpTo
      <3> QED BY <1>1, <1>6, <3>1, <3>2
    <2> QED BY <2>1, <2>2
  <1>8. ASSUME NEW n, NEW g, NEW i, Describes(g, i, n)', Reached(f, k + 1, g, i)'
        PROVE  n \in DOMAIN services'
    <2>1. Describes(g, i, n)
      BY <1>1, <1>8
    <2>2. CASE Reached(f, k, g, i)
      BY <1>4, <2>1, <2>2 DEF ReadUpTo
    <2>3. CASE g = f /\ i = k + 1
      BY <1>4, <2>1, <2>3 DEF Describes
    <2> QED BY <1>6, <1>8, <2>1, <2>2, <2>3
  <1> QED BY <1>7, <1>8 DEF ReadUpTo

\* The head of an increasing sequence is its least element.
LEMMA TakeTheNext ==
  ASSUME NEW S \in SUBSET Nat, NEW q \in Seq(S), q # << >>,
         \A i, j \in DOMAIN q : i < j => q[i] < q[j]
  PROVE  /\ Head(q) \in S /\ Tail(q) \in Seq(S)
         /\ \E i \in DOMAIN q : q[i] = Head(q)
         /\ \A i \in DOMAIN q : Head(q) <= q[i]
         /\ \A i, j \in DOMAIN Tail(q) : i < j => Tail(q)[i] < Tail(q)[j]
         /\ \A g : (\E i \in DOMAIN Tail(q) : Tail(q)[i] = g)
                     <=> g # Head(q) /\ \E i \in DOMAIN q : q[i] = g
  <1>1. /\ Head(q) = q[1] /\ Tail(q) \in Seq(S) /\ 1 \in DOMAIN q
        /\ DOMAIN q = 1..Len(q) /\ Len(q) \in Nat /\ Len(q) > 0
        /\ DOMAIN Tail(q) = 1..(Len(q) - 1)
        /\ \A i \in 1..(Len(q) - 1) : Tail(q)[i] = q[i + 1]
    OBVIOUS
  <1>2. \A i \in DOMAIN q : q[i] \in Nat
    <2>1. \A i \in DOMAIN q : q[i] \in S
      OBVIOUS
    <2> QED BY <2>1
  <1>3. \A i \in DOMAIN q : i = 1 \/ (i - 1 \in DOMAIN Tail(q) /\ Tail(q)[i - 1] = q[i] /\ q[1] < q[i])
    BY <1>1
  <1>4. \A i \in DOMAIN Tail(q) : i + 1 \in DOMAIN q /\ Tail(q)[i] = q[i + 1] /\ q[1] < q[i + 1]
    BY <1>1
  <1>5. \A i \in DOMAIN q : Head(q) <= q[i]
    BY <1>1, <1>2, <1>3
  <1>6. \A i, j \in DOMAIN Tail(q) : i < j => Tail(q)[i] < Tail(q)[j]
    BY <1>1, <1>4
  <1>7. ASSUME NEW g, NEW i \in DOMAIN Tail(q), Tail(q)[i] = g
        PROVE  g # Head(q) /\ \E j \in DOMAIN q : q[j] = g
    BY <1>1, <1>2, <1>4, <1>7
  <1>8. ASSUME NEW g, g # Head(q), NEW i \in DOMAIN q, q[i] = g
        PROVE  \E j \in DOMAIN Tail(q) : Tail(q)[j] = g
    BY <1>1, <1>3, <1>8
  <1> QED BY <1>1, <1>5, <1>6, <1>7, <1>8

LEMMA ListFilesProgress ==
  ASSUME Progress, ListFiles
  PROVE  Progress'
  <1>1. /\ pc = "list" /\ pc' = "files" /\ UNCHANGED <<directory, entries, services>>
        /\ directory \in Directories /\ DOMAIN services = {}
    BY DEF ListFiles, conf, Progress
  <1>2. ASSUME files' \in SortedFiles
        PROVE  LeftAfter(0)' /\ ReadUpTo(1, 0)'
    <2>1. /\ JsonFiles' = JsonFiles /\ JsonFiles \subseteq Nat \ {0}
          /\ files' \in Seq(JsonFiles)
          /\ \A i, j \in DOMAIN files' : i < j => files'[i] < files'[j]
          /\ \A g \in JsonFiles : \E i \in DOMAIN files' : files'[i] = g
      BY <1>1, <1>2, SortedFilesAre, DirectoryFacts DEF JsonFiles
    <2>2. LeftAfter(0)'
      BY <2>1 DEF LeftAfter
    <2>3. ASSUME NEW n, NEW g, NEW i, Describes(g, i, n)'
          PROVE  ~Reached(1, 0, g, i)'
      <3>1. g \in JsonFiles /\ i \in DOMAIN directory[g].entries
        BY <1>1, <2>1, <2>3 DEF Describes
      <3>2. directory[g].entries \in Seq(ToSet(directory[g].entries)) /\ g \in Nat \ {0}
        BY <1>1, <3>1, DirectoryFacts
      <3>3. \A S : \A q \in Seq(S) : \A j \in DOMAIN q : j \in Nat /\ j > 0
        OBVIOUS
      <3>4. i \in Nat /\ i > 0
        BY <3>1, <3>2, <3>3
      <3> QED BY <3>2, <3>4 DEF Reached
    <2>4. ReadUpTo(1, 0)'
      BY <1>1, <2>3 DEF ReadUpTo
    <2> QED BY <2>2, <2>4
  <1>3. ~partial' => files' \in SortedFiles
    BY DEF ListFiles
  <1>4. ~partial' => LeftAfter(0)' /\ ReadUpTo(0 + 1, 0)'
    BY <1>2, <1>3
  <1>5. 0 \in Nat
    OBVIOUS
  <1> QED BY <1>1, <1>4, <1>5 DEF Progress

LEMMA ReadFileProgress ==
  ASSUME Progress, ReadFile
  PROVE  Progress'
  <1>1. /\ pc = "files" /\ outcome = "running" /\ files # << >> /\ directory \in Directories
        /\ UNCHANGED <<directory, partial, services>> /\ files' = Tail(files)
    BY DEF ReadFile, Progress
  <1>2. CASE outcome' = "terminated"
    BY <1>1, <1>2 DEF ReadFile, Throw, Progress
  <1>3. CASE outcome' # "terminated"
    <2>0. PICK h : h = Head(files)
      OBVIOUS
    <2>1. entries' = directory[h].entries /\ pc' = "entries" /\ outcome' = outcome
      BY <1>3, <2>0 DEF ReadFile, Throw
    <2>2. CASE partial
      BY <1>1, <2>1, <2>2 DEF Progress
    <2>3. CASE ~partial
      <3>1. PICK f \in Nat : LeftAfter(f) /\ ReadUpTo(f + 1, 0)
        BY <1>1, <2>3 DEF Progress
      <3>2. JsonFiles' = JsonFiles /\ JsonFiles \subseteq Nat
        BY <1>1, DirectoryFacts DEF JsonFiles
      <3>3. /\ h \in JsonFiles /\ Tail(files) \in Seq(JsonFiles)
            /\ \E i \in DOMAIN files : files[i] = h
            /\ \A i \in DOMAIN files : h <= files[i]
            /\ \A i, j \in DOMAIN Tail(files) : i < j => Tail(files)[i] < Tail(files)[j]
            /\ \A g : (\E i \in DOMAIN Tail(files) : Tail(files)[i] = g)
                        <=> g # h /\ \E i \in DOMAIN files : files[i] = g
        BY <1>1, <2>0, <3>1, <3>2, TakeTheNext DEF LeftAfter
      <3>4. \A g \in JsonFiles : g > f <=> \E i \in DOMAIN files : files[i] = g
        BY <3>1 DEF LeftAfter
      <3>5. h > f /\ \A g \in JsonFiles : g > f => h <= g
        BY <3>3, <3>4
      <3>6. \A g \in JsonFiles : g > h <=> g # h /\ g > f
        BY <3>2, <3>3, <3>5
      <3>7. LeftAfter(h)'
        BY <1>1, <3>2, <3>3, <3>4, <3>6 DEF LeftAfter
      <3>8. ASSUME NEW n, NEW g, NEW i, Describes(g, i, n)
            PROVE  Reached(f + 1, 0, g, i) <=> Reached(h, 0, g, i)
        <4>1. g \in JsonFiles /\ g \in Nat /\ i \in DOMAIN directory[g].entries
          BY <3>2, <3>8 DEF Describes
        <4>2. directory[g].entries \in Seq(ToSet(directory[g].entries))
          BY <1>1, <4>1, DirectoryFacts
        <4>3. \A S : \A q \in Seq(S) : \A j \in DOMAIN q : j \in Nat /\ j > 0
          OBVIOUS
        <4>4. i \in Nat /\ i > 0
          BY <4>1, <4>2, <4>3
        <4>5. h \in Nat
          BY <3>2, <3>3
        <4> QED BY <3>5, <4>1, <4>4, <4>5 DEF Reached
      <3>9. ReadUpTo(h, 0)'
        BY <1>1, <3>1, <3>8, ReadUpToMoves
      <3>10. EntriesAfter(h, 0)'
        <4>1. directory[h].entries \in Seq(ToSet(directory[h].entries))
          BY <1>1, <3>3, DirectoryFacts
        <4>2. \A S : \A q \in Seq(S) : Len(q) \in Nat /\ \A j \in DOMAIN q : 0 + j = j
          OBVIOUS
        <4>3. Len(directory[h].entries) = 0 + Len(directory[h].entries)
          BY <4>1, <4>2
        <4> QED BY <1>1, <2>1, <4>1, <4>2, <4>3 DEF EntriesAfter
      <3>11. h \in Nat /\ 0 \in Nat /\ h \in JsonFiles'
        BY <3>2, <3>3
      <3> QED BY <1>1, <2>1, <3>7, <3>9, <3>10, <3>11 DEF Progress
    <2> QED BY <2>2, <2>3
  <1> QED BY <1>2, <1>3

LEMMA TakeTheNextEntry ==
  ASSUME UNCHANGED directory, NEW f, NEW k \in Nat, EntriesAfter(f, k), entries # << >>,
         directory[f].entries \in Seq(ToSet(directory[f].entries)), entries' = Tail(entries)
  PROVE  /\ EntriesAfter(f, k + 1)'
         /\ Head(entries) = directory[f].entries[k + 1]
         /\ k + 1 \in DOMAIN directory[f].entries
  <1> DEFINE all == directory[f].entries
             S == ToSet(all)
  <1>1. /\ entries \in Seq(S) /\ Len(all) = k + Len(entries) /\ all \in Seq(S)
        /\ \A i \in DOMAIN entries : entries[i] = all[k + i]
    BY DEF EntriesAfter
  <1> HIDE DEF all, S
  <1>2. /\ Tail(entries) \in Seq(S) /\ Len(Tail(entries)) = Len(entries) - 1
        /\ DOMAIN entries = 1..Len(entries) /\ Len(entries) \in Nat /\ Len(entries) > 0
        /\ DOMAIN Tail(entries) = 1..(Len(entries) - 1)
        /\ \A i \in 1..(Len(entries) - 1) : Tail(entries)[i] = entries[i + 1]
        /\ Head(entries) = entries[1]
    BY <1>1
  <1>3. DOMAIN all = 1..Len(all) /\ Len(all) \in Nat
    BY <1>1
  <1>4. Head(entries) = all[k + 1] /\ k + 1 \in DOMAIN all
    BY <1>1, <1>2, <1>3
  <1>5. Len(all) = (k + 1) + Len(Tail(entries))
    BY <1>1, <1>2, <1>3
  <1>6. ASSUME NEW i \in DOMAIN Tail(entries)
        PROVE  Tail(entries)[i] = all[(k + 1) + i]
    <2>1. i + 1 \in DOMAIN entries /\ Tail(entries)[i] = entries[i + 1] /\ i \in Nat
      BY <1>2
    <2>2. k + (i + 1) = (k + 1) + i
      BY <2>1
    <2> QED BY <1>1, <2>1, <2>2
  <1>7. EntriesAfter(f, k + 1)'
    BY <1>2, <1>5, <1>6 DEF EntriesAfter, all, S
  <1> QED BY <1>4, <1>7 DEF all

\* An entry is passed when it describes nothing, or a service that is known.
LEMMA ReadUpToPasses ==
  ASSUME directory \in Directories, UNCHANGED <<directory, services>>,
         NEW f \in Nat, NEW k \in Nat, ReadUpTo(f, k),
         \A n : Describes(f, k + 1, n) => n \in DOMAIN services
  PROVE  ReadUpTo(f, k + 1)'
  <1>1. /\ \A g, i, n : Describes(g, i, n)' <=> Describes(g, i, n)
        /\ \A g, i, n : IsFirst(g, i, n)' <=> IsFirst(g, i, n)
    BY DEF Describes, IsFirst, JsonFiles
  <1>2. \A g, i, n : Describes(g, i, n) => g \in Nat /\ i \in Nat
    <2>1. ASSUME NEW g \in JsonFiles, NEW i \in DOMAIN directory[g].entries
          PROVE  g \in Nat /\ i \in Nat
      <3>1. directory[g].entries \in Seq(ToSet(directory[g].entries)) /\ g \in Nat
        BY DirectoryFacts
      <3>2. \A S : \A q \in Seq(S) : DOMAIN q \subseteq Nat
        OBVIOUS
      <3> QED BY <3>1, <3>2
    <2> QED BY <2>1 DEF Describes
  <1>3. \A n, g, i : (Describes(g, i, n) \/ IsFirst(g, i, n)) =>
          (Reached(f, k + 1, g, i)' <=> Reached(f, k, g, i) \/ (g = f /\ i = k + 1))
    BY <1>2 DEF Reached, IsFirst
  <1>4. ASSUME NEW n \in DOMAIN services
        PROVE  \E g, i : /\ IsFirst(g, i, n) /\ Reached(f, k + 1, g, i)'
                         /\ services[n] = Service(directory[g].entries[i].tree)
    BY <1>3 DEF ReadUpTo
  <1>5. ASSUME NEW n, NEW g, NEW i, Describes(g, i, n), Reached(f, k + 1, g, i)'
        PROVE  n \in DOMAIN services
    BY <1>3, <1>5 DEF ReadUpTo
  <1> QED BY <1>1, <1>4, <1>5 DEF ReadUpTo

LEMMA EntryProgress ==
  ASSUME Progress, AddProcessService \/ SetLogger \/ SkipEntry
  PROVE  Progress'
  <1>1. /\ pc = "entries" /\ outcome = "running" /\ entries # << >> /\ directory \in Directories
        /\ UNCHANGED <<directory, partial, files>> /\ entries' = Tail(entries)
        /\ pc' = pc
    BY DEF AddProcessService, SetLogger, SkipEntry, NextEntry, Throw, Progress
  <1>2. CASE outcome' = "terminated" \/ partial
    BY <1>1, <1>2 DEF Progress
  <1>3. CASE outcome' # "terminated" /\ ~partial
    <2>1. PICK f \in Nat : /\ LeftAfter(f) /\ f \in JsonFiles
                           /\ \E k \in Nat : EntriesAfter(f, k) /\ ReadUpTo(f, k)
      BY <1>1, <1>3 DEF Progress
    <2>2. PICK k \in Nat : EntriesAfter(f, k) /\ ReadUpTo(f, k)
      BY <2>1
    <2>3. directory[f].entries \in Seq(ToSet(directory[f].entries))
      BY <1>1, <2>1, DirectoryFacts
    <2>4. /\ EntriesAfter(f, k + 1)'
          /\ Head(entries) = directory[f].entries[k + 1]
          /\ k + 1 \in DOMAIN directory[f].entries
      BY <1>1, <2>2, <2>3, TakeTheNextEntry
    <2>5. ReadUpTo(f, k + 1)'
      <3>1. CASE AddProcessService
        <4> DEFINE tree == directory[f].entries[k + 1].tree
        <4>1. /\ directory[f].entries[k + 1].key = "processService"
              /\ IsService(tree)
              /\ \/ tree.name \notin DOMAIN services /\ services' = Add(tree.name, Service(tree))
                 \/ tree.name \in DOMAIN services /\ UNCHANGED services
          BY <1>3, <2>4, <3>1 DEF AddProcessService, Throw
        <4>2. "name" \in DOMAIN tree
          BY <4>1 DEF IsService
        <4>3. \A n : Describes(f, k + 1, n) <=> n = tree.name
          BY <2>1, <2>4, <4>1, <4>2 DEF Describes
        <4>4. CASE tree.name \notin DOMAIN services /\ services' = Add(tree.name, Service(tree))
          BY <1>1, <2>2, <4>3, <4>4, ReadUpToAdds
        <4>5. CASE tree.name \in DOMAIN services /\ UNCHANGED services
          BY <1>1, <2>2, <4>3, <4>5, ReadUpToPasses
        <4> QED BY <4>1, <4>4, <4>5
      <3>2. CASE SetLogger \/ SkipEntry
        <4>1. directory[f].entries[k + 1].key # "processService" /\ UNCHANGED services
          BY <2>4, <3>2 DEF SetLogger, SkipEntry, conf
        <4>2. \A n : ~Describes(f, k + 1, n)
          BY <4>1 DEF Describes
        <4> QED BY <1>1, <2>2, <4>1, <4>2, ReadUpToPasses
      <3> QED BY <3>1, <3>2
    <2>6. LeftAfter(f)' /\ f \in JsonFiles'
      BY <1>1, <2>1 DEF LeftAfter, JsonFiles
    <2>7. k + 1 \in Nat
      OBVIOUS
    <2> QED BY <1>1, <2>4, <2>5, <2>6, <2>7 DEF Progress
  <1> QED BY <1>2, <1>3

LEMMA FileDoneProgress ==
  ASSUME Progress, FileDone
  PROVE  Progress'
  <1>1. /\ pc = "entries" /\ pc' = "files" /\ outcome = "running" /\ entries = << >>
        /\ directory \in Directories
        /\ UNCHANGED <<directory, partial, files, entries, services, outcome>>
    BY DEF FileDone, conf, Progress
  <1>2. CASE partial
    BY <1>1, <1>2 DEF Progress
  <1>3. CASE ~partial
    <2>1. PICK f \in Nat : /\ LeftAfter(f) /\ f \in JsonFiles
                           /\ \E k \in Nat : EntriesAfter(f, k) /\ ReadUpTo(f, k)
      BY <1>1, <1>3 DEF Progress
    <2>2. PICK k \in Nat : EntriesAfter(f, k) /\ ReadUpTo(f, k)
      BY <2>1
    <2>3. Len(directory[f].entries) = k
      BY <1>1, <2>2 DEF EntriesAfter
    <2>4. ASSUME NEW n, NEW g, NEW i, Describes(g, i, n)
          PROVE  Reached(f, k, g, i) <=> Reached(f + 1, 0, g, i)
      <3>1. g \in JsonFiles /\ i \in DOMAIN directory[g].entries
        BY <2>4 DEF Describes
      <3>2. directory[g].entries \in Seq(ToSet(directory[g].entries)) /\ g \in Nat
        BY <1>1, <3>1, DirectoryFacts
      <3>3. \A S : \A q \in Seq(S) : \A j \in DOMAIN q : j \in Nat /\ j > 0 /\ j <= Len(q)
        OBVIOUS
      <3>4. i \in Nat /\ i > 0 /\ i <= Len(directory[g].entries)
        BY <3>1, <3>2, <3>3
      <3>5. g = f => i <= k
        BY <2>3, <3>4
      <3> QED BY <3>2, <3>4, <3>5 DEF Reached
    <2>5. ReadUpTo(f + 1, 0)'
      BY <1>1, <2>2, <2>4, ReadUpToMoves
    <2>6. LeftAfter(f)'
      BY <1>1, <2>1 DEF LeftAfter, JsonFiles
    <2> QED BY <1>1, <2>5, <2>6 DEF Progress
  <1> QED BY <1>2, <1>3

LEMMA FilesDoneProgress ==
  ASSUME Progress, FilesDone
  PROVE  Progress'
  <1>1. /\ pc = "files" /\ pc' = "parsed" /\ outcome = "running" /\ files = << >>
        /\ directory \in Directories
        /\ UNCHANGED <<directory, partial, files, entries, services, outcome>>
    BY DEF FilesDone, conf, Progress
  <1>2. CASE partial
    BY <1>1, <1>2 DEF Progress
  <1>3. CASE ~partial
    <2>1. PICK f \in Nat : LeftAfter(f) /\ ReadUpTo(f + 1, 0)
      BY <1>1, <1>3 DEF Progress
    <2>2. JsonFiles' = JsonFiles /\ JsonFiles \subseteq Nat
      BY <1>1, DirectoryFacts DEF JsonFiles
    <2>3. \A g \in JsonFiles : ~(g > f)
      BY <1>1, <2>1 DEF LeftAfter
    <2>4. \A g \in JsonFiles : g <= f
      BY <2>2, <2>3
    <2>5. ReadUpTo(f + 1, 0)'
      BY <1>1, <2>1, ReadUpToMoves
    <2> QED BY <1>1, <2>2, <2>4, <2>5 DEF Progress
  <1> QED BY <1>2, <1>3

LEMMA ProgressInvariant == Spec => []Progress
  <1>1. MainInit => Progress
    BY DEF MainInit, Init, Progress
  <1>2. Progress /\ [Next]_mainVars => Progress'
    <2> SUFFICES ASSUME Progress, [Next]_mainVars
                 PROVE  Progress'
      OBVIOUS
    <2>1. CASE ParseConfigureFromDirectory
      BY <2>1, ListFilesProgress, ReadFileProgress, EntryProgress, FileDoneProgress,
         FilesDoneProgress DEF ParseConfigureFromDirectory
    <2>2. CASE UNCHANGED <<directory, partial, files, services>> /\
               ((pc' = pc /\ entries' = entries /\ (outcome' = outcome \/ outcome' # "running"))
                 \/ (pc \in {"parsed", "prctl", "manager"} /\ pc' \in {"prctl", "manager", "return"}))
      <3>1. JsonFiles' = JsonFiles /\ \A f : LeftAfter(f)' <=> LeftAfter(f)
        BY <2>2 DEF LeftAfter, JsonFiles
      <3>2. \A f, k : ReadUpTo(f, k) => ReadUpTo(f, k)'
        BY <2>2, ReadUpToMoves
      <3>3. pc' = pc /\ entries' = entries => \A f, k : EntriesAfter(f, k)' <=> EntriesAfter(f, k)
        BY <2>2 DEF EntriesAfter
      <3> QED BY <2>2, <3>1, <3>2, <3>3 DEF Progress
    <2>3. CASE CreateServiceDependencyGraph \/ BecomeSubreaper \/ ConstructManager \/ Return
                 \/ UNCHANGED mainVars
      BY <2>2, <2>3 DEF CreateServiceDependencyGraph, BecomeSubreaper, ConstructManager, Return,
                        Throw, mainVars, vars, conf
    <2> QED BY <2>1, <2>3 DEF Next
  <1> QED BY <1>1, <1>2, PTL DEF Spec

\* Places(n) are the pairs that describe n.
LEMMA PlacesDescribe ==
  ASSUME NEW n
  PROVE  /\ \A f, i : Describes(f, i, n) => <<f, i>> \in Places(n)
         /\ \A p \in Places(n) : Describes(p[1], p[2], n) /\ p = <<p[1], p[2]>>
  <1>1. ASSUME NEW f, NEW i, Describes(f, i, n)
        PROVE  <<f, i>> \in Places(n)
    <2>1. <<f, i>> \in {f} \X DOMAIN directory[f].entries /\ f \in JsonFiles
      BY <1>1 DEF Describes
    <2>2. <<f, i>> \in UNION {{g} \X DOMAIN directory[g].entries : g \in JsonFiles}
      BY <2>1
    <2> QED BY <1>1, <2>2 DEF Places, Describes
  <1>2. ASSUME NEW p \in Places(n)
        PROVE  Describes(p[1], p[2], n) /\ p = <<p[1], p[2]>>
    <2>1. PICK g \in JsonFiles : p \in {g} \X DOMAIN directory[g].entries
      BY DEF Places
    <2>2. p[1] = g /\ p[2] \in DOMAIN directory[g].entries /\ p = <<p[1], p[2]>>
      BY <2>1
    <2> QED BY <2>1, <2>2 DEF Places, Describes
  <1> QED BY <1>1, <1>2

\* The manager is given every service that the files describe, and for a name
\* that several entries have the first of them in the order of the paths, whatever
\* order the directory is in (getJsonFilesFromDirectory(), addProcessService()).
THEOREM ConfigurationReachesTheManager == Spec => []ManagerGetsTheConfiguration
  <1>1. MainInit => Parsed /\ Validated
    BY DEF MainInit, Init, Parsed, Validated
  <1>2. Progress /\ Validated => ManagerGetsTheConfiguration
    <2> SUFFICES ASSUME Progress, Validated, manager # << >>, ~partial
                 PROVE  /\ DOMAIN services = {n \in Names : Places(n) # {}}
                        /\ \A n \in DOMAIN services : \E p \in Places(n) :
                             /\ \A q \in Places(n) : p = q \/ Before(p, q)
                             /\ services[n] = Service(directory[p[1]].entries[p[2]].tree)
      BY DEF ManagerGetsTheConfiguration, Validated
    <2>1. PICK f \in Nat : (\A g \in JsonFiles : g <= f) /\ ReadUpTo(f + 1, 0)
      BY DEF Validated, Progress
    <2>2. directory \in Directories /\ JsonFiles \subseteq Nat
      BY DirectoryFacts DEF Progress
    <2>3. \A g, i, n : Describes(g, i, n) => Reached(f + 1, 0, g, i)
      BY <2>1, <2>2 DEF Reached, Describes
    <2>4. ASSUME NEW n, NEW g, NEW i, Describes(g, i, n)
          PROVE  n \in Names
      BY <2>2, <2>4, DirectoryFacts DEF Describes, IsEntry, IsTree
    <2>5. ASSUME NEW n \in DOMAIN services
          PROVE  n \in Names /\ \E p \in Places(n) :
                   /\ \A q \in Places(n) : p = q \/ Before(p, q)
                   /\ services[n] = Service(directory[p[1]].entries[p[2]].tree)
      <3>1. PICK g, i : /\ IsFirst(g, i, n)
                        /\ services[n] = Service(directory[g].entries[i].tree)
        BY <2>1 DEF ReadUpTo
      <3>2. Describes(g, i, n) /\ <<g, i>> \in Places(n)
        BY <3>1, PlacesDescribe DEF IsFirst
      <3>3. ASSUME NEW q \in Places(n)
            PROVE  <<g, i>> = q \/ Before(<<g, i>>, q)
        <4>1. Describes(q[1], q[2], n) /\ q = <<q[1], q[2]>>
          BY PlacesDescribe
        <4>2. (q[1] = g /\ q[2] = i) \/ g < q[1] \/ (g = q[1] /\ i < q[2])
          BY <3>1, <4>1 DEF IsFirst
        <4>3. <<g, i>>[1] = g /\ <<g, i>>[2] = i
          OBVIOUS
        <4> QED BY <4>1, <4>2, <4>3 DEF Before
      <3>4. services[n] = Service(directory[<<g, i>>[1]].entries[<<g, i>>[2]].tree)
        BY <3>1
      <3> QED BY <2>4, <3>2, <3>3, <3>4
    <2>6. ASSUME NEW n \in Names, Places(n) # {}
          PROVE  n \in DOMAIN services
      <3>1. PICK p : p \in Places(n)
        BY <2>6
      <3>2. Describes(p[1], p[2], n)
        BY <3>1, PlacesDescribe
      <3> QED BY <2>1, <2>3, <3>2 DEF ReadUpTo
    <2>7. \A n \in DOMAIN services : n \in Names /\ Places(n) # {}
      BY <2>5
    <2> QED BY <2>5, <2>6, <2>7
  <1> QED BY <1>1, <1>2, MainStep, ProgressInvariant, PTL DEF Spec

-----------------------------------------------------------------------------
(* Types.                                                                  *)

LEMMA WrapType ==
  ASSUME NEW n \in Int
  PROVE  Wrap(n) \in Int
  <1>1. /\ n + LongMax + 1 \in Int /\ LongMax + 1 \in Int
        /\ 2 * (LongMax + 1) \in Nat \ {0}
    BY LongAssumption
  <1>2. \A x \in Int : \A m \in Nat \ {0} : x % m \in Int
    OBVIOUS
  <1>3. (n + LongMax + 1) % (2 * (LongMax + 1)) \in Int
    BY <1>1, <1>2
  <1> QED BY <1>1, <1>3 DEF Wrap

LEMMA DurationType ==
  ASSUME NEW t \in DOMAIN DurationOf
  PROVE  DurationOf[t] \in Int
  <1>1. t \in DurationTexts /\ IsDuration(t) /\ DurationOf[t] = Wrap(Product(t))
    BY DEF DurationOf, ParseDuration
  <1>2. Product(t) \in Int
    BY <1>1, TextsAssumption, ProductIsPositive
  <1> QED BY <1>1, <1>2, WrapType

LEMMA SecondsType ==
  ASSUME NEW n \in Nat
  PROVE  Seconds(n) \in Int
  <1>1. UnitNs["s"] \in Nat
    BY UnitAssumption DEF Units
  <1>2. \A x, y \in Nat : x * y \in Int
    OBVIOUS
  <1> QED BY <1>1, <1>2, WrapType DEF Seconds

\* An optional value has the type of its meanings and of its default.
LEMMA OptionalType ==
  ASSUME NEW tree, NEW key, NEW meaning, NEW default, NEW T, default \in T,
         \A x \in DOMAIN meaning : meaning[x] \in T
  PROVE  GetOptionalWithDefaultValue(tree, key, meaning, default) \in T
  BY DEF GetOptionalWithDefaultValue, Has, Get

LEMMA ServiceTyped ==
  ASSUME NEW tree, IsTree(tree), IsService(tree)
  PROVE  Service(tree) \in ServiceType
  <1>1. tree.argv \in Seq(STRING)
    BY DEF IsTree, IsService
  <1>2. Type(tree) \in {"BASIC", "NOTIFY"}
    <2>1. \A x \in DOMAIN TypeOf : TypeOf[x] \in {"BASIC", "NOTIFY"}
      BY DEF TypeOf
    <2> QED BY <2>1, OptionalType DEF Type
  <1>3. GetOptionalWithDefaultValue(tree, "failAction", ActionOf, "RESTART")
          \in {"RESTART", "REBOOT_CONTAINER"}
    <2>1. \A x \in DOMAIN ActionOf : ActionOf[x] \in {"RESTART", "REBOOT_CONTAINER"}
      BY DEF ActionOf
    <2> QED BY <2>1, OptionalType
  <1>4. \A key : GetOptionalWithDefaultValue(tree, key, OutOf, "INIT_PROCESS")
                   \in {"INIT_PROCESS", "STAND"}
    <2>1. \A x \in DOMAIN OutOf : OutOf[x] \in {"INIT_PROCESS", "STAND"}
      BY DEF OutOf
    <2> QED BY <2>1, OptionalType
  <1>5. Seconds(100) \in Int /\ Seconds(200) \in Int
    BY SecondsType
  <1>6. GetOptionalWithDefaultValue(tree, "stopTimeout", DurationOf, Seconds(200)) \in Int
    BY <1>5, DurationType, OptionalType
  <1> DEFINE st == IF Has(tree, "startTimeout", DurationOf) THEN << >> ELSE <<Seconds(100)>>
             hb == IF "heartbeat" \in DOMAIN tree THEN <<Heartbeat(tree.heartbeat)>> ELSE << >>
             sa == IF "startAfter" \in DOMAIN tree THEN tree.startAfter ELSE << >>
             H  == [interval : Int, failureThreshold : Int]
  <1>7. st \in Seq(Int)
    BY <1>5
  <1>8. hb \in Seq(H)
    <2>1. CASE "heartbeat" \in DOMAIN tree
      <3>1. IsHeartbeat(tree.heartbeat)
        BY <2>1 DEF IsService
      <3>2. Heartbeat(tree.heartbeat) \in H
        BY <3>1, DurationType, IntAssumption DEF IsHeartbeat, Heartbeat, Has, Get
      <3> QED BY <2>1, <3>2
    <2>2. CASE "heartbeat" \notin DOMAIN tree
      BY <2>2
    <2> QED BY <2>1, <2>2
  <1>9. sa \in Seq(Names)
    BY DEF IsTree
  <1>10. << >> \in Seq(Int) /\ << >> \in Seq(STRING)
    OBVIOUS
  <1>11. Service(tree) =
           [argv |-> tree.argv, type |-> Type(tree),
            action |-> GetOptionalWithDefaultValue(tree, "failAction", ActionOf, "RESTART"),
            standardErr |-> GetOptionalWithDefaultValue(tree, "standErr", OutOf, "INIT_PROCESS"),
            standardOut |-> GetOptionalWithDefaultValue(tree, "standOut", OutOf, "INIT_PROCESS"),
            startTimeout |-> st,
            stopTimeout |-> GetOptionalWithDefaultValue(tree, "stopTimeout", DurationOf, Seconds(200)),
            heartbeat |-> hb, watchdogTimeout |-> << >>, env |-> << >>, startAfter |-> sa]
    BY DEF Service
  <1> HIDE DEF st, hb, sa
  <1> QED BY <1>1, <1>2, <1>3, <1>4, <1>6, <1>7, <1>8, <1>9, <1>10, <1>11 DEF ServiceType

\* The types, and what they rest on: what is still to be read is well-formed, and
\* nothing throws once the manager exists.
Typed ==
  /\ TypeOK
  /\ directory \in Directories
  /\ entries \in Seq(ToSet(entries)) /\ \A i \in DOMAIN entries : IsEntry(entries[i])
  /\ logger \in [loggerForward : BOOLEAN, loggerLevel : Seq(Int)]
  /\ manager # << >> => pc = "return"

LEMMA SeqOfItsElements ==
  ASSUME NEW S, NEW q \in Seq(S)
  PROVE  q \in Seq(ToSet(q))
  <1>1. q \in [1..Len(q) -> S] /\ Len(q) \in Nat
    OBVIOUS
  <1>2. \A i \in 1..Len(q) : q[i] \in ToSet(q)
    BY <1>1 DEF ToSet
  <1>3. q \in [1..Len(q) -> ToSet(q)]
    BY <1>1, <1>2
  <1> QED BY <1>1, <1>3

LEMMA TailOfEntries ==
  ASSUME entries \in Seq(ToSet(entries)), entries # << >>, entries' = Tail(entries),
         \A i \in DOMAIN entries : IsEntry(entries[i])
  PROVE  /\ entries' \in Seq(ToSet(entries')) /\ \A i \in DOMAIN entries' : IsEntry(entries'[i])
         /\ IsEntry(Head(entries))
  <1>1. \A S : \A q \in Seq(S) : q # << >> =>
          /\ Tail(q) \in Seq(S)
          /\ Head(q) = q[1] /\ 1 \in DOMAIN q
          /\ \A i \in DOMAIN Tail(q) : i + 1 \in DOMAIN q /\ Tail(q)[i] = q[i + 1]
    OBVIOUS
  <1>2. /\ entries' \in Seq(ToSet(entries))
        /\ Head(entries) = entries[1] /\ 1 \in DOMAIN entries
        /\ \A i \in DOMAIN entries' : i + 1 \in DOMAIN entries /\ entries'[i] = entries[i + 1]
    BY <1>1
  <1>3. entries' \in Seq(ToSet(entries'))
    BY <1>2, SeqOfItsElements
  <1>4. \A i \in DOMAIN entries' : IsEntry(entries'[i])
    BY <1>2
  <1>5. IsEntry(Head(entries))
    BY <1>2
  <1> QED BY <1>3, <1>4, <1>5

LEMMA ConfTyped ==
  ASSUME Typed, AddProcessService \/ SetLogger \/ SkipEntry, UNCHANGED manager
  PROVE  Typed'
  <1>1. /\ pc = "entries" /\ pc' = "entries" /\ entries # << >> /\ entries' = Tail(entries)
        /\ outcome' \in {outcome, "terminated"}
        /\ UNCHANGED <<directory, partial, files, manager>>
    BY DEF AddProcessService, SetLogger, SkipEntry, NextEntry, Throw
  <1>2. /\ entries' \in Seq(ToSet(entries')) /\ \A i \in DOMAIN entries' : IsEntry(entries'[i])
        /\ IsEntry(Head(entries))
    BY <1>1, TailOfEntries DEF Typed
  <1>3. manager = << >>
    BY <1>1 DEF Typed
  <1>4. files' \in Seq(JsonFiles')
    BY <1>1 DEF Typed, TypeOK, JsonFiles
  <1>5. logger' \in [loggerForward : BOOLEAN, loggerLevel : Seq(Int)]
    <2>1. CASE SetLogger
      <3>1. LOG_ERR \in Int
        BY DEF LOG_ERR
      <3>2. GetOptionalWithDefaultValue(Head(entries).tree, "logLevel", IntValue, LOG_ERR) \in Int
        BY <3>1, IntAssumption, OptionalType
      <3> QED BY <2>1, <3>2 DEF SetLogger
    <2>2. CASE AddProcessService \/ SkipEntry
      BY <2>2 DEF AddProcessService, SkipEntry, conf, Typed
    <2> QED BY <2>1, <2>2
  <1>6. DOMAIN services' \subseteq Names /\ \A n \in DOMAIN services' : services'[n] \in ServiceType
    <2>0. DOMAIN services \subseteq Names /\ \A n \in DOMAIN services : services[n] \in ServiceType
      BY DEF Typed, TypeOK
    <2>1. CASE UNCHANGED services
      BY <2>0, <2>1
    <2>2. CASE ~UNCHANGED services
      <3> DEFINE tree == Head(entries).tree
      <3>1. AddProcessService
        BY <2>2 DEF SetLogger, SkipEntry, conf
      <3>2. IsService(tree) /\ services' = Add(tree.name, Service(tree))
        BY <2>2, <3>1 DEF AddProcessService
      <3>3. IsTree(tree)
        BY <1>2, <3>1 DEF AddProcessService, IsEntry
      <3>4. tree.name \in Names
        BY <3>2, <3>3 DEF IsService, IsTree
      <3>5. Service(tree) \in ServiceType
        BY <3>2, <3>3, ServiceTyped
      <3> HIDE DEF tree
      <3> QED BY <2>0, <3>2, <3>4, <3>5 DEF Add
    <2> QED BY <2>1, <2>2
  <1>7. partial' \in BOOLEAN /\ outcome' \in {"running", "terminated"} \cup Returned
    BY <1>1 DEF Typed, TypeOK
  <1>8. TypeOK'
    BY <1>1, <1>3, <1>4, <1>5, <1>6, <1>7 DEF TypeOK
  <1> QED BY <1>1, <1>2, <1>3, <1>5, <1>8 DEF Typed

LEMMA FilesTyped ==
  ASSUME Typed, ListFiles \/ ReadFile \/ FileDone \/ FilesDone, UNCHANGED manager
  PROVE  Typed'
  <1>1. UNCHANGED <<directory, services, manager>> /\ directory \in Directories
    BY DEF ListFiles, ReadFile, FileDone, FilesDone, conf, Typed
  <1>2. JsonFiles' = JsonFiles /\ IsFiniteSet(JsonFiles)
    BY <1>1, DirectoryFacts DEF JsonFiles
  <1>3. manager = << >>
    BY DEF ListFiles, ReadFile, FileDone, FilesDone, Typed
  <1>4. files' \in Seq(JsonFiles)
    <2>1. CASE ListFiles
      <3>1. CASE files' \in SortedFiles
        BY <1>1, <3>1, SortedFilesAre
      <3>2. ASSUME NEW found \in SUBSET JsonFiles, files' \in SetToSeqs(found)
            PROVE  files' \in Seq(JsonFiles)
        <4>1. IsFiniteSet(found)
          BY <1>2, FS_Subset
        <4>2. Cardinality(found) \in Nat
          BY <4>1, FS_CardinalityType
        <4>3. files' \in [1..Cardinality(found) -> JsonFiles]
          BY <3>2 DEF SetToSeqs
        <4> QED BY <4>2, <4>3
      <3> QED BY <2>1, <3>1, <3>2 DEF ListFiles
    <2>2. CASE ReadFile
      <3>1. files # << >> /\ files' = Tail(files) /\ files \in Seq(JsonFiles)
        BY <2>2 DEF ReadFile, Typed, TypeOK
      <3> QED BY <3>1
    <2>3. CASE FileDone \/ FilesDone
      BY <2>3 DEF FileDone, FilesDone, Typed, TypeOK
    <2> QED BY <2>1, <2>2, <2>3
  <1>5. /\ entries' \in Seq(ToSet(entries')) /\ \A i \in DOMAIN entries' : IsEntry(entries'[i])
        /\ entries' = << >> \/ pc' = "entries"
    <2>1. CASE UNCHANGED entries
      BY <2>1 DEF ListFiles, ReadFile, FileDone, FilesDone, Throw, Typed, TypeOK
    <2>2. CASE ~UNCHANGED entries
      <3>1. ReadFile
        BY <2>2 DEF ListFiles, FileDone, FilesDone
      <3>2. entries' = directory[Head(files)].entries /\ pc' = "entries" /\ files # << >>
        BY <2>2, <3>1 DEF ReadFile
      <3>3. files \in Seq(JsonFiles)
        BY DEF Typed, TypeOK
      <3>4. \A S : \A q \in Seq(S) : q # << >> => Head(q) \in S
        OBVIOUS
      <3>5. Head(files) \in JsonFiles
        BY <3>2, <3>3, <3>4
      <3> QED BY <1>1, <3>2, <3>5, DirectoryFacts
    <2> QED BY <2>1, <2>2
  <1>6. logger' \in [loggerForward : BOOLEAN, loggerLevel : Seq(Int)]
    BY DEF ListFiles, ReadFile, FileDone, FilesDone, conf, Typed
  <1>7. /\ partial' \in BOOLEAN /\ outcome' \in {"running", "terminated"} \cup Returned
        /\ pc' \in {"list", "files", "entries", "parsed"}
    BY DEF ListFiles, ReadFile, FileDone, FilesDone, Throw, Typed, TypeOK
  <1>8. DOMAIN services' \subseteq Names /\ \A n \in DOMAIN services' : services'[n] \in ServiceType
    BY <1>1 DEF Typed, TypeOK
  <1>9. TypeOK'
    BY <1>1, <1>2, <1>3, <1>4, <1>5, <1>6, <1>7, <1>8 DEF TypeOK
  <1> QED BY <1>1, <1>3, <1>5, <1>6, <1>9 DEF Typed

\* The types, of the services above all; and that a program which an exception
\* ends never gave its manager anything (main()).
THEOREM TypeCorrect == Spec => []TypeOK
  <1>1. MainInit => Typed
    <2> SUFFICES ASSUME MainInit
                 PROVE  Typed
      OBVIOUS
    <2>1. << >> \in Seq(JsonFiles) /\ << >> \in Seq(Int) /\ << >> \in Seq(ToSet(<< >>))
      OBVIOUS
    <2>2. TypeOK
      BY <2>1 DEF MainInit, Init, TypeOK
    <2>3. entries \in Seq(ToSet(entries)) /\ DOMAIN entries = {}
      BY <2>1 DEF MainInit, Init
    <2>4. logger \in [loggerForward : BOOLEAN, loggerLevel : Seq(Int)]
      BY <2>1 DEF MainInit, Init
    <2> QED BY <2>2, <2>3, <2>4 DEF MainInit, Init, Typed
  <1>2. Typed /\ [Next]_mainVars => Typed'
    <2> SUFFICES ASSUME Typed, [Next]_mainVars
                 PROVE  Typed'
      OBVIOUS
    <2>1. CASE ParseConfigureFromDirectory /\ UNCHANGED manager
      BY <2>1, ConfTyped, FilesTyped DEF ParseConfigureFromDirectory
    <2>2. CASE CreateServiceDependencyGraph \/ BecomeSubreaper \/ ConstructManager \/ Return
                 \/ UNCHANGED mainVars
      <3>1. UNCHANGED <<directory, partial, files, entries, services, logger>>
        BY <2>2 DEF CreateServiceDependencyGraph, BecomeSubreaper, ConstructManager, Return,
                    mainVars, vars, conf
      <3>2. JsonFiles' = JsonFiles
        BY <3>1 DEF JsonFiles
      <3>3. /\ pc' \in {"list", "files", "entries", "parsed", "prctl", "manager", "return"}
            /\ outcome' \in {"running", "terminated"} \cup Returned
            /\ outcome' = "terminated" => manager' = << >>
            /\ manager' # << >> => pc' = "return"
            /\ pc' = "entries" <=> pc = "entries"
        <4>1. CASE CreateServiceDependencyGraph
          BY <4>1 DEF CreateServiceDependencyGraph, Throw, Typed, TypeOK
        <4>2. CASE BecomeSubreaper
          BY <4>2 DEF BecomeSubreaper, Returned, Typed, TypeOK
        <4>3. CASE ConstructManager
          BY <4>3 DEF ConstructManager, Typed, TypeOK
        <4>4. CASE Return
          BY <4>4 DEF Return, Returned, Typed, TypeOK
        <4>5. CASE UNCHANGED mainVars
          BY <4>5 DEF mainVars, vars, Typed, TypeOK
        <4> QED BY <2>2, <4>1, <4>2, <4>3, <4>4, <4>5
      <3>4. TypeOK'
        BY <3>1, <3>2, <3>3 DEF Typed, TypeOK
      <3> QED BY <3>1, <3>3, <3>4 DEF Typed
    <2> QED BY <2>1, <2>2 DEF Next
  <1>3. Typed => TypeOK
    BY DEF Typed
  <1> QED BY <1>1, <1>2, <1>3, PTL DEF Spec
=============================================================================
