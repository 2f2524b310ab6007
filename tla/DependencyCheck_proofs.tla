----------------------- MODULE DependencyCheck_proofs -----------------------
(***************************************************************************)
(* Proofs about DependencyCheck for every set of services and every        *)
(* configuration.                                                          *)
(***************************************************************************)
EXTENDS DependencyCheck, FiniteSetTheorems, TLAPS

-----------------------------------------------------------------------------
(* The stack of calls.                                                     *)

\* The calls after the innermost one has taken svc: the same services, and all
\* that is left to take but svc.
LEMMA AdvanceProperties ==
  ASSUME NEW calls \in Seq(Call), calls # << >>, NEW svc,
         NEW new, new = Taken(calls, svc)
  PROVE  /\ new \in Seq(Call)
         /\ DOMAIN new = DOMAIN calls
         /\ \A i \in DOMAIN calls :
              /\ new[i].svc = calls[i].svc
              /\ calls[i].rest \ {svc} \subseteq new[i].rest
              /\ new[i].rest \subseteq calls[i].rest
  <1> DEFINE n == Len(calls)
             top == [calls[n] EXCEPT !.rest = @ \ {svc}]
  <1>1. n \in Nat \ {0} /\ calls[n] \in Call
    OBVIOUS
  <1>2. /\ top \in Call
        /\ top.svc = calls[n].svc
        /\ top.rest = calls[n].rest \ {svc}
    BY <1>1 DEF Call
  <1>3. /\ Front(calls) \in Seq(Call)
        /\ Len(Front(calls)) = n - 1
        /\ \A i \in 1..(n - 1) : Front(calls)[i] = calls[i]
    <2>1. \A i \in 1..(n - 1) : calls[i] \in Call
      OBVIOUS
    <2>2. n - 1 \in Nat /\ Front(calls) = SubSeq(calls, 1, n - 1)
      BY <1>1 DEF Front
    <2>3. Front(calls) = [i \in 1..(n - 1) |-> calls[i]]
      BY <1>1, <2>2
    <2>4. PICK m \in Nat : m = n - 1
      BY <2>2
    <2>5. Front(calls) \in [1..m -> Call]
      BY <2>1, <2>3, <2>4
    <2>6. Front(calls) \in Seq(Call) /\ Len(Front(calls)) = m
      BY <2>5
    <2> QED BY <2>3, <2>4, <2>6
  <1>4. new = Append(Front(calls), top)
    BY DEF Last, Taken
  <1> HIDE DEF top
  <1>5. /\ new \in Seq(Call)
        /\ Len(new) = n
        /\ new[n] = top
        /\ \A i \in 1..(n - 1) : new[i] = calls[i]
    BY <1>1, <1>2, <1>3, <1>4
  <1>6. ASSUME NEW i \in DOMAIN calls
        PROVE  /\ new[i].svc = calls[i].svc
               /\ calls[i].rest \ {svc} \subseteq new[i].rest
               /\ new[i].rest \subseteq calls[i].rest
    <2>1. CASE i = n
      BY <1>2, <1>5, <2>1
    <2>2. CASE i # n
      <3>1. i \in 1..(n - 1)
        BY <1>1, <2>2
      <3> QED BY <1>5, <3>1
    <2> QED BY <2>1, <2>2
  <1> QED BY <1>1, <1>5, <1>6

\* A new call becomes the innermost one.
LEMMA PushProperties ==
  ASSUME NEW calls \in Seq(Call), NEW c \in Call, NEW new, new = Append(calls, c)
  PROVE  /\ new \in Seq(Call)
         /\ Len(new) = Len(calls) + 1
         /\ new[Len(new)] = c
         /\ \A i \in DOMAIN calls : i \in DOMAIN new /\ new[i] = calls[i]
         /\ \A i \in DOMAIN new : i \in DOMAIN calls \/ i = Len(new)
  OBVIOUS

\* A call that returns leaves the others as they are.
LEMMA PopProperties ==
  ASSUME NEW calls \in Seq(Call), calls # << >>
  PROVE  /\ Front(calls) \in Seq(Call)
         /\ \A i \in DOMAIN Front(calls) : i \in DOMAIN calls /\ Front(calls)[i] = calls[i]
         /\ \A i \in DOMAIN calls : i \in DOMAIN Front(calls) \/ calls[i] = Last(calls)
  BY DEF Front, Last

LEMMA LastIsACall ==
  ASSUME NEW calls \in Seq(Call), calls # << >>
  PROVE  Last(calls) \in Call /\ Last(calls).rest \subseteq Services
  <1>1. Last(calls) \in Call
    BY DEF Last
  <1> QED BY <1>1 DEF Call

-----------------------------------------------------------------------------
(* The inductive invariant: what the first loop has noted and refused, and *)
(* how far the search is.                                                  *)

\* dependents says who lists what, for the services that have been examined,
\* and those list neither themselves nor a name twice.
Noted ==
  /\ \A s \in Services \ pending :
       /\ s \notin ToSet(startAfter[s])
       /\ IsInjective(startAfter[s])
       /\ \A n \in ToSet(startAfter[s]) : s \in dependents[n]
  /\ \A n \in Names : \A s \in dependents[n] : n \in ToSet(startAfter[s])

\* Every name depended on is configured, and every service is examined.
Searchable == pending = {} /\ Keys \subseteq Services

\* d is still to be taken by a call for v.
Waits(v, d) == \E i \in DOMAIN stack : stack[i].svc = v /\ d \in stack[i].rest

\* What the search has visited is depended upon, and its dependents are visited
\* or will be; a key is visited or still a root.
Closed ==
  /\ Trace(stack) \subseteq visited
  /\ \A v \in visited : dependents[v] # {}
  /\ \A v \in visited : \A d \in dependents[v] : d \in visited \/ Waits(v, d)
  /\ Keys \subseteq visited \cup roots

SearchInv ==
  /\ TypeOK
  /\ phase \in {"examine", "search"} => outcome = "none"
  /\ phase = "examine" => stack = << >> /\ visited = {}
  /\ Noted
  /\ phase = "search" \/ outcome = "accepted" => Searchable /\ Closed
  /\ outcome = "accepted" =>
       /\ stack = << >> /\ roots = {}
       /\ startupMap = [s \in Services |-> ToSet(startAfter[s])]

-----------------------------------------------------------------------------
LEMMA ListNames ==
  ASSUME TypeOK, NEW s \in Services
  PROVE  startAfter[s] \in Seq(Names) /\ ToSet(startAfter[s]) \subseteq Names
  <1>1. startAfter[s] \in Seq(Names)
    BY ListsAssumption DEF TypeOK
  <1> QED BY <1>1 DEF ToSet

LEMMA InitSearch == Init => SearchInv
  <1> SUFFICES ASSUME Init
               PROVE  SearchInv
    OBVIOUS
  <1>1. stack \in Seq(Call)
    BY DEF Init
  <1>2. TypeOK
    BY <1>1 DEF Init, TypeOK
  <1> QED BY <1>2 DEF Init, SearchInv, Noted

LEMMA ExamineSearch ==
  ASSUME SearchInv, ExamineService
  PROVE  SearchInv'
  <1>1. PICK svc \in pending : RefuseSelf(svc) \/ RefuseDuplicate(svc) \/ Examine(svc)
    BY DEF ExamineService
  <1>2. CASE RefuseSelf(svc) \/ RefuseDuplicate(svc)
    BY <1>2 DEF RefuseSelf, RefuseDuplicate, Throw, SearchInv, TypeOK, Noted, Closed, Waits,
                Searchable, Keys
  <1>3. CASE Examine(svc)
    <2>1. svc \in Services /\ phase = "examine" /\ outcome = "none"
      BY DEF ExamineService, SearchInv, TypeOK
    <2>2. TypeOK'
      BY <1>3, <2>1 DEF Examine, SearchInv, TypeOK
    <2>3. Noted'
      <3>0. \A n \in Names : \A s \in dependents'[n] : n \in ToSet(startAfter[s])
        BY <1>3 DEF Examine, SearchInv, Noted
      <3> SUFFICES ASSUME NEW s \in Services \ pending'
                   PROVE  /\ s \notin ToSet(startAfter[s])
                          /\ IsInjective(startAfter[s])
                          /\ \A n \in ToSet(startAfter[s]) : s \in dependents'[n]
        BY <1>3, <3>0 DEF Examine, Noted
      <3>1. ToSet(startAfter[s]) \subseteq Names
        BY ListNames DEF SearchInv
      <3>2. \A n \in Names : dependents'[n] = IF n \in ToSet(startAfter[svc])
                                              THEN dependents[n] \cup {svc} ELSE dependents[n]
        BY <1>3 DEF Examine
      <3>3. CASE s = svc
        BY <1>3, <3>1, <3>2, <3>3 DEF Examine, ListsItself, ListsTwice
      <3>4. CASE s # svc
        <4>1. s \in Services \ pending
          BY <1>3, <3>4 DEF Examine
        <4> QED BY <3>1, <3>2, <4>1 DEF SearchInv, Noted
      <3> QED BY <3>3, <3>4
    <2> QED BY <1>3, <2>1, <2>2, <2>3 DEF Examine, SearchInv
  <1> QED BY <1>1, <1>2, <1>3

LEMMA CheckAllExistSearch ==
  ASSUME SearchInv, CheckAllExist
  PROVE  SearchInv'
  <1>1. UNCHANGED <<startAfter, pending, dependents, visited, stack, startupMap>>
    BY DEF CheckAllExist
  <1>2. phase = "examine" /\ pending = {} /\ outcome = "none" /\ visited = {}
    BY DEF CheckAllExist, SearchInv
  <1>3. CASE Keys \subseteq Services
    <2>1. phase' = "search" /\ roots' = Keys /\ outcome' = outcome
      BY <1>3 DEF CheckAllExist
    <2>2. Searchable' /\ Closed'
      BY <1>1, <1>2, <1>3, <2>1 DEF Searchable, Closed, Keys, Trace, SearchInv
    <2> QED BY <1>1, <1>2, <1>3, <2>1, <2>2 DEF SearchInv, TypeOK, Noted
  <1>4. CASE ~(Keys \subseteq Services)
    BY <1>1, <1>2, <1>4 DEF CheckAllExist, Throw, SearchInv, TypeOK, Noted
  <1> QED BY <1>3, <1>4

\* A call of detectCycleDFS, whatever of its three ways it takes.
LEMMA EnterSearch ==
  ASSUME SearchInv, phase = "search", NEW calls \in Seq(Call), NEW svc \in Services,
         Enter(svc, calls), UNCHANGED <<startAfter, pending, dependents, startupMap>>,
         roots' \subseteq roots, Keys \subseteq visited' \cup roots',
         Trace(calls) \subseteq visited,
         \A v \in visited : \A d \in dependents[v] :
           \/ d \in visited \cup {svc}
           \/ \E i \in DOMAIN calls : calls[i].svc = v /\ d \in calls[i].rest
  PROVE  SearchInv'
  <1>1. /\ TypeOK /\ Noted /\ Searchable /\ outcome = "none"
        /\ \A v \in visited : dependents[v] # {}
        /\ svc \in Names /\ dependents[svc] \subseteq Services
        /\ visited' = visited \cup {svc}
    BY ServicesAssumption DEF SearchInv, Closed, TypeOK, Enter
  <1>2. Noted' /\ Searchable'
    BY <1>1 DEF Noted, Searchable, Keys
  <1>3. ASSUME svc \in Trace(calls), stack' = calls, UNCHANGED <<phase, outcome>>
        PROVE  SearchInv'
    <2>1. visited' = visited
      BY <1>1, <1>3
    <2>2. Closed'
      BY <1>1, <1>3, <2>1 DEF Closed, Waits, Keys, Trace
    <2>3. TypeOK'
      BY <1>1, <1>3, <2>1 DEF TypeOK
    <2> QED BY <1>1, <1>2, <1>3, <2>2, <2>3 DEF SearchInv
  <1>4. ASSUME Throw("out_of_range"), stack' = calls
        PROVE  SearchInv'
    <2>1. TypeOK'
      BY <1>1, <1>4 DEF Throw, TypeOK
    <2> QED BY <1>2, <1>4, <2>1 DEF Throw, SearchInv
  <1>5. ASSUME dependents[svc] # {}, UNCHANGED <<phase, outcome>>,
               stack' = Append(calls, [svc |-> svc, rest |-> dependents[svc]])
        PROVE  SearchInv'
    <2> DEFINE c == [svc |-> svc, rest |-> dependents[svc]]
    <2>1. c \in Call /\ c.svc = svc /\ c.rest = dependents[svc]
      BY <1>1 DEF Call
    <2>2. stack' = Append(calls, c)
      BY <1>5
    <2> HIDE DEF c
    <2>3. /\ stack' \in Seq(Call)
          /\ Len(stack') \in DOMAIN stack'
          /\ stack'[Len(stack')] = c
          /\ \A i \in DOMAIN calls : i \in DOMAIN stack' /\ stack'[i] = calls[i]
          /\ \A i \in DOMAIN stack' : i \in DOMAIN calls \/ stack'[i] = c
      BY <2>1, <2>2, PushProperties
    <2>4. TypeOK'
      BY <1>1, <1>5, <2>3 DEF TypeOK
    <2>5. Trace(stack)' \subseteq visited'
      BY <1>1, <2>1, <2>3 DEF Trace
    <2>6. ASSUME NEW v \in visited', NEW d \in dependents'[v]
          PROVE  d \in visited' \/ Waits(v, d)'
      <3>1. CASE v = svc
        BY <2>1, <2>3, <3>1 DEF Waits
      <3>2. CASE v # svc
        <4>1. v \in visited /\ d \in dependents[v]
          BY <1>1, <2>6, <3>2
        <4> QED BY <1>1, <2>3, <4>1 DEF Waits
      <3> QED BY <3>1, <3>2
    <2>7. Closed'
      BY <1>1, <1>5, <2>5, <2>6 DEF Closed, Keys
    <2> QED BY <1>1, <1>2, <1>5, <2>4, <2>7 DEF SearchInv
  <1> QED BY <1>3, <1>4, <1>5 DEF Enter

LEMMA DescendSearch ==
  ASSUME SearchInv, Descend
  PROVE  SearchInv'
  <1>1. /\ phase = "search" /\ stack # << >> /\ stack \in Seq(Call)
        /\ UNCHANGED <<startAfter, pending, dependents, roots, startupMap>>
    BY DEF Descend, SearchInv, TypeOK
  <1>2. PICK svc \in Last(stack).rest : Enter(svc, Taken(stack, svc))
    BY DEF Descend
  <1>3. PICK calls : calls = Taken(stack, svc) /\ Enter(svc, calls)
    BY <1>2
  <1>4. /\ calls \in Seq(Call)
        /\ DOMAIN calls = DOMAIN stack
        /\ \A i \in DOMAIN stack : /\ calls[i].svc = stack[i].svc
                                   /\ stack[i].rest \ {svc} \subseteq calls[i].rest
    BY <1>1, <1>3, AdvanceProperties
  <1>5. svc \in Services
    BY <1>1, LastIsACall
  <1>6. Closed
    BY <1>1 DEF SearchInv
  <1>7. Trace(calls) \subseteq visited
    BY <1>4, <1>6 DEF Closed, Trace
  <1>8. \A v \in visited : \A d \in dependents[v] :
          \/ d \in visited \cup {svc}
          \/ \E i \in DOMAIN calls : calls[i].svc = v /\ d \in calls[i].rest
    BY <1>4, <1>6 DEF Closed, Waits
  <1>9. Keys \subseteq visited' \cup roots'
    BY <1>1, <1>3, <1>6 DEF Closed, Enter
  <1> QED BY <1>1, <1>3, <1>4, <1>5, <1>7, <1>8, <1>9, EnterSearch

LEMMA ReturnSearch ==
  ASSUME SearchInv, Return
  PROVE  SearchInv'
  <1>1. /\ phase = "search" /\ stack # << >> /\ stack \in Seq(Call) /\ Last(stack).rest = {}
        /\ stack' = Front(stack)
        /\ UNCHANGED <<startAfter, phase, pending, dependents, roots, visited, outcome, startupMap>>
    BY DEF Return, SearchInv, TypeOK
  <1>2. /\ Front(stack) \in Seq(Call)
        /\ \A i \in DOMAIN Front(stack) : i \in DOMAIN stack /\ Front(stack)[i] = stack[i]
        /\ \A i \in DOMAIN stack : i \in DOMAIN Front(stack) \/ stack[i] = Last(stack)
    BY <1>1, PopProperties
  <1>3. TypeOK' /\ Noted' /\ Searchable'
    BY <1>1, <1>2 DEF SearchInv, TypeOK, Noted, Searchable, Keys
  <1>4. \A v, d : Waits(v, d) => Waits(v, d)'
    BY <1>1, <1>2 DEF Waits
  <1>5. Closed'
    BY <1>1, <1>2, <1>4 DEF SearchInv, Closed, Keys, Trace
  <1> QED BY <1>1, <1>3, <1>5 DEF SearchInv

LEMMA TakeRootSearch ==
  ASSUME SearchInv, TakeRoot
  PROVE  SearchInv'
  <1>1. /\ phase = "search" /\ stack = << >>
        /\ UNCHANGED <<startAfter, pending, dependents, startupMap>>
        /\ Closed /\ roots \subseteq Services
    BY DEF TakeRoot, SearchInv, TypeOK
  <1>2. PICK r \in roots :
          /\ roots' = roots \ {r}
          /\ \/ r \in visited /\ UNCHANGED <<phase, visited, stack, outcome>>
             \/ r \notin visited /\ Enter(r, << >>)
    BY DEF TakeRoot
  <1>3. CASE r \in visited /\ UNCHANGED <<phase, visited, stack, outcome>>
    BY <1>1, <1>2, <1>3 DEF SearchInv, TypeOK, Noted, Searchable, Closed, Keys, Waits
  <1>4. CASE Enter(r, << >>)
    <2>1. << >> \in Seq(Call) /\ Trace(<< >>) \subseteq visited /\ r \in Services
      BY <1>1 DEF Trace
    <2>2. \A v \in visited : \A d \in dependents[v] : d \in visited
      BY <1>1 DEF Closed, Waits
    <2>3. Keys \subseteq visited' \cup roots'
      BY <1>1, <1>2, <1>4 DEF Closed, Enter
    <2> QED BY <1>1, <1>2, <1>4, <2>1, <2>2, <2>3, EnterSearch
  <1> QED BY <1>2, <1>3, <1>4

LEMMA AcceptSearch ==
  ASSUME SearchInv, Accept
  PROVE  SearchInv'
  <1>1. Searchable /\ Noted /\ Closed /\ phase = "search"
    BY DEF Accept, SearchInv
  <1>2. \A s \in Services : ToSet(startAfter[s]) \subseteq Services
    <2> SUFFICES ASSUME NEW s \in Services, NEW n \in ToSet(startAfter[s])
                 PROVE  n \in Services
      OBVIOUS
    <2>1. s \in dependents[n]
      BY <1>1 DEF Noted, Searchable
    <2>2. n \in Keys
      BY <2>1, ListNames DEF Keys, SearchInv
    <2> QED BY <1>1, <2>2 DEF Searchable
  <1>3. TypeOK'
    BY <1>2 DEF Accept, SearchInv, TypeOK
  <1>4. (Searchable /\ Noted /\ Closed)'
    BY <1>1 DEF Accept, Searchable, Noted, Closed, Keys, Waits, Trace
  <1> QED BY <1>3, <1>4 DEF Accept, SearchInv

LEMMA StepSearch == SearchInv /\ [Next]_vars => SearchInv'
  <1>1. SearchInv /\ UNCHANGED vars => SearchInv'
    BY DEF vars, SearchInv, TypeOK, Noted, Searchable, Closed, Keys, Waits, Trace
  <1> QED BY <1>1, ExamineSearch, CheckAllExistSearch, DescendSearch, ReturnSearch,
             TakeRootSearch, AcceptSearch DEF Next

-----------------------------------------------------------------------------
\* Every variable keeps its type: the search only walks configured services.
THEOREM TypeCorrect == Spec => []TypeOK
  <1>1. SearchInv => TypeOK
    BY DEF SearchInv
  <1> QED BY <1>1, InitSearch, StepSearch, PTL DEF Spec

\* A list without repetition has as many members as entries.
LEMMA InjectiveListCardinality ==
  ASSUME NEW S, NEW list \in Seq(S), IsInjective(list)
  PROVE  Cardinality(ToSet(list)) = Len(list)
  <1>1. list \in Bijection(1..Len(list), ToSet(list))
    BY DEF IsInjective, ToSet, Bijection, Injection, Surjection
  <1>2. IsFiniteSet(1..Len(list)) /\ Cardinality(1..Len(list)) = Len(list)
    <2>1. Len(list) \in Nat
      OBVIOUS
    <2>2. /\ IsFiniteSet(1..Len(list))
          /\ Cardinality(1..Len(list)) = IF 1 > Len(list) THEN 0 ELSE Len(list) - 1 + 1
      BY <2>1, FS_Interval
    <2> QED BY <2>1, <2>2
  <1> QED BY <1>1, <1>2, FS_Bijection DEF ExistsBijection

\* What is accepted is what the manager is built for: a map of services to other
\* services, from lists without repetition.
THEOREM AcceptedGraphsAreWellFormed == Spec => []AcceptedIsWellFormed
  <1>1. SearchInv => AcceptedIsWellFormed
    <2> SUFFICES ASSUME SearchInv, outcome = "accepted", NEW s \in Services
                 PROVE  /\ startupMap[s] \subseteq Services \ {s}
                        /\ Cardinality(startupMap[s]) = Len(startAfter[s])
      BY DEF AcceptedIsWellFormed
    <2>1. /\ startupMap[s] = ToSet(startAfter[s])
          /\ startupMap[s] \subseteq Services
          /\ s \notin ToSet(startAfter[s])
          /\ IsInjective(startAfter[s])
      BY DEF SearchInv, TypeOK, Noted, Searchable
    <2>2. startAfter[s] \in Seq(Names)
      BY ListNames DEF SearchInv
    <2> QED BY <2>1, <2>2, InjectiveListCardinality
  <1> QED BY <1>1, InitSearch, StepSearch, PTL DEF Spec

\* No acyclic graph with a dependency in it is ever accepted: the search calls
\* itself for the dependents of a service, and one that nothing depends on makes
\* it throw.  So in an accepted graph every service that depends on one is
\* depended upon itself, and that is a cycle.
THEOREM OnlyCyclicGraphsAreAccepted ==
  Spec => [](outcome = "accepted" /\ (\E s \in Services : startAfter[s] # << >>) => ~Acyclic)
  <1>1. SearchInv => (outcome = "accepted" /\ (\E s \in Services : startAfter[s] # << >>) => ~Acyclic)
    <2> SUFFICES ASSUME SearchInv, outcome = "accepted", NEW s \in Services, startAfter[s] # << >>
                 PROVE  ~Acyclic
      OBVIOUS
    <2>1. /\ Noted /\ pending = {} /\ Keys \subseteq Services
          /\ \A v \in visited : dependents[v] # {}
          /\ \A v \in visited : dependents[v] \subseteq visited
          /\ Keys \subseteq visited /\ visited \subseteq Services
      BY DEF SearchInv, TypeOK, Searchable, Closed, Waits
    <2>2. PICK n : n \in ToSet(startAfter[s])
      <3>1. startAfter[s] \in Seq(Names)
        BY ListNames DEF SearchInv
      <3>2. 1 \in DOMAIN startAfter[s]
        BY <3>1
      <3> QED BY <3>2 DEF ToSet
    <2>3. n \in Keys
      BY <2>1, <2>2, ListNames DEF Noted, Keys, SearchInv
    <2>4. Keys \in (SUBSET Services) \ {{}}
      BY <2>1, <2>3
    <2>5. ASSUME NEW k \in Keys
          PROVE  \E t \in Keys : k \in ToSet(startAfter[t])
      <3>1. PICK t : t \in dependents[k]
        BY DEF Keys
      <3>2. t \in Keys /\ k \in ToSet(startAfter[t])
        BY <2>1, <3>1, ServicesAssumption DEF Keys, Noted
      <3> QED BY <3>2
    <2> QED BY <2>4, <2>5 DEF Acyclic
  <1> QED BY <1>1, InitSearch, StepSearch, PTL DEF Spec

-----------------------------------------------------------------------------
Distinct(calls) == \A i, j \in DOMAIN calls : calls[i].svc = calls[j].svc => i = j

LEMMA EnterDistinct ==
  ASSUME NEW calls \in Seq(Call), Distinct(calls), NEW svc \in Services, Enter(svc, calls),
         dependents[svc] \subseteq Services
  PROVE  NoServiceTwiceOnTrace'
  <1>1. CASE stack' = calls
    BY <1>1 DEF NoServiceTwiceOnTrace, Distinct
  <1>2. CASE stack' # calls
    <2> DEFINE c == [svc |-> svc, rest |-> dependents[svc]]
    <2>1. c \in Call /\ c.svc = svc
      BY DEF Call
    <2>2. svc \notin Trace(calls) /\ stack' = Append(calls, c)
      BY <1>2 DEF Enter
    <2> HIDE DEF c
    <2>3. /\ stack'[Len(stack')] = c
          /\ \A i \in DOMAIN calls : stack'[i] = calls[i] /\ calls[i].svc # svc
          /\ \A i \in DOMAIN stack' : i \in DOMAIN calls \/ i = Len(stack')
      BY <2>1, <2>2, PushProperties DEF Trace
    <2>4. ASSUME NEW i \in DOMAIN stack', NEW j \in DOMAIN stack', stack'[i].svc = stack'[j].svc
          PROVE  i = j
      BY <2>1, <2>3, <2>4 DEF Distinct
    <2> QED BY <2>4 DEF NoServiceTwiceOnTrace
  <1> QED BY <1>1, <1>2

\* The recursion of the cycle check never enters a service twice on one path,
\* whatever the graph: its depth is bounded by the number of services.
THEOREM RecursionIsBounded == Spec => []NoServiceTwiceOnTrace
  <1>1. Init => NoServiceTwiceOnTrace
    BY DEF Init, NoServiceTwiceOnTrace
  <1>2. SearchInv /\ NoServiceTwiceOnTrace /\ [Next]_vars => NoServiceTwiceOnTrace'
    <2> SUFFICES ASSUME SearchInv, NoServiceTwiceOnTrace, [Next]_vars
                 PROVE  NoServiceTwiceOnTrace'
      OBVIOUS
    <2>0. /\ stack \in Seq(Call) /\ Distinct(stack) /\ roots \subseteq Services
          /\ \A s \in Services : dependents[s] \subseteq Services
      BY ServicesAssumption DEF SearchInv, TypeOK, NoServiceTwiceOnTrace, Distinct
    <2>1. CASE UNCHANGED stack
      BY <2>1 DEF NoServiceTwiceOnTrace
    <2>2. CASE Descend
      <3>1. PICK svc \in Last(stack).rest : Enter(svc, Taken(stack, svc))
        BY <2>2 DEF Descend
      <3>2. PICK calls : calls = Taken(stack, svc) /\ Enter(svc, calls)
        BY <3>1
      <3>3. stack # << >> /\ svc \in Services
        BY <2>0, <2>2, LastIsACall DEF Descend
      <3>4. /\ calls \in Seq(Call) /\ DOMAIN calls = DOMAIN stack
            /\ \A i \in DOMAIN stack : calls[i].svc = stack[i].svc
        BY <2>0, <3>2, <3>3, AdvanceProperties
      <3>5. Distinct(calls)
        BY <2>0, <3>4 DEF Distinct
      <3> QED BY <2>0, <3>2, <3>3, <3>4, <3>5, EnterDistinct
    <2>3. CASE Return
      <3>1. stack # << >> /\ stack' = Front(stack)
        BY <2>3 DEF Return
      <3>2. \A i \in DOMAIN Front(stack) : i \in DOMAIN stack /\ Front(stack)[i] = stack[i]
        BY <2>0, <3>1, PopProperties
      <3> QED BY <2>0, <3>1, <3>2 DEF Distinct, NoServiceTwiceOnTrace
    <2>4. CASE TakeRoot
      <3>1. PICK r \in roots : UNCHANGED stack \/ Enter(r, << >>)
        BY <2>4 DEF TakeRoot
      <3>2. << >> \in Seq(Call) /\ Distinct(<< >>)
        BY DEF Distinct
      <3> QED BY <2>0, <2>1, <3>1, <3>2, EnterDistinct
    <2> QED BY <2>1, <2>2, <2>3, <2>4 DEF Next, ExamineService, RefuseSelf, RefuseDuplicate,
                Examine, CheckAllExist, Accept, vars
  <1> QED BY <1>1, <1>2, InitSearch, StepSearch, PTL DEF Spec

-----------------------------------------------------------------------------
(* The verdict, with what it rests on: a call takes dependents of its       *)
(* service only, a root is a key, and a refusal has its reason.             *)

VerdictInv ==
  /\ \A i \in DOMAIN stack : stack[i].rest \subseteq dependents[stack[i].svc]
  /\ roots \subseteq Keys
  /\ phase = "examine" => roots = {}
  /\ outcome \notin {"none", "accepted"} => ~Acceptable

LEMMA ExamineVerdict ==
  ASSUME SearchInv, VerdictInv, ExamineService
  PROVE  VerdictInv'
  <1>1. /\ phase = "examine" /\ outcome = "none" /\ stack = << >> /\ roots = {}
        /\ pending \subseteq Services
    BY DEF ExamineService, SearchInv, TypeOK, VerdictInv
  <1>2. PICK svc \in pending : RefuseSelf(svc) \/ RefuseDuplicate(svc) \/ Examine(svc)
    BY DEF ExamineService
  <1>3. CASE RefuseSelf(svc) \/ RefuseDuplicate(svc)
    BY <1>1, <1>3 DEF RefuseSelf, RefuseDuplicate, ListsItself, ListsTwice, VerdictInv, Acceptable
  <1>4. CASE Examine(svc)
    BY <1>1, <1>4 DEF Examine, VerdictInv
  <1> QED BY <1>2, <1>3, <1>4

LEMMA CheckAllExistVerdict ==
  ASSUME SearchInv, VerdictInv, CheckAllExist
  PROVE  VerdictInv'
  <1>1. /\ stack = << >> /\ outcome = "none"
        /\ UNCHANGED <<startAfter, dependents, stack>>
    BY DEF CheckAllExist, SearchInv
  <1>2. CASE Keys \subseteq Services
    BY <1>1, <1>2 DEF CheckAllExist, VerdictInv, Keys
  <1>3. CASE ~(Keys \subseteq Services)
    <2>1. PICK n \in Keys : n \notin Services
      BY <1>3
    <2>2. PICK s : s \in dependents[n]
      BY DEF Keys
    <2>3. n \in Names /\ s \in Services
      BY <2>2 DEF Keys, SearchInv, TypeOK
    <2>4. n \in ToSet(startAfter[s])
      BY <2>2, <2>3 DEF SearchInv, Noted
    <2>5. ~Acceptable
      BY <2>1, <2>3, <2>4 DEF Acceptable
    <2>6. ~Acceptable'
      BY <1>1, <2>5 DEF Acceptable
    <2> QED BY <1>1, <1>3, <2>6 DEF CheckAllExist, Throw, VerdictInv, Keys
  <1> QED BY <1>2, <1>3

\* What has dependents of its own is no reason to refuse; a dependent that has
\* none is.
LEMMA EnterVerdict ==
  ASSUME SearchInv, VerdictInv, phase = "search", NEW calls \in Seq(Call),
         NEW n \in Names, NEW svc \in dependents[n], Enter(svc, calls),
         UNCHANGED <<startAfter, dependents>>, roots' \subseteq roots,
         \A i \in DOMAIN calls : calls[i].rest \subseteq dependents[calls[i].svc]
  PROVE  VerdictInv'
  <1>1. svc \in Services /\ outcome = "none"
    BY DEF SearchInv, TypeOK
  <1>2. roots' \subseteq Keys'
    BY DEF VerdictInv, Keys
  <1>3. CASE stack' = calls /\ UNCHANGED <<phase, outcome>>
    BY <1>1, <1>2, <1>3 DEF VerdictInv
  <1>4. CASE dependents[svc] = {} /\ Throw("out_of_range") /\ stack' = calls
    <2>1. /\ n \in ToSet(startAfter[svc])
          /\ \A t \in Services : svc \notin ToSet(startAfter[t])
      BY <1>1, <1>4 DEF SearchInv, Noted, Searchable
    <2>2. startAfter[svc] # << >>
      BY <2>1 DEF ToSet
    <2>3. ~Acceptable
      BY <1>1, <2>1, <2>2 DEF Acceptable
    <2>4. ~Acceptable'
      BY <2>3 DEF Acceptable
    <2> QED BY <1>2, <1>4, <2>4 DEF VerdictInv, Throw
  <1>5. CASE /\ stack' = Append(calls, [svc |-> svc, rest |-> dependents[svc]])
             /\ UNCHANGED <<phase, outcome>>
    <2> DEFINE c == [svc |-> svc, rest |-> dependents[svc]]
    <2>1. c \in Call /\ c.svc = svc /\ c.rest = dependents[svc]
      BY <1>1, ServicesAssumption DEF Call, SearchInv, TypeOK
    <2>2. stack' = Append(calls, c)
      BY <1>5
    <2> HIDE DEF c
    <2>3. /\ stack'[Len(stack')] = c
          /\ \A i \in DOMAIN calls : stack'[i] = calls[i]
          /\ \A i \in DOMAIN stack' : i \in DOMAIN calls \/ i = Len(stack')
      BY <2>1, <2>2, PushProperties
    <2>4. \A i \in DOMAIN stack' : stack'[i].rest \subseteq dependents[stack'[i].svc]
      BY <2>1, <2>3
    <2> QED BY <1>1, <1>2, <1>5, <2>4 DEF VerdictInv
  <1> QED BY <1>3, <1>4, <1>5 DEF Enter

LEMMA SearchVerdict ==
  ASSUME SearchInv, VerdictInv, Descend \/ Return \/ TakeRoot
  PROVE  VerdictInv'
  <1>1. /\ phase = "search" /\ outcome = "none" /\ stack \in Seq(Call)
        /\ roots \subseteq Keys
        /\ UNCHANGED <<startAfter, dependents>>
    BY DEF Descend, Return, TakeRoot, SearchInv, TypeOK, VerdictInv
  <1>2. CASE Descend
    <2>1. stack # << >> /\ UNCHANGED roots
      BY <1>2 DEF Descend
    <2>2. PICK svc \in Last(stack).rest : Enter(svc, Taken(stack, svc))
      BY <1>2 DEF Descend
    <2>3. PICK calls : calls = Taken(stack, svc) /\ Enter(svc, calls)
      BY <2>2
    <2>4. /\ calls \in Seq(Call) /\ DOMAIN calls = DOMAIN stack
          /\ \A i \in DOMAIN stack : calls[i].svc = stack[i].svc
                                     /\ calls[i].rest \subseteq stack[i].rest
      BY <1>1, <2>1, <2>3, AdvanceProperties
    <2>5. \A i \in DOMAIN calls : calls[i].rest \subseteq dependents[calls[i].svc]
      BY <2>4 DEF VerdictInv
    <2>6. /\ Last(stack).svc \in Names
          /\ Last(stack).rest \subseteq dependents[Last(stack).svc]
      <3>1. Len(stack) \in DOMAIN stack /\ Last(stack) = stack[Len(stack)]
        BY <1>1, <2>1 DEF Last
      <3>2. Last(stack).svc \in Services
        BY <1>1, <2>1, LastIsACall DEF Call
      <3> QED BY <3>1, <3>2, ServicesAssumption DEF VerdictInv
    <2> QED BY <1>1, <2>1, <2>3, <2>4, <2>5, <2>6, EnterVerdict
  <1>3. CASE Return
    <2>1. /\ stack # << >> /\ stack' = Front(stack)
          /\ UNCHANGED <<phase, roots, outcome>>
      BY <1>3 DEF Return
    <2>2. \A i \in DOMAIN Front(stack) : i \in DOMAIN stack /\ Front(stack)[i] = stack[i]
      BY <1>1, <2>1, PopProperties
    <2> QED BY <1>1, <2>1, <2>2 DEF VerdictInv, Keys
  <1>4. CASE TakeRoot
    <2>1. PICK r \in roots :
            /\ roots' = roots \ {r}
            /\ \/ UNCHANGED <<phase, stack, outcome>>
               \/ Enter(r, << >>)
      BY <1>4 DEF TakeRoot
    <2>2. CASE UNCHANGED <<phase, stack, outcome>>
      BY <1>1, <2>1, <2>2 DEF VerdictInv, Keys
    <2>3. CASE Enter(r, << >>)
      <3>1. r \in Names /\ dependents[r] # {} /\ r \in Services
        BY <1>1, <2>1 DEF Keys, SearchInv, TypeOK
      <3>2. CASE stack' = << >> /\ UNCHANGED <<phase, outcome>>
        BY <1>1, <2>1, <3>2 DEF VerdictInv, Keys
      <3>3. CASE /\ stack' = Append(<< >>, [svc |-> r, rest |-> dependents[r]])
                 /\ UNCHANGED <<phase, outcome>>
        <4>1. \A i \in DOMAIN stack' : stack'[i] = [svc |-> r, rest |-> dependents[r]]
          BY <3>3
        <4>2. \A i \in DOMAIN stack' : stack'[i].rest \subseteq dependents[stack'[i].svc]
          BY <4>1
        <4> QED BY <1>1, <2>1, <3>3, <4>2 DEF VerdictInv, Keys
      <3> QED BY <2>3, <3>1, <3>2, <3>3 DEF Enter
    <2> QED BY <2>1, <2>2, <2>3
  <1> QED BY <1>2, <1>3, <1>4

\* Whatever the orders, a configuration is accepted exactly when its graph is
\* what detectCycleDFS() lets through.
THEOREM VerdictDependsOnTheGraph == Spec => []VerdictIsOfTheGraph
  <1>1. Init => VerdictInv
    BY DEF Init, VerdictInv
  <1>2. SearchInv /\ VerdictInv /\ [Next]_vars => VerdictInv'
    <2>1. SearchInv /\ VerdictInv /\ Accept => VerdictInv'
      BY DEF SearchInv, VerdictInv, Accept, Keys
    <2>2. VerdictInv /\ UNCHANGED vars => VerdictInv'
      BY DEF VerdictInv, vars, Keys, Acceptable
    <2> QED BY <2>1, <2>2, ExamineVerdict, CheckAllExistVerdict, SearchVerdict DEF Next
  <1>3. SearchInv /\ VerdictInv => VerdictIsOfTheGraph
    <2> SUFFICES ASSUME SearchInv, VerdictInv, outcome = "accepted"
                 PROVE  Acceptable
      BY DEF VerdictIsOfTheGraph, VerdictInv
    <2>1. /\ Noted /\ pending = {} /\ stack = << >>
          /\ \A v \in visited : dependents[v] # {}
          /\ \A v \in visited : dependents[v] \subseteq visited
          /\ Keys \subseteq visited /\ visited \subseteq Services
      BY DEF SearchInv, TypeOK, Searchable, Closed, Waits
    <2> SUFFICES ASSUME NEW s \in Services
                 PROVE  /\ ToSet(startAfter[s]) \subseteq Services \ {s}
                        /\ IsInjective(startAfter[s])
                        /\ startAfter[s] # << >> => \E t \in Services : s \in ToSet(startAfter[t])
      BY DEF Acceptable
    <2>2. \A n \in ToSet(startAfter[s]) : n \in visited /\ s \in dependents[n]
      BY <2>1, ListNames DEF Noted, Keys, SearchInv
    <2>3. ASSUME startAfter[s] # << >>
          PROVE  \E t \in Services : s \in ToSet(startAfter[t])
      <3>1. PICK n : n \in ToSet(startAfter[s])
        <4>1. startAfter[s] \in Seq(Names) /\ 1 \in DOMAIN startAfter[s]
          BY <2>3, ListNames DEF SearchInv
        <4> QED BY <4>1 DEF ToSet
      <3>2. s \in visited
        BY <2>1, <2>2, <3>1
      <3>3. PICK t \in dependents[s] : TRUE
        BY <2>1, <3>2
      <3> QED BY <2>1, <3>3, ServicesAssumption DEF Noted, SearchInv, TypeOK
    <2> QED BY <2>1, <2>2, <2>3 DEF Noted
  <1> QED BY <1>1, <1>2, <1>3, InitSearch, StepSearch, PTL DEF Spec

=============================================================================
