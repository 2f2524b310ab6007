--------------------- MODULE LoggerOutputForwarder_proofs ---------------------
(***************************************************************************)
(* Proofs about LoggerOutputForwarder, for every capacity of the pipe, every *)
(* set of descendants and every number of messages: the pipe holds what has  *)
(* been written and not read, in order, whoever of the two readers takes it. *)
(***************************************************************************)
EXTENDS LoggerOutputForwarder, TLAPS

\* The part of the types the arguments need.
Sequenced ==
  /\ collected \in Seq(Nat) /\ pipe \in Seq(Nat)
  /\ written \in Nat /\ owed \in Nat /\ due \in Nat

\* Message Len(collected) + i is the i-th of the pipe.
InOrder ==
  life = "alive" =>
    /\ written = Len(collected) + Len(pipe)
    /\ \A i \in DOMAIN pipe : pipe[i] = Len(collected) + i

Unborn == life = "unborn" => /\ written = 0 /\ pipe = << >> /\ collected = << >>
                             /\ pc = "loop" /\ owed = 0
                             /\ service = "unforked" /\ reading = "none"

\* What readRemaining() owes and has not read, it still counts on.
Accounted ==
  life = "alive" =>
    /\ owed <= written
    /\ pc = "readRemaining" => /\ owed <= Len(collected) + due
                               /\ failed => owed <= Len(collected)
    /\ service = "reaped" /\ pc # "readRemaining" => owed <= Len(collected)

Listening ==
  /\ life = "alive" /\ pc \in {"loop", "readRemaining"} /\ holders # {} => reading # "none"
  /\ pc \in {"loop", "readAll", "readRemaining"}

ForwarderInv == Sequenced /\ InOrder /\ Unborn /\ Accounted /\ Listening

-----------------------------------------------------------------------------
LEMMA InitForwarder == Init => ForwarderInv
  BY DEF Init, ForwarderInv, Sequenced, InOrder, Unborn, Accounted, Listening

\* A read() that finds a packet returns the next message.
LEMMA ReadPacketProperties ==
  ASSUME Sequenced, InOrder, life = "alive", UNCHANGED written, ReadPacket
  PROVE  /\ collected' \in Seq(Nat) /\ pipe' \in Seq(Nat)
         /\ collected' = Append(collected, Len(collected) + 1)
         /\ Len(collected') = Len(collected) + 1
         /\ Len(collected) < written
         /\ written' = Len(collected') + Len(pipe')
         /\ \A i \in DOMAIN pipe' : pipe'[i] = Len(collected') + i
  <1>1. /\ pipe # << >> /\ pipe' = Tail(pipe) /\ collected' = Append(collected, Head(pipe))
        /\ written' = written
    BY DEF ReadPacket
  <1>2. /\ Len(pipe) \in Nat \ {0} /\ 1 \in DOMAIN pipe /\ Head(pipe) = pipe[1]
        /\ Head(pipe) \in Nat
    BY <1>1 DEF Sequenced
  <1>3. Head(pipe) = Len(collected) + 1
    BY <1>2 DEF InOrder
  <1>4. /\ collected' \in Seq(Nat) /\ pipe' \in Seq(Nat)
        /\ Len(collected') = Len(collected) + 1 /\ Len(pipe') = Len(pipe) - 1
        /\ Len(collected) \in Nat
    BY <1>1, <1>2 DEF Sequenced
  <1>5. ASSUME NEW i \in DOMAIN pipe'
        PROVE  pipe'[i] = Len(collected') + i
    <2>1. i \in 1..(Len(pipe) - 1)
      BY <1>4
    <2>2. i + 1 \in DOMAIN pipe /\ pipe'[i] = pipe[i + 1]
      BY <1>1, <1>2, <2>1 DEF Sequenced
    <2>3. pipe[i + 1] = Len(collected) + (i + 1)
      BY <2>2 DEF InOrder
    <2> QED BY <1>4, <2>1, <2>2, <2>3
  <1> QED BY <1>1, <1>2, <1>3, <1>4, <1>5 DEF InOrder

LEMMA WorldForwarder ==
  ASSUME ForwarderInv, World
  PROVE  ForwarderInv'
  <1>1. CASE ProcessWrites
    <2>1. /\ life = "alive" /\ life' = "alive" /\ written' = written + 1
          /\ pipe' = Append(pipe, written + 1)
          /\ UNCHANGED <<pc, reading, due, failed, owed, service, holders, collected>>
      BY <1>1 DEF ProcessWrites, reader, sink
    <2>2. /\ pipe' \in Seq(Nat) /\ Len(pipe') = Len(pipe) + 1
          /\ pipe'[Len(pipe) + 1] = written + 1
          /\ \A i \in DOMAIN pipe : pipe'[i] = pipe[i]
          /\ \A i \in DOMAIN pipe' : i \in DOMAIN pipe \/ i = Len(pipe) + 1
      BY <2>1 DEF ForwarderInv, Sequenced
    <2>3. Len(collected) \in Nat /\ Len(pipe) \in Nat
      BY DEF ForwarderInv, Sequenced
    <2>4. Sequenced' /\ InOrder'
      BY <2>1, <2>2, <2>3 DEF ForwarderInv, Sequenced, InOrder
    <2>5. Accounted'
      BY <2>1 DEF ForwarderInv, Sequenced, Accounted
    <2> QED BY <2>1, <2>4, <2>5 DEF ForwarderInv, Unborn, Listening
  <1>2. CASE ServiceExits
    BY <1>2 DEF ServiceExits, ForwarderInv, Sequenced, InOrder, Unborn, Accounted, Listening,
                reader, sink
  <1>3. CASE PipeReadable
    BY <1>3 DEF PipeReadable, ForwarderInv, Sequenced, InOrder, Unborn, Accounted, Listening,
                world, sink
  <1>4. ASSUME NEW p, Closes(p)
        PROVE  ForwarderInv'
    BY <1>4 DEF Closes, ForwarderInv, Sequenced, InOrder, Unborn, Accounted, Listening,
                reader, sink
  <1> QED BY <1>1, <1>2, <1>3, <1>4 DEF World

LEMMA ReadAllForwarder ==
  ASSUME ForwarderInv, ReadAll
  PROVE  ForwarderInv'
  <1>1. /\ life = "alive" /\ life' = "alive" /\ pc = "readAll"
        /\ UNCHANGED <<due, failed, owed, service, holders, written>>
    BY DEF ReadAll, world
  <1>2. CASE ReadPacket /\ UNCHANGED <<pc, reading>>
    <2>1. /\ Sequenced' /\ InOrder' /\ Len(collected') = Len(collected) + 1
          /\ Len(collected) \in Nat
      BY <1>1, <1>2, ReadPacketProperties DEF ForwarderInv, Sequenced, InOrder
    <2> QED BY <1>1, <1>2, <2>1 DEF ForwarderInv, Unborn, Accounted, Listening, Sequenced
  <1>3. CASE /\ pipe = << >> /\ pc' = "loop"
             /\ reading' = (IF holders # {} THEN "waiting" ELSE "none")
             /\ UNCHANGED <<pipe, sink>>
    BY <1>1, <1>3 DEF ForwarderInv, Sequenced, InOrder, Unborn, Accounted, Listening, sink
  <1> QED BY <1>2, <1>3 DEF ReadAll

\* The loop of readRemaining() ends no sooner than it has read what it owes.
LEMMA RemainingForwarder ==
  ASSUME ForwarderInv, RemainingPacket
  PROVE  ForwarderInv'
  <1>1. /\ life = "alive" /\ life' = "alive" /\ pc = "readRemaining"
        /\ UNCHANGED <<reading, failed, owed, service, holders, written>>
        /\ ReadPacket
        /\ due' = IF due = 0 THEN 0 ELSE due - 1
        /\ pc' \in IF failed THEN {"readRemaining", "loop"}
                   ELSE IF due' = 0 THEN {"loop"} ELSE {"readRemaining"}
    BY DEF RemainingPacket, world
  <1>2. /\ Sequenced' /\ InOrder' /\ Len(collected') = Len(collected) + 1
        /\ Len(collected) \in Nat /\ due \in Nat /\ owed \in Nat
    BY <1>1, ReadPacketProperties DEF ForwarderInv, Sequenced, InOrder
  <1>3. owed <= Len(collected') + due' /\ (failed => owed <= Len(collected'))
    BY <1>1, <1>2 DEF ForwarderInv, Accounted
  <1>4. pc' # "readRemaining" => failed \/ due' = 0
    BY <1>1
  <1>5. owed <= Len(collected') \/ pc' = "readRemaining"
    BY <1>2, <1>3, <1>4
  <1>6. Accounted'
    BY <1>1, <1>3, <1>5 DEF ForwarderInv, Accounted
  <1> QED BY <1>1, <1>2, <1>6 DEF ForwarderInv, Unborn, Listening

LEMMA StepForwarder == ForwarderInv /\ [Next]_vars => ForwarderInv'
  <1> SUFFICES ASSUME ForwarderInv, [Next]_vars
               PROVE  ForwarderInv'
    OBVIOUS
  <1>1. CASE Construct
    BY <1>1 DEF Construct, ForwarderInv, Sequenced, InOrder, Unborn, Accounted, Listening, sink
  <1>2. CASE HandleRead
    BY <1>2 DEF HandleRead, ForwarderInv, Sequenced, InOrder, Unborn, Accounted, Listening,
                world, sink
  <1>3. CASE ReadRemaining
    <2>1. Len(pipe) \in Nat /\ Len(collected) \in Nat
      BY DEF ForwarderInv, Sequenced
    <2> QED BY <1>3, <2>1 DEF ReadRemaining, ForwarderInv, Sequenced, InOrder, Unborn, Accounted,
                             Listening, sink
  <1>4. CASE RemainingEnd \/ RemainingFails
    <2>1. /\ life = "alive" /\ pc = "readRemaining" /\ pipe = << >>
          /\ UNCHANGED <<life, reading, due, owed, service, holders, written, pipe, collected>>
          /\ pc' \in {"loop", "readRemaining"}
      BY <1>4 DEF RemainingEnd, RemainingFails, reader, world, sink
    <2>2. Len(collected) = written /\ Len(collected) \in Nat /\ owed <= Len(collected) + due
      BY <2>1 DEF ForwarderInv, Sequenced, InOrder, Accounted
    <2>3. owed <= Len(collected)
      BY <2>1, <2>2 DEF ForwarderInv, Accounted
    <2> QED BY <2>1, <2>2, <2>3 DEF ForwarderInv, Sequenced, InOrder, Unborn, Accounted, Listening
  <1>5. CASE RemainingCrashes \/ Destroy \/ DanglingHandler
    <2>1. /\ life' \in {"destroyed", "crashed"} /\ (pipe' = pipe \/ pipe' = << >>)
          /\ UNCHANGED <<pc, due, owed, written, collected>>
      BY <1>5 DEF RemainingCrashes, Destroy, DanglingHandler, reader, world, sink
    <2>2. pipe' \in Seq(Nat)
      <3>1. << >> \in Seq(Nat)
        OBVIOUS
      <3>2. pipe \in Seq(Nat)
        BY DEF ForwarderInv, Sequenced
      <3> QED BY <2>1, <3>1, <3>2
    <2>3. Sequenced'
      BY <2>1, <2>2 DEF ForwarderInv, Sequenced
    <2>4. life' # "alive" /\ life' # "unborn"
      BY <2>1
    <2>5. InOrder' /\ Accounted' /\ Unborn'
      BY <2>4 DEF InOrder, Accounted, Unborn
    <2> QED BY <2>1, <2>3, <2>4, <2>5 DEF ForwarderInv, Listening
  <1>6. CASE UNCHANGED vars
    BY <1>6 DEF vars, reader, world, sink, ForwarderInv, Sequenced, InOrder, Unborn, Accounted,
                Listening
  <1> QED BY <1>1, <1>2, <1>3, <1>4, <1>5, <1>6, WorldForwarder, ReadAllForwarder,
             RemainingForwarder DEF Next, Loop

-----------------------------------------------------------------------------
(* Types, and the count of readRemaining().                                *)

LEMMA InitType == Init => TypeOK
  <1> SUFFICES ASSUME Init
               PROVE  TypeOK
    OBVIOUS
  <1>1. << >> \in Seq(1..MaxMessages) /\ 0 \in 0..MaxMessages
    BY BoundsAssumption
  <1>2. written \in 0..MaxMessages /\ owed \in 0..written /\ due \in Nat
    BY <1>1 DEF Init
  <1>3. /\ pipe \in Seq(1..MaxMessages) /\ collected \in Seq(1..MaxMessages)
        /\ output \in {<< >>, RawBytes(2), RawBytes(3)}
    BY <1>1 DEF Init
  <1> QED BY <1>2, <1>3 DEF Init, TypeOK

\* Packets are taken from the pipe.
LEMMA ReadPacketType ==
  ASSUME TypeOK, ReadPacket
  PROVE  /\ pipe' \in Seq(1..MaxMessages)
         /\ collected' \in Seq(1..MaxMessages)
         /\ output' \in {RawBytes(2), RawBytes(3)}
         /\ Len(pipe') = Len(pipe) - 1
         /\ Len(pipe) \in Nat \ {0}
  <1>1. Head(pipe) \in 1..MaxMessages
    <2>1. pipe \in Seq(1..MaxMessages) /\ pipe # << >>
      BY DEF ReadPacket, TypeOK
    <2>2. \A S : \A q \in Seq(S) : q # << >> => Head(q) \in S
      OBVIOUS
    <2> QED BY <2>1, <2>2
  <1>2. output' \in {RawBytes(2), RawBytes(3)}
    BY DEF ReadPacket, Write
  <1> QED BY <1>1, <1>2 DEF ReadPacket, TypeOK

LEMMA WorldType ==
  ASSUME TypeOK, World
  PROVE  TypeOK'
  <1> USE DEF reader, sink
  <1>1. CASE ProcessWrites
    <2>1. written' \in 1..MaxMessages /\ owed \in 0..written'
      BY <1>1, BoundsAssumption DEF ProcessWrites, TypeOK
    <2>2. pipe' \in Seq(1..MaxMessages) /\ Len(pipe') = Len(pipe) + 1 /\ Len(pipe) \in Nat
      BY <1>1, <2>1 DEF ProcessWrites, TypeOK
    <2> QED BY <1>1, <2>1, <2>2 DEF ProcessWrites, TypeOK
  <1>2. CASE ServiceExits \/ \E p \in {"service"} \cup Descendants : Closes(p)
    <2>1. /\ \E p : holders' = holders \ {p}
          /\ service' \in {service, "exited"}
          /\ UNCHANGED <<life, pc, reader, owed, written, pipe, sink>>
      BY <1>2 DEF ServiceExits, Closes
    <2>2. holders' \subseteq {"init", "service"} \cup Descendants
      BY <2>1 DEF TypeOK
    <2> QED BY <2>1, <2>2 DEF TypeOK
  <1>3. CASE PipeReadable
    BY <1>3 DEF PipeReadable, world, TypeOK
  <1> QED BY <1>1, <1>2, <1>3 DEF World

LEMMA StepType == TypeOK /\ [Next]_vars => TypeOK'
  <1> SUFFICES ASSUME TypeOK, [Next]_vars
               PROVE  TypeOK'
    OBVIOUS
  <1> USE DEF reader, world, sink
  <1>1. CASE Construct
    BY <1>1 DEF Construct, TypeOK
  <1>2. CASE HandleRead
    BY <1>2 DEF HandleRead, TypeOK
  <1>3. CASE ReadAll
    <2>1. CASE ReadPacket /\ UNCHANGED <<pc, reading>>
      <3>1. pc = "readAll" /\ UNCHANGED <<life, due, failed, owed, service, holders, written>>
        BY <1>3 DEF ReadAll
      <3> QED BY <2>1, <3>1, ReadPacketType DEF TypeOK
    <2>2. CASE pipe = << >> /\ pc' = "loop" /\ UNCHANGED <<pipe, collected, output>>
      BY <1>3, <2>2 DEF ReadAll, ReadPacket, TypeOK
    <2> QED BY <1>3, <2>1, <2>2 DEF ReadAll
  <1>4. CASE ReadRemaining
    <2>1. due' \in Nat /\ due' <= Len(pipe') /\ owed' \in 0..written'
      <3>1. pipe \in Seq(1..MaxMessages) /\ written \in 0..MaxMessages
        BY DEF TypeOK
      <3>2. due' = Len(pipe) /\ pipe' = pipe /\ owed' = written /\ written' = written
        BY <1>4 DEF ReadRemaining
      <3> QED BY <3>1, <3>2, BoundsAssumption
    <2>2. /\ service' = "reaped" /\ pc' = "readRemaining" /\ failed' = FALSE
          /\ UNCHANGED <<life, reading, holders, written, pipe, sink>>
      BY <1>4 DEF ReadRemaining
    <2> QED BY <2>1, <2>2 DEF TypeOK
  <1>5. CASE RemainingPacket
    <2>1. /\ pc = "readRemaining" /\ ReadPacket
          /\ UNCHANGED <<life, reading, failed, owed, service, holders, written>>
          /\ due' = IF due = 0 THEN 0 ELSE due - 1
          /\ pc' \in {"readRemaining", "loop"}
      BY <1>5 DEF RemainingPacket
    <2>2. due' \in Nat /\ due' <= Len(pipe') /\ (failed' => due' = 0)
      BY <2>1, ReadPacketType DEF TypeOK
    <2> QED BY <2>1, <2>2, ReadPacketType DEF TypeOK
  <1>6. CASE RemainingEnd \/ RemainingFails \/ RemainingCrashes
    <2>1. pc = "readRemaining" /\ pipe = << >> => due = 0
      BY DEF TypeOK
    <2> QED BY <1>6, <2>1 DEF RemainingEnd, RemainingFails, RemainingCrashes, Write, TypeOK
  <1>7. CASE Destroy \/ DanglingHandler
    <2>1. << >> \in Seq(1..MaxMessages)
      OBVIOUS
    <2>2. /\ pc' = pc /\ (pipe' = pipe \/ (pc = "loop" /\ pipe' = << >>))
          /\ life' \in {"destroyed", "crashed"} /\ reading' \in {"queued", "none"}
          /\ UNCHANGED <<due, failed, owed, world, sink>>
      BY <1>7 DEF Destroy, DanglingHandler
    <2>3. pipe' \in Seq(1..MaxMessages)
      BY <2>1, <2>2 DEF TypeOK
    <2> QED BY <2>2, <2>3 DEF TypeOK
  <1>8. CASE UNCHANGED vars
    BY <1>8 DEF vars, TypeOK
  <1> QED BY <1>1, <1>2, <1>3, <1>4, <1>5, <1>6, <1>7, <1>8, WorldType DEF Next, Loop

\* Types; readRemaining() counts on no packet that the other reader has taken,
\* and a read of its can only fail when it counts on none.
THEOREM TypeCorrect == Spec => []TypeOK
  BY InitType, StepType, PTL DEF Spec

-----------------------------------------------------------------------------
\* What a service had written when it died has been read from the pipe when
\* processTerminated() goes on.
THEOREM LastWords == Spec => []LastWordsAreRead
  <1>1. ForwarderInv => LastWordsAreRead
    BY DEF ForwarderInv, Accounted, Sequenced, LastWordsAreRead
  <1> QED BY <1>1, InitForwarder, StepForwarder, PTL DEF Spec

\* As long as somebody holds the pipe, init's loop listens to it.
THEOREM NobodyIsIgnored == Spec => []ListensWhileOpen
  <1>1. ForwarderInv => ListensWhileOpen
    BY DEF ForwarderInv, Listening, ListensWhileOpen
  <1> QED BY <1>1, InitForwarder, StepForwarder, PTL DEF Spec

\* The forwarder implements the safety part of LogIntake: whichever of readAll()
\* and readRemaining() calls read(), a message is taken from the pipe once and in
\* its turn, and a read() that fails takes none, although the code passes it on
\* as one.  (That none stays in the pipe for ever is checked by TLC; what write()
\* makes of a message is not what this is about.)
THEOREM ForwarderImplementsIntake == Spec => Intake!Init /\ [][Intake!Next]_(Intake!vars)
  <1>1. Init => Intake!Init
    BY DEF Init, Intake!Init
  <1>2. ForwarderInv /\ [Next]_vars => [Intake!Next]_(Intake!vars)
    <2> SUFFICES ASSUME ForwarderInv, [Next]_vars
                 PROVE  [Intake!Next]_(Intake!vars)
      OBVIOUS
    <2> USE DEF Intake!Next, Intake!vars
    <2>1. CASE Construct
      BY <2>1 DEF Construct, Intake!Start, ForwarderInv, Unborn, sink
    <2>2. CASE World
      BY <2>2 DEF World, ProcessWrites, ServiceExits, PipeReadable, Closes, Intake!Write,
                  world, sink
    <2>3. CASE ReadPacket /\ UNCHANGED <<life, written>> /\ life = "alive"
      <3>1. Len(collected) < written /\ collected' = Append(collected, Len(collected) + 1)
        BY <2>3, ReadPacketProperties DEF ForwarderInv
      <3> QED BY <2>3, <3>1 DEF Intake!Collect
    <2>4. CASE UNCHANGED <<life, written, collected>>
      BY <2>4
    <2>5. CASE RemainingCrashes \/ Destroy
      BY <2>5 DEF RemainingCrashes, Destroy, Intake!End, world, sink
    <2>6. CASE DanglingHandler
      BY <2>6 DEF DanglingHandler, world, sink
    <2> QED BY <2>1, <2>2, <2>3, <2>4, <2>5, <2>6 DEF Next, Loop, HandleRead, ReadAll,
               ReadRemaining, RemainingPacket, RemainingEnd, RemainingFails, vars, world, sink
  <1> QED BY <1>1, <1>2, InitForwarder, StepForwarder, PTL DEF Spec
=============================================================================
