------------------------- MODULE LoggerOutputForwarder -------------------------
(***************************************************************************)
(* One LoggerOutputForwarderImp (loggerOutputForwarderImp.cpp): the pipe    *)
(* that replaces stdout or stderr of a service, and init's end of it.       *)
(*                                                                         *)
(* The pipe is made with O_DIRECT, so that it carries packets: a read()     *)
(* returns one message.  Init reads it in two places: readAll(), in the     *)
(* handler that runs when the pipe has become readable, and                 *)
(* readRemaining(), which processTerminated() calls when the service has    *)
(* been reaped.  Both loop over read() while the service, or a descendant   *)
(* that has inherited the pipe, may write or exit: a step is one read().    *)
(*                                                                         *)
(* readRemaining() keeps what read() returns in a size_t, so that a read    *)
(* that fails because the pipe is empty counts as a message of 2^64-1       *)
(* bytes, which is passed on like any other.  Bytes are not counted here:   *)
(* `due` are the packets FIONREAD announced that have not been read, and    *)
(* once a read has `failed` the code's counter is positive by a number of   *)
(* bytes that is abstracted.                                                *)
(*                                                                         *)
(* What is read (`collected`) and what goes out (`output`) are two things:  *)
(* write() does not write the message it is called with.                    *)
(***************************************************************************)
EXTENDS Naturals, Sequences

CONSTANTS Descendants,   \* processes that inherit the pipe from the service
          Detached,      \* those that have left the process group of the service
          Partial,       \* the messages that do not end with a newline
          Capacity,      \* how many packets the pipe holds
          MaxMessages    \* bound: how many messages are written

ASSUME ProcessesAssumption == /\ Detached \subseteq Descendants
                              /\ Descendants \cap {"service", "init"} = {}
ASSUME BoundsAssumption == /\ Capacity \in Nat \ {0}
                           /\ MaxMessages \in Nat
                           /\ Partial \subseteq Nat

VARIABLES
  life,      \* "unborn", "alive", "destroyed", or "crashed" by undefined behaviour
  pc,        \* what init executes: its "loop", "readAll" or "readRemaining"
  reading,   \* the asynchronous read: "waiting", "queued" (its handler) or "none"
  due,       \* readRemaining(): announced packets that are still to be read
  failed,    \* readRemaining(): a read() has failed
  service,   \* the service: not "forked", "running", "exited" or "reaped"
  holders,   \* the processes that hold the write end
  pipe,      \* the packets in the pipe
  written,   \* how many messages have been written so far
  owed,      \* how many had been written when readRemaining() was called
  collected, \* the messages that read() has returned, in order
  output     \* what reached outputFd last; << >> if nothing has

reader == <<reading, due, failed>>
world  == <<service, holders, written>>
sink   == <<collected, output>>
vars   == <<life, pc, reader, owed, world, pipe, sink>>

-----------------------------------------------------------------------------
\* A line of the log as the comment in write() describes it: the prefix, the
\* text, and a newline if the text ends without one.
LogLine(m) == <<"prefix", m>> \o (IF m \in Partial THEN <<"newline">> ELSE << >>)

\* The first n bytes of the array of iovecs that points to the three.
RawBytes(n) == <<"iovec", n>>

Init ==
  /\ life = "unborn" /\ pc = "loop"
  /\ reading = "none" /\ due = 0 /\ failed = FALSE
  /\ service = "unforked" /\ holders = {} /\ pipe = << >> /\ written = 0 /\ owed = 0
  /\ collected = << >> /\ output = << >>

\* BUG: init keeps its copy of the write end.
ConstructKeepingChildFd ==
  /\ life = "unborn"
  /\ life' = "alive"
  /\ reading' = "waiting"
  /\ \/ holders' = {"init"} /\ UNCHANGED service
     \/ holders' = {"init", "service"} \cup Descendants /\ service' = "running"
  /\ UNCHANGED <<pc, due, failed, owed, written, pipe, sink>>

\* The constructor, and what the owner does in its own: the service, if it is
\* forked at all, inherits the write end; init closes it (closeChildFd()).
Construct ==
  /\ life = "unborn"
  /\ life' = "alive"
  /\ reading' = "waiting"
  /\ \/ UNCHANGED <<holders, service>>
     \/ holders' = {"service"} \cup Descendants /\ service' = "running"
  /\ UNCHANGED <<pc, due, failed, owed, written, pipe, sink>>

-----------------------------------------------------------------------------
(* The world.                                                              *)

\* A process writes a message; it would block while the pipe is full.
ProcessWrites ==
  /\ life = "alive" /\ holders # {}
  /\ written < MaxMessages /\ Len(pipe) < Capacity
  /\ written' = written + 1
  /\ pipe' = Append(pipe, written')
  /\ UNCHANGED <<life, pc, reader, owed, service, holders, sink>>

\* A process closes the pipe, or exits.
Closes(p) ==
  /\ p \in holders
  /\ holders' = holders \ {p}
  /\ UNCHANGED <<life, pc, reader, owed, service, written, pipe, sink>>

ServiceExits ==
  /\ service = "running"
  /\ service' = "exited"
  /\ holders' = holders \ {"service"}
  /\ UNCHANGED <<life, pc, reader, owed, written, pipe, sink>>

\* The pipe has something to read, or nobody can write to it any more.
PipeReadable ==
  /\ life = "alive" /\ reading = "waiting"
  /\ pipe # << >> \/ holders = {}
  /\ reading' = "queued"
  /\ UNCHANGED <<life, pc, due, failed, owed, world, pipe, sink>>

World == ProcessWrites \/ ServiceExits \/ PipeReadable
           \/ \E p \in {"service"} \cup Descendants : Closes(p)

-----------------------------------------------------------------------------
\* write(): the array of iovecs is passed to the system call write(), not to
\* writev(), with their number, 2 or 3, as the length.
Write(newline) == output' = RawBytes(IF newline THEN 2 ELSE 3)

\* A read() that finds a packet, which write() is called with.
ReadPacket ==
  /\ pipe # << >>
  /\ pipe' = Tail(pipe)
  /\ collected' = Append(collected, Head(pipe))
  /\ Write(Head(pipe) \notin Partial)

\* The handler of the asynchronous read.
HandleRead ==
  /\ life = "alive" /\ pc = "loop" /\ reading = "queued"
  /\ pc' = "readAll"
  /\ reading' = "none"
  /\ UNCHANGED <<life, due, failed, owed, world, pipe, sink>>

\* BUG: after the pipe was found empty it is not waited for again.
ReadAllForgetsToWait ==
  /\ life = "alive" /\ pc = "readAll"
  /\ \/ ReadPacket /\ UNCHANGED pc
     \/ pipe = << >> /\ pc' = "loop" /\ UNCHANGED <<pipe, sink>>
  /\ UNCHANGED <<life, reading, due, failed, owed, world>>

\* BUG: one more packet is read than is written.
ReadAllDropping ==
  /\ life = "alive" /\ pc = "readAll"
  /\ \/ /\ Len(pipe) > 1 /\ pipe' = Tail(Tail(pipe))
        /\ collected' = Append(collected, Head(pipe))
        /\ UNCHANGED <<pc, reading, output>>
     \/ /\ Len(pipe) < 2 /\ pc' = "loop"
        /\ reading' = IF holders # {} THEN "waiting" ELSE "none"
        /\ UNCHANGED <<pipe, sink>>
  /\ UNCHANGED <<life, due, failed, owed, world>>

\* One turn of readAll(): until the pipe is empty (EAGAIN), and then it is
\* waited for, or at its end, and then it is not.
ReadAll ==
  /\ life = "alive" /\ pc = "readAll"
  /\ \/ ReadPacket /\ UNCHANGED <<pc, reading>>
     \/ /\ pipe = << >> /\ pc' = "loop"
        /\ reading' = IF holders # {} THEN "waiting" ELSE "none"
        /\ UNCHANGED <<pipe, sink>>
  /\ UNCHANGED <<life, due, failed, owed, world>>

-----------------------------------------------------------------------------
\* BUG: all that was ever written is taken for unread.
ReadRemainingOfAll ==
  /\ life = "alive" /\ pc = "loop" /\ service = "exited"
  /\ service' = "reaped"
  /\ pc' = "readRemaining"
  /\ due' = written /\ failed' = FALSE
  /\ owed' = written
  /\ UNCHANGED <<life, reading, holders, written, pipe, sink>>

\* processTerminated() kills the process group of the service and calls
\* readRemaining(), which asks how much there is to read.
ReadRemaining ==
  /\ life = "alive" /\ pc = "loop" /\ service = "exited"
  /\ service' = "reaped"
  /\ pc' = "readRemaining"
  /\ due' = Len(pipe) /\ failed' = FALSE
  /\ owed' = written
  /\ UNCHANGED <<life, reading, holders, written, pipe, sink>>

\* BUG: what has been announced is not counted down: the loop ends after a read().
RemainingPacketOnce ==
  /\ life = "alive" /\ pc = "readRemaining"
  /\ ReadPacket
  /\ due' = 0 /\ pc' = "loop"
  /\ UNCHANGED <<life, reading, failed, owed, world>>

\* A read() of its loop that finds a packet.  The loop ends when as much has
\* been read as was announced; after a failed read() the counter is too high by
\* a number of bytes that the packet may or may not make up for.
RemainingPacket ==
  /\ life = "alive" /\ pc = "readRemaining"
  /\ ReadPacket
  /\ due' = IF due = 0 THEN 0 ELSE due - 1
  /\ pc' \in IF failed THEN {"readRemaining", "loop"}
             ELSE IF due' = 0 THEN {"loop"} ELSE {"readRemaining"}
  /\ UNCHANGED <<life, reading, failed, owed, world>>

\* One that finds the end of the pipe.
RemainingEnd ==
  /\ life = "alive" /\ pc = "readRemaining"
  /\ pipe = << >> /\ holders = {}
  /\ pc' = "loop"
  /\ UNCHANGED <<life, reader, owed, world, pipe, sink>>

\* One that fails, the pipe being empty but not at its end: write() is called
\* with -1 as a size_t and takes a byte outside the buffer for the end of a
\* message, the counter grows, and the loop goes on.
RemainingFails ==
  /\ life = "alive" /\ pc = "readRemaining"
  /\ pipe = << >> /\ holders # {}
  /\ failed' = TRUE
  /\ \E newline \in BOOLEAN : Write(newline)
  /\ UNCHANGED <<life, pc, reading, due, owed, world, pipe, collected>>

\* ... or does not: that byte need not be there.
RemainingCrashes ==
  /\ life = "alive" /\ pc = "readRemaining"
  /\ pipe = << >> /\ holders # {}
  /\ life' = "crashed"
  /\ UNCHANGED <<pc, reader, owed, world, pipe, sink>>

-----------------------------------------------------------------------------
\* The owner is destroyed, which calls no readRemaining().  A read that waits is
\* cancelled; a handler that is queued keeps its pointer to the object.
Destroy ==
  /\ life = "alive" /\ pc = "loop"
  /\ life' = "destroyed"
  /\ reading' = IF reading = "queued" THEN "queued" ELSE "none"
  /\ pipe' = << >>
  /\ UNCHANGED <<pc, due, failed, owed, world, sink>>

DanglingHandler ==
  /\ life = "destroyed" /\ reading = "queued"
  /\ reading' = "none"
  /\ life' \in {"destroyed", "crashed"}
  /\ UNCHANGED <<pc, due, failed, owed, world, pipe, sink>>

Loop == HandleRead \/ ReadAll \/ RemainingPacket \/ RemainingEnd \/ RemainingFails

Next == Construct \/ World \/ ReadRemaining \/ Loop \/ RemainingCrashes
          \/ Destroy \/ DanglingHandler

Spec == Init /\ [][Next]_vars

\* The io_context is run without pause, the kernel reports what is readable, and
\* the processes of a group that was sent SIGKILL exit.
Fairness ==
  /\ WF_vars(Loop)
  /\ WF_vars(PipeReadable)
  /\ \A p \in Descendants \ Detached : WF_vars(service = "reaped" /\ Closes(p))

FairSpec == Spec /\ Fairness

-----------------------------------------------------------------------------
(* What must hold.                                                         *)

\* Types; the packets readRemaining() still counts on are in the pipe, and none
\* of its reads can fail while there are any.
TypeOK ==
  /\ life \in {"unborn", "alive", "destroyed", "crashed"}
  /\ pc \in {"loop", "readAll", "readRemaining"}
  /\ reading \in {"waiting", "queued", "none"}
  /\ due \in Nat
  /\ failed \in BOOLEAN
  /\ service \in {"unforked", "running", "exited", "reaped"}
  /\ holders \subseteq {"init", "service"} \cup Descendants
  /\ pipe \in Seq(1..MaxMessages)
  /\ written \in 0..MaxMessages
  /\ owed \in 0..written
  /\ collected \in Seq(1..MaxMessages)
  /\ output \in {<< >>, RawBytes(2), RawBytes(3)}
  /\ pc = "readRemaining" => due <= Len(pipe) /\ (failed => due = 0)

\* Whatever a service had written when it died has been read from the pipe when
\* processTerminated() goes on: neither of the two readers takes a packet from the
\* other, and descendants that go on writing change nothing (readRemaining(),
\* line 51).  What write() makes of it is another matter (OutputIsTheLog).
LastWordsAreRead ==
  life = "alive" /\ pc = "loop" /\ service = "reaped" => Len(collected) >= owed

\* Init never stops to listen as long as somebody can write: in its loop, the
\* read is outstanding or its handler queued (handleRead(), line 83).
ListensWhileOpen ==
  life = "alive" /\ pc = "loop" /\ holders # {} => reading # "none"

\* processTerminated() comes back, although its loop takes failed reads for
\* data, once nobody holds the pipe: the killed process group will let go of it,
\* a process that has left the group may not.
ReadingEnds ==
  (pc = "readRemaining" /\ holders \cap Detached = {}) ~> (pc = "loop" \/ life # "alive")

\* The pipe is emptied: once, in order, and without end.
Intake == INSTANCE LogIntake WITH alive <- life = "alive"
ImplementsIntake == Intake!Spec

\* The comment in write() (lines 117-124): what goes out is the prefix, the text of
\* a message and a newline, so that each message is a line of the log.
OutputIsTheLog == output \in {<< >>} \cup {LogLine(m) : m \in 1..written}
=============================================================================
