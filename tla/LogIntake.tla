------------------------------ MODULE LogIntake ------------------------------
(***************************************************************************)
(* What a LoggerOutputForwarder (loggerOutputForwarder.hpp) owes to the     *)
(* processes that write to its pipe: their messages are taken out in the    *)
(* order in which they were written, none twice, none left out, and as long *)
(* as the forwarder lives none stays there for ever, so that no writer is   *)
(* blocked for good.  What becomes of a message that was taken out is not   *)
(* its subject.  Message n is the n-th one.                                 *)
(***************************************************************************)
EXTENDS Naturals, Sequences

VARIABLES alive,     \* the forwarder exists
          written,   \* how many messages have been written
          collected  \* the messages taken out, in order

vars == <<alive, written, collected>>

Init == alive = FALSE /\ written = 0 /\ collected = << >>

Start == ~alive /\ written = 0 /\ alive' = TRUE /\ UNCHANGED <<written, collected>>

Write == written' = written + 1 /\ UNCHANGED <<alive, collected>>

Collect ==
  /\ alive
  /\ Len(collected) < written
  /\ collected' = Append(collected, Len(collected) + 1)
  /\ UNCHANGED <<alive, written>>

\* What has not been taken out is lost.
End == alive /\ alive' = FALSE /\ UNCHANGED <<written, collected>>

Next == Start \/ Write \/ Collect \/ End

Spec == Init /\ [][Next]_vars /\ WF_vars(Collect)
=============================================================================
