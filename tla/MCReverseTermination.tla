------------------------- MODULE MCReverseTermination -------------------------
(* The small instance of ReverseTermination: its services and their graph.    *)
EXTENDS ReverseTermination

CONSTANTS a, b, c

MCThree == {a, b, c}

\* StartAfter of each: b is started after a, and c after both, so that a
\* termination goes on from c to b, and from both of them to a.
MCTriangle == [s \in MCThree |-> CASE s = a -> {} [] s = b -> {a} [] s = c -> {a, b}]
=============================================================================
