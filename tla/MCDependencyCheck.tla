-------------------------- MODULE MCDependencyCheck --------------------------
(* All configurations of up to three services with lists of up to two names. *)
EXTENDS DependencyCheck

CONSTANTS a, b, c, unknown

MCServices == {a, b, c}
MCNames    == MCServices \cup {unknown}
MCLists    == BoundedSeq(MCNames, 2)
=============================================================================
