----------------------- MODULE MCProcessServiceManager -----------------------
(* Small instances of ProcessServiceManager: the services and their graphs. *)
EXTENDS ProcessServiceManager

CONSTANTS a, b, c, orphan

MCOne   == {a}
MCTwo   == {a, b}
MCThree == {a, b, c}

\* StartAfter of each: nothing waits; b waits for a; c waits for a and b.
MCOneFree  == [s \in MCOne |-> {}]
MCTwoFree  == [s \in MCTwo |-> {}]
MCTwoChain == [s \in MCTwo |-> IF s = b THEN {a} ELSE {}]
MCFanIn    == [s \in MCThree |-> IF s = c THEN {a, b} ELSE {}]
=============================================================================
