----------------------- MODULE MCRuntimeOrchestrator -----------------------
(* Instances of RuntimeOrchestrator for TLC.                               *)
EXTENDS RuntimeOrchestrator

CONSTANTS first, second, third

\* The third task depends on the first; the second is on its own.
MCDependsOn == [t \in {first, second, third} |-> IF t = third THEN {first} ELSE {}]
=============================================================================
