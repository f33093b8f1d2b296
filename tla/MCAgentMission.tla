--------------------------- MODULE MCAgentMission ---------------------------
(* Instances of AgentMission for TLC.                                      *)
EXTENDS AgentMission

\* A sub-task, two of them in the wrong order, one the plan does not have.
MCRequests == {<<1>>, <<2, 1>>, <<0>>}
=============================================================================
