------------------------ MODULE MCWorkflowExecution ------------------------
(* Instances of WorkflowExecution for TLC.                                 *)
EXTENDS WorkflowExecution

CONSTANTS e1, wMain, wShort, g1

Alone == [group |-> NoGroup, conditional |-> FALSE]
Optional == [group |-> NoGroup, conditional |-> TRUE]
Parallel == [group |-> g1, conditional |-> FALSE]

\* A conditional step, then a parallel group of two; and a workflow of one step,
\* shorter than the checkpoint an execution of the first one may have reached.
MCSteps == [w \in {wMain, wShort} |->
  IF w = wMain THEN <<Optional, Parallel, Parallel>> ELSE <<Alone>>]

\* A parallel group, one of its steps conditional: when one fails, the other goes on
\* by itself, and competes for the threads with the run that resumes the execution.
MCGroupSteps == [w \in {wMain} |->
  <<Parallel, [group |-> g1, conditional |-> TRUE]>>]
=============================================================================
