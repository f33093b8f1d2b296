---------------------------- MODULE ResumableRun ----------------------------
(***************************************************************************)
(* What a workflow execution promises to whoever reads its record: it is   *)
(* opened once, its checkpoint (the number of steps whose results are      *)
(* recorded) only moves forward and only while it runs, a failure keeps    *)
(* the checkpoint, a resumed run goes on from it, and a completed or       *)
(* cancelled record never changes again.                                   *)
(*                                                                         *)
(* Nothing of asyncio, threads, retries or timeouts appears here; they are *)
(* in WorkflowExecution, which implements this specification.              *)
(***************************************************************************)
EXTENDS Naturals

CONSTANT Executions

VARIABLES
  status,   \* status[e]: the status field of the record, "none" before it exists
  done      \* done[e]: the checkpoint, `current_step_index`

vars == <<status, done>>

Init ==
  /\ status = [e \in Executions |-> "none"]
  /\ done = [e \in Executions |-> 0]

\* A record is created; a workflow without steps completes at once, one whose
\* conditions are not met is cancelled at once.
Open(e) ==
  /\ status[e] = "none"
  /\ \E s \in {"RUNNING", "CANCELLED", "COMPLETED"} :
       status' = [status EXCEPT ![e] = s]
  /\ UNCHANGED done

\* Some steps finish together and are recorded; the last ones complete the run.
Checkpoint(e) ==
  /\ status[e] = "RUNNING"
  /\ done'[e] > done[e]
  /\ done' = [done EXCEPT ![e] = done'[e]]
  /\ \E s \in {"RUNNING", "COMPLETED"} : status' = [status EXCEPT ![e] = s]

Fail(e) ==
  /\ status[e] = "RUNNING"
  /\ status' = [status EXCEPT ![e] = "FAILED"]
  /\ UNCHANGED done

\* The next run starts at the checkpoint, and has nothing to do when it is
\* already past the last step.
Resume(e) ==
  /\ status[e] = "FAILED"
  /\ \E s \in {"RUNNING", "COMPLETED"} : status' = [status EXCEPT ![e] = s]
  /\ UNCHANGED done

Next ==
  \E e \in Executions : Open(e) \/ Checkpoint(e) \/ Fail(e) \/ Resume(e)

Spec == Init /\ [][Next]_vars
=============================================================================
