-------------------------- MODULE WorkflowExecution --------------------------
(***************************************************************************)
(* The execution engine of workflow automation: how one execution of a     *)
(* workflow runs its steps, alone or as a parallel group under             *)
(* asyncio.gather, each action in a worker thread under a timeout and a    *)
(* retry policy, and how a failed execution is resumed.                    *)
(*                                                                         *)
(* Three kinds of actors take steps: callers of the API (Start, Resume),   *)
(* coroutines on the event loop (the runner of an execution and the tasks  *)
(* of its steps; what one does between two awaits is one action), and the  *)
(* threads of the default executor, which no timeout can stop.             *)
(***************************************************************************)
EXTENDS Integers, Sequences, FiniteSets

CONSTANTS
  Executions,    \* identifiers of WorkflowExecution records
  Workflows,     \* workflow versions
  Steps,         \* Steps[w]: the steps of w in the order of WorkflowStep.order
  Groups,        \* names of parallel groups
  NoGroup,       \* the parallel_group of a step that has none
  MaxAttempts,   \* WorkflowRetryPolicy: attempts per step (3 in the code)
  Workers,       \* threads of the executor asyncio.to_thread uses
  MaxRuns        \* bound: runs (one start and its resumptions) per execution

ASSUME ConstantsAssumption ==
  /\ \A w \in Workflows : Steps[w] \in 
       Seq([group : Groups \cup {NoGroup}, conditional : BOOLEAN])
  /\ MaxAttempts \in Nat \ {0}
  /\ Workers \in Nat \ {0}
  /\ MaxRuns \in Nat \ {0}

VARIABLES
  status,    \* status[e]: WorkflowExecution.status, "none" before start()
  index,     \* index[e]: current_step_index
  results,   \* results[e]: step_results; each names the workflow its step is of
  runs,      \* runs[e]: number of calls of _run_from so far
  runner,    \* runner[e][r]: the r-th call of _run_from and the group it awaits
  task,      \* task[t]: the call of _run_step for a step of one run
  thread,    \* thread[i]: the worker thread of one attempt of a task
  journal    \* ActionLogEntry records: execution, action and success

vars == <<status, index, results, runs, runner, task, thread, journal>>

Runs == 1 .. MaxRuns
Attempts == 1 .. MaxAttempts
Positions == UNION {DOMAIN Steps[w] : w \in Workflows}
Tasks == Executions \X Runs \X Positions
Invocations == Tasks \X Attempts

Settled == {"ok", "skipped", "raised"}
Result == [wf : Workflows, pos : Nat, skipped : BOOLEAN]
Entry == Executions \X Workflows \X Positions \X BOOLEAN
Idle == [state |-> "idle"]
Runner == [state : {"live", "done"}, wf : Workflows, pos : Nat, last : Nat]

TypeOK ==
  /\ status \in [Executions -> {"none", "RUNNING", "COMPLETED", "FAILED", "CANCELLED"}]
  /\ index \in [Executions -> Nat]
  /\ results \in [Executions -> Seq(Result)]
  /\ runs \in [Executions -> 0 .. MaxRuns]
  /\ runner \in [Executions -> [Runs -> Runner \cup {Idle}]]
  /\ task \in [Tasks -> [phase : {"none", "new", "waiting", "backoff"} \cup Settled,
                         attempt : 0 .. MaxAttempts]]
  /\ thread \in [Invocations -> {"none", "queued", "running", "zombie",
                                 "success", "failure", "ended"}]
  /\ journal \subseteq Entry

Init ==
  /\ status = [e \in Executions |-> "none"]
  /\ index = [e \in Executions |-> 0]
  /\ results = [e \in Executions |-> <<>>]
  /\ runs = [e \in Executions |-> 0]
  /\ runner = [e \in Executions |-> [r \in Runs |-> Idle]]
  /\ task = [t \in Tasks |-> [phase |-> "none", attempt |-> 0]]
  /\ thread = [i \in Invocations |-> "none"]
  /\ journal = {}

-----------------------------------------------------------------------------
(* The runner: _run_from                                                   *)

InGroupOf(w, p, k) ==
  /\ Steps[w][p].group # NoGroup
  /\ Steps[w][k].group = Steps[w][p].group

\* Positions p .. q of w are what the loop awaits at once: a single step, or the
\* longest stretch of steps that share the group of the step at p.
IsGroup(w, p, q) ==
  /\ \A k \in (p + 1) .. q : InGroupOf(w, p, k)
  /\ q < Len(Steps[w]) => ~ InGroupOf(w, p, q + 1)

\* The head of the loop, for run r of e at position p: either every step is
\* behind it, or the tasks of the next group are created and awaited.
RunFrom(e, r, w, p) ==
  \/ /\ p > Len(Steps[w])
     /\ status' = [status EXCEPT ![e] = "COMPLETED"]
     /\ runner' = [runner EXCEPT ![e][r] = [state |-> "done", wf |-> w, pos |-> p, last |-> p]]
     /\ UNCHANGED task
  \/ \E q \in p .. Len(Steps[w]) :
       /\ IsGroup(w, p, q)
       /\ status' = [status EXCEPT ![e] = "RUNNING"]
       /\ runner' = [runner EXCEPT ![e][r] = [state |-> "live", wf |-> w, pos |-> p, last |-> q]]
       /\ task' = [t \in Tasks |-> IF t \in {e} \X {r} \X (p .. q)
                                   THEN [phase |-> "new", attempt |-> 0] ELSE task[t]]

\* Mutant of StartRunner: every run starts from the first step.
RestartRunner(e, w) ==
  /\ runs[e] < MaxRuns
  /\ runs' = [runs EXCEPT ![e] = @ + 1]
  /\ RunFrom(e, runs[e] + 1, w, 1)
  /\ UNCHANGED <<index, results, thread, journal>>

StartRunner(e, w) ==
  /\ runs[e] < MaxRuns
  /\ runs' = [runs EXCEPT ![e] = @ + 1]
  /\ RunFrom(e, runs[e] + 1, w, index[e] + 1)
  /\ UNCHANGED <<index, results, thread, journal>>

\* start(): the record is added, then the workflow-level conditions are
\* evaluated. They hold, or they do not and the execution is cancelled, or one
\* of them raises: nobody runs the record then, and it stays RUNNING.
Start(e, w) ==
  /\ status[e] = "none"
  /\ \/ StartRunner(e, w)
     \/ /\ \E s \in {"CANCELLED", "RUNNING"} : status' = [status EXCEPT ![e] = s]
        /\ UNCHANGED <<index, results, runs, runner, task, thread, journal>>

\* Mutant of CanResume: the guard lets a running execution through.
CanResumeRunning(e) == status[e] \in {"FAILED", "RUNNING"}

\* Nothing ever sets PAUSED, the other status the code resumes from, and
\* nothing compares w with the workflow the execution was started with.
CanResume(e) == status[e] = "FAILED"

Resume(e, w) ==
  /\ CanResume(e)
  /\ StartRunner(e, w)

GroupTasks(e, r) == {e} \X {r} \X (runner[e][r].pos .. runner[e][r].last)

\* What the awaited group returned, in the order of its steps.
GroupResults(e, r) ==
  [n \in 1 .. (runner[e][r].last - runner[e][r].pos + 1) |->
     LET p == runner[e][r].pos + n - 1
     IN  [wf |-> runner[e][r].wf, pos |-> p, skipped |-> task[<<e, r, p>>].phase = "skipped"]]

\* Mutant of Advance: the loop variable moves one step too far.
AdvanceTooFar(e, r) ==
  /\ runner[e][r].state = "live"
  /\ \A t \in GroupTasks(e, r) : task[t].phase \in {"ok", "skipped"}
  /\ results' = [results EXCEPT ![e] = @ \o GroupResults(e, r)]
  /\ index' = [index EXCEPT ![e] = @ + (runner[e][r].last - runner[e][r].pos + 1)]
  /\ RunFrom(e, r, runner[e][r].wf, runner[e][r].last + 2)
  /\ UNCHANGED <<runs, thread, journal>>

\* Every awaited task returned: its results are recorded, the checkpoint moves
\* past the group, and the loop goes on.
Advance(e, r) ==
  /\ runner[e][r].state = "live"
  /\ \A t \in GroupTasks(e, r) : task[t].phase \in {"ok", "skipped"}
  /\ results' = [results EXCEPT ![e] = @ \o GroupResults(e, r)]
  /\ index' = [index EXCEPT ![e] = @ + (runner[e][r].last - runner[e][r].pos + 1)]
  /\ RunFrom(e, r, runner[e][r].wf, runner[e][r].last + 1)
  /\ UNCHANGED <<runs, thread, journal>>

\* Mutant of Fail: the checkpoint counts the steps of the group that did return.
FailKeepingProgress(e, r) ==
  /\ runner[e][r].state = "live"
  /\ \E t \in GroupTasks(e, r) : task[t].phase = "raised"
  /\ status' = [status EXCEPT ![e] = "FAILED"]
  /\ index' = [index EXCEPT ![e] = @ + Cardinality({t \in GroupTasks(e, r) : task[t].phase = "ok"})]
  /\ runner' = [runner EXCEPT ![e][r].state = "done"]
  /\ UNCHANGED <<results, runs, task, thread, journal>>

\* One awaited task raised: gather re-raises at once, so its siblings go on
\* unawaited, and the results of those that returned are lost.
Fail(e, r) ==
  /\ runner[e][r].state = "live"
  /\ \E t \in GroupTasks(e, r) : task[t].phase = "raised"
  /\ status' = [status EXCEPT ![e] = "FAILED"]
  /\ runner' = [runner EXCEPT ![e][r].state = "done"]
  /\ UNCHANGED <<index, results, runs, task, thread, journal>>

-----------------------------------------------------------------------------
(* A task: _run_step under the retry policy                                *)

\* to_thread hands the action to the executor and the task waits for it.
Submit(t, a) ==
  /\ task' = [task EXCEPT ![t] = [phase |-> "waiting", attempt |-> a]]
  /\ thread' = [thread EXCEPT ![<<t, a>>] = "queued"]

\* The step's condition is evaluated once, before the first attempt: it holds,
\* or the step is skipped, or the evaluation raises and is not retried.
BeginStep(t) ==
  /\ task[t].phase = "new"
  /\ \/ Submit(t, 1)
     \/ /\ Steps[runner[t[1]][t[2]].wf][t[3]].conditional
        /\ \E p \in {"skipped", "raised"} : task' = [task EXCEPT ![t].phase = p]
        /\ UNCHANGED thread
  /\ UNCHANGED <<status, index, results, runs, runner, journal>>

\* Mutants of AttemptFails: one attempt too many, and one too few.
AttemptFailsTooLate(t) ==
  task' = [task EXCEPT ![t].phase = IF task[t].attempt <= MaxAttempts THEN "backoff" ELSE "raised"]

AttemptFailsTooSoon(t) ==
  task' = [task EXCEPT ![t].phase = IF task[t].attempt < MaxAttempts - 1 THEN "backoff" ELSE "raised"]

\* An attempt that fails is retried after a pause until MaxAttempts are used.
AttemptFails(t) ==
  task' = [task EXCEPT ![t].phase = IF task[t].attempt < MaxAttempts THEN "backoff" ELSE "raised"]

\* Mutant of Retry: a task is retried only while its execution runs.
RetryWhileRunning(t) ==
  /\ task[t].phase = "backoff" /\ status[t[1]] = "RUNNING"
  /\ Submit(t, task[t].attempt + 1)
  /\ UNCHANGED <<status, index, results, runs, runner, journal>>

Retry(t) ==
  /\ task[t].phase = "backoff"
  /\ Submit(t, task[t].attempt + 1)
  /\ UNCHANGED <<status, index, results, runs, runner, journal>>

\* Mutant of Deliver: result.success is not looked at.
DeliverUnchecked(t) ==
  LET i == <<t, task[t].attempt>> IN
  /\ task[t].phase = "waiting"
  /\ thread[i] \in {"success", "failure"}
  /\ task' = [task EXCEPT ![t].phase = "ok"]
  /\ thread' = [thread EXCEPT ![i] = "ended"]
  /\ UNCHANGED <<status, index, results, runs, runner, journal>>

\* The thread of the current attempt ended and the loop delivers its outcome.
Deliver(t) ==
  LET i == <<t, task[t].attempt>> IN
  /\ task[t].phase = "waiting"
  /\ \/ thread[i] = "success" /\ task' = [task EXCEPT ![t].phase = "ok"]
     \/ thread[i] = "failure" /\ AttemptFails(t)
  /\ thread' = [thread EXCEPT ![i] = "ended"]
  /\ UNCHANGED <<status, index, results, runs, runner, journal>>

\* Mutant of Timeout: no wait_for around the thread.
NoTimeout(t) == FALSE /\ task[t].phase = "waiting"

\* wait_for gives up: an action still queued is withdrawn, one that started
\* goes on in its thread unawaited, and an outcome not yet delivered is lost.
Timeout(t) ==
  LET i == <<t, task[t].attempt>> IN
  /\ task[t].phase = "waiting"
  /\ AttemptFails(t)
  /\ thread' = [thread EXCEPT ![i] = IF @ = "running" THEN "zombie" ELSE "ended"]
  /\ UNCHANGED <<status, index, results, runs, runner, journal>>

-----------------------------------------------------------------------------
(* A worker thread: ActionEngine.execute                                   *)

Running == {i \in Invocations : thread[i] \in {"running", "zombie"}}

WorkflowOf(i) == runner[i[1][1]][i[1][2]].wf

Dequeue(i) ==
  /\ thread[i] = "queued"
  /\ Cardinality(Running) < Workers
  /\ thread' = [thread EXCEPT ![i] = "running"]
  /\ UNCHANGED <<status, index, results, runs, runner, task, journal>>

\* The outcome of a thread, which reaches its task only if it is still awaited.
EndThread(i, outcome) ==
  /\ i \in Running
  /\ thread' = [thread EXCEPT ![i] = IF @ = "zombie" THEN "ended" ELSE outcome]

\* The handler returns, or raises, and the outcome is journaled.
HandlerEnds(i) ==
  /\ \E success \in BOOLEAN :
       /\ EndThread(i, IF success THEN "success" ELSE "failure")
       /\ journal' = journal \cup {<<i[1][1], WorkflowOf(i), i[1][3], success>>}
  /\ UNCHANGED <<status, index, results, runs, runner, task>>

\* No handler is registered for the action: nothing runs, nothing is journaled.
UnknownAction(i) ==
  /\ EndThread(i, "failure")
  /\ UNCHANGED <<status, index, results, runs, runner, task, journal>>

-----------------------------------------------------------------------------
RunnerStep(e, r) == Advance(e, r) \/ Fail(e, r)
TaskStep(t) == BeginStep(t) \/ Retry(t) \/ Deliver(t) \/ Timeout(t)
ThreadStep(i) == Dequeue(i) \/ HandlerEnds(i) \/ UnknownAction(i)

Next ==
  \/ \E e \in Executions, w \in Workflows : Start(e, w) \/ Resume(e, w)
  \/ \E e \in Executions, r \in Runs : RunnerStep(e, r)
  \/ \E t \in Tasks : TaskStep(t)
  \/ \E i \in Invocations : ThreadStep(i)

Spec == Init /\ [][Next]_vars

\* The event loop serves every coroutine that is ready, timers included. Nothing
\* is assumed of the handlers, which may hang, nor of the callers.
Fairness ==
  /\ \A e \in Executions, r \in Runs : WF_vars(RunnerStep(e, r))
  /\ \A t \in Tasks : WF_vars(TaskStep(t))

FairSpec == Spec /\ Fairness
-----------------------------------------------------------------------------
(* Properties                                                              *)

LiveRuns(e) == {r \in Runs : runner[e][r].state = "live"}

\* An execution that has been run is RUNNING exactly while one runner, that of
\* its latest run, drives it: resume() never adds a second one to a live
\* execution, and no run ends without leaving RUNNING.
SoleRunner ==
  \A e \in Executions :
    LiveRuns(e) = IF status[e] = "RUNNING" /\ runs[e] > 0 THEN {runs[e]} ELSE {}

\* step_results has one entry per step behind the checkpoint, in order, whatever
\* failed or was resumed in between; and a step not skipped has an entry in the
\* journal that says its action, of the workflow that was then run, succeeded.
ResultsAreBacked ==
  \A e \in Executions :
    /\ Len(results[e]) = index[e]
    /\ \A k \in 1 .. index[e] :
         /\ results[e][k].pos = k
         /\ ~ results[e][k].skipped => <<e, results[e][k].wf, k, TRUE>> \in journal

\* COMPLETED is only reached when every step of the workflow last run for the
\* execution is behind the checkpoint.
CompletedIsComplete ==
  \A e \in Executions :
    status[e] = "COMPLETED" => index[e] >= Len(Steps[runner[e][runs[e]].wf])

\* An execution fails only on a step that was tried MaxAttempts times, every
\* attempt being handed to a thread, or whose condition could not be evaluated.
FailureIsExhaustion ==
  \A e \in Executions :
    status[e] = "FAILED" =>
      \E t \in GroupTasks(e, runs[e]) :
        /\ task[t].phase = "raised"
        /\ \/ task[t].attempt = 0
           \/ \A a \in Attempts : thread[<<t, a>>] # "none"

\* No run creates a task for a step whose result is already recorded: a resumed
\* execution goes on from its checkpoint, never from the start (docs/92,
\* "reprise apres interruption").
NeverRerunsRecorded ==
  [][\A t \in Tasks :
       task[t].phase = "none" /\ task'[t].phase # "none" => t[3] > Len(results'[t[1]])]_vars

\* Under the fairness above, every run ends even if every handler hangs and holds
\* its thread for ever.
RunEnds ==
  \A e \in Executions : (status[e] = "RUNNING" /\ runs[e] > 0) ~> (status[e] # "RUNNING")

\* The tasks a failed group leaves behind come to an end too, although nobody awaits
\* them any more and a resumed run may be competing with them for the threads.
TasksSettle == \A t \in Tasks : (task[t].phase # "none") ~> (task[t].phase \in Settled)

\* The record keeps the promises of a resumable run.
Record == INSTANCE ResumableRun WITH done <- index
ImplementsResumableRun == Record!Spec
=============================================================================
