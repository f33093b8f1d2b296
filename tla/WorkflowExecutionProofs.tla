----------------------- MODULE WorkflowExecutionProofs -----------------------
(***************************************************************************)
(* Theorems about WorkflowExecution, for every set of executions and       *)
(* workflows and any number of attempts, threads and runs.                 *)
(***************************************************************************)
EXTENDS WorkflowExecution, SequenceTheorems, TLAPS

-----------------------------------------------------------------------------
(* Type correctness                                                        *)

\* A live runner awaits steps its workflow has.
AwaitsGroup ==
  \A e \in Executions, r \in Runs :
    runner[e][r].state = "live" =>
      /\ runner[e][r].pos \in 1 .. runner[e][r].last
      /\ runner[e][r].last <= Len(Steps[runner[e][r].wf])

\* A task only pauses when it has an attempt left, and only waits for an attempt.
AttemptsCounted ==
  \A t \in Tasks :
    /\ task[t].phase = "backoff" => task[t].attempt < MaxAttempts
    /\ task[t].phase = "waiting" => task[t].attempt >= 1

\* Tasks belong to runs that began, threads to tasks that began.
Begun ==
  /\ \A t \in Tasks : task[t].phase # "none" => runner[t[1]][t[2]] \in Runner
  /\ \A i \in Invocations : thread[i] # "none" => task[i[1]].phase # "none"

\* TypeOK is not inductive alone: the checkpoint stays a natural number because
\* the awaited group is not empty, the attempt number stays in range because a
\* task pauses only when it has an attempt left, and a journal entry names a
\* workflow because its thread belongs to a run that began.
TypeInv == TypeOK /\ AwaitsGroup /\ AttemptsCounted /\ Begun

LEMMA Bounds ==
  MaxAttempts \in Nat /\ MaxAttempts >= 1 /\ MaxRuns \in Nat
BY ConstantsAssumption DEF ConstantsAssumption

LEMMA StepsType ==
  ASSUME NEW w \in Workflows
  PROVE  /\ Len(Steps[w]) \in Nat
         /\ 1 .. Len(Steps[w]) \subseteq Positions
<1>1. Steps[w] \in Seq([group : Groups \cup {NoGroup}, conditional : BOOLEAN])
  BY ConstantsAssumption DEF ConstantsAssumption
<1>2. Len(Steps[w]) \in Nat /\ DOMAIN Steps[w] = 1 .. Len(Steps[w])
  BY <1>1, LenProperties
<1>. QED
  BY <1>1, <1>2 DEF Positions

LEMMA PositionsNat == Positions \subseteq Nat
<1>1. ASSUME NEW w \in Workflows
      PROVE  DOMAIN Steps[w] \subseteq Nat
  <2>1. Steps[w] \in Seq([group : Groups \cup {NoGroup}, conditional : BOOLEAN])
    BY ConstantsAssumption DEF ConstantsAssumption
  <2>2. Len(Steps[w]) \in Nat /\ DOMAIN Steps[w] = 1 .. Len(Steps[w])
    BY <2>1, LenProperties
  <2>. QED
    BY <2>2
<1>. QED
  BY <1>1 DEF Positions

\* The loop head, whoever calls it: it keeps the types, and the group it awaits
\* is one of the workflow's.
LEMMA RunFromType ==
  ASSUME TypeInv,
         NEW e \in Executions, NEW r \in Runs, NEW w \in Workflows, NEW p \in Nat \ {0},
         RunFrom(e, r, w, p)
  PROVE  /\ status' \in [Executions -> {"none", "RUNNING", "COMPLETED", "FAILED", "CANCELLED"}]
         /\ runner' \in [Executions -> [Runs -> Runner \cup {Idle}]]
         /\ task' \in [Tasks -> [phase : {"none", "new", "waiting", "backoff"} \cup Settled,
                                 attempt : 0 .. MaxAttempts]]
         /\ AwaitsGroup'
         /\ AttemptsCounted'
         /\ (UNCHANGED thread => Begun')
<1>1. CASE /\ status' = [status EXCEPT ![e] = "COMPLETED"]
           /\ runner' = [runner EXCEPT ![e][r] =
                           [state |-> "done", wf |-> w, pos |-> p, last |-> p]]
           /\ UNCHANGED task
  <2>1. /\ status' \in [Executions -> {"none", "RUNNING", "COMPLETED", "FAILED", "CANCELLED"}]
        /\ runner' \in [Executions -> [Runs -> Runner \cup {Idle}]]
        /\ AwaitsGroup'
        /\ AttemptsCounted'
    BY <1>1 DEF TypeInv, TypeOK, Runner, AwaitsGroup, AttemptsCounted
  <2>2. UNCHANGED thread => Begun'
    BY <1>1 DEF TypeInv, TypeOK, Runner, Begun, Tasks
  <2>. QED
    BY <1>1, <2>1, <2>2 DEF TypeInv, TypeOK
<1>2. ASSUME NEW q \in p .. Len(Steps[w]),
             /\ status' = [status EXCEPT ![e] = "RUNNING"]
             /\ runner' = [runner EXCEPT ![e][r] =
                             [state |-> "live", wf |-> w, pos |-> p, last |-> q]]
             /\ task' = [t \in Tasks |-> IF t \in {e} \X {r} \X (p .. q)
                                         THEN [phase |-> "new", attempt |-> 0] ELSE task[t]]
      PROVE  /\ status' \in [Executions -> {"none", "RUNNING", "COMPLETED", "FAILED", "CANCELLED"}]
             /\ runner' \in [Executions -> [Runs -> Runner \cup {Idle}]]
             /\ task' \in [Tasks -> [phase : {"none", "new", "waiting", "backoff"} \cup Settled,
                                     attempt : 0 .. MaxAttempts]]
             /\ AwaitsGroup'
             /\ AttemptsCounted'
             /\ (UNCHANGED thread => Begun')
  <2>1. q \in Nat /\ p \in 1 .. q /\ q <= Len(Steps[w])
    BY <1>2, StepsType
  <2>2. status' \in [Executions -> {"none", "RUNNING", "COMPLETED", "FAILED", "CANCELLED"}]
    BY <1>2 DEF TypeInv, TypeOK
  <2>3. runner' \in [Executions -> [Runs -> Runner \cup {Idle}]]
    BY <1>2, <2>1 DEF TypeInv, TypeOK, Runner
  <2>4. task' \in [Tasks -> [phase : {"none", "new", "waiting", "backoff"} \cup Settled,
                            attempt : 0 .. MaxAttempts]]
    BY <1>2, Bounds DEF TypeInv, TypeOK
  <2>5. AwaitsGroup'
    BY <1>2, <2>1 DEF TypeInv, TypeOK, AwaitsGroup
  <2>6. AttemptsCounted'
    BY <1>2 DEF TypeInv, TypeOK, AttemptsCounted
  <2>7. UNCHANGED thread => Begun'
    <3>1. \A t \in Tasks : task'[t].phase # "none" => runner'[t[1]][t[2]] \in Runner
      BY <1>2, <2>1 DEF TypeInv, TypeOK, Begun, Tasks, Runner
    <3>2. \A t \in Tasks : task[t].phase # "none" => task'[t].phase # "none"
      BY <1>2
    <3>3. \A i \in Invocations : i[1] \in Tasks
      BY DEF Invocations
    <3>. QED
      BY <3>1, <3>2, <3>3 DEF TypeInv, Begun
  <2>. QED
    BY <2>2, <2>3, <2>4, <2>5, <2>6, <2>7
<1>. QED
  BY <1>1, <1>2 DEF RunFrom

\* What a finished group appends to step_results: one result per step.
LEMMA GroupResultsType ==
  ASSUME TypeInv, NEW e \in Executions, NEW r \in Runs, runner[e][r].state = "live"
  PROVE  /\ runner[e][r] \in Runner
         /\ GroupResults(e, r) \in Seq(Result)
         /\ Len(GroupResults(e, r)) = runner[e][r].last - runner[e][r].pos + 1
<1> DEFINE n == runner[e][r].last - runner[e][r].pos + 1
<1>1. runner[e][r] \in Runner
  BY DEF TypeInv, TypeOK, Idle
<1>2. /\ n \in Nat
      /\ \A m \in 1 .. n : runner[e][r].pos + m - 1 \in Nat
  BY <1>1 DEF Runner, TypeInv, AwaitsGroup
<1>3. \A m \in 1 .. n : GroupResults(e, r)[m] \in Result
  BY <1>1, <1>2 DEF GroupResults, Result, Runner
<1>4. GroupResults(e, r) \in [1 .. n -> Result]
  BY <1>3 DEF GroupResults
<1>5. GroupResults(e, r) \in Seq(Result)
  BY <1>2, <1>4, SeqDef
<1>6. /\ Len(GroupResults(e, r)) \in Nat
      /\ 1 .. Len(GroupResults(e, r)) = 1 .. n
  BY <1>4, <1>5, LenProperties
<1>. QED
  BY <1>1, <1>2, <1>5, <1>6

LEMMA StartRunnerType ==
  ASSUME TypeInv, NEW e \in Executions, NEW w \in Workflows, StartRunner(e, w)
  PROVE  TypeInv'
<1>1. runs[e] + 1 \in Runs /\ index[e] + 1 \in Nat \ {0}
  BY Bounds DEF TypeInv, TypeOK, StartRunner, Runs
<1>2. RunFrom(e, runs[e] + 1, w, index[e] + 1)
  BY DEF StartRunner
<1>3. runs' \in [Executions -> 0 .. MaxRuns]
  BY Bounds DEF TypeInv, TypeOK, StartRunner
<1>. QED
  BY <1>1, <1>2, <1>3, RunFromType DEF TypeInv, TypeOK, StartRunner

\* Handing an attempt to the executor.
LEMMA SubmitType ==
  ASSUME TypeInv, NEW t \in Tasks, NEW a \in Attempts, task[t].phase # "none", Submit(t, a)
  PROVE  /\ task' \in [Tasks -> [phase : {"none", "new", "waiting", "backoff"} \cup Settled,
                                 attempt : 0 .. MaxAttempts]]
         /\ thread' \in [Invocations -> {"none", "queued", "running", "zombie",
                                         "success", "failure", "ended"}]
         /\ AttemptsCounted'
         /\ (UNCHANGED runner => Begun')
<1>1. <<t, a>> \in Invocations
  BY DEF Invocations
<1>2. a \in 0 .. MaxAttempts
  BY Bounds DEF Attempts
<1>3. task' \in [Tasks -> [phase : {"none", "new", "waiting", "backoff"} \cup Settled,
                          attempt : 0 .. MaxAttempts]]
  BY <1>2 DEF Submit, TypeInv, TypeOK
<1>4. thread' \in [Invocations -> {"none", "queued", "running", "zombie",
                                  "success", "failure", "ended"}]
  BY <1>1 DEF Submit, TypeInv, TypeOK
<1>5. AttemptsCounted'
  BY DEF Submit, TypeInv, TypeOK, AttemptsCounted, Attempts
<1>6. UNCHANGED runner => Begun'
  <2>1. \A u \in Tasks : task'[u].phase # "none" <=> task[u].phase # "none"
    BY DEF Submit, TypeInv, TypeOK
  <2>2. \A i \in Invocations : i[1] \in Tasks /\ (i = <<t, a>> \/ thread'[i] = thread[i])
    BY DEF Invocations, Submit, TypeInv, TypeOK
  <2>. QED
    BY <2>1, <2>2 DEF TypeInv, Begun
<1>. QED
  BY <1>3, <1>4, <1>5, <1>6

\* The end of an attempt that failed.
LEMMA AttemptFailsType ==
  ASSUME TypeInv, NEW t \in Tasks, task[t].phase # "none", AttemptFails(t)
  PROVE  /\ task' \in [Tasks -> [phase : {"none", "new", "waiting", "backoff"} \cup Settled,
                                 attempt : 0 .. MaxAttempts]]
         /\ AttemptsCounted'
         /\ \A u \in Tasks : task'[u].phase # "none" <=> task[u].phase # "none"
BY DEF AttemptFails, TypeInv, TypeOK, AttemptsCounted, Settled

\* What an attempt's end does to its thread.
LEMMA ThreadType ==
  ASSUME TypeInv, NEW t \in Tasks, task[t].phase # "none", NEW n, NEW s \in {"zombie", "ended"},
         thread' = [thread EXCEPT ![<<t, n>>] = s]
  PROVE  /\ thread' \in [Invocations -> {"none", "queued", "running", "zombie",
                                         "success", "failure", "ended"}]
         /\ \A i \in Invocations : thread'[i] # "none" => task[i[1]].phase # "none"
<1>1. thread' \in [Invocations -> {"none", "queued", "running", "zombie",
                                  "success", "failure", "ended"}]
  BY DEF TypeInv, TypeOK
<1>2. ASSUME NEW i \in Invocations, thread'[i] # "none"
      PROVE  task[i[1]].phase # "none"
  <2>1. CASE i = <<t, n>>
    BY <2>1
  <2>2. CASE i # <<t, n>>
    <3>1. thread'[i] = thread[i]
      BY <2>2 DEF TypeInv, TypeOK
    <3>. QED
      BY <1>2, <3>1 DEF TypeInv, Begun
  <2>. QED
    BY <2>1, <2>2
<1>. QED
  BY <1>1, <1>2

LEMMA InitType == Init => TypeInv
<1>. SUFFICES ASSUME Init PROVE TypeInv
  OBVIOUS
<1>1. \A e \in Executions : results[e] \in Seq(Result)
  BY EmptySeq DEF Init
<1>. QED
  BY <1>1, Bounds DEF Init, TypeInv, TypeOK, AwaitsGroup, AttemptsCounted, Begun, Idle

LEMMA NextType == TypeInv /\ [Next]_vars => TypeInv'
<1>. SUFFICES ASSUME TypeInv, [Next]_vars PROVE TypeInv'
  OBVIOUS
<1>1. ASSUME NEW e \in Executions, NEW w \in Workflows, Start(e, w)
      PROVE  TypeInv'
  <2>1. CASE StartRunner(e, w)
    BY <2>1, StartRunnerType
  <2>2. CASE ~ StartRunner(e, w)
    BY <1>1, <2>2 DEF TypeInv, TypeOK, Start, AwaitsGroup, AttemptsCounted, Begun
  <2>. QED
    BY <2>1, <2>2
<1>2. ASSUME NEW e \in Executions, NEW w \in Workflows, Resume(e, w)
      PROVE  TypeInv'
  BY <1>2, StartRunnerType DEF Resume
<1>3. ASSUME NEW e \in Executions, NEW r \in Runs, Advance(e, r)
      PROVE  TypeInv'
  <2>1. /\ runner[e][r] \in Runner
        /\ GroupResults(e, r) \in Seq(Result)
    BY <1>3, GroupResultsType DEF Advance
  <2>2. RunFrom(e, r, runner[e][r].wf, runner[e][r].last + 1)
    BY <1>3 DEF Advance
  <2>3. /\ runner[e][r].wf \in Workflows
        /\ runner[e][r].last + 1 \in Nat \ {0}
    BY <2>1 DEF Runner
  <2>4. results' \in [Executions -> Seq(Result)]
    <3>1. results[e] \o GroupResults(e, r) \in Seq(Result)
      BY <2>1, ConcatProperties DEF TypeInv, TypeOK
    <3>. QED
      BY <1>3, <3>1 DEF TypeInv, TypeOK, Advance
  <2>5. index' \in [Executions -> Nat]
    BY <1>3, <2>1 DEF TypeInv, TypeOK, Advance, Runner, AwaitsGroup
  <2>. QED
    BY <1>3, <2>2, <2>3, <2>4, <2>5, RunFromType DEF TypeInv, TypeOK, Advance
<1>4. ASSUME NEW e \in Executions, NEW r \in Runs, Fail(e, r)
      PROVE  TypeInv'
  <2>1. runner[e][r] \in Runner
    BY <1>4 DEF TypeInv, TypeOK, Fail, Idle
  <2>2. [runner[e][r] EXCEPT !.state = "done"] \in Runner
    BY <2>1 DEF Runner
  <2>3. TypeOK'
    BY <1>4, <2>2 DEF TypeInv, TypeOK, Fail
  <2>4. AwaitsGroup' /\ AttemptsCounted'
    BY <1>4, <2>1 DEF TypeInv, TypeOK, AwaitsGroup, AttemptsCounted, Fail, Runner
  <2>5. Begun'
    BY <1>4, <2>2 DEF TypeInv, TypeOK, Begun, Fail, Tasks
  <2>. QED
    BY <2>3, <2>4, <2>5 DEF TypeInv
<1>5. ASSUME NEW t \in Tasks, TaskStep(t)
      PROVE  TypeInv'
  <2>1. /\ UNCHANGED <<status, index, results, runs, runner, journal>>
        /\ task[t].phase # "none"
    BY <1>5 DEF TaskStep, BeginStep, Retry, Deliver, Timeout
  <2>2. AwaitsGroup'
    BY <2>1 DEF TypeInv, AwaitsGroup
  <2>3. ASSUME NEW a \in Attempts, Submit(t, a) PROVE TypeInv'
    BY <2>1, <2>2, <2>3, SubmitType DEF TypeInv, TypeOK
  <2>4. ASSUME /\ task' \in [Tasks -> [phase : {"none", "new", "waiting", "backoff"} \cup Settled,
                                      attempt : 0 .. MaxAttempts]]
               /\ AttemptsCounted'
               /\ \A u \in Tasks : task'[u].phase # "none" <=> task[u].phase # "none",
               \/ UNCHANGED thread
               \/ \E n : \E s \in {"zombie", "ended"} : thread' = [thread EXCEPT ![<<t, n>>] = s]
        PROVE  TypeInv'
    <3>1. /\ thread' \in [Invocations -> {"none", "queued", "running", "zombie",
                                          "success", "failure", "ended"}]
          /\ \A i \in Invocations : thread'[i] # "none" => task[i[1]].phase # "none"
      BY <2>1, <2>4, ThreadType DEF TypeInv, TypeOK, Begun
    <3>2. \A i \in Invocations : i[1] \in Tasks
      BY DEF Invocations
    <3>3. Begun'
      BY <2>1, <2>4, <3>1, <3>2 DEF TypeInv, Begun
    <3>. QED
      BY <2>1, <2>2, <2>4, <3>1, <3>3 DEF TypeInv, TypeOK
  <2>5. CASE BeginStep(t)
    <3>1. CASE Submit(t, 1)
      BY <2>3, <3>1, Bounds DEF Attempts
    <3>2. CASE \E p \in {"skipped", "raised"} : task' = [task EXCEPT ![t].phase = p]
      <4>1. CASE UNCHANGED thread
        BY <2>1, <2>4, <3>2, <4>1 DEF TypeInv, TypeOK, AttemptsCounted, Settled
      <4>. QED
        BY <2>5, <3>1, <4>1 DEF BeginStep
    <3>. QED
      BY <2>5, <3>1, <3>2 DEF BeginStep
  <2>6. CASE Retry(t)
    <3>1. task[t].attempt + 1 \in Attempts
      BY <2>6, Bounds DEF Retry, TypeInv, TypeOK, AttemptsCounted, Attempts
    <3>. QED
      BY <2>3, <2>6, <3>1 DEF Retry
  <2>7. CASE Deliver(t)
    <3>1. CASE task' = [task EXCEPT ![t].phase = "ok"]
      BY <2>1, <2>4, <2>7, <3>1 DEF Deliver, TypeInv, TypeOK, AttemptsCounted, Settled
    <3>2. CASE AttemptFails(t)
      BY <2>1, <2>4, <2>7, <3>2, AttemptFailsType DEF Deliver
    <3>. QED
      BY <2>7, <3>1, <3>2 DEF Deliver
  <2>8. CASE Timeout(t)
    <3>1. \E s \in {"zombie", "ended"} :
            thread' = [thread EXCEPT ![<<t, task[t].attempt>>] = s]
      BY <2>8 DEF Timeout
    <3>. QED
      BY <2>1, <2>4, <2>8, <3>1, AttemptFailsType DEF Timeout
  <2>. QED
    BY <1>5, <2>5, <2>6, <2>7, <2>8 DEF TaskStep
<1>6. ASSUME NEW i \in Invocations, ThreadStep(i)
      PROVE  TypeInv'
  <2>1. /\ UNCHANGED <<status, index, results, runs, runner, task>>
        /\ thread[i] # "none"
        /\ \E o \in {"running", "success", "failure", "ended"} : thread' = [thread EXCEPT ![i] = o]
    BY <1>6 DEF ThreadStep, Dequeue, HandlerEnds, UnknownAction, EndThread, Running
  <2>2. /\ thread' \in [Invocations -> {"none", "queued", "running", "zombie",
                                        "success", "failure", "ended"}]
        /\ AwaitsGroup' /\ AttemptsCounted' /\ Begun'
    BY <2>1 DEF TypeInv, TypeOK, AwaitsGroup, AttemptsCounted, Begun
  <2>3. journal' \subseteq Entry
    <3>1. CASE HandlerEnds(i)
      <4>1. i[1] \in Tasks /\ i[1][1] \in Executions /\ i[1][3] \in Positions
        BY DEF Invocations, Tasks
      <4>2. WorkflowOf(i) \in Workflows
        BY <2>1, <4>1 DEF WorkflowOf, TypeInv, Begun, Runner
      <4>. QED
        BY <3>1, <4>1, <4>2 DEF HandlerEnds, TypeInv, TypeOK, Entry
    <3>. QED
      BY <1>6, <3>1 DEF ThreadStep, Dequeue, UnknownAction, TypeInv, TypeOK
  <2>. QED
    BY <2>1, <2>2, <2>3 DEF TypeInv, TypeOK
<1>7. CASE UNCHANGED vars
  BY <1>7 DEF TypeInv, TypeOK, AwaitsGroup, AttemptsCounted, Begun, vars
<1>. QED
  BY <1>1, <1>2, <1>3, <1>4, <1>5, <1>6, <1>7 DEF Next, RunnerStep

LEMMA TypeInvariance == Spec => []TypeInv
BY InitType, NextType, PTL DEF Spec

\* Every variable keeps its type, whatever is retried, timed out or resumed.
THEOREM TypeCorrect == Spec => []TypeOK
<1>1. TypeInv => TypeOK
  BY DEF TypeInv
<1>. QED
  BY <1>1, TypeInvariance, PTL

-----------------------------------------------------------------------------
(* The runs of an execution and what they record                           *)

\* Exactly the runs counted in runs[e] have begun.
RunsBegun ==
  \A e \in Executions, r \in Runs :
    IF r <= runs[e] THEN runner[e][r] \in Runner
    ELSE runner[e][r] = Idle /\ \A k \in Positions : task[<<e, r, k>>].phase = "none"

EndedByARun ==
  \A e \in Executions :
    /\ status[e] \in {"none", "CANCELLED"} => runs[e] = 0
    /\ status[e] \in {"COMPLETED", "FAILED"} => runs[e] # 0

\* What a live runner awaits starts right behind the checkpoint.
AtCheckpoint ==
  \A e \in Executions, r \in Runs :
    runner[e][r].state = "live" => runner[e][r].pos = index[e] + 1

TaskEntry(t) == <<t[1], runner[t[1]][t[2]].wf, t[3], TRUE>>

\* An outcome is journaled before it is delivered.
SuccessIsJournaled ==
  /\ \A i \in Invocations : thread[i] = "success" => TaskEntry(i[1]) \in journal
  /\ \A t \in Tasks : task[t].phase = "ok" => TaskEntry(t) \in journal

\* The inductive invariant: that a run has a single runner and starts behind the
\* checkpoint is what makes its results continue step_results, and that successes
\* are journaled before they are delivered is what backs them.
RunInv ==
  /\ RunsBegun
  /\ EndedByARun
  /\ SoleRunner
  /\ AtCheckpoint
  /\ SuccessIsJournaled
  /\ ResultsAreBacked
  /\ CompletedIsComplete

\* What the loop head does to the run it is called for, and that it does nothing
\* to any other.
LEMMA LoopHead ==
  ASSUME TypeInv,
         NEW e \in Executions, NEW r \in Runs, NEW w \in Workflows, NEW p \in Nat \ {0},
         RunFrom(e, r, w, p)
  PROVE  /\ runner'[e][r] \in Runner /\ runner'[e][r].wf = w
         /\ \/ /\ p > Len(Steps[w])
               /\ status'[e] = "COMPLETED"
               /\ runner'[e][r].state = "done"
            \/ /\ status'[e] = "RUNNING"
               /\ runner'[e][r].state = "live"
               /\ runner'[e][r].pos = p
         /\ \A d \in Executions \ {e} : status'[d] = status[d] /\ runner'[d] = runner[d]
         /\ \A s \in Runs \ {r} : runner'[e][s] = runner[e][s]
         /\ \A t \in Tasks :
              \/ task'[t] = task[t]
              \/ /\ t[1] = e /\ t[2] = r /\ t[3] >= p
                 /\ task'[t].phase = "new" /\ task'[t].attempt = 0
<1>1. CASE /\ p > Len(Steps[w])
           /\ status' = [status EXCEPT ![e] = "COMPLETED"]
           /\ runner' = [runner EXCEPT ![e][r] =
                           [state |-> "done", wf |-> w, pos |-> p, last |-> p]]
           /\ UNCHANGED task
  BY <1>1 DEF TypeInv, TypeOK, Runner
<1>2. ASSUME NEW q \in p .. Len(Steps[w]),
             /\ status' = [status EXCEPT ![e] = "RUNNING"]
             /\ runner' = [runner EXCEPT ![e][r] =
                             [state |-> "live", wf |-> w, pos |-> p, last |-> q]]
             /\ task' = [t \in Tasks |-> IF t \in {e} \X {r} \X (p .. q)
                                         THEN [phase |-> "new", attempt |-> 0] ELSE task[t]]
      PROVE  /\ runner'[e][r] \in Runner /\ runner'[e][r].wf = w
             /\ status'[e] = "RUNNING"
             /\ runner'[e][r].state = "live"
             /\ runner'[e][r].pos = p
             /\ \A d \in Executions \ {e} : status'[d] = status[d] /\ runner'[d] = runner[d]
             /\ \A s \in Runs \ {r} : runner'[e][s] = runner[e][s]
             /\ \A t \in Tasks :
                  \/ task'[t] = task[t]
                  \/ /\ t[1] = e /\ t[2] = r /\ t[3] >= p
                     /\ task'[t].phase = "new" /\ task'[t].attempt = 0
  <2>1. q \in Nat
    BY <1>2, StepsType
  <2>2. \A t \in {e} \X {r} \X (p .. q) : t[1] = e /\ t[2] = r /\ t[3] >= p
    BY <2>1
  <2>3. \A t \in Tasks :
          \/ task'[t] = task[t]
          \/ /\ t[1] = e /\ t[2] = r /\ t[3] >= p
             /\ task'[t].phase = "new" /\ task'[t].attempt = 0
    BY <1>2, <2>2
  <2>. QED
    BY <1>2, <2>1, <2>3 DEF TypeInv, TypeOK, Runner
<1>. QED
  BY <1>1, <1>2 DEF RunFrom

LEMMA StartRunnerRuns ==
  ASSUME TypeInv, RunInv, NEW e \in Executions, NEW w \in Workflows,
         status[e] \in {"none", "FAILED"}, StartRunner(e, w)
  PROVE  RunInv'
<1> DEFINE r == runs[e] + 1
<1>1. /\ r \in Runs /\ index[e] + 1 \in Nat \ {0}
      /\ runs'[e] = r
      /\ \A d \in Executions \ {e} : runs'[d] = runs[d]
      /\ \A d \in Executions : runs[d] \in Nat
      /\ UNCHANGED <<index, results, thread, journal>>
  BY Bounds DEF TypeInv, TypeOK, StartRunner, Runs
<1>2. RunFrom(e, r, w, index[e] + 1)
  BY DEF StartRunner
<1>. HIDE DEF r
<1>3. /\ runner'[e][r] \in Runner /\ runner'[e][r].wf = w
      /\ \/ /\ index[e] + 1 > Len(Steps[w])
            /\ status'[e] = "COMPLETED"
            /\ runner'[e][r].state = "done"
         \/ /\ status'[e] = "RUNNING"
            /\ runner'[e][r].state = "live"
            /\ runner'[e][r].pos = index[e] + 1
      /\ \A d \in Executions \ {e} : status'[d] = status[d] /\ runner'[d] = runner[d]
      /\ \A s \in Runs \ {r} : runner'[e][s] = runner[e][s]
      /\ \A t \in Tasks :
           \/ task'[t] = task[t]
           \/ /\ t[1] = e /\ t[2] = r /\ t[3] >= index[e] + 1
              /\ task'[t].phase = "new" /\ task'[t].attempt = 0
  BY <1>1, <1>2, LoopHead
<1>4. /\ \A s \in Runs : s # r => (s <= runs'[e] <=> s <= runs[e])
      /\ r > runs[e] /\ r # 0
      /\ \A s \in Runs : runner[e][s].state # "live"
  <2>1. LiveRuns(e) = {}
    BY DEF RunInv, SoleRunner
  <2>2. /\ r > runs[e] /\ r # 0
        /\ \A s \in Runs : s # r => (s <= runs'[e] <=> s <= runs[e])
    BY <1>1 DEF r, Runs
  <2>. QED
    BY <2>1, <2>2 DEF LiveRuns
<1>5. \A t \in Tasks : (t[1] # e \/ t[2] # r) => task'[t] = task[t] /\ runner'[t[1]][t[2]] = runner[t[1]][t[2]]
  BY <1>3 DEF Tasks
<1>6. RunsBegun'
  <2>1. ASSUME NEW d \in Executions, NEW s \in Runs, d # e \/ s # r
        PROVE  /\ runner'[d][s] = runner[d][s]
               /\ s <= runs'[d] <=> s <= runs[d]
               /\ \A k \in Positions : task'[<<d, s, k>>] = task[<<d, s, k>>]
    BY <1>1, <1>3, <1>4, <1>5, <2>1 DEF Tasks
  <2>2. r <= runs'[e]
    BY <1>1 DEF r, TypeInv, TypeOK
  <2>. QED
    BY <1>3, <2>1, <2>2 DEF RunInv, RunsBegun
<1>7. EndedByARun'
  BY <1>1, <1>3, <1>4 DEF RunInv, EndedByARun
<1>8. SoleRunner'
  <2>1. \A d \in Executions \ {e} : LiveRuns(d)' = LiveRuns(d)
    BY <1>3 DEF LiveRuns
  <2>2. LiveRuns(e)' = IF status'[e] = "RUNNING" THEN {r} ELSE {}
    BY <1>1, <1>3, <1>4 DEF LiveRuns
  <2>. QED
    BY <1>1, <1>3, <2>1, <2>2 DEF r, RunInv, SoleRunner
<1>9. AtCheckpoint'
  BY <1>1, <1>3, <1>4 DEF RunInv, AtCheckpoint
<1>10. SuccessIsJournaled'
  <2>1. \A t \in Tasks : task[t].phase # "none" => TaskEntry(t)' = TaskEntry(t)
    <3>1. \A t \in Tasks : task[t].phase # "none" => t[1] # e \/ t[2] # r
      <4>1. ~ (r <= runs[e])
        BY <1>1 DEF r
      <4>2. \A k \in Positions : task[<<e, r, k>>].phase = "none"
        BY <1>1, <4>1 DEF RunInv, RunsBegun
      <4>. QED
        BY <4>2 DEF Tasks
    <3>. QED
      BY <1>5, <3>1 DEF TaskEntry
  <2>2. \A i \in Invocations : i[1] \in Tasks
    BY DEF Invocations
  <2>3. \A t \in Tasks : task'[t].phase = "ok" => task[t].phase = "ok"
    BY <1>3
  <2>. QED
    BY <1>1, <2>1, <2>2, <2>3 DEF RunInv, SuccessIsJournaled, TypeInv, Begun
<1>11. ResultsAreBacked'
  BY <1>1 DEF RunInv, ResultsAreBacked
<1>12. CompletedIsComplete'
  <2>1. \A d \in Executions \ {e} : runner'[d][runs'[d]] = runner[d][runs[d]]
    BY <1>1, <1>3
  <2>2. status'[e] = "COMPLETED" => index'[e] >= Len(Steps[runner'[e][runs'[e]].wf])
    BY <1>1, <1>3, StepsType DEF TypeInv, TypeOK
  <2>. QED
    BY <1>1, <1>3, <2>1, <2>2 DEF RunInv, CompletedIsComplete
<1>. QED
  BY <1>6, <1>7, <1>8, <1>9, <1>10, <1>11, <1>12 DEF RunInv

\* A live runner is that of the latest run and awaits what follows the checkpoint.
LEMMA LiveRunner ==
  ASSUME TypeInv, RunInv, NEW e \in Executions, NEW r \in Runs, runner[e][r].state = "live"
  PROVE  /\ status[e] = "RUNNING" /\ r = runs[e] /\ LiveRuns(e) = {r}
         /\ index[e] \in Nat
         /\ runner[e][r].pos = index[e] + 1
         /\ runner[e][r].last \in Nat /\ runner[e][r].last >= index[e] + 1
         /\ runner[e][r].last <= Len(Steps[runner[e][r].wf])
<1>1. r \in LiveRuns(e)
  BY DEF LiveRuns
<1>2. status[e] = "RUNNING" /\ r = runs[e] /\ LiveRuns(e) = {r}
  BY <1>1 DEF RunInv, SoleRunner
<1>3. runner[e][r].pos = index[e] + 1 /\ index[e] \in Nat
  BY DEF RunInv, AtCheckpoint, TypeInv, TypeOK
<1>4. /\ runner[e][r].pos \in 1 .. runner[e][r].last
      /\ runner[e][r].last <= Len(Steps[runner[e][r].wf])
  BY DEF TypeInv, AwaitsGroup
<1>. QED
  BY <1>2, <1>3, <1>4, GroupResultsType DEF Runner

\* What Advance leaves in step_results: the old results, then one per awaited step.
LEMMA AdvanceResults ==
  ASSUME TypeInv, RunInv, NEW e \in Executions, NEW r \in Runs, Advance(e, r)
  PROVE  /\ index'[e] = runner[e][r].last
         /\ Len(results'[e]) = runner[e][r].last
         /\ \A k \in 1 .. runner[e][r].last :
              \/ k <= index[e] /\ results'[e][k] = results[e][k]
              \/ /\ k \in runner[e][r].pos .. runner[e][r].last
                 /\ results'[e][k] = [wf |-> runner[e][r].wf, pos |-> k,
                                      skipped |-> task[<<e, r, k>>].phase = "skipped"]
<1> DEFINE G == GroupResults(e, r)
           last == runner[e][r].last
           wf == runner[e][r].wf
<1>1. /\ runner[e][r].state = "live"
      /\ index' = [index EXCEPT ![e] = @ + (runner[e][r].last - runner[e][r].pos + 1)]
      /\ results' = [results EXCEPT ![e] = @ \o G]
  BY DEF Advance
<1>2. /\ index[e] \in Nat /\ last \in Nat /\ last >= index[e] + 1
      /\ runner[e][r].pos = index[e] + 1
  BY <1>1, LiveRunner
<1>3. G \in Seq(Result) /\ Len(G) = last - index[e]
  BY <1>1, <1>2, GroupResultsType
<1>4. /\ results[e] \in Seq(Result) /\ Len(results[e]) = index[e]
      /\ results'[e] = results[e] \o G
      /\ index'[e] = last
  <2>1. results[e] \in Seq(Result) /\ Len(results[e]) = index[e]
    BY DEF TypeInv, TypeOK, RunInv, ResultsAreBacked
  <2>2. results'[e] = results[e] \o G
    BY <1>1 DEF TypeInv, TypeOK
  <2>3. index'[e] = last
    <3>1. index'[e] = index[e] + (last - runner[e][r].pos + 1)
      BY <1>1 DEF TypeInv, TypeOK
    <3>. HIDE DEF last
    <3>. QED
      BY <1>2, <3>1
  <2>. QED
    BY <2>1, <2>2, <2>3
<1>5. \A m \in 1 .. (last - index[e]) :
        G[m] = [wf |-> wf, pos |-> index[e] + m,
                skipped |-> task[<<e, r, index[e] + m>>].phase = "skipped"]
  BY <1>2 DEF GroupResults
<1>. HIDE DEF G, last, wf
<1>6. /\ Len(results'[e]) = last
      /\ \A k \in 1 .. last : results'[e][k] = IF k <= index[e] THEN results[e][k]
                                               ELSE G[k - index[e]]
  <2>1. /\ Len(results[e] \o G) = Len(results[e]) + Len(G)
        /\ \A k \in 1 .. Len(results[e]) + Len(G) :
             (results[e] \o G)[k] = IF k <= Len(results[e]) THEN results[e][k]
                                    ELSE G[k - Len(results[e])]
    BY <1>3, <1>4, ConcatProperties
  <2>2. Len(results[e]) + Len(G) = last
    BY <1>2, <1>3, <1>4
  <2>. QED
    BY <1>4, <2>1, <2>2
<1>7. ASSUME NEW k \in 1 .. last, ~ (k <= index[e])
      PROVE  /\ k \in runner[e][r].pos .. last
             /\ results'[e][k] = [wf |-> wf, pos |-> k,
                                  skipped |-> task[<<e, r, k>>].phase = "skipped"]
  <2>1. k - index[e] \in 1 .. (last - index[e]) /\ index[e] + (k - index[e]) = k
    BY <1>2, <1>7
  <2>2. G[k - index[e]] = [wf |-> wf, pos |-> k,
                           skipped |-> task[<<e, r, k>>].phase = "skipped"]
    BY <1>5, <2>1
  <2>. QED
    BY <1>2, <1>6, <1>7, <2>2
<1>. QED
  BY <1>4, <1>6, <1>7 DEF last, wf

LEMMA AdvanceRuns ==
  ASSUME TypeInv, RunInv, NEW e \in Executions, NEW r \in Runs, Advance(e, r)
  PROVE  RunInv'
<1> DEFINE w == runner[e][r].wf
           last == runner[e][r].last
<1>1. /\ runner[e][r].state = "live"
      /\ \A t \in GroupTasks(e, r) : task[t].phase \in {"ok", "skipped"}
      /\ \A d \in Executions \ {e} : index'[d] = index[d] /\ results'[d] = results[d]
      /\ UNCHANGED <<runs, thread, journal>>
  BY DEF Advance, TypeInv, TypeOK
<1>2. /\ status[e] = "RUNNING" /\ r = runs[e] /\ LiveRuns(e) = {r}
      /\ index[e] \in Nat /\ last \in Nat /\ last + 1 \in Nat \ {0}
      /\ runner[e][r].pos = index[e] + 1
      /\ last <= Len(Steps[w])
  BY <1>1, LiveRunner
<1>3. w \in Workflows /\ Len(Steps[w]) \in Nat /\ 1 .. Len(Steps[w]) \subseteq Positions
  BY <1>1, GroupResultsType, StepsType DEF Runner
<1>4. RunFrom(e, r, w, last + 1)
  BY DEF Advance
<1>. HIDE DEF w, last
<1>5. /\ runner'[e][r] \in Runner /\ runner'[e][r].wf = w
      /\ \/ /\ last + 1 > Len(Steps[w])
            /\ status'[e] = "COMPLETED"
            /\ runner'[e][r].state = "done"
         \/ /\ status'[e] = "RUNNING"
            /\ runner'[e][r].state = "live"
            /\ runner'[e][r].pos = last + 1
      /\ \A d \in Executions \ {e} : status'[d] = status[d] /\ runner'[d] = runner[d]
      /\ \A s \in Runs \ {r} : runner'[e][s] = runner[e][s]
      /\ \A t \in Tasks :
           \/ task'[t] = task[t]
           \/ /\ t[1] = e /\ t[2] = r /\ t[3] >= last + 1
              /\ task'[t].phase = "new" /\ task'[t].attempt = 0
  BY <1>2, <1>3, <1>4, LoopHead
<1>6. /\ index'[e] = last
      /\ Len(results'[e]) = last
      /\ \A k \in 1 .. last :
           \/ k <= index[e] /\ results'[e][k] = results[e][k]
           \/ /\ k \in runner[e][r].pos .. last
              /\ results'[e][k] = [wf |-> w, pos |-> k,
                                   skipped |-> task[<<e, r, k>>].phase = "skipped"]
  BY AdvanceResults DEF w, last
<1>7. \A s \in Runs \ {r} : runner[e][s].state # "live"
  BY <1>2 DEF LiveRuns
<1>8. RunsBegun'
  <2>1. ASSUME NEW d \in Executions, NEW s \in Runs, d # e \/ s # r
        PROVE  /\ runner'[d][s] = runner[d][s]
               /\ runs'[d] = runs[d]
               /\ \A k \in Positions : task'[<<d, s, k>>] = task[<<d, s, k>>]
    BY <1>1, <1>5, <2>1 DEF Tasks
  <2>2. r <= runs'[e]
    BY <1>1, <1>2 DEF Runs, TypeInv, TypeOK
  <2>. QED
    BY <1>5, <2>1, <2>2 DEF RunInv, RunsBegun
<1>9. EndedByARun'
  BY <1>1, <1>2, <1>5 DEF RunInv, EndedByARun, Runs
<1>10. SoleRunner'
  <2>1. \A d \in Executions \ {e} : LiveRuns(d)' = LiveRuns(d)
    BY <1>5 DEF LiveRuns
  <2>2. LiveRuns(e)' = IF status'[e] = "RUNNING" THEN {r} ELSE {}
    BY <1>5, <1>7 DEF LiveRuns
  <2>3. runs[e] > 0
    BY <1>2 DEF Runs
  <2>. QED
    BY <1>1, <1>2, <1>5, <2>1, <2>2, <2>3 DEF RunInv, SoleRunner
<1>11. AtCheckpoint'
  BY <1>1, <1>5, <1>6, <1>7 DEF RunInv, AtCheckpoint
<1>12. SuccessIsJournaled'
  <2>1. \A t \in Tasks : TaskEntry(t)' = TaskEntry(t)
    BY <1>5 DEF TaskEntry, Tasks, w
  <2>2. \A i \in Invocations : i[1] \in Tasks
    BY DEF Invocations
  <2>3. \A t \in Tasks : task'[t].phase = "ok" => task[t].phase = "ok"
    BY <1>5
  <2>. QED
    BY <1>1, <2>1, <2>2, <2>3 DEF RunInv, SuccessIsJournaled
<1>13. ResultsAreBacked'
  <2>1. ASSUME NEW k \in runner[e][r].pos .. last, task[<<e, r, k>>].phase # "skipped"
        PROVE  <<e, w, k, TRUE>> \in journal
    <3>1. <<e, r, k>> \in GroupTasks(e, r)
      BY DEF GroupTasks, last
    <3>2. <<e, r, k>> \in Tasks
      BY <1>2, <1>3 DEF Tasks
    <3>3. task[<<e, r, k>>].phase = "ok"
      BY <1>1, <2>1, <3>1
    <3>. QED
      BY <3>2, <3>3 DEF RunInv, SuccessIsJournaled, TaskEntry, w
  <2>2. ASSUME NEW k \in 1 .. last
        PROVE  /\ results'[e][k].pos = k
               /\ ~ results'[e][k].skipped => <<e, results'[e][k].wf, k, TRUE>> \in journal
    <3>1. CASE k <= index[e] /\ results'[e][k] = results[e][k]
      <4>1. k \in 1 .. index[e]
        BY <1>2, <3>1
      <4>. QED
        BY <3>1, <4>1, Zenon DEF RunInv, ResultsAreBacked
    <3>2. CASE /\ k \in runner[e][r].pos .. last
               /\ results'[e][k] = [wf |-> w, pos |-> k,
                                    skipped |-> task[<<e, r, k>>].phase = "skipped"]
      <4>1. results'[e][k].pos = k /\ results'[e][k].wf = w
        BY <3>2, SMT
      <4>2. ASSUME task[<<e, r, k>>].phase = "skipped"
            PROVE  results'[e][k].skipped
        <5>1. results'[e][k] = [wf |-> w, pos |-> k, skipped |-> TRUE]
          BY <3>2, <4>2, Zenon
        <5>. QED
          BY <5>1
      <4>. QED
        BY <2>1, <3>2, <4>1, <4>2, Zenon
    <3>. QED
      BY <1>6, <3>1, <3>2
  <2>3. ASSUME NEW d \in Executions \ {e}
        PROVE  /\ Len(results'[d]) = index'[d]
               /\ \A k \in 1 .. index'[d] :
                    /\ results'[d][k].pos = k
                    /\ ~ results'[d][k].skipped => <<d, results'[d][k].wf, k, TRUE>> \in journal'
    <3>1. results'[d] = results[d] /\ index'[d] = index[d] /\ journal' = journal
      BY <1>1
    <3>. QED
      BY <3>1, Zenon DEF RunInv, ResultsAreBacked
  <2>4. journal' = journal
    BY <1>1
  <2>. QED
    BY <1>6, <2>2, <2>3, <2>4, Zenon DEF ResultsAreBacked
<1>14. CompletedIsComplete'
  <2>1. \A d \in Executions \ {e} : runner'[d][runs'[d]] = runner[d][runs[d]]
    BY <1>1, <1>5
  <2>2. status'[e] = "COMPLETED" => index'[e] >= Len(Steps[runner'[e][runs'[e]].wf])
    BY <1>1, <1>2, <1>3, <1>5, <1>6
  <2>. QED
    BY <1>1, <1>5, <2>1, <2>2 DEF RunInv, CompletedIsComplete
<1>. QED
  BY <1>8, <1>9, <1>10, <1>11, <1>12, <1>13, <1>14 DEF RunInv

LEMMA FailRuns ==
  ASSUME TypeInv, RunInv, NEW e \in Executions, NEW r \in Runs, Fail(e, r)
  PROVE  RunInv'
<1>1. /\ runner[e][r].state = "live"
      /\ status' = [status EXCEPT ![e] = "FAILED"]
      /\ runner' = [runner EXCEPT ![e][r].state = "done"]
      /\ UNCHANGED <<index, results, runs, task, thread, journal>>
  BY DEF Fail
<1>2. r = runs[e] /\ LiveRuns(e) = {r} /\ runner[e][r] \in Runner
  BY <1>1, LiveRunner, GroupResultsType
<1>3. /\ runner'[e][r] \in Runner /\ runner'[e][r].state = "done"
      /\ runner'[e][r].wf = runner[e][r].wf
      /\ status'[e] = "FAILED"
      /\ \A d \in Executions \ {e} : status'[d] = status[d] /\ runner'[d] = runner[d]
      /\ \A s \in Runs \ {r} : runner'[e][s] = runner[e][s]
  BY <1>1, <1>2 DEF TypeInv, TypeOK, Runner
<1>4. RunsBegun'
  <2>1. r <= runs[e]
    BY <1>2 DEF Runs
  <2>. QED
    BY <1>1, <1>3, <2>1 DEF RunInv, RunsBegun
<1>5. EndedByARun'
  BY <1>1, <1>2, <1>3 DEF RunInv, EndedByARun, Runs
<1>6. SoleRunner'
  <2>1. \A d \in Executions \ {e} : LiveRuns(d)' = LiveRuns(d)
    BY <1>3 DEF LiveRuns
  <2>2. LiveRuns(e)' = {}
    BY <1>2, <1>3 DEF LiveRuns
  <2>. QED
    BY <1>1, <1>3, <2>1, <2>2 DEF RunInv, SoleRunner
<1>7. AtCheckpoint'
  BY <1>1, <1>3 DEF RunInv, AtCheckpoint
<1>8. SuccessIsJournaled'
  <2>1. \A t \in Tasks : TaskEntry(t)' = TaskEntry(t)
    BY <1>3 DEF TaskEntry, Tasks
  <2>2. \A i \in Invocations : i[1] \in Tasks
    BY DEF Invocations
  <2>. QED
    BY <1>1, <2>1, <2>2 DEF RunInv, SuccessIsJournaled
<1>9. ResultsAreBacked'
  BY <1>1 DEF RunInv, ResultsAreBacked
<1>10. CompletedIsComplete'
  BY <1>1, <1>3 DEF RunInv, CompletedIsComplete
<1>. QED
  BY <1>4, <1>5, <1>6, <1>7, <1>8, <1>9, <1>10 DEF RunInv

\* What the steps of tasks do to what runs and results are read from.
LEMMA TaskStepEffect ==
  ASSUME TypeInv, NEW t \in Tasks, TaskStep(t)
  PROVE  /\ UNCHANGED <<status, index, results, runs, runner, journal>>
         /\ task[t].phase \in {"new", "waiting", "backoff"}
         /\ task'[t].phase # "none"
         /\ \A u \in Tasks : u # t => task'[u] = task[u]
         /\ \A i \in Invocations : thread'[i] = "success" => thread[i] = "success"
         /\ task'[t].phase = "ok" =>
              \E a \in Attempts : <<t, a>> \in Invocations /\ thread[<<t, a>>] = "success"
<1>1. ASSUME NEW a, Submit(t, a)
      PROVE  /\ \A u \in Tasks : u # t => task'[u] = task[u]
             /\ task'[t].phase = "waiting"
             /\ \A i \in Invocations : thread'[i] = "success" => thread[i] = "success"
  BY <1>1 DEF Submit, TypeInv, TypeOK
<1>2. ASSUME NEW p \in {"ok", "skipped", "raised", "backoff"}, task' = [task EXCEPT ![t].phase = p]
      PROVE  /\ \A u \in Tasks : u # t => task'[u] = task[u]
             /\ task'[t].phase = p
  BY <1>2 DEF TypeInv, TypeOK
<1>3. AttemptFails(t) => \E p \in {"raised", "backoff"} : task' = [task EXCEPT ![t].phase = p]
  BY DEF AttemptFails
<1>4. ASSUME NEW n, NEW s \in {"zombie", "ended"}, thread' = [thread EXCEPT ![<<t, n>>] = s]
      PROVE  \A i \in Invocations : thread'[i] = "success" => thread[i] = "success"
  BY <1>4 DEF TypeInv, TypeOK
<1>5. CASE BeginStep(t)
  BY <1>1, <1>2, <1>5 DEF BeginStep
<1>6. CASE Retry(t)
  BY <1>1, <1>6 DEF Retry
<1>7. CASE Deliver(t)
  <2>1. /\ UNCHANGED <<status, index, results, runs, runner, journal>>
        /\ task[t].phase = "waiting"
        /\ \A i \in Invocations : thread'[i] = "success" => thread[i] = "success"
    BY <1>4, <1>7 DEF Deliver
  <2>2. CASE AttemptFails(t)
    BY <1>2, <1>3, <2>1, <2>2
  <2>3. CASE thread[<<t, task[t].attempt>>] = "success" /\ task' = [task EXCEPT ![t].phase = "ok"]
    <3>1. task[t].attempt \in Attempts
      BY <2>1 DEF TypeInv, TypeOK, AttemptsCounted, Attempts
    <3>2. <<t, task[t].attempt>> \in Invocations
      BY <3>1 DEF Invocations
    <3>. QED
      BY <1>2, <2>1, <2>3, <3>1, <3>2
  <2>. QED
    BY <1>7, <2>2, <2>3 DEF Deliver
<1>8. CASE Timeout(t)
  <2>1. \E s \in {"zombie", "ended"} : thread' = [thread EXCEPT ![<<t, task[t].attempt>>] = s]
    BY <1>8 DEF Timeout
  <2>. QED
    BY <1>2, <1>3, <1>4, <1>8, <2>1 DEF Timeout
<1>. QED
  BY <1>5, <1>6, <1>7, <1>8 DEF TaskStep

\* What a thread's step does: the thread moves on and an outcome may be journaled.
LEMMA ThreadStepEffect ==
  ASSUME TypeInv, NEW i \in Invocations, ThreadStep(i)
  PROVE  /\ UNCHANGED <<status, index, results, runs, runner, task>>
         /\ journal \subseteq journal'
         /\ thread[i] # "none" /\ thread'[i] # "none"
         /\ \A j \in Invocations : j # i => thread'[j] = thread[j]
         /\ thread'[i] = "success" => TaskEntry(i[1]) \in journal'
<1>1. CASE Dequeue(i)
  BY <1>1 DEF Dequeue, TypeInv, TypeOK
<1>2. CASE HandlerEnds(i)
  <2>1. PICK s \in BOOLEAN :
          /\ EndThread(i, IF s THEN "success" ELSE "failure")
          /\ journal' = journal \cup {<<i[1][1], WorkflowOf(i), i[1][3], s>>}
    BY <1>2 DEF HandlerEnds
  <2>2. /\ thread[i] \in {"running", "zombie"}
        /\ \/ thread' = [thread EXCEPT ![i] = "ended"]
           \/ thread' = [thread EXCEPT ![i] = IF s THEN "success" ELSE "failure"]
    BY <2>1 DEF EndThread, Running
  <2>3. thread'[i] = "success" => s
    BY <2>2 DEF TypeInv, TypeOK
  <2>4. s => TaskEntry(i[1]) \in journal'
    <3>1. SUFFICES ASSUME s PROVE TaskEntry(i[1]) \in journal'
      OBVIOUS
    <3>2. journal' = journal \cup {<<i[1][1], WorkflowOf(i), i[1][3], TRUE>>}
      BY <2>1, <3>1
    <3>. QED
      BY <3>2 DEF TaskEntry, WorkflowOf
  <2>5. /\ thread[i] # "none" /\ thread'[i] # "none"
        /\ \A j \in Invocations : j # i => thread'[j] = thread[j]
    BY <2>2 DEF TypeInv, TypeOK
  <2>. QED
    BY <1>2, <2>1, <2>3, <2>4, <2>5 DEF HandlerEnds
<1>3. CASE UnknownAction(i)
  BY <1>3 DEF UnknownAction, EndThread, Running, TypeInv, TypeOK
<1>. QED
  BY <1>1, <1>2, <1>3 DEF ThreadStep

LEMMA TaskRuns ==
  ASSUME TypeInv, RunInv, NEW t \in Tasks, TaskStep(t)
  PROVE  RunInv'
<1>1. /\ UNCHANGED <<status, index, results, runs, runner, journal>>
      /\ task[t].phase # "none"
      /\ \A u \in Tasks : u # t => task'[u] = task[u]
      /\ \A i \in Invocations : thread'[i] = "success" => thread[i] = "success"
      /\ task'[t].phase = "ok" =>
           \E a \in Attempts : <<t, a>> \in Invocations /\ thread[<<t, a>>] = "success"
  BY TaskStepEffect
<1>2. RunsBegun'
  <2>1. ASSUME NEW e \in Executions, NEW r \in Runs, ~ (r <= runs[e]), NEW k \in Positions
        PROVE  task'[<<e, r, k>>].phase = "none"
    <3>1. task[<<e, r, k>>].phase = "none"
      BY <2>1 DEF RunInv, RunsBegun
    <3>2. <<e, r, k>> \in Tasks /\ <<e, r, k>> # t
      BY <1>1, <3>1 DEF Tasks
    <3>. QED
      BY <1>1, <3>1, <3>2
  <2>. QED
    BY <1>1, <2>1 DEF RunInv, RunsBegun
<1>3. EndedByARun' /\ AtCheckpoint' /\ CompletedIsComplete'
  BY <1>1 DEF RunInv, EndedByARun, AtCheckpoint, CompletedIsComplete
<1>4. SoleRunner'
  BY <1>1 DEF RunInv, SoleRunner, LiveRuns
<1>5. SuccessIsJournaled'
  <2>1. \A u \in Tasks : TaskEntry(u)' = TaskEntry(u)
    BY <1>1 DEF TaskEntry
  <2>2. \A i \in Invocations : i[1] \in Tasks
    BY DEF Invocations
  <2>3. \A i \in Invocations : thread'[i] = "success" => TaskEntry(i[1])' \in journal'
    BY <1>1, <2>1, <2>2 DEF RunInv, SuccessIsJournaled
  <2>4. task'[t].phase = "ok" => TaskEntry(t) \in journal
    BY <1>1 DEF RunInv, SuccessIsJournaled
  <2>5. \A u \in Tasks : task'[u].phase = "ok" => TaskEntry(u)' \in journal'
    BY <1>1, <2>1, <2>4 DEF RunInv, SuccessIsJournaled
  <2>. QED
    BY <2>3, <2>5 DEF SuccessIsJournaled
<1>6. ResultsAreBacked'
  BY <1>1 DEF RunInv, ResultsAreBacked
<1>. QED
  BY <1>2, <1>3, <1>4, <1>5, <1>6 DEF RunInv

LEMMA ThreadRuns ==
  ASSUME TypeInv, RunInv, NEW i \in Invocations, ThreadStep(i)
  PROVE  RunInv'
<1>1. /\ UNCHANGED <<status, index, results, runs, runner, task>>
      /\ journal \subseteq journal'
      /\ \A j \in Invocations : j # i => thread'[j] = thread[j]
      /\ thread'[i] = "success" => TaskEntry(i[1]) \in journal'
  BY ThreadStepEffect
<1>2. RunsBegun' /\ EndedByARun' /\ AtCheckpoint' /\ CompletedIsComplete'
  BY <1>1 DEF RunInv, RunsBegun, EndedByARun, AtCheckpoint, CompletedIsComplete
<1>3. SoleRunner'
  BY <1>1 DEF RunInv, SoleRunner, LiveRuns
<1>4. SuccessIsJournaled'
  <2>1. \A u \in Tasks : TaskEntry(u)' = TaskEntry(u)
    BY <1>1 DEF TaskEntry
  <2>2. \A j \in Invocations : j[1] \in Tasks
    BY DEF Invocations
  <2>. QED
    BY <1>1, <2>1, <2>2 DEF RunInv, SuccessIsJournaled
<1>5. ResultsAreBacked'
  BY <1>1 DEF RunInv, ResultsAreBacked
<1>. QED
  BY <1>2, <1>3, <1>4, <1>5 DEF RunInv

LEMMA InitRuns == Init => RunInv
<1>. SUFFICES ASSUME Init PROVE RunInv
  OBVIOUS
<1>1. RunsBegun /\ EndedByARun /\ AtCheckpoint
  BY Bounds DEF Init, RunsBegun, EndedByARun, AtCheckpoint, Idle, Runs, Tasks
<1>2. SoleRunner
  BY DEF Init, SoleRunner, LiveRuns, Idle
<1>3. SuccessIsJournaled
  BY DEF Init, SuccessIsJournaled
<1>4. ResultsAreBacked /\ CompletedIsComplete
  BY EmptySeq DEF Init, ResultsAreBacked, CompletedIsComplete
<1>. QED
  BY <1>1, <1>2, <1>3, <1>4 DEF RunInv

LEMMA NextRuns == TypeInv /\ RunInv /\ [Next]_vars => RunInv'
<1>. SUFFICES ASSUME TypeInv, RunInv, [Next]_vars PROVE RunInv'
  OBVIOUS
<1>1. ASSUME NEW e \in Executions, NEW w \in Workflows, Start(e, w)
      PROVE  RunInv'
  <2>1. CASE StartRunner(e, w)
    BY <1>1, <2>1, StartRunnerRuns DEF Start
  <2>2. CASE ~ StartRunner(e, w)
    <3>1. /\ status[e] = "none"
          /\ \E s \in {"CANCELLED", "RUNNING"} : status' = [status EXCEPT ![e] = s]
          /\ UNCHANGED <<index, results, runs, runner, task, thread, journal>>
      BY <1>1, <2>2 DEF Start
    <3>2. /\ \A d \in Executions \ {e} : status'[d] = status[d]
          /\ status'[e] \in {"CANCELLED", "RUNNING"}
          /\ runs[e] = 0
      BY <3>1 DEF TypeInv, TypeOK, RunInv, EndedByARun
    <3>3. EndedByARun' /\ CompletedIsComplete'
      BY <3>1, <3>2 DEF RunInv, EndedByARun, CompletedIsComplete
    <3>4. SoleRunner'
      BY <3>1, <3>2 DEF RunInv, SoleRunner, LiveRuns
    <3>5. RunsBegun' /\ AtCheckpoint'
      BY <3>1 DEF RunInv, RunsBegun, AtCheckpoint
    <3>6. SuccessIsJournaled' /\ ResultsAreBacked'
      BY <3>1 DEF RunInv, SuccessIsJournaled, ResultsAreBacked, TaskEntry
    <3>. QED
      BY <3>3, <3>4, <3>5, <3>6 DEF RunInv
  <2>. QED
    BY <2>1, <2>2
<1>2. ASSUME NEW e \in Executions, NEW w \in Workflows, Resume(e, w)
      PROVE  RunInv'
  BY <1>2, StartRunnerRuns DEF Resume, CanResume
<1>3. ASSUME NEW e \in Executions, NEW r \in Runs, RunnerStep(e, r)
      PROVE  RunInv'
  BY <1>3, AdvanceRuns, FailRuns DEF RunnerStep
<1>4. ASSUME NEW t \in Tasks, TaskStep(t)
      PROVE  RunInv'
  BY <1>4, TaskRuns
<1>5. ASSUME NEW i \in Invocations, ThreadStep(i)
      PROVE  RunInv'
  BY <1>5, ThreadRuns
<1>6. CASE UNCHANGED vars
  <2>1. RunsBegun' /\ EndedByARun' /\ AtCheckpoint' /\ CompletedIsComplete'
    BY <1>6 DEF vars, RunInv, RunsBegun, EndedByARun, AtCheckpoint, CompletedIsComplete
  <2>2. SoleRunner' /\ SuccessIsJournaled' /\ ResultsAreBacked'
    BY <1>6 DEF vars, RunInv, SoleRunner, LiveRuns, SuccessIsJournaled, TaskEntry, ResultsAreBacked
  <2>. QED
    BY <2>1, <2>2 DEF RunInv
<1>. QED
  BY <1>1, <1>2, <1>3, <1>4, <1>5, <1>6 DEF Next

LEMMA RunInvariance == Spec => []RunInv
BY InitRuns, NextRuns, TypeInvariance, PTL DEF Spec

\* However often an execution is failed and resumed, a RUNNING one that was run is
\* driven by its latest runner alone, and any other by none.
THEOREM OneRunner == Spec => []SoleRunner
<1>1. RunInv => SoleRunner
  BY DEF RunInv
<1>. QED
  BY <1>1, RunInvariance, PTL

\* step_results is the list of the steps behind the checkpoint, in order, and what
\* it says succeeded has a journal entry that says so.
THEOREM Backed == Spec => []ResultsAreBacked
<1>1. RunInv => ResultsAreBacked
  BY DEF RunInv
<1>. QED
  BY <1>1, RunInvariance, PTL

\* COMPLETED means that every step of the workflow last run is behind the checkpoint.
THEOREM Complete == Spec => []CompletedIsComplete
<1>1. RunInv => CompletedIsComplete
  BY DEF RunInv
<1>. QED
  BY <1>1, RunInvariance, PTL

-----------------------------------------------------------------------------
(* What a step of the specification may not do                             *)

\* No run, first or resumed, creates a task for a step already recorded.
THEOREM ResumesAtCheckpoint == Spec => NeverRerunsRecorded
<1> DEFINE Fresh(t) == task[t].phase = "none" /\ task'[t].phase # "none" =>
                         t[3] > Len(results'[t[1]])
<1>1. ASSUME TypeInv, RunInv, [Next]_vars, NEW t \in Tasks
      PROVE  Fresh(t)
  <2>1. ASSUME NEW e \in Executions, NEW w \in Workflows, StartRunner(e, w)
        PROVE  Fresh(t)
    <3>1. /\ runs[e] + 1 \in Runs /\ index[e] + 1 \in Nat \ {0}
          /\ Len(results[e]) = index[e]
          /\ UNCHANGED results
      <4>1. runs[e] + 1 \in Runs /\ index[e] + 1 \in Nat \ {0}
        BY <1>1, <2>1, Bounds DEF TypeInv, TypeOK, StartRunner, Runs
      <4>2. Len(results[e]) = index[e]
        BY <1>1, Zenon DEF RunInv, ResultsAreBacked
      <4>3. UNCHANGED results
        BY <2>1 DEF StartRunner
      <4>. QED
        BY <4>1, <4>2, <4>3
    <3>2. RunFrom(e, runs[e] + 1, w, index[e] + 1)
      BY <2>1 DEF StartRunner
    <3>3. task'[t] = task[t] \/ (t[1] = e /\ t[3] >= index[e] + 1)
      BY <1>1, <3>1, <3>2, LoopHead
    <3>4. t[3] \in Nat
      BY <1>1, PositionsNat DEF Tasks
    <3>. QED
      BY <1>1, <3>1, <3>3, <3>4 DEF TypeInv, TypeOK
  <2>2. ASSUME NEW e \in Executions, NEW r \in Runs, Advance(e, r)
        PROVE  Fresh(t)
    <3>1. runner[e][r].state = "live" /\ RunFrom(e, r, runner[e][r].wf, runner[e][r].last + 1)
      BY <2>2 DEF Advance
    <3>2. /\ runner[e][r].last \in Nat /\ runner[e][r].wf \in Workflows
          /\ Len(results'[e]) = runner[e][r].last
      BY <1>1, <2>2, <3>1, GroupResultsType, AdvanceResults DEF Runner
    <3>3. task'[t] = task[t] \/ (t[1] = e /\ t[3] >= runner[e][r].last + 1)
      BY <1>1, <3>1, <3>2, LoopHead
    <3>4. t[3] \in Nat
      BY <1>1, PositionsNat DEF Tasks
    <3>. QED
      BY <3>2, <3>3, <3>4
  <2>3. ASSUME NEW u \in Tasks, TaskStep(u)
        PROVE  Fresh(t)
    BY <1>1, <2>3, TaskStepEffect
  <2>4. ASSUME NEW i \in Invocations, ThreadStep(i)
        PROVE  Fresh(t)
    BY <1>1, <2>4, ThreadStepEffect
  <2>5. CASE UNCHANGED task
    BY <2>5
  <2>. QED
    BY <1>1, <2>1, <2>2, <2>3, <2>4, <2>5 DEF Next, Start, Resume, RunnerStep, Fail, vars
<1>2. TypeInv /\ RunInv /\ [Next]_vars =>
        [\A t \in Tasks :
           task[t].phase = "none" /\ task'[t].phase # "none" => t[3] > Len(results'[t[1]])]_vars
  BY <1>1
<1>. QED
  BY <1>2, TypeInvariance, RunInvariance, PTL DEF Spec, NeverRerunsRecorded

-----------------------------------------------------------------------------
(* Why an execution fails                                                  *)

\* An attempt counted was handed to a thread, a task that has not begun has none,
\* and a task raises on its last attempt or before its first.
Made(t) ==
  /\ \A a \in Attempts : a <= task[t].attempt => thread[<<t, a>>] # "none"
  /\ task[t].phase \in {"none", "new"} => task[t].attempt = 0
  /\ task[t].phase = "raised" => task[t].attempt \in {0, MaxAttempts}

AttemptsMade == \A t \in Tasks : Made(t)

\* The task an execution failed on stays among those its latest run awaited.
FailedOnATask ==
  \A e \in Executions :
    status[e] = "FAILED" =>
      \E t \in GroupTasks(e, runs[e]) : t \in Tasks /\ task[t].phase = "raised"

ExhaustInv == AttemptsMade /\ FailedOnATask

\* What the steps of a task do to its attempts.
LEMMA TaskStepAttempts ==
  ASSUME TypeInv, AttemptsMade, NEW t \in Tasks, TaskStep(t)
  PROVE  AttemptsMade'
<1>1. ASSUME NEW u \in Tasks, u # t
      PROVE  Made(u)'
  <2>1. task'[u] = task[u]
    BY <1>1, TaskStepEffect
  <2>2. \A a \in Attempts : thread'[<<u, a>>] = thread[<<u, a>>]
    BY <1>1 DEF TaskStep, BeginStep, Retry, Deliver, Timeout, Submit, TypeInv, TypeOK, Invocations
  <2>. QED
    BY <2>1, <2>2 DEF AttemptsMade, Made
<1>2. /\ task[t] \in [phase : {"none", "new", "waiting", "backoff"} \cup Settled,
                      attempt : 0 .. MaxAttempts]
      /\ task[t].attempt \in 0 .. MaxAttempts
  BY DEF TypeInv, TypeOK
<1>3. Made(t)
  BY DEF AttemptsMade
<1>4. ASSUME NEW a \in Attempts, a = task[t].attempt + 1, Submit(t, a)
      PROVE  Made(t)'
  <2>1. task'[t].phase = "waiting" /\ task'[t].attempt = a
    BY <1>4 DEF Submit, TypeInv, TypeOK
  <2>2. \A b \in Attempts : thread'[<<t, b>>] = IF b = a THEN "queued" ELSE thread[<<t, b>>]
    BY <1>4 DEF Submit, TypeInv, TypeOK, Invocations
  <2>3. \A b \in Attempts : b <= a => b = a \/ b <= task[t].attempt
    BY <1>2, <1>4 DEF Attempts
  <2>. QED
    BY <1>3, <2>1, <2>2, <2>3 DEF Made
<1>5. ASSUME NEW p \in {"ok", "skipped", "raised", "backoff"},
             task' = [task EXCEPT ![t].phase = p],
             p = "raised" => task[t].attempt \in {0, MaxAttempts},
             \/ UNCHANGED thread
             \/ \E s \in {"zombie", "ended"} : thread' = [thread EXCEPT ![<<t, task[t].attempt>>] = s]
      PROVE  Made(t)'
  <2>1. task'[t].phase = p /\ task'[t].attempt = task[t].attempt
    BY <1>2, <1>5 DEF TypeInv, TypeOK
  <2>2. \A a \in Attempts : thread[<<t, a>>] # "none" => thread'[<<t, a>>] # "none"
    BY <1>5 DEF TypeInv, TypeOK, Invocations
  <2>. QED
    BY <1>3, <1>5, <2>1, <2>2 DEF Made
<1>6. AttemptFails(t) =>
        \E p \in {"raised", "backoff"} :
          /\ task' = [task EXCEPT ![t].phase = p]
          /\ p = "raised" => task[t].attempt \in {0, MaxAttempts}
  <2>1. CASE task[t].attempt < MaxAttempts
    BY <2>1 DEF AttemptFails
  <2>2. CASE ~ (task[t].attempt < MaxAttempts)
    <3>1. task[t].attempt = MaxAttempts
      BY <1>2, <2>2, Bounds
    <3>. QED
      BY <2>2, <3>1 DEF AttemptFails
  <2>. QED
    BY <2>1, <2>2
<1>7. Made(t)'
  <2>1. CASE BeginStep(t)
    <3>1. task[t].attempt = 0 /\ 1 \in Attempts /\ 1 = task[t].attempt + 1
      <4>1. task[t].phase = "new"
        BY <2>1 DEF BeginStep
      <4>2. task[t].attempt = 0
        BY <1>3, <4>1 DEF Made
      <4>. QED
        BY <4>2, Bounds DEF Attempts
    <3>2. CASE Submit(t, 1)
      BY <1>4, <3>1, <3>2, Zenon
    <3>3. CASE /\ \E p \in {"skipped", "raised"} : task' = [task EXCEPT ![t].phase = p]
               /\ UNCHANGED thread
      BY <1>5, <3>1, <3>3
    <3>4. \/ Submit(t, 1)
          \/ /\ \E p \in {"skipped", "raised"} : task' = [task EXCEPT ![t].phase = p]
             /\ UNCHANGED thread
      BY <2>1, Zenon DEF BeginStep
    <3>. QED
      BY <3>2, <3>3, <3>4
  <2>2. CASE Retry(t)
    <3>1. task[t].attempt + 1 \in Attempts
      BY <1>2, <2>2, Bounds DEF Retry, TypeInv, AttemptsCounted, Attempts
    <3>. QED
      BY <1>4, <2>2, <3>1 DEF Retry
  <2>3. CASE Deliver(t)
    BY <1>5, <1>6, <2>3 DEF Deliver
  <2>4. CASE Timeout(t)
    BY <1>5, <1>6, <2>4 DEF Timeout
  <2>. QED
    BY <2>1, <2>2, <2>3, <2>4 DEF TaskStep
<1>. QED
  BY <1>1, <1>7 DEF AttemptsMade

\* The loop head leaves attempts alone, and an execution other than its own.
LEMMA RunFromExhausts ==
  ASSUME TypeInv, ExhaustInv,
         NEW e \in Executions, NEW r \in Runs, NEW w \in Workflows, NEW p \in Nat \ {0},
         RunFrom(e, r, w, p), UNCHANGED thread,
         \A d \in Executions \ {e} : runs'[d] = runs[d]
  PROVE  ExhaustInv'
<1>1. /\ status'[e] \in {"COMPLETED", "RUNNING"}
      /\ \A d \in Executions \ {e} : status'[d] = status[d] /\ runner'[d] = runner[d]
      /\ \A t \in Tasks :
           \/ task'[t] = task[t]
           \/ t[1] = e /\ task'[t].phase = "new" /\ task'[t].attempt = 0
  BY LoopHead
<1>2. AttemptsMade'
  BY <1>1 DEF ExhaustInv, AttemptsMade, Made, Attempts
<1>3. ASSUME NEW d \in Executions, status'[d] = "FAILED"
      PROVE  \E t \in GroupTasks(d, runs[d])' : t \in Tasks /\ task'[t].phase = "raised"
  <2>1. d \in Executions \ {e} /\ status[d] = "FAILED"
    BY <1>1, <1>3
  <2>2. GroupTasks(d, runs[d])' = GroupTasks(d, runs[d])
    BY <1>1, <2>1 DEF GroupTasks
  <2>3. PICK t \in GroupTasks(d, runs[d]) : t \in Tasks /\ task[t].phase = "raised"
    BY <2>1 DEF ExhaustInv, FailedOnATask
  <2>4. task'[t] = task[t]
    BY <1>1, <2>1, <2>3 DEF GroupTasks
  <2>. QED
    BY <2>2, <2>3, <2>4
<1>. QED
  BY <1>2, <1>3 DEF ExhaustInv, FailedOnATask

LEMMA NextExhausts == TypeInv /\ RunInv /\ ExhaustInv /\ [Next]_vars => ExhaustInv'
<1>. SUFFICES ASSUME TypeInv, RunInv, ExhaustInv, [Next]_vars PROVE ExhaustInv'
  OBVIOUS
<1>1. ASSUME NEW e \in Executions, NEW w \in Workflows, StartRunner(e, w)
      PROVE  ExhaustInv'
  <2>1. /\ runs[e] + 1 \in Runs /\ index[e] + 1 \in Nat \ {0}
        /\ \A d \in Executions \ {e} : runs'[d] = runs[d]
        /\ UNCHANGED thread
    BY <1>1, Bounds DEF TypeInv, TypeOK, StartRunner, Runs
  <2>2. RunFrom(e, runs[e] + 1, w, index[e] + 1)
    BY <1>1 DEF StartRunner
  <2>. QED
    BY <2>1, <2>2, RunFromExhausts
<1>2. ASSUME NEW e \in Executions, UNCHANGED <<runs, runner, task, thread>>,
             \E s \in {"CANCELLED", "RUNNING"} : status' = [status EXCEPT ![e] = s]
      PROVE  ExhaustInv'
  <2>1. \A d \in Executions : status'[d] = "FAILED" => status[d] = "FAILED"
    BY <1>2 DEF TypeInv, TypeOK
  <2>. QED
    BY <1>2, <2>1 DEF ExhaustInv, AttemptsMade, Made, FailedOnATask, GroupTasks
<1>3. ASSUME NEW e \in Executions, NEW r \in Runs, Advance(e, r)
      PROVE  ExhaustInv'
  <2>1. /\ runner[e][r].state = "live" /\ UNCHANGED <<runs, thread>>
        /\ RunFrom(e, r, runner[e][r].wf, runner[e][r].last + 1)
    BY <1>3 DEF Advance
  <2>2. runner[e][r].wf \in Workflows /\ runner[e][r].last + 1 \in Nat \ {0}
    BY <2>1, GroupResultsType DEF Runner
  <2>. QED
    BY <2>1, <2>2, RunFromExhausts
<1>4. ASSUME NEW e \in Executions, NEW r \in Runs, Fail(e, r)
      PROVE  ExhaustInv'
  <2>1. /\ runner[e][r].state = "live"
        /\ \E t \in GroupTasks(e, r) : task[t].phase = "raised"
        /\ status' = [status EXCEPT ![e] = "FAILED"]
        /\ runner' = [runner EXCEPT ![e][r].state = "done"]
        /\ UNCHANGED <<runs, task, thread>>
    BY <1>4 DEF Fail
  <2>2. /\ runner[e][r] \in Runner /\ r = runs[e]
        /\ runner[e][r].pos = index[e] + 1 /\ index[e] \in Nat
        /\ runner[e][r].last \in Nat /\ runner[e][r].last <= Len(Steps[runner[e][r].wf])
    BY <2>1, LiveRunner, GroupResultsType
  <2>3. /\ runner'[e][r].pos = runner[e][r].pos /\ runner'[e][r].last = runner[e][r].last
        /\ \A d \in Executions \ {e} : status'[d] = status[d] /\ runner'[d] = runner[d]
    BY <2>1, <2>2 DEF TypeInv, TypeOK, Runner
  <2>4. GroupTasks(e, r) \subseteq Tasks
    <3>1. runner[e][r].pos .. runner[e][r].last \subseteq 1 .. Len(Steps[runner[e][r].wf])
      BY <2>2, StepsType DEF Runner
    <3>. QED
      BY <2>2, <3>1, StepsType DEF GroupTasks, Tasks, Runner
  <2>5. ASSUME NEW d \in Executions, status'[d] = "FAILED"
        PROVE  \E t \in GroupTasks(d, runs[d])' : t \in Tasks /\ task'[t].phase = "raised"
    <3>1. CASE d = e
      <4>1. GroupTasks(e, r)' = GroupTasks(e, r)
        BY <2>3 DEF GroupTasks
      <4>. QED
        BY <2>1, <2>2, <2>4, <3>1, <4>1
    <3>2. CASE d # e
      <4>1. GroupTasks(d, runs[d])' = GroupTasks(d, runs[d])
        BY <2>1, <2>3, <3>2 DEF GroupTasks
      <4>. QED
        BY <2>1, <2>3, <2>5, <3>2, <4>1 DEF ExhaustInv, FailedOnATask
    <3>. QED
      BY <3>1, <3>2
  <2>. QED
    BY <2>1, <2>5 DEF ExhaustInv, AttemptsMade, Made, FailedOnATask
<1>5. ASSUME NEW t \in Tasks, TaskStep(t)
      PROVE  ExhaustInv'
  <2>1. /\ UNCHANGED <<status, runs, runner>>
        /\ task[t].phase # "raised"
        /\ \A u \in Tasks : u # t => task'[u] = task[u]
    BY <1>5, TaskStepEffect
  <2>2. FailedOnATask'
    BY <2>1 DEF ExhaustInv, FailedOnATask, GroupTasks
  <2>. QED
    BY <1>5, <2>2, TaskStepAttempts DEF ExhaustInv
<1>6. ASSUME NEW i \in Invocations, ThreadStep(i)
      PROVE  ExhaustInv'
  <2>1. /\ UNCHANGED <<status, runs, runner, task>>
        /\ \A j \in Invocations : thread[j] # "none" => thread'[j] # "none"
    BY <1>6, ThreadStepEffect
  <2>2. FailedOnATask'
    BY <2>1 DEF ExhaustInv, FailedOnATask, GroupTasks
  <2>3. AttemptsMade'
    BY <2>1 DEF ExhaustInv, AttemptsMade, Made, Invocations
  <2>. QED
    BY <2>2, <2>3 DEF ExhaustInv
<1>7. CASE UNCHANGED vars
  BY <1>7 DEF vars, ExhaustInv, AttemptsMade, Made, FailedOnATask, GroupTasks
<1>. QED
  BY <1>1, <1>2, <1>3, <1>4, <1>5, <1>6, <1>7 DEF Next, Start, Resume, RunnerStep

\* An execution fails only when a step has used all its attempts, each of them
\* handed to a thread, or could not evaluate its condition.
THEOREM FailsExhausted == Spec => []FailureIsExhaustion
<1>1. Init => ExhaustInv
  BY Bounds DEF Init, ExhaustInv, AttemptsMade, Made, Attempts, FailedOnATask
<1>2. TypeInv /\ ExhaustInv => FailureIsExhaustion
  BY Bounds DEF TypeInv, TypeOK, ExhaustInv, AttemptsMade, Made, FailedOnATask, Attempts,
     FailureIsExhaustion
<1>. QED
  BY <1>1, <1>2, NextExhausts, TypeInvariance, RunInvariance, PTL DEF Spec

-----------------------------------------------------------------------------
(* The record implements ResumableRun                                      *)

\* Every step of the engine is a step of the record, or leaves it alone.
LEMMA StepSimulation == TypeInv /\ RunInv /\ [Next]_vars => [Record!Next]_(Record!vars)
<1>. SUFFICES ASSUME TypeInv, RunInv, [Next]_vars PROVE Record!Next \/ UNCHANGED <<status, index>>
  BY DEF Record!vars
<1>1. ASSUME NEW e \in Executions, NEW r \in Runs, NEW w \in Workflows, NEW p,
             RunFrom(e, r, w, p)
      PROVE  \E s \in {"RUNNING", "COMPLETED"} : status' = [status EXCEPT ![e] = s]
  BY <1>1 DEF RunFrom
<1>2. ASSUME NEW e \in Executions, NEW w \in Workflows, StartRunner(e, w)
      PROVE  /\ \E s \in {"RUNNING", "COMPLETED"} : status' = [status EXCEPT ![e] = s]
             /\ UNCHANGED index
  <2>1. runs[e] + 1 \in Runs
    BY <1>2, Bounds DEF TypeInv, TypeOK, StartRunner, Runs
  <2>. QED
    BY <1>1, <1>2, <2>1 DEF StartRunner
<1>3. ASSUME NEW e \in Executions, NEW w \in Workflows, Start(e, w)
      PROVE  Record!Open(e)
  BY <1>2, <1>3 DEF Start, Record!Open
<1>4. ASSUME NEW e \in Executions, NEW w \in Workflows, Resume(e, w)
      PROVE  Record!Resume(e)
  BY <1>2, <1>4 DEF Resume, CanResume, Record!Resume
<1>5. ASSUME NEW e \in Executions, NEW r \in Runs, Advance(e, r)
      PROVE  Record!Checkpoint(e)
  <2>1. /\ runner[e][r].state = "live"
        /\ RunFrom(e, r, runner[e][r].wf, runner[e][r].last + 1)
        /\ \E n : index' = [index EXCEPT ![e] = n]
    BY <1>5 DEF Advance
  <2>2. status[e] = "RUNNING" /\ runner[e][r].wf \in Workflows
    BY <2>1, LiveRunner, GroupResultsType DEF Runner
  <2>3. index'[e] > index[e]
    BY <1>5, <2>1, LiveRunner, AdvanceResults
  <2>4. index' = [index EXCEPT ![e] = index'[e]]
    BY <2>1 DEF TypeInv, TypeOK
  <2>. QED
    BY <1>1, <2>1, <2>2, <2>3, <2>4 DEF Record!Checkpoint
<1>6. ASSUME NEW e \in Executions, NEW r \in Runs, Fail(e, r)
      PROVE  Record!Fail(e)
  BY <1>6, LiveRunner DEF Fail, Record!Fail
<1>7. ASSUME NEW t \in Tasks, TaskStep(t)
      PROVE  UNCHANGED <<status, index>>
  BY <1>7, TaskStepEffect
<1>8. ASSUME NEW i \in Invocations, ThreadStep(i)
      PROVE  UNCHANGED <<status, index>>
  BY <1>8, ThreadStepEffect
<1>. QED
  BY <1>3, <1>4, <1>5, <1>6, <1>7, <1>8 DEF Next, RunnerStep, Record!Next, vars

\* The engine, threads, retries and timeouts included, keeps what the record
\* promises to whoever reads it.
THEOREM Implements == Spec => ImplementsResumableRun
<1>1. Init => Record!Init
  BY DEF Init, Record!Init
<1>. QED
  BY <1>1, StepSimulation, TypeInvariance, RunInvariance, PTL
     DEF Spec, ImplementsResumableRun, Record!Spec
=============================================================================
