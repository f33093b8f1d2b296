------------------------ MODULE RuntimeOrchestrator ------------------------
(***************************************************************************)
(* The runtime orchestrator runs long tasks under one limit of             *)
(* parallelism: a call of run waits for a slot of a semaphore, starts the  *)
(* task's runner, awaits it and records how it ended. Calls are coroutines *)
(* of one event loop. Tasks are submitted and cancelled by synchronous     *)
(* routes, that is by threads, so cancel is cut where another thread or    *)
(* the loop can act.                                                       *)
(*                                                                         *)
(* Callers of run follow the contract ready_tasks states, and resume only  *)
(* tasks that have failed. Nothing stops two of them from running the same *)
(* task: it stays PENDING while the first waits for its slot.              *)
(***************************************************************************)
EXTENDS Naturals, Sequences, FiniteSets

CONSTANTS
  Tasks,           \* the ids of tasks
  DependsOn,       \* RuntimeTask.depends_on
  MaxParallelism,  \* slots of the semaphore
  MaxSubmits,      \* bound: submissions, of all tasks together
  MaxCalls,        \* bound: calls of run and resume
  Cancels,         \* calls of cancel
  None

ASSUME ConstantsAssumption ==
  /\ DependsOn \in [Tasks -> SUBSET Tasks]
  /\ MaxParallelism \in Nat \ {0}
  /\ MaxSubmits \in Nat \ {0}
  /\ MaxCalls \in Nat

\* Calls are numbered in the order they are made.
Calls == 1 .. MaxCalls

\* Submitting an id again makes another RuntimeTask, which replaces the first.
Objects == Tasks \X (1 .. MaxSubmits)

VARIABLES
  stored,   \* stored[t]: the number of the object the store has for t, 0 for none
  status,   \* RuntimeTask.status of each object, "none" before it is made
  call,     \* call[c]: where a call of run is, and the object it holds
  free,     \* free slots of the semaphore
  waiters,  \* the calls that wait for one, first come first served
  running,  \* _running: the call whose runner is registered for a task
  cancel    \* cancel[x]: where a call of cancel is, its task, and what it read

vars == <<stored, status, call, free, waiters, running, cancel>>

Outcomes == {"done", "failed", "cancelled"}
\* A runner is under way, or has ended and its call has not resumed yet.
Live == {"running", "cancelling"}
Inside == {"granted"} \cup Live \cup Outcomes

TypeOK ==
  /\ stored \in [Tasks -> 0 .. MaxSubmits]
  /\ status \in [Objects -> {"none", "pending", "running"} \cup Outcomes]
  /\ call \in [Calls -> [pc : {"idle", "waiting", "over"} \cup Inside, obj : Objects \cup {None}]]
  /\ free \in 0 .. MaxParallelism
  /\ waiters \in Seq(Calls)
  /\ running \in [Tasks -> Calls \cup {None}]
  /\ cancel \in [Cancels -> [pc : {"idle", "signal", "check", "mark", "over"},
                             task : Tasks \cup {None}, call : Calls \cup {None},
                             obj : Objects \cup {None}]]

Init ==
  /\ stored = [t \in Tasks |-> 0]
  /\ status = [o \in Objects |-> "none"]
  /\ call = [c \in Calls |-> [pc |-> "idle", obj |-> None]]
  /\ free = MaxParallelism
  /\ waiters = <<>>
  /\ running = [t \in Tasks |-> None]
  /\ cancel = [x \in Cancels |-> [pc |-> "idle", task |-> None, call |-> None, obj |-> None]]

-----------------------------------------------------------------------------
Stored(t) == <<t, stored[t]>>
Is(t, s) == stored[t] # 0 /\ status[Stored(t)] = s

Made == {o \in Objects : status[o] # "none"}

Submit(t) ==
  LET v == Cardinality({o \in Made : o[1] = t}) + 1 IN
  /\ Cardinality(Made) < MaxSubmits
  /\ status' = [status EXCEPT ![<<t, v>>] = "pending"]
  /\ stored' = [stored EXCEPT ![t] = v]
  /\ UNCHANGED <<call, free, waiters, running, cancel>>

\* What ready_tasks returns.
Ready(t) == Is(t, "pending") /\ \A d \in DependsOn[t] : Is(d, "done")

\* The runner of the object is started and registered.
Starts(c, o, s) ==
  /\ status' = [s EXCEPT ![o] = "running"]
  /\ stored' = [stored EXCEPT ![o[1]] = o[2]]
  /\ running' = [running EXCEPT ![o[1]] = c]
  /\ call' = [call EXCEPT ![c] = [pc |-> "running", obj |-> o]]

\* A free slot is taken at once; else the call waits behind those that do.
Enters(c, o, s) ==
  IF free > 0 /\ waiters = <<>>
  THEN /\ free' = free - 1
       /\ Starts(c, o, s)
       /\ UNCHANGED waiters
  ELSE /\ waiters' = Append(waiters, c)
       /\ call' = [call EXCEPT ![c] = [pc |-> "waiting", obj |-> o]]
       /\ status' = s
       /\ UNCHANGED <<stored, free, running>>

NewCall(c) == call[c].pc = "idle" /\ \A b \in 1 .. c - 1 : call[b].pc # "idle"

Run(c, t) ==
  /\ NewCall(c)
  /\ Ready(t)
  /\ Enters(c, Stored(t), status)
  /\ UNCHANGED cancel

Resume(c, t) ==
  /\ NewCall(c)
  /\ Is(t, "failed")
  /\ Enters(c, Stored(t), [status EXCEPT ![Stored(t)] = "pending"])
  /\ UNCHANGED cancel

\* Mutant of StartGranted: the slot is counted again.
StartCountsTwice(c) ==
  /\ call[c].pc = "granted"
  /\ Starts(c, call[c].obj, status)
  /\ free' = free - 1
  /\ UNCHANGED <<waiters, cancel>>

\* A call that was handed a slot starts, whatever became of its task meanwhile.
StartGranted(c) ==
  /\ call[c].pc = "granted"
  /\ Starts(c, call[c].obj, status)
  /\ UNCHANGED <<free, waiters, cancel>>

\* The runner returns or raises; one that is being cancelled usually raises
\* CancelledError, but may do anything else.
RunnerEnds(c) ==
  /\ call[c].pc \in Live
  /\ \E o \in Outcomes :
       /\ o = "cancelled" => call[c].pc = "cancelling"
       /\ call' = [call EXCEPT ![c].pc = o]
  /\ UNCHANGED <<stored, status, free, waiters, running, cancel>>

\* Mutants of Releases: nobody is woken; a call that failed keeps its slot.
ReleasesUnheard(c) ==
  /\ free' = free + 1
  /\ call' = [call EXCEPT ![c].pc = "over"]
  /\ UNCHANGED waiters
ReleasesUnlessFailed(c) ==
  /\ call' = [call EXCEPT ![c].pc = "over"]
  /\ free' = IF call[c].pc = "failed" THEN free ELSE free + 1
  /\ UNCHANGED waiters

\* The slot goes to the first call that waits, or is free again.
Releases(c) ==
  IF waiters = <<>>
  THEN /\ free' = free + 1
       /\ call' = [call EXCEPT ![c].pc = "over"]
       /\ UNCHANGED waiters
  ELSE /\ call' = [call EXCEPT ![c].pc = "over", ![Head(waiters)].pc = "granted"]
       /\ waiters' = Tail(waiters)
       /\ UNCHANGED free

\* Mutants of EndRun: a cancellation is let through without a word; a task whose
\* runner raised stays registered.
EndRunSilently(c) ==
  LET o == call[c].obj IN
  /\ call[c].pc \in Outcomes
  /\ status' = IF call[c].pc = "cancelled" THEN status ELSE [status EXCEPT ![o] = call[c].pc]
  /\ stored' = [stored EXCEPT ![o[1]] = o[2]]
  /\ running' = [running EXCEPT ![o[1]] = None]
  /\ Releases(c)
  /\ UNCHANGED cancel
EndRunRegistered(c) ==
  LET o == call[c].obj IN
  /\ call[c].pc \in Outcomes
  /\ status' = [status EXCEPT ![o] = call[c].pc]
  /\ stored' = [stored EXCEPT ![o[1]] = o[2]]
  /\ running' = IF call[c].pc = "failed" THEN running ELSE [running EXCEPT ![o[1]] = None]
  /\ Releases(c)
  /\ UNCHANGED cancel

\* The outcome is recorded in the object the call holds, which is saved again even
\* if another has replaced it.
EndRun(c) ==
  LET o == call[c].obj IN
  /\ call[c].pc \in Outcomes
  /\ status' = [status EXCEPT ![o] = call[c].pc]
  /\ stored' = [stored EXCEPT ![o[1]] = o[2]]
  /\ running' = [running EXCEPT ![o[1]] = None]
  /\ Releases(c)
  /\ UNCHANGED cancel

-----------------------------------------------------------------------------
(* cancel                                                                  *)

\* A runner is registered, or the task has to be looked at.
CancelLooks(x) ==
  /\ cancel[x].pc = "idle"
  /\ \E t \in Tasks :
       cancel' = [cancel EXCEPT ![x] =
                    [pc |-> IF running[t] # None THEN "signal" ELSE "check",
                     task |-> t, call |-> running[t], obj |-> None]]
  /\ UNCHANGED <<stored, status, call, free, waiters, running>>

\* asyncio.Task.cancel: no effect on a runner that has ended.
CancelSignals(x) ==
  LET c == cancel[x].call IN
  /\ cancel[x].pc = "signal"
  /\ call' = IF call[c].pc = "running" THEN [call EXCEPT ![c].pc = "cancelling"] ELSE call
  /\ cancel' = [cancel EXCEPT ![x].pc = "over"]
  /\ UNCHANGED <<stored, status, free, waiters, running>>

CancelChecks(x) ==
  LET t == cancel[x].task IN
  /\ cancel[x].pc = "check"
  /\ cancel' = IF Is(t, "pending")
               THEN [cancel EXCEPT ![x].pc = "mark", ![x].obj = Stored(t)]
               ELSE [cancel EXCEPT ![x].pc = "over"]
  /\ UNCHANGED <<stored, status, call, free, waiters, running>>

\* The object that was PENDING when it was looked at is CANCELLED and saved.
CancelMarks(x) ==
  LET o == cancel[x].obj IN
  /\ cancel[x].pc = "mark"
  /\ status' = [status EXCEPT ![o] = "cancelled"]
  /\ stored' = [stored EXCEPT ![o[1]] = o[2]]
  /\ cancel' = [cancel EXCEPT ![x].pc = "over"]
  /\ UNCHANGED <<call, free, waiters, running>>

-----------------------------------------------------------------------------
CallStep(c) == StartGranted(c) \/ RunnerEnds(c) \/ EndRun(c)
CancelStep(x) == CancelSignals(x) \/ CancelChecks(x) \/ CancelMarks(x)

Next ==
  \/ \E t \in Tasks : Submit(t)
  \/ \E c \in Calls, t \in Tasks : Run(c, t) \/ Resume(c, t)
  \/ \E c \in Calls : CallStep(c)
  \/ \E x \in Cancels : CancelLooks(x) \/ CancelStep(x)

Spec == Init /\ [][Next]_vars

\* The loop serves its calls, and the runners end.
Fairness == \A c \in Calls : WF_vars(CallStep(c))

FairSpec == Spec /\ Fairness
-----------------------------------------------------------------------------
(* Properties                                                              *)

\* No outcome of a runner, and no cancellation, leaks a slot or lends one twice; and
\* no call waits while a slot is free.
SlotsConserved ==
  /\ free + Cardinality({c \in Calls : call[c].pc \in Inside}) = MaxParallelism
  /\ waiters # <<>> => free = 0

\* A task that is RUNNING is being run, however its callers, its submissions and its
\* cancellations overlap: no task stays RUNNING for ever because nobody is left to
\* record how it ended.
RunningIsRun ==
  \A o \in Objects :
    status[o] = "running" =>
      \E c \in Calls : call[c].pc \in Live \cup Outcomes /\ call[c].obj = o

\* cancel never signals a runner that is not one of the task's: a registered call
\* is under way and holds an object of that task.
RegisteredIsUnderWay ==
  \A t \in Tasks :
    running[t] # None =>
      /\ call[running[t]].pc \in Live \cup Outcomes
      /\ call[running[t]].obj[1] = t

\* Every call that waits gets its slot and returns.
CallsReturn == \A c \in Calls : (call[c].pc # "idle") ~> (call[c].pc = "over")

\* docs/133: cancel "marque CANCELLED sans démarrage" a task that is not running: its
\* runner is not started afterwards.
CancelledNeverStarts ==
  [][\A c \in Calls :
       call[c].pc = "granted" /\ call'[c].pc = "running"
         => status[call[c].obj] # "cancelled"]_vars
=============================================================================
