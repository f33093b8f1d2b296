---------------------------- MODULE AgentMission ----------------------------
(***************************************************************************)
(* A mission of the AI team: the coordinator cuts it into a chain of       *)
(* sub-tasks, hands each to the work queue once the previous one has a     *)
(* result, runs the queued items one after the other, retries those that   *)
(* fail, and closes the mission. Lawyers meanwhile ask for sub-tasks to be *)
(* done again, or change the team.                                         *)
(*                                                                         *)
(* run_mission is a coroutine, and nothing stops a caller from running a   *)
(* mission that is being run. Decisions are handled by a synchronous route *)
(* and so each in a thread of its own: between two of its statements, or   *)
(* between the last check of a run and the status it writes, a run or      *)
(* another decision may act. These points are separate actions.            *)
(***************************************************************************)
EXTENDS Naturals, Sequences, FiniteSets

CONSTANTS
  N,             \* number of sub-tasks of the plan
  MaxAttempts,   \* WorkItem.max_attempts (3 in the code)
  MaxRuns,       \* bound: calls of run_mission
  MaxRequests,   \* bound: decisions that ask for sub-tasks again
  Requests       \* what they ask for: sequences of sub-tasks, 0 for an unknown one

SubTasks == 1 .. N
Runs == 1 .. MaxRuns
Decisions == 1 .. MaxRequests

ASSUME ConstantsAssumption ==
  /\ N \in Nat \ {0}
  /\ MaxAttempts \in Nat \ {0}
  /\ MaxRuns \in Nat
  /\ MaxRequests \in Nat
  /\ Requests \subseteq Seq(SubTasks \cup {0})

VARIABLES
  status,    \* Mission.status, "none" before launch_mission
  items,     \* the mission's work items in the order of their creation
  results,   \* results[s]: the item whose output is the result of s, 0 for none
  team,      \* sub-tasks whose role has a member in the team
  runner,    \* runner[r]: the r-th call of run_mission
  request    \* request[d]: the thread of the d-th decision that asks for sub-tasks again

vars == <<status, items, results, team, runner, request>>

DependsOn(s) == {s - 1} \ {0}

Idle == [pc |-> "idle", item |-> 0, seen |-> {}]

\* An item is dated when it is created, and unlisted until it is the mission's.
Item == [sub : SubTasks, assigned : BOOLEAN, priority : 0 .. N,
         status : {"unlisted", "pending", "running", "retrying", "done", "failed"},
         attempts : 0 .. MaxAttempts]

TypeOK ==
  /\ status \in {"none", "created", "running", "completed", "failed"}
  /\ items \in Seq(Item)
  /\ results \in [SubTasks -> 0 .. Len(items)]
  /\ team \subseteq SubTasks
  /\ runner \in [Runs -> [pc : {"idle", "loop", "await", "delegate", "complete", "fail", "over"},
                          item : 0 .. Len(items), seen : SUBSET SubTasks]]
  /\ request \in [Decisions -> [pc : {"idle", "erase", "create", "list", "over"},
                                todo : Seq(SubTasks \cup {0}), item : 0 .. Len(items)]]

Init ==
  /\ status = "none"
  /\ items = <<>>
  /\ results = [s \in SubTasks |-> 0]
  /\ team \in SUBSET SubTasks
  /\ runner = [r \in Runs |-> Idle]
  /\ request = [d \in Decisions |-> [pc |-> "idle", todo |-> <<>>, item |-> 0]]

-----------------------------------------------------------------------------
(* Delegation and the work queue                                           *)

NewItem(s, p) ==
  [sub |-> s, assigned |-> s \in team, priority |-> p, status |-> "pending", attempts |-> 0]

Enqueued == {items[i].sub : i \in {j \in DOMAIN items : items[j].status # "unlisted"}}

\* Mutant of EnqueueReady: dependencies are not asked for.
EnqueueAll(seen) ==
  \E order \in [1 .. Cardinality(SubTasks \ seen) -> SubTasks \ seen] :
    /\ \A i, j \in DOMAIN order : i < j => order[i] < order[j]
    /\ items' = items \o [i \in DOMAIN order |-> NewItem(order[i], N - order[i] + 1)]

\* Sub-tasks that have no item among those seen and whose dependencies all have
\* a result, in the order of the plan, are assigned and enqueued.
EnqueueReady(seen) ==
  LET ready == {s \in SubTasks \ seen : \A d \in DependsOn(s) : results[d] # 0}
  IN  \E order \in [1 .. Cardinality(ready) -> ready] :
        /\ \A i, j \in DOMAIN order : i < j => order[i] < order[j]
        /\ items' = items \o [i \in DOMAIN order |-> NewItem(order[i], N - order[i] + 1)]

\* Mutants of Runnable: an item that runs may be taken again, and one that failed.
RunnableTwice(i) == items[i].status \in {"pending", "retrying", "running"}
RunnableAfterFailure(i) == items[i].status \in {"pending", "retrying", "failed"}

Runnable(i) == items[i].status \in {"pending", "retrying"}

\* The next item: the highest priority, then the oldest.
IsNext(i) ==
  /\ Runnable(i)
  /\ \A j \in DOMAIN items \ {i} :
       Runnable(j) => \/ items[i].priority > items[j].priority
                      \/ items[i].priority = items[j].priority /\ i < j

\* Mutant of MarkRunning: the attempt is not counted.
MarkRunningUncounted(item) == [item EXCEPT !.status = "running"]

MarkRunning(item) == [item EXCEPT !.status = "running", !.attempts = @ + 1]

\* Mutant of MarkFailed: one attempt too many.
MarkFailedTooLate(item) ==
  [item EXCEPT !.status = IF item.attempts <= MaxAttempts THEN "retrying" ELSE "failed"]

MarkFailed(item) ==
  [item EXCEPT !.status = IF item.attempts < MaxAttempts THEN "retrying" ELSE "failed"]

MarkDone(item) == [item EXCEPT !.status = "done"]

-----------------------------------------------------------------------------
(* The mission                                                             *)

Launch ==
  /\ status = "none"
  /\ status' = "created"
  /\ EnqueueReady({})
  /\ UNCHANGED <<results, team, runner, request>>

\* Whatever the status of the mission is, and whether or not it is being run.
StartRun(r) ==
  /\ status # "none"
  /\ runner[r].pc = "idle"
  /\ status' = "running"
  /\ runner' = [runner EXCEPT ![r].pc = "loop"]
  /\ UNCHANGED <<items, results, team, request>>

\* An item is taken and its agent called; without an agent it fails at once.
TakeItem(r) ==
  /\ runner[r].pc = "loop"
  /\ \E i \in DOMAIN items :
       /\ IsNext(i)
       /\ IF items[i].assigned
          THEN /\ items' = [items EXCEPT ![i] = MarkRunning(@)]
               /\ runner' = [runner EXCEPT ![r].pc = "await", ![r].item = i]
          ELSE /\ items' = [items EXCEPT ![i] = MarkFailed(MarkRunning(@))]
               /\ UNCHANGED runner
  /\ UNCHANGED <<status, results, team, request>>

\* The output becomes the result of the sub-task, and the coordinator notes which
\* sub-tasks are enqueued already.
AgentAnswers(r) ==
  LET i == runner[r].item IN
  /\ runner[r].pc = "await"
  /\ items' = [items EXCEPT ![i] = MarkDone(@)]
  /\ results' = [results EXCEPT ![items[i].sub] = i]
  /\ runner' = [runner EXCEPT ![r] = [pc |-> "delegate", item |-> 0, seen |-> Enqueued]]
  /\ UNCHANGED <<status, team, request>>

AgentRaises(r) ==
  LET i == runner[r].item IN
  /\ runner[r].pc = "await"
  /\ items' = [items EXCEPT ![i] = MarkFailed(@)]
  /\ runner' = [runner EXCEPT ![r].pc = "loop", ![r].item = 0]
  /\ UNCHANGED <<status, results, team, request>>

Delegate(r) ==
  /\ runner[r].pc = "delegate"
  /\ EnqueueReady(runner[r].seen)
  /\ runner' = [runner EXCEPT ![r].pc = "loop", ![r].seen = {}]
  /\ UNCHANGED <<status, results, team, request>>

\* Nothing is runnable: the results are counted, ...
CountResults(r) ==
  /\ runner[r].pc = "loop"
  /\ \A i \in DOMAIN items : ~ Runnable(i)
  /\ runner' = [runner EXCEPT ![r].pc =
                  IF \A s \in SubTasks : results[s] # 0 THEN "complete" ELSE "fail"]
  /\ UNCHANGED <<status, items, results, team, request>>

\* ... and the mission is closed.
CloseMission(r) ==
  /\ runner[r].pc \in {"complete", "fail"}
  /\ status' = IF runner[r].pc = "complete" THEN "completed" ELSE "failed"
  /\ runner' = [runner EXCEPT ![r].pc = "over"]
  /\ UNCHANGED <<items, results, team, request>>

-----------------------------------------------------------------------------
(* Decisions: apply_human_decision                                         *)

ChangeTeam ==
  /\ status # "none"
  /\ \E s \in SubTasks : team' \in {team \ {s}, team \cup {s}}
  /\ UNCHANGED <<status, items, results, runner, request>>

\* Decisions are numbered in the order in which they begin, and may overlap.
AskAgain(d) ==
  /\ status # "none"
  /\ request[d].pc = "idle" /\ \A e \in Decisions : e < d => request[e].pc # "idle"
  /\ \E todo \in Requests :
       request' = [request EXCEPT ![d] = [pc |-> "erase", todo |-> todo, item |-> 0]]
  /\ UNCHANGED <<status, items, results, team, runner>>

\* The next sub-task asked for loses its result; an unknown one is passed over.
EraseResult(d) ==
  /\ request[d].pc = "erase"
  /\ request[d].todo # <<>>
  /\ IF Head(request[d].todo) \in SubTasks
     THEN /\ results' = [results EXCEPT ![Head(request[d].todo)] = 0]
          /\ request' = [request EXCEPT ![d].pc = "create"]
     ELSE /\ request' = [request EXCEPT ![d].todo = Tail(@)]
          /\ UNCHANGED results
  /\ UNCHANGED <<status, items, team, runner>>

\* A new item, of the lowest priority, whether or not its dependencies have results, ...
CreateItem(d) ==
  /\ request[d].pc = "create"
  /\ items' = Append(items, [NewItem(Head(request[d].todo), 0) EXCEPT !.status = "unlisted"])
  /\ request' = [request EXCEPT ![d].pc = "list", ![d].item = Len(items) + 1]
  /\ UNCHANGED <<status, results, team, runner>>

\* Mutant of ListItem: a sub-task that has an item is not enqueued again.
ListOnce(d) ==
  /\ request[d].pc = "list"
  /\ items' = IF Head(request[d].todo) \in Enqueued THEN items
              ELSE [items EXCEPT ![request[d].item].status = "pending"]
  /\ request' = [request EXCEPT ![d] = [pc |-> "erase", todo |-> Tail(@.todo), item |-> 0]]
  /\ UNCHANGED <<status, results, team, runner>>

\* ... becomes the mission's.
ListItem(d) ==
  /\ request[d].pc = "list"
  /\ items' = [items EXCEPT ![request[d].item].status = "pending"]
  /\ request' = [request EXCEPT ![d] = [pc |-> "erase", todo |-> Tail(@.todo), item |-> 0]]
  /\ UNCHANGED <<status, results, team, runner>>

Reopen(d) ==
  /\ request[d].pc = "erase"
  /\ request[d].todo = <<>>
  /\ status' = "running"
  /\ request' = [request EXCEPT ![d].pc = "over"]
  /\ UNCHANGED <<items, results, team, runner>>

-----------------------------------------------------------------------------
CoordinatorStep(r) == TakeItem(r) \/ Delegate(r) \/ CountResults(r) \/ CloseMission(r)
AgentStep(r) == AgentAnswers(r) \/ AgentRaises(r)
DecisionStep(d) == EraseResult(d) \/ CreateItem(d) \/ ListItem(d) \/ Reopen(d)

Next ==
  \/ Launch
  \/ \E r \in Runs : StartRun(r) \/ CoordinatorStep(r) \/ AgentStep(r)
  \/ ChangeTeam
  \/ \E d \in Decisions : AskAgain(d) \/ DecisionStep(d)

Spec == Init /\ [][Next]_vars

\* The event loop and the threads are served, and an agent that is called answers
\* or raises: the coordinator itself puts no timeout around it.
Fairness ==
  /\ \A r \in Runs : WF_vars(CoordinatorStep(r)) /\ WF_vars(AgentStep(r))
  /\ \A d \in Decisions : WF_vars(DecisionStep(d))

FairSpec == Spec /\ Fairness
-----------------------------------------------------------------------------
(* Properties                                                              *)

\* However many runs of the mission are under way, an item is running exactly
\* while one of them, and only one, awaits its agent.
RunningIsAwaited ==
  \A i \in DOMAIN items :
    Cardinality({r \in Runs : runner[r].pc = "await" /\ runner[r].item = i}) =
      IF items[i].status = "running" THEN 1 ELSE 0

\* A sub-task that was delegated has a result, which is the output of an item of its own
\* that was done, or an item that is still to be done or is known to have failed, or a
\* decision about to enqueue it: no erased result is lost without a trace, whoever runs
\* the mission, or decides, while it is erased.
NothingForgotten ==
  \A s \in Enqueued :
    \/ \E i \in DOMAIN items :
         results[s] = i /\ items[i].sub = s /\ items[i].status = "done"
    \/ \E i \in DOMAIN items :
         items[i].sub = s /\ items[i].status \in {"pending", "running", "retrying", "failed"}
    \/ \E d \in Decisions : request[d].pc \in {"create", "list"} /\ Head(request[d].todo) = s

\* An item that is done or has failed for good never changes again.
ItemsSettleOnce ==
  [][\A i \in DOMAIN items :
       items[i].status \in {"done", "failed"} => items'[i] = items[i]]_vars

\* A sub-task that the plan starts, starts after those it depends on were done, also when
\* it is retried, when runs overlap and when a decision erases the result it waited for.
\* Only what a decision asks for again (priority 0) may start without.
PlanIsFollowed ==
  [][\A i \in DOMAIN items :
       items[i].priority # 0 /\ items[i].status # "running" /\ items'[i].status = "running" =>
         \A s \in DependsOn(items[i].sub) :
           \E j \in DOMAIN items : items[j].sub = s /\ items[j].status = "done"]_vars

\* Every call of run_mission returns, if the agents answer.
RunsEnd == \A r \in Runs : (runner[r].pc # "idle") ~> (runner[r].pc = "over")

\* docs/55-guide-coordinateur.md:60-62: a mission ends COMPLETED only if every sub-task
\* has a result. It does not hold, even when no decision is under way.
CompletedHasAllResults ==
  status = "completed" =>
    \/ \E d \in Decisions : request[d].pc \notin {"idle", "over"}
    \/ \A s \in SubTasks : results[s] # 0
=============================================================================
