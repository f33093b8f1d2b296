# TMIS: a verification of its concurrent core

TMIS ("AI Legal Operating System") is a FastAPI application of some thirty Python packages
under `src/backend/src/tmis`, with a Next.js client. Most of the packages compute texts, scores
and tables. Some run *protocols*: they drive long work through retries and timeouts, share one
object between threads and coroutines or one row between processes, or let people decide on
something that is still moving.
This directory models those in TLA+, checks them with TLC and proves theorems about them with
TLAPS.

Contents: [1 how the program runs](#1-how-the-program-runs) ·
[2 inventory](#2-inventory) · [3 the modules](#3-the-modules) · [4 the runs](#4-the-runs) ·
[5 fairness](#5-fairness) · [6 the proofs](#6-the-proofs) ·
[7 where code and documentation differ](#7-where-code-and-documentation-differ) ·
[8 what is left out](#8-what-is-left-out) · [9 plan](#9-plan)

## 1 How the program runs

Five facts decide which interleavings and failures exist, and the modules use them.

1. Engines are process-wide singletons (`lru_cache` in each `bootstrap.py`). Most stores are
   dictionaries of *shared mutable objects* (`get` returns the stored object, not a copy), and
   there is no lock around them. All that WorkflowExecution, AgentMission, HumanValidation,
   RuntimeOrchestrator and KnowledgeLifecycle speak of lives there: a restart loses the whole of
   it, and those modules have no restart. What the documentation of workflows calls recovery is
   the resumption of a failed run, which is modelled.
2. A route declared `async def` runs on the one event loop: between two `await`s nothing of the
   loop interleaves, so what a coroutine does there is one action, unless the other party is a
   thread.
3. A route declared `def` runs in a thread of the server's pool: it may be interrupted by other
   threads and by the loop between any two accesses to shared state, so it is cut into one action
   for each access that matters.

4. A few stores are SQL tables (`document_records`, `case_profiles`, `drafting_documents` with its
   versions). `get` makes a copy, `save` merges the whole row back in a transaction of its own,
   and no row is locked or has a version that is compared. Each statement is an action, and a
   uniqueness constraint is modelled where the schema has one.
5. Celery workers are other processes. Their messages are acknowledged before the task runs and
   no task is retried, so that a process that dies loses its task; the broker may deliver twice.

`asyncio.wait_for` around `asyncio.to_thread` cancels the wait, never the thread; `asyncio.gather`
without `return_exceptions` raises at the first exception and leaves its siblings running. Both are
modelled by what they do.

Crashes are modelled where something survives them: in CaseIngestion every task and request may
die between two statements, and in DraftDocument the server may restart, which keeps the rows and
loses the decisions and the journal.

## 2 Inventory

`PROJECT.json` lists every part with its files, its status and the reason. The parts with a
protocol:

| part | state | operations | what is hard | what makes it correct |
|---|---|---|---|---|
| workflow_automation: execution engine, with retry and action engines | the execution record (status, checkpoint, step results), the action journal | `start`, `resume`, the step loop, groups under `gather`, attempts in threads | timeouts that leave threads behind, a failed group whose siblings go on, resumption with a checkpoint | one runner at a time; the record says what really ran; nothing recorded is run again; every run ends |
| workflow_automation: workflow engine | versions of a workflow and their status | create, new version, activate, archive | two activations at once | one ACTIVE version |
| ai_team: coordinator, planner, delegation, work queue, human loop | a mission's status, results, work items, team | `launch_mission`, `run_mission`, `apply_human_decision` | overlapping runs, decisions applied by a thread in the middle of a run | an item runs once at a time; nothing is forgotten; completed means every result |
| ai_governance: human validation | a request with its tiers, history and status | request, decide | decisions in concurrent threads, a status written stale | tiers in order; an approval for every tier, and of whom (section 7) |
| runtime_platform: orchestrator | tasks and statuses, semaphore, registered runners | submit, run, resume, cancel | cancellation against waiting, running and finishing tasks, submissions that replace | slots conserved; RUNNING means run; every caller returns |
| document and case intelligence: upload, Celery tasks, document versions, case profile | rows of `document_records`, the broker's messages, the row of `case_profiles` | upload, `process_document`, `ingest_document`; create, rename, soft delete of the profile | a row read, changed and written whole by several processes; messages lost and delivered twice; documents in any order | a document is in the profile whole or not at all, and counted once; what nobody overlapped lasts; a document gets there or something was lost |
| legal_drafting: documents, versions, validation, history | the row of the draft, its numbered versions, decisions and journal in memory | create, regenerate, restore, validate, export | a copy read before an await and saved after it, four steps that do not commit together, restarts | versions numbered without gap; versions and journal are true; approved by someone; citations of the text |
| cabinet_knowledge: knowledge, governance, validation, approval, revision | a shared object with content, status and publication; requests; events | create, update, revise, submit, decide, retire, publish | a transition checked, then made by a method that looks at nothing | never stuck in review; alone, transitions of the table and demotions by a new content, nothing else (of the end of the lifecycle, see section 7) |
| runtime_platform: async processing | jobs and their attempts | enqueue, dequeue, mark, time out, cancel | late answers, dequeue and mark as two calls | one worker per attempt; settled jobs stay settled |
| runtime_platform: event store and streaming | numbered events, snapshots, envelopes, keys | append, snapshot, replay, archive; publish | concurrent appends and publications | unique numbers; replay after a snapshot gives the same state |
| integration_hub: synchronization | date of the last one, conflicts held | pull, push, both ways | the remote changes between the read and the date | every remote change is read in the end |
| cloud_operations: circuit breaker | state, failures, date of opening | allow, record, force open, call | answers of calls allowed before it opened | an open circuit waits for its timeout |
| collaboration: locks; identity: sessions; cabinet_os: invoices | one record each with a status | transitions, expiry | expiry against use | the lifecycle the documentation draws |

How they interact in the code: the routes call each engine separately. The workflow execution
engine calls the action engine, whose handlers may call any other package; the coordinator calls
the planner, the delegation engine, the work queue and the agents; an agent calls the AI kernel,
which calls a model provider. The approval gateway of the workflows calls the human validation
engine, but the execution engine never consults the gateway: a step does not wait for an approval,
so the two modules have nothing to compose. The runtime orchestrator takes its runner as a
parameter, and no package passes it the execution engine. Where components do form one chain, one
module composes them: `CaseIngestion` goes from the upload route through the broker, the document
pipeline's task and the case's task to the profile that the routes of the case change as well.
`KnowledgeLifecycle` composes the five engines of the knowledge base that act on one object, and
`DraftDocument` the orchestrator of drafts with its four stores.

The other packages (legal research and reasoning, knowledge graph, copilots, strategy, metrics,
dashboards, catalogues of rules and plans) are data transformations behind one call, or tables of
records written one at a time.

## 3 The modules

Each definition's comment says what it stands for, and `map` in `PROJECT.json` gives its lines.
Definitions named "mutant" are plausible bugs of the definition that follows them; no
specification uses them.

### WorkflowExecution and ResumableRun

`WorkflowExecution` is `workflow_automation/execution_engine/engine.py` with the retry policy
(`retry/engine.py`) and the action engine (`action_engine/engine.py`) it calls.

- `status`, `index` and `results` are the fields of `WorkflowExecution`; `runner[e][r]` is the
  r-th call of `_run_from` (its local index and the group it awaits); `task` is one call of
  `_run_step` under `WorkflowRetryPolicy`; `thread` is one `asyncio.to_thread`; `journal` is the
  action log.
- `Start` is `start`, with the three outcomes of the workflow's conditions (hold, do not hold,
  raise); `Resume` is `resume`; `RunFrom` is the head of the loop and the grouping of consecutive
  steps; `Advance` and `Fail` are the two ways an awaited group ends; `BeginStep`, `Retry`,
  `Deliver` and `Timeout` are the stretches of `_run_step` between awaits; `Dequeue`,
  `HandlerEnds` and `UnknownAction` are the worker thread.
- Conditions and handlers are nondeterministic: a condition holds, does not hold or raises, a
  handler succeeds, fails or hangs. A thread whose timeout has passed is a `zombie`: it still
  occupies a worker and still writes the journal.

`ResumableRun` is what the record promises to its reader: the checkpoint only grows and only while
the run is RUNNING, a failure keeps it, COMPLETED and CANCELLED are final. `WorkflowExecution`
implements it with `done <- index`.

### AgentMission

The mission of `ai_team/coordinator/engine.py` with the planner's chain of sub-tasks, the
delegation engine and the work queue.

- `items` is the queue, in order of creation; `results[s]` is the item whose output is stored for
  sub-task `s`; `team` the sub-tasks whose role has a member; `runner[r]` a call of `run_mission`;
  `request[d]` the thread that applies the d-th decision to redo sub-tasks. Any number of these
  threads may be under way at once, as the route is synchronous.
- `TakeItem`, `AgentAnswers`, `AgentRaises` and `Delegate` are the loop of `run_mission`;
  `CountResults` and `CloseMission` are its end, which is two actions because a decision's thread
  may act between the count and the status; `EraseResult`, `CreateItem`, `ListItem` and `Reopen`
  are the statements of `_rerun_sub_tasks` (an item is dated when it is created, which is what orders
  those of one priority, and exists for the others once the queue lists it); `ChangeTeam` is the two
  decisions on the team.
- The keyword planner produces chains, so `DependsOn(s)` is the previous sub-task.

### HumanValidation

`ai_governance/human_validation/engine.py`. `decide` runs in a thread: `CurrentTier` reads the
history once for each tier, `AppendEntry` appends, `CheckRejected`, `CheckRevision` and
`CheckTier` are the readings of `_recompute_status` and `WriteStatus` is the assignment. The history
variable `alone` holds the calls that no other has overlapped; nothing in the model reads it.
As in the code, nobody asks whether an approver belongs to the tier (section 7).

### RuntimeOrchestrator

`runtime_platform/runtime_orchestrator/engine.py`. An *object* is one `RuntimeTask`: a second
submission of the same id makes another object, and every `save` puts its own object back in the
store. `Enters` is `async with semaphore` (the semaphore serves in order and hands a slot over to
the first in line), `StartGranted` what a call does once inside, `RunnerEnds` the end of the
`asyncio.Task`, `EndRun` the except and finally clauses. `cancel` is a thread: `CancelLooks`,
`CancelSignals`, `CancelChecks`, `CancelMarks`. Calls are interchangeable, so they are numbered in
the order they are made (`NewCall`), which loses no behaviour and spares TLC a symmetry that
liveness does not allow.

### CaseIngestion

From `api/v1/document/routes.py` through `core/tasks` to `case_intelligence/workflow`.

- `records[d]` are the rows of a document, `queue[m]` the copies of a message the broker holds,
  `profile` the row of the case, and `task[x]` what a worker or a clerk (a request on the routes of
  the profile) is doing and the copy of the row it has.
- `Upload` commits the record, then sends the message or fails to. `Take` acknowledges a message
  and reads the latest version; `ReadVersion`, `InsertRecord` and `Trigger` are
  `process_document`; `OpenProfile`, `MergeEmpty`, `InsertEmpty` and `SaveProfile` are the
  statements of `get_or_create` and of `save`, for tasks and requests alike. `Redeliver` and `Dies`
  are the faults.
- `Ingested` folds the events of a document into facts and timeline as the two engines do:
  `FactIngested` finds a fact by its description whatever its date, `Consolidated` an entry by date
  and description. A confidence is modelled by the number of times it was raised.
- `failed` and `settled` are history: what was lost, and the changes saved while no one else held
  a copy.

### DraftDocument

`legal_drafting/documents/orchestrator.py` with the stores of documents and versions (SQL), the
decisions (`validation/service.py`) and the history, which are in memory.

- A text is, for each paragraph, the call that wrote it; `citations` are those of a text, and
  `updated` is the call that last changed the document, which stands for the date of that change
  and the findings of its review. `call[c]` is a call of a route with its copy of the row and the
  columns its merge marked as changed: the status, and the payload with all the rest.
- `Regenerate`, `Generated` and `GenerationFails` are the regenerations around the await of the
  kernel; from its answer to its end such a call holds the event loop (`Blocking`). `Restore`,
  `ReadVersion` (the document is read first, the version after it), `Validate` with `Decide`, and
  `Export` run in threads. All go on with `Select` and `Update`
  (SQLAlchemy's merge: it writes the columns that differ from the row *it* reads), `Count` and
  `Insert` (the next version, under a uniqueness constraint that nobody catches) and `Journal`.
- `Restart` ends the calls under way and empties what is in memory.

### KnowledgeLifecycle

One object of `cabinet_knowledge`, with `KnowledgeSpace`, `GovernanceEngine`, `ValidationEngine`,
`ApprovalEngine` and the revision that `FeedbackEngine` makes.

- `object` is shared by all calls, `requests[c]` the request for validation that call `c` made,
  `events` the governance events. Each call goes from one access of an attribute to the next:
  `Check`, `ReadFrom`, `SetStatus`, `Hide` and `Log` are a transition, `WriteContent`, `Demote` and
  `Unlist` a change of content, `StillPending` and `Mark` the two ends of a decision.
- `Demote` is the assignment of `update_content`, which makes a draft of an object whatever its
  status was, an archived one too, and leaves no event.
- `reviewed` (what had been approved when) and `overlapped` are history. Reactivation is asked for
  by someone who sees the object obsolete; that is an assumption on callers, no route offers it.

## 4 The runs

A run is a cfg and an `MC` module that gives the constants their values. `CHECK_DEADLOCK FALSE` is
set in all of them: the numbers of calls are bounded, so every behaviour ends when they are made.

| run | instance | shows |
|---|---|---|
| `workflow_execution` | one execution, 2 runs, a workflow of a conditional step and a group of two, and a workflow of one step; 2 attempts, 2 workers | record and reality agree through failure, timeout, zombie threads and resumption; `ResumableRun` is implemented |
| `workflow_execution_live` | one execution, 2 runs, a group of two of which one step is conditional; 2 attempts, 1 worker | every run ends although every handler may hang, and so does every task, those too that a failed group left behind |
| `agent_mission` | 2 sub-tasks, 2 attempts, 2 overlapping runs, 1 decision | items are run by one call at a time, settle once, start in the order of the plan, no sub-task is forgotten, every call returns |
| `human_validation` | 2 approvers, 3 overlapping calls, 5 requests covering the three modes and the empty ones | tiers in order, approved only with an approval for every tier (a member's, as long as members alone decide), no verdict lost when calls do not overlap |
| `runtime_orchestrator` | 4 calls, 2 slots, 3 tasks of which one depends on another, 3 submissions in all, 1 cancellation | slots conserved, RUNNING is run, cancel reaches only the task's runner, every call returns |
| `case_ingestion` | 2 documents that contradict, repeat and confirm each other; 2 workers, 1 request, 1 redelivery, any death | the profile is whole, consistent and counted once; what nobody overlapped lasts; a document gets there or was lost |
| `draft_document` | 1 section of 2 paragraphs, 3 calls, 1 restart; symmetry of the calls | versions unbroken, versions and journal true, approved by someone, citations of the text, alone a call does what it says |
| `knowledge_lifecycle` | 4 calls of any kind; symmetry of the calls | an object in review can always be decided; without overlap the table of transitions and demotions by a new content, and nothing else |
| `agent_mission_completed`, `runtime_orchestrator_cancel`, `living_case`, `draft_versioned` | smaller instances | one sentence of the documentation each that the code does not keep (section 7) |

Why these bounds are enough to make the cases happen:

- *Two attempts* make a first attempt, a retry and an exhaustion. *Two workers* let a zombie run
  beside the retry; *one worker* lets it starve everybody, which is the case that matters for
  liveness. *Two runs* give a run and a resumption, with another and shorter workflow; the group
  of two has one member fail while the other goes on. The live run has just that group, so that a
  member left behind and the tasks of the resumption compete for its single worker. For safety
  properties the proofs remove all of these bounds.
- *Two runs of a mission and one decision of up to two sub-tasks* put a decision at every point of
  one run and at every point of two; `MCRequests` has the two sub-tasks in the wrong order and one
  the plan does not have. Decisions that overlap *each other* are left to the proofs, which hold for
  any number of them: a second one would multiply the states of a run that also checks liveness.
- *Three calls of decide*: two that overlap, and one that finds what they left. The proofs hold
  for any number.
- *Four calls with two slots*: two fill the slots, and two wait, possibly with the same object and
  then running it at the same time. *Three submissions* replace an object that is waiting, running
  or ending, or let the dependent task become ready. One slot and two independent tasks are the
  shortest that show a cancelled task starting.
- *Two documents and two workers*: the second document has a rival of the first one's event, its
  description at another date, and its confirmation, so each branch of the two engines is taken in
  either order. *One redelivery* makes a document ingested twice, by one worker or by two at once;
  *one request* creates, renames or deletes the profile between any two statements of them.
- *Three calls on a draft*: two that overlap, and one after or across the restart; a regeneration
  of the section and one of a paragraph meet in that paragraph. *Four calls on a knowledge object*:
  a submission, a decision on it, and two that overtake them. Invariants and action properties
  only, so the symmetries are sound. The proofs hold for any number.

## 5 Fairness

Fairness is weak and given per process, and stands for the scheduling of the event loop only.

- WorkflowExecution: `WF` of each runner and of each task. A ready coroutine and a due timer are
  served. *Nothing* is assumed of threads: handlers may hang for ever and hold every worker.
  `Timeout` being a step of the task, the attempts run out all the same. `RunEnds` holds for that
  reason; a run without the timeout breaks it. `TasksSettle` asks it of the tasks that nobody awaits
  any more: they settle because what they do next depends on their own attempts and never on the
  status of the execution, and a retry that looked at it would break that.
- AgentMission: `WF` of the coordinator's steps and of the agent's. The second is needed and is an
  assumption on the environment: `run_mission` awaits the agent without a timeout. Also `WF` of the
  statements of each decision's thread, which has nothing to wait for. Decisions themselves are
  never forced.
- RuntimeOrchestrator: `WF` of each call's steps, including the end of its runner: `run` awaits it
  without a timeout. Cancellations and submissions are never forced.
- CaseIngestion: `WF` of taking each message the broker holds, by whichever worker, and of each
  worker's task. Uploads, requests, redeliveries and deaths are never forced, and nothing is
  assumed of the clerks: one that stops for ever with a copy in hand delays no worker.
  `DocumentsReachTheCase` promises that a document is in the profile *once*, not that it stays:
  that is refuted in section 7.
- HumanValidation, DraftDocument and KnowledgeLifecycle have only safety properties.

## 6 The proofs

Eight modules of proofs, which state every invariant and every action property of the passing runs,
and the refinement. Their theorems hold for every value of the constants under the named
assumptions of the modules they extend:

| assumption | says |
|---|---|
| `WorkflowExecution!ConstantsAssumption` | workflows are sequences of steps; attempts, workers and runs are positive |
| `AgentMission!ConstantsAssumption` | a plan has a sub-task and an item an attempt; a decision names sub-tasks, or one the plan lacks |
| `RuntimeOrchestrator!ConstantsAssumption` | dependencies are tasks; there is a slot and a submission |
| `RequestedAssumption`, `OneTierAssumption` | a request is a mode with a sequence of tiers, of one tier in the modes that have one |
| `ContentAssumption`, `ProcessesAssumption` | documents have sequences of events; documents, workers and clerks are different things |
| `DraftAssumption`, `NoneAssumption` (twice) | `None` is none of the things it stands for the absence of; sections are sets of paragraphs |

The bounds (`MaxRuns`, `MaxCalls`, `MaxRedeliveries`, ...) are any numbers there.

**WorkflowExecution.** Seven theorems: `TypeCorrect`, `OneRunner`, `Backed`, `Complete`,
`ResumesAtCheckpoint`, `FailsExhausted`, `Implements`.

- `TypeInv` makes the types inductive. It adds that a live runner awaits a non-empty stretch of
  steps its workflow has (so the checkpoint stays in range), that a task pauses only with an
  attempt left (so the number of attempts does), and that a thread belongs to a task and a task to
  a run that began (so a journal entry names a workflow).
- `RunInv` is the argument for the record. Only the latest run of an execution can be live, and it
  is live exactly when the status says so; a live runner's position is the checkpoint plus one;
  a task that returned "ok" has a successful entry in the journal *already*, because the entry is
  written before the outcome is delivered. `SoleRunner`, `ResultsAreBacked`, `CompletedIsComplete`,
  `NeverRerunsRecorded` and the refinement follow: every step of the engine maps to a step of
  `ResumableRun` or leaves status and checkpoint alone.
- `ExhaustInv` adds that a task that has made `n` attempts has handed each of them to a thread,
  and that a FAILED execution keeps the raised task that failed it.

**HumanValidation.** Four theorems: `TypeCorrect`, `InOrder`, `Approved`, `Settles`.

- The approvals of a history are never taken back when it grows (`ApprovedStays`). So what a call
  has read stays true however late it uses it: `OrderInv` says of each call that the tiers below
  the one it looks at are approved, and that a call about to write "approved" has seen each tier
  approved. This is why stale statuses can never approve too early, although they can overwrite a
  rejection. `Approved` says no more than that: an approval *for* every tier. That it came from
  *within* the tier follows where those who decided belong to it (`DecidedByMembers`, the second part
  of `EveryTierHasApproval`), which nothing in the code sees to.
- `AloneInv` follows a call nobody overlaps: what it has *not* found in the history is not there
  either, since nobody else appended. Its verdict is therefore the `Outcome` of the history.

**AgentMission.** Five theorems: `TypeCorrect`, `OneRunPerItem`, `SettledItemsStay`, `PlanOrder`,
`NoSubTaskIsLost`.

- `MissionInv` pairs runs and items: a run that awaits an agent has an item that is running, no two
  have the same, and an item that is running has a run. So what is marked done or failed when an
  agent answers is exactly what was marked running (and nobody else's), an item that can be taken
  has an attempt left, and an item that is done or failed stays as it is. A result names an item of
  its sub-task that is done (`ResultsAreDone`): decisions erase results, never items.
- `RequestInv` is what overlapping decisions need: the item a thread has created and not listed yet
  is its own, of the sub-task it is about, and nobody else's, so that what it lists is what it
  erased.
- `NoSubTaskIsLost` needs nothing else, but a case for each statement of a decision's thread: a
  sub-task whose result *any* thread has just erased is one that this thread is about to enqueue,
  whatever the other threads and the runs do, and a run that marks an item done writes its result in
  the same step. It holds for any number of overlapping decisions.
- `PlanInv` says that what the plan has enqueued came after a *done item* of each dependency. The
  result that showed it may be erased by a decision at any moment, the item cannot: that is why
  `PlanIsFollowed` speaks of items and survives every overlap. What a decision asks for again is not
  covered, and not promised by the code (section 7).

**RuntimeOrchestrator.** Four theorems: `TypeCorrect`, `Slots`, `Running`, `Registered`.

- `TypeInv` says of the line that it is made of *different* calls that *wait*, and that a call that
  waits or is inside has its object. A call that ends either gives its slot back, when nobody
  waits, or hands it to the first in line, who comes inside as it leaves: the cardinality of the
  calls inside (finite sets, by the library's theorems) and the free slots keep their sum.
- A call is set running together with its object, and the statement that records the outcome is
  the one that ends the call: hence `RunningIsRun`, although another call, or a cancellation, may
  have overwritten the status meanwhile, since no write but a start's ever says "running".
  `RegisteredIsUnderWay` holds because the call that ends removes the task's entry *whoever's it
  is*: that is the same line that makes a task uncancellable, and it can only remove too much.

**CaseIngestion.** Six theorems in two modules. In `CaseIngestionProofs`, `Lasts`: `SettledLasts`
for any number of workers, requests and redeliveries.

- A change is settled when it is saved while nobody else holds a copy. `LastingInv` says where it
  can be found from then on: in the row, and in every copy read since, because saving a copy only
  ever adds documents and never undoes a deletion. The one save that could lose it is that of the
  empty profile; but whoever is about to make one found no row and *holds* since, so nothing can
  have been settled meanwhile.

In `CaseProfileProofs`, `TypeCorrect`, `ListedDocumentsAreWhole`, `FactsAndTimelineAgree`,
`DeliveredTwiceCountsOnce`, `ContradictionsGoBothWays`: what a profile always is.

- What one event does (`FactShape`, `EntryShape`): the fact of its description has the document,
  every other keeps its sources and only learns who contradicts it, and one entry changes. From
  there, one lemma for each part of `Sound`: counts (`FactsCountedStep`, `EntriesCountedStep`),
  contradictions (`MutualStep`: a new fact knows the sources of its rivals and they learn of its
  document, and neither's sources ever change), the two tables (`MatchStep`), the listed documents
  (`WithinStep`), what is on record (`RecordedStep`).
- A document has any number of events. The library's induction theorems take an operator, which
  the provers here cannot instantiate; but the induction needed is over a *set*: `SetInduction`
  (what holds of 0 and is passed on up to `n` holds up to `n`) is proved from the well-foundedness
  of the naturals, and `Iterates` from it: a function may be built step by step. That is why
  `FactsUpdated` and `TimelineUpdated` are recursive functions. `EventsIngested` then follows facts
  and timeline in lockstep, and `IngestedGood` says that ingesting keeps a profile good.
- `CaseInv` spreads that over the processes: the row is a good profile, and so is *every copy* a
  task or a request holds. A save overwrites what others did, but with a good profile made of a
  good copy. It adds that a message about a case comes after a processed version, whose number is
  above that of the upload, so that the latest version (`LatestRow`) has the events: an
  `ingest_document` never lists a document that it found empty.

**DraftDocument.** Six theorems: `TypeCorrect`, `Unbroken`, `Approved`, `Trail`, `Citations`,
`AloneCallsDoWhatTheySay`.

- `DraftInv`: the number a call has counted is that of a version or the next one, since versions
  are only appended. The uniqueness constraint refuses the former, so the next is inserted.
- `ApprovalInv`: an approved status in the row *or in any copy* comes with a call in `approved`;
  stale copies are harmless because that history only grows. `TrailInv` follows a call from its
  update to its journal entry: what it is to insert is a text the draft has had, and after the
  insertion a version bears its name. `CitationsInv` needs both columns to travel together: text and
  citations are one payload, in the row and in every copy.
- `EffectInv` follows a call that is alone from its first statement to its journal entry: its copy
  has the change, the row has what the copy has once it is updated (the merge writes a column that
  differs from the row it *read*, and nobody wrote in between), and the version it inserts is the
  row's text.
- `Stamped` is about the merge of calls that do overlap: nobody has the mark of a call in a copy or in
  the row before that call writes, so its payload always differs from the row's and is written whole.

**KnowledgeLifecycle.** Three theorems: `TypeCorrect`, `Reviewable`, `Serial`.

- `ReviewInv`: an object in review has a submission still on its way to make its request, or a
  pending request that no decision has acted on yet. A decision takes the object out of review
  *before* it marks its request, and marks only its own; a submission puts the object in review
  *before* it makes its request. So whoever put the object back in review after a decision still
  has its request to make, or has it pending: overlaps can misreport but never block.
- `SerialInv` is about the single call under way: what it has read is what the object still is, and
  the status is what the last event tells unless a change of the content came after it. `Serial`
  claims the lifecycle of the code, demotions included; where the documented one ends, section 7.

Only model-checked: the liveness properties (`RunEnds`, `TasksSettle`, `RunsEnd`, `CallsReturn`,
`DocumentsReachTheCase`), since fairness and `ENABLED` are out of the prover's reach, and of
course the four sentences of section 7, which are refuted.

## 7 Where code and documentation differ

Four runs have a property that TLC violates; `findings` in `PROJECT.json` quotes the lines.

| run | the documentation | what happens |
|---|---|---|
| `agent_mission_completed` | COMPLETED only if every sub-task has a result | a decision erases one between the last check and the status |
| `runtime_orchestrator_cancel` | a cancelled task that has not started never starts | one that waits for a slot starts when it gets it |
| `living_case` | every processed document updates its case | two workers save the profile they both read: the first document is gone, although both tasks succeeded |
| `draft_versioned` | each change of content has its version | a restoration and a regeneration count the same number: the second insertion fails and its text stays without a version |

Seen while modelling and plain enough to need no run (paths under `src/backend/src/tmis`):

- `workflow_automation/execution_engine/engine.py:23-25` says that steps run sequentially unless they
  share a group; a handler past its timeout (212) runs on beside the retry and the steps after it.
- `execution_engine/schemas.py:31` calls an execution "one run of one workflow version"; the route
  (`api/routes.py:347`) passes `resume` any workflow of the firm.
- `ai_team/planner/schemas.py:11-14` says dependencies complete before a sub-task starts; items
  enqueued again by a decision (`coordinator/engine.py:273`) start without a look at them, also when
  they were never done. `PlanIsFollowed` is what holds: of the items that the plan enqueued.
- `ai_governance/human_validation/engine.py:51-53` wants an approval from within each tier, and
  `schemas.py:8` one of the tier's approvers; lines 18-25 take one from anybody unless the mode is
  MULTIPLE, and `decide` (102-119) does not ask either. One call by an outsider makes a SIMPLE request
  APPROVED, and one outsider can approve tier after tier. `EveryTierHasApproval` is what holds: the
  approval is a member's as long as members alone decide.
- `docs/62-guide-gouvernance.md:30-31` and `docs/59-architecture-cabinet-knowledge-engine.md:117` say
  that ARCHIVED is terminal. `update_content` sets DRAFT whatever the status was
  (`cabinet_knowledge/knowledge/engine.py:102`, and its docstring at 92-93 means it to), so that an
  archived object becomes a draft again, with no call overlapping another. `SerialLifecycle` admits
  it: it is the lifecycle of the code.
- `cabinet_knowledge/governance/engine.py:14-18` says that it alone changes statuses and records every
  change; that same line of `update_content` records nothing, so that the events of an object do not
  tell its demotions.
- `cabinet_knowledge/knowledge/engine.py:93-96` says a validated object never stays validated after its
  content changes; a decision that checked its transition (`governance/engine.py:35`) before the change
  writes VALIDATED after it (38). `SerialLifecycle` says it of calls that do not overlap.

## 8 What is left out

- *WorkflowExecution*: telemetry spans and metering (a run that is CANCELLED closes neither);
  `started_at` and `completed_at` (not reset by a resumption); PENDING and PAUSED, which no code
  sets; the death of the server or of the awaiting request (`CancelledError`), which leaves RUNNING.
  The variables passed to conditions and actions are abstracted to their outcomes.
- *AgentMission*: `cancel`, `dequeue_next` and `check_timeouts` of the work queue, which nothing
  calls; texts, synthesis, metrics, memory; plans that are not chains, which no planner produces.
- *HumanValidation*: one request; the unknown id (KeyError, no change). A production that has
  several requests is validated when any one of them is, which is a query.
- *RuntimeOrchestrator*: `checkpoint`, a number the runner stores for its next run; the order of
  priorities in `ready_tasks`, since any ready task may be run by any caller; cancellation of the
  caller that awaits `run`. Callers run what `ready_tasks` returns and resume what has failed, as
  its documentation asks; nothing in the engine enforces it.
  `asyncio.Task.cancel` called from a thread is taken to be effective, though asyncio promises it
  only on the loop.
- *CaseIngestion*: actors, evidence, issues, graph, title and search index, which are merged or
  recomputed beside facts and timeline in the same save; the stages of the pipeline, which compute
  the events (each upload makes a document of its own); the in-process handler of
  `DocumentProcessed`, which the buses of the workers do not reach. A profile marked deleted is
  ingested into and renamed like any other, in the model as in the code. The status FAILED exists
  and no code sets it: a document whose task failed stays "received". Two workers that process one
  document may insert one version number twice (no constraint forbids it), and then either row is
  the latest: both are processed, so that nothing modelled tells them apart.
- *DraftDocument*: builders, exporters, reviewers and the comparison of versions, which compute
  texts; several drafts and firms, which are independent; the wait of a thread for a connection.
- *KnowledgeLifecycle*: version counter, tags, quality and usage, which no transition reads; the
  records of feedback and approval, appended once per call; the search index.
- *Everything else*: see the components of `PROJECT.json`. Language models, documents, scores,
  texts and aggregates are data with no control to check. Routes, databases and tokens are the
  frameworks'.

## 9 Plan

Done: the modules of section 3, and proofs of every safety property their passing runs check.

Next, in this order:

1. Theorems that bound the divergences of section 7: what the code does keep of each sentence and
   under which condition on the overlaps (a mission without decisions completes with every result,
   a task cancelled while no call waits for it never starts, a case whose documents are processed
   one after the other has them all, a draft changed by one call at a time is versioned).
2. More abstract specifications with refinements: an append-only list of versions for
   DraftDocument, a counting semaphore for RuntimeOrchestrator.
3. `AsyncJobs`: queue, retries, timeouts and dead letters, with workers that dequeue and mark in two
   steps; and an abstract `JobLifecycle` it implements as far as the code does.
4. `EventStore` and `EventStreaming`: threads appending to a stream, snapshots and replay; keys and
   envelopes across the await. Abstract specification: an append-only log.
5. `Synchronization`: a remote that changes, incremental pulls, held conflicts.
6. `CircuitBreaker`: calls allowed before and answered after an opening, probes, forced openings.
7. `WorkflowVersions`: activation by threads; composed with the executions it is the place to state
   which version an execution runs.
8. Quotas read before an await; locks and sessions with expiry; the lifecycle of an invoice.
