-------------------------- MODULE AgentMissionProofs --------------------------
(***************************************************************************)
(* What holds of the work items of a mission, for any plan, number of      *)
(* attempts, overlapping runs and decisions.                               *)
(*                                                                         *)
(* A call of run_mission that awaits an agent has an item that is running, *)
(* which no other call has; an item that runs is someone's.  So what is    *)
(* marked done or failed when an agent answers is what was marked running, *)
(* and items that have settled are left alone. A decision likewise has the *)
(* item it has created to itself until it lists it.                        *)
(***************************************************************************)
EXTENDS AgentMission, FiniteSetTheorems, SequenceTheorems, TLAPS

Pcs == {"idle", "loop", "await", "delegate", "complete", "fail", "over"}
RunnerRecord(n) == [pc : Pcs, item : 0 .. n, seen : SUBSET SubTasks]

RequestRecord(n) == [pc : {"idle", "erase", "create", "list", "over"},
                     todo : Seq(SubTasks \cup {0}), item : 0 .. n]

\* An item that may be taken, now or once it is listed, has an attempt left.
AttemptsLeft ==
  \A i \in DOMAIN items :
    items[i].status \in {"unlisted", "pending", "retrying"} => items[i].attempts < MaxAttempts

\* A decision about to enqueue has a sub-task of the plan to enqueue, and a created item
\* is that sub-task's, and no other decision's, until it is listed.
RequestInv ==
  /\ \A d \in Decisions : request[d].pc \in {"create", "list"} =>
       request[d].todo # <<>> /\ Head(request[d].todo) \in SubTasks
  /\ \A d \in Decisions : request[d].pc = "list" =>
       /\ request[d].item \in DOMAIN items /\ items[request[d].item].status = "unlisted"
       /\ items[request[d].item].sub = Head(request[d].todo)
  /\ \A d, e \in Decisions : d # e /\ request[d].pc = "list" /\ request[e].pc = "list" =>
       request[d].item # request[e].item

Awaits(r, i) == runner[r].pc = "await" /\ runner[r].item = i

\* Who awaits an agent has a running item of its own, and a running item has someone.
AwaitInv ==
  /\ \A r \in Runs : runner[r].pc = "await" =>
       runner[r].item \in DOMAIN items /\ items[runner[r].item].status = "running"
  /\ \A r, q \in Runs : r # q /\ runner[r].pc = "await" /\ runner[q].pc = "await" =>
       runner[r].item # runner[q].item
  /\ \A i \in DOMAIN items : items[i].status = "running" => \E r \in Runs : Awaits(r, i)

\* A result is the output of an item of that sub-task that was done.
ResultsAreDone ==
  \A s \in SubTasks :
    results[s] # 0 => items[results[s]].sub = s /\ items[results[s]].status = "done"

MissionInv == TypeOK /\ AttemptsLeft /\ RequestInv /\ AwaitInv /\ ResultsAreDone

-----------------------------------------------------------------------------
(* What becomes of the items                                               *)

LEMMA ItemsDomain ==
  ASSUME TypeOK
  PROVE  /\ DOMAIN items = 1 .. Len(items) /\ Len(items) \in Nat
         /\ \A i \in DOMAIN items : items[i] \in Item
BY LenProperties, ElementOfSeq DEF TypeOK

\* New items come after those there are, and are pending or to be listed.
Extended ==
  /\ items' \in Seq(Item) /\ Len(items') >= Len(items)
  /\ DOMAIN items \subseteq DOMAIN items'
  /\ \A i \in DOMAIN items : items'[i] = items[i]
  /\ \A i \in DOMAIN items' \ DOMAIN items :
       items'[i].status \in {"unlisted", "pending"} /\ items'[i].attempts = 0

LEMMA NewItemType ==
  ASSUME NEW s \in SubTasks, NEW p \in 0 .. N
  PROVE  /\ NewItem(s, p) \in Item /\ NewItem(s, p).sub = s
         /\ NewItem(s, p).status = "pending" /\ NewItem(s, p).attempts = 0
BY ConstantsAssumption DEF NewItem, Item

LEMMA Concatenated ==
  ASSUME TypeOK, NEW new \in Seq(Item), items' = items \o new,
         \A i \in 1 .. Len(new) : new[i].status = "pending" /\ new[i].attempts = 0
  PROVE  Extended
<1>1. items \in Seq(Item) /\ Len(items) \in Nat /\ Len(new) \in Nat
  BY LenProperties DEF TypeOK
<1>2. /\ items' \in Seq(Item) /\ Len(items') = Len(items) + Len(new)
      /\ \A i \in 1 .. Len(items) + Len(new) :
           items'[i] = IF i <= Len(items) THEN items[i] ELSE new[i - Len(items)]
  BY <1>1, ConcatProperties
<1>3. DOMAIN items = 1 .. Len(items) /\ DOMAIN items' = 1 .. Len(items) + Len(new)
  BY <1>1, <1>2, LenProperties
<1>4. \A i \in DOMAIN items : items'[i] = items[i]
  BY <1>1, <1>2, <1>3
<1>5. ASSUME NEW i \in DOMAIN items' \ DOMAIN items
      PROVE  items'[i].status = "pending" /\ items'[i].attempts = 0
  <2>1. i - Len(items) \in 1 .. Len(new) /\ items'[i] = new[i - Len(items)]
    BY <1>1, <1>2, <1>3
  <2> QED BY <2>1
<1> QED BY <1>1, <1>2, <1>3, <1>4, <1>5 DEF Extended

LEMMA EnqueueReadyExtends ==
  ASSUME TypeOK, NEW seen, EnqueueReady(seen)
  PROVE  Extended
<1> DEFINE ready == {s \in SubTasks \ seen : \A d \in DependsOn(s) : results[d] # 0}
<1>1. PICK order \in [1 .. Cardinality(ready) -> ready] :
        items' = items \o [i \in DOMAIN order |-> NewItem(order[i], N - order[i] + 1)]
  BY DEF EnqueueReady
<1> DEFINE new == [i \in DOMAIN order |-> NewItem(order[i], N - order[i] + 1)]
<1>2. Cardinality(ready) \in Nat
  <2>1. IsFiniteSet(SubTasks)
    BY FS_Interval, ConstantsAssumption DEF SubTasks
  <2> QED BY <2>1, FS_Subset, FS_CardinalityType
<1>3. \A i \in 1 .. Cardinality(ready) :
        order[i] \in SubTasks /\ N - order[i] + 1 \in 0 .. N
  BY <1>1, ConstantsAssumption DEF SubTasks
<1>4. \A i \in 1 .. Cardinality(ready) :
        new[i] \in Item /\ new[i].status = "pending" /\ new[i].attempts = 0
  BY <1>1, <1>3, NewItemType
<1>5. new \in [1 .. Cardinality(ready) -> Item]
  BY <1>1, <1>4
<1> HIDE DEF ready, new
<1>6. new \in Seq(Item) /\ Len(new) = Cardinality(ready)
  BY <1>2, <1>5
<1> QED BY <1>1, <1>4, <1>6, Concatenated DEF new

LEMMA CreateItemExtends ==
  ASSUME TypeOK, RequestInv, NEW d \in Decisions, CreateItem(d)
  PROVE  /\ Extended
         /\ Len(items') = Len(items) + 1 /\ items'[Len(items) + 1].sub = Head(request[d].todo)
         /\ items'[Len(items) + 1].status = "unlisted"
<1> DEFINE s == Head(request[d].todo)
           new == [NewItem(s, 0) EXCEPT !.status = "unlisted"]
<1>1. /\ new \in Item /\ new.sub = s
      /\ new.status = "unlisted" /\ new.attempts = 0
  <2>1. s \in SubTasks /\ 0 \in 0 .. N
    BY ConstantsAssumption DEF RequestInv, CreateItem
  <2> HIDE DEF s
  <2>2. NewItem(s, 0) \in Item /\ NewItem(s, 0).sub = s /\ NewItem(s, 0).attempts = 0
    BY <2>1, NewItemType
  <2> QED BY <2>2 DEF Item
<1>2. items \in Seq(Item) /\ items' = Append(items, new)
  BY DEF TypeOK, CreateItem
<1> HIDE DEF new
<1>3. /\ items' \in Seq(Item) /\ Len(items') = Len(items) + 1
      /\ \A i \in 1 .. Len(items) : items'[i] = items[i]
      /\ items'[Len(items) + 1] = new
  BY <1>1, <1>2, AppendProperties
<1>4. /\ DOMAIN items = 1 .. Len(items) /\ DOMAIN items' = 1 .. Len(items) + 1
      /\ Len(items) \in Nat
  BY <1>2, <1>3, LenProperties
<1>5. /\ \A i \in DOMAIN items' \ DOMAIN items : i = Len(items) + 1
      /\ DOMAIN items \subseteq DOMAIN items' /\ Len(items') >= Len(items)
  BY <1>3, <1>4
<1>6. \A i \in DOMAIN items' \ DOMAIN items :
        items'[i].status = "unlisted" /\ items'[i].attempts = 0
  BY <1>1, <1>3, <1>5
<1>7. \A i \in DOMAIN items : items'[i] = items[i]
  BY <1>3, <1>4
<1> QED BY <1>1, <1>3, <1>5, <1>6, <1>7 DEF Extended

\* One item is replaced by another.
Replaced(i, e) ==
  /\ items' \in Seq(Item) /\ Len(items') = Len(items) /\ DOMAIN items' = DOMAIN items
  /\ items'[i] = e /\ \A j \in DOMAIN items \ {i} : items'[j] = items[j]

LEMMA Replacement ==
  ASSUME TypeOK, NEW i \in DOMAIN items, NEW e \in Item, items' = [items EXCEPT ![i] = e]
  PROVE  Replaced(i, e)
<1>1. i \in 1 .. Len(items) /\ items \in Seq(Item)
  BY ItemsDomain DEF TypeOK
<1> QED BY <1>1, ExceptSeq, LenProperties DEF Replaced

LEMMA Marks ==
  ASSUME NEW e \in Item
  PROVE  /\ e.attempts < MaxAttempts =>
              /\ MarkRunning(e) \in Item /\ MarkRunning(e).status = "running"
         /\ MarkDone(e) \in Item /\ MarkDone(e).status = "done"
         /\ MarkFailed(e) \in Item /\ MarkFailed(e).status \in {"retrying", "failed"}
         /\ MarkFailed(e).status = "retrying" => MarkFailed(e).attempts < MaxAttempts
         /\ MarkRunning(e).sub = e.sub /\ MarkDone(e).sub = e.sub /\ MarkFailed(e).sub = e.sub
         /\ MarkRunning(e).priority = e.priority /\ MarkDone(e).priority = e.priority
         /\ MarkFailed(e).priority = e.priority
<1>1. /\ MarkDone(e) \in Item /\ MarkDone(e).status = "done" /\ MarkDone(e).sub = e.sub
      /\ MarkDone(e).priority = e.priority
  BY DEF Item, MarkDone
<1>2. MarkFailed(e) \in Item /\ MarkFailed(e).sub = e.sub /\ MarkFailed(e).priority = e.priority
  BY DEF Item, MarkFailed
<1>3. /\ MarkFailed(e).status \in {"retrying", "failed"}
      /\ MarkFailed(e).status = "retrying" => MarkFailed(e).attempts < MaxAttempts
  BY DEF Item, MarkFailed
<1>4. /\ MarkRunning(e).sub = e.sub /\ MarkRunning(e).status = "running"
      /\ MarkRunning(e).priority = e.priority
  BY DEF Item, MarkRunning
<1>5. e.attempts < MaxAttempts => MarkRunning(e) \in Item
  <2>1. e.attempts < MaxAttempts => e.attempts + 1 \in 0 .. MaxAttempts
    BY ConstantsAssumption DEF Item
  <2> QED BY <2>1 DEF Item, MarkRunning
<1> QED BY <1>1, <1>2, <1>3, <1>4, <1>5

-----------------------------------------------------------------------------
(* What becomes of the calls of run_mission                                *)

LEMMA RunnerGrows ==
  ASSUME NEW m \in Nat, NEW n \in Nat, m <= n, NEW f \in [Runs -> RunnerRecord(m)]
  PROVE  f \in [Runs -> RunnerRecord(n)]
BY DEF RunnerRecord

LEMMA RequestGrows ==
  ASSUME NEW m \in Nat, NEW n \in Nat, m <= n, NEW f \in [Decisions -> RequestRecord(m)]
  PROVE  f \in [Decisions -> RequestRecord(n)]
BY DEF RequestRecord

LEMMA RunnerUpdates ==
  ASSUME TypeOK, NEW r \in Runs, NEW p \in Pcs, NEW i \in 0 .. Len(items)
  PROVE  /\ [runner EXCEPT ![r].pc = p] \in [Runs -> RunnerRecord(Len(items))]
         /\ [runner EXCEPT ![r].pc = p, ![r].item = i] \in [Runs -> RunnerRecord(Len(items))]
         /\ [runner EXCEPT ![r].pc = p, ![r].seen = {}] \in [Runs -> RunnerRecord(Len(items))]
BY DEF TypeOK, RunnerRecord, Pcs

LEMMA RequestUpdates ==
  ASSUME NEW n \in Nat, request \in [Decisions -> RequestRecord(n)], NEW d \in Decisions,
         NEW p \in {"idle", "erase", "create", "list", "over"}, NEW i \in 0 .. n,
         NEW todo \in Seq(SubTasks \cup {0})
  PROVE  /\ [request EXCEPT ![d].pc = p] \in [Decisions -> RequestRecord(n)]
         /\ [request EXCEPT ![d].todo = todo] \in [Decisions -> RequestRecord(n)]
         /\ [request EXCEPT ![d].pc = p, ![d].item = i] \in [Decisions -> RequestRecord(n)]
         /\ [request EXCEPT ![d] = [pc |-> p, todo |-> todo, item |-> i]]
              \in [Decisions -> RequestRecord(n)]
BY DEF RequestRecord

LEMMA EnqueuedType == TypeOK => Enqueued \subseteq SubTasks
BY ItemsDomain DEF Enqueued, Item

\* TypeOK, with the calls of run_mission as functions to records.
LEMMA Typed ==
  ASSUME status' \in {"none", "created", "running", "completed", "failed"},
         items' \in Seq(Item),
         results' \in [SubTasks -> 0 .. Len(items')],
         team' \subseteq SubTasks,
         runner' \in [Runs -> RunnerRecord(Len(items'))],
         request' \in [Decisions -> RequestRecord(Len(items'))]
  PROVE  TypeOK'
BY DEF TypeOK, RunnerRecord, RequestRecord, Pcs

\* New items change nothing for those that wait, run or have given a result.
LEMMA ExtendedInv ==
  ASSUME MissionInv, Extended, results' = results,
         runner' \in [Runs -> RunnerRecord(Len(items'))],
         \A r \in Runs : /\ runner'[r].pc = "await" <=> runner[r].pc = "await"
                         /\ runner[r].pc = "await" => runner'[r].item = runner[r].item
  PROVE  AttemptsLeft' /\ AwaitInv' /\ ResultsAreDone'
<1>1. AttemptsLeft'
  BY ConstantsAssumption DEF MissionInv, AttemptsLeft, Runnable, Extended
<1>2. AwaitInv'
  <2>1. \A i \in DOMAIN items' : items'[i].status = "running" => i \in DOMAIN items
    BY DEF Extended
  <2>2. \A r \in Runs : runner'[r].pc = "await" =>
          /\ runner'[r].item = runner[r].item /\ runner[r].pc = "await"
          /\ runner[r].item \in DOMAIN items /\ items[runner[r].item].status = "running"
    BY DEF MissionInv, AwaitInv
  <2>3. \A r \in Runs : runner'[r].pc = "await" =>
          runner'[r].item \in DOMAIN items' /\ items'[runner'[r].item].status = "running"
    BY <2>2 DEF Extended
  <2>4. \A r, q \in Runs : r # q /\ runner'[r].pc = "await" /\ runner'[q].pc = "await" =>
          runner'[r].item # runner'[q].item
    BY <2>2 DEF MissionInv, AwaitInv
  <2>5. ASSUME NEW i \in DOMAIN items', items'[i].status = "running"
        PROVE  \E r \in Runs : runner'[r].pc = "await" /\ runner'[r].item = i
    <3>1. i \in DOMAIN items /\ items[i].status = "running"
      BY <2>1, <2>5 DEF Extended
    <3> QED BY <3>1 DEF MissionInv, AwaitInv, Awaits
  <2> QED BY <2>3, <2>4, <2>5 DEF AwaitInv, Awaits
<1>3. \A s \in SubTasks : results[s] # 0 => results[s] \in DOMAIN items
  BY ItemsDomain DEF MissionInv, TypeOK
<1> QED BY <1>1, <1>2, <1>3 DEF MissionInv, ResultsAreDone, Extended

\* Decisions that do nothing keep the items they have created, whatever is enqueued ...
LEMMA RequestExtended ==
  ASSUME MissionInv, Extended, request' = request
  PROVE  RequestInv' /\ request' \in [Decisions -> RequestRecord(Len(items'))]
<1>1. RequestInv'
  BY DEF MissionInv, RequestInv, Extended
<1>2. Len(items) \in Nat /\ Len(items') \in Nat /\ Len(items) <= Len(items')
  BY ItemsDomain, LenProperties DEF MissionInv, Extended
<1>3. request \in [Decisions -> RequestRecord(Len(items))]
  BY DEF MissionInv, TypeOK, RequestRecord
<1> QED BY <1>1, <1>2, <1>3, RequestGrows

\* ... and whatever becomes of an item that is listed.
LEMMA RequestReplaced ==
  ASSUME MissionInv, NEW i \in DOMAIN items, items[i].status # "unlisted",
         NEW e, Replaced(i, e), request' = request
  PROVE  RequestInv' /\ request' \in [Decisions -> RequestRecord(Len(items'))]
<1>1. \A d \in Decisions : request[d].pc = "list" =>
        items'[request[d].item] = items[request[d].item]
  BY DEF MissionInv, RequestInv, Replaced
<1>2. RequestInv'
  BY <1>1 DEF MissionInv, RequestInv, Replaced
<1> QED BY <1>2 DEF MissionInv, TypeOK, RequestRecord, Replaced

LEMMA MissionInit == Init => MissionInv
<1> SUFFICES ASSUME Init PROVE MissionInv
  OBVIOUS
<1>1. items = <<>> /\ <<>> \in Seq(Item) /\ Len(items) = 0 /\ DOMAIN items = {}
  BY EmptySeq DEF Init
<1>2. TypeOK
  <2>1. request \in [Decisions -> RequestRecord(0)]
    BY EmptySeq DEF Init, RequestRecord
  <2> QED BY <1>1, <2>1, ConstantsAssumption DEF Init, TypeOK, Idle, RequestRecord
<1> QED BY <1>1, <1>2
        DEF Init, MissionInv, AttemptsLeft, RequestInv, AwaitInv, ResultsAreDone, Idle

LEMMA LaunchStep ==
  ASSUME MissionInv, Launch
  PROVE  MissionInv'
<1>1. Extended /\ UNCHANGED <<results, team, runner, request>> /\ status' = "created"
  BY EnqueueReadyExtends DEF MissionInv, Launch
<1>2. Len(items) \in Nat /\ Len(items') \in Nat /\ Len(items) <= Len(items')
  BY <1>1, ItemsDomain, LenProperties DEF MissionInv, Extended
<1>3. runner' \in [Runs -> RunnerRecord(Len(items'))]
  BY <1>1, <1>2, RunnerGrows DEF MissionInv, TypeOK, RunnerRecord, Pcs
<1>4. results' \in [SubTasks -> 0 .. Len(items')]
  BY <1>1, <1>2 DEF MissionInv, TypeOK
<1>5. RequestInv' /\ request' \in [Decisions -> RequestRecord(Len(items'))]
  BY <1>1, RequestExtended
<1>6. TypeOK'
  BY <1>1, <1>3, <1>4, <1>5, Typed DEF MissionInv, TypeOK, Extended
<1>7. AttemptsLeft' /\ AwaitInv' /\ ResultsAreDone'
  BY <1>1, <1>3, ExtendedInv
<1> QED BY <1>5, <1>6, <1>7 DEF MissionInv

LEMMA DelegateStep ==
  ASSUME MissionInv, NEW r \in Runs, Delegate(r)
  PROVE  MissionInv'
<1>1. /\ Extended /\ UNCHANGED <<status, results, team, request>>
      /\ runner' = [runner EXCEPT ![r].pc = "loop", ![r].seen = {}]
      /\ runner[r].pc = "delegate"
  BY EnqueueReadyExtends DEF MissionInv, Delegate
<1>2. Len(items) \in Nat /\ Len(items') \in Nat /\ Len(items) <= Len(items')
  BY <1>1, ItemsDomain, LenProperties DEF MissionInv, Extended
<1>3. runner' \in [Runs -> RunnerRecord(Len(items))]
  <2>1. TypeOK /\ "loop" \in Pcs /\ 0 \in 0 .. Len(items)
    BY <1>2 DEF MissionInv, Pcs
  <2> QED BY <1>1, <2>1, RunnerUpdates
<1>4. runner' \in [Runs -> RunnerRecord(Len(items'))]
  BY <1>2, <1>3, RunnerGrows
<1>5. results' \in [SubTasks -> 0 .. Len(items')]
  BY <1>1, <1>2 DEF MissionInv, TypeOK
<1>6. RequestInv' /\ request' \in [Decisions -> RequestRecord(Len(items'))]
  BY <1>1, RequestExtended
<1>7. TypeOK'
  BY <1>1, <1>4, <1>5, <1>6, Typed DEF MissionInv, TypeOK, Extended
<1>8. \A q \in Runs : /\ runner'[q].pc = "await" <=> runner[q].pc = "await"
                      /\ runner[q].pc = "await" => runner'[q].item = runner[q].item
  BY <1>1 DEF MissionInv, TypeOK
<1>9. AttemptsLeft' /\ AwaitInv' /\ ResultsAreDone'
  BY <1>1, <1>4, <1>8, ExtendedInv
<1> QED BY <1>6, <1>7, <1>9 DEF MissionInv

\* The item a decision has created is no one else's.
LEMMA CreateItemStep ==
  ASSUME MissionInv, NEW d \in Decisions, CreateItem(d)
  PROVE  MissionInv'
<1> DEFINE n == Len(items) + 1
<1>1. /\ Extended /\ UNCHANGED <<status, results, team, runner>> /\ request[d].pc = "create"
      /\ request' = [request EXCEPT ![d].pc = "list", ![d].item = n]
      /\ Len(items') = n /\ items'[n].sub = Head(request[d].todo)
      /\ items'[n].status = "unlisted"
  BY CreateItemExtends DEF MissionInv, CreateItem
<1>2. /\ Len(items) \in Nat /\ Len(items') \in Nat /\ Len(items) <= Len(items')
      /\ n \in DOMAIN items' \ DOMAIN items /\ n \in 0 .. Len(items')
  BY <1>1, ItemsDomain, LenProperties DEF MissionInv, Extended
<1> HIDE DEF n
<1>3. runner' \in [Runs -> RunnerRecord(Len(items'))]
  BY <1>1, <1>2, RunnerGrows DEF MissionInv, TypeOK, RunnerRecord, Pcs
<1>4. results' \in [SubTasks -> 0 .. Len(items')]
  BY <1>1, <1>2 DEF MissionInv, TypeOK
<1>5. /\ request \in [Decisions -> RequestRecord(Len(items'))]
      /\ request' \in [Decisions -> RequestRecord(Len(items'))]
  <2>1. request \in [Decisions -> RequestRecord(Len(items))]
    BY DEF MissionInv, TypeOK, RequestRecord
  <2>2. request \in [Decisions -> RequestRecord(Len(items'))]
    BY <1>2, <2>1, RequestGrows
  <2> QED BY <1>1, <1>2, <2>2, EmptySeq, RequestUpdates
<1>6. TypeOK'
  BY <1>1, <1>3, <1>4, <1>5, Typed DEF MissionInv, TypeOK, Extended
<1>7. AttemptsLeft' /\ AwaitInv' /\ ResultsAreDone'
  BY <1>1, <1>3, ExtendedInv
<1>8. /\ request'[d].pc = "list" /\ request'[d].item = n /\ request'[d].todo = request[d].todo
      /\ \A e \in Decisions \ {d} : request'[e] = request[e]
  BY <1>1, <1>5 DEF RequestRecord
<1>9. RequestInv'
  <2>1. \A e \in Decisions : request'[e].pc \in {"create", "list"} =>
          request'[e].todo # <<>> /\ Head(request'[e].todo) \in SubTasks
    BY <1>1, <1>8 DEF MissionInv, RequestInv
  <2>2. ASSUME NEW e \in Decisions \ {d}, request'[e].pc = "list"
        PROVE  /\ request'[e].item \in DOMAIN items
               /\ request'[e].item \in DOMAIN items'
               /\ items'[request'[e].item].status = "unlisted"
               /\ items'[request'[e].item].sub = Head(request'[e].todo)
    <3>1. request[e].pc = "list" /\ request'[e] = request[e]
      BY <1>8, <2>2
    <3>2. /\ request[e].item \in DOMAIN items /\ items[request[e].item].status = "unlisted"
          /\ items[request[e].item].sub = Head(request[e].todo)
      BY <3>1 DEF MissionInv, RequestInv
    <3>3. request[e].item \in DOMAIN items' /\ items'[request[e].item] = items[request[e].item]
      BY <1>1, <3>2 DEF Extended
    <3> QED BY <3>1, <3>2, <3>3
  <2>3. \A e, f \in Decisions : e # f /\ request'[e].pc = "list" /\ request'[f].pc = "list" =>
          request'[e].item # request'[f].item
    <3> SUFFICES ASSUME NEW e \in Decisions, NEW f \in Decisions, e # f,
                        request'[e].pc = "list", request'[f].pc = "list"
                 PROVE  request'[e].item # request'[f].item
      OBVIOUS
    <3>1. CASE e = d
      BY <1>2, <1>8, <2>2, <3>1
    <3>2. CASE f = d
      BY <1>2, <1>8, <2>2, <3>2
    <3>3. CASE e # d /\ f # d
      BY <1>8, <3>3 DEF MissionInv, RequestInv
    <3> QED BY <3>1, <3>2, <3>3
  <2> QED BY <1>1, <1>2, <1>8, <2>1, <2>2, <2>3 DEF RequestInv
<1> QED BY <1>6, <1>7, <1>9 DEF MissionInv

\* What a decision lists is its own item, which nobody has taken.
LEMMA ListItemReplaced ==
  ASSUME MissionInv, NEW d \in Decisions, ListItem(d)
  PROVE  \E e \in Item :
           /\ Replaced(request[d].item, e) /\ e.status = "pending"
           /\ e.sub = Head(request[d].todo) /\ e.sub = items[request[d].item].sub
           /\ e.priority = items[request[d].item].priority
           /\ e.attempts = items[request[d].item].attempts
           /\ request[d].item \in DOMAIN items
           /\ items[request[d].item].status = "unlisted"
<1> DEFINE i == request[d].item
           e == [items[i] EXCEPT !.status = "pending"]
<1>1. /\ i \in DOMAIN items /\ items[i].status = "unlisted"
      /\ items[i].sub = Head(request[d].todo) /\ TypeOK
      /\ items' = [items EXCEPT ![i] = e]
  BY DEF MissionInv, RequestInv, ListItem
<1>2. items[i] \in Item
  BY <1>1, ItemsDomain
<1>3. e \in Item /\ e.status = "pending" /\ e.sub = items[i].sub
      /\ e.priority = items[i].priority /\ e.attempts = items[i].attempts
  BY <1>2 DEF Item
<1> HIDE DEF e
<1>4. Replaced(i, e)
  BY <1>1, <1>3, Replacement
<1> QED BY <1>1, <1>3, <1>4

LEMMA ListItemStep ==
  ASSUME MissionInv, NEW d \in Decisions, ListItem(d)
  PROVE  MissionInv'
<1> DEFINE i == request[d].item
           t == Tail(request[d].todo)
<1>1. PICK e \in Item :
        /\ Replaced(i, e) /\ e.status = "pending" /\ e.attempts = items[i].attempts
        /\ i \in DOMAIN items /\ items[i].status = "unlisted"
  BY ListItemReplaced
<1>2. /\ UNCHANGED <<status, results, team, runner>> /\ request[d].pc = "list"
      /\ request' = [request EXCEPT ![d] = [pc |-> "erase", todo |-> t, item |-> 0]]
  BY DEF ListItem
<1>3. Len(items') = Len(items) /\ DOMAIN items' = DOMAIN items /\ Len(items) \in Nat
  BY <1>1, ItemsDomain DEF Replaced, MissionInv
<1>4. /\ request \in [Decisions -> RequestRecord(Len(items'))]
      /\ request' \in [Decisions -> RequestRecord(Len(items'))]
  <2>1. request \in [Decisions -> RequestRecord(Len(items'))]
    BY <1>3 DEF MissionInv, TypeOK, RequestRecord
  <2>2. t \in Seq(SubTasks \cup {0}) /\ 0 \in 0 .. Len(items')
    BY <1>2, <1>3, HeadTailProperties DEF MissionInv, TypeOK, RequestInv
  <2> HIDE DEF t
  <2> QED BY <1>2, <1>3, <2>1, <2>2, RequestUpdates
<1>5. TypeOK'
  BY <1>1, <1>2, <1>3, <1>4, Typed DEF MissionInv, TypeOK, Replaced, RunnerRecord, Pcs
<1>6. AttemptsLeft'
  BY <1>1 DEF MissionInv, AttemptsLeft, Replaced
<1>7. AwaitInv'
  BY <1>1, <1>2, <1>3 DEF MissionInv, AwaitInv, Awaits, Replaced
<1>8. ResultsAreDone'
  <2>1. \A s \in SubTasks : results[s] # 0 => results[s] \in DOMAIN items \ {i}
    BY <1>1, ItemsDomain DEF MissionInv, TypeOK, ResultsAreDone
  <2> QED BY <1>1, <1>2, <2>1 DEF MissionInv, ResultsAreDone, Replaced
<1>9. RequestInv'
  <2>1. request'[d].pc = "erase" /\ \A e2 \in Decisions \ {d} : request'[e2] = request[e2]
    BY <1>2, <1>4
  <2>2. \A e2 \in Decisions \ {d} : request[e2].pc = "list" =>
          items'[request[e2].item] = items[request[e2].item]
    BY <1>1, <1>2 DEF MissionInv, RequestInv, Replaced
  <2> QED BY <1>3, <2>1, <2>2 DEF MissionInv, RequestInv
<1> QED BY <1>5, <1>6, <1>7, <1>8, <1>9 DEF MissionInv

-----------------------------------------------------------------------------
(* Taking an item, and the answer of its agent                             *)

\* Who awaits lets its item go: the others keep theirs.
LEMMA Released ==
  ASSUME MissionInv, NEW r \in Runs, runner[r].pc = "await",
         NEW e, e.status # "running", Replaced(runner[r].item, e),
         runner'[r].pc # "await", \A q \in Runs \ {r} : runner'[q] = runner[q]
  PROVE  AwaitInv'
<1>1. ASSUME NEW q \in Runs, runner'[q].pc = "await"
      PROVE  /\ q # r /\ runner'[q] = runner[q] /\ runner[q].item # runner[r].item
             /\ runner'[q].item \in DOMAIN items' /\ items'[runner'[q].item].status = "running"
  <2>1. q # r /\ runner'[q] = runner[q] /\ runner[q].pc = "await"
    BY <1>1
  <2>2. /\ runner[q].item # runner[r].item /\ runner[q].item \in DOMAIN items
        /\ items[runner[q].item].status = "running"
    BY <2>1 DEF MissionInv, AwaitInv
  <2> QED BY <2>1, <2>2 DEF Replaced
<1>2. \A p, q \in Runs : p # q /\ runner'[p].pc = "await" /\ runner'[q].pc = "await" =>
        runner'[p].item # runner'[q].item
  BY <1>1 DEF MissionInv, AwaitInv
<1>3. ASSUME NEW i \in DOMAIN items', items'[i].status = "running"
      PROVE  \E q \in Runs : runner'[q].pc = "await" /\ runner'[q].item = i
  <2>1. i \in DOMAIN items /\ i # runner[r].item /\ items[i].status = "running"
    BY <1>3 DEF Replaced
  <2>2. PICK q \in Runs : runner[q].pc = "await" /\ runner[q].item = i
    BY <2>1 DEF MissionInv, AwaitInv, Awaits
  <2>3. q \in Runs \ {r}
    BY <2>1, <2>2
  <2> QED BY <2>2, <2>3
<1> QED BY <1>1, <1>2, <1>3 DEF AwaitInv, Awaits

LEMMA AgentAnswersStep ==
  ASSUME MissionInv, NEW r \in Runs, AgentAnswers(r)
  PROVE  MissionInv'
<1> DEFINE i == runner[r].item
<1>1. /\ runner[r].pc = "await" /\ i \in DOMAIN items /\ items[i].status = "running"
      /\ items' = [items EXCEPT ![i] = MarkDone(items[i])]
      /\ results' = [results EXCEPT ![items[i].sub] = i]
      /\ runner' = [runner EXCEPT ![r] = [pc |-> "delegate", item |-> 0, seen |-> Enqueued]]
      /\ UNCHANGED <<status, team, request>>
  BY DEF AgentAnswers, MissionInv, AwaitInv
<1>2. TypeOK /\ items[i] \in Item /\ items[i].sub \in SubTasks
  BY <1>1, ItemsDomain DEF MissionInv, Item
<1> DEFINE e == MarkDone(items[i])
<1>3. e \in Item /\ e.status = "done" /\ e.sub = items[i].sub
  BY <1>2, Marks
<1> HIDE DEF e
<1>4. Replaced(i, e)
  BY <1>1, <1>2, <1>3, Replacement DEF e
<1> HIDE DEF i
<1>5. i \in 1 .. Len(items) /\ Len(items) \in Nat
  BY <1>1, <1>2, ItemsDomain
<1>6. /\ runner'[r].pc # "await" /\ \A q \in Runs \ {r} : runner'[q] = runner[q]
      /\ runner' \in [Runs -> RunnerRecord(Len(items'))]
  <2>1. [pc |-> "delegate", item |-> 0, seen |-> Enqueued] \in RunnerRecord(Len(items'))
    BY <1>2, <1>4, <1>5, EnqueuedType DEF RunnerRecord, Pcs, Replaced
  <2>2. runner \in [Runs -> RunnerRecord(Len(items'))]
    BY <1>2, <1>4 DEF TypeOK, RunnerRecord, Pcs, Replaced
  <2> QED BY <1>1, <2>1, <2>2
<1>7. results' \in [SubTasks -> 0 .. Len(items')]
  BY <1>1, <1>2, <1>4, <1>5 DEF TypeOK, Replaced
<1>8. RequestInv' /\ request' \in [Decisions -> RequestRecord(Len(items'))]
  BY <1>1, <1>4, RequestReplaced
<1>9. TypeOK' /\ AttemptsLeft'
  <2>1. TypeOK'
    BY <1>1, <1>2, <1>4, <1>6, <1>7, <1>8, Typed DEF TypeOK, Replaced
  <2> QED BY <2>1, <1>3, <1>4 DEF MissionInv, AttemptsLeft, Replaced
<1>10. AwaitInv'
  BY <1>1, <1>3, <1>4, <1>6, Released DEF i
<1>11. ResultsAreDone'
  <2>1. ASSUME NEW s \in SubTasks, results'[s] # 0
        PROVE  items'[results'[s]].sub = s /\ items'[results'[s]].status = "done"
    <3>1. CASE s = items[i].sub
      BY <3>1, <1>1, <1>2, <1>3, <1>4 DEF TypeOK, Replaced
    <3>2. CASE s # items[i].sub
      <4>1. results'[s] = results[s] /\ results[s] \in DOMAIN items
        BY <3>2, <2>1, <1>1, <1>2, ItemsDomain DEF TypeOK
      <4>2. items[results[s]].sub = s /\ items[results[s]].status = "done"
        BY <4>1, <2>1 DEF MissionInv, ResultsAreDone
      <4>3. results[s] # i
        BY <4>2, <1>1
      <4> QED BY <4>1, <4>2, <4>3, <1>4 DEF Replaced
    <3> QED BY <3>1, <3>2
  <2> QED BY <2>1 DEF ResultsAreDone
<1> QED BY <1>8, <1>9, <1>10, <1>11 DEF MissionInv

LEMMA AgentRaisesStep ==
  ASSUME MissionInv, NEW r \in Runs, AgentRaises(r)
  PROVE  MissionInv'
<1> DEFINE i == runner[r].item
<1>1. /\ runner[r].pc = "await" /\ i \in DOMAIN items /\ items[i].status = "running"
      /\ items' = [items EXCEPT ![i] = MarkFailed(items[i])]
      /\ runner' = [runner EXCEPT ![r].pc = "loop", ![r].item = 0]
      /\ UNCHANGED <<status, results, team, request>>
  BY DEF AgentRaises, MissionInv, AwaitInv
<1>2. TypeOK /\ items[i] \in Item
  BY <1>1, ItemsDomain DEF MissionInv
<1> DEFINE e == MarkFailed(items[i])
<1>3. /\ e \in Item /\ e.status \in {"retrying", "failed"}
      /\ e.status = "retrying" => e.attempts < MaxAttempts
  BY <1>2, Marks
<1> HIDE DEF e
<1>4. Replaced(i, e)
  BY <1>1, <1>2, <1>3, Replacement DEF e
<1> HIDE DEF i
<1>5. /\ runner'[r].pc # "await" /\ \A q \in Runs \ {r} : runner'[q] = runner[q]
      /\ runner' \in [Runs -> RunnerRecord(Len(items'))]
  <2>1. "loop" \in Pcs /\ 0 \in 0 .. Len(items)
    BY <1>2, ItemsDomain DEF Pcs
  <2>2. runner' \in [Runs -> RunnerRecord(Len(items))]
    BY <1>1, <1>2, <2>1, RunnerUpdates
  <2> QED BY <1>1, <1>2, <1>4, <2>2 DEF TypeOK, Replaced
<1>6. results' \in [SubTasks -> 0 .. Len(items')]
  BY <1>1, <1>2, <1>4 DEF TypeOK, Replaced
<1>7. RequestInv' /\ request' \in [Decisions -> RequestRecord(Len(items'))]
  BY <1>1, <1>4, RequestReplaced
<1>8. TypeOK' /\ AttemptsLeft'
  <2>1. TypeOK'
    BY <1>1, <1>2, <1>4, <1>5, <1>6, <1>7, Typed DEF TypeOK, Replaced
  <2> QED BY <2>1, <1>3, <1>4 DEF MissionInv, AttemptsLeft, Replaced
<1>9. AwaitInv'
  BY <1>1, <1>3, <1>4, <1>5, Released DEF i
<1>10. ASSUME NEW s \in SubTasks, results[s] # 0
       PROVE  items'[results[s]].sub = s /\ items'[results[s]].status = "done"
  <2>1. items[results[s]].sub = s /\ items[results[s]].status = "done"
    BY <1>10 DEF MissionInv, ResultsAreDone
  <2>2. results[s] \in DOMAIN items /\ results[s] # i
    BY <2>1, <1>1, <1>2, <1>10, ItemsDomain DEF TypeOK
  <2> QED BY <2>1, <2>2, <1>4 DEF Replaced
<1> QED BY <1>1, <1>7, <1>8, <1>9, <1>10 DEF MissionInv, ResultsAreDone

\* An item that is taken is nobody's; without an agent it fails as if it had run.
LEMMA TakeItemStep ==
  ASSUME MissionInv, NEW r \in Runs, TakeItem(r)
  PROVE  MissionInv'
<1>1. PICK i \in DOMAIN items :
        /\ Runnable(i)
        /\ IF items[i].assigned
           THEN /\ items' = [items EXCEPT ![i] = MarkRunning(items[i])]
                /\ runner' = [runner EXCEPT ![r].pc = "await", ![r].item = i]
           ELSE /\ items' = [items EXCEPT ![i] = MarkFailed(MarkRunning(items[i]))]
                /\ UNCHANGED runner
  BY DEF TakeItem, IsNext
<1>2. runner[r].pc = "loop" /\ UNCHANGED <<status, results, team, request>>
  BY DEF TakeItem
<1>3. /\ TypeOK /\ items[i] \in Item /\ items[i].attempts < MaxAttempts
      /\ items[i].status \in {"pending", "retrying"}
      /\ i \in 1 .. Len(items) /\ Len(items) \in Nat
  BY <1>1, ItemsDomain DEF MissionInv, AttemptsLeft, Runnable
<1> DEFINE e == IF items[i].assigned THEN MarkRunning(items[i])
                                     ELSE MarkFailed(MarkRunning(items[i]))
<1>4. /\ e \in Item /\ e.status \in {"running", "retrying", "failed"}
      /\ e.status = "retrying" => e.attempts < MaxAttempts
      /\ e.status = "running" <=> items[i].assigned
  <2>1. MarkRunning(items[i]) \in Item /\ MarkRunning(items[i]).status = "running"
    BY <1>3, Marks
  <2>2. /\ MarkFailed(MarkRunning(items[i])) \in Item
        /\ MarkFailed(MarkRunning(items[i])).status \in {"retrying", "failed"}
        /\ MarkFailed(MarkRunning(items[i])).status = "retrying" =>
             MarkFailed(MarkRunning(items[i])).attempts < MaxAttempts
    BY <2>1, Marks
  <2> QED BY <2>1, <2>2
<1> HIDE DEF e
<1>5. Replaced(i, e)
  BY <1>1, <1>3, <1>4, Replacement DEF e
<1>6. /\ \A q \in Runs \ {r} : runner'[q] = runner[q]
      /\ runner'[r].pc = IF items[i].assigned THEN "await" ELSE "loop"
      /\ items[i].assigned => runner'[r].item = i
      /\ runner' \in [Runs -> RunnerRecord(Len(items'))]
  <2>1. runner \in [Runs -> RunnerRecord(Len(items))]
    BY <1>3 DEF TypeOK, RunnerRecord, Pcs
  <2>2. "await" \in Pcs /\ i \in 0 .. Len(items)
    BY <1>3 DEF Pcs
  <2>3. runner' \in [Runs -> RunnerRecord(Len(items'))]
    <3>1. [runner EXCEPT ![r].pc = "await", ![r].item = i] \in [Runs -> RunnerRecord(Len(items))]
      BY <1>3, <2>2, RunnerUpdates
    <3> QED BY <1>1, <1>5, <2>1, <3>1 DEF Replaced
  <2> QED BY <1>1, <1>2, <2>1, <2>3 DEF RunnerRecord
<1>7. results' \in [SubTasks -> 0 .. Len(items')]
  BY <1>2, <1>3, <1>5 DEF TypeOK, Replaced
<1>8. RequestInv' /\ request' \in [Decisions -> RequestRecord(Len(items'))]
  BY <1>2, <1>3, <1>5, RequestReplaced
<1>9. TypeOK' /\ AttemptsLeft'
  <2>1. TypeOK'
    BY <1>2, <1>3, <1>5, <1>6, <1>7, <1>8, Typed DEF TypeOK, Replaced
  <2> QED BY <2>1, <1>4, <1>5 DEF MissionInv, AttemptsLeft, Replaced
<1>10. AwaitInv'
  <2>1. ASSUME NEW q \in Runs \ {r}, runner'[q].pc = "await"
        PROVE  /\ runner'[q] = runner[q] /\ runner'[q].item # i
               /\ runner'[q].item \in DOMAIN items'
               /\ items'[runner'[q].item].status = "running"
    <3>1. runner'[q] = runner[q] /\ runner[q].pc = "await"
      BY <2>1, <1>6
    <3>2. runner[q].item \in DOMAIN items /\ items[runner[q].item].status = "running"
      BY <3>1 DEF MissionInv, AwaitInv
    <3>3. runner[q].item # i
      BY <3>2, <1>3
    <3> QED BY <3>1, <3>2, <3>3, <1>5 DEF Replaced
  <2>2. runner'[r].pc = "await" =>
          /\ runner'[r].item = i /\ i \in DOMAIN items' /\ items'[i].status = "running"
    BY <1>4, <1>5, <1>6 DEF Replaced
  <2>3. \A p, q \in Runs : p # q /\ runner'[p].pc = "await" /\ runner'[q].pc = "await" =>
          runner'[p].item # runner'[q].item
    <3> SUFFICES ASSUME NEW p \in Runs, NEW q \in Runs, p # q,
                        runner'[p].pc = "await", runner'[q].pc = "await"
                 PROVE  runner'[p].item # runner'[q].item
      OBVIOUS
    <3>1. CASE p = r
      BY <3>1, <2>1, <2>2
    <3>2. CASE q = r
      BY <3>2, <2>1, <2>2
    <3>3. CASE p # r /\ q # r
      BY <3>3, <2>1 DEF MissionInv, AwaitInv
    <3> QED BY <3>1, <3>2, <3>3
  <2>4. ASSUME NEW j \in DOMAIN items', items'[j].status = "running"
        PROVE  \E q \in Runs : runner'[q].pc = "await" /\ runner'[q].item = j
    <3>1. CASE j = i
      <4>1. items[i].assigned
        BY <3>1, <2>4, <1>4, <1>5 DEF Replaced
      <4> QED BY <3>1, <4>1, <1>6
    <3>2. CASE j # i
      <4>1. j \in DOMAIN items /\ items[j].status = "running"
        BY <3>2, <2>4, <1>5 DEF Replaced
      <4>2. PICK q \in Runs : runner[q].pc = "await" /\ runner[q].item = j
        BY <4>1 DEF MissionInv, AwaitInv, Awaits
      <4>3. q # r
        BY <4>2, <1>2
      <4> QED BY <4>2, <4>3, <1>6
    <3> QED BY <3>1, <3>2
  <2>5. \A q \in Runs : runner'[q].pc = "await" =>
          runner'[q].item \in DOMAIN items' /\ items'[runner'[q].item].status = "running"
    BY <2>1, <2>2
  <2> QED BY <2>3, <2>4, <2>5 DEF AwaitInv, Awaits
<1>11. ASSUME NEW s \in SubTasks, results[s] # 0
       PROVE  items'[results[s]].sub = s /\ items'[results[s]].status = "done"
  <2>1. items[results[s]].sub = s /\ items[results[s]].status = "done"
    BY <1>11 DEF MissionInv, ResultsAreDone
  <2>2. results[s] \in DOMAIN items /\ results[s] # i
    BY <2>1, <1>3, <1>11, ItemsDomain DEF TypeOK
  <2> QED BY <2>1, <2>2, <1>5 DEF Replaced
<1> QED BY <1>2, <1>8, <1>9, <1>10, <1>11 DEF MissionInv, ResultsAreDone

-----------------------------------------------------------------------------
(* The steps that leave the items alone                                    *)

\* A call of run_mission that awaits nothing goes on to await nothing.
LEMMA RunStep ==
  ASSUME MissionInv, NEW r \in Runs, NEW p \in Pcs \ {"await"}, runner[r].pc # "await",
         runner' = [runner EXCEPT ![r].pc = p],
         status' \in {"none", "created", "running", "completed", "failed"},
         UNCHANGED <<items, results, team, request>>
  PROVE  MissionInv'
<1>1. TypeOK /\ 0 \in 0 .. Len(items)
  BY ItemsDomain DEF MissionInv
<1>2. runner' \in [Runs -> RunnerRecord(Len(items))]
  BY <1>1, RunnerUpdates
<1>3. TypeOK'
  BY <1>1, <1>2, Typed DEF TypeOK, RequestRecord
<1>4. /\ runner'[r].pc # "await" /\ \A q \in Runs \ {r} : runner'[q] = runner[q]
  BY <1>1 DEF TypeOK
<1>5. \A q \in Runs : runner[q].pc = "await" \/ runner'[q].pc = "await" =>
        q # r /\ runner'[q] = runner[q]
  BY <1>4
<1>6. AwaitInv'
  <2>1. \A q \in Runs : runner'[q].pc = "await" =>
          runner'[q].item \in DOMAIN items' /\ items'[runner'[q].item].status = "running"
    BY <1>5 DEF MissionInv, AwaitInv
  <2>2. \A a, b \in Runs : a # b /\ runner'[a].pc = "await" /\ runner'[b].pc = "await" =>
          runner'[a].item # runner'[b].item
    BY <1>5 DEF MissionInv, AwaitInv
  <2>3. \A i \in DOMAIN items' : items'[i].status = "running" =>
          \E q \in Runs : runner'[q].pc = "await" /\ runner'[q].item = i
    BY <1>5 DEF MissionInv, AwaitInv, Awaits
  <2> QED BY <2>1, <2>2, <2>3 DEF AwaitInv, Awaits
<1>7. AttemptsLeft' /\ RequestInv' /\ ResultsAreDone'
  BY DEF MissionInv, AttemptsLeft, RequestInv, ResultsAreDone
<1> QED BY <1>3, <1>6, <1>7 DEF MissionInv

LEMMA StartRunStep ==
  ASSUME MissionInv, NEW r \in Runs, StartRun(r)
  PROVE  MissionInv'
<1>1. "loop" \in Pcs \ {"await"} /\ runner[r].pc # "await"
  BY DEF Pcs, StartRun
<1> QED BY <1>1, RunStep DEF StartRun

LEMMA CountResultsStep ==
  ASSUME MissionInv, NEW r \in Runs, CountResults(r)
  PROVE  MissionInv'
<1> DEFINE p == IF \A s \in SubTasks : results[s] # 0 THEN "complete" ELSE "fail"
<1>1. p \in Pcs \ {"await"} /\ runner[r].pc # "await"
  BY DEF Pcs, CountResults
<1>2. status' = status /\ status \in {"none", "created", "running", "completed", "failed"}
  BY DEF MissionInv, TypeOK, CountResults
<1>3. runner' = [runner EXCEPT ![r].pc = p]
  BY DEF CountResults
<1> HIDE DEF p
<1> QED BY <1>1, <1>2, <1>3, RunStep DEF CountResults

LEMMA CloseMissionStep ==
  ASSUME MissionInv, NEW r \in Runs, CloseMission(r)
  PROVE  MissionInv'
<1>1. "over" \in Pcs \ {"await"} /\ runner[r].pc # "await"
  BY DEF Pcs, CloseMission
<1> QED BY <1>1, RunStep DEF CloseMission

\* Of a mission whose items and runs are left alone, only what is erased or asked
\* for may change.
LEMMA DecisionKeeps ==
  ASSUME MissionInv, UNCHANGED <<items, runner>>,
         status' \in {"none", "created", "running", "completed", "failed"},
         team' \subseteq SubTasks,
         request' \in [Decisions -> RequestRecord(Len(items))], RequestInv',
         results' \in [SubTasks -> 0 .. Len(items)],
         \A s \in SubTasks : results'[s] \in {0, results[s]}
  PROVE  MissionInv'
<1>1. TypeOK'
  BY DEF MissionInv, TypeOK, RequestRecord
<1>2. AttemptsLeft' /\ AwaitInv'
  BY DEF MissionInv, AttemptsLeft, AwaitInv, Awaits
<1>3. ResultsAreDone'
  BY DEF MissionInv, ResultsAreDone
<1> QED BY <1>1, <1>2, <1>3 DEF MissionInv

LEMMA ChangeTeamStep ==
  ASSUME MissionInv, ChangeTeam
  PROVE  MissionInv'
BY DecisionKeeps DEF ChangeTeam, MissionInv, TypeOK, RequestInv, RequestRecord

\* A decision whose next step is not to list an item.
LEMMA RequestMoves ==
  ASSUME MissionInv, NEW d \in Decisions, UNCHANGED items,
         request' \in [Decisions -> RequestRecord(Len(items))],
         \A e \in Decisions \ {d} : request'[e] = request[e],
         request'[d].pc # "list",
         request'[d].pc = "create" =>
           request'[d].todo # <<>> /\ Head(request'[d].todo) \in SubTasks
  PROVE  RequestInv'
BY DEF MissionInv, RequestInv

LEMMA AskAgainStep ==
  ASSUME MissionInv, NEW d \in Decisions, AskAgain(d)
  PROVE  MissionInv'
<1>1. PICK todo \in Requests :
        request' = [request EXCEPT ![d] = [pc |-> "erase", todo |-> todo, item |-> 0]]
  BY DEF AskAgain
<1>2. todo \in Seq(SubTasks \cup {0})
  BY ConstantsAssumption
<1>3. Len(items) \in Nat /\ 0 \in 0 .. Len(items)
      /\ request \in [Decisions -> RequestRecord(Len(items))]
  BY ItemsDomain DEF MissionInv, TypeOK, RequestRecord
<1>4. request' \in [Decisions -> RequestRecord(Len(items))]
  BY <1>1, <1>2, <1>3, RequestUpdates
<1>5. request'[d].pc = "erase" /\ \A e \in Decisions \ {d} : request'[e] = request[e]
  BY <1>1, <1>3
<1>6. RequestInv'
  BY <1>4, <1>5, RequestMoves DEF AskAgain
<1> QED BY <1>4, <1>6, DecisionKeeps DEF AskAgain, MissionInv, TypeOK

LEMMA EraseResultStep ==
  ASSUME MissionInv, NEW d \in Decisions, EraseResult(d)
  PROVE  MissionInv'
<1> DEFINE s == Head(request[d].todo)
           t == Tail(request[d].todo)
<1>1. /\ request[d].pc = "erase" /\ request[d].todo # <<>>
      /\ UNCHANGED <<status, items, team, runner>>
  BY DEF EraseResult
<1>2. /\ Len(items) \in Nat /\ 0 \in 0 .. Len(items)
      /\ request \in [Decisions -> RequestRecord(Len(items))]
      /\ results \in [SubTasks -> 0 .. Len(items)]
  BY ItemsDomain DEF MissionInv, TypeOK, RequestRecord
<1>3. t \in Seq(SubTasks \cup {0})
  BY <1>1, <1>2, HeadTailProperties DEF RequestRecord
<1>4. CASE s \in SubTasks
  <2>1. /\ results' = [results EXCEPT ![s] = 0]
        /\ request' = [request EXCEPT ![d].pc = "create"]
    BY <1>4 DEF EraseResult
  <2>2. request' \in [Decisions -> RequestRecord(Len(items))]
    BY <1>2, <1>3, <2>1, RequestUpdates
  <2>3. /\ request'[d].pc = "create" /\ request'[d].todo = request[d].todo
        /\ \A e \in Decisions \ {d} : request'[e] = request[e]
    BY <1>2, <2>1 DEF RequestRecord
  <2>4. RequestInv'
    BY <1>1, <1>4, <2>2, <2>3, RequestMoves
  <2> QED BY <1>1, <1>2, <2>1, <2>2, <2>4, DecisionKeeps DEF MissionInv, TypeOK
<1>5. CASE s \notin SubTasks
  <2>1. results' = results /\ request' = [request EXCEPT ![d].todo = t]
    BY <1>5 DEF EraseResult
  <2>2. request' \in [Decisions -> RequestRecord(Len(items))]
    BY <1>2, <1>3, <2>1, RequestUpdates
  <2>3. request'[d].pc = "erase" /\ \A e \in Decisions \ {d} : request'[e] = request[e]
    BY <1>1, <1>2, <2>1 DEF RequestRecord
  <2>4. RequestInv'
    BY <1>1, <2>2, <2>3, RequestMoves
  <2> QED BY <1>1, <1>2, <2>1, <2>2, <2>4, DecisionKeeps DEF MissionInv, TypeOK
<1> QED BY <1>4, <1>5

LEMMA ReopenStep ==
  ASSUME MissionInv, NEW d \in Decisions, Reopen(d)
  PROVE  MissionInv'
<1>1. Len(items) \in Nat /\ 0 \in 0 .. Len(items)
      /\ request \in [Decisions -> RequestRecord(Len(items))]
  BY ItemsDomain DEF MissionInv, TypeOK, RequestRecord
<1>2. request' = [request EXCEPT ![d].pc = "over"]
  BY DEF Reopen
<1>3. request' \in [Decisions -> RequestRecord(Len(items))]
  BY <1>1, <1>2, EmptySeq, RequestUpdates
<1>4. request'[d].pc = "over" /\ \A e \in Decisions \ {d} : request'[e] = request[e]
  BY <1>1, <1>2 DEF RequestRecord
<1>5. RequestInv'
  BY <1>3, <1>4, RequestMoves DEF Reopen
<1> QED BY <1>3, <1>5, DecisionKeeps DEF Reopen, MissionInv, TypeOK

LEMMA MissionStep == MissionInv /\ [Next]_vars => MissionInv'
<1> SUFFICES ASSUME MissionInv, [Next]_vars PROVE MissionInv'
  OBVIOUS
<1>1. CASE Launch
  BY <1>1, LaunchStep
<1>2. ASSUME NEW r \in Runs, StartRun(r) \/ CoordinatorStep(r) \/ AgentStep(r)
      PROVE  MissionInv'
  BY <1>2, StartRunStep, TakeItemStep, DelegateStep, CountResultsStep, CloseMissionStep,
     AgentAnswersStep, AgentRaisesStep DEF CoordinatorStep, AgentStep
<1>3. CASE ChangeTeam
  BY <1>3, ChangeTeamStep
<1>4. ASSUME NEW d \in Decisions, AskAgain(d) \/ DecisionStep(d)
      PROVE  MissionInv'
  BY <1>4, AskAgainStep, EraseResultStep, CreateItemStep, ListItemStep, ReopenStep
     DEF DecisionStep
<1>5. CASE UNCHANGED vars
  BY <1>5 DEF vars, MissionInv, TypeOK, AttemptsLeft, RequestInv, AwaitInv, Awaits,
              ResultsAreDone
<1> QED BY <1>1, <1>2, <1>3, <1>4, <1>5 DEF Next

LEMMA MissionInvariant == Spec => []MissionInv
BY MissionInit, MissionStep, PTL DEF Spec

-----------------------------------------------------------------------------
(* What is replaced                                                        *)

\* An item that has not settled is replaced by one of the same sub-task and priority.
Replaces(P) ==
  \E i \in DOMAIN items : \E e \in Item :
    /\ Replaced(i, e) /\ e.sub = items[i].sub /\ e.status \in P
    /\ e.priority = items[i].priority
    /\ items[i].status \in {"unlisted", "pending", "retrying", "running"}

LEMMA TakeItemReplaces ==
  ASSUME MissionInv, NEW r \in Runs, TakeItem(r)
  PROVE  Replaces({"running", "retrying", "failed"})
<1>1. PICK i \in DOMAIN items :
        /\ Runnable(i)
        /\ \/ items' = [items EXCEPT ![i] = MarkRunning(items[i])]
           \/ items' = [items EXCEPT ![i] = MarkFailed(MarkRunning(items[i]))]
  BY DEF TakeItem, IsNext
<1>2. /\ TypeOK /\ items[i] \in Item /\ items[i].attempts < MaxAttempts
      /\ items[i].status \in {"pending", "retrying"}
  BY <1>1, ItemsDomain DEF MissionInv, AttemptsLeft, Runnable
<1>3. /\ MarkRunning(items[i]) \in Item /\ MarkRunning(items[i]).status = "running"
      /\ MarkRunning(items[i]).sub = items[i].sub
      /\ MarkRunning(items[i]).priority = items[i].priority
  BY <1>2, Marks
<1>4. /\ MarkFailed(MarkRunning(items[i])) \in Item
      /\ MarkFailed(MarkRunning(items[i])).status \in {"retrying", "failed"}
      /\ MarkFailed(MarkRunning(items[i])).sub = items[i].sub
      /\ MarkFailed(MarkRunning(items[i])).priority = items[i].priority
  BY <1>3, Marks
<1>5. PICK e \in {MarkRunning(items[i]), MarkFailed(MarkRunning(items[i]))} :
        items' = [items EXCEPT ![i] = e]
  BY <1>1
<1>6. /\ e \in Item /\ e.sub = items[i].sub /\ e.status \in {"running", "retrying", "failed"}
      /\ e.priority = items[i].priority
  BY <1>3, <1>4
<1>7. Replaced(i, e)
  BY <1>2, <1>5, <1>6, Replacement
<1> QED BY <1>2, <1>6, <1>7 DEF Replaces

LEMMA ListItemReplaces ==
  ASSUME MissionInv, NEW d \in Decisions, ListItem(d)
  PROVE  Replaces({"pending"})
<1>1. PICK e \in Item :
        /\ Replaced(request[d].item, e) /\ e.status = "pending"
        /\ e.sub = items[request[d].item].sub /\ request[d].item \in DOMAIN items
        /\ e.priority = items[request[d].item].priority
        /\ items[request[d].item].status = "unlisted"
  BY ListItemReplaced
<1> QED BY <1>1 DEF Replaces

LEMMA AgentRaisesReplaces ==
  ASSUME MissionInv, NEW r \in Runs, AgentRaises(r)
  PROVE  Replaces({"retrying", "failed"})
<1>1. PICK i \in DOMAIN items :
        items[i].status = "running" /\ items' = [items EXCEPT ![i] = MarkFailed(items[i])]
  BY DEF AgentRaises, MissionInv, AwaitInv
<1>2. TypeOK /\ items[i] \in Item
  BY ItemsDomain DEF MissionInv
<1>3. PICK e \in Item :
        /\ items' = [items EXCEPT ![i] = e]
        /\ e.sub = items[i].sub /\ e.status \in {"retrying", "failed"}
        /\ e.priority = items[i].priority
  BY <1>1, <1>2, Marks
<1>4. Replaced(i, e)
  BY <1>2, <1>3, Replacement
<1> QED BY <1>1, <1>3, <1>4 DEF Replaces

LEMMA AgentAnswersReplaces ==
  ASSUME MissionInv, NEW r \in Runs, AgentAnswers(r)
  PROVE  /\ Replaces({"done"}) /\ UNCHANGED request
         /\ \E i \in DOMAIN items :
              /\ items[i].status = "running" /\ items'[i].sub = items[i].sub
              /\ \A j \in DOMAIN items \ {i} : items'[j] = items[j]
              /\ DOMAIN items' = DOMAIN items /\ i # 0
              /\ results' = [results EXCEPT ![items[i].sub] = i]
<1>1. PICK i \in DOMAIN items :
        /\ items[i].status = "running" /\ items' = [items EXCEPT ![i] = MarkDone(items[i])]
        /\ results' = [results EXCEPT ![items[i].sub] = i]
  BY DEF AgentAnswers, MissionInv, AwaitInv
<1>2. TypeOK /\ items[i] \in Item /\ i # 0
  BY ItemsDomain DEF MissionInv
<1>3. PICK e \in Item :
        /\ items' = [items EXCEPT ![i] = e] /\ e.sub = items[i].sub /\ e.status = "done"
        /\ e.priority = items[i].priority
  BY <1>1, <1>2, Marks
<1>4. Replaced(i, e)
  BY <1>2, <1>3, Replacement
<1>5. Replaces({"done"})
  BY <1>1, <1>3, <1>4 DEF Replaces
<1> QED BY <1>1, <1>2, <1>3, <1>4, <1>5 DEF Replaced, AgentAnswers

-----------------------------------------------------------------------------
(* The theorems                                                            *)

\* Every variable keeps its type: the attempts of an item never pass the limit, and
\* results and runs name items of the mission.
THEOREM TypeCorrect == Spec => []TypeOK
BY MissionInvariant, PTL DEF MissionInv

\* An item runs exactly while one run, and only one, awaits its agent: overlapping
\* calls of run_mission never hand the same item to two agents at once.
THEOREM OneRunPerItem == Spec => []RunningIsAwaited
<1>1. MissionInv => RunningIsAwaited
  <2> SUFFICES ASSUME MissionInv, NEW i \in DOMAIN items
               PROVE  Cardinality({r \in Runs : Awaits(r, i)}) =
                        IF items[i].status = "running" THEN 1 ELSE 0
    BY DEF RunningIsAwaited, Awaits
  <2>1. CASE items[i].status = "running"
    <3>1. PICK r \in Runs : Awaits(r, i)
      BY <2>1 DEF MissionInv, AwaitInv
    <3>2. {q \in Runs : Awaits(q, i)} = {r}
      BY <3>1 DEF MissionInv, AwaitInv, Awaits
    <3> QED BY <2>1, <3>2, FS_Singleton
  <2>2. CASE items[i].status # "running"
    <3>1. {q \in Runs : Awaits(q, i)} = {}
      BY <2>2 DEF MissionInv, AwaitInv, Awaits
    <3> QED BY <2>2, <3>1, FS_EmptySet
  <2> QED BY <2>1, <2>2
<1> QED BY <1>1, MissionInvariant, PTL

\* What EnqueueReady and CreateItem add, and what the runs and the decisions replace,
\* is never an item that is done or has failed for good.
THEOREM SettledItemsStay == Spec => ItemsSettleOnce
<1> DEFINE Settled(i) == items[i].status \in {"done", "failed"}
<1>1. ASSUME MissionInv, [Next]_vars
      PROVE  [\A i \in DOMAIN items : Settled(i) => items'[i] = items[i]]_vars
  <2>1. ASSUME Extended PROVE \A i \in DOMAIN items : items'[i] = items[i]
    BY <2>1 DEF Extended
  <2>2. ASSUME NEW P, Replaces(P)
        PROVE  \A i \in DOMAIN items : Settled(i) => items'[i] = items[i]
    BY <2>2 DEF Replaces, Replaced
  <2>3. CASE Launch
    BY <2>1, <2>3, <1>1, EnqueueReadyExtends DEF MissionInv, Launch
  <2>4. ASSUME NEW r \in Runs, StartRun(r) \/ CoordinatorStep(r) \/ AgentStep(r)
        PROVE  \A i \in DOMAIN items : Settled(i) => items'[i] = items[i]
    <3>1. CASE Delegate(r)
      BY <2>1, <3>1, <1>1, EnqueueReadyExtends DEF MissionInv, Delegate
    <3>2. CASE TakeItem(r)
      BY <2>2, <3>2, <1>1, TakeItemReplaces
    <3>3. CASE AgentAnswers(r)
      BY <2>2, <3>3, <1>1, AgentAnswersReplaces
    <3>4. CASE AgentRaises(r)
      BY <2>2, <3>4, <1>1, AgentRaisesReplaces
    <3>5. CASE StartRun(r) \/ CountResults(r) \/ CloseMission(r)
      BY <3>5 DEF StartRun, CountResults, CloseMission
    <3> QED BY <2>4, <3>1, <3>2, <3>3, <3>4, <3>5 DEF CoordinatorStep, AgentStep
  <2>5. ASSUME NEW d \in Decisions, AskAgain(d) \/ DecisionStep(d)
        PROVE  \A i \in DOMAIN items : Settled(i) => items'[i] = items[i]
    <3>1. CASE CreateItem(d)
      BY <2>1, <3>1, <1>1, CreateItemExtends DEF MissionInv
    <3>2. CASE ListItem(d)
      BY <2>2, <3>2, <1>1, ListItemReplaces
    <3>3. CASE AskAgain(d) \/ EraseResult(d) \/ Reopen(d)
      BY <3>3 DEF AskAgain, EraseResult, Reopen
    <3> QED BY <2>5, <3>1, <3>2, <3>3 DEF DecisionStep
  <2>6. CASE ChangeTeam
    BY <2>6 DEF ChangeTeam
  <2>7. CASE UNCHANGED vars
    BY <2>7
  <2> QED BY <1>1, <2>3, <2>4, <2>5, <2>6, <2>7 DEF Next
<1> QED BY <1>1, MissionInvariant, PTL DEF Spec, ItemsSettleOnce

-----------------------------------------------------------------------------
(* The plan is followed                                                    *)

DoneBefore(s) == \E j \in DOMAIN items : items[j].sub = s /\ items[j].status = "done"
Planned(i) == items[i].priority # 0 => \A s \in DependsOn(items[i].sub) : DoneBefore(s)

\* What the plan has enqueued came after an item of each dependency was done, and that
\* item stays, whatever becomes of the result.
PlanInv == \A i \in DOMAIN items : Planned(i)

\* EnqueueReady enqueues what has the results it depends on.
LEMMA EnqueueReadyFollows ==
  ASSUME TypeOK, NEW seen, EnqueueReady(seen)
  PROVE  \A i \in DOMAIN items' \ DOMAIN items :
           items'[i].sub \in SubTasks /\ \A s \in DependsOn(items'[i].sub) : results[s] # 0
<1> DEFINE ready == {s \in SubTasks \ seen : \A d \in DependsOn(s) : results[d] # 0}
<1>1. PICK order \in [1 .. Cardinality(ready) -> ready] :
        items' = items \o [i \in DOMAIN order |-> NewItem(order[i], N - order[i] + 1)]
  BY DEF EnqueueReady
<1> DEFINE n == Cardinality(ready)
           new == [i \in 1 .. n |-> NewItem(order[i], N - order[i] + 1)]
<1>2. n \in Nat
  <2>1. IsFiniteSet(SubTasks)
    BY FS_Interval, ConstantsAssumption DEF SubTasks
  <2> QED BY <2>1, FS_Subset, FS_CardinalityType
<1>3. \A i \in 1 .. n : /\ order[i] \in ready /\ order[i] \in SubTasks
                        /\ NewItem(order[i], N - order[i] + 1) \in Item
                        /\ NewItem(order[i], N - order[i] + 1).sub = order[i]
  <2> SUFFICES ASSUME NEW i \in 1 .. n
               PROVE  /\ order[i] \in ready /\ order[i] \in SubTasks
                      /\ NewItem(order[i], N - order[i] + 1) \in Item
                      /\ NewItem(order[i], N - order[i] + 1).sub = order[i]
    OBVIOUS
  <2>1. order[i] \in ready /\ order[i] \in SubTasks
    BY <1>1
  <2>2. N - order[i] + 1 \in 0 .. N
    BY <2>1, ConstantsAssumption DEF SubTasks
  <2> QED BY <2>1, <2>2, NewItemType
<1>4. items' = items \o new
  BY <1>1
<1>5. \A i \in 1 .. n : new[i].sub \in ready /\ new[i].sub \in SubTasks
  BY <1>3
<1>6. new \in [1 .. n -> Item]
  BY <1>3
<1> HIDE DEF new, n
<1>7. new \in Seq(Item) /\ Len(new) = n
  BY <1>2, <1>6
<1>8. items \in Seq(Item) /\ Len(items) \in Nat
  BY LenProperties DEF TypeOK
<1>9. /\ items' \in Seq(Item) /\ Len(items') = Len(items) + n
      /\ \A i \in 1 .. Len(items) + n :
           items'[i] = IF i <= Len(items) THEN items[i] ELSE new[i - Len(items)]
  BY <1>4, <1>7, <1>8, ConcatProperties
<1>10. DOMAIN items = 1 .. Len(items) /\ DOMAIN items' = 1 .. Len(items) + n
  BY <1>8, <1>9, LenProperties
<1>11. ASSUME NEW i \in DOMAIN items' \ DOMAIN items
       PROVE  items'[i].sub \in ready /\ items'[i].sub \in SubTasks
  <2>1. i - Len(items) \in 1 .. n /\ items'[i] = new[i - Len(items)]
    BY <1>2, <1>8, <1>9, <1>10
  <2> QED BY <1>5, <2>1
<1> QED BY <1>11

\* Who extends the items leaves those that were done, and plans what it adds.
LEMMA ExtendedPlan ==
  ASSUME Extended, PlanInv, \A i \in DOMAIN items' \ DOMAIN items : Planned(i)'
  PROVE  PlanInv'
<1>1. \A s : DoneBefore(s) => DoneBefore(s)'
  BY DEF Extended, DoneBefore
<1>2. ASSUME NEW i \in DOMAIN items PROVE Planned(i)'
  BY <1>1 DEF Extended, PlanInv, Planned
<1> QED BY <1>2 DEF PlanInv

LEMMA EnqueueReadyPlan ==
  ASSUME MissionInv, PlanInv, NEW seen, EnqueueReady(seen)
  PROVE  PlanInv'
<1>1. Extended
  BY EnqueueReadyExtends DEF MissionInv
<1>2. ASSUME NEW i \in DOMAIN items' \ DOMAIN items, NEW s \in DependsOn(items'[i].sub)
      PROVE  DoneBefore(s)'
  <2>1. items'[i].sub \in SubTasks /\ results[s] # 0
    BY <1>2, EnqueueReadyFollows DEF MissionInv
  <2>2. s \in SubTasks
    BY <1>2, <2>1, ConstantsAssumption DEF DependsOn, SubTasks
  <2>3. results[s] \in DOMAIN items
    <3>1. results[s] \in 0 .. Len(items)
      BY <2>2 DEF MissionInv, TypeOK
    <3> QED BY <2>1, <3>1, ItemsDomain DEF MissionInv
  <2>4. DoneBefore(s)
    BY <2>1, <2>2, <2>3 DEF MissionInv, ResultsAreDone, DoneBefore
  <2> QED BY <1>1, <2>4 DEF Extended, DoneBefore
<1> QED BY <1>1, <1>2, ExtendedPlan DEF Planned

\* What a decision asks for again is not the plan's.
LEMMA CreateItemPlan ==
  ASSUME MissionInv, PlanInv, NEW d \in Decisions, CreateItem(d)
  PROVE  PlanInv'
<1>1. /\ Extended /\ Len(items') = Len(items) + 1
  BY CreateItemExtends DEF MissionInv
<1>2. items'[Len(items) + 1].priority = 0
  BY AppendProperties DEF CreateItem, NewItem, MissionInv, TypeOK
<1>3. \A i \in DOMAIN items' \ DOMAIN items : i = Len(items) + 1
  BY <1>1, ItemsDomain, LenProperties DEF MissionInv, Extended
<1> QED BY <1>1, <1>2, <1>3, ExtendedPlan DEF Planned

\* What is replaced was not done, and keeps its place in the plan.
LEMMA ReplacesPlan ==
  ASSUME PlanInv, NEW P, Replaces(P)
  PROVE  PlanInv'
<1>1. PICK i \in DOMAIN items, e \in Item :
        /\ Replaced(i, e) /\ e.sub = items[i].sub /\ e.priority = items[i].priority
        /\ items[i].status \in {"unlisted", "pending", "retrying", "running"}
  BY DEF Replaces
<1>2. \A s : DoneBefore(s) => DoneBefore(s)'
  BY <1>1 DEF Replaced, DoneBefore
<1>3. \A j \in DOMAIN items : /\ items'[j].sub = items[j].sub
                              /\ items'[j].priority = items[j].priority
  BY <1>1 DEF Replaced
<1>4. DOMAIN items' = DOMAIN items
  BY <1>1 DEF Replaced
<1>5. ASSUME NEW j \in DOMAIN items PROVE Planned(j)'
  BY <1>2, <1>3 DEF PlanInv, Planned
<1> QED BY <1>4, <1>5 DEF PlanInv

LEMMA PlanStep == MissionInv /\ PlanInv /\ [Next]_vars => PlanInv'
<1> SUFFICES ASSUME MissionInv, PlanInv, [Next]_vars PROVE PlanInv'
  OBVIOUS
<1>1. ASSUME items' = items PROVE PlanInv'
  BY <1>1 DEF PlanInv, Planned, DoneBefore
<1>2. CASE Launch
  BY <1>2, EnqueueReadyPlan DEF Launch
<1>3. ASSUME NEW r \in Runs, StartRun(r) \/ CoordinatorStep(r) \/ AgentStep(r)
      PROVE  PlanInv'
  <2>1. CASE Delegate(r)
    BY <2>1, EnqueueReadyPlan DEF Delegate
  <2>2. CASE TakeItem(r)
    BY <2>2, TakeItemReplaces, ReplacesPlan
  <2>3. CASE AgentAnswers(r)
    BY <2>3, AgentAnswersReplaces, ReplacesPlan
  <2>4. CASE AgentRaises(r)
    BY <2>4, AgentRaisesReplaces, ReplacesPlan
  <2>5. CASE StartRun(r) \/ CountResults(r) \/ CloseMission(r)
    BY <1>1, <2>5 DEF StartRun, CountResults, CloseMission
  <2> QED BY <1>3, <2>1, <2>2, <2>3, <2>4, <2>5 DEF CoordinatorStep, AgentStep
<1>4. ASSUME NEW d \in Decisions, AskAgain(d) \/ DecisionStep(d)
      PROVE  PlanInv'
  <2>1. CASE CreateItem(d)
    BY <2>1, CreateItemPlan
  <2>2. CASE ListItem(d)
    BY <2>2, ListItemReplaces, ReplacesPlan
  <2>3. CASE AskAgain(d) \/ EraseResult(d) \/ Reopen(d)
    BY <1>1, <2>3 DEF AskAgain, EraseResult, Reopen
  <2> QED BY <1>4, <2>1, <2>2, <2>3 DEF DecisionStep
<1>5. CASE ChangeTeam \/ UNCHANGED vars
  BY <1>1, <1>5 DEF ChangeTeam, vars
<1> QED BY <1>2, <1>3, <1>4, <1>5 DEF Next

\* However many runs and decisions overlap, an item that the plan enqueued starts after
\* an item of everything it depends on was done.
THEOREM PlanOrder == Spec => PlanIsFollowed
<1>1. Init => PlanInv
  <2>1. Init => DOMAIN items = {}
    BY EmptySeq DEF Init
  <2> QED BY <2>1 DEF PlanInv
<1>2. PlanInv =>
        [\A i \in DOMAIN items :
           items[i].priority # 0 /\ items[i].status # "running" /\ items'[i].status = "running" =>
             \A s \in DependsOn(items[i].sub) :
               \E j \in DOMAIN items : items[j].sub = s /\ items[j].status = "done"]_vars
  BY DEF PlanInv, Planned, DoneBefore
<1> QED BY <1>1, <1>2, PlanStep, MissionInvariant, PTL DEF Spec, PlanIsFollowed

-----------------------------------------------------------------------------
(* Nothing is forgotten                                                    *)

Open == {"pending", "running", "retrying", "failed"}

\* The sub-task has an open item, or is the one that a decision is about to enqueue.
HasOpen(s) == \E i \in DOMAIN items : items[i].sub = s /\ items[i].status \in Open
About(d, s) == request[d].pc \in {"create", "list"} /\ Head(request[d].todo) = s

Kept(s) == results[s] # 0 \/ HasOpen(s) \/ \E d \in Decisions : About(d, s)

Remembered == \A s \in Enqueued : Kept(s)

\* What is enqueued is pending.
LEMMA ExtendedKeeps ==
  ASSUME Extended, results' = results, Remembered, NEW s \in Enqueued',
         \A d \in Decisions : About(d, s) => About(d, s)'
  PROVE  Kept(s)'
<1>1. PICK j \in DOMAIN items' : items'[j].sub = s /\ items'[j].status # "unlisted"
  BY DEF Enqueued
<1>2. CASE j \notin DOMAIN items
  BY <1>1, <1>2 DEF Extended, Kept, HasOpen, Open
<1>3. CASE j \in DOMAIN items
  <2>1. Kept(s)
    BY <1>1, <1>3 DEF Remembered, Extended, Enqueued
  <2>2. HasOpen(s) => HasOpen(s)'
    BY DEF Extended, HasOpen
  <2> QED BY <2>1, <2>2 DEF Kept
<1> QED BY <1>2, <1>3

\* An item that was to be done, or is to be listed, is still to be done.
LEMMA ReplacedKeeps ==
  ASSUME Replaces(Open), results' = results, Remembered, NEW s \in Enqueued',
         \A d \in Decisions : About(d, s) => About(d, s)' \/ HasOpen(s)'
  PROVE  Kept(s)'
<1>1. PICK i \in DOMAIN items, e \in Item :
        Replaced(i, e) /\ e.sub = items[i].sub /\ e.status \in Open
  BY DEF Replaces
<1>2. PICK j \in DOMAIN items : items'[j].sub = s /\ items'[j].status # "unlisted"
  BY <1>1 DEF Enqueued, Replaced
<1>3. CASE j = i
  BY <1>1, <1>2, <1>3 DEF Kept, HasOpen, Replaced
<1>4. CASE j # i
  <2>1. Kept(s)
    BY <1>1, <1>2, <1>4 DEF Remembered, Enqueued, Replaced
  <2>2. HasOpen(s) => HasOpen(s)'
    BY <1>1 DEF HasOpen, Replaced
  <2> QED BY <2>1, <2>2 DEF Kept
<1> QED BY <1>3, <1>4

LEMMA AnswerKeeps ==
  ASSUME MissionInv, Remembered, NEW r \in Runs, AgentAnswers(r), NEW s \in Enqueued'
  PROVE  Kept(s)'
<1>1. PICK i \in DOMAIN items :
        /\ items[i].status = "running" /\ items'[i].sub = items[i].sub
        /\ \A j \in DOMAIN items \ {i} : items'[j] = items[j]
        /\ DOMAIN items' = DOMAIN items /\ i # 0
        /\ results' = [results EXCEPT ![items[i].sub] = i]
  BY AgentAnswersReplaces
<1>2. UNCHANGED request
  BY DEF AgentAnswers
<1>3. s \in Enqueued /\ s \in SubTasks /\ results \in [SubTasks -> 0 .. Len(items)]
  BY <1>1, EnqueuedType DEF Enqueued, MissionInv, TypeOK
<1>4. CASE s = items[i].sub
  BY <1>1, <1>3, <1>4 DEF Kept
<1>5. CASE s # items[i].sub
  <2>1. Kept(s) /\ results'[s] = results[s]
    BY <1>1, <1>3, <1>5 DEF Remembered
  <2>2. HasOpen(s) => HasOpen(s)'
    BY <1>1, <1>5 DEF HasOpen
  <2> QED BY <1>2, <2>1, <2>2 DEF Kept, About
<1> QED BY <1>4, <1>5

\* A result is erased only by a thread that goes on to enqueue the sub-task.
LEMMA EraseKeeps ==
  ASSUME MissionInv, Remembered, NEW d \in Decisions, EraseResult(d), NEW s \in Enqueued'
  PROVE  Kept(s)'
<1>1. items' = items /\ request[d].pc = "erase" /\ s \in Enqueued /\ Kept(s)
  BY DEF Remembered, EraseResult, Enqueued
<1>2. /\ results \in [SubTasks -> 0 .. Len(items)] /\ s \in SubTasks
      /\ request \in [Decisions -> RequestRecord(Len(items))]
  BY <1>1, EnqueuedType DEF MissionInv, TypeOK, RequestRecord
<1>3. CASE Head(request[d].todo) = s
  <2>1. request' = [request EXCEPT ![d].pc = "create"]
    BY <1>2, <1>3 DEF EraseResult
  <2>2. request'[d].pc = "create" /\ request'[d].todo = request[d].todo
    BY <1>2, <2>1 DEF RequestRecord
  <2> QED BY <1>3, <2>2 DEF Kept, About
<1>4. CASE Head(request[d].todo) # s
  <2>1. results'[s] = results[s]
    BY <1>2, <1>4 DEF EraseResult
  <2>2. \A c \in Decisions \ {d} : request'[c] = request[c]
    BY <1>2 DEF EraseResult
  <2>3. ~ About(d, s)
    BY <1>1 DEF About
  <2>4. \A c \in Decisions : About(c, s) => About(c, s)'
    BY <2>2, <2>3 DEF About
  <2>5. HasOpen(s) => HasOpen(s)'
    BY <1>1 DEF HasOpen
  <2> QED BY <1>1, <2>1, <2>4, <2>5 DEF Kept
<1> QED BY <1>3, <1>4

\* The decision that created an item is about its sub-task until the item is listed, ...
LEMMA CreateKeeps ==
  ASSUME MissionInv, Remembered, NEW d \in Decisions, CreateItem(d), NEW s \in Enqueued'
  PROVE  Kept(s)'
<1>1. Extended /\ results' = results
  BY CreateItemExtends DEF MissionInv, CreateItem
<1>2. /\ request \in [Decisions -> RequestRecord(Len(items))]
      /\ request' = [request EXCEPT ![d].pc = "list", ![d].item = Len(items) + 1]
  BY DEF MissionInv, TypeOK, RequestRecord, CreateItem
<1>3. /\ request'[d].pc = "list" /\ request'[d].todo = request[d].todo
      /\ \A c \in Decisions \ {d} : request'[c] = request[c]
  BY <1>2 DEF RequestRecord
<1>4. \A c \in Decisions : About(c, s) => About(c, s)'
  BY <1>3 DEF About
<1> QED BY <1>1, <1>4, ExtendedKeeps

\* ... and then the item is open.
LEMMA ListKeeps ==
  ASSUME MissionInv, Remembered, NEW d \in Decisions, ListItem(d), NEW s \in Enqueued'
  PROVE  Kept(s)'
<1>1. Replaces(Open) /\ results' = results
  BY ListItemReplaces DEF Replaces, Open, ListItem
<1>2. PICK e \in Item :
        /\ Replaced(request[d].item, e) /\ e.status = "pending"
        /\ e.sub = Head(request[d].todo) /\ request[d].item \in DOMAIN items
  BY ListItemReplaced
<1>3. About(d, s) => HasOpen(s)'
  BY <1>2 DEF About, HasOpen, Open, Replaced
<1>4. \A c \in Decisions \ {d} : request'[c] = request[c]
  BY DEF ListItem, MissionInv, TypeOK
<1>5. \A c \in Decisions : About(c, s) => About(c, s)' \/ HasOpen(s)'
  BY <1>3, <1>4 DEF About
<1> QED BY <1>1, <1>5, ReplacedKeeps

LEMMA KeepsStep == MissionInv /\ Remembered /\ [Next]_vars => Remembered'
<1> SUFFICES ASSUME MissionInv, Remembered, [Next]_vars, NEW s \in Enqueued'
             PROVE  Kept(s)'
  BY DEF Remembered
<1>1. CASE Launch
  BY <1>1, EnqueueReadyExtends, ExtendedKeeps DEF MissionInv, Launch, About
<1>2. ASSUME NEW r \in Runs, StartRun(r) \/ CoordinatorStep(r) \/ AgentStep(r)
      PROVE  Kept(s)'
  <2>1. CASE Delegate(r)
    BY <2>1, EnqueueReadyExtends, ExtendedKeeps DEF MissionInv, Delegate, About
  <2>2. CASE TakeItem(r)
    <3>1. Replaces(Open)
      BY <2>2, TakeItemReplaces DEF Replaces, Open
    <3> QED BY <2>2, <3>1, ReplacedKeeps DEF TakeItem, About
  <2>3. CASE AgentAnswers(r)
    BY <2>3, AnswerKeeps
  <2>4. CASE AgentRaises(r)
    <3>1. Replaces(Open)
      BY <2>4, AgentRaisesReplaces DEF Replaces, Open
    <3> QED BY <2>4, <3>1, ReplacedKeeps DEF AgentRaises, About
  <2>5. CASE StartRun(r) \/ CountResults(r) \/ CloseMission(r)
    BY <2>5 DEF Remembered, StartRun, CountResults, CloseMission, Enqueued, Kept, HasOpen, About
  <2> QED BY <1>2, <2>1, <2>2, <2>3, <2>4, <2>5 DEF CoordinatorStep, AgentStep
<1>3. CASE ChangeTeam
  BY <1>3 DEF Remembered, ChangeTeam, Enqueued, Kept, HasOpen, About
<1>4. ASSUME NEW d \in Decisions, AskAgain(d) \/ DecisionStep(d)
      PROVE  Kept(s)'
  <2>1. CASE AskAgain(d) \/ Reopen(d)
    <3>1. /\ UNCHANGED <<items, results>> /\ request[d].pc \notin {"create", "list"}
          /\ \A c \in Decisions \ {d} : request'[c] = request[c]
      BY <2>1 DEF AskAgain, Reopen, MissionInv, TypeOK
    <3>2. \A c \in Decisions : About(c, s) => About(c, s)'
      BY <3>1 DEF About
    <3> QED BY <3>1, <3>2 DEF Remembered, Enqueued, Kept, HasOpen
  <2> QED BY <1>4, <2>1, EraseKeeps, CreateKeeps, ListKeeps DEF DecisionStep
<1>5. CASE UNCHANGED vars
  BY <1>5 DEF Remembered, vars, Enqueued, Kept, HasOpen, About
<1> QED BY <1>1, <1>2, <1>3, <1>4, <1>5 DEF Next

\* A sub-task that was delegated is never lost: it has a result, the output of an item of
\* its own that was done, or an item that is still to be done or has failed, or a
\* decision about to enqueue it again, however many runs and decisions overlap.
THEOREM NoSubTaskIsLost == Spec => []NothingForgotten
<1>1. Init => Remembered
  <2>1. Init => DOMAIN items = {}
    BY EmptySeq DEF Init
  <2> QED BY <2>1 DEF Remembered, Enqueued
<1>2. MissionInv /\ Remembered => NothingForgotten
  <2> SUFFICES ASSUME MissionInv, Remembered, NEW s \in Enqueued, results[s] # 0
               PROVE  /\ results[s] \in DOMAIN items /\ items[results[s]].sub = s
                      /\ items[results[s]].status = "done"
    BY DEF NothingForgotten, Remembered, Kept, HasOpen, About, Open
  <2>1. s \in SubTasks /\ results[s] \in 0 .. Len(items)
    BY EnqueuedType DEF MissionInv, TypeOK
  <2> QED BY <2>1, ItemsDomain DEF MissionInv, ResultsAreDone
<1> QED BY <1>1, <1>2, KeepsStep, MissionInvariant, PTL DEF Spec
=============================================================================
