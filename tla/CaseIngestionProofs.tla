-------------------------- MODULE CaseIngestionProofs --------------------------
(***************************************************************************)
(* Why a change saved while no one else held a copy of a profile lasts,    *)
(* for any number of workers and requests: whoever read the profile later  *)
(* has the change in its copy, and whoever found no profile at all was     *)
(* holding the empty one it makes.                                         *)
(***************************************************************************)
EXTENDS CaseIngestion, TLAPS

-----------------------------------------------------------------------------
(* Shapes: what a record is made of, not what its fields are               *)

IsTask(r) ==
  r = [op |-> r.op, doc |-> r.doc, at |-> r.at, number |-> r.number, events |-> r.events,
       copy |-> r.copy]

IsProfile(p) ==
  p = [docs |-> p.docs, deleted |-> p.deleted, facts |-> p.facts, timeline |-> p.timeline]

\* What process x may be doing, and with what.
Fits(x, r) ==
  /\ IsTask(r)
  /\ r.at = "get" => r.op \in {"ingest"} \cup Requests
  /\ r.at \in {"create", "insert_profile"} => r.op \in {"ingest", "create"}
  /\ r.at = "save" => r.op \in {"ingest", "delete", "rename"}
  /\ r.at \in {"create", "insert_profile", "save"} => IsProfile(r.copy)
  /\ r.op \in Requests => x \in Clerks
  /\ r.op \in {"process", "ingest"} => r.doc \in Documents

Shapes ==
  /\ task = [x \in Processes |-> task[x]]
  /\ \A x \in Processes : Fits(x, task[x])
  /\ profile # NoRow => IsProfile(profile)

\* A profile has everything that is settled.
Has(p) ==
  \A s \in settled :
    /\ s \in Documents => s \in p.docs
    /\ s \in Clerks => p.deleted = "yes"

\* Who is about to make an empty profile found none, and holds it since.
LastingInv ==
  /\ Shapes
  /\ settled # {} => profile # NoRow
  /\ profile # NoRow => Has(profile)
  /\ \A x \in Processes :
       /\ task[x].at \in {"create", "insert_profile"} => settled = {}
       /\ task[x].at = "save" => Has(task[x].copy)

LEMMA SetAt ==
  ASSUME NEW r, IsTask(r)
  PROVE  \A v : /\ IsTask([r EXCEPT !.at = v]) /\ [r EXCEPT !.at = v].at = v
                /\ [r EXCEPT !.at = v].op = r.op /\ [r EXCEPT !.at = v].doc = r.doc
                /\ [r EXCEPT !.at = v].copy = r.copy
BY DEF IsTask

LEMMA SetCopy ==
  ASSUME NEW r, IsTask(r)
  PROVE  \A v : /\ IsTask([r EXCEPT !.copy = v]) /\ [r EXCEPT !.copy = v].copy = v
                /\ [r EXCEPT !.copy = v].op = r.op /\ [r EXCEPT !.copy = v].doc = r.doc
                /\ [r EXCEPT !.copy = v].at = r.at
BY DEF IsTask

LEMMA SetOp ==
  ASSUME NEW r, IsTask(r)
  PROVE  \A v : /\ IsTask([r EXCEPT !.op = v]) /\ [r EXCEPT !.op = v].op = v
                /\ [r EXCEPT !.op = v].at = r.at /\ [r EXCEPT !.op = v].doc = r.doc
BY DEF IsTask

LEMMA SetNumber ==
  ASSUME NEW r, IsTask(r)
  PROVE  \A v : /\ IsTask([r EXCEPT !.number = v])
                /\ [r EXCEPT !.number = v].op = r.op /\ [r EXCEPT !.number = v].at = r.at
                /\ [r EXCEPT !.number = v].doc = r.doc /\ [r EXCEPT !.number = v].copy = r.copy
BY DEF IsTask

LEMMA SetEvents ==
  ASSUME NEW r, IsTask(r)
  PROVE  \A v : /\ IsTask([r EXCEPT !.events = v])
                /\ [r EXCEPT !.events = v].op = r.op /\ [r EXCEPT !.events = v].at = r.at
                /\ [r EXCEPT !.events = v].doc = r.doc
BY DEF IsTask

LEMMA SetDoc ==
  ASSUME NEW r, IsTask(r)
  PROVE  \A v : /\ IsTask([r EXCEPT !.doc = v]) /\ [r EXCEPT !.doc = v].doc = v
                /\ [r EXCEPT !.doc = v].op = r.op /\ [r EXCEPT !.doc = v].at = r.at
BY DEF IsTask

LEMMA ProfileFields ==
  ASSUME NEW p, IsProfile(p)
  PROVE  \A v : /\ IsProfile([p EXCEPT !.docs = v]) /\ [p EXCEPT !.docs = v].docs = v
                /\ [p EXCEPT !.docs = v].deleted = p.deleted
                /\ [p EXCEPT !.docs = v].facts = p.facts
                /\ [p EXCEPT !.docs = v].timeline = p.timeline
                /\ IsProfile([p EXCEPT !.facts = v]) /\ [p EXCEPT !.facts = v].docs = p.docs
                /\ [p EXCEPT !.facts = v].deleted = p.deleted
                /\ [p EXCEPT !.facts = v].timeline = p.timeline
                /\ IsProfile([p EXCEPT !.timeline = v])
                /\ [p EXCEPT !.timeline = v].docs = p.docs
                /\ [p EXCEPT !.timeline = v].deleted = p.deleted
BY DEF IsProfile

LEMMA SetDeleted ==
  ASSUME NEW p, IsProfile(p)
  PROVE  \A v : /\ IsProfile([p EXCEPT !.deleted = v])
                /\ [p EXCEPT !.deleted = v].docs = p.docs
                /\ [p EXCEPT !.deleted = v].deleted = v
BY DEF IsProfile

LEMMA ProfileUpdates ==
  ASSUME NEW p, IsProfile(p), NEW events, NEW d
  PROVE  /\ IsProfile(Ingested(p, events, d))
         /\ Ingested(p, events, d).docs = p.docs \cup {d}
         /\ Ingested(p, events, d).deleted = p.deleted
<1> DEFINE ds == p.docs \cup {d}
           fs == FactsUpdated(p.facts, events, d)
           ts == TimelineUpdated(p.timeline, events, d)
           q == [p EXCEPT !.docs = ds]
           r == [q EXCEPT !.facts = fs]
           s == [r EXCEPT !.timeline = ts]
<1>1. Ingested(p, events, d) = s
  BY DEF Ingested, IsProfile
<1> HIDE DEF ds, fs, ts
<1>2. IsProfile(q) /\ q.docs = ds /\ q.deleted = p.deleted
  BY ProfileFields
<1> HIDE DEF q
<1>3. IsProfile(r) /\ r.docs = ds /\ r.deleted = p.deleted
  BY <1>2, ProfileFields
<1> HIDE DEF r
<1>4. IsProfile(s) /\ s.docs = ds /\ s.deleted = p.deleted
  BY <1>3, ProfileFields
<1> HIDE DEF s
<1> QED BY <1>1, <1>4 DEF ds

\* What x saves keeps what its copy has, and has the change x makes.
LEMMA ChangedHas ==
  ASSUME LastingInv, NEW x \in Processes, task[x].at = "save"
  PROVE  /\ IsProfile(Changed(x))
         /\ Has(Changed(x))
         /\ \A s \in Change(x) : /\ s \in Documents => s \in Changed(x).docs
                                 /\ s \in Clerks => Changed(x).deleted = "yes"
<1>1. /\ IsProfile(task[x].copy) /\ Has(task[x].copy)
      /\ task[x].op \in {"ingest", "delete", "rename"}
      /\ task[x].op \in Requests => x \in Clerks
      /\ task[x].op = "ingest" => task[x].doc \in Documents
  BY DEF LastingInv, Shapes, Fits
<1>2. CASE task[x].op = "ingest"
  <2>1. Changed(x) = Ingested(task[x].copy, task[x].events, task[x].doc)
        /\ Change(x) = {task[x].doc}
    BY <1>2 DEF Changed, Change
  <2>2. task[x].doc \notin Clerks
    BY <1>1, <1>2, ProcessesAssumption
  <2>3. /\ IsProfile(Changed(x))
        /\ Changed(x).docs = task[x].copy.docs \cup {task[x].doc}
        /\ Changed(x).deleted = task[x].copy.deleted
    BY <1>1, <2>1, ProfileUpdates
  <2>4. Has(Changed(x))
    BY <1>1, <2>3 DEF Has
  <2>5. \A s \in Change(x) : s \in Changed(x).docs /\ s \notin Clerks
    BY <2>1, <2>2, <2>3
  <2> QED BY <2>3, <2>4, <2>5
<1>3. CASE task[x].op = "delete"
  <2>1. Changed(x) = [task[x].copy EXCEPT !.deleted = "yes"] /\ Change(x) = {x}
    BY <1>3 DEF Changed, Change
  <2>2. x \in Clerks /\ x \notin Documents
    BY <1>1, <1>3, ProcessesAssumption DEF Requests
  <2>3. /\ IsProfile(Changed(x))
        /\ Changed(x).docs = task[x].copy.docs /\ Changed(x).deleted = "yes"
    BY <1>1, <2>1, SetDeleted
  <2>4. Has(Changed(x))
    BY <1>1, <2>3 DEF Has
  <2> QED BY <2>1, <2>2, <2>3, <2>4
<1>4. CASE task[x].op = "rename"
  <2>1. Changed(x) = task[x].copy /\ Change(x) = {}
    BY <1>4 DEF Changed, Change
  <2> QED BY <1>1, <2>1
<1> QED BY <1>1, <1>2, <1>3, <1>4

-----------------------------------------------------------------------------
(* What becomes of a task                                                  *)

LEMMA TaskBecomes ==
  ASSUME Shapes, NEW x \in Processes, NEW r, task' = [task EXCEPT ![x] = r]
  PROVE  /\ task' = [y \in Processes |-> task'[y]]
         /\ task'[x] = r
         /\ \A y \in Processes \ {x} : task'[y] = task[y]
BY DEF Shapes

\* A task that is well formed takes the place of another.
LEMMA ShapesKept ==
  ASSUME Shapes, NEW x \in Processes, NEW r, task' = [task EXCEPT ![x] = r], Fits(x, r),
         profile' # NoRow => IsProfile(profile')
  PROVE  Shapes'
<1>1. /\ task' = [y \in Processes |-> task'[y]]
      /\ task'[x] = r
      /\ \A y \in Processes \ {x} : task'[y] = task[y]
  BY TaskBecomes
<1>2. \A y \in Processes : Fits(y, task'[y])
  BY <1>1 DEF Shapes
<1> QED BY <1>1, <1>2 DEF Shapes, Fits, IsTask, IsProfile

LEMMA EmptyShape == IsProfile(EmptyProfile) /\ ~ IsProfile(NoRow)
BY DEF IsProfile, EmptyProfile, NoRow

LEMMA NoTaskShape ==
  /\ IsTask(NoTask) /\ NoTask.at = "idle" /\ NoTask.op = "none"
  /\ \A v : /\ IsTask([NoTask EXCEPT !.at = v]) /\ [NoTask EXCEPT !.at = v].at = v
            /\ [NoTask EXCEPT !.at = v].op = "none"
BY DEF NoTask, IsTask

\* A step that neither changes the profile nor settles anything, and after which x
\* holds no copy, or still holds the one it held.
LEMMA QuietStep ==
  ASSUME LastingInv, NEW x \in Processes, NEW r, task' = [task EXCEPT ![x] = r], Fits(x, r),
         r.at \notin {"create", "insert_profile", "save"},
         profile' = profile, settled' = settled
  PROVE  LastingInv'
<1>1. Shapes'
  BY ShapesKept DEF LastingInv, Shapes
<1>2. task'[x] = r /\ \A y \in Processes \ {x} : task'[y] = task[y]
  BY TaskBecomes DEF LastingInv
<1> QED BY <1>1, <1>2 DEF LastingInv, Has

-----------------------------------------------------------------------------
(* The steps                                                               *)

LEMMA TakeStep ==
  ASSUME LastingInv, NEW w \in Workers, NEW m \in Messages, Take(w, m)
  PROVE  LastingInv'
<1> DEFINE at == IF m.task = "process" THEN "version" ELSE "get"
           ev == IF m.task = "ingest" /\ Latest(m.doc).status = "processed"
                 THEN Content[m.doc] ELSE <<>>
           q1 == [NoTask EXCEPT !.op = m.task]
           q2 == [q1 EXCEPT !.doc = m.doc]
           q3 == [q2 EXCEPT !.at = at]
           r == [q3 EXCEPT !.events = ev]
<1>1. task' = [task EXCEPT ![w] = r] /\ profile' = profile /\ settled' = settled
  BY DEF Take, NoTask
<1>2. m.task \in {"process", "ingest"} /\ m.doc \in Documents
  BY DEF Messages
<1>3. at \in {"version", "get"} /\ (at = "get" => m.task = "ingest")
  BY <1>2
<1> HIDE DEF at, ev
<1>4. IsTask(q1) /\ q1.op = m.task
  BY NoTaskShape, SetOp
<1> HIDE DEF q1
<1>5. IsTask(q2) /\ q2.op = m.task /\ q2.doc = m.doc
  BY <1>4, SetDoc
<1> HIDE DEF q2
<1>6. IsTask(q3) /\ q3.op = m.task /\ q3.doc = m.doc /\ q3.at = at
  BY <1>5, SetAt
<1> HIDE DEF q3
<1>7. IsTask(r) /\ r.op = m.task /\ r.doc = m.doc /\ r.at = at
  BY <1>6, SetEvents
<1> HIDE DEF r
<1>8. w \in Processes /\ Fits(w, r)
  BY <1>2, <1>3, <1>7 DEF Fits, Requests, Processes
<1> QED BY <1>1, <1>3, <1>7, <1>8, QuietStep

LEMMA FinishedShape ==
  ASSUME NEW x
  PROVE  Fits(x, Finished(x)) /\ Finished(x).at \in {"idle", "over"}
<1> DEFINE at == IF x \in Clerks THEN "over" ELSE "idle"
<1>1. Finished(x) = [NoTask EXCEPT !.at = at] /\ at \in {"idle", "over"}
  BY DEF Finished
<1> HIDE DEF at
<1>2. IsTask(Finished(x)) /\ Finished(x).op = "none" /\ Finished(x).at \in {"idle", "over"}
  BY <1>1, NoTaskShape
<1> QED BY <1>2 DEF Fits, Requests

LEMMA EndStep ==
  ASSUME LastingInv, NEW x \in Processes, task' = [task EXCEPT ![x] = Finished(x)],
         profile' = profile, settled' = settled
  PROVE  LastingInv'
BY FinishedShape, QuietStep

LEMMA WorkerStep ==
  ASSUME LastingInv, NEW w \in Workers, ReadVersion(w) \/ InsertRecord(w) \/ Trigger(w)
  PROVE  LastingInv'
<1>0. w \in Processes /\ Fits(w, task[w]) /\ Shapes
  BY DEF Processes, LastingInv, Shapes
<1>1. CASE ReadVersion(w)
  <2> DEFINE n == Latest(task[w].doc).version + 1
             q == [task[w] EXCEPT !.at = "insert"]
             r == [q EXCEPT !.number = n]
  <2>1. task' = [task EXCEPT ![w] = r] /\ profile' = profile /\ settled' = settled
    BY <1>0, <1>1 DEF ReadVersion, Shapes, Fits, IsTask
  <2> HIDE DEF n
  <2>2. IsTask(q) /\ q.at = "insert" /\ q.op = task[w].op /\ q.doc = task[w].doc
    BY <1>0, SetAt DEF Fits
  <2> HIDE DEF q
  <2>3. IsTask(r) /\ r.at = "insert" /\ r.op = task[w].op /\ r.doc = task[w].doc
    BY <2>2, SetNumber
  <2> HIDE DEF r
  <2>4. Fits(w, r)
    BY <1>0, <2>3 DEF Fits
  <2> QED BY <1>0, <2>1, <2>3, <2>4, QuietStep
<1>2. CASE InsertRecord(w)
  <2> DEFINE r == [task[w] EXCEPT !.at = "trigger"]
  <2>1. task' = [task EXCEPT ![w] = r] /\ profile' = profile /\ settled' = settled
    BY <1>2 DEF InsertRecord
  <2>2. IsTask(r) /\ r.at = "trigger" /\ r.op = task[w].op /\ r.doc = task[w].doc
    BY <1>0, SetAt DEF Fits
  <2> HIDE DEF r
  <2>3. Fits(w, r)
    BY <1>0, <2>2 DEF Fits
  <2> QED BY <1>0, <2>1, <2>2, <2>3, QuietStep
<1>3. CASE Trigger(w)
  <2>1. Fits(w, NoTask) /\ NoTask.at = "idle"
    BY NoTaskShape DEF Fits, Requests
  <2>2. task' = [task EXCEPT ![w] = NoTask] /\ profile' = profile /\ settled' = settled
    BY <1>3 DEF Trigger
  <2> QED BY <1>0, <2>1, <2>2, QuietStep
<1> QED BY <1>1, <1>2, <1>3

LEMMA AskStep ==
  ASSUME LastingInv, NEW c \in Clerks, NEW op \in Requests, Ask(c, op)
  PROVE  LastingInv'
<1> DEFINE q == [task[c] EXCEPT !.op = op]
           r == [q EXCEPT !.at = "get"]
<1>0. c \in Processes /\ op \notin {"process", "ingest"}
  BY DEF Processes, Requests
<1>1. task' = [task EXCEPT ![c] = r] /\ profile' = profile /\ settled' = settled
  BY <1>0 DEF Ask, LastingInv, Shapes, Fits, IsTask
<1>2. IsTask(task[c])
  BY <1>0 DEF LastingInv, Shapes, Fits
<1>3. IsTask(q) /\ q.op = op
  BY <1>2, SetOp
<1> HIDE DEF q
<1>4. IsTask(r) /\ r.at = "get" /\ r.op = op
  BY <1>3, SetAt
<1> HIDE DEF r
<1>5. Fits(c, r)
  BY <1>0, <1>4 DEF Fits
<1> QED BY <1>0, <1>1, <1>4, <1>5, QuietStep

\* Whoever finds no profile finds nothing settled; whoever finds one has what is.
LEMMA OpenStep ==
  ASSUME LastingInv, NEW x \in Processes, OpenProfile(x)
  PROVE  LastingInv'
<1>0. /\ Fits(x, task[x]) /\ IsTask(task[x]) /\ Shapes
      /\ task[x].op \in {"ingest"} \cup Requests
      /\ profile' = profile /\ settled' = settled
  BY DEF LastingInv, Shapes, Fits, OpenProfile
<1>1. CASE profile = NoRow /\ task[x].op \in {"ingest", "create"}
  <2> DEFINE q == [task[x] EXCEPT !.at = "create"]
             r == [q EXCEPT !.copy = EmptyProfile]
  <2>1. task' = [task EXCEPT ![x] = r]
    BY <1>0, <1>1 DEF OpenProfile, IsTask
  <2>2. IsTask(q) /\ q.at = "create" /\ q.op = task[x].op /\ q.doc = task[x].doc
    BY <1>0, SetAt
  <2> HIDE DEF q
  <2>3. IsTask(r) /\ r.at = "create" /\ r.op = task[x].op /\ r.doc = task[x].doc
        /\ r.copy = EmptyProfile
    BY <2>2, SetCopy
  <2> HIDE DEF r
  <2>4. Fits(x, r)
    BY <1>0, <1>1, <2>3, EmptyShape DEF Fits
  <2>5. Shapes' /\ task'[x] = r /\ \A y \in Processes \ {x} : task'[y] = task[y]
    BY <1>0, <2>1, <2>4, ShapesKept, TaskBecomes DEF Shapes
  <2>6. settled = {}
    BY <1>1 DEF LastingInv
  <2> QED BY <1>0, <2>3, <2>5, <2>6 DEF LastingInv, Has
<1>2. CASE profile # NoRow /\ task[x].op # "create"
  <2> DEFINE q == [task[x] EXCEPT !.at = "save"]
             r == [q EXCEPT !.copy = profile]
  <2>1. task' = [task EXCEPT ![x] = r]
    BY <1>0, <1>2 DEF OpenProfile, IsTask
  <2>2. IsTask(q) /\ q.at = "save" /\ q.op = task[x].op /\ q.doc = task[x].doc
    BY <1>0, SetAt
  <2> HIDE DEF q
  <2>3. IsTask(r) /\ r.at = "save" /\ r.op = task[x].op /\ r.doc = task[x].doc
        /\ r.copy = profile
    BY <2>2, SetCopy
  <2> HIDE DEF r
  <2>4. IsProfile(profile) /\ task[x].op \in {"ingest", "delete", "rename"}
    BY <1>0, <1>2 DEF Shapes, Requests
  <2>5. Fits(x, r)
    BY <1>0, <2>3, <2>4 DEF Fits
  <2>6. Shapes' /\ task'[x] = r /\ \A y \in Processes \ {x} : task'[y] = task[y]
    BY <1>0, <2>1, <2>5, ShapesKept, TaskBecomes DEF Shapes
  <2> QED BY <1>0, <1>2, <2>3, <2>6 DEF LastingInv, Has
<1>3. CASE \/ profile = NoRow /\ task[x].op \notin {"ingest", "create"}
           \/ profile # NoRow /\ task[x].op = "create"
  <2>1. task' = [task EXCEPT ![x] = Finished(x)]
    BY <1>3 DEF OpenProfile
  <2> QED BY <1>0, <2>1, EndStep
<1> QED BY <1>1, <1>2, <1>3

\* As long as nothing is settled there is nothing to lose.
LEMMA NothingSettled ==
  ASSUME Shapes', settled' = {}
  PROVE  LastingInv'
BY DEF LastingInv, Has

\* Where x goes with the empty profile it has found no row for.
LEMMA CreatedFits ==
  ASSUME LastingInv, NEW x \in Processes, task[x].at \in {"create", "insert_profile"}
  PROVE  Fits(x, Created(x)) /\ settled = {}
<1>1. Fits(x, task[x]) /\ settled = {}
  BY DEF LastingInv, Shapes
<1>2. CASE task[x].op = "create"
  BY <1>1, <1>2, FinishedShape DEF Created
<1>3. CASE task[x].op # "create"
  <2> DEFINE r == [task[x] EXCEPT !.at = "save"]
  <2>1. Created(x) = r
    BY <1>3 DEF Created
  <2>2. IsTask(r) /\ r.at = "save" /\ r.op = task[x].op /\ r.doc = task[x].doc
        /\ r.copy = task[x].copy
    BY <1>1, SetAt DEF Fits
  <2> HIDE DEF r
  <2>3. Fits(x, r)
    BY <1>1, <1>3, <2>2 DEF Fits
  <2> QED BY <1>1, <2>1, <2>3
<1> QED BY <1>2, <1>3

LEMMA MergeStep ==
  ASSUME LastingInv, NEW x \in Processes, MergeEmpty(x)
  PROVE  LastingInv'
<1>0. /\ Fits(x, task[x]) /\ Shapes /\ task[x].at = "create"
      /\ settled' = settled
  BY DEF LastingInv, Shapes, MergeEmpty
<1>1. Fits(x, Created(x)) /\ settled = {}
  BY <1>0, CreatedFits
<1>2. CASE profile = NoRow
  <2> DEFINE r == [task[x] EXCEPT !.at = "insert_profile"]
  <2>1. task' = [task EXCEPT ![x] = r] /\ profile' = profile
    BY <1>2 DEF MergeEmpty
  <2>2. IsTask(r) /\ r.at = "insert_profile" /\ r.op = task[x].op /\ r.doc = task[x].doc
        /\ r.copy = task[x].copy
    BY <1>0, SetAt DEF Fits
  <2> HIDE DEF r
  <2>3. Fits(x, r)
    BY <1>0, <2>2 DEF Fits
  <2>4. Shapes'
    BY <1>0, <2>1, <2>3, ShapesKept DEF Shapes
  <2> QED BY <1>0, <1>1, <2>4, NothingSettled
<1>3. CASE profile # NoRow
  <2>1. task' = [task EXCEPT ![x] = Created(x)] /\ profile' = EmptyProfile
    BY <1>3 DEF MergeEmpty
  <2>2. Shapes'
    BY <1>0, <1>1, <2>1, EmptyShape, ShapesKept
  <2> QED BY <1>0, <1>1, <2>2, NothingSettled
<1> QED BY <1>2, <1>3

LEMMA InsertStep ==
  ASSUME LastingInv, NEW x \in Processes, InsertEmpty(x)
  PROVE  LastingInv'
<1>0. /\ Shapes /\ task[x].at = "insert_profile" /\ settled' = settled
  BY DEF LastingInv, InsertEmpty
<1>1. Fits(x, Created(x)) /\ settled = {}
  BY <1>0, CreatedFits
<1>2. CASE profile = NoRow
  <2>1. task' = [task EXCEPT ![x] = Created(x)] /\ profile' = EmptyProfile
    BY <1>2 DEF InsertEmpty
  <2>2. Shapes'
    BY <1>0, <1>1, <2>1, EmptyShape, ShapesKept
  <2> QED BY <1>0, <1>1, <2>2, NothingSettled
<1>3. CASE profile # NoRow
  <2>1. task' = [task EXCEPT ![x] = Finished(x)] /\ profile' = profile
    BY <1>3 DEF InsertEmpty
  <2> QED BY <1>0, <2>1, EndStep
<1> QED BY <1>2, <1>3

\* A change is settled only when no copy that lacks it is left.
LEMMA SaveStep ==
  ASSUME LastingInv, NEW x \in Processes, SaveProfile(x)
  PROVE  LastingInv'
<1>0. /\ Shapes /\ task[x].at = "save"
      /\ task' = [task EXCEPT ![x] = Finished(x)] /\ profile' = Changed(x)
  BY DEF LastingInv, SaveProfile
<1>1. /\ IsProfile(Changed(x)) /\ Has(Changed(x))
      /\ \A s \in Change(x) : /\ s \in Documents => s \in Changed(x).docs
                              /\ s \in Clerks => Changed(x).deleted = "yes"
  BY <1>0, ChangedHas
<1>2. Shapes'
  BY <1>0, <1>1, FinishedShape, ShapesKept
<1>3. profile' # NoRow
  BY <1>0, <1>1, EmptyShape
<1>4. /\ task'[x].at \in {"idle", "over"}
      /\ \A y \in Processes \ {x} : task'[y] = task[y]
  BY <1>0, FinishedShape, TaskBecomes
<1>5. CASE \E y \in Processes \ {x} : Holding(y)
  <2>1. settled' = settled
    BY <1>5 DEF SaveProfile
  <2>2. Has(profile)'
    BY <1>0, <1>1, <2>1 DEF Has
  <2>3. \A y \in Processes :
          /\ task'[y].at \in {"create", "insert_profile"} => settled' = {}
          /\ task'[y].at = "save" => Has(task[y].copy)'
    BY <1>4, <2>1 DEF LastingInv, Has
  <2> QED BY <1>2, <1>3, <2>2, <2>3 DEF LastingInv
<1>6. CASE ~ \E y \in Processes \ {x} : Holding(y)
  <2>1. settled' = settled \cup Change(x)
    BY <1>6 DEF SaveProfile
  <2>2. Has(profile)'
    BY <1>0, <1>1, <2>1 DEF Has
  <2>3. \A y \in Processes : task'[y].at \notin {"create", "insert_profile", "save"}
    BY <1>4, <1>6 DEF Holding
  <2> QED BY <1>2, <1>3, <2>2, <2>3 DEF LastingInv
<1> QED BY <1>5, <1>6

LEMMA DiesStep ==
  ASSUME LastingInv, NEW x \in Processes, Dies(x)
  PROVE  LastingInv'
<1>1. task' = [task EXCEPT ![x] = Finished(x)] /\ profile' = profile /\ settled' = settled
  BY DEF Dies, Finished
<1> QED BY <1>1, EndStep

LEMMA NextStep == LastingInv /\ [Next]_vars => LastingInv'
<1> SUFFICES ASSUME LastingInv, [Next]_vars
             PROVE  LastingInv'
  OBVIOUS
<1>1. ASSUME task' = task, profile' = profile, settled' = settled
      PROVE  LastingInv'
  BY <1>1 DEF LastingInv, Shapes, Fits, IsTask, IsProfile, Has
<1>2. CASE UNCHANGED vars
  BY <1>1, <1>2 DEF vars
<1>3. CASE (\E d \in Documents : Upload(d)) \/ (\E m \in Messages : Redeliver(m))
  BY <1>1, <1>3 DEF Upload, Redeliver
<1>4. ASSUME NEW w \in Workers, NEW m \in Messages, Take(w, m)
      PROVE  LastingInv'
  BY <1>4, TakeStep
<1>5. ASSUME NEW x \in Processes, Step(x)
      PROVE  LastingInv'
  BY <1>5, OpenStep, MergeStep, InsertStep, SaveStep DEF Step
<1>6. ASSUME NEW w \in Workers, Work(w)
      PROVE  LastingInv'
  BY <1>5, <1>6, WorkerStep DEF Work, Processes
<1>7. ASSUME NEW c \in Clerks, Step(c) \/ \E op \in Requests : Ask(c, op)
      PROVE  LastingInv'
  BY <1>5, <1>7, AskStep DEF Processes
<1>8. ASSUME NEW x \in Processes, Dies(x)
      PROVE  LastingInv'
  BY <1>8, DiesStep
<1> QED BY <1>2, <1>3, <1>4, <1>6, <1>7, <1>8 DEF Next

\* A document ingested, or a deletion made, while no one else held a copy of the
\* profile is there for good, however many workers and requests there are.
THEOREM Lasts == Spec => []SettledLasts
<1>1. Init => LastingInv
  <2> SUFFICES ASSUME Init
               PROVE  LastingInv
    OBVIOUS
  <2>1. /\ task = [x \in Processes |-> NoTask] /\ profile = NoRow /\ settled = {}
    BY DEF Init
  <2>2. \A x \in Processes : Fits(x, NoTask)
    BY NoTaskShape DEF Fits, Requests
  <2>3. \A x \in Processes : task[x] = NoTask
    BY <2>1
  <2>4. Shapes
    BY <2>1, <2>2, <2>3 DEF Shapes
  <2> QED BY <2>1, <2>4 DEF LastingInv, Has
<1>2. LastingInv => SettledLasts
  BY DEF LastingInv, Has, SettledLasts
<1> QED BY <1>1, <1>2, NextStep, PTL DEF Spec
=============================================================================
