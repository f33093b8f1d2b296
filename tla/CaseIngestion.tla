---------------------------- MODULE CaseIngestion ----------------------------
(***************************************************************************)
(* From an uploaded document to the profile of its case: the upload route, *)
(* the broker, the Celery tasks process_document and ingest_document, the  *)
(* versions of a document's record, and the one row that holds the case's  *)
(* profile, which tasks and routes read, change and write back whole.      *)
(*                                                                         *)
(* Workers are processes of the Celery worker and clerks are requests on   *)
(* the routes of the profile: nothing orders their transactions, so each   *)
(* access to a table or to the broker is an action.  A message is          *)
(* acknowledged before its task runs and no task is retried: what fails or *)
(* dies is gone.  The broker may deliver a message once more.              *)
(***************************************************************************)
EXTENDS Naturals, Sequences, FiniteSets

CONSTANTS
  Documents,        \* the documents uploaded for the case
  Dates,            \* the dates of events
  Descriptions,     \* the descriptions of events, normalised
  Content,          \* Content[d]: the events the pipeline finds in document d
  Workers,          \* the processes of the Celery worker
  Clerks,           \* the requests on the routes of the profile
  MaxRedeliveries,  \* bound: copies of messages the broker adds
  None              \* no document, no copy, no fact

Event == [date : Dates, description : Descriptions]

ASSUME ContentAssumption == Content \in [Documents -> Seq(Event)]

ASSUME ProcessesAssumption ==
  /\ Documents \cap Clerks = {} /\ Workers \cap Clerks = {}
  /\ None \notin Documents
  /\ MaxRedeliveries \in Nat

VARIABLES
  records,      \* records[d]: the rows of document_records for d, oldest first
  queue,        \* queue[m]: the copies of message m the broker holds
  profile,      \* the row of case_profiles
  task,         \* task[x]: what worker or clerk x does, and the values it holds
  redelivered,  \* the copies the broker has added
  failed,       \* history: the documents a task or a message of which was lost
  settled       \* history: the changes saved while no one else held a copy

vars == <<records, queue, profile, task, redelivered, failed, settled>>

Processes == Workers \cup Clerks
Statuses == {"received", "processed"}
Messages == [task : {"process", "ingest"}, doc : Documents]
Requests == {"create", "rename", "delete"}

Row == [version : Nat \ {0}, status : Statuses]

Fact == [date : Dates, sources : SUBSET Documents, confirming : SUBSET Documents,
         contradicting : SUBSET Documents, boosts : Nat]
Entry == [docs : SUBSET Documents, boosts : Nat]

ASSUME NoneAssumption == None \notin Fact \cup Entry

Profiles == [docs : SUBSET Documents, deleted : {"no", "yes"},
             facts : [Descriptions -> Fact \cup {None}],
             timeline : [Dates \X Descriptions -> Entry \cup {None}]]

\* case_profiles has no row for the case.
NoRow == [row |-> "none"]

Task == [op : {"process", "ingest", "none"} \cup Requests,
         doc : Documents \cup {None},
         at : {"idle", "version", "insert", "trigger",
               "get", "create", "insert_profile", "save", "over"},
         number : Nat, events : Seq(Event), copy : Profiles \cup {None}]

NoTask == [op |-> "none", doc |-> None, at |-> "idle", number |-> 0,
           events |-> <<>>, copy |-> None]

EmptyProfile == [docs |-> {}, deleted |-> "no",
                 facts |-> [x \in Descriptions |-> None],
                 timeline |-> [k \in Dates \X Descriptions |-> None]]

Init ==
  /\ records = [d \in Documents |-> <<>>]
  /\ queue = [m \in Messages |-> 0]
  /\ profile = NoRow
  /\ task = [x \in Processes |-> NoTask]
  /\ redelivered = 0
  /\ failed = {}
  /\ settled = {}

-----------------------------------------------------------------------------
(* What ingest_document does to a profile                                  *)

\* Mutant of Corroborated: a document confirms the fact whose source it is.
CorroboratedAgain(fact, d) ==
  [fact EXCEPT !.confirming = @ \cup {d}, !.boosts = @ + 1]

Corroborated(fact, d) ==
  IF d \in fact.sources \cup fact.confirming THEN fact
  ELSE [fact EXCEPT !.confirming = @ \cup {d}, !.boosts = @ + 1]

Rivals(facts, date) ==
  {x \in Descriptions : facts[x] # None /\ facts[x].date = date}

NewFact(facts, e, d) ==
  [date |-> e.date, sources |-> {d}, confirming |-> {}, boosts |-> 0,
   contradicting |-> UNION {facts[x].sources : x \in Rivals(facts, e.date)}]

\* Mutant of FactIngested: the facts on record do not learn who contradicts them.
FactIngestedOneWay(facts, e, d) ==
  IF facts[e.description] = None
  THEN [facts EXCEPT ![e.description] = NewFact(facts, e, d)]
  ELSE [facts EXCEPT ![e.description] = Corroborated(@, d)]

\* A fact is found by its description, whatever its date; a new one and those
\* on record for its date contradict each other.
FactIngested(facts, e, d) ==
  IF facts[e.description] # None
  THEN [facts EXCEPT ![e.description] = Corroborated(@, d)]
  ELSE [x \in Descriptions |->
          CASE x = e.description -> NewFact(facts, e, d)
            [] x \in Rivals(facts, e.date) -> [facts[x] EXCEPT !.contradicting = @ \cup {d}]
            [] OTHER -> facts[x]]

\* Mutant of Consolidated: the document takes the place of those before it.
ConsolidatedAnew(timeline, e, d) ==
  [timeline EXCEPT ![<<e.date, e.description>>] = [docs |-> {d}, boosts |-> 0]]

\* An entry of the timeline is found by its date and its description.
Consolidated(timeline, e, d) ==
  [timeline EXCEPT ![<<e.date, e.description>>] =
     IF @ = None THEN [docs |-> {d}, boosts |-> 0]
     ELSE IF d \in @.docs THEN @
     ELSE [docs |-> @.docs \cup {d}, boosts |-> @.boosts + 1]]

\* f[i] and t[i] are what the first i events make of the facts and of the timeline.
FactsUpdated(facts, events, d) ==
  LET f[i \in 0 .. Len(events)] ==
        IF i = 0 THEN facts ELSE FactIngested(f[i - 1], events[i], d)
  IN  f[Len(events)]

TimelineUpdated(timeline, events, d) ==
  LET t[i \in 0 .. Len(events)] ==
        IF i = 0 THEN timeline ELSE Consolidated(t[i - 1], events[i], d)
  IN  t[Len(events)]

Ingested(p, events, d) ==
  [p EXCEPT !.docs = @ \cup {d},
            !.facts = FactsUpdated(@, events, d),
            !.timeline = TimelineUpdated(@, events, d)]

\* What the task or the request makes of its copy before it saves it.
Changed(x) ==
  CASE task[x].op = "ingest" -> Ingested(task[x].copy, task[x].events, task[x].doc)
    [] task[x].op = "delete" -> [task[x].copy EXCEPT !.deleted = "yes"]
    [] task[x].op = "rename" -> task[x].copy

-----------------------------------------------------------------------------
(* The upload route and the broker                                         *)

\* The record is saved before the task is enqueued: if the broker is down, the
\* document stays received.
Upload(d) ==
  /\ records[d] = <<>>
  /\ records' = [records EXCEPT ![d] = <<[version |-> 1, status |-> "received"]>>]
  /\ \/ /\ queue' = [queue EXCEPT ![[task |-> "process", doc |-> d]] = @ + 1]
        /\ UNCHANGED failed
     \/ failed' = failed \cup {d} /\ UNCHANGED queue
  /\ UNCHANGED <<profile, task, redelivered, settled>>

\* A message held unacknowledged past the visibility timeout is delivered again.
Redeliver(m) ==
  /\ queue[m] > 0
  /\ redelivered < MaxRedeliveries
  /\ queue' = [queue EXCEPT ![m] = @ + 1]
  /\ redelivered' = redelivered + 1
  /\ UNCHANGED <<records, profile, task, failed, settled>>

Latest(d) == records[d][CHOOSE i \in DOMAIN records[d] :
                          \A j \in DOMAIN records[d] :
                            records[d][j].version <= records[d][i].version]

\* Mutant of Take: a message is taken that the broker does not hold.
TakeAnything(w, m) ==
  /\ task[w].at = "idle"
  /\ records[m.doc] # <<>>
  /\ queue' = [queue EXCEPT ![m] = @ - 1]
  /\ task' = [task EXCEPT ![w] = [NoTask EXCEPT !.op = m.task, !.doc = m.doc,
                                                !.at = "get"]]
  /\ UNCHANGED <<records, profile, redelivered, failed, settled>>

\* A worker acknowledges a message, and its task begins with the latest version
\* of the document: its bytes, or the events the pipeline found in it.
Take(w, m) ==
  /\ task[w].at = "idle"
  /\ queue[m] > 0
  /\ queue' = [queue EXCEPT ![m] = @ - 1]
  /\ task' = [task EXCEPT ![w] =
                [NoTask EXCEPT
                   !.op = m.task, !.doc = m.doc,
                   !.at = IF m.task = "process" THEN "version" ELSE "get",
                   !.events = IF m.task = "ingest" /\ Latest(m.doc).status = "processed"
                              THEN Content[m.doc] ELSE <<>>]]
  /\ UNCHANGED <<records, profile, redelivered, failed, settled>>

\* An exception, the loss of the broker, or the end of the process.
Dies(x) ==
  /\ task[x].at \notin {"idle", "over"}
  /\ task' = [task EXCEPT ![x] = [NoTask EXCEPT !.at = IF x \in Clerks THEN "over" ELSE "idle"]]
  /\ failed' = failed \cup ({task[x].doc} \ {None})
  /\ UNCHANGED <<records, queue, profile, redelivered, settled>>

-----------------------------------------------------------------------------
(* process_document                                                        *)

\* The pipeline has run, and its last stage saves a new version of the record:
\* the number is read in the transaction that inserts, but nothing holds it.
ReadVersion(w) ==
  /\ task[w].at = "version"
  /\ task' = [task EXCEPT ![w].at = "insert",
                          ![w].number = Latest(task[w].doc).version + 1]
  /\ UNCHANGED <<records, queue, profile, redelivered, failed, settled>>

InsertRecord(w) ==
  LET d == task[w].doc IN
  /\ task[w].at = "insert"
  /\ records' = [records EXCEPT ![d] =
                   Append(@, [version |-> task[w].number, status |-> "processed"])]
  /\ task' = [task EXCEPT ![w].at = "trigger"]
  /\ UNCHANGED <<queue, profile, redelivered, failed, settled>>

\* Mutant of Trigger: the case is triggered before the record is stored.
TriggerEarly(w) ==
  /\ task[w].op = "process"
  /\ \/ /\ task[w].at = "version"
        /\ queue' = [queue EXCEPT ![[task |-> "ingest", doc |-> task[w].doc]] = @ + 1]
        /\ task' = [task EXCEPT ![w].at = "insert", ![w].number = 2]
     \/ /\ task[w].at = "trigger"
        /\ task' = [task EXCEPT ![w] = NoTask]
        /\ UNCHANGED queue
  /\ UNCHANGED <<records, profile, redelivered, failed, settled>>

\* Mutant of Trigger: processing a document does not trigger its case.
TriggerNothing(w) ==
  /\ task[w].at = "trigger"
  /\ task' = [task EXCEPT ![w] = NoTask]
  /\ UNCHANGED <<records, queue, profile, redelivered, failed, settled>>

Trigger(w) ==
  /\ task[w].at = "trigger"
  /\ queue' = [queue EXCEPT ![[task |-> "ingest", doc |-> task[w].doc]] = @ + 1]
  /\ task' = [task EXCEPT ![w] = NoTask]
  /\ UNCHANGED <<records, profile, redelivered, failed, settled>>

-----------------------------------------------------------------------------
(* The profile: ingest_document, create, rename and soft delete            *)

Ask(c, op) ==
  /\ task[c].at = "idle"
  /\ task' = [task EXCEPT ![c].op = op, ![c].at = "get"]
  /\ UNCHANGED <<records, queue, profile, redelivered, failed, settled>>

Finished(x) == [NoTask EXCEPT !.at = IF x \in Clerks THEN "over" ELSE "idle"]

\* Mutant of OpenProfile: get_or_create does not look for the profile first.
OpenProfileBlindly(x) ==
  /\ task[x].at = "get"
  /\ task' = [task EXCEPT ![x].at = "create", ![x].copy = EmptyProfile]
  /\ UNCHANGED <<records, queue, profile, redelivered, failed, settled>>

\* get, get_or_create: without a profile, one is created, or the answer is 404.
OpenProfile(x) ==
  /\ task[x].at = "get"
  /\ task' = [task EXCEPT ![x] =
                IF profile = NoRow
                THEN IF task[x].op \in {"ingest", "create"}
                     THEN [@ EXCEPT !.at = "create", !.copy = EmptyProfile]
                     ELSE Finished(x)
                ELSE IF task[x].op = "create" THEN Finished(x)
                ELSE [@ EXCEPT !.at = "save", !.copy = profile]]
  /\ UNCHANGED <<records, queue, profile, redelivered, failed, settled>>

\* Where get_or_create has the empty profile it saved.
Created(x) == IF task[x].op = "create" THEN Finished(x) ELSE [task[x] EXCEPT !.at = "save"]

\* save of an empty profile, by merge: a row that has come meanwhile is updated.
MergeEmpty(x) ==
  /\ task[x].at = "create"
  /\ IF profile = NoRow
     THEN task' = [task EXCEPT ![x].at = "insert_profile"] /\ UNCHANGED profile
     ELSE task' = [task EXCEPT ![x] = Created(x)] /\ profile' = EmptyProfile
  /\ UNCHANGED <<records, queue, redelivered, failed, settled>>

\* case_id is the primary key: the second insert fails.
InsertEmpty(x) ==
  /\ task[x].at = "insert_profile"
  /\ IF profile = NoRow
     THEN /\ task' = [task EXCEPT ![x] = Created(x)]
          /\ profile' = EmptyProfile
          /\ UNCHANGED failed
     ELSE /\ task' = [task EXCEPT ![x] = Finished(x)]
          /\ failed' = failed \cup ({task[x].doc} \ {None})
          /\ UNCHANGED profile
  /\ UNCHANGED <<records, queue, redelivered, settled>>

Holding(x) == task[x].at \in {"create", "insert_profile", "save"}

\* The change x makes, as a member of settled: the document, or the deletion.
Change(x) == CASE task[x].op = "ingest" -> {task[x].doc}
               [] task[x].op = "delete" -> {x}
               [] task[x].op = "rename" -> {}

\* The whole row is written back, whatever has become of it since it was read.
SaveProfile(x) ==
  /\ task[x].at = "save"
  /\ profile' = Changed(x)
  /\ task' = [task EXCEPT ![x] = Finished(x)]
  /\ settled' = IF \E y \in Processes \ {x} : Holding(y) THEN settled
                ELSE settled \cup Change(x)
  /\ UNCHANGED <<records, queue, redelivered, failed>>

Step(x) == OpenProfile(x) \/ MergeEmpty(x) \/ InsertEmpty(x) \/ SaveProfile(x)

Work(w) == ReadVersion(w) \/ InsertRecord(w) \/ Trigger(w) \/ Step(w)

Next ==
  \/ \E d \in Documents : Upload(d)
  \/ \E m \in Messages : Redeliver(m) \/ \E w \in Workers : Take(w, m)
  \/ \E w \in Workers : Work(w)
  \/ \E c \in Clerks : Step(c) \/ \E op \in Requests : Ask(c, op)
  \/ \E x \in Processes : Dies(x)

\* Workers take the messages the broker holds and tasks go on; no one has to
\* upload, to ask for anything, or to fail.
Fairness ==
  /\ \A m \in Messages : WF_vars(\E w \in Workers : Take(w, m))
  /\ \A w \in Workers : WF_vars(Work(w))

Spec == Init /\ [][Next]_vars /\ Fairness
-----------------------------------------------------------------------------
(* Properties                                                              *)

TypeOK ==
  /\ records \in [Documents -> Seq(Row)]
  /\ queue \in [Messages -> Nat]
  /\ profile = NoRow \/ profile \in Profiles
  /\ task \in [Processes -> Task]
  /\ redelivered \in 0 .. MaxRedeliveries
  /\ failed \subseteq Documents
  /\ settled \subseteq Documents \cup Clerks

Facts == IF profile = NoRow THEN {} ELSE {x \in Descriptions : profile.facts[x] # None}
Entries == IF profile = NoRow THEN {}
           ELSE {k \in Dates \X Descriptions : profile.timeline[k] # None}

Support(x) == profile.facts[x].sources \cup profile.facts[x].confirming

\* The profile holds the whole of every document it lists: all its events, as
\* entries of the timeline and as facts, although the document's record is
\* written by another task and other tasks write the profile.
DocumentsAreWhole ==
  profile # NoRow =>
    \A d \in profile.docs : \A i \in DOMAIN Content[d] :
      LET e == Content[d][i] IN
      /\ e.description \in Facts /\ d \in Support(e.description)
      /\ <<e.date, e.description>> \in Entries
      /\ d \in profile.timeline[<<e.date, e.description>>].docs

\* The facts and the timeline, merged by different rules, rest on the same
\* documents, and only on documents the profile lists.
FactsMatchTimeline ==
  /\ \A k \in Entries : k[2] \in Facts
  /\ \A x \in Facts :
       /\ Support(x) = UNION {profile.timeline[k].docs : k \in {j \in Entries : j[2] = x}}
       /\ Support(x) \subseteq profile.docs

\* A document counts once for a fact and once for an entry, however many times it
\* is delivered: its confidence grows with the other documents that confirm it.
CountedOnce ==
  /\ \A x \in Facts :
       LET f == profile.facts[x] IN
       /\ f.sources \cap f.confirming = {}
       /\ f.boosts = Cardinality(f.confirming)
  /\ \A k \in Entries :
       profile.timeline[k].boosts + 1 = Cardinality(profile.timeline[k].docs)

\* Two facts on record for one date each know the document of the other among
\* those that contradict them, in whatever order the documents came.
ContradictionsAreMutual ==
  \A x, y \in Facts :
    x # y /\ profile.facts[x].date = profile.facts[y].date =>
      profile.facts[x].sources \subseteq profile.facts[y].contradicting

\* A document ingested, or a deletion made, while no one else held a copy of the
\* profile is there for good: only copies read before a save undo it.
SettledLasts ==
  \A s \in settled :
    /\ profile # NoRow
    /\ s \in Documents => s \in profile.docs
    /\ s \in Clerks => profile.deleted = "yes"

\* An uploaded document gets into the profile of its case some day, if not for
\* ever, or one of its tasks or messages was lost.
DocumentsReachTheCase ==
  \A d \in Documents :
    <>(records[d] # <<>>) => <>((profile # NoRow /\ d \in profile.docs) \/ d \in failed)

\* CaseIntelligenceWorkflow: "every time a document finishes processing, its
\* actors, facts, timeline [...] are all updated automatically".  When nothing is
\* left to do and nothing has failed, the case has all its documents.
LivingCase ==
  (\A m \in Messages : queue[m] = 0) /\ (\A x \in Processes : task[x].at \in {"idle", "over"})
    => \A d \in Documents :
         records[d] # <<>> => d \in failed \/ (profile # NoRow /\ d \in profile.docs)
=============================================================================
