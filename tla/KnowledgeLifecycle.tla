------------------------- MODULE KnowledgeLifecycle -------------------------
(***************************************************************************)
(* An object of the cabinet's knowledge base, such as the writing style of *)
(* a firm: its content, its governance status, the requests for its        *)
(* validation, and its publication.                                        *)
(*                                                                         *)
(* The stores are dictionaries of shared objects and the routes run in     *)
(* threads, without a lock: each read or write of an attribute that        *)
(* another call may change is an action.                                   *)
(***************************************************************************)
EXTENDS Naturals, Sequences

CONSTANTS
  Calls,  \* the calls of the engines, each made once
  None    \* no object, no request; the content an object is created with

VARIABLES
  object,      \* the KnowledgeObject
  requests,    \* requests[c]: the ValidationRequest that call c has made
  events,      \* the GovernanceEvents, in the order they were appended
  call,        \* call[c]: what call c does, and the values it holds
  reviewed,    \* history: the contents the object had when an approval of it began
  overlapped   \* history: whether two calls were ever under way together

vars == <<object, requests, events, call, reviewed, overlapped>>

Statuses == {"draft", "in_review", "validated", "obsolete", "archived"}
Verdicts == {"approved", "rejected", "changes_requested"}

\* ALLOWED_TRANSITIONS
Allowed == [draft |-> {"in_review"},
            in_review |-> {"validated", "draft"},
            validated |-> {"obsolete", "archived"},
            obsolete |-> {"archived", "validated"},
            archived |-> {}]

\* The content is the call that wrote it.
Object == [content : Calls \cup {None}, status : Statuses, published : BOOLEAN]

ASSUME NoneAssumption == None \notin Calls \cup Object

Event == [from : Statuses, to : Statuses]

Call == [op : {"none", "update", "revise", "submit", "decide", "retire", "publish", "unpublish"},
         at : {"idle", "content", "demote", "unlist", "pending", "check", "from", "set", "hide",
               "log", "request", "mark", "publishable", "publish", "unpublish", "over"},
         from : Statuses, to : Statuses,       \* the transition it makes
         request : Calls \cup {None},          \* the request it decides
         verdict : Verdicts]

Idle == [op |-> "none", at |-> "idle", from |-> "draft", to |-> "in_review",
         request |-> None, verdict |-> "approved"]

Init ==
  /\ object = None
  /\ requests = [c \in Calls |-> "none"]
  /\ events = <<>>
  /\ call = [c \in Calls |-> Idle]
  /\ reviewed = {}
  /\ overlapped = FALSE

-----------------------------------------------------------------------------
Active(c) == call[c].at \notin {"idle", "over"}
Quiescent == \A c \in Calls : ~ Active(c)

Goto(c, at) == call' = [call EXCEPT ![c].at = at]

\* KnowledgeSpace.create: always a draft.
Create ==
  /\ object = None
  /\ object' = [content |-> None, status |-> "draft", published |-> FALSE]
  /\ UNCHANGED <<requests, events, call, reviewed, overlapped>>

Begin(c, started) ==
  /\ object # None
  /\ call[c].at = "idle"
  /\ call' = [call EXCEPT ![c] = started]
  /\ overlapped' = (overlapped \/ ~ Quiescent)
  /\ UNCHANGED <<object, requests, events, reviewed>>

-----------------------------------------------------------------------------
(* update_content, and apply_feedback_as_revision that submits its result  *)

Update(c) == Begin(c, [Idle EXCEPT !.op = "update", !.at = "content"])

Revise(c) == Begin(c, [Idle EXCEPT !.op = "revise", !.at = "content"])

WriteContent(c) ==
  /\ call[c].at = "content"
  /\ object' = [object EXCEPT !.content = c]
  /\ Goto(c, "demote")
  /\ UNCHANGED <<requests, events, reviewed, overlapped>>

\* Mutant of Demote: only what is in review has to be reviewed again.
DemoteReviewed(c) ==
  /\ call[c].at = "demote"
  /\ object' = IF object.status = "in_review" THEN [object EXCEPT !.status = "draft"] ELSE object
  /\ Goto(c, "unlist")
  /\ UNCHANGED <<requests, events, reviewed, overlapped>>

Demote(c) ==
  /\ call[c].at = "demote"
  /\ object' = [object EXCEPT !.status = "draft"]
  /\ Goto(c, "unlist")
  /\ UNCHANGED <<requests, events, reviewed, overlapped>>

Unlist(c) ==
  /\ call[c].at = "unlist"
  /\ object' = [object EXCEPT !.published = FALSE]
  /\ Goto(c, IF call[c].op = "revise" THEN "check" ELSE "over")
  /\ UNCHANGED <<requests, events, reviewed, overlapped>>

-----------------------------------------------------------------------------
(* GovernanceEngine.transition, for those who call it                      *)

Submit(c) == Begin(c, [Idle EXCEPT !.op = "submit", !.at = "check"])

\* Obsolescence, archival, and reactivation by someone who has seen it obsolete: no
\* route offers them, and the code leaves it to its callers which transition to make.
Retire(c, to) ==
  /\ to = "validated" => object # None /\ object.status = "obsolete"
  /\ Begin(c, [Idle EXCEPT !.op = "retire", !.at = "check", !.to = to])

Decide(c, r, verdict) ==
  /\ requests[r] # "none"
  /\ Begin(c, [Idle EXCEPT !.op = "decide", !.at = "pending", !.request = r,
                           !.verdict = verdict,
                           !.to = IF verdict = "approved" THEN "validated" ELSE "draft"])

\* Whoever approves has read the content the object has now.
StillPending(c) ==
  /\ call[c].at = "pending"
  /\ IF requests[call[c].request] = "pending"
     THEN /\ Goto(c, "check")
          /\ reviewed' = IF call[c].verdict = "approved" THEN reviewed \cup {object.content}
                         ELSE reviewed
     ELSE Goto(c, "over") /\ UNCHANGED reviewed
  /\ UNCHANGED <<object, requests, events, overlapped>>

\* InvalidTransitionError ends the call.
Check(c) ==
  /\ call[c].at = "check"
  /\ Goto(c, IF call[c].to \in Allowed[object.status] THEN "from" ELSE "over")
  /\ UNCHANGED <<object, requests, events, reviewed, overlapped>>

\* The status is read once more, for the event.
ReadFrom(c) ==
  /\ call[c].at = "from"
  /\ call' = [call EXCEPT ![c].at = "set", ![c].from = object.status]
  /\ UNCHANGED <<object, requests, events, reviewed, overlapped>>

\* Mutant of SetStatus: request_changes leaves the object in review.
SetStatusDecided(c) ==
  /\ call[c].at = "set"
  /\ object' = IF call[c].op = "decide" /\ call[c].verdict = "changes_requested" THEN object
               ELSE [object EXCEPT !.status = call[c].to]
  /\ Goto(c, IF call[c].to = "validated" THEN "log" ELSE "hide")
  /\ UNCHANGED <<requests, events, reviewed, overlapped>>

\* KnowledgeSpace.set_status trusts its caller: it looks at nothing.
SetStatus(c) ==
  /\ call[c].at = "set"
  /\ object' = [object EXCEPT !.status = call[c].to]
  /\ Goto(c, IF call[c].to = "validated" THEN "log" ELSE "hide")
  /\ UNCHANGED <<requests, events, reviewed, overlapped>>

Hide(c) ==
  /\ call[c].at = "hide"
  /\ object' = [object EXCEPT !.published = FALSE]
  /\ Goto(c, "log")
  /\ UNCHANGED <<requests, events, reviewed, overlapped>>

Log(c) ==
  /\ call[c].at = "log"
  /\ events' = Append(events, [from |-> call[c].from, to |-> call[c].to])
  /\ Goto(c, CASE call[c].op = "decide" -> "mark"
               [] call[c].op = "retire" -> "over"
               [] OTHER -> "request")
  /\ UNCHANGED <<object, requests, reviewed, overlapped>>

Request(c) ==
  /\ call[c].at = "request"
  /\ requests' = [requests EXCEPT ![c] = "pending"]
  /\ Goto(c, "over")
  /\ UNCHANGED <<object, events, reviewed, overlapped>>

\* Mutant of Mark: any verdict of the reviewer is noted as an approval's.
MarkVerbatim(c) ==
  /\ call[c].at = "mark"
  /\ requests' = [requests EXCEPT ![call[c].request] = "decided"]
  /\ Goto(c, "over")
  /\ UNCHANGED <<object, events, reviewed, overlapped>>

Mark(c) ==
  /\ call[c].at = "mark"
  /\ requests' = [requests EXCEPT ![call[c].request] = call[c].verdict]
  /\ Goto(c, "over")
  /\ UNCHANGED <<object, events, reviewed, overlapped>>

-----------------------------------------------------------------------------
(* ApprovalEngine                                                          *)

Publish(c) == Begin(c, [Idle EXCEPT !.op = "publish", !.at = "publishable"])

Unpublish(c) == Begin(c, [Idle EXCEPT !.op = "unpublish", !.at = "unpublish"])

Publishable(c) ==
  /\ call[c].at = "publishable"
  /\ Goto(c, IF object.status = "validated" THEN "publish" ELSE "over")
  /\ UNCHANGED <<object, requests, events, reviewed, overlapped>>

SetPublished(c) ==
  /\ call[c].at \in {"publish", "unpublish"}
  /\ object' = [object EXCEPT !.published = (call[c].at = "publish")]
  /\ Goto(c, "over")
  /\ UNCHANGED <<requests, events, reviewed, overlapped>>

-----------------------------------------------------------------------------
Start(c) ==
  \/ Update(c) \/ Revise(c) \/ Submit(c) \/ Publish(c) \/ Unpublish(c)
  \/ \E r \in Calls, v \in Verdicts : Decide(c, r, v)
  \/ \E to \in {"obsolete", "archived", "validated"} : Retire(c, to)

Continue(c) ==
  \/ WriteContent(c) \/ Demote(c) \/ Unlist(c)
  \/ StillPending(c) \/ Check(c) \/ ReadFrom(c) \/ SetStatus(c) \/ Hide(c) \/ Log(c)
  \/ Request(c) \/ Mark(c)
  \/ Publishable(c) \/ SetPublished(c)

Next == Create \/ \E c \in Calls : Start(c) \/ Continue(c)

Spec == Init /\ [][Next]_vars
-----------------------------------------------------------------------------
(* Properties                                                              *)

TypeOK ==
  /\ object \in Object \cup {None}
  /\ requests \in [Calls -> {"none", "pending"} \cup Verdicts]
  /\ events \in Seq(Event)
  /\ call \in [Calls -> Call]
  /\ reviewed \subseteq Calls \cup {None}
  /\ overlapped \in BOOLEAN

\* An object is never stuck in review: when no call is under way there is a request
\* a reviewer can decide, whatever calls overlapped, failed or were late before.
ReviewCanEnd ==
  object # None /\ Quiescent /\ object.status = "in_review" =>
    \E c \in Calls : requests[c] = "pending"

\* The status the first i events tell; and what a change of the content, which leaves no
\* event, may have made of it since.
Told(i) == IF i = 0 THEN "draft" ELSE events[i].to
Demotions == IF object.content = None THEN {} ELSE {"draft"}

\* As long as no two calls have overlapped, an object lives by the table of transitions
\* and by update_content, which makes a draft of it whatever it was: what is published
\* is validated; what is validated, or has been since its content last changed, has a
\* content that someone approved; each event tells an allowed transition, which starts
\* where the one before ended; and only a change of the content comes in between. An
\* object whose content never changed has had just the lifecycle its events tell.
SerialLifecycle ==
  object # None /\ Quiescent /\ ~ overlapped =>
    /\ object.published => object.status = "validated"
    /\ object.status \in {"validated", "obsolete", "archived"} => object.content \in reviewed
    /\ \A i \in DOMAIN events : /\ events[i].to \in Allowed[events[i].from]
                                /\ events[i].from \in {Told(i - 1)} \cup Demotions
    /\ object.status \in {Told(Len(events))} \cup Demotions
=============================================================================
