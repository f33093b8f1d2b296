---------------------- MODULE KnowledgeLifecycleProofs ----------------------
(***************************************************************************)
(* What holds of a knowledge object however many calls overlap. An object  *)
(* in review has either a submission that is still going to make its       *)
(* request, or a pending request that no decision has acted upon: a        *)
(* decision acts on the object before it marks its request, and takes the  *)
(* object out of review when it does.                                      *)
(***************************************************************************)
EXTENDS KnowledgeLifecycle, TLAPS

Ats == {"idle", "content", "demote", "unlist", "pending", "check", "from", "set", "hide",
        "log", "request", "mark", "publishable", "publish", "unpublish", "over"}

-----------------------------------------------------------------------------
(* Types                                                                   *)

LEMMA CallUpdates ==
  ASSUME NEW r \in Call
  PROVE  /\ \A p \in Ats : [r EXCEPT !.at = p] \in Call
         /\ \A s \in Statuses : [r EXCEPT !.from = s] \in Call
BY DEF Call, Ats

LEMMA ObjectUpdates ==
  ASSUME NEW o \in Object
  PROVE  /\ \A c \in Calls : [o EXCEPT !.content = c] \in Object
         /\ \A s \in Statuses : [o EXCEPT !.status = s] \in Object
         /\ \A b \in BOOLEAN : [o EXCEPT !.published = b] \in Object
BY DEF Object

\* A call that goes on with another step stays a call.
LEMMA GotoType ==
  ASSUME TypeOK, NEW c \in Calls, NEW p \in Ats, Goto(c, p)
  PROVE  call' \in [Calls -> Call]
<1>1. [call[c] EXCEPT !.at = p] \in Call
  BY CallUpdates DEF TypeOK
<1> QED BY <1>1 DEF Goto, TypeOK

LEMMA BeginType ==
  ASSUME TypeOK, NEW c \in Calls, NEW r \in Call, Begin(c, r)
  PROVE  TypeOK'
BY DEF TypeOK, Begin

LEMMA StartType ==
  ASSUME TypeOK, NEW c \in Calls, Start(c)
  PROVE  TypeOK'
<1>1. CASE Update(c)
  <2>1. [Idle EXCEPT !.op = "update", !.at = "content"] \in Call
    BY DEF Idle, Call, Statuses, Verdicts
  <2> QED BY <1>1, <2>1, BeginType DEF Update
<1>2. CASE Revise(c)
  <2>1. [Idle EXCEPT !.op = "revise", !.at = "content"] \in Call
    BY DEF Idle, Call, Statuses, Verdicts
  <2> QED BY <1>2, <2>1, BeginType DEF Revise
<1>3. CASE Submit(c)
  <2>1. [Idle EXCEPT !.op = "submit", !.at = "check"] \in Call
    BY DEF Idle, Call, Statuses, Verdicts
  <2> QED BY <1>3, <2>1, BeginType DEF Submit
<1>4. CASE Publish(c)
  <2>1. [Idle EXCEPT !.op = "publish", !.at = "publishable"] \in Call
    BY DEF Idle, Call, Statuses, Verdicts
  <2> QED BY <1>4, <2>1, BeginType DEF Publish
<1>5. CASE Unpublish(c)
  <2>1. [Idle EXCEPT !.op = "unpublish", !.at = "unpublish"] \in Call
    BY DEF Idle, Call, Statuses, Verdicts
  <2> QED BY <1>5, <2>1, BeginType DEF Unpublish
<1>6. ASSUME NEW r \in Calls, NEW v \in Verdicts, Decide(c, r, v)
      PROVE  TypeOK'
  <2> DEFINE to == IF v = "approved" THEN "validated" ELSE "draft"
  <2>1. to \in Statuses
    BY DEF Statuses
  <2> HIDE DEF to
  <2>2. [Idle EXCEPT !.op = "decide", !.at = "pending", !.request = r, !.verdict = v,
                     !.to = to] \in Call
    BY <2>1 DEF Idle, Call, Statuses, Verdicts
  <2>3. Begin(c, [Idle EXCEPT !.op = "decide", !.at = "pending", !.request = r, !.verdict = v,
                              !.to = to])
    BY <1>6 DEF Decide, to
  <2> QED BY <2>2, <2>3, BeginType
<1>7. ASSUME NEW to \in {"obsolete", "archived", "validated"}, Retire(c, to)
      PROVE  TypeOK'
  <2>1. [Idle EXCEPT !.op = "retire", !.at = "check", !.to = to] \in Call
    BY DEF Idle, Call, Statuses, Verdicts
  <2> QED BY <1>7, <2>1, BeginType DEF Retire
<1> QED BY <1>1, <1>2, <1>3, <1>4, <1>5, <1>6, <1>7 DEF Start

\* object is something once a call is under way.
LEMMA ContinueType ==
  ASSUME TypeOK, object # None, NEW c \in Calls, Continue(c)
  PROVE  TypeOK'
<1> USE DEF Ats
<1>0. object \in Object /\ call[c] \in Call /\ call[c].to \in Statuses
  BY DEF TypeOK, Call
<1>1. CASE WriteContent(c)
  <2>1. object' \in Object
    BY <1>0, <1>1, ObjectUpdates DEF WriteContent
  <2> QED BY <1>1, <2>1, GotoType DEF WriteContent, TypeOK
<1>2. CASE Demote(c)
  <2>1. object' \in Object
    BY <1>0, <1>2, ObjectUpdates DEF Demote, Statuses
  <2> QED BY <1>2, <2>1, GotoType DEF Demote, TypeOK
<1>3. CASE Unlist(c)
  <2>1. object' \in Object
    BY <1>0, <1>3, ObjectUpdates DEF Unlist
  <2> QED BY <1>3, <2>1, GotoType DEF Unlist, TypeOK
<1>4. CASE StillPending(c)
  <2>1. call' \in [Calls -> Call]
    BY <1>4, GotoType DEF StillPending
  <2>2. reviewed' \subseteq Calls \cup {None}
    BY <1>0, <1>4 DEF StillPending, TypeOK, Object
  <2> QED BY <1>4, <2>1, <2>2 DEF StillPending, TypeOK
<1>5. CASE Check(c)
  BY <1>5, GotoType DEF Check, TypeOK
<1>6. CASE ReadFrom(c)
  <2> DEFINE set == [call[c] EXCEPT !.at = "set"]
  <2>1. set \in Call
    BY <1>0, CallUpdates
  <2>2. [set EXCEPT !.from = object.status] \in Call
    BY <1>0, <2>1, CallUpdates DEF Object
  <2>3. call' = [call EXCEPT ![c] = [set EXCEPT !.from = object.status]]
    BY <1>6 DEF ReadFrom
  <2> QED BY <1>6, <2>2, <2>3 DEF ReadFrom, TypeOK
<1>7. CASE SetStatus(c)
  <2>1. object' \in Object
    BY <1>0, <1>7, ObjectUpdates DEF SetStatus
  <2> QED BY <1>7, <2>1, GotoType DEF SetStatus, TypeOK
<1>8. CASE Hide(c)
  <2>1. object' \in Object
    BY <1>0, <1>8, ObjectUpdates DEF Hide
  <2> QED BY <1>8, <2>1, GotoType DEF Hide, TypeOK
<1>9. CASE Log(c)
  <2>1. [from |-> call[c].from, to |-> call[c].to] \in Event
    BY <1>0 DEF Call, Event
  <2>2. events' \in Seq(Event)
    BY <1>9, <2>1 DEF Log, TypeOK
  <2>3. call' \in [Calls -> Call]
    BY <1>9, GotoType DEF Log
  <2> QED BY <1>9, <2>2, <2>3 DEF Log, TypeOK
<1>10. CASE Request(c)
  BY <1>10, GotoType DEF Request, TypeOK
<1>11. CASE Mark(c)
  <2>1. call[c].verdict \in Verdicts
    BY <1>0 DEF Call
  <2> QED BY <1>11, <2>1, GotoType DEF Mark, TypeOK
<1>12. CASE Publishable(c)
  BY <1>12, GotoType DEF Publishable, TypeOK
<1>13. CASE SetPublished(c)
  <2>1. object' \in Object
    BY <1>0, <1>13, ObjectUpdates DEF SetPublished
  <2> QED BY <1>13, <2>1, GotoType DEF SetPublished, TypeOK
<1> QED BY <1>1, <1>2, <1>3, <1>4, <1>5, <1>6, <1>7, <1>8, <1>9, <1>10, <1>11, <1>12, <1>13
        DEF Continue

\* Nobody calls for an object that does not exist.
Unborn == object = None => \A c \in Calls : call[c].at = "idle"

LEMMA UnbornStep ==
  ASSUME TypeOK, Unborn, Next
  PROVE  Unborn'
<1>1. CASE Create
  <2>1. object' \in Object
    BY <1>1 DEF Create, Object, Statuses
  <2> QED BY <2>1, NoneAssumption DEF Unborn
<1>2. ASSUME NEW c \in Calls, Start(c)
      PROVE  Unborn'
  <2>1. object # None /\ object' = object
    BY <1>2 DEF Start, Update, Revise, Submit, Publish, Unpublish, Decide, Retire, Begin
  <2> QED BY <2>1 DEF Unborn
<1>3. ASSUME NEW c \in Calls, Continue(c)
      PROVE  Unborn'
  <2>1. object # None
    BY <1>3 DEF Unborn, Continue, WriteContent, Demote, Unlist, StillPending, Check, ReadFrom,
                SetStatus, Hide, Log, Request, Mark, Publishable, SetPublished
  <2>2. object' # None
    <3>1. object \in Object /\ call[c] \in Call
      BY <2>1 DEF TypeOK
    <3>2. object' \in Object
      <4>1. call[c].to \in Statuses
        BY <3>1 DEF Call
      <4> QED BY <1>3, <3>1, <4>1, ObjectUpdates
              DEF Continue, WriteContent, Demote, Unlist, StillPending, Check, ReadFrom,
                  SetStatus, Hide, Log, Request, Mark, Publishable, SetPublished, Statuses
    <3> QED BY <3>2, NoneAssumption
  <2> QED BY <2>2 DEF Unborn
<1> QED BY <1>1, <1>2, <1>3 DEF Next

\* Every variable keeps its type, whatever calls overlap.
THEOREM TypeCorrect == Spec => [](TypeOK /\ Unborn)
<1>1. Init => TypeOK /\ Unborn
  <2>1. Idle \in Call
    BY DEF Idle, Call, Statuses, Verdicts
  <2> SUFFICES ASSUME Init
               PROVE  TypeOK /\ Unborn
    OBVIOUS
  <2>2. call \in [Calls -> Call]
    BY <2>1 DEF Init
  <2>3. requests \in [Calls -> {"none", "pending"} \cup Verdicts]
    BY DEF Init
  <2>4. Unborn
    BY DEF Init, Unborn, Idle
  <2>5. overlapped \in BOOLEAN
    BY DEF Init
  <2>6. /\ object \in Object \cup {None}
        /\ events \in Seq(Event)
        /\ reviewed \subseteq Calls \cup {None}
    BY DEF Init
  <2> QED BY <2>2, <2>3, <2>4, <2>5, <2>6 DEF TypeOK
<1>2. TypeOK /\ Unborn /\ [Next]_vars => (TypeOK /\ Unborn)'
  <2> SUFFICES ASSUME TypeOK, Unborn, [Next]_vars
               PROVE  TypeOK' /\ Unborn'
    OBVIOUS
  <2>1. CASE UNCHANGED vars
    BY <2>1 DEF vars, TypeOK, Unborn
  <2>2. CASE Next
    <3>1. CASE Create
      <4>1. object' \in Object
        BY <3>1 DEF Create, Object, Statuses
      <4> QED BY <2>2, <3>1, <4>1, UnbornStep DEF Create, TypeOK
    <3>2. ASSUME NEW c \in Calls, Start(c)
          PROVE  TypeOK'
      BY <3>2, StartType
    <3>3. ASSUME NEW c \in Calls, Continue(c)
          PROVE  TypeOK'
      <4>1. object # None
        BY <3>3 DEF Unborn, Continue, WriteContent, Demote, Unlist, StillPending, Check,
                    ReadFrom, SetStatus, Hide, Log, Request, Mark, Publishable, SetPublished
      <4> QED BY <3>3, <4>1, ContinueType
    <3> QED BY <2>2, <3>1, <3>2, <3>3, UnbornStep DEF Next
  <2> QED BY <2>1, <2>2
<1> QED BY <1>1, <1>2, PTL DEF Spec

-----------------------------------------------------------------------------
(* An object in review can be decided                                      *)

Submitting(c) == call[c].op \in {"submit", "revise"} /\ call[c].at \in {"hide", "log", "request"}

\* d decides r, and has taken the object out of review.
Settling(d, r) ==
  call[d].op = "decide" /\ call[d].request = r /\ call[d].at \in {"hide", "log", "mark"}

Decidable(r) == requests[r] = "pending" /\ \A d \in Calls : ~ Settling(d, r)

InReview ==
  object # None /\ object.status = "in_review" =>
    \E c \in Calls : Submitting(c) \/ Decidable(c)

\* A call makes its request last, and only requests that were made are decided.
RequestsInv ==
  \A c \in Calls :
    /\ requests[c] # "none" => call[c].at = "over"
    /\ call[c].op = "decide" => requests[call[c].request] # "none"

\* Where each operation goes, and what it makes of the status.
OpOK(r) ==
  /\ r.at = "mark" => r.op = "decide"
  /\ r.at = "request" => r.op \in {"submit", "revise"}
  /\ r.at \in {"check", "from", "set", "hide", "log"} =>
       r.op \in {"submit", "revise", "decide", "retire"}
  /\ r.at \in {"demote", "unlist", "content"} => r.op \in {"update", "revise"}
  /\ r.at = "pending" => r.op = "decide"
  /\ r.op \in {"decide", "retire"} => r.to # "in_review"

OpsInv == \A c \in Calls : OpOK(call[c])

ReviewInv == InReview /\ RequestsInv /\ OpsInv

\* A call that begins.
LEMMA BeginReview ==
  ASSUME TypeOK, ReviewInv, NEW c \in Calls, NEW r \in Call, Begin(c, r), OpOK(r),
         r.at \notin {"hide", "log", "mark", "request"},
         r.op = "decide" => requests[r.request] # "none"
  PROVE  ReviewInv'
<1>1. /\ call'[c] = r
      /\ \A d \in Calls \ {c} : call'[d] = call[d]
      /\ object' = object /\ requests' = requests
      /\ call[c].at = "idle"
  BY DEF Begin, TypeOK
<1>2. RequestsInv'
  BY <1>1 DEF ReviewInv, RequestsInv
<1>3. OpsInv'
  BY <1>1 DEF ReviewInv, OpsInv
<1>4. InReview'
  BY <1>1 DEF ReviewInv, InReview, Submitting, Decidable, Settling
<1> QED BY <1>2, <1>3, <1>4 DEF ReviewInv

LEMMA StartReview ==
  ASSUME TypeOK, ReviewInv, NEW c \in Calls, Start(c)
  PROVE  ReviewInv'
<1>1. CASE Update(c)
  <2> DEFINE r == [Idle EXCEPT !.op = "update", !.at = "content"]
  <2>1. r \in Call /\ OpOK(r) /\ r.at = "content" /\ r.op = "update"
    BY DEF Idle, Call, Statuses, Verdicts, OpOK
  <2>2. Begin(c, r)
    BY <1>1 DEF Update
  <2> QED BY <2>1, <2>2, BeginReview
<1>2. CASE Revise(c)
  <2> DEFINE r == [Idle EXCEPT !.op = "revise", !.at = "content"]
  <2>1. r \in Call /\ OpOK(r) /\ r.at = "content" /\ r.op = "revise"
    BY DEF Idle, Call, Statuses, Verdicts, OpOK
  <2>2. Begin(c, r)
    BY <1>2 DEF Revise
  <2> QED BY <2>1, <2>2, BeginReview
<1>3. CASE Submit(c)
  <2> DEFINE r == [Idle EXCEPT !.op = "submit", !.at = "check"]
  <2>1. r \in Call /\ OpOK(r) /\ r.at = "check" /\ r.op = "submit"
    BY DEF Idle, Call, Statuses, Verdicts, OpOK
  <2>2. Begin(c, r)
    BY <1>3 DEF Submit
  <2> QED BY <2>1, <2>2, BeginReview
<1>4. CASE Publish(c)
  <2> DEFINE r == [Idle EXCEPT !.op = "publish", !.at = "publishable"]
  <2>1. r \in Call /\ OpOK(r) /\ r.at = "publishable" /\ r.op = "publish"
    BY DEF Idle, Call, Statuses, Verdicts, OpOK
  <2>2. Begin(c, r)
    BY <1>4 DEF Publish
  <2> QED BY <2>1, <2>2, BeginReview
<1>5. CASE Unpublish(c)
  <2> DEFINE r == [Idle EXCEPT !.op = "unpublish", !.at = "unpublish"]
  <2>1. r \in Call /\ OpOK(r) /\ r.at = "unpublish" /\ r.op = "unpublish"
    BY DEF Idle, Call, Statuses, Verdicts, OpOK
  <2>2. Begin(c, r)
    BY <1>5 DEF Unpublish
  <2> QED BY <2>1, <2>2, BeginReview
<1>6. ASSUME NEW q \in Calls, NEW v \in Verdicts, Decide(c, q, v)
      PROVE  ReviewInv'
  <2> DEFINE to == IF v = "approved" THEN "validated" ELSE "draft"
  <2>1. to \in Statuses /\ to # "in_review"
    BY DEF Statuses
  <2>2. Begin(c, [Idle EXCEPT !.op = "decide", !.at = "pending", !.request = q, !.verdict = v,
                              !.to = to])
    BY <1>6 DEF Decide, to
  <2>3. requests[q] # "none"
    BY <1>6 DEF Decide
  <2> HIDE DEF to
  <2> DEFINE r == [Idle EXCEPT !.op = "decide", !.at = "pending", !.request = q, !.verdict = v,
                               !.to = to]
  <2>4. r \in Call /\ OpOK(r) /\ r.at = "pending" /\ r.request = q
    BY <2>1 DEF Idle, Call, Statuses, Verdicts, OpOK
  <2> HIDE DEF r
  <2> QED BY <2>2, <2>3, <2>4, BeginReview DEF r
<1>7. ASSUME NEW to \in {"obsolete", "archived", "validated"}, Retire(c, to)
      PROVE  ReviewInv'
  <2> DEFINE r == [Idle EXCEPT !.op = "retire", !.at = "check", !.to = to]
  <2>1. r \in Call /\ OpOK(r) /\ r.at = "check" /\ r.op = "retire"
    BY DEF Idle, Call, Statuses, Verdicts, OpOK
  <2>2. Begin(c, r)
    BY <1>7 DEF Retire
  <2> QED BY <2>1, <2>2, BeginReview
<1> QED BY <1>1, <1>2, <1>3, <1>4, <1>5, <1>6, <1>7 DEF Start

-----------------------------------------------------------------------------
\* Nothing but its place changes in a call that goes on, and in no other call.
LEMMA GotoKeeps ==
  ASSUME TypeOK, NEW c \in Calls, NEW p \in Ats, Goto(c, p)
  PROVE  /\ call'[c].at = p
         /\ \A d \in Calls : /\ call'[d].op = call[d].op
                             /\ call'[d].to = call[d].to
                             /\ call'[d].request = call[d].request
                             /\ call'[d].from = call[d].from
                             /\ call'[d].verdict = call[d].verdict
                             /\ d # c => call'[d].at = call[d].at
BY DEF Goto, TypeOK, Call

\* A step that touches neither the status nor a request, and takes no call into or
\* out of those that InReview looks at.
LEMMA QuietStep ==
  ASSUME TypeOK, ReviewInv, NEW c \in Calls, NEW p \in Ats, Goto(c, p),
         requests' = requests, object # None,
         object' # None => object'.status = object.status \/ object'.status # "in_review",
         call[c].at \notin {"log", "request", "mark", "idle", "over"},
         p \in {"hide", "log", "mark", "request"} => call[c].at = "hide" /\ p = "log",
         call[c].at = "hide" => p = "log",
         [call[c] EXCEPT !.at = p] \in Call, OpOK([call[c] EXCEPT !.at = p])
  PROVE  ReviewInv'
<1>1. /\ call'[c].at = p
      /\ \A d \in Calls : /\ call'[d].op = call[d].op
                          /\ call'[d].to = call[d].to
                          /\ call'[d].request = call[d].request
                          /\ d # c => call'[d].at = call[d].at
  BY GotoKeeps
<1>2. RequestsInv'
  BY <1>1 DEF ReviewInv, RequestsInv
<1>3. OpsInv'
  BY DEF ReviewInv, OpsInv, Goto, TypeOK
<1>4. InReview'
  BY <1>1 DEF ReviewInv, InReview, Submitting, Decidable, Settling
<1> QED BY <1>2, <1>3, <1>4 DEF ReviewInv

\* Any other call that is under way.
LEMMA OtherSteps ==
  ASSUME TypeOK, ReviewInv, object # None, NEW c \in Calls,
         \/ WriteContent(c) \/ Demote(c) \/ Unlist(c) \/ StillPending(c) \/ Check(c)
         \/ Hide(c) \/ Publishable(c) \/ SetPublished(c)
  PROVE  ReviewInv'
<1> USE DEF Ats
<1>0. object \in Object /\ call[c] \in Call /\ OpOK(call[c])
  BY DEF TypeOK, ReviewInv, OpsInv
<1>1. CASE WriteContent(c)
  <2>1. object'.status = object.status
    BY <1>0, <1>1 DEF WriteContent, Object
  <2>2. OpOK([call[c] EXCEPT !.at = "demote"]) /\ [call[c] EXCEPT !.at = "demote"] \in Call
    BY <1>0, <1>1 DEF WriteContent, OpOK, Call
  <2> QED BY <1>1, <2>1, <2>2, QuietStep DEF WriteContent
<1>2. CASE Demote(c)
  <2>1. object'.status = "draft"
    BY <1>0, <1>2 DEF Demote, Object
  <2>2. OpOK([call[c] EXCEPT !.at = "unlist"]) /\ [call[c] EXCEPT !.at = "unlist"] \in Call
    BY <1>0, <1>2 DEF Demote, OpOK, Call
  <2> QED BY <1>2, <2>1, <2>2, QuietStep DEF Demote
<1>3. CASE Unlist(c)
  <2>1. object'.status = object.status
    BY <1>0, <1>3 DEF Unlist, Object
  <2>2. CASE call[c].op = "revise"
    <3>1. OpOK([call[c] EXCEPT !.at = "check"]) /\ [call[c] EXCEPT !.at = "check"] \in Call
      BY <1>0, <2>2 DEF OpOK, Call
    <3> QED BY <1>3, <2>1, <2>2, <3>1, QuietStep DEF Unlist
  <2>3. CASE call[c].op # "revise"
    <3>1. OpOK([call[c] EXCEPT !.at = "over"]) /\ [call[c] EXCEPT !.at = "over"] \in Call
      BY <1>0 DEF OpOK, Call
    <3> QED BY <1>3, <2>1, <2>3, <3>1, QuietStep DEF Unlist
  <2> QED BY <2>2, <2>3
<1>4. CASE StillPending(c)
  <2>1. OpOK([call[c] EXCEPT !.at = "over"]) /\ [call[c] EXCEPT !.at = "over"] \in Call
    BY <1>0 DEF OpOK, Call
  <2>2. OpOK([call[c] EXCEPT !.at = "check"]) /\ [call[c] EXCEPT !.at = "check"] \in Call
    BY <1>0, <1>4 DEF StillPending, OpOK, Call
  <2> QED BY <1>4, <2>1, <2>2, QuietStep DEF StillPending
<1>5. CASE Check(c)
  <2>1. OpOK([call[c] EXCEPT !.at = "over"]) /\ [call[c] EXCEPT !.at = "over"] \in Call
    BY <1>0 DEF OpOK, Call
  <2>2. OpOK([call[c] EXCEPT !.at = "from"]) /\ [call[c] EXCEPT !.at = "from"] \in Call
    BY <1>0, <1>5 DEF Check, OpOK, Call
  <2> QED BY <1>5, <2>1, <2>2, QuietStep DEF Check
<1>6. CASE Hide(c)
  <2>1. object'.status = object.status
    BY <1>0, <1>6 DEF Hide, Object
  <2>2. OpOK([call[c] EXCEPT !.at = "log"]) /\ [call[c] EXCEPT !.at = "log"] \in Call
    BY <1>0, <1>6 DEF Hide, OpOK, Call
  <2> QED BY <1>6, <2>1, <2>2, QuietStep DEF Hide
<1>7. CASE Publishable(c)
  <2>1. OpOK([call[c] EXCEPT !.at = "over"]) /\ [call[c] EXCEPT !.at = "over"] \in Call
    BY <1>0 DEF OpOK, Call
  <2>2. OpOK([call[c] EXCEPT !.at = "publish"]) /\ [call[c] EXCEPT !.at = "publish"] \in Call
    BY <1>0 DEF OpOK, Call
  <2> QED BY <1>7, <2>1, <2>2, QuietStep DEF Publishable
<1>8. CASE SetPublished(c)
  <2>1. object'.status = object.status
    BY <1>0, <1>8 DEF SetPublished, Object
  <2>2. OpOK([call[c] EXCEPT !.at = "over"]) /\ [call[c] EXCEPT !.at = "over"] \in Call
    BY <1>0 DEF OpOK, Call
  <2> QED BY <1>8, <2>1, <2>2, QuietStep DEF SetPublished
<1> QED BY <1>1, <1>2, <1>3, <1>4, <1>5, <1>6, <1>7, <1>8

LEMMA ReadFromStep ==
  ASSUME TypeOK, ReviewInv, NEW c \in Calls, ReadFrom(c)
  PROVE  ReviewInv'
<1>1. /\ call'[c].at = "set"
      /\ \A d \in Calls : /\ call'[d].op = call[d].op
                          /\ call'[d].to = call[d].to
                          /\ call'[d].request = call[d].request
                          /\ d # c => call'[d].at = call[d].at
  BY DEF ReadFrom, TypeOK, Call
<1>2. requests' = requests /\ object' = object /\ call[c].at = "from"
  BY DEF ReadFrom
<1>3. RequestsInv'
  BY <1>1, <1>2 DEF ReviewInv, RequestsInv
<1>4. OpsInv'
  BY <1>1, <1>2 DEF ReviewInv, OpsInv, OpOK
<1>5. InReview'
  BY <1>1, <1>2 DEF ReviewInv, InReview, Submitting, Decidable, Settling
<1> QED BY <1>3, <1>4, <1>5 DEF ReviewInv

\* The status is set: only a submission puts an object in review.
LEMMA SetStatusStep ==
  ASSUME TypeOK, ReviewInv, object # None, NEW c \in Calls, SetStatus(c)
  PROVE  ReviewInv'
<1> DEFINE p == IF call[c].to = "validated" THEN "log" ELSE "hide"
<1>1. /\ call'[c].at = p
      /\ \A d \in Calls : /\ call'[d].op = call[d].op
                          /\ call'[d].to = call[d].to
                          /\ call'[d].request = call[d].request
                          /\ d # c => call'[d].at = call[d].at
  BY GotoKeeps DEF SetStatus, Ats
<1>2. RequestsInv'
  BY <1>1 DEF SetStatus, ReviewInv, RequestsInv
<1>3. OpsInv'
  BY <1>1 DEF SetStatus, ReviewInv, OpsInv, OpOK
<1>4. object'.status = call[c].to
  BY DEF SetStatus, TypeOK, Object
<1>5. InReview'
  <2>1. SUFFICES ASSUME call[c].to = "in_review"
                 PROVE  Submitting(c)'
    BY <1>4 DEF InReview
  <2>2. call[c].op \in {"submit", "revise"}
    BY <2>1 DEF SetStatus, ReviewInv, OpsInv, OpOK
  <2> QED BY <1>1, <2>1, <2>2 DEF Submitting
<1> QED BY <1>2, <1>3, <1>5 DEF ReviewInv

LEMMA LogStep ==
  ASSUME TypeOK, ReviewInv, NEW c \in Calls, Log(c)
  PROVE  ReviewInv'
<1> DEFINE p == CASE call[c].op = "decide" -> "mark"
                  [] call[c].op = "retire" -> "over"
                  [] OTHER -> "request"
<1>0. p \in Ats
  BY DEF Ats
<1>1. /\ call'[c].at = p
      /\ \A d \in Calls : /\ call'[d].op = call[d].op
                          /\ call'[d].to = call[d].to
                          /\ call'[d].request = call[d].request
                          /\ d # c => call'[d].at = call[d].at
  BY <1>0, GotoKeeps DEF Log
<1>2. RequestsInv'
  BY <1>1 DEF Log, ReviewInv, RequestsInv
<1>3. OpsInv'
  BY <1>1 DEF Log, ReviewInv, OpsInv, OpOK
<1>4. InReview'
  BY <1>1 DEF Log, ReviewInv, InReview, Submitting, Decidable, Settling
<1> QED BY <1>2, <1>3, <1>4 DEF ReviewInv

\* The request is made: no decision can be about it yet.
LEMMA RequestStep ==
  ASSUME TypeOK, ReviewInv, NEW c \in Calls, Request(c)
  PROVE  ReviewInv'
<1>1. /\ call'[c].at = "over"
      /\ \A d \in Calls : /\ call'[d].op = call[d].op
                          /\ call'[d].to = call[d].to
                          /\ call'[d].request = call[d].request
                          /\ d # c => call'[d].at = call[d].at
  BY GotoKeeps DEF Request, Ats
<1>2. /\ requests'[c] = "pending"
      /\ \A d \in Calls \ {c} : requests'[d] = requests[d]
      /\ requests[c] = "none"
  BY DEF Request, TypeOK, ReviewInv, RequestsInv
<1>3. \A d \in Calls : call[d].op = "decide" => call[d].request # c
  BY <1>2 DEF ReviewInv, RequestsInv
<1>4. RequestsInv'
  <2>1. \A d \in Calls : call[d].request \in Calls \cup {None}
    BY DEF TypeOK, Call
  <2> QED BY <1>1, <1>2, <1>3, <2>1 DEF Request, ReviewInv, RequestsInv
<1>5. OpsInv'
  BY <1>1 DEF Request, ReviewInv, OpsInv, OpOK
<1>6. Decidable(c)'
  BY <1>1, <1>2, <1>3 DEF Decidable, Settling
<1>7. InReview'
  BY <1>6 DEF InReview
<1> QED BY <1>4, <1>5, <1>7 DEF ReviewInv

LEMMA MarkStep ==
  ASSUME TypeOK, ReviewInv, NEW c \in Calls, Mark(c)
  PROVE  ReviewInv'
<1>1. /\ call'[c].at = "over"
      /\ \A d \in Calls : /\ call'[d].op = call[d].op
                          /\ call'[d].to = call[d].to
                          /\ call'[d].request = call[d].request
                          /\ d # c => call'[d].at = call[d].at
  BY GotoKeeps DEF Mark, Ats
<1>2. \A d \in Calls : d # call[c].request => requests'[d] = requests[d]
  BY DEF Mark, TypeOK
<1>3. call[c].op = "decide" /\ requests[call[c].request] # "none"
  BY DEF Mark, ReviewInv, OpsInv, OpOK, RequestsInv
<1>4. call[c].verdict \in Verdicts
  BY DEF TypeOK, Call
<1>5. \A d : requests[d] # "none" => requests'[d] # "none"
  BY <1>4 DEF Mark, Verdicts
<1>6. RequestsInv'
  BY <1>1, <1>2, <1>3, <1>5 DEF ReviewInv, RequestsInv
<1>7. OpsInv'
  BY <1>1 DEF Mark, ReviewInv, OpsInv, OpOK
<1>8. InReview'
  <2>1. SUFFICES ASSUME NEW d \in Calls, Submitting(d) \/ Decidable(d)
                 PROVE  Submitting(d)' \/ Decidable(d)'
    BY DEF Mark, InReview, ReviewInv
  <2>2. CASE Submitting(d)
    BY <1>1, <2>2 DEF Mark, Submitting
  <2>3. CASE Decidable(d)
    <3>1. call[c].request # d
      BY <1>3, <2>3 DEF Mark, Decidable, Settling
    <3> QED BY <1>1, <1>2, <2>3, <3>1 DEF Decidable, Settling
  <2> QED BY <2>1, <2>2, <2>3
<1> QED BY <1>6, <1>7, <1>8 DEF ReviewInv

LEMMA ReviewStep ==
  ASSUME TypeOK, Unborn, ReviewInv, Next
  PROVE  ReviewInv'
<1>1. CASE Create
  <2>1. /\ object' # None => object'.status = "draft"
        /\ call' = call /\ requests' = requests
    BY <1>1 DEF Create
  <2> QED BY <2>1 DEF ReviewInv, InReview, RequestsInv, OpsInv
<1>2. ASSUME NEW c \in Calls, Start(c)
      PROVE  ReviewInv'
  BY <1>2, StartReview
<1>3. ASSUME NEW c \in Calls, Continue(c)
      PROVE  ReviewInv'
  <2>1. object # None
    BY <1>3 DEF Unborn, Continue, WriteContent, Demote, Unlist, StillPending, Check,
                ReadFrom, SetStatus, Hide, Log, Request, Mark, Publishable, SetPublished
  <2> QED BY <1>3, <2>1, OtherSteps, ReadFromStep, SetStatusStep, LogStep, RequestStep, MarkStep
          DEF Continue
<1> QED BY <1>1, <1>2, <1>3 DEF Next

\* An object in review can be decided, however many calls overlap.
THEOREM Reviewable == Spec => []ReviewCanEnd
<1>1. Init => ReviewInv
  <2> SUFFICES ASSUME Init
               PROVE  ReviewInv
    OBVIOUS
  <2>0. \A c \in Calls : /\ call[c].at = "idle" /\ call[c].op = "none"
                        /\ requests[c] = "none"
    <3>1. call = [c \in Calls |-> Idle] /\ requests = [c \in Calls |-> "none"]
      BY Zenon DEF Init
    <3> QED BY <3>1 DEF Idle
  <2>1. OpsInv
    BY <2>0 DEF OpsInv, OpOK
  <2>2. RequestsInv
    BY <2>0 DEF RequestsInv
  <2>3. InReview
    <3>1. object = None
      BY Zenon DEF Init
    <3> QED BY <3>1 DEF InReview
  <2> QED BY <2>1, <2>2, <2>3 DEF ReviewInv
<1>2. TypeOK /\ Unborn /\ ReviewInv /\ [Next]_vars => ReviewInv'
  <2> SUFFICES ASSUME TypeOK, Unborn, ReviewInv, [Next]_vars
               PROVE  ReviewInv'
    OBVIOUS
  <2>1. CASE UNCHANGED vars
    BY <2>1 DEF vars, ReviewInv, InReview, Submitting, Decidable, Settling, RequestsInv, OpsInv
  <2> QED BY <2>1, ReviewStep
<1>3. ReviewInv => ReviewCanEnd
  BY DEF ReviewInv, InReview, ReviewCanEnd, Quiescent, Active, Submitting, Decidable
<1> QED BY <1>1, <1>2, <1>3, TypeCorrect, PTL DEF Spec

-----------------------------------------------------------------------------
(* Calls that do not overlap                                               *)

\* What each update of the object leaves.
LEMMA ObjectFields ==
  ASSUME NEW o \in Object
  PROVE  /\ \A c : /\ [o EXCEPT !.content = c].content = c
                 /\ [o EXCEPT !.content = c].status = o.status
                 /\ [o EXCEPT !.content = c].published <=> o.published
         /\ \A s : /\ [o EXCEPT !.status = s].status = s
                 /\ [o EXCEPT !.status = s].content = o.content
                 /\ [o EXCEPT !.status = s].published <=> o.published
         /\ \A b \in BOOLEAN : /\ [o EXCEPT !.published = b].status = o.status
                              /\ [o EXCEPT !.published = b].content = o.content
                              /\ [o EXCEPT !.published = b].published <=> b
BY DEF Object

LEMMA AllowedMeans ==
  ASSUME NEW s \in Statuses, NEW t \in Allowed[s], t \in {"obsolete", "archived"}
  PROVE  s \in {"validated", "obsolete", "archived"}
BY DEF Allowed, Statuses

\* The status the last event has left.
LastTo == Told(Len(events))

EventsOK ==
  \A i \in DOMAIN events :
    /\ events[i].to \in Allowed[events[i].from]
    /\ events[i].from \in {Told(i - 1)} \cup Demotions

Reviewed == object.status \in {"validated", "obsolete", "archived"} => object.content \in reviewed

PublishedOK == object.published => object.status = "validated"

StatusTold == object.status \in {LastTo} \cup Demotions

\* What a call that is under way alone has made sure of.
PlaceOK(c) ==
  LET r == call[c] IN
  /\ r.at \in {"from", "set"} => r.to \in Allowed[object.status]
  /\ r.at = "set" => r.from = object.status
  /\ r.at \in {"hide", "log"} =>
       object.status = r.to /\ r.to \in Allowed[r.from]
       /\ r.from \in {LastTo} \cup Demotions
  /\ r.at = "publish" => object.status = "validated"
  /\ r.at = "pending" /\ r.to = "validated" => r.verdict = "approved"
  /\ r.at \in {"check", "from", "set"} /\ r.to = "validated" => object.content \in reviewed
  /\ r.at \in {"content", "demote", "unlist"} => r.to # "validated"
  /\ r.at = "demote" => object.content # None

\* The lifecycle, but for what the call under way is doing.
SerialOK(c) ==
  /\ EventsOK
  /\ call[c].at \notin {"unlist", "hide"} => PublishedOK
  /\ call[c].at # "demote" => Reviewed
  /\ call[c].at \notin {"hide", "log"} => StatusTold
  /\ PlaceOK(c)

SerialInv ==
  ~ overlapped /\ object # None =>
    /\ \A c, d \in Calls : Active(c) /\ Active(d) => c = d
    /\ \A c \in Calls : Active(c) => SerialOK(c)
    /\ Quiescent => EventsOK /\ PublishedOK /\ Reviewed /\ StatusTold

\* The events stay as they are unless one is appended, and a content that has changed
\* is never again the one the object was created with.
LEMMA ToldStays ==
  ASSUME events' = events, object'.content = object.content \/ object'.content # None
  PROVE  /\ EventsOK => EventsOK'
         /\ LastTo' = LastTo
         /\ Demotions \subseteq Demotions'
<1>1. \A i : Told(i)' = Told(i)
  BY DEF Told
<1>2. Demotions \subseteq Demotions'
  BY DEF Demotions
<1>3. EventsOK => EventsOK'
  BY <1>1, <1>2 DEF EventsOK
<1> QED BY <1>1, <1>2, <1>3 DEF LastTo

\* A call that begins alone.
LEMMA BeginSerial ==
  ASSUME TypeOK, SerialInv, NEW c \in Calls, NEW r \in Call, Begin(c, r),
         r.at \in {"content", "check", "pending", "publishable", "unpublish"},
         r.at = "pending" /\ r.to = "validated" => r.verdict = "approved",
         r.at = "check" /\ r.to = "validated" => object.status = "obsolete",
         r.at = "content" => r.to # "validated"
  PROVE  SerialInv'
<1> SUFFICES ASSUME ~ overlapped'
             PROVE  SerialInv'
  BY DEF SerialInv
<1>1. ~ overlapped /\ Quiescent /\ object # None
  BY DEF Begin
<1>2. EventsOK /\ PublishedOK /\ Reviewed /\ StatusTold
  BY <1>1 DEF SerialInv
<1>3. object' = object /\ events' = events /\ reviewed' = reviewed
  BY DEF Begin
<1>4. (EventsOK /\ PublishedOK /\ Reviewed /\ StatusTold)'
  BY <1>2, <1>3, ToldStays DEF PublishedOK, Reviewed, StatusTold
<1>5. call'[c] = r /\ \A d \in Calls \ {c} : ~ Active(d)'
  BY <1>1 DEF Begin, TypeOK, Quiescent, Active
<1>6. PlaceOK(c)'
  BY <1>2, <1>3, <1>5 DEF PlaceOK, Reviewed
<1> QED BY <1>4, <1>5, <1>6 DEF SerialInv, SerialOK, Quiescent, Active

\* Where c is under way alone.
LEMMA GoesOnAlone ==
  ASSUME SerialInv, ~ overlapped, object # None, NEW c \in Calls, Active(c),
         overlapped' <=> overlapped,
         \A d \in Calls \ {c} : call'[d].at = call[d].at,
         SerialOK(c)'
  PROVE  SerialInv'
<1>1. \A d \in Calls \ {c} : ~ Active(d)
  BY DEF SerialInv
<1>2. \A d \in Calls \ {c} : ~ Active(d)'
  BY <1>1 DEF Active
<1>3. Quiescent' => (EventsOK /\ PublishedOK /\ Reviewed /\ StatusTold)'
  BY DEF Quiescent, Active, SerialOK
<1> QED BY <1>2, <1>3 DEF SerialInv

LEMMA StartSerial ==
  ASSUME TypeOK, SerialInv, NEW c \in Calls, Start(c)
  PROVE  SerialInv'
<1>1. CASE Update(c)
  <2> DEFINE r == [Idle EXCEPT !.op = "update", !.at = "content"]
  <2>1. r \in Call /\ r.at = "content" /\ r.to # "validated"
    BY DEF Idle, Call, Statuses, Verdicts
  <2>2. Begin(c, r)
    BY <1>1 DEF Update
  <2> QED BY <2>1, <2>2, BeginSerial
<1>2. CASE Revise(c)
  <2> DEFINE r == [Idle EXCEPT !.op = "revise", !.at = "content"]
  <2>1. r \in Call /\ r.at = "content" /\ r.to # "validated"
    BY DEF Idle, Call, Statuses, Verdicts
  <2>2. Begin(c, r)
    BY <1>2 DEF Revise
  <2> QED BY <2>1, <2>2, BeginSerial
<1>3. CASE Submit(c)
  <2> DEFINE r == [Idle EXCEPT !.op = "submit", !.at = "check"]
  <2>1. r \in Call /\ r.at = "check" /\ r.to # "validated"
    BY DEF Idle, Call, Statuses, Verdicts
  <2>2. Begin(c, r)
    BY <1>3 DEF Submit
  <2> QED BY <2>1, <2>2, BeginSerial
<1>4. CASE Publish(c)
  <2> DEFINE r == [Idle EXCEPT !.op = "publish", !.at = "publishable"]
  <2>1. r \in Call /\ r.at = "publishable"
    BY DEF Idle, Call, Statuses, Verdicts
  <2>2. Begin(c, r)
    BY <1>4 DEF Publish
  <2> QED BY <2>1, <2>2, BeginSerial
<1>5. CASE Unpublish(c)
  <2> DEFINE r == [Idle EXCEPT !.op = "unpublish", !.at = "unpublish"]
  <2>1. r \in Call /\ r.at = "unpublish"
    BY DEF Idle, Call, Statuses, Verdicts
  <2>2. Begin(c, r)
    BY <1>5 DEF Unpublish
  <2> QED BY <2>1, <2>2, BeginSerial
<1>6. ASSUME NEW q \in Calls, NEW v \in Verdicts, Decide(c, q, v)
      PROVE  SerialInv'
  <2> DEFINE to == IF v = "approved" THEN "validated" ELSE "draft"
  <2>1. to \in Statuses /\ (to = "validated" => v = "approved")
    BY DEF Statuses
  <2>2. Begin(c, [Idle EXCEPT !.op = "decide", !.at = "pending", !.request = q, !.verdict = v,
                              !.to = to])
    BY <1>6 DEF Decide, to
  <2> HIDE DEF to
  <2> DEFINE r == [Idle EXCEPT !.op = "decide", !.at = "pending", !.request = q, !.verdict = v,
                               !.to = to]
  <2>3. r \in Call /\ r.at = "pending" /\ r.to = to /\ r.verdict = v
    BY <2>1 DEF Idle, Call, Statuses, Verdicts
  <2> HIDE DEF r
  <2> QED BY <2>1, <2>2, <2>3, BeginSerial DEF r
<1>7. ASSUME NEW to \in {"obsolete", "archived", "validated"}, Retire(c, to)
      PROVE  SerialInv'
  <2> DEFINE r == [Idle EXCEPT !.op = "retire", !.at = "check", !.to = to]
  <2>1. r \in Call /\ r.at = "check" /\ r.to = to
    BY DEF Idle, Call, Statuses, Verdicts
  <2>2. Begin(c, r) /\ (to = "validated" => object.status = "obsolete")
    BY <1>7 DEF Retire
  <2> HIDE DEF r
  <2> QED BY <2>1, <2>2, BeginSerial
<1> QED BY <1>1, <1>2, <1>3, <1>4, <1>5, <1>6, <1>7 DEF Start

\* An object that is only read.
LEMMA ReadSerial ==
  ASSUME TypeOK, object # None, NEW c \in Calls, SerialOK(c),
         StillPending(c) \/ Check(c) \/ Request(c) \/ Mark(c) \/ Publishable(c)
  PROVE  SerialOK(c)'
<1> USE DEF Ats
<1>1. object' = object /\ events' = events
  BY DEF StillPending, Check, Request, Mark, Publishable
<1>2. (EventsOK => EventsOK') /\ LastTo' = LastTo /\ Demotions \subseteq Demotions'
  BY <1>1, ToldStays
<1>3. PublishedOK' <=> PublishedOK
  BY <1>1 DEF PublishedOK
<1>4. StatusTold => StatusTold'
  BY <1>1, <1>2 DEF StatusTold
<1>5. CASE StillPending(c)
  <2>1. /\ call'[c].at \in {"check", "over"}
        /\ call'[c].to = call[c].to
    BY <1>5, GotoKeeps DEF StillPending
  <2>2. Reviewed' /\ Reviewed
    BY <1>1, <1>5 DEF StillPending, SerialOK, Reviewed
  <2>3. EventsOK /\ PublishedOK /\ StatusTold
    BY <1>5 DEF StillPending, SerialOK
  <2>4. call'[c].at = "check" /\ call'[c].to = "validated" => object'.content \in reviewed'
    <3>1. call[c].to = "validated" => call[c].verdict = "approved"
      BY <1>5 DEF SerialOK, PlaceOK, StillPending
    <3>2. requests[call[c].request] # "pending" => call'[c].at = "over"
      BY <1>5, GotoKeeps DEF StillPending
    <3> QED BY <1>1, <1>5, <2>1, <3>1, <3>2 DEF StillPending
  <2>5. PlaceOK(c)'
    BY <2>1, <2>4 DEF PlaceOK
  <2> QED BY <1>2, <1>3, <1>4, <2>2, <2>3, <2>5 DEF SerialOK
<1>6. ASSUME reviewed' = reviewed
      PROVE  Reviewed' <=> Reviewed
  BY <1>1, <1>6 DEF Reviewed
<1>7. CASE Check(c)
  <2>1. /\ call'[c].at = IF call[c].to \in Allowed[object.status] THEN "from" ELSE "over"
        /\ call'[c].to = call[c].to
    BY <1>7, GotoKeeps DEF Check
  <2>2. PlaceOK(c)'
    BY <1>1, <1>7, <2>1 DEF Check, SerialOK, PlaceOK
  <2> QED BY <1>2, <1>3, <1>4, <1>6, <1>7, <2>2 DEF Check, SerialOK
<1>8. CASE Request(c) \/ Mark(c)
  <2>1. call'[c].at = "over"
    BY <1>8, GotoKeeps DEF Request, Mark
  <2>2. PlaceOK(c)'
    BY <2>1 DEF PlaceOK
  <2> QED BY <1>2, <1>3, <1>4, <1>6, <1>8, <2>2 DEF Request, Mark, SerialOK
<1>9. CASE Publishable(c)
  <2>1. call'[c].at = IF object.status = "validated" THEN "publish" ELSE "over"
    BY <1>9, GotoKeeps DEF Publishable
  <2>2. PlaceOK(c)'
    BY <1>1, <2>1 DEF PlaceOK
  <2> QED BY <1>2, <1>3, <1>4, <1>6, <1>9, <2>2 DEF Publishable, SerialOK
<1> QED BY <1>5, <1>7, <1>8, <1>9

\* A change of the content, or of the publication.
LEMMA WriteSerial ==
  ASSUME TypeOK, object # None, NEW c \in Calls, SerialOK(c),
         WriteContent(c) \/ Demote(c) \/ Unlist(c) \/ Hide(c) \/ SetPublished(c)
  PROVE  SerialOK(c)'
<1> USE DEF Ats
<1>0. object \in Object
  BY DEF TypeOK
<1>1. events' = events /\ reviewed' = reviewed
  BY DEF WriteContent, Demote, Unlist, Hide, SetPublished
<1>2. object'.content = object.content \/ object'.content # None
  <2>1. CASE WriteContent(c)
    <3>1. object'.content = c
      BY <1>0, <2>1, ObjectFields DEF WriteContent
    <3> QED BY <3>1, NoneAssumption
  <2>2. CASE Demote(c)
    BY <1>0, <2>2, ObjectFields DEF Demote
  <2>3. CASE Unlist(c) \/ Hide(c)
    <3>1. object' = [object EXCEPT !.published = FALSE]
      BY <2>3 DEF Unlist, Hide
    <3> QED BY <1>0, <3>1, ObjectFields
  <2>4. CASE SetPublished(c)
    <3> DEFINE b == call[c].at = "publish"
    <3>1. b \in BOOLEAN /\ object' = [object EXCEPT !.published = b]
      BY <2>4 DEF SetPublished
    <3> HIDE DEF b
    <3> QED BY <1>0, <3>1, ObjectFields
  <2> QED BY <2>1, <2>2, <2>3, <2>4
<1>3. (EventsOK => EventsOK') /\ LastTo' = LastTo /\ Demotions \subseteq Demotions'
  BY <1>1, <1>2, ToldStays
<1>4. CASE WriteContent(c)
  <2>1. call'[c].at = "demote" /\ call'[c].to = call[c].to
    BY <1>4, GotoKeeps DEF WriteContent
  <2>2. /\ object'.status = object.status /\ (object'.published <=> object.published)
        /\ object'.content # None
    BY <1>0, <1>4, ObjectFields, NoneAssumption DEF WriteContent
  <2> QED BY <1>3, <1>4, <2>1, <2>2
          DEF WriteContent, SerialOK, PlaceOK, PublishedOK, StatusTold
<1>5. CASE Demote(c)
  <2>1. call'[c].at = "unlist" /\ call'[c].to = call[c].to
    BY <1>5, GotoKeeps DEF Demote
  <2>2. object'.status = "draft" /\ object'.content = object.content
    BY <1>0, <1>5, ObjectFields DEF Demote
  <2>3. StatusTold'
    BY <1>5, <2>2 DEF Demote, SerialOK, PlaceOK, StatusTold, Demotions
  <2> QED BY <1>3, <1>5, <2>1, <2>2, <2>3 DEF Demote, SerialOK, PlaceOK, Reviewed
<1>6. CASE Unlist(c)
  <2>1. call'[c].at \in {"check", "over"} /\ call'[c].to = call[c].to
    BY <1>6, GotoKeeps DEF Unlist
  <2>2. ~ object'.published /\ object'.status = object.status
        /\ object'.content = object.content
    BY <1>0, <1>6, ObjectFields DEF Unlist
  <2> QED BY <1>1, <1>3, <1>6, <2>1, <2>2
          DEF Unlist, SerialOK, PlaceOK, PublishedOK, Reviewed, StatusTold
<1>7. CASE Hide(c)
  <2>1. call'[c].at = "log" /\ call'[c].to = call[c].to /\ call'[c].from = call[c].from
    BY <1>7, GotoKeeps DEF Hide
  <2>2. ~ object'.published /\ object'.status = object.status
        /\ object'.content = object.content
    BY <1>0, <1>7, ObjectFields DEF Hide
  <2> QED BY <1>1, <1>3, <1>7, <2>1, <2>2
          DEF Hide, SerialOK, PlaceOK, PublishedOK, Reviewed
<1>8. CASE SetPublished(c)
  <2>1. call'[c].at = "over"
    BY <1>8, GotoKeeps DEF SetPublished
  <2> DEFINE b == call[c].at = "publish"
  <2>2. b \in BOOLEAN /\ object' = [object EXCEPT !.published = b]
    BY <1>8 DEF SetPublished
  <2> HIDE DEF b
  <2>3. /\ object'.published <=> b
        /\ object'.status = object.status
        /\ object'.content = object.content
    BY <1>0, <2>2, ObjectFields
  <2> QED BY <1>1, <1>3, <1>8, <2>1, <2>3
          DEF b, SetPublished, SerialOK, PlaceOK, PublishedOK, Reviewed, StatusTold
<1> QED BY <1>4, <1>5, <1>6, <1>7, <1>8

LEMMA ReadFromSerial ==
  ASSUME TypeOK, object # None, NEW c \in Calls, SerialOK(c), ReadFrom(c)
  PROVE  SerialOK(c)'
<1>1. call'[c].at = "set" /\ call'[c].to = call[c].to /\ call'[c].from = object.status
  BY DEF ReadFrom, TypeOK, Call
<1>2. object' = object /\ events' = events /\ reviewed' = reviewed
  BY DEF ReadFrom
<1>3. (EventsOK => EventsOK') /\ LastTo' = LastTo /\ Demotions \subseteq Demotions'
  BY <1>2, ToldStays
<1> QED BY <1>1, <1>2, <1>3
        DEF ReadFrom, SerialOK, PlaceOK, PublishedOK, Reviewed, StatusTold

\* The transition: an object gets into one of the three states whose content has been
\* approved by an approval, or from another of them.
LEMMA SetStatusSerial ==
  ASSUME TypeOK, object # None, NEW c \in Calls, SerialOK(c), SetStatus(c)
  PROVE  SerialOK(c)'
<1> DEFINE p == IF call[c].to = "validated" THEN "log" ELSE "hide"
<1>0. object \in Object /\ object.status \in Statuses
  BY DEF TypeOK, Object
<1>1. call'[c].at = p /\ call'[c].to = call[c].to /\ call'[c].from = call[c].from
  BY GotoKeeps DEF SetStatus, Ats
<1>2. object'.status = call[c].to /\ object'.content = object.content
  BY <1>0, ObjectFields DEF SetStatus
<1>3. events' = events /\ reviewed' = reviewed /\ call[c].at = "set"
  BY DEF SetStatus
<1>4. (EventsOK => EventsOK') /\ LastTo' = LastTo /\ Demotions \subseteq Demotions'
  BY <1>2, <1>3, ToldStays
<1>5. /\ call[c].to \in Allowed[object.status] /\ call[c].from = object.status
      /\ call[c].to = "validated" => object.content \in reviewed
      /\ EventsOK /\ Reviewed /\ StatusTold
  BY <1>3 DEF SerialOK, PlaceOK
<1>6. Reviewed'
  BY <1>0, <1>2, <1>3, <1>5, AllowedMeans DEF Reviewed
<1>7. PlaceOK(c)'
  BY <1>1, <1>2, <1>4, <1>5 DEF PlaceOK, StatusTold
<1>8. call'[c].at # "hide" => PublishedOK'
  BY <1>1, <1>2 DEF PublishedOK
<1> QED BY <1>1, <1>4, <1>5, <1>6, <1>7, <1>8 DEF SerialOK

\* The event tells the transition that was made.
LEMMA LogSerial ==
  ASSUME TypeOK, object # None, NEW c \in Calls, SerialOK(c), Log(c)
  PROVE  SerialOK(c)'
<1> DEFINE p == CASE call[c].op = "decide" -> "mark"
                  [] call[c].op = "retire" -> "over"
                  [] OTHER -> "request"
           e == [from |-> call[c].from, to |-> call[c].to]
<1>1. call'[c].at \in {"mark", "over", "request"}
  <2>1. p \in {"mark", "over", "request"}
    OBVIOUS
  <2> QED BY <2>1, GotoKeeps DEF Log, Ats
<1>2. object' = object /\ reviewed' = reviewed /\ events' = Append(events, e)
  BY DEF Log
<1>3. /\ object.status = call[c].to /\ call[c].to \in Allowed[call[c].from]
      /\ call[c].from \in {LastTo} \cup Demotions /\ EventsOK /\ PublishedOK /\ Reviewed
  BY DEF Log, SerialOK, PlaceOK
<1>4. events \in Seq(Event)
  BY DEF TypeOK
<1> HIDE DEF e
<1>5. /\ Len(events') = Len(events) + 1 /\ Len(events) \in Nat
      /\ DOMAIN events' = 1 .. Len(events) + 1 /\ DOMAIN events = 1 .. Len(events)
      /\ events'[Len(events) + 1] = e
      /\ \A i \in 1 .. Len(events) : events'[i] = events[i]
  BY <1>2, <1>4
<1>6. e.from = call[c].from /\ e.to = call[c].to
  BY DEF e
<1>7. /\ Demotions' = Demotions
      /\ \A i \in 0 .. Len(events) : Told(i)' = Told(i)
  <2>1. Demotions' = Demotions
    BY <1>2 DEF Demotions
  <2>2. ASSUME NEW i \in 0 .. Len(events)
        PROVE  Told(i)' = Told(i)
    <3>1. CASE i = 0
      BY <3>1 DEF Told
    <3>2. CASE i # 0
      BY <1>5, <3>2 DEF Told
    <3> QED BY <3>1, <3>2
  <2> QED BY <2>1, <2>2
<1>8. LastTo' = call[c].to /\ EventsOK'
  <2>1. LastTo' = call[c].to
    BY <1>5, <1>6 DEF LastTo, Told
  <2>2. ASSUME NEW i \in 1 .. Len(events) + 1
        PROVE  /\ events'[i].to \in Allowed[events'[i].from]
               /\ events'[i].from \in {Told(i - 1)'} \cup Demotions'
    <3>1. CASE i \in 1 .. Len(events)
      <4>1. i - 1 \in 0 .. Len(events)
        BY <1>5, <3>1
      <4> QED BY <1>3, <1>5, <1>7, <3>1, <4>1 DEF EventsOK
    <3>2. CASE i = Len(events) + 1
      <4>1. i - 1 = Len(events) /\ Len(events) \in 0 .. Len(events)
        BY <1>5, <3>2
      <4> QED BY <1>3, <1>5, <1>6, <1>7, <3>2, <4>1 DEF LastTo
    <3> QED BY <1>5, <3>1, <3>2
  <2>3. EventsOK'
    BY <1>5, <2>2 DEF EventsOK
  <2> QED BY <2>1, <2>3
<1>9. StatusTold' /\ PublishedOK' /\ Reviewed'
  BY <1>2, <1>3, <1>8 DEF StatusTold, PublishedOK, Reviewed
<1>10. PlaceOK(c)'
  BY <1>1 DEF PlaceOK
<1> QED BY <1>8, <1>9, <1>10 DEF SerialOK

LEMMA ContinueSerial ==
  ASSUME TypeOK, SerialInv, object # None, NEW c \in Calls, Continue(c)
  PROVE  SerialInv'
<1>1. overlapped' = overlapped
  BY Zenon DEF Continue, WriteContent, Demote, Unlist, StillPending, Check, ReadFrom, SetStatus,
               Hide, Log, Request, Mark, Publishable, SetPublished
<1>2. SUFFICES ASSUME ~ overlapped
               PROVE  SerialInv'
  BY <1>1 DEF SerialInv
<1>3. Active(c)
  BY DEF Active, Continue, WriteContent, Demote, Unlist, StillPending, Check, ReadFrom,
         SetStatus, Hide, Log, Request, Mark, Publishable, SetPublished
<1>4. SerialOK(c)
  BY <1>2, <1>3 DEF SerialInv
<1>5. SerialOK(c)'
  BY <1>4, ReadSerial, WriteSerial, ReadFromSerial, SetStatusSerial, LogSerial DEF Continue
<1>6. \A d \in Calls \ {c} : call'[d].at = call[d].at
  BY DEF TypeOK, Goto, Continue, WriteContent, Demote, Unlist, StillPending, Check, ReadFrom,
         SetStatus, Hide, Log, Request, Mark, Publishable, SetPublished
<1> QED BY <1>1, <1>2, <1>3, <1>5, <1>6, GoesOnAlone

LEMMA CreateSerial ==
  ASSUME TypeOK, Unborn, events = <<>>, Create
  PROVE  SerialInv'
<1>1. \A c \in Calls : ~ Active(c)'
  BY DEF Create, Unborn, Active
<1>2. /\ object'.status = "draft" /\ ~ object'.published
      /\ events' = <<>>
  BY DEF Create
<1>3. EventsOK' /\ PublishedOK' /\ Reviewed' /\ StatusTold'
  BY <1>2 DEF EventsOK, PublishedOK, Reviewed, StatusTold, LastTo, Told
<1> QED BY <1>1, <1>3 DEF SerialInv

\* An object that does not exist has no history.
Untold == object = None => events = <<>>

LEMMA SerialStep ==
  ASSUME TypeOK, Unborn, Untold, SerialInv, Next
  PROVE  Untold' /\ SerialInv'
<1>1. CASE Create
  <2>1. events' = events /\ object = None
    BY <1>1 DEF Create
  <2> QED BY <1>1, <2>1, CreateSerial DEF Untold
<1>2. ASSUME NEW c \in Calls, Start(c)
      PROVE  Untold' /\ SerialInv'
  <2>1. object' = object /\ object # None
    BY <1>2 DEF Start, Update, Revise, Submit, Publish, Unpublish, Decide, Retire, Begin
  <2> QED BY <1>2, <2>1, StartSerial DEF Untold
<1>3. ASSUME NEW c \in Calls, Continue(c)
      PROVE  Untold' /\ SerialInv'
  <2>1. object # None
    BY <1>3 DEF Unborn, Continue, WriteContent, Demote, Unlist, StillPending, Check,
                ReadFrom, SetStatus, Hide, Log, Request, Mark, Publishable, SetPublished
  <2>2. object' # None
    <3>1. Unborn'
      BY <1>3, UnbornStep DEF Next
    <3>2. call'[c].at # "idle"
      BY <1>3 DEF TypeOK, Call, Goto, Continue, WriteContent, Demote, Unlist, StillPending, Check,
                  ReadFrom, SetStatus, Hide, Log, Request, Mark, Publishable, SetPublished
    <3> QED BY <3>1, <3>2 DEF Unborn
  <2> QED BY <1>3, <2>1, <2>2, ContinueSerial DEF Untold
<1> QED BY <1>1, <1>2, <1>3 DEF Next

\* As long as no two calls overlap, an object lives by the table of transitions and by
\* update_content, and its events tell all of it but the changes of its content.
THEOREM Serial == Spec => []SerialLifecycle
<1>1. Init => Untold /\ SerialInv
  <2> SUFFICES ASSUME Init
               PROVE  Untold /\ SerialInv
    OBVIOUS
  <2>1. object = None /\ events = <<>>
    BY Zenon DEF Init
  <2> QED BY <2>1 DEF Untold, SerialInv
<1>2. TypeOK /\ Unborn /\ Untold /\ SerialInv /\ [Next]_vars => (Untold /\ SerialInv)'
  <2> SUFFICES ASSUME TypeOK, Unborn, Untold, SerialInv, [Next]_vars
               PROVE  Untold' /\ SerialInv'
    OBVIOUS
  <2>1. CASE UNCHANGED vars
    <3>1. /\ object' = object /\ events' = events /\ call' = call /\ reviewed' = reviewed
          /\ overlapped' = overlapped
      BY <2>1 DEF vars
    <3> QED BY <3>1 DEF Untold, SerialInv, SerialOK, PlaceOK, Active, Quiescent, EventsOK,
                        PublishedOK, Reviewed, StatusTold, LastTo, Told, Demotions
  <2> QED BY <2>1, SerialStep
<1>3. SerialInv => SerialLifecycle
  BY DEF SerialInv, SerialLifecycle, EventsOK, PublishedOK, Reviewed, StatusTold, LastTo
<1> QED BY <1>1, <1>2, <1>3, TypeCorrect, PTL DEF Spec
=============================================================================
