-------------------------- MODULE HumanValidation --------------------------
(***************************************************************************)
(* A request for human validation of an AI production: one tier of         *)
(* approvers of whom one (simple) or all (multiple) must approve, or an    *)
(* ordered sequence of tiers each of which needs an approval               *)
(* (hierarchical). Every decision is appended to the history, and the      *)
(* status is recomputed from it.                                           *)
(*                                                                         *)
(* The routes that decide are synchronous, so every call of decide runs in *)
(* a thread of its own. The request is one object that all of them share,  *)
(* and no lock is taken: each reading of the history is an action.         *)
(***************************************************************************)
EXTENDS Naturals, Sequences

CONSTANTS
  Approvers,  \* the ids of the approvers
  Calls,      \* the calls of decide
  Requested   \* the requests that may be made: a mode and the tiers

Modes == {"simple", "multiple", "hierarchical"}
Decisions == {"approve", "reject", "request_revision"}
Statuses == {"pending", "approved", "rejected", "revision_requested"}

ASSUME RequestedAssumption ==
  Requested \subseteq [mode : Modes, tiers : Seq(SUBSET Approvers)]

\* The modes of one tier are asked for with a tuple of approvers, not of tiers.
ASSUME OneTierAssumption ==
  \A r \in Requested : r.mode \in {"simple", "multiple"} => Len(r.tiers) = 1

VARIABLES
  request,  \* ValidationRequest.mode and approver_tiers; mode "none" before it is made
  status,   \* ValidationRequest.status
  history,  \* ValidationRequest.history
  call,     \* call[c]: where call c is, its decision, and the tier it looks at
  alone     \* history variable: the calls under way that no other has overlapped

vars == <<request, status, history, call, alone>>

Entry == [approver : Approvers, decision : Decisions, tier : Nat \ {0}]

Call == [pc : {"idle", "current", "append", "reject", "revision", "tiers", "write", "over"},
         approver : Approvers, decision : Decisions, tier : Nat \ {0},
         verdict : Statuses]

TypeOK ==
  /\ request \in [mode : Modes \cup {"none"}, tiers : Seq(SUBSET Approvers)]
  /\ status \in Statuses
  /\ history \in Seq(Entry)
  /\ call \in [Calls -> Call]
  /\ alone \subseteq Calls

Started(pc, a, d) ==
  [pc |-> pc, approver |-> a, decision |-> d, tier |-> 1, verdict |-> "pending"]

Init ==
  /\ request = [mode |-> "none", tiers |-> <<>>]
  /\ status = "pending"
  /\ history = <<>>
  /\ \E a \in Approvers : call = [c \in Calls |-> Started("idle", a, "approve")]
  /\ alone = {}

-----------------------------------------------------------------------------
Tiers == DOMAIN request.tiers

\* Those who have approved tier k. Nobody asks whether they belong to it.
Approvals(k) ==
  {history[i].approver : i \in {j \in DOMAIN history :
                                  history[j].tier = k /\ history[j].decision = "approve"}}

\* Mutant of TierApproved: one approval is enough in every mode.
TierApprovedByAny(k) == Approvals(k) # {}

TierApproved(k) ==
  IF request.mode = "multiple" THEN request.tiers[k] \subseteq Approvals(k)
                               ELSE Approvals(k) # {}

Holds(decision) == \E i \in DOMAIN history : history[i].decision = decision

Active(c) == call[c].pc \notin {"idle", "over"}

-----------------------------------------------------------------------------
(* request_simple, request_multiple, request_hierarchical                  *)

Request ==
  /\ request.mode = "none"
  /\ request' \in Requested
  /\ UNCHANGED <<status, history, call, alone>>

-----------------------------------------------------------------------------
(* decide                                                                  *)

\* Whatever the status is: a request that is settled takes decisions still.
Decide(c) ==
  /\ request.mode # "none"
  /\ call[c].pc = "idle"
  /\ \E a \in Approvers, d \in Decisions :
       call' = [call EXCEPT ![c] = Started("current", a, d)]
  /\ alone' = IF \E f \in Calls : Active(f) THEN {} ELSE {c}
  /\ UNCHANGED <<request, status, history>>

\* Mutant of CurrentTier: a tier is passed when the last one is not.
CurrentTierSkips(c) ==
  LET k == call[c].tier IN
  /\ call[c].pc = "current"
  /\ call' = [call EXCEPT ![c] =
                IF k < Len(request.tiers) /\ ~ TierApproved(k)
                THEN [@ EXCEPT !.tier = k + 1] ELSE [@ EXCEPT !.pc = "append"]]
  /\ UNCHANGED <<request, status, history, alone>>

\* Mutant of CurrentTier: without tiers, the last one is before the first.
CurrentTierUnclamped(c) ==
  LET k == call[c].tier IN
  /\ call[c].pc = "current"
  /\ call' = [call EXCEPT ![c] =
                IF k < Len(request.tiers) /\ TierApproved(k)
                THEN [@ EXCEPT !.tier = k + 1]
                ELSE [@ EXCEPT !.pc = "append", !.tier = IF Tiers = {} THEN 0 ELSE k]]
  /\ UNCHANGED <<request, status, history, alone>>

\* The decision is for the first tier that is not approved yet, or for the last.
CurrentTier(c) ==
  LET k == call[c].tier IN
  /\ call[c].pc = "current"
  /\ call' = [call EXCEPT ![c] =
                IF k < Len(request.tiers) /\ TierApproved(k)
                THEN [@ EXCEPT !.tier = k + 1] ELSE [@ EXCEPT !.pc = "append"]]
  /\ UNCHANGED <<request, status, history, alone>>

AppendEntry(c) ==
  /\ call[c].pc = "append"
  /\ history' = Append(history, [approver |-> call[c].approver,
                                 decision |-> call[c].decision, tier |-> call[c].tier])
  /\ call' = [call EXCEPT ![c].pc = "reject"]
  /\ UNCHANGED <<request, status, alone>>

\* Mutant of CheckRejected: only the decision being recorded can reject.
CheckRejectedLatest(c) ==
  /\ call[c].pc = "reject"
  /\ call' = [call EXCEPT ![c] =
                IF call[c].decision = "reject"
                THEN [@ EXCEPT !.pc = "write", !.verdict = "rejected"]
                ELSE [@ EXCEPT !.pc = "revision"]]
  /\ UNCHANGED <<request, status, history, alone>>

\* The status: a rejection settles it, then a request for revision, ...
CheckRejected(c) ==
  /\ call[c].pc = "reject"
  /\ call' = [call EXCEPT ![c] =
                IF Holds("reject") THEN [@ EXCEPT !.pc = "write", !.verdict = "rejected"]
                                   ELSE [@ EXCEPT !.pc = "revision"]]
  /\ UNCHANGED <<request, status, history, alone>>

CheckRevision(c) ==
  /\ call[c].pc = "revision"
  /\ call' = [call EXCEPT ![c] =
                IF Holds("request_revision")
                THEN [@ EXCEPT !.pc = "write", !.verdict = "revision_requested"]
                ELSE [@ EXCEPT !.pc = "tiers", !.tier = 1]]
  /\ UNCHANGED <<request, status, history, alone>>

\* ... and else every tier must be approved.
CheckTier(c) ==
  LET k == call[c].tier IN
  /\ call[c].pc = "tiers"
  /\ call' = [call EXCEPT ![c] =
                IF k \notin Tiers THEN [@ EXCEPT !.pc = "write", !.verdict = "approved"]
                ELSE IF TierApproved(k) THEN [@ EXCEPT !.tier = k + 1]
                ELSE [@ EXCEPT !.pc = "write", !.verdict = "pending"]]
  /\ UNCHANGED <<request, status, history, alone>>

WriteStatus(c) ==
  /\ call[c].pc = "write"
  /\ status' = call[c].verdict
  /\ call' = [call EXCEPT ![c].pc = "over"]
  /\ alone' = alone \ {c}
  /\ UNCHANGED <<request, history>>

Next ==
  \/ Request
  \/ \E c \in Calls :
       \/ Decide(c) \/ CurrentTier(c) \/ AppendEntry(c) \/ CheckRejected(c)
       \/ CheckRevision(c) \/ CheckTier(c) \/ WriteStatus(c)

Spec == Init /\ [][Next]_vars
-----------------------------------------------------------------------------
(* Properties                                                              *)

\* The approval of tier k is in the first n entries of the history.
ApprovedWithin(n, k) ==
  LET approvals == {i \in 1 .. n : history[i].tier = k /\ history[i].decision = "approve"}
  IN  IF request.mode = "multiple"
      THEN \A a \in request.tiers[k] : \E i \in approvals : history[i].approver = a
      ELSE approvals # {}

\* A tier is not considered before every tier below it: a decision recorded for a
\* tier comes after the approval of all the tiers before, however the calls of
\* decide overlap.
TiersInOrder ==
  \A i \in DOMAIN history :
    \A k \in Tiers : k < history[i].tier => ApprovedWithin(i - 1, k)

\* Those who decided for tier k all belong to it. Nothing in decide sees to that.
DecidedByMembers(k) ==
  \A i \in DOMAIN history : history[i].tier = k => history[i].approver \in request.tiers[k]

\* Tier k is approved from within: by one of its members, or by all in mode multiple.
ApprovedFromWithin(k) ==
  LET approvers == {a \in request.tiers[k] :
                      \E i \in DOMAIN history :
                        history[i] = [approver |-> a, decision |-> "approve", tier |-> k]}
  IN  IF request.mode = "multiple" THEN approvers = request.tiers[k] ELSE approvers # {}

\* An approved request has an approval for every tier, even if calls overlap and the
\* statuses they compute are stale when they write them: that of every member in mode
\* multiple, and else one, which is a member's only as long as members alone decide.
EveryTierHasApproval ==
  status = "approved" =>
    \A k \in Tiers :
      /\ ApprovedWithin(Len(history), k)
      /\ DecidedByMembers(k) => ApprovedFromWithin(k)

\* What the history means, stated once and for all: decisions settle a request by
\* severity, not by date.
Outcome ==
  LET recorded == {history[i].decision : i \in DOMAIN history} IN
  IF "reject" \in recorded THEN "rejected"
  ELSE IF "request_revision" \in recorded THEN "revision_requested"
  ELSE IF \A k \in Tiers : ApprovedWithin(Len(history), k) THEN "approved"
  ELSE "pending"

\* A decision that no other one overlaps leaves the status its history calls for.
AloneSettles ==
  [][\A c \in Calls :
       c \in alone /\ call[c].pc = "write" /\ call'[c].pc = "over"
         => status' = Outcome']_vars
=============================================================================
