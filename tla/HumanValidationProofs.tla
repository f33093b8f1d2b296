----------------------- MODULE HumanValidationProofs -----------------------
(***************************************************************************)
(* What holds of every request for validation, whatever its tiers and      *)
(* however many calls of decide overlap. The history only grows, so that   *)
(* an approval a call has seen is still there when it writes what it       *)
(* computed: OrderInv says which approvals each call has seen. A call that *)
(* runs alone has, on top, seen the whole history: AloneInv.               *)
(***************************************************************************)
EXTENDS HumanValidation, TLAPS

\* The tiers below the one a call looks at are approved.
SeenBelow(c) ==
  \A k \in Tiers : k < call[c].tier => ApprovedWithin(Len(history), k)

EveryTierApproved == \A k \in Tiers : ApprovedWithin(Len(history), k)

\* Before the request is made nobody decides.
Unmade ==
  request.mode = "none" =>
    status = "pending" /\ history = <<>> /\ \A c \in Calls : call[c].pc = "idle"

CallInv(c) ==
  /\ call[c].pc \in {"current", "append", "tiers"} => SeenBelow(c)
  /\ call[c].pc = "write" /\ call[c].verdict = "approved" => EveryTierApproved

\* A status that says approved rests on the history, whenever it was computed.
StatusInv == status = "approved" => EveryTierApproved

OrderInv == Unmade /\ TiersInOrder /\ StatusInv /\ \A c \in Calls : CallInv(c)

-----------------------------------------------------------------------------
\* Approvals of the history stay approvals when an entry is appended.
LEMMA ApprovedStays ==
  ASSUME history \in Seq(Entry), NEW e, history' = Append(history, e),
         request' = request, NEW k, NEW n \in Nat, n <= Len(history),
         NEW m \in Nat, n <= m, m <= Len(history) + 1,
         ApprovedWithin(n, k)
  PROVE  ApprovedWithin(m, k)'
<1>1. \A i \in 1 .. n : i \in 1 .. m /\ history'[i] = history[i]
  OBVIOUS
<1>2. CASE request.mode = "multiple"
  BY <1>1, <1>2 DEF ApprovedWithin
<1>3. CASE request.mode # "multiple"
  BY <1>1, <1>3 DEF ApprovedWithin
<1> QED BY <1>2, <1>3

\* The code's test of a tier is the reference one over the whole history.
LEMMA TierApprovedMeans ==
  ASSUME history \in Seq(Entry), NEW k
  PROVE  TierApproved(k) <=> ApprovedWithin(Len(history), k)
<1>1. DOMAIN history = 1 .. Len(history)
  OBVIOUS
<1>2. CASE request.mode = "multiple"
  BY <1>1, <1>2 DEF TierApproved, Approvals, ApprovedWithin
<1>3. CASE request.mode # "multiple"
  BY <1>1, <1>3 DEF TierApproved, Approvals, ApprovedWithin
<1> QED BY <1>2, <1>3
-----------------------------------------------------------------------------
\* The updates of a call keep its type.
LEMMA CallUpdates ==
  ASSUME NEW r \in Call
  PROVE  /\ \A k \in Nat \ {0} : [r EXCEPT !.tier = k] \in Call
         /\ \A p \in {"append", "reject", "revision", "over"} : [r EXCEPT !.pc = p] \in Call
         /\ [r EXCEPT !.pc = "tiers", !.tier = 1] \in Call
         /\ \A v \in Statuses : [r EXCEPT !.pc = "write", !.verdict = v] \in Call
<1>1. ASSUME NEW q \in Call, NEW k \in Nat \ {0} PROVE [q EXCEPT !.tier = k] \in Call
  BY DEF Call
<1>2. ASSUME NEW p \in {"append", "reject", "revision", "over"} PROVE [r EXCEPT !.pc = p] \in Call
  BY DEF Call
<1>3. [r EXCEPT !.pc = "tiers", !.tier = 1] \in Call
  <2>1. [r EXCEPT !.pc = "tiers"] \in Call
    BY DEF Call
  <2>2. 1 \in Nat \ {0}
    OBVIOUS
  <2>3. [[r EXCEPT !.pc = "tiers"] EXCEPT !.tier = 1] \in Call
    BY <2>1, <2>2, <1>1, Zenon
  <2>4. [r EXCEPT !.pc = "tiers", !.tier = 1] = [[r EXCEPT !.pc = "tiers"] EXCEPT !.tier = 1]
    OBVIOUS
  <2> QED BY <2>3, <2>4, Zenon
<1>4. ASSUME NEW v \in Statuses PROVE [r EXCEPT !.pc = "write", !.verdict = v] \in Call
  BY DEF Call
<1> QED BY <1>1, <1>2, <1>3, <1>4

LEMMA InitTypeOK == Init => TypeOK
<1> SUFFICES ASSUME Init PROVE TypeOK
  OBVIOUS
<1>1. PICK a \in Approvers : call = [c \in Calls |-> Started("idle", a, "approve")]
  BY DEF Init
<1>2. Started("idle", a, "approve") \in Call
  BY DEF Started, Call, Decisions, Statuses
<1>3. call \in [Calls -> Call]
  BY <1>1, <1>2
<1>4. request \in [mode : Modes \cup {"none"}, tiers : Seq(SUBSET Approvers)]
  BY DEF Init
<1>5. history \in Seq(Entry) /\ status \in Statuses
  BY DEF Init, Statuses
<1> QED BY <1>3, <1>4, <1>5 DEF Init, TypeOK

LEMMA NextTypeOK == TypeOK /\ [Next]_vars => TypeOK'
<1> SUFFICES ASSUME TypeOK, [Next]_vars PROVE TypeOK'
  OBVIOUS
<1>a. ASSUME NEW c \in Calls, NEW r \in Call, call' = [call EXCEPT ![c] = r],
             request' = request, status' \in Statuses, history' \in Seq(Entry),
             alone' \subseteq Calls
      PROVE  TypeOK'
  BY <1>a DEF TypeOK
<1>b. \A c \in Calls : call[c] \in Call
  BY DEF TypeOK
<1>c. \A c \in Calls : call[c].tier \in Nat \ {0} /\ call[c].verdict \in Statuses
  BY <1>b DEF Call
<1>1. CASE Request
  BY <1>1, RequestedAssumption DEF Request, TypeOK
<1>2. ASSUME NEW c \in Calls, Decide(c) PROVE TypeOK'
  <2>1. PICK a \in Approvers, d \in Decisions :
          call' = [call EXCEPT ![c] = Started("current", a, d)]
    BY <1>2 DEF Decide
  <2>2. Started("current", a, d) \in Call
    BY DEF Started, Call, Statuses
  <2>3. alone' \subseteq Calls
    BY <1>2 DEF Decide
  <2> QED BY <1>2, <1>a, <2>1, <2>2, <2>3 DEF Decide, TypeOK
<1>3. ASSUME NEW c \in Calls, CurrentTier(c) PROVE TypeOK'
  <2>1. call[c].tier + 1 \in Nat \ {0}
    BY <1>c
  <2>2. /\ [call[c] EXCEPT !.tier = call[c].tier + 1] \in Call
        /\ [call[c] EXCEPT !.pc = "append"] \in Call
    BY <1>b, <2>1, CallUpdates
  <2> QED BY <1>3, <1>a, <2>2 DEF CurrentTier, TypeOK
<1>4. ASSUME NEW c \in Calls, AppendEntry(c) PROVE TypeOK'
  <2>1. [call[c] EXCEPT !.pc = "reject"] \in Call
    BY <1>b, CallUpdates
  <2>2. history' \in Seq(Entry)
    BY <1>4, <1>b DEF AppendEntry, TypeOK, Call, Entry
  <2> QED BY <1>4, <1>a, <2>1, <2>2 DEF AppendEntry, TypeOK
<1>5. ASSUME NEW c \in Calls, CheckRejected(c) PROVE TypeOK'
  <2>1. /\ [call[c] EXCEPT !.pc = "write", !.verdict = "rejected"] \in Call
        /\ [call[c] EXCEPT !.pc = "revision"] \in Call
    BY <1>b, CallUpdates DEF Statuses
  <2> QED BY <1>5, <1>a, <2>1 DEF CheckRejected, TypeOK
<1>6. ASSUME NEW c \in Calls, CheckRevision(c) PROVE TypeOK'
  <2>1. /\ [call[c] EXCEPT !.pc = "write", !.verdict = "revision_requested"] \in Call
        /\ [call[c] EXCEPT !.pc = "tiers", !.tier = 1] \in Call
    BY <1>b, CallUpdates DEF Statuses
  <2> QED BY <1>6, <1>a, <2>1 DEF CheckRevision, TypeOK
<1>7. ASSUME NEW c \in Calls, CheckTier(c) PROVE TypeOK'
  <2>1. /\ [call[c] EXCEPT !.pc = "write", !.verdict = "approved"] \in Call
        /\ [call[c] EXCEPT !.pc = "write", !.verdict = "pending"] \in Call
    BY <1>b, CallUpdates DEF Statuses
  <2>2. call[c].tier + 1 \in Nat \ {0}
    BY <1>c
  <2>3. [call[c] EXCEPT !.tier = call[c].tier + 1] \in Call
    BY <1>b, <2>2, CallUpdates
  <2> QED BY <1>7, <1>a, <2>1, <2>3 DEF CheckTier, TypeOK
<1>8. ASSUME NEW c \in Calls, WriteStatus(c) PROVE TypeOK'
  <2>1. [call[c] EXCEPT !.pc = "over"] \in Call
    BY <1>b, CallUpdates
  <2> QED BY <1>8, <1>a, <1>c, <2>1 DEF WriteStatus, TypeOK
<1>9. CASE UNCHANGED vars
  BY <1>9 DEF vars, TypeOK
<1> QED BY <1>1, <1>2, <1>3, <1>4, <1>5, <1>6, <1>7, <1>8, <1>9 DEF Next

\* The variables always have values the code can give them.
THEOREM TypeCorrect == Spec => []TypeOK
<1>1. Init => TypeOK
  BY InitTypeOK
<1>2. TypeOK /\ [Next]_vars => TypeOK'
  BY NextTypeOK
<1> QED BY <1>1, <1>2, PTL DEF Spec
-----------------------------------------------------------------------------
(* The order of the tiers                                                  *)

\* The history as it was, and the calls that have seen it.
LEMMA OrderKept ==
  ASSUME TypeOK, OrderInv, request.mode # "none", request' = request, history' = history,
         status' = status,
         NEW c \in Calls, NEW r \in Call, call' = [call EXCEPT ![c] = r],
         CallInv(c)'
  PROVE  OrderInv'
<1>1. Unmade' /\ TiersInOrder' /\ StatusInv'
  BY DEF OrderInv, Unmade, TiersInOrder, StatusInv, EveryTierApproved, ApprovedWithin, Tiers
<1>2. ASSUME NEW d \in Calls, d # c PROVE CallInv(d)'
  <2>1. call'[d] = call[d]
    BY <1>2 DEF TypeOK
  <2> QED BY <2>1 DEF OrderInv, CallInv, SeenBelow, EveryTierApproved, ApprovedWithin, Tiers
<1> QED BY <1>1, <1>2 DEF OrderInv

LEMMA NextOrderInv == TypeOK /\ TypeOK' /\ OrderInv /\ [Next]_vars => OrderInv'
<1> SUFFICES ASSUME TypeOK, TypeOK', OrderInv, [Next]_vars PROVE OrderInv'
  OBVIOUS
<1>b. \A c \in Calls : call[c] \in Call /\ call'[c] \in Call
  BY DEF TypeOK
<1>c. \A c \in Calls : call[c].tier \in Nat \ {0}
  BY <1>b DEF Call
<1>d. \A c \in Calls : call[c].pc # "idle" => request.mode # "none"
  BY DEF OrderInv, Unmade
<1>e. history \in Seq(Entry) /\ Len(history) \in Nat
  BY DEF TypeOK
<1>1. CASE Request
  <2>1. status = "pending" /\ history = <<>> /\ \A c \in Calls : call[c].pc = "idle"
    BY <1>1 DEF Request, OrderInv, Unmade
  <2>2. UNCHANGED <<status, history, call>>
    BY <1>1 DEF Request
  <2> QED BY <2>1, <2>2 DEF OrderInv, Unmade, TiersInOrder, StatusInv, EveryTierApproved, CallInv
<1>2. ASSUME NEW c \in Calls, Decide(c) PROVE OrderInv'
  <2>1. PICK a \in Approvers, d \in Decisions :
          call' = [call EXCEPT ![c] = Started("current", a, d)]
    BY <1>2 DEF Decide
  <2>2. call'[c].pc = "current" /\ call'[c].tier = 1
    BY <2>1 DEF Started, TypeOK
  <2>3. \A k \in Tiers' : ~ k < 1
    BY DEF Tiers, TypeOK
  <2>4. CallInv(c)'
    BY <2>2, <2>3 DEF CallInv, SeenBelow
  <2>5. Started("current", a, d) \in Call
    BY DEF Started, Call, Statuses
  <2> QED BY <1>2, <2>1, <2>4, <2>5, OrderKept DEF Decide
<1>3. ASSUME NEW c \in Calls, CurrentTier(c) PROVE OrderInv'
  <2> DEFINE k == call[c].tier
  <2>1. SeenBelow(c) /\ UNCHANGED <<request, status, history>>
    BY <1>3 DEF CurrentTier, OrderInv, CallInv
  <2>2. CASE k < Len(request.tiers) /\ TierApproved(k)
    <3>1. call'[c].tier = k + 1 /\ call'[c].pc = "current"
      BY <1>3, <1>b, <2>2 DEF CurrentTier, TypeOK, Call
    <3>2. ApprovedWithin(Len(history), k)
      BY <1>e, <2>2, TierApprovedMeans
    <3>3. \A j \in Tiers : j < k + 1 => j < k \/ j = k
      BY <1>c DEF Tiers, TypeOK
    <3>4. \A j \in Tiers : j < k + 1 => ApprovedWithin(Len(history), j)
      BY <2>1, <3>2, <3>3 DEF SeenBelow
    <3>5. SeenBelow(c)'
      BY <2>1, <3>1, <3>4 DEF SeenBelow, ApprovedWithin, Tiers
    <3>6. CallInv(c)'
      BY <3>1, <3>5 DEF CallInv
    <3> QED BY <1>3, <1>b, <1>d, <2>1, <3>6, OrderKept DEF CurrentTier
  <2>3. CASE ~ (k < Len(request.tiers) /\ TierApproved(k))
    <3>1. call'[c].tier = k /\ call'[c].pc = "append"
      BY <1>3, <1>b, <2>3 DEF CurrentTier, TypeOK, Call
    <3>2. SeenBelow(c)'
      BY <2>1, <3>1 DEF SeenBelow, ApprovedWithin, Tiers
    <3>3. CallInv(c)'
      BY <3>1, <3>2 DEF CallInv
    <3> QED BY <1>3, <1>b, <1>d, <2>1, <3>3, OrderKept DEF CurrentTier
  <2> QED BY <2>2, <2>3
<1>4. ASSUME NEW c \in Calls, AppendEntry(c) PROVE OrderInv'
  <2> DEFINE e == [approver |-> call[c].approver, decision |-> call[c].decision,
                   tier |-> call[c].tier]
  <2>1. /\ history' = Append(history, e) /\ UNCHANGED <<request, status>>
        /\ call' = [call EXCEPT ![c].pc = "reject"]
    BY <1>4 DEF AppendEntry
  <2>2. /\ Len(history') = Len(history) + 1
        /\ \A i \in 1 .. Len(history) : history'[i] = history[i]
        /\ history'[Len(history) + 1] = e
        /\ DOMAIN history = 1 .. Len(history)
        /\ DOMAIN history' = 1 .. Len(history) + 1
    BY <2>1, <1>e
  <2>3. SeenBelow(c)
    BY <1>4 DEF AppendEntry, OrderInv, CallInv
  <2>4. ASSUME NEW k, NEW n \in Nat, n <= Len(history), NEW m \in Nat,
               n <= m, m <= Len(history) + 1, ApprovedWithin(n, k)
        PROVE  ApprovedWithin(m, k)'
    BY <1>e, <2>1, <2>4, ApprovedStays
  <2>5. Unmade'
    BY <1>4, <1>d, <2>1 DEF Unmade, AppendEntry
  <2>6. TiersInOrder'
    <3>1. SUFFICES ASSUME NEW i \in DOMAIN history', NEW k \in Tiers, k < history'[i].tier
                   PROVE  ApprovedWithin(i - 1, k)'
      BY <2>1 DEF TiersInOrder, Tiers
    <3>2. CASE i \in DOMAIN history
      <4>1. ApprovedWithin(i - 1, k)
        BY <2>2, <3>1, <3>2 DEF OrderInv, TiersInOrder
      <4>2. i - 1 \in Nat /\ i - 1 <= Len(history)
        BY <2>2, <3>2, <1>e
      <4> QED BY <4>1, <4>2, <2>4, <1>e
    <3>3. CASE i = Len(history) + 1
      <4>1. k < call[c].tier
        BY <2>2, <3>1, <3>3
      <4>2. ApprovedWithin(Len(history), k)
        BY <2>3, <4>1 DEF SeenBelow
      <4>3. i - 1 = Len(history)
        BY <3>3, <1>e
      <4>4. ASSUME NEW n \in Nat, n = Len(history) PROVE ApprovedWithin(n, k)'
        BY <4>4, <4>2, <2>4, <1>e
      <4> QED BY <4>3, <4>4, <1>e
    <3> QED BY <3>2, <3>3, <2>2, <1>e
  <2>7. ASSUME NEW k \in Tiers, ApprovedWithin(Len(history), k)
        PROVE  ApprovedWithin(Len(history), k)'
    <3>1. ASSUME NEW m \in Nat, m = Len(history) + 1 PROVE ApprovedWithin(m, k)'
      BY <3>1, <2>7, <2>4, <1>e
    <3>2. Len(history)' = Len(history) + 1 /\ Len(history)' \in Nat
      BY <2>2, <1>e
    <3> QED BY <3>1, <3>2
  <2>8. StatusInv'
    BY <2>1, <2>7 DEF OrderInv, StatusInv, EveryTierApproved, Tiers
  <2>9. ASSUME NEW d \in Calls PROVE CallInv(d)'
    <3>1. CASE d = c
      BY <2>1, <3>1 DEF TypeOK, CallInv
    <3>2. CASE d # c
      <4>1. call'[d] = call[d]
        BY <2>1, <3>2 DEF TypeOK
      <4> QED BY <4>1, <2>1, <2>7 DEF OrderInv, CallInv, SeenBelow, EveryTierApproved, Tiers
    <3> QED BY <3>1, <3>2
  <2> QED BY <2>5, <2>6, <2>8, <2>9 DEF OrderInv
<1>5. ASSUME NEW c \in Calls, CheckRejected(c) PROVE OrderInv'
  <2>1. CallInv(c)'
    BY <1>5 DEF CheckRejected, CallInv, TypeOK
  <2> QED BY <1>5, <1>b, <1>d, <2>1, OrderKept DEF CheckRejected
<1>6. ASSUME NEW c \in Calls, CheckRevision(c) PROVE OrderInv'
  <2>1. CASE Holds("request_revision")
    <3>1. call'[c].pc = "write" /\ call'[c].verdict = "revision_requested"
      BY <1>6, <1>b, <2>1 DEF CheckRevision, TypeOK, Call
    <3>2. CallInv(c)'
      BY <3>1 DEF CallInv
    <3> QED BY <1>6, <1>b, <1>d, <3>2, OrderKept DEF CheckRevision
  <2>2. CASE ~ Holds("request_revision")
    <3>1. call'[c].pc = "tiers" /\ call'[c].tier = 1
      BY <1>6, <1>b, <2>2 DEF CheckRevision, TypeOK, Call
    <3>2. \A k \in Tiers' : ~ k < 1
      BY DEF Tiers, TypeOK
    <3>3. CallInv(c)'
      BY <3>1, <3>2 DEF CallInv, SeenBelow
    <3> QED BY <1>6, <1>b, <1>d, <3>3, OrderKept DEF CheckRevision
  <2> QED BY <2>1, <2>2
<1>7. ASSUME NEW c \in Calls, CheckTier(c) PROVE OrderInv'
  <2> DEFINE k == call[c].tier
  <2>1. SeenBelow(c) /\ UNCHANGED <<request, status, history>>
    BY <1>7 DEF CheckTier, OrderInv, CallInv
  <2>2. Tiers = 1 .. Len(request.tiers) /\ Len(request.tiers) \in Nat
    BY DEF Tiers, TypeOK
  <2>3. CASE k \notin Tiers
    <3>1. call'[c].pc = "write"
      BY <1>7, <1>b, <2>3 DEF CheckTier, TypeOK, Call
    <3>2. \A j \in Tiers : j < k
      BY <1>c, <2>2, <2>3
    <3>3. EveryTierApproved'
      BY <2>1, <3>2 DEF SeenBelow, EveryTierApproved, ApprovedWithin, Tiers
    <3>4. CallInv(c)'
      BY <3>1, <3>3 DEF CallInv
    <3> QED BY <1>7, <1>b, <1>d, <2>1, <3>4, OrderKept DEF CheckTier
  <2>4. CASE k \in Tiers /\ TierApproved(k)
    <3>1. call'[c].tier = k + 1 /\ call'[c].pc = "tiers"
      BY <1>7, <1>b, <2>4 DEF CheckTier, TypeOK, Call
    <3>2. ApprovedWithin(Len(history), k)
      BY <1>e, <2>4, TierApprovedMeans
    <3>3. \A j \in Tiers : j < k + 1 => j < k \/ j = k
      BY <1>c, <2>2
    <3>4. \A j \in Tiers : j < k + 1 => ApprovedWithin(Len(history), j)
      BY <2>1, <3>2, <3>3 DEF SeenBelow
    <3>5. SeenBelow(c)'
      BY <2>1, <3>1, <3>4 DEF SeenBelow, ApprovedWithin, Tiers
    <3>6. CallInv(c)'
      BY <3>1, <3>5 DEF CallInv
    <3> QED BY <1>7, <1>b, <1>d, <2>1, <3>6, OrderKept DEF CheckTier
  <2>5. CASE k \in Tiers /\ ~ TierApproved(k)
    <3>1. call'[c].pc = "write" /\ call'[c].verdict = "pending"
      BY <1>7, <1>b, <2>5 DEF CheckTier, TypeOK, Call
    <3>2. CallInv(c)'
      BY <3>1 DEF CallInv
    <3> QED BY <1>7, <1>b, <1>d, <2>1, <3>2, OrderKept DEF CheckTier
  <2> QED BY <2>3, <2>4, <2>5
<1>8. ASSUME NEW c \in Calls, WriteStatus(c) PROVE OrderInv'
  <2>1. /\ UNCHANGED <<request, history>> /\ status' = call[c].verdict
        /\ call[c].pc = "write" /\ call' = [call EXCEPT ![c].pc = "over"]
    BY <1>8 DEF WriteStatus
  <2>2. call[c].verdict = "approved" => EveryTierApproved
    BY <2>1 DEF OrderInv, CallInv
  <2>3. EveryTierApproved <=> EveryTierApproved'
    BY <2>1 DEF EveryTierApproved, ApprovedWithin, Tiers
  <2>4. StatusInv'
    BY <2>1, <2>2, <2>3 DEF StatusInv, EveryTierApproved
  <2>5. Unmade' /\ TiersInOrder'
    BY <2>1, <1>d DEF OrderInv, Unmade, TiersInOrder, ApprovedWithin, Tiers
  <2>6. ASSUME NEW d \in Calls PROVE CallInv(d)'
    <3>1. CASE d = c
      BY <2>1, <3>1 DEF TypeOK, CallInv
    <3>2. CASE d # c
      <4>1. call'[d] = call[d]
        BY <2>1, <3>2 DEF TypeOK
      <4> QED BY <4>1, <2>1, <2>3 DEF OrderInv, CallInv, SeenBelow, ApprovedWithin, Tiers
    <3> QED BY <3>1, <3>2
  <2> QED BY <2>4, <2>5, <2>6 DEF OrderInv
<1>9. CASE UNCHANGED vars
  BY <1>9 DEF vars, OrderInv, Unmade, TiersInOrder, StatusInv, EveryTierApproved, CallInv, SeenBelow,
              EveryTierApproved, ApprovedWithin, Tiers
<1> QED BY <1>1, <1>2, <1>3, <1>4, <1>5, <1>6, <1>7, <1>8, <1>9 DEF Next

LEMMA OrderInvariant == Spec => []OrderInv
<1>1. Init => OrderInv
  <2> SUFFICES ASSUME Init PROVE OrderInv
    OBVIOUS
  <2>1. history = <<>> /\ status = "pending"
    BY DEF Init
  <2>2. \A c \in Calls : call[c].pc = "idle"
    BY DEF Init, Started
  <2> QED BY <2>1, <2>2 DEF OrderInv, Unmade, TiersInOrder, StatusInv, EveryTierApproved, CallInv
<1>2. TypeOK /\ TypeOK' /\ OrderInv /\ [Next]_vars => OrderInv'
  BY NextOrderInv
<1> QED BY <1>1, <1>2, TypeCorrect, PTL DEF Spec

\* decide considers no tier before the tiers below it are approved, whatever calls
\* overlap.
THEOREM InOrder == Spec => []TiersInOrder
<1>1. OrderInv => TiersInOrder
  BY DEF OrderInv
<1> QED BY <1>1, OrderInvariant, PTL

\* An approval recorded for a tier by one of its members is one from within.
LEMMA MembersApprove ==
  ASSUME TypeOK, NEW k \in Tiers, ApprovedWithin(Len(history), k), DecidedByMembers(k)
  PROVE  ApprovedFromWithin(k)
<1> DEFINE entry(a) == [approver |-> a, decision |-> "approve", tier |-> k]
           approvers == {a \in request.tiers[k] : \E i \in DOMAIN history : history[i] = entry(a)}
<1>1. /\ DOMAIN history = 1 .. Len(history)
      /\ \A i \in DOMAIN history : history[i] \in Entry
  BY DEF TypeOK
<1>2. ASSUME NEW i \in DOMAIN history, history[i].tier = k, history[i].decision = "approve"
      PROVE  history[i] = entry(history[i].approver) /\ history[i].approver \in approvers
  <2>1. history[i] = entry(history[i].approver)
    BY <1>1, <1>2 DEF Entry
  <2> QED BY <1>2, <2>1 DEF DecidedByMembers
<1>3. CASE request.mode = "multiple"
  <2>1. \A a \in request.tiers[k] : \E i \in DOMAIN history :
          history[i].tier = k /\ history[i].decision = "approve" /\ history[i].approver = a
    BY <1>1, <1>3 DEF ApprovedWithin
  <2>2. approvers = request.tiers[k]
    BY <1>2, <2>1
  <2> QED BY <1>3, <2>2 DEF ApprovedFromWithin
<1>4. CASE request.mode # "multiple"
  <2>1. \E i \in DOMAIN history : history[i].tier = k /\ history[i].decision = "approve"
    BY <1>1, <1>4 DEF ApprovedWithin
  <2>2. approvers # {}
    BY <1>2, <2>1
  <2> QED BY <1>4, <2>2 DEF ApprovedFromWithin
<1> QED BY <1>3, <1>4

\* An approved request has the approvals that its mode counts for every tier, and they
\* come from within a tier that nobody else has decided for. That nobody else does is
\* a condition on those who call decide: the engine takes a decision from anyone.
THEOREM Approved == Spec => []EveryTierHasApproval
<1>1. TypeOK /\ OrderInv => EveryTierHasApproval
  BY MembersApprove DEF OrderInv, StatusInv, EveryTierApproved, EveryTierHasApproval
<1> QED BY <1>1, TypeCorrect, OrderInvariant, PTL
-----------------------------------------------------------------------------
(* A decision that no other overlaps                                       *)

\* It is the only one under way, and it knows what the history says.
Knows(c) ==
  /\ Active(c)
  /\ \A d \in Calls : d # c => ~ Active(d)
  /\ call[c].pc \in {"revision", "tiers"} => ~ Holds("reject")
  /\ call[c].pc = "tiers" => ~ Holds("request_revision")
  /\ call[c].pc = "write" => call[c].verdict = Outcome

AloneInv == \A c \in alone : Knows(c)

LEMMA OutcomeMeans ==
  Outcome = IF Holds("reject") THEN "rejected"
            ELSE IF Holds("request_revision") THEN "revision_requested"
            ELSE IF EveryTierApproved THEN "approved" ELSE "pending"
BY DEF Outcome, Holds, EveryTierApproved

\* The readings of the history leave it, and the other calls, as they are.
LEMMA AloneKept ==
  ASSUME TypeOK, AloneInv, UNCHANGED <<request, history, alone>>,
         NEW c \in Calls, Active(c), NEW r \in Call, call' = [call EXCEPT ![c] = r],
         Active(c)',
         c \in alone =>
           /\ r.pc \in {"revision", "tiers"} => ~ Holds("reject")
           /\ r.pc = "tiers" => ~ Holds("request_revision")
           /\ r.pc = "write" => r.verdict = Outcome
  PROVE  AloneInv'
<1>1. call'[c] = r /\ \A d \in Calls : d # c => call'[d] = call[d]
  BY DEF TypeOK
<1>2. Outcome' = Outcome /\ Holds("reject")' = Holds("reject")
      /\ Holds("request_revision")' = Holds("request_revision")
  BY DEF Outcome, Holds, ApprovedWithin, Tiers
<1>3. ASSUME NEW d \in alone PROVE d = c
  BY <1>3 DEF AloneInv, Knows
<1>4. ASSUME c \in alone PROVE Knows(c)'
  <2>1. \A d \in Calls : d # c => ~ Active(d)'
    BY <1>1, <1>4 DEF AloneInv, Knows, Active
  <2> QED BY <1>1, <1>2, <1>4, <2>1 DEF Knows
<1> QED BY <1>3, <1>4 DEF AloneInv

LEMMA NextAloneInv == TypeOK /\ TypeOK' /\ OrderInv /\ AloneInv /\ [Next]_vars => AloneInv'
<1> SUFFICES ASSUME TypeOK, TypeOK', OrderInv, AloneInv, [Next]_vars PROVE AloneInv'
  OBVIOUS
<1>b. \A c \in Calls : call[c] \in Call /\ call'[c] \in Call
  BY DEF TypeOK
<1>e. history \in Seq(Entry) /\ Len(history) \in Nat
  BY DEF TypeOK
<1>1. CASE Request
  <2>1. \A c \in Calls : ~ Active(c)
    BY <1>1 DEF Request, OrderInv, Unmade, Active
  <2>2. alone = {}
    BY <2>1 DEF AloneInv, Knows, TypeOK
  <2> QED BY <1>1, <2>2 DEF Request, AloneInv
<1>2. ASSUME NEW c \in Calls, Decide(c) PROVE AloneInv'
  <2>1. PICK a \in Approvers, d \in Decisions :
          call' = [call EXCEPT ![c] = Started("current", a, d)]
    BY <1>2 DEF Decide
  <2>2. CASE \E f \in Calls : Active(f)
    BY <1>2, <2>2 DEF Decide, AloneInv
  <2>3. CASE \A f \in Calls : ~ Active(f)
    <3>1. alone' = {c}
      BY <1>2, <2>3 DEF Decide
    <3>2. call'[c].pc = "current" /\ \A f \in Calls : f # c => call'[f] = call[f]
      BY <2>1 DEF Started, TypeOK
    <3>3. \A f \in Calls : f # c => ~ Active(f)'
      BY <2>3, <3>2 DEF Active
    <3> QED BY <3>1, <3>2, <3>3 DEF AloneInv, Knows, Active
  <2> QED BY <2>2, <2>3
<1>3. ASSUME NEW c \in Calls, CurrentTier(c) PROVE AloneInv'
  <2>1. call'[c].pc \in {"current", "append"}
    BY <1>3, <1>b DEF CurrentTier, TypeOK, Call
  <2> QED BY <1>3, <1>b, <2>1, AloneKept DEF CurrentTier, Active
<1>4. ASSUME NEW c \in Calls, AppendEntry(c) PROVE AloneInv'
  <2>1. call'[c].pc = "reject" /\ \A d \in Calls : d # c => call'[d] = call[d]
    BY <1>4, <1>b DEF AppendEntry, TypeOK, Call
  <2>2. Active(c)
    BY <1>4 DEF AppendEntry, Active
  <2>3. ASSUME NEW d \in alone PROVE d = c
    BY <2>2, <2>3 DEF AloneInv, Knows
  <2>4. c \in alone => \A d \in Calls : d # c => ~ Active(d)'
    BY <2>1 DEF AloneInv, Knows, Active
  <2>5. alone' = alone
    BY <1>4 DEF AppendEntry
  <2> QED BY <2>1, <2>3, <2>4, <2>5 DEF AloneInv, Knows, Active
<1>5. ASSUME NEW c \in Calls, CheckRejected(c) PROVE AloneInv'
  <2>1. CASE Holds("reject")
    <3>1. call'[c].pc = "write" /\ call'[c].verdict = Outcome
      BY <1>5, <1>b, <2>1, OutcomeMeans DEF CheckRejected, TypeOK, Call
    <3> QED BY <1>5, <1>b, <3>1, AloneKept DEF CheckRejected, Active
  <2>2. CASE ~ Holds("reject")
    <3>1. call'[c].pc = "revision"
      BY <1>5, <1>b, <2>2 DEF CheckRejected, TypeOK, Call
    <3> QED BY <1>5, <1>b, <2>2, <3>1, AloneKept DEF CheckRejected, Active
  <2> QED BY <2>1, <2>2
<1>6. ASSUME NEW c \in Calls, CheckRevision(c) PROVE AloneInv'
  <2>1. c \in alone => ~ Holds("reject")
    BY <1>6 DEF CheckRevision, AloneInv, Knows
  <2>2. CASE Holds("request_revision")
    <3>1. call'[c].pc = "write" /\ call'[c].verdict = "revision_requested"
      BY <1>6, <1>b, <2>2 DEF CheckRevision, TypeOK, Call
    <3>2. c \in alone => call'[c].verdict = Outcome
      BY <2>1, <2>2, <3>1, OutcomeMeans
    <3>3. /\ UNCHANGED <<request, history, alone>>
          /\ call' = [call EXCEPT ![c] = call'[c]]
      BY <1>6 DEF CheckRevision, TypeOK
    <3>4. Active(c) /\ Active(c)'
      BY <1>6, <3>1 DEF CheckRevision, Active
    <3> QED BY <1>b, <3>1, <3>2, <3>3, <3>4, AloneKept
  <2>3. CASE ~ Holds("request_revision")
    <3>1. call'[c].pc = "tiers"
      BY <1>6, <1>b, <2>3 DEF CheckRevision, TypeOK, Call
    <3> QED BY <1>6, <1>b, <2>1, <2>3, <3>1, AloneKept DEF CheckRevision, Active
  <2> QED BY <2>2, <2>3
<1>7. ASSUME NEW c \in Calls, CheckTier(c) PROVE AloneInv'
  <2> DEFINE k == call[c].tier
  <2>1. c \in alone => ~ Holds("reject") /\ ~ Holds("request_revision")
    BY <1>7 DEF CheckTier, AloneInv, Knows
  <2>2. CASE k \in Tiers /\ TierApproved(k)
    <3>1. call'[c].pc = "tiers"
      BY <1>7, <1>b, <2>2 DEF CheckTier, TypeOK, Call
    <3> QED BY <1>7, <1>b, <2>1, <3>1, AloneKept DEF CheckTier, Active
  <2>3. CASE ~ (k \in Tiers /\ TierApproved(k))
    <3>1. /\ call'[c].pc = "write"
          /\ call'[c].verdict = IF k \in Tiers THEN "pending" ELSE "approved"
      BY <1>7, <1>b, <2>3 DEF CheckTier, TypeOK, Call
    <3>2. k \in Tiers => ~ EveryTierApproved
      BY <1>e, <2>3, TierApprovedMeans DEF EveryTierApproved
    <3>3. k \notin Tiers => EveryTierApproved
      <4>1. SeenBelow(c)
        BY <1>7 DEF CheckTier, OrderInv, CallInv
      <4>2. k \in Nat \ {0} /\ Tiers = 1 .. Len(request.tiers) /\ Len(request.tiers) \in Nat
        BY <1>b DEF Tiers, TypeOK, Call
      <4>3. k \notin Tiers => \A j \in Tiers : j < k
        BY <4>2
      <4> QED BY <4>1, <4>3 DEF SeenBelow, EveryTierApproved
    <3>4. c \in alone => call'[c].verdict = Outcome
      BY <2>1, <3>1, <3>2, <3>3, OutcomeMeans
    <3>5. /\ UNCHANGED <<request, history, alone>>
          /\ call' = [call EXCEPT ![c] = call'[c]]
      BY <1>7 DEF CheckTier, TypeOK
    <3>6. Active(c) /\ Active(c)'
      BY <1>7, <3>1 DEF CheckTier, Active
    <3> QED BY <1>b, <3>1, <3>4, <3>5, <3>6, AloneKept
  <2> QED BY <2>2, <2>3
<1>8. ASSUME NEW c \in Calls, WriteStatus(c) PROVE AloneInv'
  <2>1. Active(c)
    BY <1>8 DEF WriteStatus, Active
  <2>2. \A d \in alone : d = c
    BY <2>1 DEF AloneInv, Knows
  <2> QED BY <1>8, <2>2 DEF WriteStatus, AloneInv
<1>9. CASE UNCHANGED vars
  BY <1>9 DEF vars, AloneInv, Knows, Active, Holds, Outcome, ApprovedWithin, Tiers
<1> QED BY <1>1, <1>2, <1>3, <1>4, <1>5, <1>6, <1>7, <1>8, <1>9 DEF Next

LEMMA NextAloneSettles ==
  ASSUME TypeOK, AloneInv, [Next]_vars, NEW c \in Calls, c \in alone,
         call[c].pc = "write", call'[c].pc = "over"
  PROVE  status' = Outcome'
<1>1. \A d \in Calls : \A r : call' = [call EXCEPT ![d] = r] => d = c /\ call'[c] = r
  BY DEF TypeOK
<1>2. WriteStatus(c)
  BY <1>1 DEF Next, vars, Request, Decide, Started, CurrentTier, AppendEntry, CheckRejected,
              CheckRevision, CheckTier, WriteStatus
<1>3. status' = Outcome
  BY <1>2 DEF WriteStatus, AloneInv, Knows
<1>4. Outcome' = Outcome
  BY <1>2 DEF WriteStatus, Outcome, ApprovedWithin, Tiers
<1> QED BY <1>3, <1>4

\* A decision no other one overlaps leaves the status that its history calls for.
THEOREM Settles == Spec => AloneSettles
<1>1. Init => AloneInv
  BY DEF Init, AloneInv
<1>2. TypeOK /\ TypeOK' /\ OrderInv /\ AloneInv /\ [Next]_vars => AloneInv'
  BY NextAloneInv
<1>3. TypeOK /\ AloneInv /\ [Next]_vars =>
        [\A c \in Calls :
           c \in alone /\ call[c].pc = "write" /\ call'[c].pc = "over"
             => status' = Outcome']_vars
  BY NextAloneSettles
<1> QED BY <1>1, <1>2, <1>3, TypeCorrect, OrderInvariant, PTL DEF Spec, AloneSettles
=============================================================================
