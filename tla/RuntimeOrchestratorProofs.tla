----------------------- MODULE RuntimeOrchestratorProofs -----------------------
(***************************************************************************)
(* Why the orchestrator conserves its slots and never forgets a task, for  *)
(* any tasks, dependencies, slots, submissions, calls and cancellations.   *)
(*                                                                         *)
(* A call that waits or is inside holds the object it was made for, the    *)
(* line is made of different calls that wait, and what a thread that       *)
(* cancels has read it may use.  A call runs its object from the moment    *)
(* that says RUNNING to the one that says how it ended.                    *)
(***************************************************************************)
EXTENDS RuntimeOrchestrator, FiniteSetTheorems, SequenceTheorems, TLAPS

Pcs == {"idle", "waiting", "over"} \cup Inside
CallRecord == [pc : Pcs, obj : Objects \cup {None}]

\* Whoever has come in, or waits to, has an object to run.
HasObject == \A c \in Calls : call[c].pc \in {"waiting"} \cup Inside => call[c].obj \in Objects

\* The line: those in it wait, and no one stands in it twice.
LineInv ==
  /\ \A i \in 1 .. Len(waiters) : call[waiters[i]].pc = "waiting"
  /\ \A i, j \in 1 .. Len(waiters) : waiters[i] = waiters[j] => i = j

\* A call of cancel has read the runner it signals, and the object it marks.
CancelInv ==
  \A x \in Cancels :
    /\ cancel[x].pc = "check" => cancel[x].task \in Tasks
    /\ cancel[x].pc = "signal" => cancel[x].call \in Calls
    /\ cancel[x].pc = "mark" => cancel[x].obj \in Objects

TypeInv == TypeOK /\ HasObject /\ LineInv /\ CancelInv /\ IsFiniteSet(Made)

-----------------------------------------------------------------------------
(* What becomes of the variables                                           *)

LEMMA CallFields ==
  ASSUME TypeOK, NEW c \in Calls
  PROVE  call[c].pc \in Pcs /\ call[c].obj \in Objects \cup {None}
BY DEF TypeOK, Pcs

LEMMA CallUpdates ==
  ASSUME TypeOK, NEW c \in Calls, NEW p \in Pcs
  PROVE  /\ [call EXCEPT ![c].pc = p] \in [Calls -> CallRecord]
         /\ [call EXCEPT ![c].pc = p][c].pc = p
         /\ [call EXCEPT ![c].pc = p][c].obj = call[c].obj
         /\ \A d \in Calls \ {c} : [call EXCEPT ![c].pc = p][d] = call[d]
BY DEF TypeOK, CallRecord, Pcs

\* The slots and the objects of the calls.
LEMMA TypeParts ==
  TypeOK <=> /\ stored \in [Tasks -> 0 .. MaxSubmits]
             /\ status \in [Objects -> {"none", "pending", "running"} \cup Outcomes]
             /\ call \in [Calls -> CallRecord]
             /\ free \in 0 .. MaxParallelism
             /\ waiters \in Seq(Calls)
             /\ running \in [Tasks -> Calls \cup {None}]
             /\ cancel \in [Cancels -> [pc : {"idle", "signal", "check", "mark", "over"},
                                        task : Tasks \cup {None}, call : Calls \cup {None},
                                        obj : Objects \cup {None}]]
BY DEF TypeOK, CallRecord, Pcs

\* Statuses are set one at a time, so that the objects made stay finitely many.
LEMMA MadeStaysFinite ==
  ASSUME TypeOK, IsFiniteSet(Made), NEW o \in Objects, NEW v,
         status' \in [Objects -> {"none", "pending", "running"} \cup Outcomes],
         status' = [status EXCEPT ![o] = v] \/ status' = status
  PROVE  IsFiniteSet(Made)'
<1>1. Made' \subseteq Made \cup {o}
  BY DEF Made, TypeOK
<1> QED BY <1>1, FS_AddElement, FS_Subset

\* What is stored for a task is an object.
LEMMA StoredIsObject ==
  ASSUME TypeOK, NEW t \in Tasks, stored[t] # 0
  PROVE  Stored(t) \in Objects
BY ConstantsAssumption DEF TypeOK, Stored, Objects

\* The number of a new object is within its bound.
LEMMA NewObject ==
  ASSUME TypeOK, IsFiniteSet(Made), NEW t \in Tasks, Cardinality(Made) < MaxSubmits
  PROVE  Cardinality({o \in Made : o[1] = t}) + 1 \in 1 .. MaxSubmits
<1>1. /\ IsFiniteSet({o \in Made : o[1] = t})
      /\ Cardinality({o \in Made : o[1] = t}) <= Cardinality(Made)
  BY FS_Subset
<1>2. Cardinality({o \in Made : o[1] = t}) \in Nat /\ Cardinality(Made) \in Nat
  BY <1>1, FS_CardinalityType
<1> QED BY <1>1, <1>2, ConstantsAssumption

-----------------------------------------------------------------------------
(* Types                                                                   *)

LEMMA TypeInit == Init => TypeInv
<1> SUFFICES ASSUME Init PROVE TypeInv
  OBVIOUS
<1>1. TypeOK
  BY ConstantsAssumption DEF Init, TypeOK, Inside, Live, Outcomes
<1>2. Made = {}
  BY DEF Init, Made
<1> QED BY <1>1, <1>2, FS_EmptySet
        DEF Init, TypeInv, HasObject, LineInv, CancelInv, Inside, Live, Outcomes

LEMMA SubmitType ==
  ASSUME TypeInv, NEW t \in Tasks, Submit(t)
  PROVE  TypeInv'
<1> DEFINE v == Cardinality({o \in Made : o[1] = t}) + 1
<1>1. v \in 1 .. MaxSubmits
  BY NewObject DEF TypeInv, Submit
<1>2. status' = [status EXCEPT ![<<t, v>>] = "pending"] /\ stored' = [stored EXCEPT ![t] = v]
  BY DEF Submit
<1> HIDE DEF v
<1>3. <<t, v>> \in Objects
  BY <1>1 DEF Objects
<1>4. TypeOK'
  <2>1. stored' \in [Tasks -> 0 .. MaxSubmits]
    BY <1>1, <1>2, ConstantsAssumption DEF TypeInv, TypeOK
  <2>2. status' \in [Objects -> {"none", "pending", "running"} \cup Outcomes]
    BY <1>2, <1>3 DEF TypeInv, TypeOK
  <2> QED BY <2>1, <2>2 DEF TypeInv, TypeOK, Submit
<1>5. IsFiniteSet(Made)'
  BY <1>2, <1>3, <1>4, MadeStaysFinite DEF TypeInv, TypeOK
<1> QED BY <1>4, <1>5 DEF TypeInv, HasObject, LineInv, CancelInv, Submit

\* A call that comes in, or takes its place at the end of the line.
LEMMA EntersType ==
  ASSUME TypeInv, NEW c \in Calls, NEW o \in Objects, NEW v \in {"pending"},
         NEW s, s = status \/ s = [status EXCEPT ![o] = v],
         call[c].pc = "idle", Enters(c, o, s), UNCHANGED cancel
  PROVE  TypeInv'
<1>1. s \in [Objects -> {"none", "pending", "running"} \cup Outcomes]
  BY DEF TypeInv, TypeOK
<1>2. CASE free > 0 /\ waiters = <<>>
  <2>1. free' = free - 1 /\ Starts(c, o, s) /\ waiters' = waiters
    BY <1>2 DEF Enters
  <2>2. o[1] \in Tasks /\ o[2] \in 0 .. MaxSubmits /\ [pc |-> "running", obj |-> o] \in CallRecord
    BY ConstantsAssumption DEF Objects, CallRecord, Pcs, Inside, Live
  <2>3. call' \in [Calls -> CallRecord] /\ running' \in [Tasks -> Calls \cup {None}]
        /\ stored' \in [Tasks -> 0 .. MaxSubmits]
    BY <2>1, <2>2, TypeParts DEF TypeInv, Starts
  <2>4. status' \in [Objects -> {"none", "pending", "running"} \cup Outcomes]
        /\ status' = [status EXCEPT ![o] = "running"]
    BY <1>1, <2>1 DEF Starts, TypeInv, TypeOK
  <2>5. free' \in 0 .. MaxParallelism
    BY <1>2, <2>1, ConstantsAssumption DEF TypeInv, TypeOK
  <2>6. TypeOK'
    BY <2>1, <2>3, <2>4, <2>5 DEF TypeInv, TypeOK, CallRecord, Pcs
  <2>7. IsFiniteSet(Made)'
    BY <2>4, MadeStaysFinite DEF TypeInv
  <2>8. HasObject' /\ LineInv'
    BY <1>2, <2>1, TypeParts DEF TypeInv, HasObject, LineInv, Starts, Inside, Live
  <2> QED BY <2>6, <2>7, <2>8 DEF TypeInv, CancelInv
<1>3. CASE ~ (free > 0 /\ waiters = <<>>)
  <2>1. /\ waiters' = Append(waiters, c)
        /\ call' = [call EXCEPT ![c] = [pc |-> "waiting", obj |-> o]]
        /\ status' = s /\ UNCHANGED <<stored, free, running>>
    BY <1>3 DEF Enters
  <2>2. call' \in [Calls -> CallRecord]
    BY <2>1, TypeParts DEF TypeInv, CallRecord, Pcs
  <2>3. waiters \in Seq(Calls)
    BY DEF TypeInv, TypeOK
  <2>4. /\ waiters' \in Seq(Calls) /\ Len(waiters') = Len(waiters) + 1
        /\ \A i \in 1 .. Len(waiters) : waiters'[i] = waiters[i]
        /\ waiters'[Len(waiters) + 1] = c
    BY <2>1, <2>3, AppendProperties
  <2>5. TypeOK'
    BY <1>1, <2>1, <2>2, <2>4 DEF TypeInv, TypeOK, CallRecord, Pcs
  <2>6. IsFiniteSet(Made)'
    BY <1>1, <2>1, MadeStaysFinite DEF TypeInv
  <2>7. \A i \in 1 .. Len(waiters) : waiters[i] \in Calls \ {c}
    BY <2>3 DEF TypeInv, LineInv
  <2>8. call'[c].pc = "waiting" /\ call'[c].obj = o /\ \A d \in Calls \ {c} : call'[d] = call[d]
    BY <2>1, TypeParts DEF TypeInv
  <2>9. HasObject'
    BY <2>8 DEF TypeInv, HasObject
  <2>10. \A i \in 1 .. Len(waiters') : i \in 1 .. Len(waiters) \/ i = Len(waiters) + 1
    BY <2>3, <2>4, LenProperties
  <2>11. LineInv'
    BY <2>4, <2>7, <2>8, <2>10 DEF TypeInv, LineInv
  <2> QED BY <2>5, <2>6, <2>9, <2>11 DEF TypeInv, CancelInv
<1> QED BY <1>2, <1>3

LEMMA ReadyIsObject ==
  ASSUME TypeInv, NEW t \in Tasks, NEW s, Is(t, s)
  PROVE  Stored(t) \in Objects
BY StoredIsObject DEF Is, TypeInv

LEMMA RunType ==
  ASSUME TypeInv, NEW c \in Calls, NEW t \in Tasks, Run(c, t) \/ Resume(c, t)
  PROVE  TypeInv'
<1>1. Stored(t) \in Objects /\ call[c].pc = "idle"
  BY ReadyIsObject DEF Run, Resume, Ready, NewCall
<1>2. CASE Run(c, t)
  BY <1>1, <1>2, EntersType DEF Run
<1>3. CASE Resume(c, t)
  BY <1>1, <1>3, EntersType DEF Resume
<1> QED BY <1>2, <1>3

LEMMA StartGrantedType ==
  ASSUME TypeInv, NEW c \in Calls, StartGranted(c)
  PROVE  TypeInv'
<1> DEFINE o == call[c].obj
<1>1. o \in Objects /\ call[c].pc = "granted"
  BY DEF TypeInv, HasObject, StartGranted, Inside
<1>2. /\ Starts(c, o, status)
      /\ UNCHANGED <<free, waiters, cancel>>
  BY DEF StartGranted
<1> HIDE DEF o
<1>3. o[1] \in Tasks /\ o[2] \in 0 .. MaxSubmits /\ [pc |-> "running", obj |-> o] \in CallRecord
  BY <1>1, ConstantsAssumption DEF Objects, CallRecord, Pcs, Inside, Live
<1>4. /\ call' \in [Calls -> CallRecord] /\ running' \in [Tasks -> Calls \cup {None}]
      /\ stored' \in [Tasks -> 0 .. MaxSubmits]
      /\ call'[c].pc = "running" /\ call'[c].obj = o /\ \A d \in Calls \ {c} : call'[d] = call[d]
  BY <1>2, <1>3, TypeParts DEF TypeInv, Starts
<1>5. /\ status' \in [Objects -> {"none", "pending", "running"} \cup Outcomes]
      /\ status' = [status EXCEPT ![o] = "running"]
  BY <1>1, <1>2 DEF Starts, TypeInv, TypeOK
<1>6. TypeOK'
  BY <1>2, <1>4, <1>5 DEF TypeInv, TypeOK, CallRecord, Pcs
<1>7. IsFiniteSet(Made)'
  BY <1>1, <1>5, MadeStaysFinite DEF TypeInv
<1>8. HasObject'
  BY <1>1, <1>4 DEF TypeInv, HasObject
<1>9. LineInv'
  <2>1. \A i \in 1 .. Len(waiters) : waiters[i] \in Calls \ {c}
    BY <1>1 DEF TypeInv, LineInv, TypeOK
  <2> QED BY <1>2, <1>4, <2>1 DEF TypeInv, LineInv
<1> QED BY <1>2, <1>6, <1>7, <1>8, <1>9 DEF TypeInv, CancelInv

\* A step of one call that only moves it on, outside the line.
LEMMA MovesType ==
  ASSUME TypeInv, NEW c \in Calls, NEW p \in Inside, call[c].pc \in Inside,
         call' = [call EXCEPT ![c].pc = p],
         UNCHANGED <<stored, status, free, waiters, running>>
  PROVE  call' \in [Calls -> CallRecord] /\ HasObject' /\ LineInv' /\ IsFiniteSet(Made)'
<1>1. /\ call' \in [Calls -> CallRecord] /\ call'[c].pc = p /\ call'[c].obj = call[c].obj
      /\ \A d \in Calls \ {c} : call'[d] = call[d]
  BY CallUpdates DEF TypeInv, Pcs
<1>2. \A i \in 1 .. Len(waiters) : waiters[i] \in Calls \ {c}
  BY DEF TypeInv, LineInv, TypeOK, Inside, Live, Outcomes
<1> QED BY <1>1, <1>2 DEF TypeInv, HasObject, LineInv, Made

LEMMA RunnerEndsType ==
  ASSUME TypeInv, NEW c \in Calls, RunnerEnds(c)
  PROVE  TypeInv'
<1>1. PICK p \in Outcomes : call' = [call EXCEPT ![c].pc = p]
  BY DEF RunnerEnds
<1>2. p \in Inside /\ call[c].pc \in Inside
  BY DEF RunnerEnds, Inside
<1>3. call' \in [Calls -> CallRecord] /\ HasObject' /\ LineInv' /\ IsFiniteSet(Made)'
  BY <1>1, <1>2, MovesType DEF RunnerEnds
<1>4. TypeOK'
  BY <1>3 DEF TypeInv, TypeOK, RunnerEnds, CallRecord, Pcs
<1> QED BY <1>3, <1>4 DEF TypeInv, CancelInv, RunnerEnds

-----------------------------------------------------------------------------
(* The end of a run: the slot is free again, or handed on                  *)

\* The first of the line is a call that waits, and the others keep waiting.
LEMMA HeadOfLine ==
  ASSUME TypeInv, waiters # <<>>
  PROVE  /\ Head(waiters) \in Calls /\ call[Head(waiters)].pc = "waiting"
         /\ Tail(waiters) \in Seq(Calls)
         /\ \A i \in 1 .. Len(Tail(waiters)) :
              /\ Tail(waiters)[i] \in Calls \ {Head(waiters)}
              /\ call[Tail(waiters)[i]].pc = "waiting"
         /\ \A i, j \in 1 .. Len(Tail(waiters)) : Tail(waiters)[i] = Tail(waiters)[j] => i = j
<1>1. waiters \in Seq(Calls) /\ Len(waiters) \in Nat \ {0} /\ Head(waiters) = waiters[1]
  BY EmptySeq DEF TypeInv, TypeOK
<1>2. /\ Head(waiters) \in Calls /\ Tail(waiters) \in Seq(Calls)
      /\ Len(Tail(waiters)) = Len(waiters) - 1
      /\ \A i \in 1 .. Len(Tail(waiters)) : Tail(waiters)[i] = waiters[i + 1]
  BY <1>1, HeadTailProperties
<1>3. \A i \in 1 .. Len(Tail(waiters)) : i + 1 \in 1 .. Len(waiters) /\ i + 1 # 1
  BY <1>1, <1>2
<1>4. 1 \in 1 .. Len(waiters)
  BY <1>1
<1>5. \A i \in 1 .. Len(Tail(waiters)) : Tail(waiters)[i] \in Calls
  BY <1>2, ElementOfSeq
<1>6. \A i, j \in 1 .. Len(Tail(waiters)) : i + 1 = j + 1 => i = j
  BY <1>1, <1>2
<1> QED BY <1>1, <1>2, <1>3, <1>4, <1>5, <1>6 DEF TypeInv, LineInv

LEMMA ReleasesCalls ==
  ASSUME TypeInv, NEW c \in Calls, call[c].pc \in Outcomes, Releases(c)
  PROVE  /\ call' \in [Calls -> CallRecord]
         /\ call'[c].pc = "over"
         /\ waiters = <<>> =>
              waiters' = waiters /\ free' = free + 1 /\ \A d \in Calls \ {c} : call'[d] = call[d]
         /\ waiters # <<>> =>
              /\ Head(waiters) \in Calls \ {c} /\ free' = free /\ waiters' = Tail(waiters)
              /\ call[Head(waiters)].pc = "waiting"
              /\ call'[Head(waiters)].pc = "granted"
              /\ call'[Head(waiters)].obj = call[Head(waiters)].obj
              /\ \A d \in Calls \ {c, Head(waiters)} : call'[d] = call[d]
<1>1. "over" \in Pcs /\ "granted" \in Pcs
  BY DEF Pcs, Inside
<1>2. CASE waiters = <<>>
  <2>1. call' = [call EXCEPT ![c].pc = "over"] /\ waiters' = waiters /\ free' = free + 1
    BY <1>2 DEF Releases
  <2> QED BY <1>1, <1>2, <2>1, CallUpdates DEF TypeInv
<1>3. CASE waiters # <<>>
  <2>1. Head(waiters) \in Calls \ {c} /\ call[Head(waiters)].pc = "waiting"
    BY <1>3, HeadOfLine DEF Outcomes
  <2>2. /\ call' = [call EXCEPT ![c].pc = "over", ![Head(waiters)].pc = "granted"]
        /\ waiters' = Tail(waiters) /\ free' = free
    BY <1>3 DEF Releases
  <2>3. call \in [Calls -> CallRecord]
    BY TypeParts DEF TypeInv
  <2> QED BY <1>1, <1>3, <2>1, <2>2, <2>3 DEF CallRecord
<1> QED BY <1>2, <1>3

-----------------------------------------------------------------------------
(* Slots                                                                   *)

Insiders == {c \in Calls : call[c].pc \in Inside}

LEMMA InsidersFinite == IsFiniteSet(Insiders) /\ Cardinality(Insiders) \in Nat
<1>1. IsFiniteSet(Calls)
  BY FS_Interval, ConstantsAssumption DEF Calls
<1> QED BY <1>1, FS_Subset, FS_CardinalityType DEF Insiders

LEMMA SlotsMean ==
  SlotsConserved <=> /\ free + Cardinality(Insiders) = MaxParallelism
                     /\ waiters # <<>> => free = 0
BY DEF SlotsConserved, Insiders

\* A call that ends gives its slot back, or the first of the line has it.
LEMMA ReleasesSlots ==
  ASSUME TypeInv, SlotsConserved, NEW c \in Calls, call[c].pc \in Outcomes, Releases(c)
  PROVE  SlotsConserved' /\ free' \in 0 .. MaxParallelism
<1>1. /\ IsFiniteSet(Insiders) /\ Cardinality(Insiders) \in Nat /\ c \in Insiders
      /\ free + Cardinality(Insiders) = MaxParallelism /\ free \in Nat
  BY InsidersFinite, SlotsMean DEF TypeInv, TypeOK, Insiders, Inside
<1>2. CASE waiters = <<>>
  <2>1. Insiders' = Insiders \ {c}
    BY <1>1, <1>2, ReleasesCalls DEF Insiders, Inside, Live, Outcomes
  <2>2. Cardinality(Insiders') = Cardinality(Insiders) - 1 /\ Cardinality(Insiders') \in Nat
    BY <1>1, <2>1, FS_RemoveElement, FS_CardinalityType
  <2>3. free' = free + 1 /\ waiters' = waiters
    BY <1>2, ReleasesCalls
  <2>4. free' + Cardinality(Insiders') = MaxParallelism
    BY <1>1, <2>2, <2>3
  <2>5. free' \in 0 .. MaxParallelism
    BY <1>1, <2>2, <2>3, <2>4
  <2>6. SlotsConserved'
    BY <1>2, <2>3, <2>4 DEF SlotsConserved, Insiders
  <2> QED BY <2>5, <2>6
<1>3. CASE waiters # <<>>
  <2>1. /\ Head(waiters) \in Calls \ {c} /\ free' = free /\ free = 0
        /\ Head(waiters) \notin Insiders
    BY <1>3, ReleasesCalls, SlotsMean DEF Insiders, Inside, Live, Outcomes
  <2>2. Insiders' = (Insiders \ {c}) \cup {Head(waiters)}
    BY <1>1, <1>3, ReleasesCalls DEF Insiders, Inside, Live, Outcomes
  <2>3. /\ IsFiniteSet(Insiders \ {c})
        /\ Cardinality(Insiders \ {c}) = Cardinality(Insiders) - 1
        /\ Cardinality(Insiders \ {c}) \in Nat
    BY <1>1, FS_RemoveElement, FS_CardinalityType
  <2>4. Cardinality(Insiders') = Cardinality(Insiders)
    <3>1. Head(waiters) \notin Insiders \ {c}
      BY <2>1
    <3>2. Cardinality((Insiders \ {c}) \cup {Head(waiters)}) = Cardinality(Insiders \ {c}) + 1
      BY <2>3, <3>1, FS_AddElement
    <3> QED BY <1>1, <2>2, <2>3, <3>2
  <2>5. free' + Cardinality(Insiders') = MaxParallelism
    BY <1>1, <2>1, <2>4
  <2>6. free' \in 0 .. MaxParallelism
    BY <1>1, <2>1, ConstantsAssumption
  <2> QED BY <2>1, <2>5, <2>6 DEF SlotsConserved, Insiders
<1> QED BY <1>2, <1>3

LEMMA EndRunType ==
  ASSUME TypeInv, SlotsConserved, NEW c \in Calls, EndRun(c)
  PROVE  TypeInv' /\ SlotsConserved'
<1> DEFINE o == call[c].obj
<1> DEFINE p == call[c].pc
<1>1. o \in Objects /\ p \in Outcomes
  BY DEF TypeInv, HasObject, EndRun, Inside
<1>2. /\ status' = [status EXCEPT ![o] = p] /\ stored' = [stored EXCEPT ![o[1]] = o[2]]
      /\ running' = [running EXCEPT ![o[1]] = None] /\ Releases(c) /\ cancel' = cancel
  BY DEF EndRun
<1>3. SlotsConserved' /\ free' \in 0 .. MaxParallelism
  BY <1>1, <1>2, ReleasesSlots
<1>4. o[1] \in Tasks /\ o[2] \in 0 .. MaxSubmits
  BY <1>1, ConstantsAssumption DEF Objects
<1>5. /\ call' \in [Calls -> CallRecord]
      /\ \A d \in Calls : call'[d].pc \in {"waiting"} \cup Inside =>
           call'[d].obj = call[d].obj /\ call[d].pc \in {"waiting"} \cup Inside
      /\ \A d \in Calls : call[d].pc = "waiting" /\ (waiters # <<>> => d # Head(waiters)) =>
           call'[d].pc = "waiting"
  BY <1>1, <1>2, ReleasesCalls DEF Inside, Live, Outcomes
<1> HIDE DEF o, p
<1>6. status' \in [Objects -> {"none", "pending", "running"} \cup Outcomes]
  BY <1>1, <1>2 DEF TypeInv, TypeOK
<1>7. /\ stored' \in [Tasks -> 0 .. MaxSubmits]
      /\ running' \in [Tasks -> Calls \cup {None}]
  BY <1>2, <1>4 DEF TypeInv, TypeOK
<1>8. waiters' \in Seq(Calls) /\ LineInv'
  <2>1. CASE waiters = <<>>
    <3>1. waiters' = waiters
      BY <1>1, <1>2, <2>1, ReleasesCalls DEF p
    <3> QED BY <1>5, <2>1, <3>1, EmptySeq DEF TypeInv, TypeOK, LineInv
  <2>2. CASE waiters # <<>>
    <3>1. waiters' = Tail(waiters)
      BY <1>1, <1>2, <2>2, ReleasesCalls DEF p
    <3> QED BY <1>5, <2>2, <3>1, HeadOfLine DEF LineInv
  <2> QED BY <2>1, <2>2
<1>9. TypeOK'
  BY <1>2, <1>3, <1>5, <1>6, <1>7, <1>8 DEF TypeInv, TypeOK, CallRecord, Pcs
<1>10. IsFiniteSet(Made)'
  BY <1>1, <1>2, <1>6, MadeStaysFinite DEF TypeInv
<1>11. HasObject'
  BY <1>5 DEF TypeInv, HasObject
<1> QED BY <1>2, <1>3, <1>8, <1>9, <1>10, <1>11 DEF TypeInv, CancelInv

-----------------------------------------------------------------------------
(* The threads that cancel                                                 *)

LEMMA CancelType ==
  ASSUME TypeInv, NEW x \in Cancels, CancelLooks(x) \/ CancelStep(x)
  PROVE  TypeInv'
<1>1. CASE CancelLooks(x)
  <2>1. PICK t \in Tasks :
          cancel' = [cancel EXCEPT ![x] =
                       [pc |-> IF running[t] # None THEN "signal" ELSE "check",
                        task |-> t, call |-> running[t], obj |-> None]]
    BY <1>1 DEF CancelLooks
  <2>2. running[t] \in Calls \cup {None}
    BY DEF TypeInv, TypeOK
  <2>3. TypeOK' /\ CancelInv'
    BY <1>1, <2>1, <2>2 DEF TypeInv, TypeOK, CancelInv, CancelLooks
  <2> QED BY <1>1, <2>3 DEF TypeInv, HasObject, LineInv, Made, CancelLooks
<1>2. CASE CancelSignals(x)
  <2>1. cancel[x].call \in Calls /\ cancel' = [cancel EXCEPT ![x].pc = "over"]
        /\ UNCHANGED <<stored, status, free, waiters, running>>
    BY <1>2 DEF TypeInv, CancelInv, CancelSignals
  <2>2. CancelInv' /\ cancel' \in [Cancels -> [pc : {"idle", "signal", "check", "mark", "over"},
                                        task : Tasks \cup {None}, call : Calls \cup {None},
                                        obj : Objects \cup {None}]]
    BY <2>1 DEF TypeInv, TypeOK, CancelInv
  <2>3. CASE call' = call
    BY <2>1, <2>2, <2>3 DEF TypeInv, TypeOK, HasObject, LineInv, Made
  <2>4. CASE call' # call
    <3>1. /\ call[cancel[x].call].pc = "running"
          /\ call' = [call EXCEPT ![cancel[x].call].pc = "cancelling"]
      BY <1>2, <2>4 DEF CancelSignals
    <3>2. call' \in [Calls -> CallRecord] /\ HasObject' /\ LineInv' /\ IsFiniteSet(Made)'
      BY <2>1, <3>1, MovesType DEF Inside, Live
    <3>3. TypeOK'
      BY <2>1, <2>2, <3>2 DEF TypeInv, TypeOK, CallRecord, Pcs
    <3> QED BY <2>2, <3>2, <3>3 DEF TypeInv
  <2> QED BY <2>3, <2>4
<1>3. CASE CancelChecks(x)
  <2>1. cancel[x].task \in Tasks
    BY <1>3 DEF TypeInv, CancelInv, CancelChecks
  <2>2. Is(cancel[x].task, "pending") => Stored(cancel[x].task) \in Objects
    BY <2>1, ReadyIsObject
  <2>3. TypeOK' /\ CancelInv'
    BY <1>3, <2>2 DEF TypeInv, TypeOK, CancelInv, CancelChecks
  <2> QED BY <1>3, <2>3 DEF TypeInv, HasObject, LineInv, Made, CancelChecks
<1>4. CASE CancelMarks(x)
  <2> DEFINE o == cancel[x].obj
  <2>1. o \in Objects /\ o[1] \in Tasks /\ o[2] \in 0 .. MaxSubmits
    BY <1>4, ConstantsAssumption DEF TypeInv, CancelInv, CancelMarks, Objects
  <2>2. /\ status' = [status EXCEPT ![o] = "cancelled"] /\ stored' = [stored EXCEPT ![o[1]] = o[2]]
        /\ cancel' = [cancel EXCEPT ![x].pc = "over"]
        /\ UNCHANGED <<call, free, waiters, running>>
    BY <1>4 DEF CancelMarks
  <2> HIDE DEF o
  <2>3. status' \in [Objects -> {"none", "pending", "running"} \cup Outcomes]
    BY <2>1, <2>2 DEF TypeInv, TypeOK, Outcomes
  <2>4. stored' \in [Tasks -> 0 .. MaxSubmits]
    BY <2>1, <2>2 DEF TypeInv, TypeOK
  <2>5. /\ CancelInv'
        /\ cancel' \in [Cancels -> [pc : {"idle", "signal", "check", "mark", "over"},
                                    task : Tasks \cup {None}, call : Calls \cup {None},
                                    obj : Objects \cup {None}]]
    BY <2>2 DEF TypeInv, TypeOK, CancelInv
  <2>6. IsFiniteSet(Made)'
    BY <2>1, <2>2, <2>3, MadeStaysFinite DEF TypeInv
  <2>7. TypeOK'
    BY <2>2, <2>3, <2>4, <2>5 DEF TypeInv, TypeOK
  <2> QED BY <2>2, <2>5, <2>6, <2>7 DEF TypeInv, HasObject, LineInv
<1> QED BY <1>1, <1>2, <1>3, <1>4 DEF CancelStep

-----------------------------------------------------------------------------
(* Slots, for the other steps                                              *)

\* The call that comes in takes a slot; the one that does not finds none, or a line.
LEMMA EntersSlots ==
  ASSUME TypeInv, SlotsConserved, NEW c \in Calls, NEW o, NEW s,
         call[c].pc = "idle", Enters(c, o, s)
  PROVE  SlotsConserved'
<1>1. /\ IsFiniteSet(Insiders) /\ Cardinality(Insiders) \in Nat /\ c \notin Insiders
      /\ free + Cardinality(Insiders) = MaxParallelism /\ (waiters # <<>> => free = 0)
      /\ free \in Nat /\ call \in [Calls -> CallRecord]
  BY InsidersFinite, SlotsMean, TypeParts DEF TypeInv, TypeOK, Insiders, Inside, Live, Outcomes
<1>2. CASE free > 0 /\ waiters = <<>>
  <2>1. /\ free' = free - 1 /\ waiters' = waiters
        /\ call' = [call EXCEPT ![c] = [pc |-> "running", obj |-> o]]
    BY <1>2 DEF Enters, Starts
  <2>2. Insiders' = Insiders \cup {c}
    BY <1>1, <2>1 DEF Insiders, Inside, Live
  <2>3. Cardinality(Insiders') = Cardinality(Insiders) + 1
    BY <1>1, <2>2, FS_AddElement
  <2>4. free' + Cardinality(Insiders') = MaxParallelism
    BY <1>1, <2>1, <2>3
  <2> QED BY <1>2, <2>1, <2>4 DEF SlotsConserved, Insiders
<1>3. CASE ~ (free > 0 /\ waiters = <<>>)
  <2>1. free' = free /\ call' = [call EXCEPT ![c] = [pc |-> "waiting", obj |-> o]]
    BY <1>3 DEF Enters
  <2>2. Insiders' = Insiders /\ free = 0
    BY <1>1, <1>3, <2>1 DEF Insiders, Inside, Live, Outcomes
  <2> QED BY <1>1, <2>1, <2>2 DEF SlotsConserved, Insiders
<1> QED BY <1>2, <1>3

\* A call inside that stays inside.
LEMMA StaysSlots ==
  ASSUME TypeInv, SlotsConserved, NEW c \in Calls, call[c].pc \in Inside, NEW r,
         r.pc \in Inside, call' = [call EXCEPT ![c] = r], UNCHANGED <<free, waiters>>
  PROVE  SlotsConserved'
<1>1. Insiders' = Insiders
  BY TypeParts DEF TypeInv, Insiders
<1> QED BY <1>1 DEF SlotsConserved, Insiders

LEMMA SlotsStep ==
  ASSUME TypeInv, SlotsConserved, [Next]_vars
  PROVE  SlotsConserved'
<1>1. ASSUME NEW t \in Tasks, Submit(t) PROVE SlotsConserved'
  BY <1>1 DEF Submit, SlotsConserved
<1>2. ASSUME NEW c \in Calls, NEW t \in Tasks, Run(c, t) \/ Resume(c, t) PROVE SlotsConserved'
  BY <1>2, EntersSlots DEF Run, Resume, NewCall
<1>3. ASSUME NEW c \in Calls, StartGranted(c) PROVE SlotsConserved'
  <2>1. call[c].pc \in Inside /\ [pc |-> "running", obj |-> call[c].obj].pc \in Inside
    BY <1>3 DEF StartGranted, Inside, Live
  <2> QED BY <1>3, <2>1, StaysSlots DEF StartGranted, Starts
<1>4. ASSUME NEW c \in Calls, RunnerEnds(c) PROVE SlotsConserved'
  <2>1. PICK p \in Outcomes : call' = [call EXCEPT ![c].pc = p]
    BY <1>4 DEF RunnerEnds
  <2>2. call[c].pc \in Inside /\ p \in Inside
    BY <1>4 DEF RunnerEnds, Inside
  <2>3. Insiders' = Insiders
    BY <2>1, <2>2, CallUpdates DEF TypeInv, Insiders, Pcs
  <2> QED BY <1>4, <2>3 DEF RunnerEnds, SlotsConserved, Insiders
<1>5. ASSUME NEW c \in Calls, EndRun(c) PROVE SlotsConserved'
  BY <1>5, EndRunType
<1>6. ASSUME NEW x \in Cancels, CancelSignals(x) PROVE SlotsConserved'
  <2>1. cancel[x].call \in Calls
    BY <1>6 DEF TypeInv, CancelInv, CancelSignals
  <2>2. Insiders' = Insiders
    BY <1>6, <2>1, TypeParts DEF TypeInv, CancelSignals, Insiders, Inside, Live, CallRecord
  <2> QED BY <1>6, <2>2 DEF CancelSignals, SlotsConserved, Insiders
<1>7. ASSUME NEW x \in Cancels, CancelLooks(x) \/ CancelChecks(x) \/ CancelMarks(x)
      PROVE  SlotsConserved'
  BY <1>7 DEF CancelLooks, CancelChecks, CancelMarks, SlotsConserved
<1>8. CASE UNCHANGED vars
  BY <1>8 DEF vars, SlotsConserved
<1> QED BY <1>1, <1>2, <1>3, <1>4, <1>5, <1>6, <1>7, <1>8 DEF Next, CallStep, CancelStep

LEMMA TypeStep ==
  ASSUME TypeInv, SlotsConserved, [Next]_vars
  PROVE  TypeInv'
<1>1. CASE UNCHANGED vars
  BY <1>1 DEF vars, TypeInv, TypeOK, HasObject, LineInv, CancelInv, Made
<1> QED BY <1>1, SubmitType, RunType, StartGrantedType, RunnerEndsType, EndRunType, CancelType
        DEF Next, CallStep

LEMMA SlotsInit == Init => SlotsConserved
<1> SUFFICES ASSUME Init PROVE SlotsConserved
  OBVIOUS
<1>1. Insiders = {}
  BY DEF Init, Insiders, Inside, Live, Outcomes
<1> QED BY <1>1, FS_EmptySet, SlotsMean, ConstantsAssumption DEF Init

\* Every variable keeps its type, whatever is submitted, run, resumed and cancelled:
\* no slot is lent that is not there, and a thread that cancels has an object to mark.
THEOREM TypeCorrect == Spec => []TypeOK
<1>1. Init => TypeInv /\ SlotsConserved
  BY TypeInit, SlotsInit
<1>2. TypeInv /\ SlotsConserved /\ [Next]_vars => (TypeInv /\ SlotsConserved)'
  BY TypeStep, SlotsStep
<1>3. TypeInv => TypeOK
  BY DEF TypeInv
<1> QED BY <1>1, <1>2, <1>3, PTL DEF Spec

\* RuntimeOrchestrator.run: a slot is held by each call inside and by no one else,
\* however runs end, and none is free while someone waits.
THEOREM Slots == Spec => []SlotsConserved
<1>1. Init => TypeInv /\ SlotsConserved
  BY TypeInit, SlotsInit
<1>2. TypeInv /\ SlotsConserved /\ [Next]_vars => (TypeInv /\ SlotsConserved)'
  BY TypeStep, SlotsStep
<1> QED BY <1>1, <1>2, PTL DEF Spec

-----------------------------------------------------------------------------
(* A task that is RUNNING is run                                           *)

Runs(c, o) == call[c].pc \in Live \cup Outcomes /\ call[c].obj = o

\* A call that begins runs its object, and those that are under way go on.
LEMMA BegunRunning ==
  ASSUME TypeInv, RunningIsRun, NEW c \in Calls, NEW o \in Objects, NEW s,
         s \in [Objects -> {"none", "pending", "running"} \cup Outcomes],
         \A q \in Objects : s[q] = "running" => status[q] = "running",
         call[c].pc \notin Live \cup Outcomes, Starts(c, o, s)
  PROVE  RunningIsRun'
<1> SUFFICES ASSUME NEW q \in Objects, status'[q] = "running"
             PROVE  \E d \in Calls : Runs(d, q)'
  BY DEF RunningIsRun, Runs
<1>1. call'[c].pc = "running" /\ call'[c].obj = o /\ \A d \in Calls \ {c} : call'[d] = call[d]
  BY TypeParts DEF TypeInv, Starts
<1>2. CASE q = o
  BY <1>1, <1>2 DEF Runs, Live
<1>3. CASE q # o
  <2>1. status[q] = "running"
    BY <1>3 DEF Starts
  <2>2. PICK d \in Calls : Runs(d, q)
    BY <2>1 DEF RunningIsRun, Runs
  <2> QED BY <1>1, <2>2 DEF Runs
<1> QED BY <1>2, <1>3

\* No object is set to RUNNING, and no call that runs one stops.
LEMMA StillRunning ==
  ASSUME RunningIsRun,
         \A o \in Objects : status'[o] = "running" => status[o] = "running",
         \A c \in Calls, o \in Objects : Runs(c, o) => Runs(c, o)'
  PROVE  RunningIsRun'
BY DEF RunningIsRun, Runs

LEMMA EntersRunning ==
  ASSUME TypeInv, RunningIsRun, NEW c \in Calls, NEW o \in Objects, NEW s,
         s = status \/ s = [status EXCEPT ![o] = "pending"],
         call[c].pc = "idle", Enters(c, o, s)
  PROVE  RunningIsRun'
<1>1. /\ s \in [Objects -> {"none", "pending", "running"} \cup Outcomes]
      /\ \A q \in Objects : s[q] = "running" => status[q] = "running"
  BY DEF TypeInv, TypeOK
<1>2. call[c].pc \notin Live \cup Outcomes
  BY DEF Live, Outcomes
<1>3. CASE free > 0 /\ waiters = <<>>
  BY <1>1, <1>2, <1>3, BegunRunning DEF Enters
<1>4. CASE ~ (free > 0 /\ waiters = <<>>)
  <2>1. status' = s /\ call' = [call EXCEPT ![c] = [pc |-> "waiting", obj |-> o]]
    BY <1>4 DEF Enters
  <2>2. \A d \in Calls, q \in Objects : Runs(d, q) => Runs(d, q)'
    BY <1>2, <2>1, TypeParts DEF TypeInv, Runs
  <2> QED BY <1>1, <2>1, <2>2, StillRunning
<1> QED BY <1>3, <1>4

LEMMA EndRunning ==
  ASSUME TypeInv, RunningIsRun, NEW c \in Calls, EndRun(c)
  PROVE  RunningIsRun'
<1> SUFFICES ASSUME NEW q \in Objects, status'[q] = "running"
             PROVE  \E d \in Calls : Runs(d, q)'
  BY DEF RunningIsRun, Runs
<1>1. /\ call[c].pc \in Outcomes /\ Releases(c) /\ call[c].obj \in Objects
      /\ status' = [status EXCEPT ![call[c].obj] = call[c].pc]
  BY DEF EndRun, TypeInv, HasObject, Inside
<1>2. q # call[c].obj /\ status[q] = "running"
  BY <1>1 DEF TypeInv, TypeOK, Outcomes
<1>3. PICK d \in Calls : Runs(d, q)
  BY <1>2 DEF RunningIsRun, Runs
<1>4. d # c /\ (waiters # <<>> => d # Head(waiters))
  BY <1>1, <1>2, <1>3, HeadOfLine DEF Runs, Live, Outcomes
<1>5. call'[d] = call[d]
  BY <1>1, <1>4, ReleasesCalls
<1> QED BY <1>3, <1>5 DEF Runs

LEMMA RunningStep ==
  ASSUME TypeInv, RunningIsRun, [Next]_vars
  PROVE  RunningIsRun'
<1>1. ASSUME NEW t \in Tasks, Submit(t) PROVE RunningIsRun'
  BY <1>1, StillRunning DEF Submit, TypeInv, TypeOK, Runs
<1>2. ASSUME NEW c \in Calls, NEW t \in Tasks, Run(c, t) \/ Resume(c, t) PROVE RunningIsRun'
  <2>1. Stored(t) \in Objects /\ call[c].pc = "idle"
    BY <1>2, ReadyIsObject DEF Run, Resume, Ready, NewCall
  <2> QED BY <1>2, <2>1, EntersRunning DEF Run, Resume
<1>3. ASSUME NEW c \in Calls, StartGranted(c) PROVE RunningIsRun'
  <2>1. call[c].obj \in Objects /\ call[c].pc \notin Live \cup Outcomes
    BY <1>3 DEF StartGranted, TypeInv, HasObject, Inside, Live, Outcomes
  <2> QED BY <1>3, <2>1, BegunRunning DEF StartGranted, TypeInv, TypeOK
<1>4. ASSUME NEW c \in Calls, RunnerEnds(c) PROVE RunningIsRun'
  <2>1. PICK p \in Outcomes : call' = [call EXCEPT ![c].pc = p]
    BY <1>4 DEF RunnerEnds
  <2>2. \A d \in Calls, q \in Objects : Runs(d, q) => Runs(d, q)'
    BY <2>1, CallUpdates DEF TypeInv, Runs, Pcs, Inside
  <2> QED BY <1>4, <2>2, StillRunning DEF RunnerEnds
<1>5. ASSUME NEW c \in Calls, EndRun(c) PROVE RunningIsRun'
  BY <1>5, EndRunning
<1>6. ASSUME NEW x \in Cancels, CancelSignals(x) PROVE RunningIsRun'
  <2>1. cancel[x].call \in Calls
    BY <1>6 DEF TypeInv, CancelInv, CancelSignals
  <2>2. \A d \in Calls, q \in Objects : Runs(d, q) => Runs(d, q)'
    BY <1>6, <2>1, TypeParts DEF TypeInv, CancelSignals, Runs, Live, CallRecord
  <2> QED BY <1>6, <2>2, StillRunning DEF CancelSignals
<1>7. ASSUME NEW x \in Cancels, CancelLooks(x) \/ CancelChecks(x) PROVE RunningIsRun'
  BY <1>7 DEF CancelLooks, CancelChecks, RunningIsRun
<1>8. ASSUME NEW x \in Cancels, CancelMarks(x) PROVE RunningIsRun'
  BY <1>8, StillRunning DEF CancelMarks, TypeInv, TypeOK, Runs
<1>9. CASE UNCHANGED vars
  BY <1>9 DEF vars, RunningIsRun
<1> QED BY <1>1, <1>2, <1>3, <1>4, <1>5, <1>6, <1>7, <1>8, <1>9 DEF Next, CallStep, CancelStep

\* RuntimeOrchestrator.run: a task that is RUNNING is being run by a call that is to
\* record how it ended, whatever is submitted again, run twice or cancelled.
THEOREM Running == Spec => []RunningIsRun
<1>1. Init => TypeInv /\ SlotsConserved /\ RunningIsRun
  BY TypeInit, SlotsInit DEF Init, RunningIsRun
<1>2. TypeInv /\ SlotsConserved /\ RunningIsRun /\ [Next]_vars
      => (TypeInv /\ SlotsConserved /\ RunningIsRun)'
  BY TypeStep, SlotsStep, RunningStep
<1> QED BY <1>1, <1>2, PTL DEF Spec

-----------------------------------------------------------------------------
(* The registered runner is one of the task's                              *)

UnderWay(c, t) == call[c].pc \in Live \cup Outcomes /\ call[c].obj[1] = t

\* Only the call that starts is newly registered, and a call that ends is not any
\* more; all others keep their objects while they are under way.
LEMMA RegisteredStep ==
  ASSUME TypeInv, RegisteredIsUnderWay, [Next]_vars
  PROVE  RegisteredIsUnderWay'
<1>1. ASSUME NEW c \in Calls, NEW o \in Objects, NEW s,
             call[c].pc \notin Live \cup Outcomes, Starts(c, o, s)
      PROVE  RegisteredIsUnderWay'
  <2> SUFFICES ASSUME NEW t \in Tasks, NEW d, d = running'[t], d # None
               PROVE  UnderWay(d, t)'
    BY DEF RegisteredIsUnderWay, UnderWay
  <2>1. /\ call'[c].pc = "running" /\ call'[c].obj = o
        /\ \A e \in Calls \ {c} : call'[e] = call[e]
        /\ running' = [running EXCEPT ![o[1]] = c]
    BY <1>1, TypeParts DEF TypeInv, Starts
  <2>2. CASE t = o[1]
    <3>1. d = c
      BY <2>1, <2>2 DEF TypeInv, TypeOK
    <3> QED BY <2>1, <2>2, <3>1 DEF Live, UnderWay
  <2>3. CASE t # o[1]
    <3>1. d = running[t] /\ d \in Calls
      BY <2>1, <2>3 DEF TypeInv, TypeOK
    <3>2. UnderWay(d, t)
      BY <3>1 DEF RegisteredIsUnderWay, UnderWay
    <3> QED BY <1>1, <2>1, <3>1, <3>2 DEF UnderWay
  <2> QED BY <2>2, <2>3
<1>2. ASSUME UNCHANGED running, \A d \in Calls, t \in Tasks : UnderWay(d, t) => UnderWay(d, t)'
      PROVE  RegisteredIsUnderWay'
  BY <1>2 DEF RegisteredIsUnderWay, TypeInv, TypeOK, UnderWay
<1>3. ASSUME NEW c \in Calls, NEW t \in Tasks, Run(c, t) \/ Resume(c, t)
      PROVE  RegisteredIsUnderWay'
  <2>1. Stored(t) \in Objects /\ call[c].pc = "idle" /\ call[c].pc \notin Live \cup Outcomes
    BY <1>3, ReadyIsObject DEF Run, Resume, Ready, NewCall, Live, Outcomes
  <2>2. PICK s : Enters(c, Stored(t), s)
    BY <1>3 DEF Run, Resume
  <2>3. CASE free > 0 /\ waiters = <<>>
    BY <1>1, <2>1, <2>2, <2>3 DEF Enters
  <2>4. CASE ~ (free > 0 /\ waiters = <<>>)
    <3>1. running' = running /\ call' = [call EXCEPT ![c] = [pc |-> "waiting", obj |-> Stored(t)]]
      BY <2>2, <2>4 DEF Enters
    <3>2. \A d \in Calls, u \in Tasks : UnderWay(d, u) => UnderWay(d, u)'
      BY <2>1, <3>1, TypeParts DEF TypeInv, UnderWay
    <3> QED BY <1>2, <3>1, <3>2
  <2> QED BY <2>3, <2>4
<1>4. ASSUME NEW c \in Calls, StartGranted(c) PROVE RegisteredIsUnderWay'
  <2>1. call[c].obj \in Objects /\ call[c].pc \notin Live \cup Outcomes
    BY <1>4 DEF StartGranted, TypeInv, HasObject, Inside, Live, Outcomes
  <2> QED BY <1>1, <1>4, <2>1 DEF StartGranted
<1>5. ASSUME NEW c \in Calls, RunnerEnds(c) PROVE RegisteredIsUnderWay'
  <2>1. PICK p \in Outcomes : call' = [call EXCEPT ![c].pc = p]
    BY <1>5 DEF RunnerEnds
  <2>2. \A d \in Calls, t \in Tasks : UnderWay(d, t) => UnderWay(d, t)'
    BY <2>1, CallUpdates DEF TypeInv, UnderWay, Pcs, Inside
  <2> QED BY <1>2, <1>5, <2>2 DEF RunnerEnds
<1>6. ASSUME NEW c \in Calls, EndRun(c) PROVE RegisteredIsUnderWay'
  <2> SUFFICES ASSUME NEW t \in Tasks, NEW d, d = running'[t], d # None
               PROVE  UnderWay(d, t)'
    BY DEF RegisteredIsUnderWay, UnderWay
  <2>1. /\ call[c].pc \in Outcomes /\ Releases(c)
        /\ running' = [running EXCEPT ![call[c].obj[1]] = None]
    BY <1>6 DEF EndRun
  <2>2. t # call[c].obj[1] /\ d = running[t] /\ d \in Calls
    BY <2>1 DEF TypeInv, TypeOK
  <2>3. UnderWay(d, t)
    BY <2>2 DEF RegisteredIsUnderWay, UnderWay
  <2>4. d # c /\ (waiters # <<>> => d # Head(waiters))
    BY <2>2, <2>3, HeadOfLine DEF UnderWay, Live, Outcomes
  <2>5. call'[d] = call[d]
    BY <2>1, <2>2, <2>4, ReleasesCalls
  <2> QED BY <2>2, <2>3, <2>5 DEF UnderWay
<1>7. ASSUME NEW x \in Cancels, CancelSignals(x) PROVE RegisteredIsUnderWay'
  <2>1. cancel[x].call \in Calls
    BY <1>7 DEF TypeInv, CancelInv, CancelSignals
  <2>2. \A d \in Calls, t \in Tasks : UnderWay(d, t) => UnderWay(d, t)'
    BY <1>7, <2>1, TypeParts DEF TypeInv, CancelSignals, UnderWay, Live, CallRecord
  <2> QED BY <1>2, <1>7, <2>2 DEF CancelSignals
<1>8. CASE UNCHANGED <<call, running>>
  BY <1>8 DEF RegisteredIsUnderWay
<1> QED BY <1>3, <1>4, <1>5, <1>6, <1>7, <1>8
        DEF Next, CallStep, CancelStep, Submit, CancelLooks, CancelChecks, CancelMarks, vars

\* RuntimeOrchestrator.cancel signals a runner of the task it was asked to cancel, and
\* one whose call is under way, however many calls ran that task at once.
THEOREM Registered == Spec => []RegisteredIsUnderWay
<1>1. Init => TypeInv /\ SlotsConserved /\ RegisteredIsUnderWay
  BY TypeInit, SlotsInit DEF Init, RegisteredIsUnderWay
<1>2. TypeInv /\ SlotsConserved /\ RegisteredIsUnderWay /\ [Next]_vars
      => (TypeInv /\ SlotsConserved /\ RegisteredIsUnderWay)'
  BY TypeStep, SlotsStep, RegisteredStep
<1> QED BY <1>1, <1>2, PTL DEF Spec
=============================================================================
