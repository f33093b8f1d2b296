------------------------- MODULE DraftDocumentProofs -------------------------
(***************************************************************************)
(* What holds of a draft however its calls overlap, fail or die with the   *)
(* server.  A call that has counted the versions holds a number that is    *)
(* either taken by now or the next one; what a call is about to insert is  *)
(* a text it has just saved; and a status that says approved is never      *)
(* older than an approval.                                                 *)
(***************************************************************************)
EXTENDS DraftDocument, TLAPS

Ats == {"idle", "await", "version", "decide", "select", "update", "count", "insert",
        "journal", "over"}

\* A call that is under way has a draft, and its copy of it.
Begun ==
  \A c \in Calls : /\ call[c].at # "idle" => document # None
                   /\ Active(c) => call[c].copy # None

\* Where each kind of call goes.
Path(r) ==
  /\ r.at \in {"count", "insert"} => r.kind \in {"regenerate", "restore"}
  /\ r.at = "decide" => r.kind \in Decisions
  /\ r.at = "await" => r.kind = "regenerate"
  /\ r.at = "version" => r.kind = "restore"
  /\ r.at = "idle" => r.kind = "none"
  /\ r.at \in {"select", "update"} => r.kind \in {"regenerate", "restore"} \cup Decisions

\* The number a call has counted is that of a version, or the next one.
Counted ==
  \A c \in Calls : call[c].at = "insert" => call[c].number \in 1 .. Len(versions) + 1

DraftInv == TypeOK /\ Begun /\ (\A c \in Calls : Path(call[c])) /\ Counted /\ VersionsUnbroken

\* A call begins, or it goes on.
Begins(c) ==
  \/ \E target \in Sections \cup {{p} : p \in Paragraphs} : Regenerate(c, target)
  \/ Restore(c) \/ Export(c) \/ \E d \in Decisions : Validate(c, d)

Goes(c) ==
  \/ Generated(c) \/ GenerationFails(c) \/ ReadVersion(c) \/ Decide(c)
  \/ Select(c) \/ Update(c) \/ Count(c) \/ Insert(c) \/ Journal(c)

-----------------------------------------------------------------------------
(* What becomes of a call                                                  *)

LEMMA CallUpdates ==
  ASSUME NEW r \in Call
  PROVE  /\ \A p \in Ats : [r EXCEPT !.at = p] \in Call
         /\ \A o \in Document : [r EXCEPT !.copy = o] \in Call
         /\ \A n \in Nat : [r EXCEPT !.number = n] \in Call
         /\ \A e \in SUBSET {"status", "payload"} : [r EXCEPT !.dirty = e] \in Call
BY DEF Call, Ats

LEMMA CallFields ==
  ASSUME NEW c \in Calls, call[c] \in Call
  PROVE  /\ call[c].kind \in Kinds \cup {"none"} /\ call[c].at \in Ats
         /\ call[c].target \subseteq Paragraphs /\ call[c].number \in Nat
         /\ call[c].copy \in Document \cup {None}
BY DEF Call, Ats

\* A copy that is not the absence of one has the fields of a document.
LEMMA CopyFields ==
  ASSUME NEW o \in Document
  PROVE  /\ o.status \in Statuses /\ o.text \in Text /\ o.citations \in Text
         /\ o.updated \in Calls \cup {None}
BY DEF Document

LEMMA CallBecomes ==
  ASSUME TypeOK, NEW c \in Calls, NEW r \in Call, call' = [call EXCEPT ![c] = r]
  PROVE  /\ call' \in [Calls -> Call]
         /\ call'[c] = r
         /\ \A d \in Calls \ {c} : call'[d] = call[d]
BY DEF TypeOK

LEMMA GotoBecomes ==
  ASSUME TypeOK, NEW c \in Calls, NEW p \in Ats, Goto(c, p)
  PROVE  /\ call' \in [Calls -> Call]
         /\ call'[c].at = p
         /\ call'[c].kind = call[c].kind /\ call'[c].copy = call[c].copy
         /\ call'[c].number = call[c].number /\ call'[c].target = call[c].target
         /\ \A d \in Calls \ {c} : call'[d] = call[d]
<1> DEFINE r == [call[c] EXCEPT !.at = p]
<1>1. call[c] \in Call
  BY DEF TypeOK
<1>2. r \in Call
  BY <1>1, CallUpdates
<1>3. call' = [call EXCEPT ![c] = r]
  BY DEF Goto
<1>4. /\ r.at = p /\ r.kind = call[c].kind /\ r.copy = call[c].copy
      /\ r.number = call[c].number /\ r.target = call[c].target
  BY <1>1 DEF Call
<1> HIDE DEF r
<1> QED BY <1>2, <1>3, <1>4, CallBecomes

LEMMA RewrittenType ==
  ASSUME NEW o \in Document, NEW target \in SUBSET Paragraphs, NEW c \in Calls
  PROVE  /\ Rewritten(o, target, c) \in Document /\ Rewritten(o, target, c).status = o.status
         /\ Rewritten(o, target, c).updated = c
<1> DEFINE new(f) == [p \in Paragraphs |-> IF p \in target THEN c ELSE f[p]]
<1>1. \A f \in Text : new(f) \in Text
  BY DEF Text
<1>2. o.text \in Text /\ o.citations \in Text /\ o.status \in Statuses
  BY CopyFields
<1>3. Rewritten(o, target, c) =
        [o EXCEPT !.text = new(o.text), !.citations = new(o.citations), !.updated = c]
  BY DEF Rewritten, Document
<1> HIDE DEF new
<1> QED BY <1>1, <1>2, <1>3 DEF Document

LEMMA GeneratedBecomes ==
  ASSUME TypeOK, Begun, NEW c \in Calls, Generated(c)
  PROVE  /\ call' \in [Calls -> Call]
         /\ call'[c].at = "select"
         /\ call'[c].kind = call[c].kind
         /\ call'[c].copy \in Document /\ call'[c].copy.status = call[c].copy.status
         /\ call'[c].copy.updated = c
         /\ \A d \in Calls \ {c} : call'[d] = call[d]
<1> DEFINE o == Rewritten(call[c].copy, call[c].target, c)
           q == [call[c] EXCEPT !.at = "select"]
           r == [q EXCEPT !.copy = o]
<1>1. call[c] \in Call /\ call[c].copy # None
  BY DEF TypeOK, Generated, Begun, Active
<1>2. call[c].copy \in Document /\ call[c].target \subseteq Paragraphs
  BY <1>1, CallFields
<1>3. o \in Document /\ o.status = call[c].copy.status /\ o.updated = c
  BY <1>2, RewrittenType
<1>4. call' = [call EXCEPT ![c] = r]
  BY <1>1 DEF Generated, Call
<1> HIDE DEF o
<1>5. q \in Call
  BY <1>1, CallUpdates DEF Ats
<1>6. r \in Call
  BY <1>3, <1>5, CallUpdates
<1>7. r.at = "select" /\ r.kind = call[c].kind /\ r.copy = o
  BY <1>1 DEF Call
<1> HIDE DEF r
<1> QED BY <1>3, <1>4, <1>6, <1>7, CallBecomes

\* The version replaces the text of the copy, or there is none and the call ends.
LEMMA ReadVersionBecomes ==
  ASSUME TypeOK, Begun, NEW c \in Calls, ReadVersion(c)
  PROVE  /\ call' \in [Calls -> Call]
         /\ call'[c].kind = call[c].kind /\ call'[c].target = call[c].target
         /\ call'[c].copy \in Document /\ call'[c].copy.status = call[c].copy.status
         /\ \/ call'[c].at = "select" /\ call'[c].copy.updated = c
            \/ call'[c].at = "over" /\ call'[c].copy = call[c].copy
         /\ \A d \in Calls \ {c} : call'[d] = call[d]
<1>1. call[c] \in Call /\ call[c].copy # None
  BY DEF TypeOK, ReadVersion, Begun, Active
<1>2. call[c].copy \in Document
  BY <1>1, CallFields
<1>3. CASE Goto(c, "over")
  BY <1>2, <1>3, GotoBecomes DEF Ats
<1>4. CASE ~ Goto(c, "over")
  <2>1. PICK i \in DOMAIN versions :
          call' = [call EXCEPT ![c].at = "select",
                               ![c].copy = [@ EXCEPT !.text = versions[i].text, !.updated = c]]
    BY <1>4 DEF ReadVersion
  <2>2. versions[i] \in Version
    BY DEF TypeOK
  <2>3. versions[i].text \in Text
    BY <2>2 DEF Version
  <2> DEFINE text == versions[i].text
             o == [call[c].copy EXCEPT !.text = text, !.updated = c]
             q == [call[c] EXCEPT !.at = "select"]
             r == [q EXCEPT !.copy = o]
  <2>4. call' = [call EXCEPT ![c] = r]
    BY <1>1, <2>1 DEF Call
  <2>5. text \in Text
    BY <2>3
  <2> HIDE DEF text
  <2>6. o \in Document /\ o.status = call[c].copy.status /\ o.updated = c
    BY <1>2, <2>5 DEF Document
  <2> HIDE DEF o
  <2>7. q \in Call
    BY <1>1, CallUpdates DEF Ats
  <2>8. r \in Call
    BY <2>6, <2>7, CallUpdates
  <2>9. /\ r.at = "select" /\ r.kind = call[c].kind /\ r.copy = o
        /\ r.target = call[c].target
    BY <1>1 DEF Call
  <2> HIDE DEF r
  <2> QED BY <2>4, <2>6, <2>8, <2>9, CallBecomes
<1> QED BY <1>3, <1>4

LEMMA DecideBecomes ==
  ASSUME TypeOK, Begun, NEW c \in Calls, Decide(c)
  PROVE  /\ call' \in [Calls -> Call]
         /\ call'[c].at = "select"
         /\ call'[c].kind = call[c].kind
         /\ call'[c].copy \in Document /\ call'[c].copy.updated = call[c].copy.updated
         /\ call'[c].copy.status = "lawyer_approved" =>
              call[c].kind = "approved" \/ call[c].copy.status = "lawyer_approved"
         /\ \A d \in Calls \ {c} : call'[d] = call[d]
<1> DEFINE s == CASE call[c].kind = "approved" -> "lawyer_approved"
                  [] call[c].kind = "rejected" -> "rejected"
                  [] OTHER -> call[c].copy.status
           o == [call[c].copy EXCEPT !.status = s]
           q == [call[c] EXCEPT !.at = "select"]
           r == [q EXCEPT !.copy = o]
<1>1. call[c] \in Call /\ call[c].copy # None
  BY DEF TypeOK, Decide, Begun, Active
<1>2. call[c].copy \in Document
  BY <1>1, CallFields
<1>3. s \in Statuses
  BY <1>2, CopyFields DEF Statuses
<1>4. s = "lawyer_approved" =>
        call[c].kind = "approved" \/ call[c].copy.status = "lawyer_approved"
  OBVIOUS
<1>5. call' = [call EXCEPT ![c] = r]
  BY <1>1 DEF Decide, Call
<1> HIDE DEF s
<1>6. o \in Document /\ o.status = s /\ o.updated = call[c].copy.updated
  BY <1>2, <1>3 DEF Document
<1> HIDE DEF o
<1>7. q \in Call
  BY <1>1, CallUpdates DEF Ats
<1>8. r \in Call
  BY <1>6, <1>7, CallUpdates
<1>9. r.at = "select" /\ r.kind = call[c].kind /\ r.copy = o
  BY <1>1 DEF Call
<1> HIDE DEF r
<1> QED BY <1>4, <1>5, <1>6, <1>8, <1>9, CallBecomes

LEMMA SelectBecomes ==
  ASSUME TypeOK, NEW c \in Calls, Select(c)
  PROVE  /\ call' \in [Calls -> Call]
         /\ call'[c].at = "update"
         /\ call'[c].kind = call[c].kind /\ call'[c].copy = call[c].copy
         /\ call[c].copy.updated # document.updated => "payload" \in call'[c].dirty
         /\ \A d \in Calls \ {c} : call'[d] = call[d]
<1> DEFINE copy == call[c].copy
           e == (IF copy.status # document.status THEN {"status"} ELSE {}) \cup
                (IF \/ copy.text # document.text \/ copy.citations # document.citations
                    \/ copy.updated # document.updated
                 THEN {"payload"} ELSE {})
           q == [call[c] EXCEPT !.at = "update"]
           r == [q EXCEPT !.dirty = e]
<1>1. call[c] \in Call
  BY DEF TypeOK
<1>2. e \in SUBSET {"status", "payload"}
  OBVIOUS
<1>3. call[c].copy.updated # document.updated => "payload" \in e
  OBVIOUS
<1>4. call' = [call EXCEPT ![c] = r]
  BY <1>1 DEF Select, Call
<1> HIDE DEF e
<1>5. q \in Call
  BY <1>1, CallUpdates DEF Ats
<1>6. r \in Call
  BY <1>2, <1>5, CallUpdates
<1>7. r.at = "update" /\ r.kind = call[c].kind /\ r.copy = call[c].copy /\ r.dirty = e
  BY <1>1 DEF Call
<1> HIDE DEF r
<1> QED BY <1>3, <1>4, <1>6, <1>7, CallBecomes

LEMMA CountBecomes ==
  ASSUME TypeOK, NEW c \in Calls, Count(c)
  PROVE  /\ call' \in [Calls -> Call]
         /\ call'[c].at = "insert" /\ call'[c].number = Len(versions) + 1
         /\ call'[c].kind = call[c].kind /\ call'[c].copy = call[c].copy
         /\ \A d \in Calls \ {c} : call'[d] = call[d]
<1> DEFINE n == Len(versions) + 1
           q == [call[c] EXCEPT !.at = "insert"]
           r == [q EXCEPT !.number = n]
<1>1. call[c] \in Call /\ n \in Nat
  BY DEF TypeOK
<1>2. call' = [call EXCEPT ![c] = r]
  BY <1>1 DEF Count, Call
<1> HIDE DEF n
<1>3. q \in Call
  BY <1>1, CallUpdates DEF Ats
<1>4. r \in Call
  BY <1>1, <1>3, CallUpdates
<1>5. r.at = "insert" /\ r.number = n /\ r.kind = call[c].kind /\ r.copy = call[c].copy
  BY <1>1 DEF Call
<1> HIDE DEF r
<1> QED BY <1>2, <1>4, <1>5, CallBecomes DEF n

\* Every call that is under way dies with the server.
LEMMA RestartBecomes ==
  ASSUME TypeOK, Restart
  PROVE  /\ call' \in [Calls -> Call]
         /\ \A c \in Calls : /\ call'[c].at \in {"idle", "over"}
                             /\ call'[c].at = "over" <=> call[c].at # "idle"
                             /\ call'[c].kind = call[c].kind
<1>1. \A c \in Calls : call[c] \in Call /\ [call[c] EXCEPT !.at = "over"] \in Call
  BY CallUpdates DEF TypeOK, Ats
<1>2. \A c \in Calls : /\ [call[c] EXCEPT !.at = "over"].at = "over"
                       /\ [call[c] EXCEPT !.at = "over"].kind = call[c].kind
  BY <1>1 DEF Call
<1> QED BY <1>1, <1>2 DEF Restart, Active

-----------------------------------------------------------------------------
(* What the rows of the document and of its versions become                *)

LEMMA UpdateType ==
  ASSUME TypeOK, Begun, NEW c \in Calls, Update(c)
  PROVE  document' \in Document
<1>1. call[c] \in Call /\ call[c].copy # None /\ document # None
  BY DEF TypeOK, Update, Begun, Active
<1>2. call[c].copy \in Document /\ document \in Document
  BY <1>1, CallFields DEF TypeOK
<1>3. /\ document.status \in Statuses /\ document.text \in Text /\ document.citations \in Text
      /\ document.updated \in Calls \cup {None}
      /\ call[c].copy.status \in Statuses /\ call[c].copy.text \in Text
      /\ call[c].copy.citations \in Text /\ call[c].copy.updated \in Calls \cup {None}
  BY <1>2, CopyFields
<1> QED BY <1>3 DEF Update, Document

\* A version is inserted only if its number is the next one.
LEMMA InsertedNext ==
  ASSUME DraftInv, NEW c \in Calls, Insert(c), versions' # versions
  PROVE  /\ versions' = Append(versions, [number |-> Len(versions) + 1,
                                          text |-> call[c].copy.text, by |-> c])
         /\ [number |-> Len(versions) + 1, text |-> call[c].copy.text, by |-> c] \in Version
         /\ call'[c].at = "journal"
<1>1. versions \in Seq(Version) /\ call[c] \in Call /\ call[c].copy # None
  BY DEF DraftInv, TypeOK, Insert, Begun, Active
<1>2. call[c].copy.text \in Text
  BY <1>1, CallFields, CopyFields
<1>3. ~ \E i \in DOMAIN versions : versions[i].number = call[c].number
  BY DEF Insert
<1>4. call[c].number \in 1 .. Len(versions) + 1
  BY DEF DraftInv, Counted, Insert
<1>5. call[c].number = Len(versions) + 1
  BY <1>1, <1>3, <1>4 DEF DraftInv, VersionsUnbroken
<1>6. call'[c].at = "journal"
  BY <1>3, GotoBecomes DEF DraftInv, Insert, Ats
<1> QED BY <1>1, <1>2, <1>3, <1>5, <1>6 DEF Insert, Version

\* One more version keeps what was known of the others.
LEMMA Appended ==
  ASSUME versions \in Seq(Version), NEW v \in Version, versions' = Append(versions, v)
  PROVE  /\ versions' \in Seq(Version)
         /\ Len(versions') = Len(versions) + 1 /\ Len(versions) \in Nat
         /\ DOMAIN versions = 1 .. Len(versions) /\ DOMAIN versions' = 1 .. Len(versions) + 1
         /\ versions'[Len(versions) + 1] = v
         /\ \A i \in DOMAIN versions : i \in DOMAIN versions' /\ versions'[i] = versions[i]
OBVIOUS

-----------------------------------------------------------------------------
(* Types and version numbers                                               *)

\* A call that begins has a copy of the document, and writes nothing.
LEMMA Beginnings ==
  ASSUME DraftInv, NEW c \in Calls, Begins(c)
  PROVE  /\ document \in Document /\ document' = document /\ versions' = versions
         /\ decisions' = decisions /\ journal' = journal /\ restarts' = restarts
         /\ approved' = approved /\ saved' = saved
         /\ alone' = IF \E o \in Calls : Active(o) THEN {} ELSE {c}
         /\ call[c].at = "idle" /\ call' \in [Calls -> Call]
         /\ \A d \in Calls \ {c} : call'[d] = call[d]
         /\ Path(call'[c]) /\ call'[c].copy = document
         /\ call'[c].at \in {"await", "version", "decide", "journal"}
         /\ call'[c].at = "journal" => call'[c].kind = "export"
<1>1. PICK k \in Kinds, a \in {"await", "version", "decide", "journal"},
           target \in SUBSET Paragraphs :
        /\ Begin(c, k, a, target)
        /\ \/ k = "regenerate" /\ a = "await"
           \/ k = "restore" /\ a = "version"
           \/ k = "export" /\ a = "journal"
           \/ k \in Decisions /\ a = "decide"
  <2>1. \A s \in Sections \cup {{p} : p \in Paragraphs} : s \in SUBSET Paragraphs
    BY DraftAssumption
  <2>2. CASE \E s \in Sections \cup {{p} : p \in Paragraphs} : Regenerate(c, s)
    BY <2>1, <2>2 DEF Regenerate, Kinds
  <2>3. CASE Restore(c)
    BY <2>3 DEF Restore, Kinds
  <2>4. CASE Export(c)
    BY <2>4 DEF Export, Kinds
  <2>5. CASE \E v \in Decisions : Validate(c, v)
    BY <2>5 DEF Validate, Kinds, Decisions
  <2> QED BY <2>2, <2>3, <2>4, <2>5 DEF Begins
<1>2. document \in Document /\ TypeOK
  BY <1>1 DEF DraftInv, TypeOK, Begin
<1> DEFINE r == [Idle EXCEPT !.kind = k, !.at = a, !.target = target, !.copy = document]
<1>3. r \in Call /\ r.kind = k /\ r.at = a /\ r.copy = document
  BY <1>2 DEF Idle, Call
<1>4. call' = [call EXCEPT ![c] = r]
  BY <1>1 DEF Begin
<1> HIDE DEF r
<1>5. call' \in [Calls -> Call] /\ call'[c] = r /\ \A d \in Calls \ {c} : call'[d] = call[d]
  BY <1>2, <1>3, <1>4, CallBecomes
<1>6. Path(r)
  BY <1>1, <1>3 DEF Path, Decisions
<1> QED BY <1>1, <1>2, <1>3, <1>5, <1>6 DEF Begin

LEMMA BeginDraft ==
  ASSUME DraftInv, NEW c \in Calls, Begins(c)
  PROVE  DraftInv'
<1>1. alone' \subseteq Calls
  BY Beginnings
<1>2. TypeOK'
  BY <1>1, Beginnings DEF DraftInv, TypeOK
<1>3. Begun'
  BY Beginnings, DraftAssumption DEF DraftInv, Begun, Active
<1>4. (\A d \in Calls : Path(call[d]))' /\ Counted' /\ VersionsUnbroken'
  BY Beginnings DEF DraftInv, Counted, VersionsUnbroken
<1> QED BY <1>2, <1>3, <1>4 DEF DraftInv

\* What each step of a call writes, but for the call itself.
LEMMA Touches ==
  ASSUME NEW c \in Calls, Goes(c)
  PROVE  /\ restarts' = restarts /\ alone' = alone
         /\ Update(c) \/ (document' = document /\ saved' = saved)
         /\ Insert(c) \/ versions' = versions
         /\ Decide(c) \/ (decisions' = decisions /\ approved' = approved)
         /\ Journal(c) \/ journal' = journal
BY DEF Goes, Generated, GenerationFails, ReadVersion, Decide, Select, Update, Count, Insert,
       Journal

\* A step of a call that has begun, as far as the call itself is concerned.
LEMMA OnItsWay ==
  ASSUME DraftInv, NEW c \in Calls, Goes(c)
  PROVE  /\ call' \in [Calls -> Call]
         /\ \A d \in Calls \ {c} : call'[d] = call[d]
         /\ call'[c].kind = call[c].kind
         /\ call'[c].at # "idle" /\ Active(c)
         /\ call'[c].copy # None
         /\ Path(call'[c])
<1> USE DEF Ats
<1>0. /\ TypeOK /\ Begun /\ Path(call[c]) /\ call[c] \in Call
  BY DEF DraftInv, TypeOK
<1>1. Active(c)
  BY DEF Active, Goes, Generated, GenerationFails, ReadVersion, Decide, Select, Update, Count,
         Insert, Journal
<1>2. call[c].copy # None
  BY <1>0, <1>1 DEF Begun
<1>3. CASE Generated(c)
  BY <1>0, <1>1, <1>3, GeneratedBecomes, DraftAssumption DEF Generated, Path
<1>4. CASE Decide(c)
  BY <1>0, <1>1, <1>4, DecideBecomes, DraftAssumption DEF Decide, Path, Decisions
<1>5. CASE Select(c)
  BY <1>0, <1>1, <1>2, <1>5, SelectBecomes DEF Select, Path
<1>6. CASE Count(c)
  BY <1>0, <1>1, <1>2, <1>6, CountBecomes DEF Count, Path
<1>7. CASE GenerationFails(c)
  BY <1>0, <1>1, <1>2, <1>7, GotoBecomes DEF GenerationFails, Path
<1>8. CASE Update(c)
  <2> DEFINE p == IF call[c].kind \in Decisions THEN "journal" ELSE "count"
  <2>1. /\ call' \in [Calls -> Call] /\ call'[c].at = p
        /\ call'[c].kind = call[c].kind /\ call'[c].copy = call[c].copy
        /\ \A d \in Calls \ {c} : call'[d] = call[d]
    BY <1>0, <1>8, GotoBecomes DEF Update
  <2> QED BY <1>0, <1>1, <1>2, <1>8, <2>1 DEF Update, Path
<1>9. CASE Insert(c)
  BY <1>0, <1>1, <1>2, <1>9, GotoBecomes DEF Insert, Path
<1>10. CASE Journal(c)
  BY <1>0, <1>1, <1>2, <1>10, GotoBecomes DEF Journal, Path
<1>11. CASE ReadVersion(c)
  BY <1>0, <1>1, <1>11, ReadVersionBecomes, DraftAssumption DEF ReadVersion, Path
<1> QED BY <1>3, <1>4, <1>5, <1>6, <1>7, <1>8, <1>9, <1>10, <1>11 DEF Goes

LEMMA WayDraft ==
  ASSUME DraftInv, NEW c \in Calls, Goes(c)
  PROVE  DraftInv'
<1>0. TypeOK /\ Begun /\ Active(c) /\ document # None
  BY OnItsWay DEF DraftInv, Begun, Active
<1>1. document' \in Document
  BY <1>0, Touches, UpdateType DEF TypeOK
<1>2. /\ versions' \in Seq(Version) /\ VersionsUnbroken'
      /\ Len(versions') \in Nat /\ Len(versions') >= Len(versions)
  <2>1. versions \in Seq(Version) /\ VersionsUnbroken
    BY DEF DraftInv, TypeOK
  <2>2. CASE versions' = versions
    BY <2>1, <2>2 DEF VersionsUnbroken
  <2>3. CASE versions' # versions
    <3>1. Insert(c)
      BY <2>3, Touches
    <3>2. PICK v \in Version : versions' = Append(versions, v) /\ v.number = Len(versions) + 1
      BY <2>3, <3>1, InsertedNext
    <3> QED BY <2>1, <3>2, Appended DEF VersionsUnbroken
  <2> QED BY <2>2, <2>3
<1>3. Counted'
  <2>1. SUFFICES ASSUME NEW d \in Calls, call'[d].at = "insert"
                 PROVE  call'[d].number \in 1 .. Len(versions') + 1
    BY DEF Counted
  <2>2. Len(versions) \in Nat
    BY <1>0 DEF TypeOK
  <2>3. CASE d = c
    <3>1. Count(c)
      BY <1>0, <2>1, <2>3, GeneratedBecomes, ReadVersionBecomes, DecideBecomes, SelectBecomes,
         GotoBecomes DEF Ats, Goes, GenerationFails, Update, Insert, Journal
    <3> QED BY <1>0, <1>2, <2>2, <2>3, <3>1, CountBecomes
  <2>4. CASE d # c
    BY <1>2, <2>1, <2>2, <2>4, OnItsWay DEF DraftInv, Counted
  <2> QED BY <2>3, <2>4
<1>4. Begun'
  <2>1. document' # None
    BY <1>1, DraftAssumption
  <2> QED BY <1>0, <2>1, OnItsWay DEF Begun, Active
<1>5. \A d \in Calls : Path(call'[d])
  BY OnItsWay DEF DraftInv
<1>6. /\ decisions' \in Seq(Decisions) /\ journal' \in Seq(Calls \cup {None})
      /\ restarts' \in 0 .. MaxRestarts /\ approved' \subseteq Calls
      /\ saved' \subseteq Text /\ alone' \subseteq Calls
  <2>1. /\ decisions \in Seq(Decisions) /\ journal \in Seq(Calls \cup {None})
        /\ restarts \in 0 .. MaxRestarts /\ approved \subseteq Calls
        /\ saved \subseteq Text /\ alone \subseteq Calls
    BY <1>0 DEF TypeOK
  <2>2. restarts' = restarts /\ alone' = alone
    BY Touches
  <2>3. decisions' \in Seq(Decisions) /\ approved' \subseteq Calls
    <3>1. Decide(c) => call[c].kind \in Decisions
      BY DEF DraftInv, Path, Decide
    <3>2. CASE Decide(c)
      <4>1. decisions' = Append(decisions, call[c].kind)
        BY <3>2 DEF Decide
      <4>2. approved' = approved \/ approved' = approved \cup {c}
        BY <3>2 DEF Decide
      <4> QED BY <2>1, <3>1, <3>2, <4>1, <4>2
    <3>3. CASE decisions' = decisions /\ approved' = approved
      BY <2>1, <3>3
    <3> QED BY <3>2, <3>3, Touches
  <2>4. journal' \in Seq(Calls \cup {None})
    <3>1. journal' = journal \/ journal' = Append(journal, c)
      BY Touches DEF Journal
    <3> QED BY <2>1, <3>1
  <2>5. saved' \subseteq Text
    BY <1>1, <2>1, Touches, CopyFields DEF Update
  <2> QED BY <2>1, <2>2, <2>3, <2>4, <2>5
<1>7. TypeOK'
  BY <1>1, <1>2, <1>6, OnItsWay DEF TypeOK
<1> QED BY <1>2, <1>3, <1>4, <1>5, <1>7 DEF DraftInv

LEMMA CreateDraftStep ==
  ASSUME DraftInv, CreateDraft
  PROVE  DraftInv'
<1> DEFINE text == [p \in Paragraphs |-> None]
           v == [number |-> 1, text |-> text, by |-> None]
<1>1. text \in Text
  BY DEF Text
<1>2. [status |-> "under_review", text |-> text, citations |-> text, updated |-> None]
        \in Document
      /\ v \in Version
  BY <1>1 DEF Document, Version, Statuses
<1>3. document' \in Document /\ versions' = <<v>> /\ journal' = <<None>> /\ saved' = {text}
  BY <1>2 DEF CreateDraft
<1>4. /\ decisions' = decisions /\ call' = call /\ restarts' = restarts
      /\ approved' = approved /\ alone' = alone /\ document = None
  BY DEF CreateDraft
<1>5. \A c \in Calls : call[c].at = "idle"
  BY <1>4 DEF DraftInv, Begun
<1>6. v.number = 1
  OBVIOUS
<1> HIDE DEF text, v
<1>7. TypeOK'
  BY <1>1, <1>2, <1>3, <1>4 DEF DraftInv, TypeOK
<1>8. Begun' /\ Counted' /\ VersionsUnbroken' /\ (\A c \in Calls : Path(call[c]))'
  BY <1>3, <1>4, <1>5, <1>6 DEF DraftInv, Begun, Counted, VersionsUnbroken, Active
<1> QED BY <1>7, <1>8 DEF DraftInv

LEMMA RestartStep ==
  ASSUME DraftInv, Restart
  PROVE  DraftInv'
<1>1. /\ document' = document /\ versions' = versions /\ approved' = approved
      /\ saved' = saved /\ decisions' = <<>> /\ journal' = <<>> /\ alone' = {}
      /\ restarts' \in 0 .. MaxRestarts
  BY DraftAssumption DEF Restart, DraftInv, TypeOK
<1>2. /\ call' \in [Calls -> Call]
      /\ \A c \in Calls : /\ call'[c].at \in {"idle", "over"}
                          /\ call'[c].at = "over" <=> call[c].at # "idle"
  BY RestartBecomes DEF DraftInv
<1>3. TypeOK'
  BY <1>1, <1>2 DEF DraftInv, TypeOK
<1>4. Begun'
  BY <1>1, <1>2 DEF DraftInv, Begun, Active
<1>5. Counted' /\ VersionsUnbroken' /\ (\A c \in Calls : Path(call[c]))'
  <2>1. \A c \in Calls : call'[c].at = "idle" => call'[c].kind = "none"
    BY <1>2, RestartBecomes DEF DraftInv, Path
  <2> QED BY <1>1, <1>2, <2>1 DEF DraftInv, Counted, VersionsUnbroken, Path
<1> QED BY <1>3, <1>4, <1>5 DEF DraftInv

LEMMA DraftInit == Init => DraftInv
<1> SUFFICES ASSUME Init
             PROVE  DraftInv
  OBVIOUS
<1>1. Idle \in Call /\ Idle.at = "idle" /\ Idle.kind = "none"
  BY DEF Idle, Call
<1>2. /\ document = None /\ versions = <<>> /\ decisions = <<>> /\ journal = <<>>
      /\ call = [c \in Calls |-> Idle] /\ restarts = 0
      /\ approved = {} /\ saved = {} /\ alone = {}
  BY DEF Init
<1>3. TypeOK
  BY <1>1, <1>2, DraftAssumption DEF TypeOK
<1>4. \A c \in Calls : call[c].at = "idle" /\ call[c].kind = "none"
  BY <1>1, <1>2
<1> QED BY <1>2, <1>3, <1>4 DEF DraftInv, Begun, Active, Path, Counted, VersionsUnbroken

LEMMA DraftStep == DraftInv /\ [Next]_vars => DraftInv'
<1> SUFFICES ASSUME DraftInv, [Next]_vars
             PROVE  DraftInv'
  OBVIOUS
<1>1. CASE UNCHANGED vars
  BY <1>1 DEF vars, DraftInv, TypeOK, Begun, Active, Path, Counted, VersionsUnbroken
<1>2. CASE CreateDraft
  BY <1>2, CreateDraftStep
<1>3. CASE Restart
  BY <1>3, RestartStep
<1>4. ASSUME NEW c \in Calls, Begins(c)
      PROVE  DraftInv'
  BY <1>4, BeginDraft
<1>5. ASSUME NEW c \in Calls, Goes(c)
      PROVE  DraftInv'
  BY <1>5, WayDraft
<1> QED BY <1>1, <1>2, <1>3, <1>4, <1>5 DEF Next, Begins, Goes

\* Every variable keeps its type, whatever fails, dies or overlaps.
THEOREM TypeCorrect == Spec => []TypeOK
<1>1. DraftInv => TypeOK
  BY DEF DraftInv
<1> QED BY <1>1, DraftInit, DraftStep, PTL DEF Spec

\* The versions are numbered without a gap or a duplicate, however many calls count
\* them before one inserts.
THEOREM Unbroken == Spec => []VersionsUnbroken
<1>1. DraftInv => VersionsUnbroken
  BY DEF DraftInv
<1> QED BY <1>1, DraftInit, DraftStep, PTL DEF Spec

-----------------------------------------------------------------------------
(* A draft that is approved has been approved by someone                   *)

ApprovalInv ==
  /\ ApprovedByALawyer
  /\ \A c \in Calls :
       Active(c) /\ call[c].copy.status = "lawyer_approved" => approved # {}

LEMMA WayApproval ==
  ASSUME DraftInv, ApprovalInv, NEW c \in Calls, Goes(c)
  PROVE  ApprovalInv'
<1>1. /\ TypeOK /\ Begun /\ Active(c) /\ \A d \in Calls \ {c} : call'[d] = call[d]
  BY OnItsWay DEF DraftInv
<1>2. approved # {} => approved' # {}
  BY Touches DEF Decide
<1>3. call'[c].copy.status = "lawyer_approved" => approved' # {}
  <2>1. CASE Decide(c)
    <3>1. call[c].kind = "approved" => approved' # {}
      BY <2>1 DEF Decide
    <3> QED BY <1>1, <1>2, <2>1, <3>1, DecideBecomes DEF ApprovalInv
  <2>2. CASE ~ Decide(c)
    <3>1. call'[c].copy.status = call[c].copy.status
      BY <1>1, <2>2, GeneratedBecomes, ReadVersionBecomes, SelectBecomes, CountBecomes,
         GotoBecomes DEF Ats, Goes, GenerationFails, Update, Insert, Journal
    <3> QED BY <1>1, <1>2, <3>1 DEF ApprovalInv
  <2> QED BY <2>1, <2>2
<1>4. ApprovedByALawyer'
  <2>1. CASE Update(c)
    <3>1. document'.status \in {call[c].copy.status, document.status} /\ document # None
      BY <1>1, <2>1 DEF Update, Begun, Active
    <3> QED BY <1>1, <1>2, <3>1 DEF ApprovalInv, ApprovedByALawyer
  <2>2. CASE document' = document
    BY <1>2, <2>2 DEF ApprovalInv, ApprovedByALawyer
  <2> QED BY <2>1, <2>2, Touches
<1> QED BY <1>1, <1>2, <1>3, <1>4 DEF ApprovalInv, Active

LEMMA ApprovalStep == DraftInv /\ ApprovalInv /\ [Next]_vars => ApprovalInv'
<1> SUFFICES ASSUME DraftInv, ApprovalInv, [Next]_vars
             PROVE  ApprovalInv'
  OBVIOUS
<1>1. CASE UNCHANGED vars
  BY <1>1 DEF vars, ApprovalInv, ApprovedByALawyer, Active
<1>2. CASE CreateDraft
  <2>1. document'.status = "under_review" /\ call' = call /\ document = None
    BY <1>2 DEF CreateDraft
  <2>2. \A c \in Calls : ~ Active(c)'
    BY <2>1 DEF DraftInv, Begun, Active
  <2> QED BY <2>1, <2>2 DEF ApprovalInv, ApprovedByALawyer
<1>3. CASE Restart
  <2>1. document' = document /\ approved' = approved /\ \A c \in Calls : ~ Active(c)'
    BY <1>3, RestartBecomes DEF Restart, DraftInv, Active
  <2> QED BY <2>1 DEF ApprovalInv, ApprovedByALawyer
<1>4. ASSUME NEW c \in Calls, Begins(c)
      PROVE  ApprovalInv'
  BY <1>4, Beginnings, DraftAssumption DEF ApprovalInv, ApprovedByALawyer, Active
<1>5. ASSUME NEW c \in Calls, Goes(c)
      PROVE  ApprovalInv'
  BY <1>5, WayApproval
<1> QED BY <1>1, <1>2, <1>3, <1>4, <1>5 DEF Next, Begins, Goes

\* A draft is approved only if someone approved it, whatever stale copy is saved.
THEOREM Approved == Spec => []ApprovedByALawyer
<1>1. Init => ApprovalInv
  <2> SUFFICES ASSUME Init
               PROVE  ApprovalInv
    OBVIOUS
  <2>1. document = None /\ \A c \in Calls : call[c].at = "idle"
    BY DEF Init, Idle
  <2> QED BY <2>1 DEF ApprovalInv, ApprovedByALawyer, Active
<1>2. ApprovalInv => ApprovedByALawyer
  BY DEF ApprovalInv
<1> QED BY <1>1, <1>2, ApprovalStep, DraftInit, DraftStep, PTL DEF Spec

-----------------------------------------------------------------------------
(* The versions and the journal tell what happened                         *)

Changes(c) == call[c].kind \in {"regenerate", "restore"}

\* Nobody but the call that changes a draft has its mark, and nobody before it writes
\* the row: what it saves differs from what is there.
Unwritten(c) == call[c].at \in {"idle", "await", "version", "decide", "select", "update"}

Stamped ==
  \A c \in Calls :
    /\ Changes(c) /\ call[c].at \in {"select", "update"} => call[c].copy.updated = c
    /\ Unwritten(c) => /\ document # None => document.updated # c
                       /\ \A d \in Calls \ {c} : Active(d) => call[d].copy.updated # c
    /\ Changes(c) /\ call[c].at = "update" => "payload" \in call[c].dirty

LEMMA StampInit == Init => Stamped
<1> SUFFICES ASSUME Init PROVE Stamped
  OBVIOUS
<1>1. document = None /\ \A c \in Calls : call[c].at = "idle"
  BY DEF Init, Idle
<1> QED BY <1>1 DEF Stamped, Active

\* The mark on the copy of a call that goes on is the one it had, or its own.
LEMMA StampOnCopy ==
  ASSUME DraftInv, Stamped, NEW c \in Calls, Goes(c)
  PROVE  /\ call'[c].copy.updated \in {call[c].copy.updated, c}
         /\ Changes(c)' /\ call'[c].at \in {"select", "update"} => call'[c].copy.updated = c
         /\ Changes(c)' /\ call'[c].at = "update" => "payload" \in call'[c].dirty
         /\ Unwritten(c)' => Unwritten(c) /\ ~ Update(c)
<1> USE DEF Ats
<1>0. TypeOK /\ Begun /\ Path(call[c]) /\ document # None
  BY OnItsWay DEF DraftInv, Begun, Active
<1>1. CASE Generated(c)
  BY <1>0, <1>1, GeneratedBecomes DEF Generated, Unwritten, Update
<1>2. CASE ReadVersion(c)
  <2>1. Unwritten(c) /\ ~ Update(c)
    BY <1>2 DEF ReadVersion, Unwritten, Update
  <2> QED BY <1>0, <1>2, <2>1, ReadVersionBecomes
<1>3. CASE Decide(c)
  <2>1. call[c].kind \in Decisions /\ call'[c].kind = call[c].kind
    BY <1>0, <1>3, DecideBecomes DEF Decide, Path
  <2> QED BY <1>0, <1>3, <2>1, DecideBecomes DEF Decide, Unwritten, Update, Changes, Decisions
<1>4. CASE Select(c)
  <2>1. call[c].at = "select" /\ Unwritten(c) /\ ~ Update(c)
    BY <1>4 DEF Select, Unwritten, Update
  <2>2. Changes(c) => call[c].copy.updated = c /\ document.updated # c
    BY <1>0, <2>1 DEF Stamped
  <2> QED BY <1>0, <1>4, <2>1, <2>2, SelectBecomes DEF Changes
<1>5. CASE Count(c)
  BY <1>0, <1>5, CountBecomes DEF Unwritten
<1>6. CASE GenerationFails(c) \/ Update(c) \/ Insert(c) \/ Journal(c)
  <2>1. PICK p \in {"over", "journal", "count"} : Goto(c, p)
    BY <1>6 DEF GenerationFails, Update, Insert, Journal
  <2>2. call'[c].at \notin {"idle", "await", "version", "decide", "select", "update"}
        /\ call'[c].copy = call[c].copy
    BY <1>0, <2>1, GotoBecomes
  <2> QED BY <2>2 DEF Unwritten
<1> QED BY <1>1, <1>2, <1>3, <1>4, <1>5, <1>6 DEF Goes

LEMMA StampStep == DraftInv /\ Stamped /\ [Next]_vars => Stamped'
<1> SUFFICES ASSUME DraftInv, Stamped, [Next]_vars
             PROVE  Stamped'
  OBVIOUS
<1>1. CASE UNCHANGED vars
  BY <1>1 DEF vars, Stamped, Changes, Unwritten, Active
<1>2. CASE CreateDraft
  <2>1. document'.updated = None /\ call' = call /\ document = None
    BY <1>2 DEF CreateDraft
  <2>2. \A c \in Calls : call'[c].at = "idle"
    BY <2>1 DEF DraftInv, Begun
  <2> QED BY <2>1, <2>2, DraftAssumption DEF Stamped, Active
<1>3. CASE Restart
  <2>1. /\ document' = document
        /\ \A c \in Calls : /\ call'[c].at \in {"idle", "over"}
                            /\ call'[c].at = "idle" => call[c].at = "idle"
    BY <1>3, RestartBecomes DEF Restart, DraftInv
  <2> QED BY <2>1 DEF Stamped, Unwritten, Active
<1>4. ASSUME NEW c \in Calls, Begins(c)
      PROVE  Stamped'
  <2>1. /\ document' = document /\ document # None /\ call[c].at = "idle"
        /\ \A d \in Calls \ {c} : call'[d] = call[d]
    BY <1>4, Beginnings, DraftAssumption
  <2>2. call'[c].copy = document /\ call'[c].at \in {"await", "version", "decide", "journal"}
    BY <1>4, Beginnings
  <2>3. \A d \in Calls : Unwritten(d)' => Unwritten(d) /\ document.updated # d
    BY <2>1 DEF Stamped, Unwritten
  <2>4. ASSUME NEW d \in Calls, NEW e \in Calls \ {d}, Unwritten(d)', Active(e)'
        PROVE  call'[e].copy.updated # d
    BY <2>1, <2>2, <2>3, <2>4 DEF Stamped, Active
  <2> QED BY <2>1, <2>2, <2>3, <2>4 DEF Stamped, Changes
<1>5. ASSUME NEW c \in Calls, Goes(c)
      PROVE  Stamped'
  <2>1. /\ \A d \in Calls \ {c} : call'[d] = call[d]
        /\ Active(c) /\ document # None
    BY <1>5, OnItsWay DEF DraftInv, Begun, Active
  <2>2. \A d \in Calls : Unwritten(d)' => Unwritten(d) /\ (d = c => ~ Update(c))
    BY <1>5, <2>1, StampOnCopy DEF Unwritten
  <2>3. ASSUME NEW d \in Calls, Unwritten(d)'
        PROVE  document'.updated # d
    <3>1. document.updated # d
      BY <2>1, <2>2, <2>3 DEF Stamped
    <3>2. CASE Update(c)
      <4>1. d # c
        BY <2>2, <2>3, <3>2
      <4>2. call[c].copy.updated # d
        BY <2>1, <2>2, <2>3, <4>1 DEF Stamped
      <4> QED BY <3>1, <3>2, <4>2 DEF Update
    <3>3. CASE document' = document
      BY <3>1, <3>3
    <3> QED BY <1>5, <3>2, <3>3, Touches
  <2>4. ASSUME NEW d \in Calls, NEW e \in Calls \ {d}, Unwritten(d)', Active(e)'
        PROVE  call'[e].copy.updated # d
    <3>1. CASE e = c
      <4>1. call[c].copy.updated # d
        BY <2>1, <2>2, <2>4, <3>1 DEF Stamped
      <4> QED BY <1>5, <2>4, <3>1, <4>1, StampOnCopy
    <3>2. CASE e # c
      BY <2>1, <2>2, <2>4, <3>2 DEF Stamped, Active
    <3> QED BY <3>1, <3>2
  <2>5. ASSUME NEW d \in Calls
        PROVE  /\ Changes(d)' /\ call'[d].at \in {"select", "update"} =>
                    call'[d].copy.updated = d
               /\ Changes(d)' /\ call'[d].at = "update" => "payload" \in call'[d].dirty
    <3>1. CASE d = c
      BY <1>5, <3>1, StampOnCopy
    <3>2. CASE d # c
      BY <2>1, <3>2 DEF Stamped, Changes
    <3> QED BY <3>1, <3>2
  <2> QED BY <2>3, <2>4, <2>5 DEF Stamped
<1> QED BY <1>1, <1>2, <1>3, <1>4, <1>5 DEF Next, Begins, Goes

HasVersion(c) == \E j \in DOMAIN versions : versions[j].by = c

\* What is about to become a version has been saved, and what is about to be
\* journalled, or has been, has its version.
TrailInv ==
  /\ \A i \in DOMAIN versions : versions[i].text \in saved
  /\ \A c \in Calls :
       /\ call[c].at \in {"count", "insert"} => call[c].copy.text \in saved
       /\ call[c].at = "journal" /\ Changes(c) => HasVersion(c)
  /\ \A i \in DOMAIN journal :
       journal[i] \in Calls =>
         /\ call[journal[i]].at = "over"
         /\ Changes(journal[i]) => HasVersion(journal[i])

\* Nothing that has been saved, or has a version, is lost.
LEMMA TrailGrows ==
  ASSUME DraftInv, NEW c \in Calls, Goes(c)
  PROVE  /\ saved \subseteq saved'
         /\ \A d \in Calls : HasVersion(d) => HasVersion(d)'
<1>1. saved \subseteq saved'
  BY Touches DEF Update
<1>2. CASE versions' = versions
  BY <1>1, <1>2 DEF HasVersion
<1>3. CASE versions' # versions
  <2>1. Insert(c)
    BY <1>3, Touches
  <2>2. PICK v \in Version : versions' = Append(versions, v)
    BY <1>3, <2>1, InsertedNext
  <2>3. versions \in Seq(Version)
    BY DEF DraftInv, TypeOK
  <2> QED BY <1>1, <2>2, <2>3, Appended DEF HasVersion
<1> QED BY <1>2, <1>3

\* What the call that makes the step holds afterwards.
LEMMA WayTrail ==
  ASSUME DraftInv, Stamped, TrailInv, NEW c \in Calls, Goes(c)
  PROVE  /\ \A i \in DOMAIN versions' : versions'[i].text \in saved'
         /\ call'[c].at \in {"count", "insert"} => call'[c].copy.text \in saved'
         /\ call'[c].at = "journal" /\ Changes(c)' => HasVersion(c)'
<1> USE DEF Ats
<1>0. TypeOK /\ Begun /\ versions \in Seq(Version) /\ Path(call[c])
  BY DEF DraftInv, TypeOK
<1>1. ASSUME versions' = versions
      PROVE  \A i \in DOMAIN versions' : versions'[i].text \in saved'
  BY <1>1, TrailGrows DEF TrailInv
<1>2. CASE Generated(c)
  BY <1>0, <1>1, <1>2, GeneratedBecomes DEF Generated
<1>3. CASE Decide(c)
  BY <1>0, <1>1, <1>3, DecideBecomes DEF Decide
<1>4. CASE GenerationFails(c)
  BY <1>0, <1>1, <1>4, GotoBecomes DEF GenerationFails
<1>5. CASE Select(c)
  BY <1>0, <1>1, <1>5, SelectBecomes DEF Select, Changes
<1>6. CASE Update(c)
  <2> DEFINE p == IF call[c].kind \in Decisions THEN "journal" ELSE "count"
  <2>1. /\ call'[c].at = p
        /\ call'[c].kind = call[c].kind /\ call'[c].copy = call[c].copy
    BY <1>0, <1>6, GotoBecomes DEF Update
  <2>2. Changes(c) => document'.text = call[c].copy.text
    BY <1>6 DEF Update, Stamped
  <2>3. p = "count" => Changes(c)
    BY <1>0, <1>6 DEF Path, Update, Changes
  <2>4. p = "journal" => ~ Changes(c)
    BY DEF Decisions, Changes
  <2>5. versions' = versions /\ saved' = saved \cup {document'.text}
    BY <1>6 DEF Update
  <2>6. p = "count" \/ p = "journal"
    OBVIOUS
  <2> HIDE DEF p
  <2> QED BY <1>1, <2>1, <2>2, <2>3, <2>4, <2>5, <2>6 DEF Changes
<1>7. CASE Count(c)
  <2>1. call[c].copy.text \in saved /\ versions' = versions /\ saved' = saved
    BY <1>7 DEF Count, TrailInv
  <2> QED BY <1>0, <1>1, <1>7, <2>1, CountBecomes
<1>8. CASE Insert(c)
  <2>1. call[c].copy.text \in saved /\ saved' = saved
    BY <1>8 DEF TrailInv, Insert
  <2>2. CASE versions' = versions
    <3>1. call'[c].at = "over" \/ versions' = Append(versions, [number |-> call[c].number,
                                           text |-> call[c].copy.text, by |-> c])
      BY <1>0, <1>8, GotoBecomes DEF Insert
    <3>2. \A v : Append(versions, v) # versions
      BY <1>0
    <3> QED BY <1>1, <2>2, <3>1, <3>2
  <2>3. CASE versions' # versions
    <3> DEFINE v == [number |-> Len(versions) + 1, text |-> call[c].copy.text, by |-> c]
    <3>1. versions' = Append(versions, v) /\ v \in Version /\ call'[c].at = "journal"
      BY <1>8, <2>3, InsertedNext
    <3>2. v.text = call[c].copy.text /\ v.by = c
      OBVIOUS
    <3> HIDE DEF v
    <3>3. /\ DOMAIN versions = 1 .. Len(versions)
          /\ DOMAIN versions' = 1 .. Len(versions) + 1 /\ Len(versions) \in Nat
          /\ versions'[Len(versions) + 1] = v
          /\ \A i \in DOMAIN versions : versions'[i] = versions[i]
      BY <1>0, <3>1, Appended
    <3>4. HasVersion(c)'
      BY <3>2, <3>3 DEF HasVersion
    <3>5. \A i \in DOMAIN versions' : versions'[i].text \in saved'
      BY <2>1, <3>2, <3>3 DEF TrailInv
    <3> QED BY <3>1, <3>4, <3>5
  <2> QED BY <2>2, <2>3
<1>9. CASE Journal(c)
  BY <1>0, <1>1, <1>9, GotoBecomes DEF Journal
<1>10. CASE ReadVersion(c)
  BY <1>0, <1>1, <1>10, ReadVersionBecomes DEF ReadVersion
<1> QED BY <1>2, <1>3, <1>4, <1>5, <1>6, <1>7, <1>8, <1>9, <1>10 DEF Goes

\* The journal gains nothing but the call that ends with its entry.
LEMMA JournalTrail ==
  ASSUME DraftInv, TrailInv, NEW c \in Calls, Goes(c),
         NEW d \in Calls, NEW i \in DOMAIN journal', journal'[i] = d
  PROVE  call'[d].at = "over" /\ (Changes(d)' => HasVersion(d)')
<1>0. TypeOK /\ journal \in Seq(Calls \cup {None}) /\ Active(c)
  BY OnItsWay DEF DraftInv, TypeOK
<1>1. Changes(d)' <=> Changes(d)
  BY OnItsWay DEF Changes
<1>2. HasVersion(d) => HasVersion(d)'
  BY TrailGrows
<1>3. CASE i \in DOMAIN journal /\ journal[i] = d
  <2>1. call[d].at = "over" /\ (Changes(d) => HasVersion(d))
    BY <1>3 DEF TrailInv
  <2>2. d # c
    BY <1>0, <2>1 DEF Active
  <2> QED BY <1>1, <1>2, <2>1, <2>2, OnItsWay
<1>4. CASE Journal(c)
  <2>1. journal' = Append(journal, c)
    BY <1>4 DEF Journal
  <2>2. (i \in DOMAIN journal /\ journal[i] = d) \/ d = c
    BY <1>0, <2>1
  <2>3. ASSUME d = c
        PROVE  call'[d].at = "over" /\ (Changes(d) => HasVersion(d))
    <3>1. call'[c].at = "over"
      BY <1>0, <1>4, GotoBecomes DEF Journal, Ats
    <3>2. Changes(c) => HasVersion(c)
      BY <1>4 DEF Journal, TrailInv
    <3> QED BY <2>3, <3>1, <3>2
  <2> QED BY <1>1, <1>2, <1>3, <2>2, <2>3
<1> QED BY <1>3, <1>4, Touches

LEMMA TrailStep == DraftInv /\ Stamped /\ TrailInv /\ [Next]_vars => TrailInv'
<1> SUFFICES ASSUME DraftInv, Stamped, TrailInv, [Next]_vars
             PROVE  TrailInv'
  OBVIOUS
<1>1. CASE UNCHANGED vars
  BY <1>1 DEF vars, TrailInv, Changes, HasVersion
<1>2. CASE CreateDraft
  <2> DEFINE text == [p \in Paragraphs |-> None]
             v == [number |-> 1, text |-> text, by |-> None]
  <2>1. /\ versions' = <<v>> /\ journal' = <<None>> /\ saved' = {text} /\ call' = call
        /\ document = None
    BY <1>2 DEF CreateDraft
  <2>2. \A c \in Calls : call'[c].at = "idle"
    BY <2>1 DEF DraftInv, Begun
  <2>3. v.text = text
    OBVIOUS
  <2> HIDE DEF v, text
  <2>4. \A i \in DOMAIN versions' : versions'[i].text \in saved'
    BY <2>1, <2>3
  <2>5. \A i \in DOMAIN journal' : journal'[i] \notin Calls
    BY <2>1, DraftAssumption
  <2> QED BY <2>2, <2>4, <2>5 DEF TrailInv
<1>3. CASE Restart
  <2>1. /\ versions' = versions /\ saved' = saved /\ journal' = <<>>
        /\ \A c \in Calls : call'[c].at \in {"idle", "over"}
    BY <1>3, RestartBecomes DEF Restart, DraftInv
  <2> QED BY <2>1 DEF TrailInv
<1>4. ASSUME NEW c \in Calls, Begins(c)
      PROVE  TrailInv'
  <2>1. /\ call'[c].at \in {"await", "version", "decide", "journal"}
        /\ call'[c].at = "journal" => call'[c].kind = "export"
    BY <1>4, Beginnings
  <2>2. /\ \A d \in Calls \ {c} : call'[d] = call[d]
        /\ versions' = versions /\ journal' = journal /\ saved' = saved
        /\ call[c].at = "idle"
    BY <1>4, Beginnings
  <2>3. \A i \in DOMAIN journal : journal[i] \in Calls => journal[i] # c
    BY <2>2 DEF TrailInv
  <2> QED BY <2>1, <2>2, <2>3 DEF TrailInv, Changes, HasVersion
<1>5. ASSUME NEW c \in Calls, Goes(c)
      PROVE  TrailInv'
  <2>1. ASSUME NEW d \in Calls
        PROVE  /\ call'[d].at \in {"count", "insert"} => call'[d].copy.text \in saved'
               /\ call'[d].at = "journal" /\ Changes(d)' => HasVersion(d)'
    <3>1. CASE d = c
      BY <1>5, <3>1, WayTrail
    <3>2. CASE d # c
      <4>1. call'[d] = call[d]
        BY <1>5, <3>2, OnItsWay
      <4>2. /\ call[d].at \in {"count", "insert"} => call[d].copy.text \in saved
            /\ call[d].at = "journal" /\ Changes(d) => HasVersion(d)
        BY DEF TrailInv
      <4>3. saved \subseteq saved' /\ (HasVersion(d) => HasVersion(d)')
        BY <1>5, TrailGrows
      <4>4. Changes(d)' <=> Changes(d)
        BY <4>1 DEF Changes
      <4> QED BY <4>1, <4>2, <4>3, <4>4
    <3> QED BY <3>1, <3>2
  <2>2. \A d \in Calls : \A i \in DOMAIN journal' :
          journal'[i] = d => call'[d].at = "over" /\ (Changes(d)' => HasVersion(d)')
    BY <1>5, JournalTrail
  <2>3. \A i \in DOMAIN versions' : versions'[i].text \in saved'
    BY <1>5, WayTrail
  <2> QED BY <2>1, <2>2, <2>3 DEF TrailInv, Changes, HasVersion
<1> QED BY <1>1, <1>2, <1>3, <1>4, <1>5 DEF Next, Begins, Goes

\* Versions are texts the draft has had, and the journal is about changes that have
\* their version.
THEOREM Trail == Spec => []TrailIsTrue
<1>1. Init => TrailInv
  <2> SUFFICES ASSUME Init
               PROVE  TrailInv
    OBVIOUS
  <2>1. versions = <<>> /\ journal = <<>> /\ \A c \in Calls : call[c].at = "idle"
    BY DEF Init, Idle
  <2> QED BY <2>1 DEF TrailInv
<1>2. TrailInv => TrailIsTrue
  BY DEF TrailInv, TrailIsTrue, Changes, HasVersion
<1> QED BY <1>1, <1>2, TrailStep, StampInit, StampStep, DraftInit, DraftStep, PTL DEF Spec

-----------------------------------------------------------------------------
(* Citations                                                               *)

Restored == \E c \in Calls : call[c].kind = "restore"

\* Until a version is restored, no copy and no draft has citations of another text.
CitationsInv ==
  \/ Restored
  \/ /\ document # None => document.citations = document.text
     /\ \A c \in Calls : Active(c) => call[c].copy.citations = call[c].copy.text

\* The step of a call on its copy.
LEMMA CopyCitations ==
  ASSUME DraftInv, NEW c \in Calls, call[c].copy.citations = call[c].copy.text,
         call[c].kind # "restore", Goes(c)
  PROVE  call'[c].copy.citations = call'[c].copy.text
<1>1. TypeOK /\ Begun /\ call[c] \in Call /\ call[c].copy \in Document
  BY OnItsWay, CallFields DEF DraftInv, TypeOK, Begun
<1>2. CASE Generated(c)
  <2> DEFINE o == Rewritten(call[c].copy, call[c].target, c)
  <2>1. o.citations = o.text
    BY <1>1 DEF Rewritten, Document
  <2>2. call'[c].copy = o
    BY <1>1, <1>2 DEF Generated, TypeOK, Call
  <2> QED BY <2>1, <2>2
<1>3. CASE Decide(c)
  <2> DEFINE s == CASE call[c].kind = "approved" -> "lawyer_approved"
                    [] call[c].kind = "rejected" -> "rejected"
                    [] OTHER -> call[c].copy.status
             o == [call[c].copy EXCEPT !.status = s]
  <2>1. call'[c].copy = o
    BY <1>1, <1>3 DEF Decide, TypeOK, Call
  <2> HIDE DEF s
  <2>2. o.citations = call[c].copy.citations /\ o.text = call[c].copy.text
    BY <1>1 DEF Document
  <2> QED BY <2>1, <2>2
<1>4. CASE ~ Generated(c) /\ ~ Decide(c)
  <2>1. call'[c].copy = call[c].copy
    <3>1. ~ ReadVersion(c)
      BY DEF ReadVersion, DraftInv, Path
    <3> QED BY <1>1, <1>4, <3>1, SelectBecomes, CountBecomes, GotoBecomes
            DEF Ats, Goes, GenerationFails, Update, Insert, Journal
  <2> QED BY <2>1
<1> QED BY <1>2, <1>3, <1>4

\* The row takes its text and its citations from the same copy, or keeps both.
LEMMA RowCitations ==
  ASSUME DraftInv, NEW c \in Calls, Update(c), document.citations = document.text,
         call[c].copy.citations = call[c].copy.text
  PROVE  document'.citations = document'.text
BY DEF Update

LEMMA CitationsStep == DraftInv /\ CitationsInv /\ [Next]_vars => CitationsInv'
<1> SUFFICES ASSUME DraftInv, CitationsInv, [Next]_vars, ~ Restored'
             PROVE  CitationsInv'
  BY DEF CitationsInv
<1>1. CASE UNCHANGED vars
  BY <1>1 DEF vars, CitationsInv, Restored, Active
<1>2. CASE CreateDraft
  <2>1. document'.citations = document'.text /\ call' = call /\ document = None
    BY <1>2 DEF CreateDraft
  <2>2. \A c \in Calls : ~ Active(c)'
    BY <2>1 DEF DraftInv, Begun, Active
  <2> QED BY <2>1, <2>2 DEF CitationsInv
<1>3. CASE Restart
  <2>1. /\ document' = document /\ \A c \in Calls : ~ Active(c)'
        /\ \A c \in Calls : call'[c].kind = call[c].kind
    BY <1>3, RestartBecomes DEF Restart, DraftInv, Active
  <2> QED BY <2>1 DEF CitationsInv, Restored
<1>4. ASSUME NEW c \in Calls, Begins(c)
      PROVE  CitationsInv'
  <2>1. /\ document' = document /\ document # None /\ call[c].at = "idle"
        /\ call'[c].copy = document /\ \A d \in Calls \ {c} : call'[d] = call[d]
    BY <1>4, Beginnings, DraftAssumption
  <2>2. call[c].kind # "restore"
    BY <2>1 DEF DraftInv, Path
  <2>3. ~ Restored
    BY <2>1, <2>2 DEF Restored
  <2> QED BY <2>1, <2>3 DEF CitationsInv, Active
<1>5. ASSUME NEW c \in Calls, Goes(c)
      PROVE  CitationsInv'
  <2>1. /\ \A d \in Calls \ {c} : call'[d] = call[d]
        /\ call'[c].kind = call[c].kind /\ Active(c) /\ document # None
    BY <1>5, OnItsWay DEF DraftInv, Begun, Active
  <2>2. /\ document.citations = document.text
        /\ \A d \in Calls : Active(d) => call[d].copy.citations = call[d].copy.text
    BY <2>1 DEF CitationsInv, Restored
  <2>3. call'[c].copy.citations = call'[c].copy.text
    <3>1. call[c].kind # "restore"
      BY <2>1 DEF Restored
    <3> QED BY <1>5, <2>1, <2>2, <3>1, CopyCitations
  <2>4. document'.citations = document'.text
    <3>1. Update(c) \/ document' = document
      BY <1>5, Touches
    <3> QED BY <2>1, <2>2, <3>1, RowCitations
  <2> QED BY <2>1, <2>2, <2>3, <2>4 DEF CitationsInv, Active
<1> QED BY <1>1, <1>2, <1>3, <1>4, <1>5 DEF Next, Begins, Goes

\* A paragraph has the citations of its own text until a version is restored.
THEOREM Citations == Spec => []CitationsFollowText
<1>1. Init => CitationsInv
  <2> SUFFICES ASSUME Init
               PROVE  CitationsInv
    OBVIOUS
  <2>1. document = None /\ \A c \in Calls : call[c].at = "idle"
    BY DEF Init, Idle
  <2> QED BY <2>1 DEF CitationsInv, Active
<1>2. CitationsInv => CitationsFollowText
  BY DEF CitationsInv, CitationsFollowText, Restored
<1> QED BY <1>1, <1>2, CitationsStep, DraftInit, DraftStep, PTL DEF Spec

-----------------------------------------------------------------------------
(* A call that no other overlaps                                           *)

\* While a call is alone, no other is under way.
AloneInv == \A c \in alone : \A d \in Calls : Active(d) => d = c

\* The status a decision gives.
Given(kind) == IF kind = "approved" THEN "lawyer_approved" ELSE "rejected"

\* What a call has done, in the rows, once it has only its entry to write.
InEffect(c) ==
  /\ Changes(c) => versions[Len(versions)].by = c /\ versions[Len(versions)].text = document.text
  /\ call[c].kind = "regenerate" => \A p \in call[c].target : document.text[p] = c
  /\ call[c].kind \in {"approved", "rejected"} => document.status = Given(call[c].kind)

\* Until then its copy has what it is to do, and nobody else has written the row.
OnCourse(c) ==
  /\ call[c].kind = "regenerate" /\ call[c].at \in {"select", "update", "count", "insert"} =>
       \A p \in call[c].target : call[c].copy.text[p] = c
  /\ call[c].kind \in {"approved", "rejected"} /\ call[c].at \in {"select", "update"} =>
       call[c].copy.status = Given(call[c].kind)
  /\ call[c].at = "update" => "status" \in call[c].dirty \/ document.status = call[c].copy.status
  /\ call[c].at \in {"count", "insert"} => document.text = call[c].copy.text
  /\ call[c].at = "journal" => InEffect(c)

EffectInv == AloneInv /\ \A c \in alone : OnCourse(c)

LEMMA TargetKept ==
  ASSUME DraftInv, NEW c \in Calls, Goes(c)
  PROVE  call'[c].target = call[c].target
<1>1. call[c] \in Call /\ TypeOK
  BY DEF DraftInv, TypeOK
<1>2. \A p : Goto(c, p) => call'[c].target = call[c].target
  BY <1>1 DEF Goto, TypeOK, Call
<1>3. CASE Generated(c)
  BY <1>1, <1>3 DEF Generated, TypeOK, Call
<1>4. CASE Decide(c)
  BY <1>1, <1>4 DEF Decide, TypeOK, Call
<1>5. CASE Select(c)
  BY <1>1, <1>5 DEF Select, TypeOK, Call
<1>6. CASE Count(c)
  BY <1>1, <1>6 DEF Count, TypeOK, Call
<1>7. CASE ReadVersion(c)
  BY <1>7, ReadVersionBecomes DEF DraftInv
<1> QED BY <1>2, <1>3, <1>4, <1>5, <1>6, <1>7
        DEF Goes, GenerationFails, Update, Insert, Journal

\* The step of a call that is alone.
LEMMA CourseKept ==
  ASSUME DraftInv, Stamped, NEW c \in Calls, OnCourse(c),
         Goes(c)
  PROVE  OnCourse(c)'
<1> USE DEF Ats
<1>0. /\ TypeOK /\ Begun /\ Path(call[c]) /\ call[c] \in Call
      /\ call'[c].target = call[c].target
  BY TargetKept DEF DraftInv, TypeOK
<1>1. CASE Generated(c)
  <2> DEFINE o == Rewritten(call[c].copy, call[c].target, c)
  <2>1. /\ call[c].copy \in Document /\ call[c].target \subseteq Paragraphs
        /\ call[c].kind = "regenerate"
    BY <1>0, <1>1, CallFields, OnItsWay DEF Generated, Path, Begun
  <2>2. call'[c].copy = o /\ call'[c].at = "select" /\ call'[c].kind = "regenerate"
    BY <1>0, <1>1, <2>1 DEF Generated, TypeOK, Call
  <2>3. o.text = [p \in Paragraphs |-> IF p \in call[c].target THEN c ELSE call[c].copy.text[p]]
    BY <2>1 DEF Rewritten, Document
  <2>4. \A p \in call[c].target : o.text[p] = c
    BY <2>1, <2>3
  <2> HIDE DEF o
  <2> QED BY <1>0, <2>2, <2>4 DEF OnCourse
<1>2. CASE Decide(c)
  <2> DEFINE s == CASE call[c].kind = "approved" -> "lawyer_approved"
                    [] call[c].kind = "rejected" -> "rejected"
                    [] OTHER -> call[c].copy.status
             o == [call[c].copy EXCEPT !.status = s]
  <2>1. call[c].copy \in Document /\ call[c].kind \in Decisions
    BY <1>0, <1>2, CallFields, OnItsWay DEF Decide, Path, Begun
  <2>2. call'[c].copy = o
    BY <1>0, <1>2 DEF Decide, TypeOK, Call
  <2>3. call[c].kind \in {"approved", "rejected"} => s = Given(call[c].kind)
    BY DEF Given
  <2> HIDE DEF s
  <2>4. o.status = s
    BY <2>1 DEF Document
  <2> HIDE DEF o
  <2>5. call'[c].at = "select" /\ call'[c].kind = call[c].kind /\ call[c].kind # "regenerate"
    BY <1>0, <1>2, <2>1, DecideBecomes DEF Decisions
  <2> QED BY <2>2, <2>3, <2>4, <2>5 DEF OnCourse
<1>3. CASE Select(c)
  <2>1. /\ call'[c].at = "update" /\ call'[c].kind = call[c].kind
        /\ call'[c].copy = call[c].copy /\ document' = document /\ call[c].at = "select"
    BY <1>0, <1>3, SelectBecomes DEF Select
  <2>2. "status" \in call'[c].dirty \/ document.status = call[c].copy.status
    BY <1>0, <1>3 DEF Select, TypeOK, Call
  <2> QED BY <1>0, <2>1, <2>2 DEF OnCourse
<1>4. CASE Update(c)
  <2> DEFINE p == IF call[c].kind \in Decisions THEN "journal" ELSE "count"
  <2>1. /\ call'[c].at = p /\ call[c].at = "update"
        /\ call'[c].kind = call[c].kind /\ call'[c].copy = call[c].copy
    BY <1>0, <1>4, GotoBecomes DEF Update
  <2>2. document'.status = call[c].copy.status
    BY <1>4, <2>1 DEF Update, OnCourse
  <2>3. Changes(c) => document'.text = call[c].copy.text
    BY <1>4 DEF Update, Stamped
  <2>4. p = "count" => Changes(c)
    BY <1>0, <2>1 DEF Path, Changes
  <2>5. p = "journal" => call[c].kind \notin {"regenerate", "restore"}
    BY DEF Decisions
  <2>6. p = "count" \/ p = "journal"
    OBVIOUS
  <2> HIDE DEF p
  <2>7. call[c].kind \in {"approved", "rejected"} => call[c].copy.status = Given(call[c].kind)
    BY <2>1 DEF OnCourse
  <2>8. CASE p = "count"
    BY <1>0, <2>1, <2>3, <2>4, <2>8 DEF OnCourse
  <2>9. CASE p = "journal"
    <3>1. InEffect(c)'
      BY <2>1, <2>2, <2>5, <2>7, <2>9 DEF InEffect, Changes
    <3> QED BY <2>1, <2>9, <3>1 DEF OnCourse
  <2> QED BY <2>6, <2>8, <2>9
<1>5. CASE Count(c)
  <2>1. /\ call[c].at = "count" /\ document' = document
        /\ document.text = call[c].copy.text
        /\ call[c].kind = "regenerate" => \A p \in call[c].target : call[c].copy.text[p] = c
    BY <1>5 DEF Count, OnCourse
  <2>2. /\ call'[c].at = "insert" /\ call'[c].kind = call[c].kind
        /\ call'[c].copy = call[c].copy
    BY <1>0, <1>5, CountBecomes
  <2> QED BY <1>0, <2>1, <2>2 DEF OnCourse
<1>6. CASE Insert(c)
  <2>1. /\ call[c].at = "insert" /\ document' = document /\ Changes(c)
        /\ document.text = call[c].copy.text
        /\ call[c].kind = "regenerate" => \A p \in call[c].target : call[c].copy.text[p] = c
    BY <1>0, <1>6 DEF Insert, OnCourse, Path, Changes
  <2>2. call'[c].kind = call[c].kind /\ call'[c].at \in {"over", "journal"}
    BY <1>0, <1>6, GotoBecomes DEF Insert
  <2>3. CASE call'[c].at = "over"
    BY <2>3 DEF OnCourse
  <2>4. CASE call'[c].at = "journal"
    <3>1. versions' # versions
      <4>1. ~ Goto(c, "over")
        BY <1>0, <2>4, GotoBecomes
      <4>2. \E v : versions' = Append(versions, v)
        BY <1>6, <4>1 DEF Insert
      <4> QED BY <1>0, <4>2 DEF TypeOK
    <3> DEFINE v == [number |-> Len(versions) + 1, text |-> call[c].copy.text, by |-> c]
    <3>2. versions' = Append(versions, v) /\ v \in Version
      BY <1>6, <3>1, InsertedNext
    <3>3. v.by = c /\ v.text = call[c].copy.text
      OBVIOUS
    <3> HIDE DEF v
    <3>4. versions'[Len(versions')] = v
      BY <1>0, <3>2, Appended DEF TypeOK
    <3>5. InEffect(c)'
      BY <1>0, <2>1, <2>2, <3>3, <3>4 DEF InEffect, Changes
    <3> QED BY <2>4, <3>5 DEF OnCourse
  <2> QED BY <2>2, <2>3, <2>4
<1>7. CASE GenerationFails(c) \/ Journal(c)
  <2>1. call'[c].at = "over"
    BY <1>0, <1>7, GotoBecomes DEF GenerationFails, Journal
  <2> QED BY <2>1 DEF OnCourse
<1>8. CASE ReadVersion(c)
  <2>1. call'[c].kind = "restore" /\ call'[c].at \in {"select", "over"}
    BY <1>0, <1>8, ReadVersionBecomes DEF ReadVersion, Path
  <2> QED BY <2>1 DEF OnCourse
<1> QED BY <1>1, <1>2, <1>3, <1>4, <1>5, <1>6, <1>7, <1>8 DEF Goes

LEMMA EffectStep == DraftInv /\ Stamped /\ EffectInv /\ [Next]_vars => EffectInv'
<1> SUFFICES ASSUME DraftInv, Stamped, EffectInv, [Next]_vars
             PROVE  EffectInv'
  OBVIOUS
<1>0. alone \subseteq Calls
  BY DEF DraftInv, TypeOK
<1>1. CASE UNCHANGED vars
  BY <1>1 DEF vars, EffectInv, AloneInv, Active, OnCourse, InEffect, Changes
<1>2. CASE CreateDraft
  <2>1. call' = call /\ alone' = alone /\ \A c \in Calls : call[c].at = "idle"
    BY <1>2 DEF CreateDraft, DraftInv, Begun
  <2> QED BY <1>0, <2>1 DEF EffectInv, AloneInv, Active, OnCourse
<1>3. CASE Restart
  BY <1>3 DEF Restart, EffectInv, AloneInv
<1>4. ASSUME NEW c \in Calls, Begins(c)
      PROVE  EffectInv'
  <2>1. /\ call'[c].at \in {"await", "version", "decide", "journal"}
        /\ call'[c].at = "journal" => call'[c].kind = "export"
    BY <1>4, Beginnings
  <2>2. /\ \A d \in Calls \ {c} : call'[d] = call[d]
        /\ alone' = IF \E o \in Calls : Active(o) THEN {} ELSE {c}
    BY <1>4, Beginnings
  <2>3. AloneInv'
    BY <2>2 DEF AloneInv, Active
  <2>4. OnCourse(c)'
    <3>1. \/ ~ Changes(c)' /\ call'[c].kind \notin {"approved", "rejected"}
          \/ call'[c].at # "journal"
      BY <2>1, <2>2 DEF Changes
    <3> QED BY <2>1, <2>2, <3>1 DEF OnCourse, InEffect
  <2> QED BY <2>2, <2>3, <2>4 DEF EffectInv
<1>5. ASSUME NEW c \in Calls, Goes(c)
      PROVE  EffectInv'
  <2>1. /\ \A d \in Calls \ {c} : call'[d] = call[d]
        /\ Active(c) /\ alone' = alone
    BY <1>5, OnItsWay, Touches
  <2>2. \A d \in alone : d = c
    BY <2>1 DEF EffectInv, AloneInv
  <2>3. c \in alone => OnCourse(c)'
    BY <1>5, CourseKept DEF EffectInv
  <2>4. AloneInv'
    BY <2>1, <2>2 DEF EffectInv, AloneInv, Active
  <2> QED BY <2>1, <2>2, <2>3, <2>4 DEF EffectInv
<1> QED BY <1>1, <1>2, <1>3, <1>4, <1>5 DEF Next, Begins, Goes

\* A call that no other overlaps has done what it says by the time it is journalled.
THEOREM AloneCallsDoWhatTheySay == Spec => AloneTakesEffect
<1>1. Init => EffectInv
  BY DEF Init, EffectInv, AloneInv
<1>2. ASSUME DraftInv, EffectInv
      PROVE  \A c \in alone : call[c].at = "journal" =>
               LET last == versions[Len(versions)] IN
               /\ call[c].kind \in {"regenerate", "restore"} =>
                    last.by = c /\ last.text = document.text
               /\ call[c].kind = "regenerate" => \A p \in call[c].target : document.text[p] = c
               /\ call[c].kind = "approved" => document.status = "lawyer_approved"
               /\ call[c].kind = "rejected" => document.status = "rejected"
  BY <1>2 DEF EffectInv, OnCourse, InEffect, Changes, Given
<1>3. DraftInv /\ EffectInv =>
        [\A c \in alone : call[c].at = "journal" /\ journal' = Append(journal, c) =>
           LET last == versions[Len(versions)] IN
           /\ call[c].kind \in {"regenerate", "restore"} =>
                last.by = c /\ last.text = document.text
           /\ call[c].kind = "regenerate" => \A p \in call[c].target : document.text[p] = c
           /\ call[c].kind = "approved" => document.status = "lawyer_approved"
           /\ call[c].kind = "rejected" => document.status = "rejected"]_vars
  BY <1>2
<1> QED BY <1>1, <1>3, EffectStep, StampInit, StampStep, DraftInit, DraftStep, PTL
        DEF Spec, AloneTakesEffect
=============================================================================
