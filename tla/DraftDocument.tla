---------------------------- MODULE DraftDocument ----------------------------
(***************************************************************************)
(* A draft of the Legal Drafting Studio: the row of the document, its      *)
(* versions, and the decisions and the journal that live in memory.        *)
(*                                                                         *)
(* Each call of a route works on a copy of the document that it reads once *)
(* and writes back whole; reading a row, and each statement that writes    *)
(* one, is an action.  Regenerating is asynchronous: it awaits the kernel, *)
(* and once it has its text nothing else runs on the event loop until it   *)
(* is done.  Restoring, validating and exporting run in threads.           *)
(***************************************************************************)
EXTENDS Naturals, Sequences

CONSTANTS
  Paragraphs,   \* the paragraphs of the draft; they keep their ids
  Sections,     \* the sections, as the sets of their paragraphs
  Calls,        \* the calls of the routes, once the draft is created
  MaxRestarts,  \* bound: restarts of the server
  None          \* no document, no call: the text a draft is created with

VARIABLES
  document,   \* the row of drafting_documents
  versions,   \* the rows of drafting_document_versions, as they were inserted
  decisions,  \* HumanInTheLoopService: the decisions on the draft
  journal,    \* InMemoryDraftHistory: the calls that ended, in order
  call,       \* call[c]: what call c does, and the copy it works on
  restarts,   \* restarts of the server
  approved,   \* history: the calls that ever recorded an approval
  saved,      \* history: the texts the document ever had
  alone       \* history: the calls under way that no other has overlapped

vars == <<document, versions, decisions, journal, call, restarts, approved, saved, alone>>

Kinds == {"regenerate", "restore", "approved", "rejected", "commented", "export"}
Decisions == {"approved", "rejected", "commented"}
Statuses == {"under_review", "lawyer_approved", "rejected"}

\* A text is the call that wrote it, for each paragraph; citations are those of a text.
\* The findings of the review and the date of the last change are known by the call
\* that last changed the document.
Text == [Paragraphs -> Calls \cup {None}]
Document == [status : Statuses, text : Text, citations : Text, updated : Calls \cup {None}]
Version == [number : Nat \ {0}, text : Text, by : Calls \cup {None}]

ASSUME DraftAssumption ==
  /\ Sections \subseteq SUBSET Paragraphs
  /\ None \notin Calls \cup Document
  /\ MaxRestarts \in Nat

Call == [kind : Kinds \cup {"none"},
         at : {"idle", "await", "version", "decide", "select", "update", "count",
               "insert", "journal", "over"},
         target : SUBSET Paragraphs,      \* what is regenerated
         number : Nat,                    \* of its version, once it has counted them
         copy : Document \cup {None},
         dirty : SUBSET {"status", "payload"}]

Idle == [kind |-> "none", at |-> "idle", target |-> {}, number |-> 0, copy |-> None,
         dirty |-> {}]

TypeOK ==
  /\ document \in Document \cup {None}
  /\ versions \in Seq(Version)
  /\ decisions \in Seq(Decisions)
  /\ journal \in Seq(Calls \cup {None})
  /\ call \in [Calls -> Call]
  /\ restarts \in 0 .. MaxRestarts
  /\ approved \subseteq Calls
  /\ saved \subseteq Text
  /\ alone \subseteq Calls

Init ==
  /\ document = None
  /\ versions = <<>>
  /\ decisions = <<>>
  /\ journal = <<>>
  /\ call = [c \in Calls |-> Idle]
  /\ restarts = 0
  /\ approved = {}
  /\ saved = {}
  /\ alone = {}

-----------------------------------------------------------------------------
Active(c) == call[c].at \notin {"idle", "over"}

\* c holds the event loop: it has its text and does not await any more.
Blocking(c) ==
  call[c].kind = "regenerate" /\ call[c].at \in {"select", "update", "count", "insert", "journal"}

LoopFree(c) == \A o \in Calls \ {c} : ~ Blocking(o)

\* What a call reads first: the document.
Begin(c, kind, at, target) ==
  /\ document # None
  /\ call[c].at = "idle"
  /\ call' = [call EXCEPT ![c] = [Idle EXCEPT !.kind = kind, !.at = at, !.target = target,
                                            !.copy = document]]
  /\ alone' = IF \E o \in Calls : Active(o) THEN {} ELSE {c}
  /\ UNCHANGED <<document, versions, decisions, journal, restarts, approved, saved>>

Goto(c, at) == call' = [call EXCEPT ![c].at = at]

-----------------------------------------------------------------------------
(* create_draft: the document is stored, snapshot and journalled before    *)
(* anyone knows its id.                                                    *)

CreateDraft ==
  LET text == [p \in Paragraphs |-> None] IN
  /\ document = None
  /\ document' = [status |-> "under_review", text |-> text, citations |-> text,
                  updated |-> None]
  /\ versions' = <<[number |-> 1, text |-> text, by |-> None]>>
  /\ journal' = <<None>>
  /\ saved' = {text}
  /\ UNCHANGED <<decisions, call, restarts, approved, alone>>

-----------------------------------------------------------------------------
(* regenerate_section, regenerate_paragraph                                *)

Regenerate(c, target) == LoopFree(c) /\ Begin(c, "regenerate", "await", target)

\* Mutant of Rewritten: the citations of the text that is gone are kept.
RewrittenUncited(copy, target, c) ==
  [copy EXCEPT !.text = [p \in Paragraphs |-> IF p \in target THEN c ELSE @[p]],
               !.updated = c]

\* New text for the target, the citations that go with it, and a new review.
Rewritten(copy, target, c) ==
  [copy EXCEPT !.text = [p \in Paragraphs |-> IF p \in target THEN c ELSE @[p]],
               !.citations = [p \in Paragraphs |-> IF p \in target THEN c ELSE @[p]],
               !.updated = c]

\* The kernel answers, and the document is reviewed and saved ...
Generated(c) ==
  /\ call[c].at = "await"
  /\ LoopFree(c)
  /\ call' = [call EXCEPT ![c].at = "select",
                          ![c].copy = Rewritten(@, call[c].target, c)]
  /\ UNCHANGED <<document, versions, decisions, journal, restarts, approved, saved, alone>>

\* ... or it raises, and the call ends.
GenerationFails(c) ==
  /\ call[c].at = "await"
  /\ LoopFree(c)
  /\ Goto(c, "over")
  /\ UNCHANGED <<document, versions, decisions, journal, restarts, approved, saved, alone>>

-----------------------------------------------------------------------------
(* restore_version, validate, export                                       *)

Restore(c) == Begin(c, "restore", "version", {})

Validate(c, decision) == Begin(c, decision, "decide", {})

Export(c) == Begin(c, "export", "journal", {})

\* The text of the version replaces that of the copy; the citations and the findings
\* stay those of the text that is gone. A version that does not exist ends the call.
ReadVersion(c) ==
  /\ call[c].at = "version"
  /\ \/ \E i \in DOMAIN versions :
          call' = [call EXCEPT ![c].at = "select",
                               ![c].copy = [@ EXCEPT !.text = versions[i].text, !.updated = c]]
     \/ Goto(c, "over")
  /\ UNCHANGED <<document, versions, decisions, journal, restarts, approved, saved, alone>>

\* Mutant of Decide: what is not a rejection approves.
DecideUnlessRejected(c) ==
  /\ call[c].at = "decide"
  /\ decisions' = Append(decisions, call[c].kind)
  /\ approved' = IF call[c].kind = "approved" THEN approved \cup {c} ELSE approved
  /\ call' = [call EXCEPT ![c].at = "select",
                          ![c].copy.status = IF call[c].kind = "rejected" THEN "rejected"
                                             ELSE "lawyer_approved"]
  /\ UNCHANGED <<document, versions, journal, restarts, saved, alone>>

\* Mutant of Decide: the decision is taken for the status.
DecideVerbatim(c) ==
  /\ call[c].at = "decide"
  /\ decisions' = Append(decisions, call[c].kind)
  /\ approved' = IF call[c].kind = "approved" THEN approved \cup {c} ELSE approved
  /\ call' = [call EXCEPT ![c].at = "select", ![c].copy.status = call[c].kind]
  /\ UNCHANGED <<document, versions, journal, restarts, saved, alone>>

\* The decision is recorded; a comment leaves the status as it was read.
Decide(c) ==
  /\ call[c].at = "decide"
  /\ decisions' = Append(decisions, call[c].kind)
  /\ approved' = IF call[c].kind = "approved" THEN approved \cup {c} ELSE approved
  /\ call' = [call EXCEPT ![c].at = "select",
                          ![c].copy.status = CASE call[c].kind = "approved" -> "lawyer_approved"
                                               [] call[c].kind = "rejected" -> "rejected"
                                               [] OTHER -> @]
  /\ UNCHANGED <<document, versions, journal, restarts, saved, alone>>

-----------------------------------------------------------------------------
(* SQLAlchemyDraftDocumentStore.save and SQLAlchemyVersioningService       *)

\* merge reads the row, and marks the columns that the copy would change.
Select(c) ==
  LET copy == call[c].copy IN
  /\ call[c].at = "select"
  /\ call' = [call EXCEPT
       ![c].at = "update",
       ![c].dirty = (IF copy.status # document.status THEN {"status"} ELSE {}) \cup
                    (IF \/ copy.text # document.text \/ copy.citations # document.citations
                        \/ copy.updated # document.updated
                     THEN {"payload"} ELSE {})]
  /\ UNCHANGED <<document, versions, decisions, journal, restarts, approved, saved, alone>>

\* Mutant of Update: the payload is taken not to have changed.
UpdateStatus(c) ==
  /\ call[c].at = "update"
  /\ document' = [document EXCEPT !.status = call[c].copy.status]
  /\ saved' = saved \cup {document'.text}
  /\ Goto(c, IF call[c].kind \in Decisions THEN "journal" ELSE "count")
  /\ UNCHANGED <<versions, decisions, journal, restarts, approved, alone>>

Update(c) ==
  LET copy == call[c].copy
      payload == IF "payload" \in call[c].dirty THEN copy ELSE document IN
  /\ call[c].at = "update"
  /\ document' =
       [status    |-> IF "status" \in call[c].dirty THEN copy.status ELSE document.status,
        text      |-> payload.text,
        citations |-> payload.citations,
        updated   |-> payload.updated]
  /\ saved' = saved \cup {document'.text}
  /\ Goto(c, IF call[c].kind \in Decisions THEN "journal" ELSE "count")
  /\ UNCHANGED <<versions, decisions, journal, restarts, approved, alone>>

\* snapshot counts the versions to number the next one ...
Count(c) ==
  /\ call[c].at = "count"
  /\ call' = [call EXCEPT ![c].at = "insert", ![c].number = Len(versions) + 1]
  /\ UNCHANGED <<document, versions, decisions, journal, restarts, approved, saved, alone>>

\* Mutant of Insert: no constraint on the version numbers.
InsertAnyway(c) ==
  /\ call[c].at = "insert"
  /\ versions' = Append(versions, [number |-> call[c].number, text |-> call[c].copy.text,
                                   by |-> c])
  /\ Goto(c, "journal")
  /\ UNCHANGED <<document, decisions, journal, restarts, approved, saved, alone>>

\* Mutant of Insert: that the number is taken does not end the call.
InsertOrIgnore(c) ==
  /\ call[c].at = "insert"
  /\ versions' = IF \E i \in DOMAIN versions : versions[i].number = call[c].number
                 THEN versions
                 ELSE Append(versions, [number |-> call[c].number,
                                        text |-> call[c].copy.text, by |-> c])
  /\ Goto(c, "journal")
  /\ UNCHANGED <<document, decisions, journal, restarts, approved, saved, alone>>

\* ... and inserts it; a number that is taken violates uq_drafting_version_number,
\* and no one catches the error.
Insert(c) ==
  /\ call[c].at = "insert"
  /\ IF \E i \in DOMAIN versions : versions[i].number = call[c].number
     THEN Goto(c, "over") /\ UNCHANGED versions
     ELSE /\ versions' = Append(versions, [number |-> call[c].number,
                                           text |-> call[c].copy.text, by |-> c])
          /\ Goto(c, "journal")
  /\ UNCHANGED <<document, decisions, journal, restarts, approved, saved, alone>>

Journal(c) ==
  /\ call[c].at = "journal"
  /\ journal' = Append(journal, c)
  /\ Goto(c, "over")
  /\ UNCHANGED <<document, versions, decisions, restarts, approved, saved, alone>>

-----------------------------------------------------------------------------
\* The server restarts: what was in memory is gone, the calls under way included.
Restart ==
  /\ restarts < MaxRestarts
  /\ restarts' = restarts + 1
  /\ decisions' = <<>>
  /\ journal' = <<>>
  /\ call' = [c \in Calls |-> IF Active(c) THEN [call[c] EXCEPT !.at = "over"] ELSE call[c]]
  /\ alone' = {}
  /\ UNCHANGED <<document, versions, approved, saved>>

Next ==
  \/ CreateDraft
  \/ \E c \in Calls :
       \/ \E target \in Sections \cup {{p} : p \in Paragraphs} : Regenerate(c, target)
       \/ Generated(c) \/ GenerationFails(c)
       \/ Restore(c) \/ ReadVersion(c)
       \/ Export(c) \/ \E d \in Decisions : Validate(c, d)
       \/ Decide(c) \/ Select(c) \/ Update(c) \/ Count(c) \/ Insert(c) \/ Journal(c)
  \/ Restart

Spec == Init /\ [][Next]_vars
-----------------------------------------------------------------------------
(* Properties                                                              *)

\* The versions are numbered 1, 2, 3 ... without a gap or a duplicate, although
\* calls count them before they insert and some fail or die in between.
VersionsUnbroken == \A i \in DOMAIN versions : versions[i].number = i

\* A version can be trusted to be a text the draft has had, and an entry of the
\* journal to be about a change that has its version, whatever fails midway.
TrailIsTrue ==
  /\ \A i \in DOMAIN versions : versions[i].text \in saved
  /\ \A i \in DOMAIN journal :
       journal[i] \in Calls /\ call[journal[i]].kind \in {"regenerate", "restore"} =>
         \E j \in DOMAIN versions : versions[j].by = journal[i]

\* A draft is approved only if someone ever approved it: stale statuses are written
\* back, but none that was not the decision of a lawyer.
ApprovedByALawyer ==
  document # None /\ document.status = "lawyer_approved" => approved # {}

\* A paragraph has the citations of its own text, or else a restoration was begun.
CitationsFollowText ==
  document # None =>
    \/ document.citations = document.text
    \/ \E c \in Calls : call[c].kind = "restore"

\* A call that no other overlaps does what it says: its text, or the one it
\* restores, is the draft's and that of the last version, and a decision is its
\* status.
AloneTakesEffect ==
  [][\A c \in alone : call[c].at = "journal" /\ journal' = Append(journal, c) =>
       LET last == versions[Len(versions)] IN
       /\ call[c].kind \in {"regenerate", "restore"} => last.by = c /\ last.text = document.text
       /\ call[c].kind = "regenerate" => \A p \in call[c].target : document.text[p] = c
       /\ call[c].kind = "approved" => document.status = "lawyer_approved"
       /\ call[c].kind = "rejected" => document.status = "rejected"]_vars

\* docs/31-guide-versioning.md: a snapshot is taken "à chaque étape qui modifie le
\* contenu d'un brouillon".  When no call is under way, the draft's text is that of
\* one of its versions.
ContentIsVersioned ==
  document # None /\ (\A c \in Calls : ~ Active(c)) =>
    \E i \in DOMAIN versions : versions[i].text = document.text
=============================================================================
