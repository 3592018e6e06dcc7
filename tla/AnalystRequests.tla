-------------------------- MODULE AnalystRequests --------------------------
(***************************************************************************)
(* Requests of analysts on research notes, research documents and alerts   *)
(* (services/research_note_service.py, research_document_service.py,       *)
(* repositories/alert_repository.py).  All have one shape (db/session.py): *)
(* the row is loaded, decided upon and flushed, and the transaction is     *)
(* committed after the handler has returned.  A note or document is loaded *)
(* a second time before it is written, as the first get returned a copy    *)
(* and the session's identity map is weak.  Postgres runs the requests     *)
(* READ COMMITTED: an UPDATE waits for the row lock, an insert for an      *)
(* equal key that is not committed, and the UPDATE sets only the columns   *)
(* that differ from the loaded row.                                        *)
(*                                                                         *)
(* The object of a document in Storage is part of no transaction.  Audit   *)
(* events and provenance are inserted in the same transaction, are never   *)
(* read here and are left out.  A request on a missing row (404) changes   *)
(* nothing and is no step, nor is one on an archived row (409, or the      *)
(* idempotent return).                                                     *)
(***************************************************************************)
EXTENDS Naturals

CONSTANTS
    Requests,     \* the requests that arrive, each served once
    Notes,        \* notes, created with their version 1
    Documents,    \* documents, each with an id of its own (uuid4)
    Alerts,
    Fields,       \* columns of a note or of a document's metadata
    Values,       \* their contents
    Blank,        \* the contents at creation
    None

Records == Notes \cup Documents
Rows == Records \cup Alerts
Text == [Fields -> Values]
Statuses == {"new", "acknowledged", "dismissed"}
Ops == {"edit", "archive", "upload", "acknowledge", "dismiss"}

ASSUME RequestsAssumption ==
    /\ Notes \cap Documents = {} /\ Records \cap Alerts = {}
    /\ Blank \in Text /\ None \notin Rows

VARIABLES
    text,        \* the columns of each note and document
    version,     \* current_version_number of each note
    versions,    \* research_note_version: pairs of number and text
    archived,    \* is_archived
    rows,        \* documents with a research_document row
    objects,     \* documents with an object in Storage
    status,      \* alert_event.status
    dismissed,   \* alerts whose dismissed_at is set
    pc,          \* of a request: where it is
    op, target,  \*   what it does, to which row
    field, value,                            \* the column it sets, to what
    merged,                                  \* the columns it will write
    loadedText, loadedVersion, loadedStatus  \* the row it has loaded

documents == <<rows, objects>>
alerts == <<status, dismissed>>
notes == <<text, version, versions>>
tables == <<notes, archived, documents, alerts>>
loaded == <<merged, loadedText, loadedVersion, loadedStatus>>
asked == <<op, target, field, value>>
vars == <<tables, pc, asked, loaded>>

Init ==
    /\ text = [rec \in Records |-> Blank]
    /\ version = [n \in Notes |-> 1]
    /\ versions = [n \in Notes |-> {<<1, Blank>>}]
    /\ archived = {}
    /\ rows \in SUBSET Documents /\ objects = rows
    /\ status = [a \in Alerts |-> "new"] /\ dismissed = {}
    /\ pc = [r \in Requests |-> "new"]
    /\ op = [r \in Requests |-> "edit"] /\ target = [r \in Requests |-> None]
    /\ field = [r \in Requests |-> None] /\ value = [r \in Requests |-> None]
    /\ merged = [r \in Requests |-> Blank] /\ loadedText = merged
    /\ loadedVersion = [r \in Requests |-> 1]
    /\ loadedStatus = [r \in Requests |-> "new"]

Goto(r, place) == pc' = [pc EXCEPT ![r] = place]

\* The handler raises, the commit fails or the process ends: the transaction is rolled
\* back.
Abort(r) ==
    /\ pc[r] \notin {"new", "done"}
    /\ Goto(r, "done")
    /\ UNCHANGED <<tables, asked, loaded>>

-----------------------------------------------------------------------------
(* Loading the row.                                                        *)

Begin(r, o, row, next) ==
    /\ pc[r] = "new"
    /\ Goto(r, next)
    /\ op' = [op EXCEPT ![r] = o]
    /\ target' = [target EXCEPT ![r] = row]

Asks(r, f, v) ==
    /\ field' = [field EXCEPT ![r] = f]
    /\ value' = [value EXCEPT ![r] = v]

\* Mutant: a column that is not in the request is cleared.
MergeIntoBlank(old, f, v) == [Blank EXCEPT ![f] = v]

\* _merge_fields: a column that is not in the request keeps its contents.
MergeFields(old, f, v) == [old EXCEPT ![f] = v]

\* An edit of a note that changes nothing is no step.
EditNote(r, n, f, v) ==
    /\ n \notin archived /\ text[n][f] # v
    /\ Begin(r, "edit", n, "insert") /\ Asks(r, f, v)
    /\ merged' = [merged EXCEPT ![r] = MergeFields(text[n], f, v)]
    /\ loadedVersion' = [loadedVersion EXCEPT ![r] = version[n]]
    /\ UNCHANGED <<tables, loadedText, loadedStatus>>

EditDocument(r, d, f, v) ==
    /\ d \in rows \ archived
    /\ Begin(r, "edit", d, "load") /\ Asks(r, f, v)
    /\ UNCHANGED <<tables, loaded>>

Archive(r, rec) ==
    /\ rec \in (Notes \cup rows) \ archived
    /\ Begin(r, "archive", rec, "update")
    /\ UNCHANGED <<tables, loaded, field, value>>

Triage(r, o, a) ==
    /\ Begin(r, o, a, "update")
    /\ loadedStatus' = [loadedStatus EXCEPT ![r] = status[a]]
    /\ UNCHANGED <<tables, merged, loadedText, loadedVersion, field, value>>

\* apply_note_fields and apply_metadata_update load the row they write.
LoadAgain(r) ==
    /\ pc[r] = "load"
    /\ Goto(r, "update")
    /\ loadedText' = [loadedText EXCEPT ![r] = text[target[r]]]
    /\ merged' = IF target[r] \in Notes THEN merged
                 ELSE [merged EXCEPT ![r] = MergeFields(text[target[r]], field[r], value[r])]
    /\ UNCHANGED <<tables, asked, loadedVersion, loadedStatus>>

-----------------------------------------------------------------------------
(* A new version of a note.                                                *)

\* The unique index on (research_note_id, version_number).
KeyTaken(n, number) == \E pair \in versions[n] : pair[1] = number

\* Mutant: a committed key is waited for, too.
KeyHeldForGood(r, n, number) == KeyTaken(n, number)

\* An equal key of a transaction that is not committed is waited for.
KeyHeld(r, n, number) ==
    \E q \in Requests \ {r} :
        /\ pc[q] \in {"load", "update", "commit"} /\ op[q] = "edit" /\ target[q] = n
        /\ loadedVersion[q] + 1 = number

InsertVersion(r) ==
    /\ pc[r] = "insert"
    /\ ~KeyHeld(r, target[r], loadedVersion[r] + 1)
    /\ ~KeyTaken(target[r], loadedVersion[r] + 1)
    /\ Goto(r, "load")
    /\ UNCHANGED <<tables, asked, loaded>>

\* IntegrityError, rolled back.
InsertRefused(r) ==
    /\ pc[r] = "insert"
    /\ ~KeyHeld(r, target[r], loadedVersion[r] + 1)
    /\ KeyTaken(target[r], loadedVersion[r] + 1)
    /\ Goto(r, "done")
    /\ UNCHANGED <<tables, asked, loaded>>

-----------------------------------------------------------------------------
(* The UPDATE of the row, which takes its lock.                            *)

Locked(r, row) == \E q \in Requests \ {r} : pc[q] = "commit" /\ target[q] = row

NewStatus(o) == IF o = "acknowledge" THEN "acknowledged" ELSE "dismissed"

\* The column is set when the value differs from the loaded one.
StatusAfter(r) ==
    IF NewStatus(op[r]) = loadedStatus[r] THEN status[target[r]] ELSE NewStatus(op[r])

DismissedAfter(r) == IF op[r] = "dismiss" THEN dismissed \cup {target[r]} ELSE dismissed

\* ck_alert_event_dismissed_requires_status.
CheckHolds(r) ==
    op[r] \in {"acknowledge", "dismiss"} /\ target[r] \in DismissedAfter(r)
        => StatusAfter(r) = "dismissed"

UpdateRow(r) ==
    /\ pc[r] = "update" /\ ~Locked(r, target[r])
    /\ CheckHolds(r)
    /\ Goto(r, "commit")
    /\ UNCHANGED <<tables, asked, loaded>>

UpdateRefused(r) ==
    /\ pc[r] = "update" /\ ~Locked(r, target[r])
    /\ ~CheckHolds(r)
    /\ Goto(r, "done")
    /\ UNCHANGED <<tables, asked, loaded>>

-----------------------------------------------------------------------------
(* Uploading a document.                                                   *)

\* Mutant: an error of Storage goes unnoticed.
UploadUnchecked(r, d) ==
    /\ d \notin objects \cup rows
    /\ \A q \in Requests : target[q] # d
    /\ Begin(r, "upload", d, "persist")
    /\ UNCHANGED <<tables, loaded, field, value>>

UploadObject(r, d) ==
    /\ d \notin objects \cup rows
    /\ \A q \in Requests : target[q] # d
    /\ Begin(r, "upload", d, "persist")
    /\ objects' = objects \cup {d}
    /\ UNCHANGED <<notes, archived, rows, alerts, loaded, field, value>>

\* The upload itself fails, before or after it reached Storage.  Nothing is
\* compensated.
UploadFails(r, d) ==
    /\ d \notin objects \cup rows
    /\ \A q \in Requests : target[q] # d
    /\ Begin(r, "upload", d, "done")
    /\ objects' \in {objects, objects \cup {d}}
    /\ UNCHANGED <<notes, archived, rows, alerts, loaded, field, value>>

PersistDocument(r) ==
    /\ pc[r] = "persist"
    /\ Goto(r, "commit")
    /\ UNCHANGED <<tables, asked, loaded>>

\* An insert fails; the compensating delete may fail, before or after it reached
\* Storage.
PersistFails(r) ==
    /\ pc[r] = "persist"
    /\ Goto(r, "done")
    /\ objects' \in {objects, objects \ {target[r]}}
    /\ UNCHANGED <<notes, archived, rows, alerts, asked, loaded>>

-----------------------------------------------------------------------------
(* The end of the transaction, in get_db.                                  *)

\* A column that was set to its loaded value is not in the UPDATE.
Written(r) ==
    [f \in Fields |-> IF merged[r][f] = loadedText[r][f] THEN text[target[r]][f]
                     ELSE merged[r][f]]

CommitEdit(r) ==
    /\ op[r] = "edit"
    /\ text' = [text EXCEPT ![target[r]] = Written(r)]
    /\ IF target[r] \in Notes
       THEN /\ version' = [version EXCEPT ![target[r]] = loadedVersion[r] + 1]
            /\ versions' = [versions EXCEPT ![target[r]] = @ \cup
                               {<<loadedVersion[r] + 1, merged[r]>>}]
       ELSE UNCHANGED <<version, versions>>
    /\ UNCHANGED <<archived, documents, alerts>>

CommitArchive(r) ==
    /\ op[r] = "archive"
    /\ archived' = archived \cup {target[r]}
    /\ UNCHANGED <<notes, documents, alerts>>

CommitTriage(r) ==
    /\ op[r] \in {"acknowledge", "dismiss"}
    /\ status' = [status EXCEPT ![target[r]] = StatusAfter(r)]
    /\ dismissed' = DismissedAfter(r)
    /\ UNCHANGED <<notes, archived, documents>>

CommitUpload(r) ==
    /\ op[r] = "upload"
    /\ rows' = rows \cup {target[r]}
    /\ UNCHANGED <<notes, archived, objects, alerts>>

Commit(r) ==
    /\ pc[r] = "commit"
    /\ Goto(r, "done")
    /\ CommitEdit(r) \/ CommitArchive(r) \/ CommitTriage(r) \/ CommitUpload(r)
    /\ UNCHANGED <<asked, loaded>>

Arrive(r) ==
    \/ \E n \in Notes, f \in Fields, v \in Values : EditNote(r, n, f, v)
    \/ \E d \in Documents, f \in Fields, v \in Values : EditDocument(r, d, f, v)
    \/ \E rec \in Records : Archive(r, rec)
    \/ \E o \in {"acknowledge", "dismiss"}, a \in Alerts : Triage(r, o, a)
    \/ \E d \in Documents : UploadObject(r, d) \/ UploadFails(r, d)

Proceed(r) ==
    \/ InsertVersion(r) \/ InsertRefused(r) \/ LoadAgain(r)
    \/ UpdateRow(r) \/ UpdateRefused(r)
    \/ PersistDocument(r) \/ PersistFails(r)
    \/ Commit(r)

Next == \E r \in Requests : Arrive(r) \/ Proceed(r) \/ Abort(r)

Spec == Init /\ [][Next]_vars

\* A request that was taken goes on when Postgres lets it.
FairSpec == Spec /\ \A r \in Requests : WF_vars(Proceed(r))

-----------------------------------------------------------------------------
(* Properties.                                                             *)

\* Every column and local variable has its type.
TypeOK ==
    /\ text \in [Records -> Text]
    /\ version \in [Notes -> Nat]
    /\ versions \in [Notes -> SUBSET (Nat \X Text)]
    /\ archived \subseteq Records
    /\ rows \subseteq Documents /\ objects \subseteq Documents
    /\ status \in [Alerts -> Statuses] /\ dismissed \subseteq Alerts
    /\ pc \in [Requests -> {"new", "insert", "load", "update", "persist", "commit", "done"}]
    /\ op \in [Requests -> Ops] /\ target \in [Requests -> Rows \cup {None}]
    /\ field \in [Requests -> Fields \cup {None}] /\ value \in [Requests -> Values \cup {None}]
    /\ merged \in [Requests -> Text] /\ loadedText \in [Requests -> Text]
    /\ loadedVersion \in [Requests -> Nat]
    /\ loadedStatus \in [Requests -> Statuses]

\* The versions of a note are numbered from 1 without a gap, one text each, and
\* the live row is the last of them.
HistoryEndsInRow ==
    \A n \in Notes :
        /\ <<version[n], text[n]>> \in versions[n]
        /\ \A pair \in versions[n] : pair[1] \in 1 .. version[n]
        /\ \A number \in 1 .. version[n], p, q \in versions[n] :
               p[1] = number /\ q[1] = number => p = q
        /\ \A number \in 1 .. version[n] : \E pair \in versions[n] : pair[1] = number

\* No edit of a note is lost: each version is the one before it with one column
\* changed, although the text is merged from a row that was loaded without a lock.
NoLostEdit ==
    \A n \in Notes : \A p, q \in versions[n] :
        q[1] = p[1] + 1 =>
            \E f \in Fields : p[2][f] # q[2][f] /\ \A g \in Fields \ {f} : p[2][g] = q[2][g]

\* A dismissed alert stays dismissed, whatever requests overlap: only the CHECK
\* constraint stands between a stale acknowledgement and it.
DismissalIsFinal ==
    [][\A a \in Alerts : status[a] = "dismissed" => status'[a] = "dismissed"]_alerts

\* A document row has its object, whatever is compensated.
RowHasObject == rows \subseteq objects

\* Every request that was taken ends: the locks and keys it waits for form no cycle.
EventuallyAnswered == \A r \in Requests : pc[r] # "new" ~> pc[r] = "done"

=============================================================================
