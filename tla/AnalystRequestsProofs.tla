----------------------- MODULE AnalystRequestsProofs -----------------------
(***************************************************************************)
(* For any number of requests, notes, documents and alerts: no edit of a   *)
(* note is lost, a document has its object, a dismissal is final.  None of *)
(* the three is inductive.  The strengthening says what a request in       *)
(* flight relies on: the version it edits and the key it holds, the object *)
(* it uploaded, the row it has locked.                                     *)
(***************************************************************************)
EXTENDS AnalystRequests, TLAPS

USE RequestsAssumption DEF Rows, Records, Text, Statuses, Ops

Active(r) == pc[r] \in {"insert", "load", "update", "persist", "commit"}

\* What the place of a request says of what it was asked.
Shape ==
    \A r \in Requests :
        /\ pc[r] \in {"insert", "load"} => op[r] = "edit"
        /\ pc[r] = "insert" => target[r] \in Notes
        /\ pc[r] = "persist" => op[r] = "upload"
        /\ Active(r) /\ op[r] = "edit" =>
               target[r] \in Records /\ field[r] \in Fields /\ value[r] \in Values
        /\ Active(r) /\ op[r] = "archive" => target[r] \in Records
        /\ Active(r) /\ op[r] = "upload" => target[r] \in Documents
        /\ Active(r) /\ op[r] \in {"acknowledge", "dismiss"} => target[r] \in Alerts

Places == {"new", "insert", "load", "update", "persist", "commit", "done"}

-----------------------------------------------------------------------------
(* The helpers of the actions. *)

\* A request that moves, moves alone.
LEMMA GotoFacts ==
    ASSUME TypeOK, NEW r \in Requests, NEW place \in Places, Goto(r, place)
    PROVE  /\ pc' \in [Requests -> Places]
           /\ pc'[r] = place
           /\ \A q \in Requests \ {r} : pc'[q] = pc[q]
BY DEF TypeOK, Goto, Places

\* A request that begins, begins alone.
LEMMA BeginFacts ==
    ASSUME TypeOK, NEW r \in Requests, NEW o \in Ops, NEW row \in Rows, NEW place \in Places,
           Begin(r, o, row, place)
    PROVE  /\ pc[r] = "new" /\ pc'[r] = place /\ op'[r] = o /\ target'[r] = row
           /\ pc' \in [Requests -> Places]
           /\ op' \in [Requests -> Ops] /\ target' \in [Requests -> Rows \cup {None}]
           /\ \A q \in Requests \ {r} : pc'[q] = pc[q] /\ op'[q] = op[q] /\ target'[q] = target[q]
<1>1. pc[r] = "new" /\ Goto(r, place)
  BY DEF Begin
<1>2. op' = [op EXCEPT ![r] = o] /\ target' = [target EXCEPT ![r] = row]
  BY DEF Begin
<1> QED
  BY <1>1, <1>2, GotoFacts DEF TypeOK

\* The column and contents that are asked for.
LEMMA AsksFacts ==
    ASSUME TypeOK, NEW r \in Requests, NEW f \in Fields, NEW v \in Values, Asks(r, f, v)
    PROVE  /\ field' \in [Requests -> Fields \cup {None}] /\ value' \in [Requests -> Values \cup {None}]
           /\ field'[r] = f /\ value'[r] = v
           /\ \A q \in Requests \ {r} : field'[q] = field[q] /\ value'[q] = value[q]
BY DEF TypeOK, Asks

LEMMA MergeType ==
    ASSUME NEW old \in Text, NEW f \in Fields, NEW v \in Values
    PROVE  MergeFields(old, f, v) \in Text
BY DEF MergeFields

-----------------------------------------------------------------------------
(* Types. *)

Types == TypeOK /\ Shape

LEMMA InitTypes == Init => Types
BY DEF Init, Types, TypeOK, Shape, Active

\* Steps that change nothing but the place of a request.
Moves(r) ==
    \/ Abort(r) \/ InsertVersion(r) \/ InsertRefused(r)
    \/ UpdateRow(r) \/ UpdateRefused(r) \/ PersistDocument(r)

LEMMA MoveFacts ==
    ASSUME TypeOK, Shape, NEW r \in Requests, Moves(r)
    PROVE  /\ UNCHANGED <<tables, asked, loaded>>
           /\ pc' \in [Requests -> Places]
           /\ \A q \in Requests \ {r} : pc'[q] = pc[q]
           /\ \/ pc[r] \notin {"new", "done"} /\ pc'[r] = "done"
              \/ pc[r] = "insert" /\ pc'[r] = "load"
              \/ pc[r] = "update" /\ pc'[r] = "commit"
              \/ pc[r] = "persist" /\ pc'[r] = "commit"
<1>1. CASE Abort(r) \/ InsertRefused(r) \/ UpdateRefused(r)
  <2>1. Goto(r, "done") /\ pc[r] \notin {"new", "done"} /\ UNCHANGED <<tables, asked, loaded>>
    BY <1>1 DEF Abort, InsertRefused, UpdateRefused
  <2> QED
    BY <2>1, GotoFacts DEF Places
<1>2. CASE InsertVersion(r)
  <2>1. Goto(r, "load") /\ pc[r] = "insert" /\ UNCHANGED <<tables, asked, loaded>>
    BY <1>2 DEF InsertVersion
  <2> QED
    BY <2>1, GotoFacts DEF Places
<1>3. CASE UpdateRow(r) \/ PersistDocument(r)
  <2>1. Goto(r, "commit") /\ pc[r] \in {"update", "persist"} /\ UNCHANGED <<tables, asked, loaded>>
    BY <1>3 DEF UpdateRow, PersistDocument
  <2> QED
    BY <2>1, GotoFacts DEF Places
<1> QED
  BY <1>1, <1>2, <1>3 DEF Moves

LEMMA MoveTypes ==
    ASSUME Types, NEW r \in Requests, Moves(r) PROVE Types'
<1> USE DEF Types
<1>1. /\ UNCHANGED <<tables, asked, loaded>>
      /\ pc' \in [Requests -> Places]
      /\ \A q \in Requests \ {r} : pc'[q] = pc[q]
      /\ \/ pc[r] \notin {"new", "done"} /\ pc'[r] = "done"
         \/ pc[r] = "insert" /\ pc'[r] = "load"
         \/ pc[r] = "update" /\ pc'[r] = "commit"
         \/ pc[r] = "persist" /\ pc'[r] = "commit"
  BY MoveFacts
<1>2. TypeOK'
  BY <1>1 DEF TypeOK, tables, notes, documents, alerts, asked, loaded, Places
<1>3. Active(r)' => Active(r)
  BY <1>1 DEF Active, TypeOK, Places
<1>4. Shape'
  BY <1>1, <1>3 DEF Shape, Active, asked
<1> QED
  BY <1>2, <1>4

LEMMA EditTypes ==
    ASSUME Types, NEW r \in Requests, NEW f \in Fields, NEW v \in Values,
           (\E n \in Notes : EditNote(r, n, f, v)) \/ (\E d \in Documents : EditDocument(r, d, f, v))
    PROVE  Types'
<1> USE DEF Types
<1>1. ASSUME NEW n \in Notes, EditNote(r, n, f, v) PROVE Types'
  <2>1. Begin(r, "edit", n, "insert") /\ Asks(r, f, v)
    BY <1>1 DEF EditNote
  <2>2. /\ pc'[r] = "insert" /\ op'[r] = "edit" /\ target'[r] = n
        /\ pc' \in [Requests -> Places]
        /\ op' \in [Requests -> Ops] /\ target' \in [Requests -> Rows \cup {None}]
        /\ \A q \in Requests \ {r} : pc'[q] = pc[q] /\ op'[q] = op[q] /\ target'[q] = target[q]
    BY <2>1, BeginFacts DEF Places
  <2>3. /\ field' \in [Requests -> Fields \cup {None}] /\ value' \in [Requests -> Values \cup {None}]
        /\ field'[r] = f /\ value'[r] = v
        /\ \A q \in Requests \ {r} : field'[q] = field[q] /\ value'[q] = value[q]
    BY <2>1, AsksFacts
  <2>4. MergeFields(text[n], f, v) \in Text /\ version[n] \in Nat
    BY MergeType DEF TypeOK
  <2>5. TypeOK'
    BY <1>1, <2>2, <2>3, <2>4 DEF TypeOK, EditNote, tables, notes, documents, alerts, Places
  <2>6. Shape'
    BY <2>2, <2>3 DEF Shape, Active
  <2> QED
    BY <2>5, <2>6
<1>2. ASSUME NEW d \in Documents, EditDocument(r, d, f, v) PROVE Types'
  <2>1. Begin(r, "edit", d, "load") /\ Asks(r, f, v)
    BY <1>2 DEF EditDocument
  <2>2. /\ pc'[r] = "load" /\ op'[r] = "edit" /\ target'[r] = d
        /\ pc' \in [Requests -> Places]
        /\ op' \in [Requests -> Ops] /\ target' \in [Requests -> Rows \cup {None}]
        /\ \A q \in Requests \ {r} : pc'[q] = pc[q] /\ op'[q] = op[q] /\ target'[q] = target[q]
    BY <2>1, BeginFacts DEF Places
  <2>3. /\ field' \in [Requests -> Fields \cup {None}] /\ value' \in [Requests -> Values \cup {None}]
        /\ field'[r] = f /\ value'[r] = v
        /\ \A q \in Requests \ {r} : field'[q] = field[q] /\ value'[q] = value[q]
    BY <2>1, AsksFacts
  <2>4. TypeOK'
    BY <1>2, <2>2, <2>3 DEF TypeOK, EditDocument, tables, notes, documents, alerts, loaded, Places
  <2>5. Shape'
    BY <2>2, <2>3 DEF Shape, Active
  <2> QED
    BY <2>4, <2>5
<1> QED
  BY <1>1, <1>2

LEMMA ArchiveTypes ==
    ASSUME Types, NEW r \in Requests, NEW rec \in Records, Archive(r, rec) PROVE Types'
<1> USE DEF Types
<1>1. Begin(r, "archive", rec, "update")
  BY DEF Archive
<1>2. /\ pc'[r] = "update" /\ op'[r] = "archive" /\ target'[r] = rec
      /\ pc' \in [Requests -> Places]
      /\ op' \in [Requests -> Ops] /\ target' \in [Requests -> Rows \cup {None}]
      /\ \A q \in Requests \ {r} : pc'[q] = pc[q] /\ op'[q] = op[q] /\ target'[q] = target[q]
  BY <1>1, BeginFacts DEF Places
<1>3. TypeOK'
  BY <1>2 DEF TypeOK, Archive, tables, notes, documents, alerts, loaded, Places
<1>4. Shape'
  BY <1>2 DEF Shape, Active, Archive
<1> QED
  BY <1>3, <1>4

LEMMA TriageTypes ==
    ASSUME Types, NEW r \in Requests, NEW o \in {"acknowledge", "dismiss"}, NEW a \in Alerts,
           Triage(r, o, a)
    PROVE  Types'
<1> USE DEF Types
<1>1. Begin(r, o, a, "update")
  BY DEF Triage
<1>2. /\ pc'[r] = "update" /\ op'[r] = o /\ target'[r] = a
      /\ pc' \in [Requests -> Places]
      /\ op' \in [Requests -> Ops] /\ target' \in [Requests -> Rows \cup {None}]
      /\ \A q \in Requests \ {r} : pc'[q] = pc[q] /\ op'[q] = op[q] /\ target'[q] = target[q]
  BY <1>1, BeginFacts DEF Places
<1>3. TypeOK'
  BY <1>2 DEF TypeOK, Triage, tables, notes, documents, alerts, Places
<1>4. Shape'
  BY <1>2 DEF Shape, Active, Triage
<1> QED
  BY <1>3, <1>4

LEMMA UploadTypes ==
    ASSUME Types, NEW r \in Requests, NEW d \in Documents, UploadObject(r, d) \/ UploadFails(r, d)
    PROVE  Types'
<1> USE DEF Types
<1>1. PICK place \in {"persist", "done"} : Begin(r, "upload", d, place)
  BY DEF UploadObject, UploadFails
<1>2. /\ pc'[r] = place /\ op'[r] = "upload" /\ target'[r] = d
      /\ pc' \in [Requests -> Places]
      /\ op' \in [Requests -> Ops] /\ target' \in [Requests -> Rows \cup {None}]
      /\ \A q \in Requests \ {r} : pc'[q] = pc[q] /\ op'[q] = op[q] /\ target'[q] = target[q]
  BY <1>1, BeginFacts DEF Places
<1>3. /\ UNCHANGED <<notes, archived, rows, alerts, loaded, field, value>>
      /\ objects' \in {objects, objects \cup {d}}
  BY DEF UploadObject, UploadFails
<1>4. TypeOK'
  BY <1>2, <1>3 DEF TypeOK, notes, alerts, loaded, Places
<1>5. Shape'
  BY <1>2, <1>3 DEF Shape, Active
<1> QED
  BY <1>4, <1>5

LEMMA LoadTypes ==
    ASSUME Types, NEW r \in Requests, LoadAgain(r) PROVE Types'
<1> USE DEF Types
<1>1. /\ pc[r] = "load" /\ Goto(r, "update") /\ UNCHANGED <<tables, asked, loadedVersion, loadedStatus>>
      /\ loadedText' = [loadedText EXCEPT ![r] = text[target[r]]]
      /\ merged' = IF target[r] \in Notes THEN merged
                   ELSE [merged EXCEPT ![r] = MergeFields(text[target[r]], field[r], value[r])]
  BY DEF LoadAgain
<1>2. /\ pc' \in [Requests -> Places] /\ pc'[r] = "update"
      /\ \A q \in Requests \ {r} : pc'[q] = pc[q]
  BY <1>1, GotoFacts DEF Places
<1>3. op[r] = "edit" /\ target[r] \in Records /\ field[r] \in Fields /\ value[r] \in Values
  BY <1>1 DEF Shape, Active
<1>4. text[target[r]] \in Text /\ MergeFields(text[target[r]], field[r], value[r]) \in Text
  BY <1>3, MergeType DEF TypeOK
<1>5. merged' \in [Requests -> Text] /\ loadedText' \in [Requests -> Text]
  BY <1>1, <1>4 DEF TypeOK
<1>6. TypeOK'
  BY <1>1, <1>2, <1>5 DEF TypeOK, tables, notes, documents, alerts, asked, Places
<1>7. Shape'
  BY <1>1, <1>2, <1>3 DEF Shape, Active, asked
<1> QED
  BY <1>6, <1>7

LEMMA PersistFailsTypes ==
    ASSUME Types, NEW r \in Requests, PersistFails(r) PROVE Types'
<1> USE DEF Types
<1>1. /\ pc' \in [Requests -> Places] /\ pc'[r] = "done"
      /\ \A q \in Requests \ {r} : pc'[q] = pc[q]
  BY GotoFacts DEF PersistFails, Places
<1>2. TypeOK'
  BY <1>1 DEF TypeOK, PersistFails, notes, alerts, asked, loaded, Places
<1>3. Shape'
  BY <1>1 DEF Shape, Active, PersistFails, asked
<1> QED
  BY <1>2, <1>3

\* What a commit writes is typed.
LEMMA CommitTypes ==
    ASSUME Types, NEW r \in Requests, Commit(r) PROVE Types'
<1> USE DEF Types
<1>1. pc[r] = "commit" /\ Goto(r, "done") /\ UNCHANGED <<asked, loaded>>
  BY DEF Commit
<1>2. /\ pc' \in [Requests -> Places] /\ pc'[r] = "done"
      /\ \A q \in Requests \ {r} : pc'[q] = pc[q]
  BY <1>1, GotoFacts DEF Places
<1>3. Shape'
  BY <1>1, <1>2 DEF Shape, Active, asked
<1>4. CASE CommitEdit(r)
  <2>1. target[r] \in Records
    BY <1>1, <1>4 DEF Shape, Active, CommitEdit
  <2>2. Written(r) \in Text
    BY <2>1 DEF Written, TypeOK
  <2>3. merged[r] \in Text /\ loadedVersion[r] + 1 \in Nat
    BY DEF TypeOK
  <2>4. text' \in [Records -> Text]
    BY <1>4, <2>2 DEF CommitEdit, TypeOK
  <2>5. version' \in [Notes -> Nat]
    BY <1>4, <2>3 DEF CommitEdit, TypeOK
  <2>6. versions' \in [Notes -> SUBSET (Nat \X Text)]
    BY <1>4, <2>3 DEF CommitEdit, TypeOK
  <2> QED
    BY <1>1, <1>2, <1>3, <1>4, <2>4, <2>5, <2>6
       DEF TypeOK, CommitEdit, documents, alerts, asked, loaded, Places
<1>5. CASE CommitArchive(r)
  <2>1. target[r] \in Records
    BY <1>1, <1>5 DEF Shape, Active, CommitArchive
  <2> QED
    BY <1>1, <1>2, <1>3, <1>5, <2>1
       DEF TypeOK, CommitArchive, notes, documents, alerts, asked, loaded, Places
<1>6. CASE CommitTriage(r)
  <2>1. target[r] \in Alerts
    BY <1>1, <1>6 DEF Shape, Active, CommitTriage
  <2>2. StatusAfter(r) \in Statuses
    BY <2>1 DEF StatusAfter, NewStatus, TypeOK
  <2> QED
    BY <1>1, <1>2, <1>3, <1>6, <2>1, <2>2
       DEF TypeOK, CommitTriage, DismissedAfter, notes, documents, asked, loaded, Places
<1>7. CASE CommitUpload(r)
  <2>1. target[r] \in Documents
    BY <1>1, <1>7 DEF Shape, Active, CommitUpload
  <2> QED
    BY <1>1, <1>2, <1>3, <1>7, <2>1 DEF TypeOK, CommitUpload, notes, alerts, asked, loaded, Places
<1> QED
  BY <1>4, <1>5, <1>6, <1>7 DEF Commit

\* Every step is one of these.
Steps(r) ==
    \/ Moves(r)
    \/ \E f \in Fields, v \in Values :
           (\E n \in Notes : EditNote(r, n, f, v)) \/ (\E d \in Documents : EditDocument(r, d, f, v))
    \/ \E rec \in Records : Archive(r, rec)
    \/ \E o \in {"acknowledge", "dismiss"}, a \in Alerts : Triage(r, o, a)
    \/ \E d \in Documents : UploadObject(r, d) \/ UploadFails(r, d)
    \/ LoadAgain(r) \/ PersistFails(r) \/ Commit(r)

LEMMA NextSteps == ASSUME Next PROVE \E r \in Requests : Steps(r)
<1>1. PICK r \in Requests : Arrive(r) \/ Proceed(r) \/ Abort(r)
  BY DEF Next
<1>2. CASE Arrive(r)
  BY <1>2 DEF Arrive, Steps
<1>3. CASE Proceed(r) \/ Abort(r)
  BY <1>3 DEF Proceed, Steps, Moves
<1> QED
  BY <1>1, <1>2, <1>3

LEMMA TypesStep == ASSUME Types, [Next]_vars PROVE Types'
<1>1. CASE UNCHANGED vars
  BY <1>1 DEF Types, TypeOK, Shape, Active, vars, tables, notes, documents, alerts, asked, loaded
<1>2. CASE Next
  <2>1. PICK r \in Requests : Steps(r)
    BY <1>2, NextSteps
  <2> QED
    BY <2>1, MoveTypes, EditTypes, ArchiveTypes, TriageTypes, UploadTypes, LoadTypes,
       PersistFailsTypes, CommitTypes DEF Steps
<1> QED
  BY <1>1, <1>2

\* Every column and local variable has its type, and the place of a request fits
\* what it was asked (the handlers of db/session.py's transactions).
THEOREM RequestTypes == Spec => []Types
<1> QED
  BY InitTypes, TypesStep, PTL DEF Spec

-----------------------------------------------------------------------------
(* Documents have their objects. *)

Uploading(r) == op[r] = "upload" /\ Active(r)

\* A request that uploads has its object, which no other request knows of.
UploadInv ==
    /\ RowHasObject
    /\ \A r \in Requests : Uploading(r) =>
           /\ target[r] \in objects \ rows
           /\ \A q \in Requests \ {r} : target[q] # target[r]

LEMMA UploadBegins ==
    ASSUME Types, UploadInv, NEW r \in Requests, NEW d \in Documents,
           UploadObject(r, d) \/ UploadFails(r, d)
    PROVE  UploadInv'
<1> USE DEF Types, RowHasObject
<1>1. PICK place \in {"persist", "done"} :
          Begin(r, "upload", d, place) /\ (place = "persist" => objects' = objects \cup {d})
  BY DEF UploadObject, UploadFails
<1>2. /\ pc'[r] = place /\ op'[r] = "upload" /\ target'[r] = d
      /\ \A q \in Requests \ {r} : pc'[q] = pc[q] /\ op'[q] = op[q] /\ target'[q] = target[q]
  BY <1>1, BeginFacts DEF Places
<1>3. /\ rows' = rows /\ objects' \in {objects, objects \cup {d}}
      /\ d \notin objects \cup rows /\ \A q \in Requests : target[q] # d
  BY DEF UploadObject, UploadFails
<1>4. RowHasObject'
  BY <1>3 DEF UploadInv
<1>5. ASSUME NEW q \in Requests, Uploading(q)'
      PROVE  target'[q] \in objects' \ rows' /\ \A p \in Requests \ {q} : target'[p] # target'[q]
  <2>1. CASE q = r
    <3>1. place = "persist"
      BY <1>2, <1>5, <2>1 DEF Uploading, Active
    <3> QED
      BY <1>1, <1>2, <1>3, <2>1, <3>1
  <2>2. CASE q # r
    <3>1. Uploading(q)
      BY <1>2, <1>5, <2>2 DEF Uploading, Active
    <3> QED
      BY <1>2, <1>3, <2>2, <3>1 DEF UploadInv
  <2> QED
    BY <2>1, <2>2
<1> QED
  BY <1>4, <1>5 DEF UploadInv

\* A request that begins anything else names no object that is being uploaded.
LEMMA OtherBegins ==
    ASSUME Types, UploadInv, NEW r \in Requests, NEW o \in Ops \ {"upload"},
           NEW row \in Notes \cup Alerts \cup rows, NEW place \in Places,
           Begin(r, o, row, place), UNCHANGED documents
    PROVE  UploadInv'
<1> USE DEF Types, RowHasObject
<1>1. row \in Rows
  BY DEF TypeOK
<1>2. /\ op'[r] = o /\ target'[r] = row
      /\ \A q \in Requests \ {r} : pc'[q] = pc[q] /\ op'[q] = op[q] /\ target'[q] = target[q]
  BY <1>1, BeginFacts
<1>3. RowHasObject'
  BY DEF UploadInv, documents
<1>4. ASSUME NEW q \in Requests, Uploading(q)'
      PROVE  target'[q] \in objects' \ rows' /\ \A p \in Requests \ {q} : target'[p] # target'[q]
  <2>1. q # r
    BY <1>2, <1>4 DEF Uploading
  <2>2. Uploading(q)
    BY <1>2, <1>4, <2>1 DEF Uploading, Active
  <2>3. target[q] \in Documents \ rows /\ target[q] \in objects
    BY <2>2 DEF UploadInv, TypeOK
  <2>4. target[q] # row
    BY <2>3
  <2> QED
    BY <1>2, <2>1, <2>2, <2>3, <2>4 DEF UploadInv, documents
<1> QED
  BY <1>3, <1>4 DEF UploadInv

LEMMA UploadStep == ASSUME Types, UploadInv, [Next]_vars PROVE UploadInv'
<1> USE DEF Types, RowHasObject
<1>1. CASE UNCHANGED vars
  BY <1>1 DEF UploadInv, Uploading, Active, vars, tables, documents, asked
<1>2. ASSUME NEW r \in Requests, Moves(r) PROVE UploadInv'
  <2>1. /\ UNCHANGED <<tables, asked>>
        /\ \A q \in Requests : Uploading(q)' => Uploading(q)
    BY <1>2, MoveFacts DEF Uploading, Active, asked
  <2> QED
    BY <2>1 DEF UploadInv, tables, documents, asked
<1>3. ASSUME NEW r \in Requests, NEW f \in Fields, NEW v \in Values,
             (\E n \in Notes : EditNote(r, n, f, v)) \/ (\E d \in Documents : EditDocument(r, d, f, v))
      PROVE  UploadInv'
  <2>1. PICK row \in Notes \cup rows, place \in {"insert", "load"} :
            Begin(r, "edit", row, place) /\ UNCHANGED tables
    BY <1>3 DEF EditNote, EditDocument
  <2> QED
    BY <2>1, OtherBegins DEF tables, Places
<1>4. ASSUME NEW r \in Requests, NEW rec \in Records, Archive(r, rec) PROVE UploadInv'
  BY <1>4, OtherBegins DEF Archive, tables, Places
<1>5. ASSUME NEW r \in Requests, NEW o \in {"acknowledge", "dismiss"}, NEW a \in Alerts,
             Triage(r, o, a)
      PROVE  UploadInv'
  BY <1>5, OtherBegins DEF Triage, tables, Places
<1>6. ASSUME NEW r \in Requests, LoadAgain(r) PROVE UploadInv'
  <2>1. Goto(r, "update") /\ pc[r] = "load" /\ UNCHANGED <<tables, asked>>
    BY <1>6 DEF LoadAgain
  <2>2. \A q \in Requests : Uploading(q)' => Uploading(q)
    BY <2>1, GotoFacts DEF Uploading, Active, asked, Places
  <2> QED
    BY <2>1, <2>2 DEF UploadInv, tables, documents, asked
<1>7. ASSUME NEW r \in Requests, PersistFails(r) PROVE UploadInv'
  <2>1. /\ pc[r] = "persist" /\ Goto(r, "done") /\ rows' = rows /\ UNCHANGED asked
        /\ objects' \in {objects, objects \ {target[r]}}
    BY <1>7 DEF PersistFails
  <2>2. \A q \in Requests : Uploading(q)' => q # r /\ Uploading(q)
    BY <2>1, GotoFacts DEF Uploading, Active, asked, Places
  <2>3. Uploading(r)
    BY <2>1 DEF Shape, Uploading, Active
  <2> QED
    BY <2>1, <2>2, <2>3 DEF UploadInv, asked
<1>8. ASSUME NEW r \in Requests, Commit(r) PROVE UploadInv'
  <2>1. pc[r] = "commit" /\ Goto(r, "done") /\ UNCHANGED asked
    BY <1>8 DEF Commit
  <2>2. \A q \in Requests : Uploading(q)' => q # r /\ Uploading(q)
    BY <2>1, GotoFacts DEF Uploading, Active, asked, Places
  <2>3. CASE CommitUpload(r)
    <3>1. Uploading(r)
      BY <2>1, <2>3 DEF Uploading, Active, CommitUpload
    <3> QED
      BY <2>1, <2>2, <2>3, <3>1 DEF UploadInv, CommitUpload, asked
  <2>4. CASE ~CommitUpload(r)
    <3>1. UNCHANGED documents
      BY <1>8, <2>4 DEF Commit, CommitEdit, CommitArchive, CommitTriage
    <3> QED
      BY <2>1, <2>2, <3>1 DEF UploadInv, asked, documents
  <2> QED
    BY <2>3, <2>4
<1>9. CASE Next
  <2>1. PICK r \in Requests : Steps(r)
    BY <1>9, NextSteps
  <2> QED
    BY <2>1, <1>2, <1>3, <1>4, <1>5, <1>6, <1>7, <1>8, UploadBegins DEF Steps
<1> QED
  BY <1>1, <1>9

\* A document that is listed has its object in Storage, whatever fails between the
\* upload and the commit (upload_document and its compensating delete).
THEOREM DocumentsHaveObjects == Spec => []RowHasObject
<1>1. Init => UploadInv
  BY DEF Init, UploadInv, RowHasObject, Uploading, Active
<1>2. UploadInv => RowHasObject
  BY DEF UploadInv
<1> QED
  BY <1>1, <1>2, UploadStep, RequestTypes, PTL DEF Spec
-----------------------------------------------------------------------------
(* No edit of a note is lost. *)

Editing(r, n) ==
    pc[r] \in {"insert", "load", "update", "commit"} /\ op[r] = "edit" /\ target[r] = n

\* The request has inserted its version and has not committed it.
Holding(r, n) ==
    pc[r] \in {"load", "update", "commit"} /\ op[r] = "edit" /\ target[r] = n

\* One column of a version becomes another's.
Edited(old, new) ==
    \E f \in Fields : old[f] # new[f] /\ \A g \in Fields \ {f} : old[g] = new[g]

\* What a request writes is an edit of the version it loaded.
FromVersion(r, n) ==
    \E base \in Text : <<loadedVersion[r], base>> \in versions[n] /\ Edited(base, merged[r])

\* The parts of HistoryEndsInRow and NoLostEdit for one note.
History(n) ==
    /\ <<version[n], text[n]>> \in versions[n]
    /\ \A pair \in versions[n] : pair[1] \in 1 .. version[n]
    /\ \A p, q \in versions[n] : p[1] = q[1] => p = q
    /\ \A number \in 1 .. version[n] : \E pair \in versions[n] : pair[1] = number
    /\ \A p, q \in versions[n] : q[1] = p[1] + 1 => Edited(p[2], q[2])

\* The holder of a key edits the last version, and there is one holder.
Flight(n) ==
    \A r \in Requests :
        /\ Editing(r, n) => FromVersion(r, n)
        /\ Holding(r, n) =>
               /\ loadedVersion[r] = version[n]
               /\ \A q \in Requests : Holding(q, n) => q = r
               /\ pc[r] # "load" => loadedText[r] = text[n]

NotesInv == \A n \in Notes : History(n) /\ Flight(n)

LEMMA InitNotes == Init => NotesInv
<1> SUFFICES ASSUME Init, NEW n \in Notes PROVE History(n) /\ Flight(n)
  BY DEF NotesInv
<1>1. versions[n] = {<<1, Blank>>} /\ version[n] = 1 /\ text[n] = Blank
  BY DEF Init
<1>2. History(n)
  BY <1>1 DEF History
<1>3. Flight(n)
  BY DEF Init, Flight, Editing, Holding
<1> QED
  BY <1>2, <1>3

\* A step on other rows, which no request on this note notices.
LEMMA NoteKept ==
    ASSUME NotesInv, NEW n \in Notes,
           text'[n] = text[n] /\ version'[n] = version[n] /\ versions'[n] = versions[n],
           \A q \in Requests : Editing(q, n)' =>
               /\ Editing(q, n)
               /\ merged'[q] = merged[q] /\ loadedVersion'[q] = loadedVersion[q],
           \A q \in Requests : Holding(q, n)' =>
               /\ Holding(q, n)
               /\ pc'[q] # "load" => pc[q] # "load" /\ loadedText'[q] = loadedText[q]
    PROVE  History(n)' /\ Flight(n)'
<1>1. History(n) /\ Flight(n)
  BY DEF NotesInv
<1>2. History(n)'
  BY <1>1 DEF History
<1>3. ASSUME NEW q \in Requests, Editing(q, n)' PROVE FromVersion(q, n)'
  <2>1. FromVersion(q, n) /\ merged'[q] = merged[q] /\ loadedVersion'[q] = loadedVersion[q]
    BY <1>1, <1>3 DEF Flight
  <2> QED
    BY <2>1 DEF FromVersion
<1>4. ASSUME NEW q \in Requests, Holding(q, n)'
      PROVE  /\ loadedVersion'[q] = version'[n]
             /\ \A p \in Requests : Holding(p, n)' => p = q
             /\ pc'[q] # "load" => loadedText'[q] = text'[n]
  <2>1. Editing(q, n)'
    BY <1>4 DEF Holding, Editing
  <2>2. loadedVersion'[q] = loadedVersion[q] /\ Holding(q, n)
    BY <1>4, <2>1
  <2> QED
    BY <1>1, <1>4, <2>2 DEF Flight
<1> QED
  BY <1>2, <1>3, <1>4 DEF Flight

\* An edit begins from the last version.
LEMMA EditNoteFlies ==
    ASSUME Types, NotesInv, NEW r \in Requests, NEW m \in Notes, NEW f \in Fields, NEW v \in Values,
           EditNote(r, m, f, v)
    PROVE  NotesInv'
<1> USE DEF Types
<1>1. /\ Begin(r, "edit", m, "insert") /\ text[m][f] # v
      /\ merged' = [merged EXCEPT ![r] = MergeFields(text[m], f, v)]
      /\ loadedVersion' = [loadedVersion EXCEPT ![r] = version[m]]
      /\ UNCHANGED <<tables, loadedText>>
  BY DEF EditNote
<1>2. /\ pc'[r] = "insert" /\ op'[r] = "edit" /\ target'[r] = m
      /\ \A q \in Requests \ {r} : pc'[q] = pc[q] /\ op'[q] = op[q] /\ target'[q] = target[q]
  BY <1>1, BeginFacts DEF Places
<1>3. /\ merged'[r] = MergeFields(text[m], f, v) /\ loadedVersion'[r] = version[m]
      /\ \A q \in Requests \ {r} : merged'[q] = merged[q] /\ loadedVersion'[q] = loadedVersion[q]
  BY <1>1 DEF TypeOK
<1> SUFFICES ASSUME NEW n \in Notes PROVE History(n)' /\ Flight(n)'
  BY DEF NotesInv
<1>4. History(n) /\ Flight(n) /\ UNCHANGED notes
  BY <1>1 DEF NotesInv, tables
<1>5. History(n)'
  BY <1>4 DEF History, notes
<1>6. ASSUME NEW q \in Requests, Editing(q, n)' PROVE FromVersion(q, n)'
  <2>1. CASE q = r
    <3>1. n = m
      BY <1>2, <1>6, <2>1 DEF Editing
    <3>2. text[m] \in Text /\ Edited(text[m], MergeFields(text[m], f, v))
      BY <1>1 DEF Edited, MergeFields, TypeOK
    <3>3. <<version[m], text[m]>> \in versions[m]
      BY <1>4, <3>1 DEF History
    <3> QED
      BY <1>3, <1>4, <2>1, <3>1, <3>2, <3>3 DEF FromVersion, notes
  <2>2. CASE q # r
    <3>1. FromVersion(q, n)
      BY <1>2, <1>4, <1>6, <2>2 DEF Flight, Editing
    <3> QED
      BY <1>3, <1>4, <2>2, <3>1 DEF FromVersion, notes
  <2> QED
    BY <2>1, <2>2
<1>7. \A q \in Requests : Holding(q, n)' => q # r /\ Holding(q, n)
  BY <1>2 DEF Holding
<1> QED
  BY <1>1, <1>2, <1>3, <1>4, <1>5, <1>6, <1>7 DEF Flight, notes

\* The key of a version that is free is the next one, and nobody holds it.
LEMMA InsertFlies ==
    ASSUME Types, NotesInv, NEW r \in Requests, InsertVersion(r)
    PROVE  NotesInv'
<1> USE DEF Types
<1>1. /\ pc[r] = "insert" /\ Goto(r, "load") /\ UNCHANGED <<tables, asked, loaded>>
      /\ ~KeyHeld(r, target[r], loadedVersion[r] + 1)
      /\ ~KeyTaken(target[r], loadedVersion[r] + 1)
  BY DEF InsertVersion
<1>2. /\ pc'[r] = "load" /\ \A q \in Requests \ {r} : pc'[q] = pc[q]
  BY <1>1, GotoFacts DEF Places
<1> SUFFICES ASSUME NEW n \in Notes PROVE History(n)' /\ Flight(n)'
  BY DEF NotesInv
<1>3. History(n) /\ Flight(n) /\ UNCHANGED <<notes, asked, loaded>>
  BY <1>1 DEF NotesInv, tables
<1>4. History(n)'
  BY <1>3 DEF History, notes
<1>5. ASSUME NEW q \in Requests, Editing(q, n)' PROVE FromVersion(q, n)'
  <2>1. FromVersion(q, n)
    BY <1>1, <1>2, <1>3, <1>5 DEF Flight, Editing, asked
  <2> QED
    BY <1>3, <2>1 DEF FromVersion, notes, loaded
<1>6. CASE target[r] = n
  <2>1. Editing(r, n)
    BY <1>1, <1>6 DEF Editing, Shape
  <2>2. PICK base \in Text : <<loadedVersion[r], base>> \in versions[n]
    BY <1>3, <2>1 DEF Flight, FromVersion
  <2>3. loadedVersion[r] \in 1 .. version[n] /\ version[n] \in Nat
    BY <1>3, <2>2 DEF History, TypeOK
  <2>4. loadedVersion[r] = version[n]
    <3>1. SUFFICES ASSUME loadedVersion[r] # version[n] PROVE FALSE
      OBVIOUS
    <3>2. loadedVersion[r] + 1 \in 1 .. version[n]
      BY <2>3, <3>1
    <3> QED
      BY <1>1, <1>3, <1>6, <3>2 DEF History, KeyTaken
  <2>5. \A q \in Requests \ {r} : ~Holding(q, n)
    BY <1>1, <1>3, <1>6, <2>4 DEF Flight, Holding, KeyHeld
  <2>6. \A q \in Requests : Holding(q, n)' => q = r
    BY <1>1, <1>2, <2>5 DEF Holding, asked
  <2> QED
    BY <1>2, <1>3, <1>4, <1>5, <2>4, <2>6 DEF Flight, notes, loaded
<1>7. CASE target[r] # n
  <2>1. \A q \in Requests : Holding(q, n)' => q # r /\ Holding(q, n)
    BY <1>1, <1>2, <1>7 DEF Holding, asked
  <2> QED
    BY <1>2, <1>3, <1>4, <1>5, <2>1 DEF Flight, notes, loaded
<1> QED
  BY <1>6, <1>7
\* The row is loaded while its key is held.
LEMMA LoadFlies ==
    ASSUME Types, NotesInv, NEW r \in Requests, LoadAgain(r)
    PROVE  NotesInv'
<1> USE DEF Types
<1>1. /\ pc[r] = "load" /\ Goto(r, "update") /\ UNCHANGED <<tables, asked, loadedVersion>>
      /\ loadedText' = [loadedText EXCEPT ![r] = text[target[r]]]
      /\ merged' = IF target[r] \in Notes THEN merged
                   ELSE [merged EXCEPT ![r] = MergeFields(text[target[r]], field[r], value[r])]
  BY DEF LoadAgain
<1>2. pc'[r] = "update" /\ \A q \in Requests \ {r} : pc'[q] = pc[q]
  BY <1>1, GotoFacts DEF Places
<1>3. /\ loadedText'[r] = text[target[r]]
      /\ \A q \in Requests \ {r} : loadedText'[q] = loadedText[q]
      /\ \A q \in Requests : target[q] \in Notes => merged'[q] = merged[q]
  BY <1>1 DEF TypeOK
<1> SUFFICES ASSUME NEW n \in Notes PROVE History(n)' /\ Flight(n)'
  BY DEF NotesInv
<1>4. History(n) /\ Flight(n) /\ UNCHANGED <<notes, asked, loadedVersion>>
  BY <1>1 DEF NotesInv, tables
<1>5. History(n)'
  BY <1>4 DEF History, notes
<1>6. ASSUME NEW q \in Requests, Editing(q, n)' PROVE FromVersion(q, n)'
  <2>1. FromVersion(q, n) /\ merged'[q] = merged[q]
    BY <1>1, <1>2, <1>3, <1>4, <1>6 DEF Flight, Editing, asked
  <2> QED
    BY <1>4, <2>1 DEF FromVersion, notes
<1>7. \A q \in Requests : Holding(q, n)' => Holding(q, n) /\ (q = r => target[r] = n)
  BY <1>1, <1>2, <1>4 DEF Holding, asked
<1>8. ASSUME NEW q \in Requests, Holding(q, n)'
      PROVE  /\ loadedVersion'[q] = version'[n]
             /\ \A p \in Requests : Holding(p, n)' => p = q
             /\ pc'[q] # "load" => loadedText'[q] = text'[n]
  <2>1. loadedVersion'[q] = version'[n] /\ \A p \in Requests : Holding(p, n)' => p = q
    BY <1>4, <1>7, <1>8 DEF Flight, notes
  <2>2. CASE q = r
    BY <1>3, <1>4, <1>7, <1>8, <2>1, <2>2 DEF notes
  <2>3. CASE q # r
    <3>1. pc[q] # "load" => loadedText[q] = text[n]
      BY <1>4, <1>7, <1>8 DEF Flight
    <3> QED
      BY <1>2, <1>3, <1>4, <2>1, <2>3, <3>1 DEF notes
  <2> QED
    BY <2>2, <2>3
<1> QED
  BY <1>5, <1>6, <1>8 DEF Flight

\* The commit of an edit appends its version and makes the row equal to it.
LEMMA CommitNote ==
    ASSUME Types, NotesInv, NEW r \in Requests, NEW n \in Notes,
           pc[r] = "commit", Goto(r, "done"), UNCHANGED <<asked, loaded>>, CommitEdit(r),
           target[r] = n
    PROVE  History(n)' /\ Flight(n)'
<1> USE DEF Types
<1>1. History(n) /\ Flight(n) /\ op[r] = "edit"
  BY DEF NotesInv, CommitEdit
<1>2. Holding(r, n) /\ Editing(r, n)
  BY <1>1 DEF Holding, Editing
<1>3. /\ loadedVersion[r] = version[n] /\ loadedText[r] = text[n]
      /\ \A q \in Requests : Holding(q, n) => q = r
  BY <1>1, <1>2 DEF Flight
<1>4. version[n] \in Nat /\ text[n] \in Text /\ merged[r] \in Text
      /\ versions[n] \subseteq Nat \X Text
  BY DEF TypeOK
<1>5. Written(r) = merged[r]
  <2>1. \A f \in Fields : Written(r)[f] = merged[r][f]
    BY <1>3 DEF Written
  <2>2. Written(r) = [f \in Fields |-> Written(r)[f]] /\ merged[r] = [f \in Fields |-> merged[r][f]]
    BY <1>4 DEF Written
  <2> QED
    BY <2>1, <2>2
<1>6. /\ text'[n] = merged[r] /\ version'[n] = version[n] + 1
      /\ versions'[n] = versions[n] \cup {<<version[n] + 1, merged[r]>>}
  BY <1>3, <1>5 DEF CommitEdit, TypeOK
<1>7. Edited(text[n], merged[r])
  <2>1. PICK base \in Text : <<version[n], base>> \in versions[n] /\ Edited(base, merged[r])
    BY <1>1, <1>2, <1>3 DEF Flight, FromVersion
  <2>2. <<version[n], base>> = <<version[n], text[n]>>
    BY <1>1, <2>1 DEF History
  <2> QED
    BY <2>1, <2>2
<1>8. History(n)'
  <2>1. \A pair \in versions[n] : pair[1] \in 1 .. version[n]
    BY <1>1 DEF History
  <2>2. \A pair \in versions'[n] : pair[1] \in 1 .. version'[n]
    BY <1>4, <1>6, <2>1
  <2>3. \A p, q \in versions'[n] : p[1] = q[1] => p = q
    BY <1>1, <1>4, <1>6, <2>1 DEF History
  <2>4. \A number \in 1 .. version'[n] : \E pair \in versions'[n] : pair[1] = number
    <3> SUFFICES ASSUME NEW number \in 1 .. version'[n]
                 PROVE  \E pair \in versions'[n] : pair[1] = number
      OBVIOUS
    <3>1. CASE number = version[n] + 1
      <4>1. <<version[n] + 1, merged[r]>>[1] = number
        BY <3>1
      <4>2. <<version[n] + 1, merged[r]>> \in versions'[n]
        BY <1>6
      <4> QED
        BY <4>1, <4>2
    <3>2. CASE number # version[n] + 1
      <4>1. number \in 1 .. version[n]
        BY <1>4, <1>6, <3>2
      <4> QED
        BY <1>1, <1>6, <4>1 DEF History
    <3> QED
      BY <3>1, <3>2
  <2>5. ASSUME NEW p \in versions'[n], NEW q \in versions'[n], q[1] = p[1] + 1
        PROVE  Edited(p[2], q[2])
    <3>1. CASE q \in versions[n]
      <4>1. p \in versions[n]
        BY <1>4, <1>6, <2>1, <2>5, <3>1
      <4> QED
        BY <1>1, <2>5, <3>1, <4>1 DEF History
    <3>2. CASE q \notin versions[n]
      <4>1. q = <<version[n] + 1, merged[r]>>
        BY <1>6, <3>2
      <4>2. p[1] = version[n] /\ p \in versions[n]
        BY <1>4, <1>6, <2>5, <4>1
      <4>3. p = <<version[n], text[n]>>
        BY <1>1, <4>2 DEF History
      <4> QED
        BY <1>7, <4>1, <4>3
    <3> QED
      BY <3>1, <3>2
  <2> QED
    BY <1>6, <2>2, <2>3, <2>4, <2>5 DEF History
<1>9. pc'[r] = "done" /\ \A q \in Requests \ {r} : pc'[q] = pc[q]
  BY GotoFacts DEF Places
<1>10. \A q \in Requests : ~Holding(q, n)'
  BY <1>3, <1>9 DEF Holding, asked
<1>11. ASSUME NEW q \in Requests, Editing(q, n)' PROVE FromVersion(q, n)'
  <2>1. FromVersion(q, n)
    BY <1>1, <1>9, <1>11 DEF Flight, Editing, asked
  <2> QED
    BY <1>6, <2>1 DEF FromVersion, loaded
<1> QED
  BY <1>8, <1>10, <1>11 DEF Flight

LEMMA CommitFlies ==
    ASSUME Types, NotesInv, NEW r \in Requests, Commit(r)
    PROVE  NotesInv'
<1> USE DEF Types
<1> SUFFICES ASSUME NEW n \in Notes PROVE History(n)' /\ Flight(n)'
  BY DEF NotesInv
<1>1. pc[r] = "commit" /\ Goto(r, "done") /\ UNCHANGED <<asked, loaded>>
  BY DEF Commit
<1>2. pc'[r] = "done" /\ \A q \in Requests \ {r} : pc'[q] = pc[q]
  BY <1>1, GotoFacts DEF Places
<1>3. CASE CommitEdit(r) /\ target[r] = n
  BY <1>1, <1>3, CommitNote
<1>4. CASE ~(CommitEdit(r) /\ target[r] = n)
  <2>1. text'[n] = text[n] /\ version'[n] = version[n] /\ versions'[n] = versions[n]
    BY <1>4 DEF Commit, CommitEdit, CommitArchive, CommitTriage, CommitUpload, notes, TypeOK
  <2>2. \A q \in Requests : Editing(q, n)' =>
            /\ Editing(q, n)
            /\ merged'[q] = merged[q] /\ loadedVersion'[q] = loadedVersion[q]
    BY <1>1, <1>2 DEF Editing, asked, loaded
  <2>3. \A q \in Requests : Holding(q, n)' =>
            /\ Holding(q, n)
            /\ pc'[q] # "load" => pc[q] # "load" /\ loadedText'[q] = loadedText[q]
    BY <1>1, <1>2 DEF Holding, asked, loaded
  <2> QED
    BY <2>1, <2>2, <2>3, NoteKept
<1> QED
  BY <1>3, <1>4

\* Steps that move a request without touching a note, its key or its text.
Elsewhere(r) ==
    /\ UNCHANGED notes
    /\ \A q \in Requests \ {r} :
           /\ pc'[q] = pc[q] /\ op'[q] = op[q] /\ target'[q] = target[q]
           /\ merged'[q] = merged[q] /\ loadedVersion'[q] = loadedVersion[q]
           /\ loadedText'[q] = loadedText[q]
    /\ \A n \in Notes : Editing(r, n)' =>
           /\ Editing(r, n) /\ merged'[r] = merged[r] /\ loadedVersion'[r] = loadedVersion[r]
           /\ loadedText'[r] = loadedText[r]
    /\ \A n \in Notes : Holding(r, n)' =>
           /\ Holding(r, n)
           /\ pc'[r] # "load" => pc[r] # "load"

LEMMA ElsewhereKeeps ==
    ASSUME NotesInv, NEW r \in Requests, Elsewhere(r) PROVE NotesInv'
<1> SUFFICES ASSUME NEW n \in Notes PROVE History(n)' /\ Flight(n)'
  BY DEF NotesInv
<1>1. text'[n] = text[n] /\ version'[n] = version[n] /\ versions'[n] = versions[n]
  BY DEF Elsewhere, notes
<1>2. \A q \in Requests : Holding(q, n)' => Editing(q, n)'
  BY DEF Holding, Editing
<1>3. \A q \in Requests : Editing(q, n)' =>
          /\ Editing(q, n)
          /\ merged'[q] = merged[q] /\ loadedVersion'[q] = loadedVersion[q]
  BY DEF Elsewhere, Editing
<1>4. \A q \in Requests : Holding(q, n)' =>
          /\ Holding(q, n)
          /\ pc'[q] # "load" => pc[q] # "load" /\ loadedText'[q] = loadedText[q]
  BY <1>2 DEF Elsewhere, Holding
<1> QED
  BY <1>1, <1>3, <1>4, NoteKept
\* A request that begins on another row than a note.
LEMMA BeginElsewhere ==
    ASSUME Types, NEW r \in Requests, NEW o \in Ops, NEW row \in Rows, NEW place \in Places,
           Begin(r, o, row, place), o # "edit" \/ row \notin Notes,
           UNCHANGED <<notes, merged, loadedVersion, loadedText>>
    PROVE  Elsewhere(r)
<1>1. /\ op'[r] = o /\ target'[r] = row
      /\ \A q \in Requests \ {r} : pc'[q] = pc[q] /\ op'[q] = op[q] /\ target'[q] = target[q]
  BY BeginFacts DEF Types
<1>2. \A n \in Notes : ~Editing(r, n)' /\ ~Holding(r, n)'
  BY <1>1 DEF Editing, Holding
<1> QED
  BY <1>1, <1>2 DEF Elsewhere

LEMMA NotesStep == ASSUME Types, NotesInv, [Next]_vars PROVE NotesInv'
<1> USE DEF Types
<1>1. CASE UNCHANGED vars
  <2>1. \A n \in Notes : History(n)' /\ Flight(n)'
    BY <1>1, NoteKept DEF Editing, Holding, vars, tables, notes, asked, loaded
  <2> QED
    BY <2>1 DEF NotesInv
<1>2. ASSUME NEW r \in Requests, Moves(r) PROVE NotesInv'
  <2>1. CASE InsertVersion(r)
    BY <2>1, InsertFlies
  <2>2. CASE ~InsertVersion(r)
    <3>1. /\ UNCHANGED <<tables, asked, loaded>>
          /\ \A q \in Requests \ {r} : pc'[q] = pc[q]
          /\ \/ pc[r] \notin {"new", "done"} /\ pc'[r] = "done"
             \/ pc[r] = "insert" /\ pc'[r] = "load"
             \/ pc[r] = "update" /\ pc'[r] = "commit"
             \/ pc[r] = "persist" /\ pc'[r] = "commit"
      BY <1>2, MoveFacts
    <3>2. pc'[r] # "load"
      <4>1. PICK place \in Places \ {"load"} : Goto(r, place)
        BY <1>2, <2>2 DEF Moves, Abort, InsertRefused, UpdateRow, UpdateRefused, PersistDocument, Places
      <4> QED
        BY <4>1, GotoFacts
    <3>3. pc[r] = "persist" => op[r] = "upload"
      BY DEF Shape
    <3>4. Elsewhere(r)
      BY <3>1, <3>2, <3>3 DEF Elsewhere, Editing, Holding, tables, asked, loaded
    <3> QED
      BY <3>4, ElsewhereKeeps
  <2> QED
    BY <2>1, <2>2
<1>3. ASSUME NEW r \in Requests, NEW f \in Fields, NEW v \in Values, NEW d \in Documents,
             EditDocument(r, d, f, v)
      PROVE  NotesInv'
  BY <1>3, BeginElsewhere, ElsewhereKeeps DEF EditDocument, Places, tables, loaded
<1>4. ASSUME NEW r \in Requests, NEW rec \in Records, Archive(r, rec) PROVE NotesInv'
  BY <1>4, BeginElsewhere, ElsewhereKeeps DEF Archive, Places, tables, loaded
<1>5. ASSUME NEW r \in Requests, NEW o \in {"acknowledge", "dismiss"}, NEW a \in Alerts,
             Triage(r, o, a)
      PROVE  NotesInv'
  <2>1. UNCHANGED <<notes, merged, loadedText>> /\ Begin(r, o, a, "update")
    BY <1>5 DEF Triage, tables
  <2>2. UNCHANGED loadedVersion
    BY <1>5 DEF Triage
  <2> QED
    BY <2>1, <2>2, BeginElsewhere, ElsewhereKeeps DEF Places
<1>6. ASSUME NEW r \in Requests, NEW d \in Documents, UploadObject(r, d) \/ UploadFails(r, d)
      PROVE  NotesInv'
  <2>1. PICK place \in {"persist", "done"} : Begin(r, "upload", d, place)
    BY <1>6 DEF UploadObject, UploadFails
  <2>2. UNCHANGED <<notes, merged, loadedVersion, loadedText>>
    BY <1>6 DEF UploadObject, UploadFails, loaded
  <2> QED
    BY <2>1, <2>2, BeginElsewhere, ElsewhereKeeps DEF Places
<1>7. ASSUME NEW r \in Requests, PersistFails(r) PROVE NotesInv'
  <2>1. Goto(r, "done") /\ UNCHANGED <<notes, asked, loaded>>
    BY <1>7 DEF PersistFails
  <2>2. pc'[r] = "done" /\ \A q \in Requests \ {r} : pc'[q] = pc[q]
    BY <2>1, GotoFacts DEF Places
  <2>3. Elsewhere(r)
    BY <2>1, <2>2 DEF Elsewhere, Editing, Holding, asked, loaded
  <2> QED
    BY <2>3, ElsewhereKeeps
<1>8. CASE Next
  <2>1. PICK r \in Requests : Steps(r)
    BY <1>8, NextSteps
  <2> QED
    BY <2>1, <1>2, <1>3, <1>4, <1>5, <1>6, <1>7, EditNoteFlies, LoadFlies, CommitFlies DEF Steps
<1> QED
  BY <1>1, <1>8

LEMMA NotesImply == ASSUME Types, NotesInv PROVE HistoryEndsInRow /\ NoLostEdit
<1> USE DEF Types
<1>1. HistoryEndsInRow
  <2> SUFFICES ASSUME NEW n \in Notes
      PROVE /\ <<version[n], text[n]>> \in versions[n]
            /\ \A pair \in versions[n] : pair[1] \in 1 .. version[n]
            /\ \A number \in 1 .. version[n], p, q \in versions[n] :
                   p[1] = number /\ q[1] = number => p = q
            /\ \A number \in 1 .. version[n] : \E pair \in versions[n] : pair[1] = number
    BY DEF HistoryEndsInRow
  <2>1. History(n)
    BY DEF NotesInv
  <2> QED
    BY <2>1 DEF History
<1>2. NoLostEdit
  <2> SUFFICES ASSUME NEW n \in Notes, NEW p \in versions[n], NEW q \in versions[n],
                      q[1] = p[1] + 1
               PROVE  \E f \in Fields :
                          p[2][f] # q[2][f] /\ \A g \in Fields \ {f} : p[2][g] = q[2][g]
    BY DEF NoLostEdit
  <2>1. Edited(p[2], q[2])
    BY DEF NotesInv, History
  <2> QED
    BY <2>1 DEF Edited
<1> QED
  BY <1>1, <1>2

\* The versions of a note are numbered without a gap and end in the live row, and each
\* is an edit of the one before it, however many requests overlap (update_note and the
\* unique index of research_note_version).
THEOREM NoEditIsLost == Spec => [](HistoryEndsInRow /\ NoLostEdit)
<1> QED
  BY InitNotes, InitTypes, NotesStep, NotesImply, RequestTypes, PTL DEF Spec

-----------------------------------------------------------------------------
(* A dismissal is final. *)

Triaging(r) == Active(r) /\ op[r] \in {"acknowledge", "dismiss"}

\* The columns of a dismissal go with the status; a row that was loaded dismissed still
\* is; a request about to commit has the lock on its row, so what its UPDATE checked
\* stands.
AlertInv ==
    /\ \A a \in Alerts : status[a] = "dismissed" <=> a \in dismissed
    /\ \A r \in Requests : Triaging(r) /\ loadedStatus[r] = "dismissed" =>
           status[target[r]] = "dismissed"
    /\ \A r \in Requests : pc[r] = "commit" => CheckHolds(r)
    /\ \A r, q \in Requests :
           pc[r] = "commit" /\ pc[q] = "commit" /\ target[r] = target[q] => r = q

\* A step that leaves the alerts alone and lets nobody lock a row.
LEMMA AlertsKept ==
    ASSUME AlertInv, UNCHANGED alerts,
           \A q \in Requests : Triaging(q)' =>
               Triaging(q) /\ target'[q] = target[q] /\ loadedStatus'[q] = loadedStatus[q],
           \A q \in Requests : pc'[q] = "commit" =>
               /\ pc[q] = "commit"
               /\ op'[q] = op[q] /\ target'[q] = target[q] /\ loadedStatus'[q] = loadedStatus[q]
    PROVE  AlertInv'
BY DEF AlertInv, alerts, CheckHolds, DismissedAfter, StatusAfter, NewStatus

\* A request that begins.
LEMMA AlertsBegin ==
    ASSUME Types, AlertInv, NEW r \in Requests, NEW o \in Ops, NEW row \in Rows,
           NEW place \in Places \ {"commit"}, Begin(r, o, row, place), UNCHANGED alerts,
           \A q \in Requests \ {r} : loadedStatus'[q] = loadedStatus[q],
           o \in {"acknowledge", "dismiss"} => loadedStatus'[r] = status[row]
    PROVE  AlertInv'
<1>1. /\ pc'[r] = place /\ op'[r] = o /\ target'[r] = row
      /\ \A q \in Requests \ {r} : pc'[q] = pc[q] /\ op'[q] = op[q] /\ target'[q] = target[q]
  BY BeginFacts DEF Types
<1>2. \A q \in Requests : Triaging(q)' /\ loadedStatus'[q] = "dismissed" =>
          status[target'[q]] = "dismissed"
  BY <1>1 DEF AlertInv, Triaging, Active
<1>3. \A q \in Requests : pc'[q] = "commit" =>
          /\ pc[q] = "commit"
          /\ op'[q] = op[q] /\ target'[q] = target[q] /\ loadedStatus'[q] = loadedStatus[q]
  BY <1>1
<1> QED
  BY <1>2, <1>3 DEF AlertInv, alerts, CheckHolds, DismissedAfter, StatusAfter, NewStatus

\* A request that takes the lock of its row.
LEMMA AlertsLock ==
    ASSUME Types, UploadInv, AlertInv, NEW r \in Requests, UpdateRow(r) \/ PersistDocument(r)
    PROVE  AlertInv'
<1> USE DEF Types
<1>1. /\ Goto(r, "commit") /\ pc[r] \in {"update", "persist"} /\ UNCHANGED <<tables, asked, loaded>>
  BY DEF UpdateRow, PersistDocument
<1>2. pc'[r] = "commit" /\ \A q \in Requests \ {r} : pc'[q] = pc[q]
  BY <1>1, GotoFacts DEF Places
<1>3. CheckHolds(r) /\ \A q \in Requests \ {r} : pc[q] = "commit" => target[q] # target[r]
  <2>1. CASE UpdateRow(r)
    BY <2>1 DEF UpdateRow, Locked
  <2>2. CASE PersistDocument(r)
    <3>1. op[r] = "upload" /\ Uploading(r)
      BY <2>2 DEF PersistDocument, Shape, Uploading, Active
    <3> QED
      BY <3>1 DEF UploadInv, CheckHolds
  <2> QED
    BY <2>1, <2>2
<1>4. \A q \in Requests : Triaging(q)' => Triaging(q)
  BY <1>1, <1>2 DEF Triaging, Active, asked
<1>5. UNCHANGED <<alerts, target, op, loadedStatus>>
  BY <1>1 DEF tables, asked, loaded
<1>6. \A q \in Requests : CheckHolds(q) => CheckHolds(q)'
  BY <1>5 DEF CheckHolds, DismissedAfter, StatusAfter, NewStatus, alerts
<1> QED
  BY <1>2, <1>3, <1>4, <1>5, <1>6 DEF AlertInv, alerts

\* The commit of an acknowledgement or a dismissal.
LEMMA TriageCommits ==
    ASSUME Types, AlertInv, NEW r \in Requests, pc[r] = "commit", Goto(r, "done"),
           UNCHANGED <<asked, loaded>>, CommitTriage(r)
    PROVE  /\ AlertInv'
           /\ \A a \in Alerts : status[a] = "dismissed" => status'[a] = "dismissed"
<1> USE DEF Types
<1>1. pc'[r] = "done" /\ \A q \in Requests \ {r} : pc'[q] = pc[q]
  BY GotoFacts DEF Places
<1>2. /\ Triaging(r) /\ target[r] \in Alerts /\ CheckHolds(r)
  BY DEF Triaging, Active, Shape, AlertInv, CommitTriage
<1>3. /\ status'[target[r]] = StatusAfter(r)
      /\ \A a \in Alerts \ {target[r]} : status'[a] = status[a]
      /\ dismissed' = DismissedAfter(r)
  BY <1>2 DEF CommitTriage, TypeOK
<1>4. target[r] \in DismissedAfter(r) => StatusAfter(r) = "dismissed"
  BY <1>2 DEF CheckHolds, Triaging
<1>5. StatusAfter(r) = "dismissed" => target[r] \in DismissedAfter(r)
  BY <1>2 DEF StatusAfter, DismissedAfter, NewStatus, AlertInv, Triaging
<1>6. \A a \in Alerts \ {target[r]} : a \in dismissed' <=> a \in dismissed
  BY <1>3 DEF DismissedAfter
<1>7. \A a \in Alerts : status'[a] = "dismissed" <=> a \in dismissed'
  BY <1>3, <1>4, <1>5, <1>6 DEF AlertInv
<1>8. \A a \in Alerts : status[a] = "dismissed" => status'[a] = "dismissed"
  <2>1. dismissed \subseteq dismissed'
    BY <1>3 DEF DismissedAfter
  <2> QED
    BY <1>7, <2>1 DEF AlertInv
<1>9. \A q \in Requests : Triaging(q)' /\ loadedStatus'[q] = "dismissed" =>
          status'[target'[q]] = "dismissed"
  <2> SUFFICES ASSUME NEW q \in Requests, Triaging(q)', loadedStatus'[q] = "dismissed"
               PROVE  status'[target'[q]] = "dismissed"
    OBVIOUS
  <2>1. Triaging(q) /\ target'[q] = target[q] /\ loadedStatus[q] = "dismissed"
    BY <1>1 DEF Triaging, Active, asked, loaded
  <2>2. target[q] \in Alerts /\ status[target[q]] = "dismissed"
    BY <2>1 DEF AlertInv, Shape, Triaging
  <2> QED
    BY <1>8, <2>1, <2>2
<1>10. ASSUME NEW q \in Requests, pc'[q] = "commit" PROVE CheckHolds(q)'
  <2>1. q # r /\ pc[q] = "commit" /\ CheckHolds(q) /\ target[q] # target[r]
    BY <1>1, <1>10 DEF AlertInv
  <2>2. CASE op[q] \in {"acknowledge", "dismiss"}
    <3>1. target[q] \in Alerts
      BY <2>1, <2>2 DEF Shape, Active
    <3>2. status'[target[q]] = status[target[q]]
      BY <1>3, <2>1, <3>1
    <3>3. target[q] \in dismissed' <=> target[q] \in dismissed
      BY <1>6, <2>1, <3>1
    <3> QED
      BY <2>1, <3>2, <3>3 DEF CheckHolds, StatusAfter, DismissedAfter, NewStatus, asked, loaded
  <2>3. CASE op[q] \notin {"acknowledge", "dismiss"}
    BY <2>3 DEF CheckHolds, asked
  <2> QED
    BY <2>2, <2>3
<1>11. \A p, q \in Requests :
           pc'[p] = "commit" /\ pc'[q] = "commit" /\ target'[p] = target'[q] => p = q
  BY <1>1 DEF AlertInv, asked
<1> QED
  BY <1>7, <1>8, <1>9, <1>10, <1>11 DEF AlertInv
LEMMA InitAlerts == Init => AlertInv
BY DEF Init, AlertInv, Triaging, Active

LEMMA AlertStep ==
    ASSUME Types, UploadInv, AlertInv, [Next]_vars
    PROVE  AlertInv' /\ \A a \in Alerts : status[a] = "dismissed" => status'[a] = "dismissed"
<1> USE DEF Types
<1>1. CASE UNCHANGED vars
  <2>1. AlertInv'
    BY <1>1, AlertsKept DEF Triaging, Active, vars, tables, asked, loaded
  <2> QED
    BY <1>1, <2>1 DEF vars, tables, alerts
<1>2. ASSUME NEW r \in Requests, Moves(r) PROVE AlertInv' /\ UNCHANGED alerts
  <2>1. /\ UNCHANGED <<tables, asked, loaded>>
        /\ pc' \in [Requests -> Places]
        /\ \A q \in Requests \ {r} : pc'[q] = pc[q]
        /\ \/ pc[r] \notin {"new", "done"} /\ pc'[r] = "done"
           \/ pc[r] = "insert" /\ pc'[r] = "load"
           \/ pc[r] = "update" /\ pc'[r] = "commit"
           \/ pc[r] = "persist" /\ pc'[r] = "commit"
    BY <1>2, MoveFacts
  <2>2. UNCHANGED alerts
    BY <2>1 DEF tables
  <2>3. CASE UpdateRow(r) \/ PersistDocument(r)
    BY <2>2, <2>3, AlertsLock
  <2>4. CASE ~(UpdateRow(r) \/ PersistDocument(r))
    <3>1. pc'[r] # "commit"
      <4>1. PICK place \in Places \ {"commit"} : Goto(r, place)
        BY <1>2, <2>4 DEF Moves, Abort, InsertVersion, InsertRefused, UpdateRefused, Places
      <4> QED
        BY <4>1, GotoFacts
    <3>2. \A q \in Requests : Triaging(q)' =>
              Triaging(q) /\ target'[q] = target[q] /\ loadedStatus'[q] = loadedStatus[q]
      BY <2>1, <3>1 DEF Triaging, Active, asked, loaded
    <3>3. \A q \in Requests : pc'[q] = "commit" =>
              /\ pc[q] = "commit"
              /\ op'[q] = op[q] /\ target'[q] = target[q] /\ loadedStatus'[q] = loadedStatus[q]
      BY <2>1, <3>1 DEF asked, loaded
    <3> QED
      BY <2>2, <3>2, <3>3, AlertsKept
  <2> QED
    BY <2>3, <2>4
<1>3. ASSUME NEW r \in Requests, NEW f \in Fields, NEW v \in Values,
             (\E n \in Notes : EditNote(r, n, f, v)) \/ (\E d \in Documents : EditDocument(r, d, f, v))
      PROVE  AlertInv' /\ UNCHANGED alerts
  <2>1. PICK row \in Records, place \in {"insert", "load"} :
            Begin(r, "edit", row, place) /\ UNCHANGED alerts /\ UNCHANGED loadedStatus
    BY <1>3 DEF EditNote, EditDocument, tables, loaded
  <2> QED
    BY <2>1, AlertsBegin DEF Places
<1>4. ASSUME NEW r \in Requests, NEW rec \in Records, Archive(r, rec)
      PROVE  AlertInv' /\ UNCHANGED alerts
  <2>1. Begin(r, "archive", rec, "update") /\ UNCHANGED alerts /\ UNCHANGED loadedStatus
    BY <1>4 DEF Archive, tables, loaded
  <2> QED
    BY <2>1, AlertsBegin DEF Places
<1>5. ASSUME NEW r \in Requests, NEW o \in {"acknowledge", "dismiss"}, NEW a \in Alerts,
             Triage(r, o, a)
      PROVE  AlertInv' /\ UNCHANGED alerts
  <2>1. Begin(r, o, a, "update") /\ UNCHANGED alerts
    BY <1>5 DEF Triage, tables
  <2>2. loadedStatus'[r] = status[a] /\ \A q \in Requests \ {r} : loadedStatus'[q] = loadedStatus[q]
    BY <1>5 DEF Triage, TypeOK
  <2> QED
    BY <2>1, <2>2, AlertsBegin DEF Places
<1>6. ASSUME NEW r \in Requests, NEW d \in Documents, UploadObject(r, d) \/ UploadFails(r, d)
      PROVE  AlertInv' /\ UNCHANGED alerts
  <2>1. PICK place \in {"persist", "done"} : Begin(r, "upload", d, place)
    BY <1>6 DEF UploadObject, UploadFails
  <2>2. UNCHANGED alerts /\ UNCHANGED loadedStatus
    BY <1>6 DEF UploadObject, UploadFails, loaded
  <2> QED
    BY <2>1, <2>2, AlertsBegin DEF Places
<1>7. ASSUME NEW r \in Requests, LoadAgain(r) \/ PersistFails(r)
      PROVE  AlertInv' /\ UNCHANGED alerts
  <2>1. PICK place \in {"update", "done"} :
            Goto(r, place) /\ pc[r] \in {"load", "persist"} /\ UNCHANGED <<alerts, asked>>
    BY <1>7 DEF LoadAgain, PersistFails, tables
  <2>2. UNCHANGED loadedStatus
    BY <1>7 DEF LoadAgain, PersistFails, loaded
  <2>3. pc'[r] = place /\ \A q \in Requests \ {r} : pc'[q] = pc[q]
    BY <2>1, GotoFacts DEF Places
  <2>4. \A q \in Requests : Triaging(q)' =>
            Triaging(q) /\ target'[q] = target[q] /\ loadedStatus'[q] = loadedStatus[q]
    BY <2>1, <2>2, <2>3 DEF Triaging, Active, asked
  <2>5. \A q \in Requests : pc'[q] = "commit" =>
            /\ pc[q] = "commit"
            /\ op'[q] = op[q] /\ target'[q] = target[q] /\ loadedStatus'[q] = loadedStatus[q]
    BY <2>1, <2>2, <2>3 DEF asked
  <2> QED
    BY <2>1, <2>4, <2>5, AlertsKept
<1>8. ASSUME NEW r \in Requests, Commit(r)
      PROVE  AlertInv' /\ \A a \in Alerts : status[a] = "dismissed" => status'[a] = "dismissed"
  <2>1. pc[r] = "commit" /\ Goto(r, "done") /\ UNCHANGED <<asked, loaded>>
    BY <1>8 DEF Commit
  <2>2. CASE CommitTriage(r)
    BY <2>1, <2>2, TriageCommits
  <2>3. CASE ~CommitTriage(r)
    <3>1. UNCHANGED alerts
      BY <1>8, <2>3 DEF Commit, CommitEdit, CommitArchive, CommitUpload
    <3>2. pc'[r] = "done" /\ \A q \in Requests \ {r} : pc'[q] = pc[q]
      BY <2>1, GotoFacts DEF Places
    <3>3. \A q \in Requests : Triaging(q)' =>
              Triaging(q) /\ target'[q] = target[q] /\ loadedStatus'[q] = loadedStatus[q]
      BY <2>1, <3>2 DEF Triaging, Active, asked, loaded
    <3>4. \A q \in Requests : pc'[q] = "commit" =>
              /\ pc[q] = "commit"
              /\ op'[q] = op[q] /\ target'[q] = target[q] /\ loadedStatus'[q] = loadedStatus[q]
      BY <2>1, <3>2 DEF asked, loaded
    <3>5. AlertInv'
      BY <3>1, <3>3, <3>4, AlertsKept
    <3> QED
      BY <3>1, <3>5 DEF alerts
  <2> QED
    BY <2>2, <2>3
<1>9. CASE Next
  <2>1. PICK r \in Requests : Steps(r)
    BY <1>9, NextSteps
  <2>2. AlertInv' /\ (UNCHANGED alerts
            \/ \A a \in Alerts : status[a] = "dismissed" => status'[a] = "dismissed")
    BY <2>1, <1>2, <1>3, <1>4, <1>5, <1>6, <1>7, <1>8 DEF Steps
  <2> QED
    BY <2>2 DEF alerts
<1> QED
  BY <1>1, <1>9

\* A dismissed alert stays dismissed, although an acknowledgement sets its status from
\* a row that may be stale (acknowledge_alert and the CHECK constraint of alert_event).
THEOREM DismissalsAreFinal == Spec => DismissalIsFinal
<1>1. Init => UploadInv
  BY DEF Init, UploadInv, RowHasObject, Uploading, Active
<1>2. Types /\ UploadInv /\ AlertInv /\ [Next]_vars =>
          [\A a \in Alerts : status[a] = "dismissed" => status'[a] = "dismissed"]_alerts
  BY AlertStep
<1>3. Types /\ UploadInv /\ AlertInv /\ [Next]_vars => AlertInv'
  BY AlertStep
<1> QED
  BY <1>1, <1>2, <1>3, InitAlerts, UploadStep, RequestTypes, PTL DEF Spec, DismissalIsFinal
=============================================================================
