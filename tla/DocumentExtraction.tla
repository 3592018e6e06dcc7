------------------------- MODULE DocumentExtraction -------------------------
(***************************************************************************)
(* The document-extraction queue: the table document_extraction, the rows  *)
(* of document_chunk it owns, the artifacts it leaves in Storage, the API  *)
(* request that enqueues work and the worker invocations that do it        *)
(* (backend/app/services/document_extraction_service.py and                *)
(* backend/app/repositories/document_extraction_repository.py).            *)
(*                                                                         *)
(* One step is one committed database transaction, one Storage call, or    *)
(* one read whose result the worker keeps across other steps.  The last    *)
(* transaction of process_one (chunks, mark_completed, promote_current)    *)
(* takes two steps, because other sessions run between its SELECT and its  *)
(* COMMIT; the row locks it holds in between are LockedBy.                 *)
(*                                                                         *)
(* Abstractions.  A row's id is its position in created_at order.  Time is *)
(* the flag stale[e]: started_at is more than                              *)
(* STALE_PROCESSING_AFTER_SECONDS in the past.  The chunks of a row are    *)
(* the one field the code copies into them from elsewhere, their           *)
(* confidentiality; the PDF library is a function of the document (text,   *)
(* scanned or corrupt), because source bytes are never rewritten.  Audit   *)
(* events, spans and error texts are left out.                             *)
(***************************************************************************)
EXTENDS Naturals, FiniteSets

CONSTANTS
    TextDocs,       \* documents whose PDF yields text that validate_chunks accepts
    ScannedDocs,    \* documents detect_needs_ocr recognises as image-only
    CorruptDocs,    \* documents that raise ExtractionFailure
    Classes,        \* confidentiality classifications
    Workers,        \* invocations of the worker script that may overlap
    MaxAttempts,    \* MAX_EXTRACTION_ATTEMPTS
    MaxExtractions, \* bound: rows ever created
    Overwrite,      \* does Storage accept an upload to a key that is taken?
    Faults          \* what may go wrong: any of FaultKinds

FaultKinds == {"crash", "storage", "database", "slow"}

ASSUME WorkersAssumption == IsFiniteSet(Workers)
ASSUME MaxAttemptsAssumption == MaxAttempts \in Nat \ {0}
ASSUME MaxExtractionsAssumption == MaxExtractions \in Nat
ASSUME OverwriteAssumption == Overwrite \in BOOLEAN
ASSUME FaultsAssumption == Faults \subseteq FaultKinds
ASSUME ContentAssumption ==
    /\ TextDocs \cap ScannedDocs = {}
    /\ TextDocs \cap CorruptDocs = {}
    /\ ScannedDocs \cap CorruptDocs = {}

Docs == TextDocs \cup ScannedDocs \cup CorruptDocs
Extractions == 1 .. MaxExtractions

NoDoc == "no document"
NoClass == "no chunks"
ASSUME NoDocAssumption == NoDoc \notin Docs
ASSUME NoClassAssumption == NoClass \notin Classes

VARIABLES
    docOf,      \* research_document_id of each row, NoDoc before it exists
    status,     \* document_extraction.status, "absent" before the row exists
    attempts,   \* attempt_count
    stale,      \* started_at < now - STALE_PROCESSING_AFTER_SECONDS
    isCurrent,  \* is_current
    chunks,     \* confidentiality on the row's committed chunks, or NoClass
    objects,    \* rows whose artifact key is taken in Storage
    docClass,   \* research_document.confidentiality_classification
    archived,   \* research_document.is_archived, as the set of archived documents
    pc,         \* where each worker invocation is
    job,        \* the row it claimed, 0 before it has one
    copied,     \* the classification it read off the document
    demote,     \* current rows its open transaction has demoted
    transient,  \* was the exception it caught a StorageError?
    attempt,    \* the attempt count it holds
    faults      \* history: the attempts on each row that a fault struck

rowVars == <<docOf, status, attempts, stale, isCurrent>>
docVars == <<docClass, archived>>
localVars == <<job, copied, demote, transient, attempt>>
vars == <<docOf, status, attempts, stale, isCurrent, chunks, objects, docClass,
          archived, pc, job, copied, demote, transient, attempt, faults>>

Terminal == {"completed", "failed", "needs_ocr"}
Statuses == {"absent", "pending", "processing"} \cup Terminal

Pcs == {"idle", "claim", "read", "download", "extract", "upload", "persist",
        "commit", "error", "fail"}

Init ==
    /\ docOf = [e \in Extractions |-> NoDoc]
    /\ status = [e \in Extractions |-> "absent"]
    /\ attempts = [e \in Extractions |-> 0]
    /\ stale = [e \in Extractions |-> FALSE]
    /\ isCurrent = [e \in Extractions |-> FALSE]
    /\ chunks = [e \in Extractions |-> NoClass]
    /\ objects = {}
    /\ docClass \in [Docs -> Classes]
    /\ archived = {}
    /\ pc = [w \in Workers |-> "idle"]
    /\ job = [w \in Workers |-> 0]
    /\ copied = [w \in Workers |-> NoClass]
    /\ demote = [w \in Workers |-> {}]
    /\ transient = [w \in Workers |-> FALSE]
    /\ attempt = [w \in Workers |-> 0]
    /\ faults = [e \in Extractions |-> {}]

-----------------------------------------------------------------------------
(* API requests on the document and its queue.                             *)

\* POST /research-documents/{id}/process: enqueue_extraction, committed by get_db.
EnqueueExtraction(d) ==
    /\ d \notin archived
    /\ \E e \in Extractions :
         /\ status[e] = "absent"
         /\ \A f \in Extractions : f < e => status[f] # "absent"
         /\ docOf' = [docOf EXCEPT ![e] = d]
         /\ status' = [status EXCEPT ![e] = "pending"]
    /\ UNCHANGED <<attempts, stale, isCurrent, chunks, objects, docVars, pc, localVars,
                   faults>>

\* update_metadata: refused once the document is archived.
UpdateMetadata(d, c) ==
    /\ d \notin archived
    /\ c # docClass[d]
    /\ docClass' = [docClass EXCEPT ![d] = c]
    /\ UNCHANGED <<rowVars, chunks, objects, archived, pc, localVars, faults>>

ArchiveDocument(d) ==
    /\ d \notin archived
    /\ archived' = archived \cup {d}
    /\ UNCHANGED <<rowVars, chunks, objects, docClass, pc, localVars, faults>>

-----------------------------------------------------------------------------
(* Database helpers.                                                       *)

CurrentRows(d) == {e \in Extractions : isCurrent[e] /\ docOf[e] = d}

\* Mutant: no unique index on the chunk ordinals.
OrdinalsNotUnique(e) == TRUE

\* ux_document_chunk_extraction_ordinal: a second set of chunks for e is refused.
ChunksAccepted(e) == chunks[e] = NoClass

\* ux_document_extraction_one_current_per_document: every current row of the
\* document is one the transaction of w demotes.
PromotionAccepted(w) ==
    CurrentRows(docOf[job[w]]) \subseteq demote[w] \cup {job[w]}

\* Rows the open transaction of w has updated: FOR UPDATE SKIP LOCKED skips
\* them and an UPDATE from another session waits for w to end.
LockedBy(w) ==
    IF pc[w] = "commit" THEN {job[w]} \cup demote[w] ELSE {}

Unlocked(e) == \A w \in Workers : e \notin LockedBy(w)

\* ck_document_extraction_current_requires_completed for row e given status s.
CurrentRequiresCompleted(e, s) == isCurrent[e] => s = "completed"

\* The invocation of w ends, normally or by an exception that leaves process_one.
Exit(w) ==
    /\ pc' = [pc EXCEPT ![w] = "idle"]
    /\ job' = [job EXCEPT ![w] = 0]
    /\ copied' = [copied EXCEPT ![w] = NoClass]
    /\ demote' = [demote EXCEPT ![w] = {}]
    /\ transient' = [transient EXCEPT ![w] = FALSE]
    /\ attempt' = [attempt EXCEPT ![w] = 0]

\* The invocation goes on, its local variables as they are.
GoTo(w, step) ==
    /\ pc' = [pc EXCEPT ![w] = step]
    /\ UNCHANGED localVars

\* The attempt of w raised: the except clause of process_one comes next.
Raise(w, isTransient) ==
    /\ pc' = [pc EXCEPT ![w] = "error"]
    /\ transient' = [transient EXCEPT ![w] = isTransient]
    /\ UNCHANGED <<job, copied, demote, attempt>>

\* A fault struck the attempt w is making, or its key was taken.
Struck(w) == faults' = [faults EXCEPT ![job[w]] = @ \cup {attempt[w]}]

-----------------------------------------------------------------------------
(* One invocation of the worker script: reclaim_stale_jobs, then           *)
(* process_one.                                                            *)

\* Mutant: the comparison with stale_after is the wrong way round.
FreshRows == {e \in Extractions : status[e] = "processing" /\ ~stale[e] /\ Unlocked(e)}

StaleRows == {e \in Extractions : status[e] = "processing" /\ stale[e] /\ Unlocked(e)}

ReclaimStaleJobs(w) ==
    /\ pc[w] = "idle"
    /\ status' = [e \in Extractions |->
                    IF e \notin StaleRows THEN status[e]
                    ELSE IF attempts[e] >= MaxAttempts THEN "failed" ELSE "pending"]
    /\ stale' = [e \in Extractions |-> stale[e] /\ e \notin StaleRows]
    /\ GoTo(w, "claim")
    /\ UNCHANGED <<docOf, attempts, isCurrent, chunks, objects, docVars, faults>>

Claimable == {e \in Extractions : status[e] = "pending" /\ Unlocked(e)}

ClaimNextPending(w) ==
    /\ pc[w] = "claim"
    /\ \E e \in Claimable :
         /\ \A f \in Claimable : e <= f
         /\ status' = [status EXCEPT ![e] = "processing"]
         /\ stale' = [stale EXCEPT ![e] = FALSE]
         /\ attempts' = [attempts EXCEPT ![e] = @ + 1]
         /\ pc' = [pc EXCEPT ![w] = "read"]
         /\ job' = [job EXCEPT ![w] = e]
         /\ attempt' = [attempt EXCEPT ![w] = attempts[e] + 1]
    /\ UNCHANGED <<docOf, isCurrent, chunks, objects, docVars, copied, demote,
                   transient, faults>>

NothingPending(w) ==
    /\ pc[w] = "claim"
    /\ Claimable = {}
    /\ Exit(w)
    /\ UNCHANGED <<rowVars, chunks, objects, docVars, faults>>

\* get_document: the classification the chunks will carry is read here.
ReadDocument(w) ==
    /\ pc[w] = "read"
    /\ pc' = [pc EXCEPT ![w] = "download"]
    /\ copied' = [copied EXCEPT ![w] = docClass[docOf[job[w]]]]
    /\ UNCHANGED <<rowVars, chunks, objects, docVars, job, demote, transient,
                   attempt, faults>>

Download(w) ==
    /\ pc[w] = "download"
    /\ \/ /\ GoTo(w, "extract")
          /\ UNCHANGED faults
       \/ /\ "storage" \in Faults
          /\ Raise(w, TRUE)
          /\ Struck(w)
    /\ UNCHANGED <<rowVars, chunks, objects, docVars>>

ExtractText(w) ==
    /\ pc[w] = "extract"
    /\ docOf[job[w]] \in TextDocs
    /\ GoTo(w, "upload")
    /\ UNCHANGED <<rowVars, chunks, objects, docVars, faults>>

\* ExtractionFailure, from the extractor or from validate_chunks.
ExtractFails(w) ==
    /\ pc[w] = "extract"
    /\ docOf[job[w]] \in CorruptDocs
    /\ Raise(w, FALSE)
    /\ UNCHANGED <<rowVars, chunks, objects, docVars, faults>>

MarkNeedsOcr(w) ==
    LET e == job[w] IN
    /\ pc[w] = "extract"
    /\ docOf[e] \in ScannedDocs
    /\ Unlocked(e)
    /\ IF CurrentRequiresCompleted(e, "needs_ocr")
       THEN status' = [status EXCEPT ![e] = "needs_ocr"] /\ Exit(w)
       ELSE UNCHANGED status /\ Raise(w, FALSE)
    /\ UNCHANGED <<docOf, attempts, stale, isCurrent, chunks, objects, docVars, faults>>

\* The upload of artifact.json.  A StorageError does not tell whether the object
\* reached Storage; a key that is taken is refused unless Storage overwrites.
UploadArtifact(w) ==
    LET e == job[w] IN
    /\ pc[w] = "upload"
    /\ \/ /\ e \notin objects \/ Overwrite
          /\ objects' = objects \cup {e}
          /\ GoTo(w, "persist")
          /\ UNCHANGED faults
       \/ /\ e \in objects /\ ~Overwrite
          /\ Raise(w, TRUE)
          /\ Struck(w)
          /\ UNCHANGED objects
       \/ /\ "storage" \in Faults
          /\ objects' \in {objects, objects \cup {e}}
          /\ Raise(w, TRUE)
          /\ Struck(w)
    /\ UNCHANGED <<rowVars, chunks, docVars>>

\* The locks are held and the current rows of the document are seen.
Flush(w) ==
    /\ pc' = [pc EXCEPT ![w] = "commit"]
    /\ demote' = [demote EXCEPT ![w] = CurrentRows(docOf[job[w]]) \ {job[w]}]
    /\ UNCHANGED <<job, copied, transient, attempt>>

\* Mutant: chunks are committed before the row is marked completed.
ChunksCommittedEarly(w) ==
    /\ pc[w] = "persist"
    /\ chunks[job[w]] = NoClass
    /\ chunks' = [chunks EXCEPT ![job[w]] = copied[w]]
    /\ Flush(w)
    /\ UNCHANGED <<rowVars, objects, docVars, faults>>

\* Mutant: the transaction does not wait for the row lock.
PersistWithoutLock(w) ==
    /\ pc[w] = "persist"
    /\ IF ChunksAccepted(job[w]) THEN Flush(w) ELSE Raise(w, FALSE)
    /\ UNCHANGED <<rowVars, chunks, objects, docVars, faults>>

\* create_chunks, mark_completed and the SELECT of promote_current: flushed, not
\* committed.
PersistChunks(w) ==
    /\ pc[w] = "persist"
    /\ Unlocked(job[w])
    /\ IF ChunksAccepted(job[w]) THEN Flush(w) ELSE Raise(w, FALSE)
    /\ UNCHANGED <<rowVars, chunks, objects, docVars, faults>>

\* A database error in that transaction: no StorageError, hence deterministic.
PersistFails(w) ==
    /\ pc[w] \in {"persist", "commit"}
    /\ "database" \in Faults
    /\ Raise(w, FALSE)
    /\ Struck(w)
    /\ UNCHANGED <<rowVars, chunks, objects, docVars>>

\* The promotion and the commit.  The answer to a COMMIT that took effect may
\* still be lost, which looks like a failure.
PromoteCurrent(w) ==
    /\ pc[w] = "commit"
    /\ IF PromotionAccepted(w)
       THEN /\ status' = [status EXCEPT ![job[w]] = "completed"]
            /\ chunks' = [chunks EXCEPT ![job[w]] = copied[w]]
            /\ isCurrent' = [f \in Extractions |->
                               f = job[w] \/ (isCurrent[f] /\ f \notin demote[w])]
            /\ \/ Exit(w) /\ UNCHANGED faults
               \/ "database" \in Faults /\ Raise(w, FALSE) /\ Struck(w)
       ELSE UNCHANGED <<status, chunks, isCurrent, faults>> /\ Raise(w, FALSE)
    /\ UNCHANGED <<docOf, attempts, stale, objects, docVars>>

\* rollback, then get_extraction: the attempt count the decision is made on.
ReloadAfterError(w) ==
    /\ pc[w] = "error"
    /\ pc' = [pc EXCEPT ![w] = "fail"]
    /\ demote' = [demote EXCEPT ![w] = {}]
    /\ attempt' = [attempt EXCEPT ![w] = attempts[job[w]]]
    /\ UNCHANGED <<rowVars, chunks, objects, docVars, job, copied, transient, faults>>

\* Mutants: the attempt count is not compared, or compared one too early or too late.
RetryUnbounded(w) == transient[w]
RetryOneLess(w) == transient[w] /\ attempt[w] + 1 < MaxAttempts
RetryOneMore(w) == transient[w] /\ attempt[w] <= MaxAttempts

\* A transient failure with budget left, by the attempt count w reloaded.
MayRetry(w) == transient[w] /\ attempt[w] < MaxAttempts

\* _fail_or_requeue.  The row may by now be in any state; a status the CHECK
\* constraint refuses makes the exception leave process_one, and the row stays.
FailOrRequeue(w) ==
    LET e == job[w]
        next == IF MayRetry(w) THEN "pending" ELSE "failed" IN
    /\ pc[w] = "fail"
    /\ Unlocked(e)
    /\ IF CurrentRequiresCompleted(e, next)
       THEN /\ status' = [status EXCEPT ![e] = next]
            /\ stale' = [stale EXCEPT ![e] = @ /\ ~MayRetry(w)]
       ELSE UNCHANGED <<status, stale>>
    /\ Exit(w)
    /\ UNCHANGED <<docOf, attempts, isCurrent, chunks, objects, docVars, faults>>

-----------------------------------------------------------------------------
(* The world around the worker.                                            *)

\* A redeploy or a kill: the open transaction is lost, the row stays as it is.
\* A crash before the claim leaves nothing behind and is not a step.
Crash(w) ==
    /\ "crash" \in Faults
    /\ pc[w] \notin {"idle", "claim"}
    /\ Exit(w)
    /\ Struck(w)
    /\ UNCHANGED <<rowVars, chunks, objects, docVars>>

\* The clock passes started_at + STALE_PROCESSING_AFTER_SECONDS.  A live worker
\* is overtaken by it only when it is slow.
BecomeStale(e) ==
    /\ status[e] = "processing"
    /\ ~stale[e]
    /\ "slow" \in Faults \/ \A w \in Workers : job[w] # e
    /\ stale' = [stale EXCEPT ![e] = TRUE]
    /\ UNCHANGED <<docOf, status, attempts, isCurrent, chunks, objects, docVars,
                   pc, localVars, faults>>

WorkerStep(w) ==
    \/ ReclaimStaleJobs(w)
    \/ ClaimNextPending(w)
    \/ NothingPending(w)
    \/ ReadDocument(w)
    \/ Download(w)
    \/ ExtractText(w)
    \/ ExtractFails(w)
    \/ MarkNeedsOcr(w)
    \/ UploadArtifact(w)
    \/ PersistChunks(w)
    \/ PersistFails(w)
    \/ PromoteCurrent(w)
    \/ ReloadAfterError(w)
    \/ FailOrRequeue(w)

Next ==
    \/ \E d \in Docs : EnqueueExtraction(d)
    \/ \E d \in Docs, c \in Classes : UpdateMetadata(d, c)
    \/ \E d \in Docs : ArchiveDocument(d)
    \/ \E w \in Workers : WorkerStep(w)
    \/ \E w \in Workers : Crash(w)
    \/ \E e \in Extractions : BecomeStale(e)

\* Cron starts the script every five minutes and an invocation runs until it
\* returns or dies; the clock advances.
Fairness ==
    /\ \A w \in Workers : WF_vars(WorkerStep(w))
    /\ \A e \in Extractions : WF_vars(BecomeStale(e))

Spec == Init /\ [][Next]_vars

FairSpec == Spec /\ Fairness

-----------------------------------------------------------------------------
(* Properties.                                                             *)

LocalTypeOK ==
    /\ pc \in [Workers -> Pcs]
    /\ job \in [Workers -> Extractions \cup {0}]
    /\ copied \in [Workers -> Classes \cup {NoClass}]
    /\ demote \in [Workers -> SUBSET Extractions]
    /\ transient \in [Workers -> BOOLEAN]
    /\ attempt \in [Workers -> Nat]

\* Every column, object and local variable has its type.
TypeOK ==
    /\ docOf \in [Extractions -> Docs \cup {NoDoc}]
    /\ status \in [Extractions -> Statuses]
    /\ attempts \in [Extractions -> Nat]
    /\ stale \in [Extractions -> BOOLEAN]
    /\ isCurrent \in [Extractions -> BOOLEAN]
    /\ chunks \in [Extractions -> Classes \cup {NoClass}]
    /\ objects \subseteq Extractions
    /\ docClass \in [Docs -> Classes]
    /\ archived \subseteq Docs
    /\ LocalTypeOK
    /\ faults \in [Extractions -> SUBSET Nat]

\* "current" always means "safe to read chunks from" (models/document_extraction.py):
\* a current row is completed, its chunks are stored and its artifact is in Storage,
\* whatever other workers, retries and crashes did to the row since.
CurrentIsSafeToRead ==
    \A e \in Extractions :
        isCurrent[e] => status[e] = "completed" /\ chunks[e] # NoClass /\ e \in objects

\* A document never has two current extractions, although promotions of two
\* extractions of one document may interleave.
OneCurrentPerDocument ==
    \A d \in Docs : Cardinality(CurrentRows(d)) <= 1

\* Once a document has a current extraction it always has one: no failure, retry,
\* conflict or crash of a later extraction takes it away without a replacement.
CurrentNeverLost ==
    [][\A d \in Docs : CurrentRows(d) # {} => CurrentRows(d)' # {}]_vars

\* Bounded retry: a row is claimed MaxAttempts times at most, and once more for
\* each further worker that may be deciding on an attempt count it read before.
AttemptsBounded ==
    \A e \in Extractions : attempts[e] <= MaxAttempts + Cardinality(Workers) - 1

\* With workers that do not overlap, a row has chunks exactly when it is completed:
\* no partial output of a failed attempt is ever visible.
ChunksIffCompleted ==
    \A e \in Extractions : chunks[e] # NoClass <=> status[e] = "completed"

\* The retry budget is real: an extraction of a readable PDF is given up only when
\* each one of its MaxAttempts attempts was struck by a fault of its own, or found the
\* key taken that an earlier attempt uploaded to.
RetryBudgetHonoured ==
    \A e \in Extractions :
        status[e] = "failed" /\ docOf[e] \in TextDocs => 1 .. MaxAttempts \subseteq faults[e]

\* Every extraction that is requested is settled for good, whatever crashes: a row
\* whose worker died is reclaimed, and no row is retried forever.
EventuallySettled ==
    \A e \in Extractions : status[e] = "pending" ~> [](status[e] \in Terminal)

\* storage/base.py says of upload: "Callers always generate a fresh, never-before-used
\* key".  A retry of an attempt that reached Storage uploads to the key it used before.
UploadKeyIsFresh ==
    \A w \in Workers : pc[w] = "upload" => job[w] \notin objects
=============================================================================
