-------------------- MODULE DocumentExtractionRefinement --------------------
(***************************************************************************)
(* How DocumentExtraction implements its two abstract specifications, and  *)
(* the inductive invariant its proofs rest on.                             *)
(***************************************************************************)
EXTENDS DocumentExtraction

NoExtraction == 0

\* The member of a set of one row, NoExtraction when there is none.
Only(S) == IF S = {} THEN NoExtraction ELSE CHOOSE e \in S : TRUE

\* The pointer from a document to its current extraction.
CurrentOf == [d \in Docs |-> Only(CurrentRows(d))]

Corpus == INSTANCE DocumentCorpus
    WITH None <- NoExtraction,
         corpus <- CurrentOf,
         published <- {e \in Extractions : chunks[e] # NoClass}

Lifecycle == INSTANCE ExtractionLifecycle
    WITH None <- NoExtraction,
         corpus <- CurrentOf,
         phase <- status,
         tries <- attempts

\* Readers of chunks see a corpus that is replaced in one step and never lost,
\* with any number of overlapping workers.
ImplementsCorpus == Corpus!Spec

\* When invocations do not overlap, crashes and reclaims included, an extraction
\* lives as the API documents it: bounded attempts, then settled for good.
ImplementsLifecycle == Lifecycle!Spec

-----------------------------------------------------------------------------
(* The inductive invariant, by parts.                                      *)

\* Rows exist from their creation on, and only existing rows have state.
RowsExist ==
    \A e \in Extractions :
        /\ docOf[e] = NoDoc <=> status[e] = "absent"
        /\ chunks[e] # NoClass => status[e] # "absent"

\* What each live invocation knows of the row it claimed.
WorkersInformed ==
    \A w \in Workers :
        /\ pc[w] \notin {"idle", "claim"} =>
             job[w] \in Extractions /\ status[job[w]] # "absent"
        /\ pc[w] \in {"download", "extract", "upload", "persist", "commit"} =>
             copied[w] \in Classes
        /\ pc[w] \in {"persist", "commit"} => job[w] \in objects

\* The open transaction of a worker about to promote: its row has no chunks yet,
\* nobody else is promoting that row, and it demotes rows of the same document.
PromotionsExclusive ==
    \A w \in Workers :
        pc[w] = "commit" =>
            /\ chunks[job[w]] = NoClass
            /\ \A f \in demote[w] :
                 f # job[w] /\ docOf[f] = docOf[job[w]]
            /\ \A v \in Workers :
                 v # w /\ pc[v] = "commit" => job[v] # job[w]

CurrentUnique ==
    \A e, f \in Extractions :
        isCurrent[e] /\ isCurrent[f] /\ docOf[e] = docOf[f] => e = f

IndInv ==
    /\ TypeOK
    /\ RowsExist
    /\ WorkersInformed
    /\ PromotionsExclusive
    /\ CurrentIsSafeToRead
    /\ CurrentUnique

-----------------------------------------------------------------------------
(* What bounds the attempts when invocations overlap.                      *)

\* The workers about to requeue row e, on a count they reloaded earlier.
Deciding(e) == {w \in Workers : pc[w] = "fail" /\ job[w] = e /\ MayRetry(w)}

\* A row whose budget is used up can be claimed again once for its place in the
\* queue and once for each worker still about to requeue it.
ClaimsLeft(e) == (IF status[e] = "pending" THEN 1 ELSE 0) + Cardinality(Deciding(e))

AttemptsCounted ==
    \A e \in Extractions :
        attempts[e] >= MaxAttempts =>
            attempts[e] + ClaimsLeft(e) <= MaxAttempts + Cardinality(Workers) - 1

NoAttemptBeforeRow ==
    \A e \in Extractions : status[e] = "absent" => attempts[e] = 0

-----------------------------------------------------------------------------
(* One invocation at a time: the parts of its inductive invariant.         *)

OneWorker == \A v, w \in Workers : v = w

Working(w) == pc[w] \notin {"idle", "claim"}

Failing(w) == pc[w] \in {"error", "fail"}

\* The row of the live invocation is being processed or, if the answer to its
\* COMMIT was lost, is current; nobody else has attempted it; and the invocation
\* is about to demote every other current row of the document.
RowIsHeld ==
    \A w \in Workers :
        /\ Working(w) =>
             /\ attempt[w] = attempts[job[w]]
             /\ status[job[w]] = "processing" \/ (Failing(w) /\ isCurrent[job[w]])
        /\ pc[w] = "commit" => demote[w] = CurrentRows(docOf[job[w]]) \ {job[w]}

BudgetKept ==
    \A e \in Extractions :
        /\ attempts[e] <= MaxAttempts
        /\ status[e] \in {"absent", "pending"} => attempts[e] < MaxAttempts

LoneInv ==
    /\ RowIsHeld
    /\ BudgetKept
    /\ ChunksIffCompleted

\* Is an attempt on row e running that nothing has struck yet?
Underway(e) == \E w \in Workers : Working(w) /\ ~Failing(w) /\ job[w] = e

\* Every attempt on a readable PDF but a running or a successful one was struck,
\* and it is not given up before the last.
FaultsRecorded ==
    \A e \in Extractions :
        docOf[e] \in TextDocs =>
            /\ \A n \in 1 .. attempts[e] :
                 \/ n \in faults[e]
                 \/ status[e] = "completed"
                 \/ n = attempts[e] /\ Underway(e)
            /\ status[e] = "failed" => attempts[e] >= MaxAttempts

\* A readable PDF fails only by Storage when the database does not fail.
FailuresTransient ==
    \A w \in Workers :
        Failing(w) /\ docOf[job[w]] \in TextDocs => transient[w]

RetryInv ==
    /\ NoAttemptBeforeRow
    /\ FaultsRecorded
    /\ FailuresTransient
=============================================================================
