---------------------- MODULE DocumentExtractionProofs ----------------------
(***************************************************************************)
(* Proofs about the extraction queue for every number of overlapping       *)
(* workers, documents, extractions and attempts.                           *)
(***************************************************************************)
EXTENDS DocumentExtractionRefinement, FiniteSetTheorems, TLAPS

USE MaxAttemptsAssumption, MaxExtractionsAssumption, NoDocAssumption, NoClassAssumption

-----------------------------------------------------------------------------
(* What the helpers do to the local variables of the workers.              *)

\* The end of an invocation leaves its local variables typed.
LEMMA ExitType ==
    ASSUME LocalTypeOK, NEW w \in Workers, Exit(w) PROVE LocalTypeOK'
<1>1. demote' \in [Workers -> SUBSET Extractions]
  BY DEF Exit, LocalTypeOK
<1> QED
  BY <1>1 DEF Exit, LocalTypeOK, Pcs

\* A raised exception leaves the local variables typed.
LEMMA RaiseType ==
    ASSUME LocalTypeOK, NEW w \in Workers, NEW t \in BOOLEAN, Raise(w, t)
    PROVE  LocalTypeOK'
BY DEF Raise, LocalTypeOK, Pcs

\* A step of the pipeline leaves the local variables typed.
LEMMA GoToType ==
    ASSUME LocalTypeOK, NEW w \in Workers, NEW step \in Pcs, GoTo(w, step)
    PROVE  LocalTypeOK'
BY DEF GoTo, LocalTypeOK, localVars

\* The flush before a promotion leaves the local variables typed.
LEMMA FlushType ==
    ASSUME LocalTypeOK, NEW w \in Workers, Flush(w) PROVE LocalTypeOK'
<1>1. CurrentRows(docOf[job[w]]) \ {job[w]} \in SUBSET Extractions
  BY DEF CurrentRows
<1>2. demote' \in [Workers -> SUBSET Extractions]
  BY <1>1 DEF Flush, LocalTypeOK
<1> QED
  BY <1>2 DEF Flush, LocalTypeOK, Pcs

\* The history of faults stays typed.
LEMMA StruckType ==
    ASSUME TypeOK, NEW w \in Workers, Struck(w)
    PROVE  faults' \in [Extractions -> SUBSET Nat]
<1>1. attempt[w] \in Nat
  BY DEF TypeOK, LocalTypeOK
<1>2. \A e \in Extractions : faults[e] \cup {attempt[w]} \in SUBSET Nat
  BY <1>1 DEF TypeOK
<1> QED
  BY <1>2 DEF TypeOK, Struck

\* Every step keeps the types.
LEMMA TypeStep ==
    ASSUME TypeOK, WorkersInformed, RowsExist, [Next]_vars PROVE TypeOK'
<1> USE DEF TypeOK, Statuses, Terminal, rowVars, docVars
<1>1. ASSUME NEW d \in Docs, EnqueueExtraction(d) PROVE TypeOK'
  BY <1>1 DEF EnqueueExtraction, localVars, LocalTypeOK
<1>2. ASSUME NEW d \in Docs, NEW c \in Classes, UpdateMetadata(d, c) PROVE TypeOK'
  BY <1>2 DEF UpdateMetadata, localVars, LocalTypeOK
<1>3. ASSUME NEW d \in Docs, ArchiveDocument(d) PROVE TypeOK'
  BY <1>3 DEF ArchiveDocument, localVars, LocalTypeOK
<1>4. ASSUME NEW w \in Workers, ReclaimStaleJobs(w) PROVE TypeOK'
  BY <1>4, GoToType DEF ReclaimStaleJobs, Pcs
<1>5. ASSUME NEW w \in Workers, ClaimNextPending(w) PROVE TypeOK'
  BY <1>5 DEF ClaimNextPending, Claimable, LocalTypeOK, Pcs
<1>6. ASSUME NEW w \in Workers, NothingPending(w) PROVE TypeOK'
  BY <1>6, ExitType DEF NothingPending
<1>7. ASSUME NEW w \in Workers, ReadDocument(w) PROVE TypeOK'
  BY <1>7 DEF ReadDocument, WorkersInformed, RowsExist, LocalTypeOK, Pcs
<1>8. ASSUME NEW w \in Workers, Download(w) PROVE TypeOK'
  BY <1>8, GoToType, RaiseType, StruckType DEF Download, Pcs
<1>9. ASSUME NEW w \in Workers, ExtractText(w) PROVE TypeOK'
  BY <1>9, GoToType DEF ExtractText, Pcs
<1>10. ASSUME NEW w \in Workers, ExtractFails(w) PROVE TypeOK'
  BY <1>10, RaiseType DEF ExtractFails
<1>11. ASSUME NEW w \in Workers, MarkNeedsOcr(w) PROVE TypeOK'
  BY <1>11, RaiseType, ExitType DEF MarkNeedsOcr
<1>12. ASSUME NEW w \in Workers, UploadArtifact(w) PROVE TypeOK'
  BY <1>12, GoToType, RaiseType, StruckType DEF UploadArtifact, WorkersInformed, Pcs
<1>13. ASSUME NEW w \in Workers, PersistChunks(w) PROVE TypeOK'
  BY <1>13, FlushType, RaiseType DEF PersistChunks
<1>14. ASSUME NEW w \in Workers, PersistFails(w) PROVE TypeOK'
  BY <1>14, RaiseType, StruckType DEF PersistFails
<1>15. ASSUME NEW w \in Workers, PromoteCurrent(w) PROVE TypeOK'
  BY <1>15, RaiseType, ExitType, StruckType DEF PromoteCurrent, LocalTypeOK
<1>16. ASSUME NEW w \in Workers, ReloadAfterError(w) PROVE TypeOK'
  BY <1>16 DEF ReloadAfterError, WorkersInformed, LocalTypeOK, Pcs
<1>17. ASSUME NEW w \in Workers, FailOrRequeue(w) PROVE TypeOK'
  BY <1>17, ExitType DEF FailOrRequeue
<1>18. ASSUME NEW w \in Workers, Crash(w) PROVE TypeOK'
  BY <1>18, ExitType, StruckType DEF Crash
<1>19. ASSUME NEW e \in Extractions, BecomeStale(e) PROVE TypeOK'
  BY <1>19 DEF BecomeStale, localVars, LocalTypeOK
<1>20. CASE UNCHANGED vars
  BY <1>20 DEF vars, LocalTypeOK
<1> QED
  BY <1>1, <1>2, <1>3, <1>4, <1>5, <1>6, <1>7, <1>8, <1>9, <1>10, <1>11, <1>12, <1>13,
     <1>14, <1>15, <1>16, <1>17, <1>18, <1>19, <1>20 DEF Next, WorkerStep

\* Only an existing row has chunks, in every next state.
LEMMA RowsStep ==
    ASSUME IndInv, [Next]_vars PROVE RowsExist'
<1> USE DEF IndInv, TypeOK, LocalTypeOK, RowsExist, WorkersInformed, PromotionsExclusive,
            CurrentIsSafeToRead, CurrentUnique, rowVars, docVars
<1>1. ASSUME NEW d \in Docs, EnqueueExtraction(d) PROVE RowsExist'
  BY <1>1 DEF EnqueueExtraction, localVars
<1>2. ASSUME NEW d \in Docs, NEW c \in Classes, UpdateMetadata(d, c) PROVE RowsExist'
  BY <1>2 DEF UpdateMetadata, localVars
<1>3. ASSUME NEW d \in Docs, ArchiveDocument(d) PROVE RowsExist'
  BY <1>3 DEF ArchiveDocument, localVars
<1>4. ASSUME NEW w \in Workers, ReclaimStaleJobs(w) PROVE RowsExist'
  BY <1>4 DEF ReclaimStaleJobs, GoTo, localVars, StaleRows
<1>5. ASSUME NEW w \in Workers, ClaimNextPending(w) PROVE RowsExist'
  BY <1>5 DEF ClaimNextPending, Claimable
<1>6. ASSUME NEW w \in Workers, NothingPending(w) PROVE RowsExist'
  BY <1>6 DEF NothingPending, Exit
<1>7. ASSUME NEW w \in Workers, ReadDocument(w) PROVE RowsExist'
  BY <1>7 DEF ReadDocument
<1>8. ASSUME NEW w \in Workers, Download(w) PROVE RowsExist'
  BY <1>8 DEF Download, GoTo, Raise, localVars
<1>9. ASSUME NEW w \in Workers, ExtractText(w) PROVE RowsExist'
  BY <1>9 DEF ExtractText, GoTo, localVars
<1>10. ASSUME NEW w \in Workers, ExtractFails(w) PROVE RowsExist'
  BY <1>10 DEF ExtractFails, Raise
<1>11. ASSUME NEW w \in Workers, MarkNeedsOcr(w) PROVE RowsExist'
  BY <1>11 DEF MarkNeedsOcr, Raise, Exit, CurrentRequiresCompleted
<1>12. ASSUME NEW w \in Workers, UploadArtifact(w) PROVE RowsExist'
  BY <1>12 DEF UploadArtifact, GoTo, Raise, localVars
<1>13. ASSUME NEW w \in Workers, PersistChunks(w) PROVE RowsExist'
  BY <1>13 DEF PersistChunks, Flush, Raise, ChunksAccepted, CurrentRows, Unlocked, LockedBy
<1>14. ASSUME NEW w \in Workers, PersistFails(w) PROVE RowsExist'
  BY <1>14 DEF PersistFails, Raise
<1>15. ASSUME NEW w \in Workers, PromoteCurrent(w) PROVE RowsExist'
  BY <1>15 DEF PromoteCurrent, PromotionAccepted, CurrentRows, Raise, Exit
<1>16. ASSUME NEW w \in Workers, ReloadAfterError(w) PROVE RowsExist'
  BY <1>16 DEF ReloadAfterError
<1>17. ASSUME NEW w \in Workers, FailOrRequeue(w) PROVE RowsExist'
  BY <1>17 DEF FailOrRequeue, Exit, CurrentRequiresCompleted
<1>18. ASSUME NEW w \in Workers, Crash(w) PROVE RowsExist'
  BY <1>18 DEF Crash, Exit
<1>19. ASSUME NEW e \in Extractions, BecomeStale(e) PROVE RowsExist'
  BY <1>19 DEF BecomeStale, localVars
<1>20. CASE UNCHANGED vars
  BY <1>20 DEF vars
<1> QED
  BY <1>1, <1>2, <1>3, <1>4, <1>5, <1>6, <1>7, <1>8, <1>9, <1>10, <1>11, <1>12, <1>13,
     <1>14, <1>15, <1>16, <1>17, <1>18, <1>19, <1>20 DEF Next, WorkerStep

\* A live invocation has claimed a row that exists, and has what its step needs.
LEMMA InformedStep ==
    ASSUME IndInv, [Next]_vars PROVE WorkersInformed'
<1> USE DEF IndInv, TypeOK, LocalTypeOK, RowsExist, WorkersInformed, PromotionsExclusive,
            CurrentIsSafeToRead, CurrentUnique, rowVars, docVars
<1>1. ASSUME NEW d \in Docs, EnqueueExtraction(d) PROVE WorkersInformed'
  BY <1>1 DEF EnqueueExtraction, localVars
<1>2. ASSUME NEW d \in Docs, NEW c \in Classes, UpdateMetadata(d, c) PROVE WorkersInformed'
  BY <1>2 DEF UpdateMetadata, localVars
<1>3. ASSUME NEW d \in Docs, ArchiveDocument(d) PROVE WorkersInformed'
  BY <1>3 DEF ArchiveDocument, localVars
<1>4. ASSUME NEW w \in Workers, ReclaimStaleJobs(w) PROVE WorkersInformed'
  BY <1>4 DEF ReclaimStaleJobs, GoTo, localVars, StaleRows
<1>5. ASSUME NEW w \in Workers, ClaimNextPending(w) PROVE WorkersInformed'
  BY <1>5 DEF ClaimNextPending, Claimable
<1>6. ASSUME NEW w \in Workers, NothingPending(w) PROVE WorkersInformed'
  BY <1>6 DEF NothingPending, Exit
<1>7. ASSUME NEW w \in Workers, ReadDocument(w) PROVE WorkersInformed'
  BY <1>7 DEF ReadDocument
<1>8. ASSUME NEW w \in Workers, Download(w) PROVE WorkersInformed'
  BY <1>8 DEF Download, GoTo, Raise, localVars
<1>9. ASSUME NEW w \in Workers, ExtractText(w) PROVE WorkersInformed'
  BY <1>9 DEF ExtractText, GoTo, localVars
<1>10. ASSUME NEW w \in Workers, ExtractFails(w) PROVE WorkersInformed'
  BY <1>10 DEF ExtractFails, Raise
<1>11. ASSUME NEW w \in Workers, MarkNeedsOcr(w) PROVE WorkersInformed'
  BY <1>11 DEF MarkNeedsOcr, Raise, Exit, CurrentRequiresCompleted
<1>12. ASSUME NEW w \in Workers, UploadArtifact(w) PROVE WorkersInformed'
  BY <1>12 DEF UploadArtifact, GoTo, Raise, localVars
<1>13. ASSUME NEW w \in Workers, PersistChunks(w) PROVE WorkersInformed'
  BY <1>13 DEF PersistChunks, Flush, Raise, ChunksAccepted, CurrentRows, Unlocked, LockedBy
<1>14. ASSUME NEW w \in Workers, PersistFails(w) PROVE WorkersInformed'
  BY <1>14 DEF PersistFails, Raise
<1>15. ASSUME NEW w \in Workers, PromoteCurrent(w) PROVE WorkersInformed'
  BY <1>15 DEF PromoteCurrent, PromotionAccepted, CurrentRows, Raise, Exit
<1>16. ASSUME NEW w \in Workers, ReloadAfterError(w) PROVE WorkersInformed'
  BY <1>16 DEF ReloadAfterError
<1>17. ASSUME NEW w \in Workers, FailOrRequeue(w) PROVE WorkersInformed'
  BY <1>17 DEF FailOrRequeue, Exit, CurrentRequiresCompleted
<1>18. ASSUME NEW w \in Workers, Crash(w) PROVE WorkersInformed'
  BY <1>18 DEF Crash, Exit
<1>19. ASSUME NEW e \in Extractions, BecomeStale(e) PROVE WorkersInformed'
  BY <1>19 DEF BecomeStale, localVars
<1>20. CASE UNCHANGED vars
  BY <1>20 DEF vars
<1> QED
  BY <1>1, <1>2, <1>3, <1>4, <1>5, <1>6, <1>7, <1>8, <1>9, <1>10, <1>11, <1>12, <1>13,
     <1>14, <1>15, <1>16, <1>17, <1>18, <1>19, <1>20 DEF Next, WorkerStep

\* Row locks keep two workers from promoting one row; what a worker is about to
\* demote stays on the document of its row.
LEMMA PromotionStep ==
    ASSUME IndInv, [Next]_vars PROVE PromotionsExclusive'
<1> USE DEF IndInv, TypeOK, LocalTypeOK, RowsExist, WorkersInformed, PromotionsExclusive,
            CurrentIsSafeToRead, CurrentUnique, rowVars, docVars
<1>1. ASSUME NEW d \in Docs, EnqueueExtraction(d) PROVE PromotionsExclusive'
  BY <1>1 DEF EnqueueExtraction, localVars
<1>2. ASSUME NEW d \in Docs, NEW c \in Classes, UpdateMetadata(d, c) PROVE PromotionsExclusive'
  BY <1>2 DEF UpdateMetadata, localVars
<1>3. ASSUME NEW d \in Docs, ArchiveDocument(d) PROVE PromotionsExclusive'
  BY <1>3 DEF ArchiveDocument, localVars
<1>4. ASSUME NEW w \in Workers, ReclaimStaleJobs(w) PROVE PromotionsExclusive'
  BY <1>4 DEF ReclaimStaleJobs, GoTo, localVars, StaleRows
<1>5. ASSUME NEW w \in Workers, ClaimNextPending(w) PROVE PromotionsExclusive'
  BY <1>5 DEF ClaimNextPending, Claimable
<1>6. ASSUME NEW w \in Workers, NothingPending(w) PROVE PromotionsExclusive'
  BY <1>6 DEF NothingPending, Exit
<1>7. ASSUME NEW w \in Workers, ReadDocument(w) PROVE PromotionsExclusive'
  BY <1>7 DEF ReadDocument
<1>8. ASSUME NEW w \in Workers, Download(w) PROVE PromotionsExclusive'
  BY <1>8 DEF Download, GoTo, Raise, localVars
<1>9. ASSUME NEW w \in Workers, ExtractText(w) PROVE PromotionsExclusive'
  BY <1>9 DEF ExtractText, GoTo, localVars
<1>10. ASSUME NEW w \in Workers, ExtractFails(w) PROVE PromotionsExclusive'
  BY <1>10 DEF ExtractFails, Raise
<1>11. ASSUME NEW w \in Workers, MarkNeedsOcr(w) PROVE PromotionsExclusive'
  BY <1>11 DEF MarkNeedsOcr, Raise, Exit, CurrentRequiresCompleted
<1>12. ASSUME NEW w \in Workers, UploadArtifact(w) PROVE PromotionsExclusive'
  BY <1>12 DEF UploadArtifact, GoTo, Raise, localVars
<1>13. ASSUME NEW w \in Workers, PersistChunks(w) PROVE PromotionsExclusive'
  BY <1>13 DEF PersistChunks, Flush, Raise, ChunksAccepted, CurrentRows, Unlocked, LockedBy
<1>14. ASSUME NEW w \in Workers, PersistFails(w) PROVE PromotionsExclusive'
  BY <1>14 DEF PersistFails, Raise
<1>15. ASSUME NEW w \in Workers, PromoteCurrent(w) PROVE PromotionsExclusive'
  BY <1>15 DEF PromoteCurrent, PromotionAccepted, CurrentRows, Raise, Exit
<1>16. ASSUME NEW w \in Workers, ReloadAfterError(w) PROVE PromotionsExclusive'
  BY <1>16 DEF ReloadAfterError
<1>17. ASSUME NEW w \in Workers, FailOrRequeue(w) PROVE PromotionsExclusive'
  BY <1>17 DEF FailOrRequeue, Exit, CurrentRequiresCompleted
<1>18. ASSUME NEW w \in Workers, Crash(w) PROVE PromotionsExclusive'
  BY <1>18 DEF Crash, Exit
<1>19. ASSUME NEW e \in Extractions, BecomeStale(e) PROVE PromotionsExclusive'
  BY <1>19 DEF BecomeStale, localVars
<1>20. CASE UNCHANGED vars
  BY <1>20 DEF vars
<1> QED
  BY <1>1, <1>2, <1>3, <1>4, <1>5, <1>6, <1>7, <1>8, <1>9, <1>10, <1>11, <1>12, <1>13,
     <1>14, <1>15, <1>16, <1>17, <1>18, <1>19, <1>20 DEF Next, WorkerStep

\* No step of any worker leaves a current row without its chunks: a status the
\* CHECK constraint refuses is never stored.
LEMMA SafeStep ==
    ASSUME IndInv, [Next]_vars PROVE CurrentIsSafeToRead'
<1> USE DEF IndInv, TypeOK, LocalTypeOK, RowsExist, WorkersInformed, PromotionsExclusive,
            CurrentIsSafeToRead, CurrentUnique, rowVars, docVars
<1>1. ASSUME NEW d \in Docs, EnqueueExtraction(d) PROVE CurrentIsSafeToRead'
  BY <1>1 DEF EnqueueExtraction, localVars
<1>2. ASSUME NEW d \in Docs, NEW c \in Classes, UpdateMetadata(d, c) PROVE CurrentIsSafeToRead'
  BY <1>2 DEF UpdateMetadata, localVars
<1>3. ASSUME NEW d \in Docs, ArchiveDocument(d) PROVE CurrentIsSafeToRead'
  BY <1>3 DEF ArchiveDocument, localVars
<1>4. ASSUME NEW w \in Workers, ReclaimStaleJobs(w) PROVE CurrentIsSafeToRead'
  BY <1>4 DEF ReclaimStaleJobs, GoTo, localVars, StaleRows
<1>5. ASSUME NEW w \in Workers, ClaimNextPending(w) PROVE CurrentIsSafeToRead'
  BY <1>5 DEF ClaimNextPending, Claimable
<1>6. ASSUME NEW w \in Workers, NothingPending(w) PROVE CurrentIsSafeToRead'
  BY <1>6 DEF NothingPending, Exit
<1>7. ASSUME NEW w \in Workers, ReadDocument(w) PROVE CurrentIsSafeToRead'
  BY <1>7 DEF ReadDocument
<1>8. ASSUME NEW w \in Workers, Download(w) PROVE CurrentIsSafeToRead'
  BY <1>8 DEF Download, GoTo, Raise, localVars
<1>9. ASSUME NEW w \in Workers, ExtractText(w) PROVE CurrentIsSafeToRead'
  BY <1>9 DEF ExtractText, GoTo, localVars
<1>10. ASSUME NEW w \in Workers, ExtractFails(w) PROVE CurrentIsSafeToRead'
  BY <1>10 DEF ExtractFails, Raise
<1>11. ASSUME NEW w \in Workers, MarkNeedsOcr(w) PROVE CurrentIsSafeToRead'
  BY <1>11 DEF MarkNeedsOcr, Raise, Exit, CurrentRequiresCompleted
<1>12. ASSUME NEW w \in Workers, UploadArtifact(w) PROVE CurrentIsSafeToRead'
  BY <1>12 DEF UploadArtifact, GoTo, Raise, localVars
<1>13. ASSUME NEW w \in Workers, PersistChunks(w) PROVE CurrentIsSafeToRead'
  BY <1>13 DEF PersistChunks, Flush, Raise, ChunksAccepted, CurrentRows, Unlocked, LockedBy
<1>14. ASSUME NEW w \in Workers, PersistFails(w) PROVE CurrentIsSafeToRead'
  BY <1>14 DEF PersistFails, Raise
<1>15. ASSUME NEW w \in Workers, PromoteCurrent(w) PROVE CurrentIsSafeToRead'
  BY <1>15 DEF PromoteCurrent, PromotionAccepted, CurrentRows, Raise, Exit
<1>16. ASSUME NEW w \in Workers, ReloadAfterError(w) PROVE CurrentIsSafeToRead'
  BY <1>16 DEF ReloadAfterError
<1>17. ASSUME NEW w \in Workers, FailOrRequeue(w) PROVE CurrentIsSafeToRead'
  BY <1>17 DEF FailOrRequeue, Exit, CurrentRequiresCompleted
<1>18. ASSUME NEW w \in Workers, Crash(w) PROVE CurrentIsSafeToRead'
  BY <1>18 DEF Crash, Exit
<1>19. ASSUME NEW e \in Extractions, BecomeStale(e) PROVE CurrentIsSafeToRead'
  BY <1>19 DEF BecomeStale, localVars
<1>20. CASE UNCHANGED vars
  BY <1>20 DEF vars
<1> QED
  BY <1>1, <1>2, <1>3, <1>4, <1>5, <1>6, <1>7, <1>8, <1>9, <1>10, <1>11, <1>12, <1>13,
     <1>14, <1>15, <1>16, <1>17, <1>18, <1>19, <1>20 DEF Next, WorkerStep

\* A promotion the unique index accepts leaves one current row per document.
LEMMA UniqueStep ==
    ASSUME IndInv, [Next]_vars PROVE CurrentUnique'
<1> USE DEF IndInv, TypeOK, LocalTypeOK, RowsExist, WorkersInformed, PromotionsExclusive,
            CurrentIsSafeToRead, CurrentUnique, rowVars, docVars
<1>1. ASSUME NEW d \in Docs, EnqueueExtraction(d) PROVE CurrentUnique'
  BY <1>1 DEF EnqueueExtraction, localVars
<1>2. ASSUME NEW d \in Docs, NEW c \in Classes, UpdateMetadata(d, c) PROVE CurrentUnique'
  BY <1>2 DEF UpdateMetadata, localVars
<1>3. ASSUME NEW d \in Docs, ArchiveDocument(d) PROVE CurrentUnique'
  BY <1>3 DEF ArchiveDocument, localVars
<1>4. ASSUME NEW w \in Workers, ReclaimStaleJobs(w) PROVE CurrentUnique'
  BY <1>4 DEF ReclaimStaleJobs, GoTo, localVars, StaleRows
<1>5. ASSUME NEW w \in Workers, ClaimNextPending(w) PROVE CurrentUnique'
  BY <1>5 DEF ClaimNextPending, Claimable
<1>6. ASSUME NEW w \in Workers, NothingPending(w) PROVE CurrentUnique'
  BY <1>6 DEF NothingPending, Exit
<1>7. ASSUME NEW w \in Workers, ReadDocument(w) PROVE CurrentUnique'
  BY <1>7 DEF ReadDocument
<1>8. ASSUME NEW w \in Workers, Download(w) PROVE CurrentUnique'
  BY <1>8 DEF Download, GoTo, Raise, localVars
<1>9. ASSUME NEW w \in Workers, ExtractText(w) PROVE CurrentUnique'
  BY <1>9 DEF ExtractText, GoTo, localVars
<1>10. ASSUME NEW w \in Workers, ExtractFails(w) PROVE CurrentUnique'
  BY <1>10 DEF ExtractFails, Raise
<1>11. ASSUME NEW w \in Workers, MarkNeedsOcr(w) PROVE CurrentUnique'
  BY <1>11 DEF MarkNeedsOcr, Raise, Exit, CurrentRequiresCompleted
<1>12. ASSUME NEW w \in Workers, UploadArtifact(w) PROVE CurrentUnique'
  BY <1>12 DEF UploadArtifact, GoTo, Raise, localVars
<1>13. ASSUME NEW w \in Workers, PersistChunks(w) PROVE CurrentUnique'
  BY <1>13 DEF PersistChunks, Flush, Raise, ChunksAccepted, CurrentRows, Unlocked, LockedBy
<1>14. ASSUME NEW w \in Workers, PersistFails(w) PROVE CurrentUnique'
  BY <1>14 DEF PersistFails, Raise
<1>15. ASSUME NEW w \in Workers, PromoteCurrent(w) PROVE CurrentUnique'
  BY <1>15 DEF PromoteCurrent, PromotionAccepted, CurrentRows, Raise, Exit
<1>16. ASSUME NEW w \in Workers, ReloadAfterError(w) PROVE CurrentUnique'
  BY <1>16 DEF ReloadAfterError
<1>17. ASSUME NEW w \in Workers, FailOrRequeue(w) PROVE CurrentUnique'
  BY <1>17 DEF FailOrRequeue, Exit, CurrentRequiresCompleted
<1>18. ASSUME NEW w \in Workers, Crash(w) PROVE CurrentUnique'
  BY <1>18 DEF Crash, Exit
<1>19. ASSUME NEW e \in Extractions, BecomeStale(e) PROVE CurrentUnique'
  BY <1>19 DEF BecomeStale, localVars
<1>20. CASE UNCHANGED vars
  BY <1>20 DEF vars
<1> QED
  BY <1>1, <1>2, <1>3, <1>4, <1>5, <1>6, <1>7, <1>8, <1>9, <1>10, <1>11, <1>12, <1>13,
     <1>14, <1>15, <1>16, <1>17, <1>18, <1>19, <1>20 DEF Next, WorkerStep

-----------------------------------------------------------------------------
(* The invariants.                                                         *)

\* The inductive invariant holds in the initial states.
LEMMA IndInvInit == Init => IndInv
<1> SUFFICES ASSUME Init PROVE IndInv
  OBVIOUS
<1>1. TypeOK
  BY DEF Init, TypeOK, LocalTypeOK, Statuses, Pcs
<1>2. RowsExist /\ WorkersInformed /\ PromotionsExclusive
  BY DEF Init, RowsExist, WorkersInformed, PromotionsExclusive
<1>3. CurrentIsSafeToRead /\ CurrentUnique
  BY DEF Init, CurrentIsSafeToRead, CurrentUnique
<1> QED
  BY <1>1, <1>2, <1>3 DEF IndInv

\* Any number of workers, interleaved in any way and struck by any fault, keep
\* the inductive invariant of the queue.
THEOREM QueueInvariant == Spec => []IndInv
<1>1. IndInv /\ [Next]_vars => IndInv'
  <2> SUFFICES ASSUME IndInv, [Next]_vars PROVE IndInv'
    OBVIOUS
  <2> QED
    BY TypeStep, RowsStep, InformedStep, PromotionStep, SafeStep, UniqueStep DEF IndInv
<1> QED
  BY IndInvInit, <1>1, PTL DEF Spec

\* Type correctness of the queue.
THEOREM TypeCorrect == Spec => []TypeOK
<1>1. IndInv => TypeOK
  BY DEF IndInv
<1> QED
  BY QueueInvariant, <1>1, PTL

\* A current extraction is completed, with its chunks and its artifact in place,
\* for every number of overlapping workers.
THEOREM CurrentSafe == Spec => []CurrentIsSafeToRead
<1>1. IndInv => CurrentIsSafeToRead
  BY DEF IndInv
<1> QED
  BY QueueInvariant, <1>1, PTL

\* A document has at most one current extraction, for every number of workers.
THEOREM OneCurrent == Spec => []OneCurrentPerDocument
<1>1. IndInv => OneCurrentPerDocument
  <2> SUFFICES ASSUME IndInv, NEW d \in Docs PROVE Cardinality(CurrentRows(d)) <= 1
    BY DEF OneCurrentPerDocument
  <2>1. \A e, f \in CurrentRows(d) : e = f
    BY DEF IndInv, CurrentUnique, CurrentRows
  <2>2. CASE CurrentRows(d) = {}
    BY <2>2, FS_EmptySet
  <2>3. CASE CurrentRows(d) # {}
    <3>1. PICK e \in CurrentRows(d) : CurrentRows(d) = {e}
      BY <2>1, <2>3
    <3>2. Cardinality({e}) = 1
      BY FS_Singleton
    <3> QED
      BY <3>1, <3>2
  <2> QED
    BY <2>2, <2>3
<1> QED
  BY QueueInvariant, <1>1, PTL

\* A document that has a current extraction keeps having one.
THEOREM CurrentKept == Spec => CurrentNeverLost
<1>1. IndInv /\ [Next]_vars =>
        [\A d \in Docs : CurrentRows(d) # {} => CurrentRows(d)' # {}]_vars
  <2> SUFFICES ASSUME IndInv, [Next]_vars, NEW d \in Docs, CurrentRows(d) # {}
               PROVE  CurrentRows(d)' # {}
    OBVIOUS
  <2> USE DEF CurrentRows, rowVars
  <2>1. ASSUME NEW c \in Docs, EnqueueExtraction(c) PROVE CurrentRows(d)' # {}
    BY <2>1 DEF EnqueueExtraction, IndInv, RowsExist, TypeOK
  <2>2. ASSUME NEW w \in Workers, PromoteCurrent(w) PROVE CurrentRows(d)' # {}
    <3>1. PICK f \in Extractions : isCurrent[f] /\ docOf[f] = d
      OBVIOUS
    <3>2. docOf' = docOf /\ pc[w] = "commit" /\ job[w] \in Extractions
      BY <2>2 DEF PromoteCurrent, IndInv, WorkersInformed
    <3>3. CASE ~PromotionAccepted(w)
      BY <2>2, <3>1, <3>2, <3>3 DEF PromoteCurrent
    <3>4. CASE PromotionAccepted(w) /\ docOf[job[w]] = d
      <4>1. isCurrent'[job[w]]
        BY <2>2, <3>2, <3>4 DEF PromoteCurrent
      <4> QED
        BY <3>2, <3>4, <4>1
    <3>5. CASE PromotionAccepted(w) /\ docOf[job[w]] # d
      <4>1. f \notin demote[w]
        BY <3>1, <3>2, <3>5 DEF IndInv, PromotionsExclusive
      <4>2. isCurrent'[f]
        BY <2>2, <3>1, <3>5, <4>1 DEF PromoteCurrent
      <4> QED
        BY <3>1, <3>2, <4>2
    <3> QED
      BY <3>3, <3>4, <3>5
  <2>3. CASE UNCHANGED <<docOf, isCurrent>>
    BY <2>3
  <2> QED
    BY <2>1, <2>2, <2>3 DEF Next, WorkerStep, vars, UpdateMetadata, ArchiveDocument,
       ReclaimStaleJobs, ClaimNextPending, NothingPending, ReadDocument, Download,
       ExtractText, ExtractFails, MarkNeedsOcr, UploadArtifact, PersistChunks,
       PersistFails, ReloadAfterError, FailOrRequeue, Crash, BecomeStale
<1> QED
  BY QueueInvariant, <1>1, PTL DEF Spec, CurrentNeverLost

-----------------------------------------------------------------------------
(* The queue implements DocumentCorpus.                                    *)

\* What the pointer to a single current row is.
LEMMA OnlyOne == ASSUME NEW e PROVE Only({e}) = e
BY DEF Only

\* An accepted promotion moves the pointer of one document, to the promoted row.
LEMMA PromotionMovesPointer ==
    ASSUME IndInv, NEW w \in Workers, PromoteCurrent(w), PromotionAccepted(w)
    PROVE  /\ docOf[job[w]] \in Docs
           /\ job[w] \in Extractions
           /\ CurrentOf' = [CurrentOf EXCEPT ![docOf[job[w]]] = job[w]]
<1>1. job[w] \in Extractions /\ docOf[job[w]] \in Docs /\ docOf' = docOf
  BY DEF PromoteCurrent, IndInv, WorkersInformed, RowsExist, TypeOK
<1>2. PICK e \in Extractions : e = job[w]
  BY <1>1
<1>3. PICK d \in Docs : d = docOf[e]
  BY <1>1, <1>2
<1>4. isCurrent' = [f \in Extractions |-> f = e \/ (isCurrent[f] /\ f \notin demote[w])]
  BY <1>2 DEF PromoteCurrent
<1>5. CurrentRows(d)' = {e}
  <2>1. \A f \in Extractions : isCurrent[f] /\ docOf[f] = d => f \in demote[w] \cup {e}
    BY <1>2, <1>3 DEF CurrentRows, PromotionAccepted
  <2>2. \A f \in Extractions : isCurrent'[f] /\ docOf'[f] = d <=> f = e
    BY <1>1, <1>3, <1>4, <2>1
  <2> QED
    BY <2>2 DEF CurrentRows
<1>6. \A c \in Docs : c # d => CurrentRows(c)' = CurrentRows(c)
  <2>1. \A f \in demote[w] : docOf[f] = d
    BY <1>2, <1>3 DEF PromoteCurrent, IndInv, PromotionsExclusive
  <2> SUFFICES ASSUME NEW c \in Docs, c # d PROVE CurrentRows(c)' = CurrentRows(c)
    OBVIOUS
  <2> QED
    BY <1>1, <1>3, <1>4, <2>1 DEF CurrentRows
<1>7. CurrentOf' = [CurrentOf EXCEPT ![d] = e]
  <2>1. Only(CurrentRows(d)') = e
    BY <1>5, OnlyOne
  <2>2. CurrentOf' = [c \in Docs |-> Only(CurrentRows(c)')]
    BY DEF CurrentOf
  <2>3. CurrentOf = [c \in Docs |-> Only(CurrentRows(c))]
    BY DEF CurrentOf
  <2> QED
    BY <1>6, <2>1, <2>2, <2>3
<1> QED
  BY <1>1, <1>2, <1>3, <1>7

\* Whatever does not touch the rows, their chunks or is_current is a stutter.
LEMMA CorpusStutter ==
    ASSUME UNCHANGED <<docOf, isCurrent>> PROVE CurrentOf' = CurrentOf
BY DEF CurrentOf, CurrentRows

\* A new row is not current: enqueueing leaves every pointer where it is.
LEMMA EnqueueKeepsPointers ==
    ASSUME IndInv, NEW d \in Docs, EnqueueExtraction(d) PROVE CurrentOf' = CurrentOf
<1>1. \A c \in Docs : CurrentRows(c)' = CurrentRows(c)
  BY DEF EnqueueExtraction, CurrentRows, IndInv, CurrentIsSafeToRead, TypeOK
<1> QED
  BY <1>1 DEF CurrentOf

\* Readers of chunks see a corpus that changes in one step and is never lost:
\* the queue implements DocumentCorpus for every number of overlapping workers.
THEOREM CorpusImplemented == Spec => ImplementsCorpus
<1>1. Init => Corpus!Init
  <2> SUFFICES ASSUME Init PROVE Corpus!Init
    OBVIOUS
  <2>1. \A d \in Docs : CurrentRows(d) = {}
    BY DEF Init, CurrentRows
  <2>2. CurrentOf = [d \in Docs |-> NoExtraction]
    BY <2>1 DEF CurrentOf, Only
  <2> QED
    BY <2>2 DEF Init, Corpus!Init
<1>2. IndInv /\ [Next]_vars =>
        [Corpus!Next]_<<CurrentOf, {e \in Extractions : chunks[e] # NoClass}>>
  <2> SUFFICES ASSUME IndInv, [Next]_vars
               PROVE  [Corpus!Next]_<<CurrentOf, {e \in Extractions : chunks[e] # NoClass}>>
    OBVIOUS
  <2>1. ASSUME NEW d \in Docs, EnqueueExtraction(d)
        PROVE  UNCHANGED <<CurrentOf, {e \in Extractions : chunks[e] # NoClass}>>
    BY <2>1, EnqueueKeepsPointers DEF EnqueueExtraction
  <2>2. ASSUME NEW w \in Workers, PromoteCurrent(w), ~PromotionAccepted(w)
        PROVE  UNCHANGED <<CurrentOf, {e \in Extractions : chunks[e] # NoClass}>>
    BY <2>2, CorpusStutter DEF PromoteCurrent
  <2>3. ASSUME NEW w \in Workers, PromoteCurrent(w), PromotionAccepted(w)
        PROVE  Corpus!Publish(docOf[job[w]], job[w])
    <3>1. chunks[job[w]] = NoClass /\ copied[w] # NoClass /\ job[w] \in Extractions
      BY <2>3 DEF PromoteCurrent, IndInv, PromotionsExclusive, WorkersInformed
    <3>2. {e \in Extractions : chunks[e] # NoClass}' =
            {e \in Extractions : chunks[e] # NoClass} \cup {job[w]}
      BY <2>3, <3>1 DEF PromoteCurrent, IndInv, TypeOK
    <3> QED
      BY <2>3, <3>1, <3>2, PromotionMovesPointer DEF Corpus!Publish
  <2>4. CASE UNCHANGED <<docOf, isCurrent, chunks>>
    BY <2>4, CorpusStutter
  <2>5. \/ \E d \in Docs : EnqueueExtraction(d)
        \/ \E w \in Workers : PromoteCurrent(w)
        \/ UNCHANGED <<docOf, isCurrent, chunks>>
    BY DEF Next, WorkerStep, vars, rowVars, UpdateMetadata, ArchiveDocument,
       ReclaimStaleJobs, ClaimNextPending, NothingPending, ReadDocument, Download,
       ExtractText, ExtractFails, MarkNeedsOcr, UploadArtifact, PersistChunks,
       PersistFails, ReloadAfterError, FailOrRequeue, Crash, BecomeStale
  <2>6. ASSUME NEW w \in Workers, PromoteCurrent(w), PromotionAccepted(w)
        PROVE  Corpus!Next
    <3>1. Corpus!Publish(docOf[job[w]], job[w])
      BY <2>3, <2>6
    <3>2. docOf[job[w]] \in Docs /\ job[w] \in Extractions
      BY <2>6, PromotionMovesPointer
    <3>3. PICK d \in Docs, e \in Extractions : d = docOf[job[w]] /\ e = job[w]
      BY <3>2
    <3>4. Corpus!Publish(d, e)
      BY <3>1, <3>3, <3>2 DEF Corpus!Publish
    <3> QED
      BY <3>4 DEF Corpus!Next
  <2> QED
    BY <2>1, <2>2, <2>4, <2>5, <2>6
<1> QED
  BY <1>1, <1>2, QueueInvariant, PTL DEF Spec, ImplementsCorpus, Corpus!Spec

-----------------------------------------------------------------------------
(* The attempts of a row, with any number of overlapping workers.          *)

\* The workers about to requeue a row can be counted.
LEMMA DecidingCount ==
    ASSUME NEW e PROVE IsFiniteSet(Deciding(e)) /\ Cardinality(Deciding(e)) \in Nat
BY WorkersAssumption, FS_Subset, FS_CardinalityType DEF Deciding

\* The count a row owes is not larger when fewer workers are about to requeue it.
LEMMA FewerDeciding ==
    ASSUME NEW e, Deciding(e)' \subseteq Deciding(e)
    PROVE  /\ Cardinality(Deciding(e)) \in Nat
           /\ Cardinality(Deciding(e)') \in Nat
           /\ Cardinality(Deciding(e)') <= Cardinality(Deciding(e))
<1>1. IsFiniteSet(Deciding(e)) /\ Cardinality(Deciding(e)) \in Nat
  BY DecidingCount
<1> QED
  BY <1>1, FS_Subset, FS_CardinalityType

\* A worker that leaves the set of those about to requeue e makes it smaller by one.
LEMMA OneDecides ==
    ASSUME NEW e, NEW w \in Deciding(e), Deciding(e)' \subseteq Deciding(e) \ {w}
    PROVE  /\ Cardinality(Deciding(e)) \in Nat
           /\ Cardinality(Deciding(e)') \in Nat
           /\ Cardinality(Deciding(e)') <= Cardinality(Deciding(e)) - 1
<1>1. IsFiniteSet(Deciding(e)) /\ Cardinality(Deciding(e)) \in Nat
  BY DecidingCount
<1>2. IsFiniteSet(Deciding(e) \ {w}) /\ Cardinality(Deciding(e) \ {w}) = Cardinality(Deciding(e)) - 1
  BY <1>1, FS_RemoveElement
<1> QED
  BY <1>1, <1>2, FS_Subset, FS_CardinalityType

\* A worker that is not about to requeue anything leaves room for one claim.
LEMMA RoomForClaim ==
    ASSUME NEW e, NEW w \in Workers, w \notin Deciding(e)
    PROVE  /\ Cardinality(Workers) \in Nat
           /\ Cardinality(Deciding(e)) <= Cardinality(Workers) - 1
<1>1. IsFiniteSet(Workers) /\ Cardinality(Workers) \in Nat
  BY WorkersAssumption, FS_CardinalityType
<1>2. IsFiniteSet(Workers \ {w}) /\ Cardinality(Workers \ {w}) = Cardinality(Workers) - 1
  BY <1>1, FS_RemoveElement
<1>3. Deciding(e) \subseteq Workers \ {w}
  BY DEF Deciding
<1> QED
  BY <1>1, <1>2, <1>3, FS_Subset, FS_CardinalityType

\* A step that claims nothing, reloads nothing and decides nothing: rows enter the
\* queue only with budget left, and nobody starts to decide.
QuietStep ==
    /\ attempts' = attempts
    /\ \A e \in Extractions :
         /\ status'[e] = "pending" => status[e] = "pending" \/ attempts[e] < MaxAttempts
         /\ status'[e] = "absent" => status[e] = "absent"
         /\ Deciding(e)' \subseteq Deciding(e)

\* Every step but the claim, the reload and the decision is quiet.
LEMMA QuietSteps ==
    ASSUME IndInv, NoAttemptBeforeRow, [Next]_vars
    PROVE  \/ QuietStep
           \/ \E w \in Workers : \/ ClaimNextPending(w)
                                 \/ ReloadAfterError(w)
                                 \/ FailOrRequeue(w)
<1> USE DEF QuietStep, Deciding, MayRetry, rowVars, docVars
<1>0. TypeOK /\ LocalTypeOK
  BY DEF IndInv, TypeOK
<1>1. ASSUME NEW d \in Docs, EnqueueExtraction(d) PROVE QuietStep
  BY <1>0, <1>1 DEF EnqueueExtraction, localVars, NoAttemptBeforeRow, TypeOK
<1>2. ASSUME NEW d \in Docs, NEW c \in Classes, UpdateMetadata(d, c) PROVE QuietStep
  BY <1>2 DEF UpdateMetadata, localVars
<1>3. ASSUME NEW d \in Docs, ArchiveDocument(d) PROVE QuietStep
  BY <1>3 DEF ArchiveDocument, localVars
<1>4. ASSUME NEW w \in Workers, ReclaimStaleJobs(w) PROVE QuietStep
  BY <1>0, <1>4 DEF ReclaimStaleJobs, GoTo, localVars, StaleRows, TypeOK, LocalTypeOK
<1>6. ASSUME NEW w \in Workers, NothingPending(w) PROVE QuietStep
  BY <1>0, <1>6 DEF NothingPending, Exit, LocalTypeOK
<1>7. ASSUME NEW w \in Workers, ReadDocument(w) PROVE QuietStep
  BY <1>0, <1>7 DEF ReadDocument, LocalTypeOK
<1>8. ASSUME NEW w \in Workers, Download(w) PROVE QuietStep
  BY <1>0, <1>8 DEF Download, GoTo, Raise, localVars, LocalTypeOK
<1>9. ASSUME NEW w \in Workers, ExtractText(w) PROVE QuietStep
  BY <1>0, <1>9 DEF ExtractText, GoTo, localVars, LocalTypeOK
<1>10. ASSUME NEW w \in Workers, ExtractFails(w) PROVE QuietStep
  BY <1>0, <1>10 DEF ExtractFails, Raise, LocalTypeOK
<1>11. ASSUME NEW w \in Workers, MarkNeedsOcr(w) PROVE QuietStep
  BY <1>0, <1>11 DEF MarkNeedsOcr, Raise, Exit, LocalTypeOK, TypeOK
<1>12. ASSUME NEW w \in Workers, UploadArtifact(w) PROVE QuietStep
  BY <1>0, <1>12 DEF UploadArtifact, GoTo, Raise, localVars, LocalTypeOK
<1>13. ASSUME NEW w \in Workers, PersistChunks(w) PROVE QuietStep
  BY <1>0, <1>13 DEF PersistChunks, Flush, Raise, LocalTypeOK
<1>14. ASSUME NEW w \in Workers, PersistFails(w) PROVE QuietStep
  BY <1>0, <1>14 DEF PersistFails, Raise, LocalTypeOK
<1>15. ASSUME NEW w \in Workers, PromoteCurrent(w) PROVE QuietStep
  BY <1>0, <1>15 DEF PromoteCurrent, Raise, Exit, LocalTypeOK, TypeOK
<1>18. ASSUME NEW w \in Workers, Crash(w) PROVE QuietStep
  BY <1>0, <1>18 DEF Crash, Exit, LocalTypeOK
<1>19. ASSUME NEW e \in Extractions, BecomeStale(e) PROVE QuietStep
  BY <1>19 DEF BecomeStale, localVars
<1>20. CASE UNCHANGED vars
  BY <1>20 DEF vars
<1> HIDE DEF QuietStep
<1> QED
  BY <1>1, <1>2, <1>3, <1>4, <1>6, <1>7, <1>8, <1>9, <1>10, <1>11, <1>12, <1>13,
     <1>14, <1>15, <1>18, <1>19, <1>20 DEF Next, WorkerStep

\* A row that does not exist yet has not been attempted.
LEMMA NoAttemptStep ==
    ASSUME IndInv, NoAttemptBeforeRow, [Next]_vars PROVE NoAttemptBeforeRow'
<1>0. TypeOK
  BY DEF IndInv
<1>1. CASE QuietStep
  BY <1>1 DEF QuietStep, NoAttemptBeforeRow
<1>2. ASSUME NEW w \in Workers, ClaimNextPending(w) PROVE NoAttemptBeforeRow'
  <2>1. PICK g \in Extractions :
           /\ status[g] = "pending"
           /\ status' = [status EXCEPT ![g] = "processing"]
           /\ attempts' = [attempts EXCEPT ![g] = @ + 1]
    BY <1>2 DEF ClaimNextPending, Claimable
  <2> QED
    BY <1>0, <2>1 DEF NoAttemptBeforeRow, TypeOK
<1>3. ASSUME NEW w \in Workers, ReloadAfterError(w) PROVE NoAttemptBeforeRow'
  BY <1>3 DEF ReloadAfterError, NoAttemptBeforeRow, rowVars
<1>4. ASSUME NEW w \in Workers, FailOrRequeue(w) PROVE NoAttemptBeforeRow'
  BY <1>0, <1>4 DEF FailOrRequeue, NoAttemptBeforeRow, TypeOK, IndInv, WorkersInformed
<1> QED
  BY <1>1, <1>2, <1>3, <1>4, QuietSteps

\* Every step keeps count of the claims a row can still have.
LEMMA AttemptsStep ==
    ASSUME IndInv, NoAttemptBeforeRow, AttemptsCounted, [Next]_vars
    PROVE  AttemptsCounted'
<1>0. TypeOK /\ LocalTypeOK /\ TypeOK'
  BY TypeStep DEF IndInv, TypeOK
<1>1. CASE QuietStep
  <2> SUFFICES ASSUME NEW e \in Extractions, attempts'[e] >= MaxAttempts
               PROVE  attempts'[e] + ClaimsLeft(e)' <= MaxAttempts + Cardinality(Workers) - 1
    BY DEF AttemptsCounted
  <2>2. attempts'[e] = attempts[e] /\ attempts[e] \in Nat /\ Cardinality(Workers) \in Nat
    BY <1>0, <1>1, WorkersAssumption, FS_CardinalityType DEF QuietStep, TypeOK
  <2>3. status'[e] = "pending" => status[e] = "pending"
    BY <1>1, <2>2 DEF QuietStep
  <2>4. Deciding(e)' \subseteq Deciding(e)
    BY <1>1 DEF QuietStep
  <2>5. /\ Cardinality(Deciding(e)) \in Nat
        /\ Cardinality(Deciding(e)') \in Nat
        /\ Cardinality(Deciding(e)') <= Cardinality(Deciding(e))
    BY <2>4, FewerDeciding
  <2>6. attempts[e] + ClaimsLeft(e) <= MaxAttempts + Cardinality(Workers) - 1
    BY <2>2 DEF AttemptsCounted
  <2> QED
    BY <2>2, <2>3, <2>5, <2>6 DEF ClaimsLeft
<1>2. ASSUME NEW w \in Workers, ClaimNextPending(w)
      PROVE  AttemptsCounted'
  <2>1. PICK g \in Claimable :
           /\ status' = [status EXCEPT ![g] = "processing"]
           /\ attempts' = [attempts EXCEPT ![g] = @ + 1]
           /\ pc' = [pc EXCEPT ![w] = "read"]
           /\ job' = [job EXCEPT ![w] = g]
           /\ attempt' = [attempt EXCEPT ![w] = attempts[g] + 1]
    BY <1>2 DEF ClaimNextPending
  <2>2. g \in Extractions /\ status[g] = "pending" /\ pc[w] = "claim" /\ transient' = transient
    BY <1>2 DEF ClaimNextPending, Claimable
  <2> SUFFICES ASSUME NEW e \in Extractions, attempts'[e] >= MaxAttempts
               PROVE  attempts'[e] + ClaimsLeft(e)' <= MaxAttempts + Cardinality(Workers) - 1
    BY DEF AttemptsCounted
  <2>4. Deciding(e)' \subseteq Deciding(e) /\ w \notin Deciding(e)
    BY <1>0, <2>1, <2>2 DEF Deciding, MayRetry, LocalTypeOK
  <2>5. /\ Cardinality(Deciding(e)) \in Nat
        /\ Cardinality(Deciding(e)') \in Nat
        /\ Cardinality(Deciding(e)') <= Cardinality(Deciding(e))
    BY <2>4, FewerDeciding
  <2>6. Cardinality(Workers) \in Nat /\ Cardinality(Deciding(e)) <= Cardinality(Workers) - 1
    BY <2>4, RoomForClaim
  <2>7. attempts[e] \in Nat
    BY <1>0 DEF TypeOK
  <2>8. CASE e = g
    <3>1. attempts'[e] = attempts[e] + 1 /\ status'[e] = "processing"
      BY <1>0, <2>1, <2>2, <2>8 DEF TypeOK
    <3>2. attempts[e] >= MaxAttempts =>
             attempts[e] + 1 + Cardinality(Deciding(e)) <= MaxAttempts + Cardinality(Workers) - 1
      BY <2>2, <2>5, <2>6, <2>7, <2>8 DEF AttemptsCounted, ClaimsLeft
    <3> QED
      BY <2>5, <2>6, <2>7, <3>1, <3>2 DEF ClaimsLeft
  <2>9. CASE e # g
    <3>1. attempts'[e] = attempts[e] /\ status'[e] = status[e]
      BY <1>0, <2>1, <2>2, <2>9 DEF TypeOK
    <3>2. attempts[e] + ClaimsLeft(e) <= MaxAttempts + Cardinality(Workers) - 1
      BY <3>1 DEF AttemptsCounted
    <3> QED
      BY <2>5, <2>6, <2>7, <3>1, <3>2 DEF ClaimsLeft
  <2> QED
    BY <2>8, <2>9
<1>3. ASSUME NEW w \in Workers, ReloadAfterError(w)
      PROVE  AttemptsCounted'
  <2>1. status' = status /\ attempts' = attempts /\ job' = job /\ transient' = transient
    BY <1>3 DEF ReloadAfterError, rowVars
  <2> SUFFICES ASSUME NEW e \in Extractions, attempts'[e] >= MaxAttempts
               PROVE  attempts'[e] + ClaimsLeft(e)' <= MaxAttempts + Cardinality(Workers) - 1
    BY DEF AttemptsCounted
  <2>3. attempts[e] \in Nat /\ Cardinality(Workers) \in Nat
    BY <1>0, WorkersAssumption, FS_CardinalityType DEF TypeOK
  <2>4. Deciding(e)' \subseteq Deciding(e)
    BY <1>0, <1>3, <2>1, <2>3 DEF Deciding, MayRetry, LocalTypeOK, ReloadAfterError
  <2>5. /\ Cardinality(Deciding(e)) \in Nat
        /\ Cardinality(Deciding(e)') \in Nat
        /\ Cardinality(Deciding(e)') <= Cardinality(Deciding(e))
    BY <2>4, FewerDeciding
  <2>6. attempts[e] + ClaimsLeft(e) <= MaxAttempts + Cardinality(Workers) - 1
    BY <2>1 DEF AttemptsCounted
  <2> QED
    BY <2>1, <2>3, <2>5, <2>6 DEF ClaimsLeft
<1>4. ASSUME NEW w \in Workers, FailOrRequeue(w)
      PROVE  AttemptsCounted'
  <2>1. PICK g \in Extractions : g = job[w] /\ status[g] # "absent" /\ pc[w] = "fail"
    BY <1>4 DEF FailOrRequeue, IndInv, WorkersInformed
  <2>2. /\ attempts' = attempts
        /\ \/ status' = status
           \/ status' = [status EXCEPT ![g] = IF MayRetry(w) THEN "pending" ELSE "failed"]
    BY <1>4, <2>1 DEF FailOrRequeue
  <2> SUFFICES ASSUME NEW e \in Extractions, attempts'[e] >= MaxAttempts
               PROVE  attempts'[e] + ClaimsLeft(e)' <= MaxAttempts + Cardinality(Workers) - 1
    BY DEF AttemptsCounted
  <2>4. attempts[e] \in Nat /\ Cardinality(Workers) \in Nat
    BY <1>0, WorkersAssumption, FS_CardinalityType DEF TypeOK
  <2>5. Deciding(e)' \subseteq Deciding(e) \ {w}
    BY <1>0, <1>4 DEF Deciding, MayRetry, LocalTypeOK, FailOrRequeue, Exit
  <2>6. attempts[e] + ClaimsLeft(e) <= MaxAttempts + Cardinality(Workers) - 1
    BY <2>2 DEF AttemptsCounted
  <2>7. /\ Cardinality(Deciding(e)) \in Nat
        /\ Cardinality(Deciding(e)') \in Nat
        /\ Cardinality(Deciding(e)') <= Cardinality(Deciding(e))
    BY <2>5, FewerDeciding
  <2>8. CASE status'[e] = "pending" => status[e] = "pending"
    BY <2>2, <2>4, <2>6, <2>7, <2>8 DEF ClaimsLeft
  <2>9. CASE ~(status'[e] = "pending" => status[e] = "pending")
    <3>1. e = g /\ MayRetry(w)
      BY <1>0, <2>2, <2>9 DEF TypeOK
    <3>2. w \in Deciding(e)
      BY <2>1, <3>1 DEF Deciding
    <3>3. Cardinality(Deciding(e)') <= Cardinality(Deciding(e)) - 1
      BY <2>5, <3>2, OneDecides
    <3> QED
      BY <2>2, <2>4, <2>6, <2>7, <2>9, <3>3 DEF ClaimsLeft
  <2> QED
    BY <2>8, <2>9
<1> QED
  BY <1>1, <1>2, <1>3, <1>4, QuietSteps

\* No row is attempted more often than its budget and once more for each further
\* worker, for every number of workers that overlap in any way.
THEOREM AttemptsAreBounded == Spec => []AttemptsBounded
<1>1. Init => NoAttemptBeforeRow /\ AttemptsCounted
  BY DEF Init, NoAttemptBeforeRow, AttemptsCounted
<1>2. IndInv /\ NoAttemptBeforeRow /\ AttemptsCounted /\ [Next]_vars
        => NoAttemptBeforeRow' /\ AttemptsCounted'
  BY AttemptsStep, NoAttemptStep
<1>3. IndInv /\ AttemptsCounted => AttemptsBounded
  <2> SUFFICES ASSUME IndInv, AttemptsCounted, NEW e \in Extractions
               PROVE  attempts[e] <= MaxAttempts + Cardinality(Workers) - 1
    BY DEF AttemptsBounded
  <2>1. attempts[e] \in Nat /\ Cardinality(Workers) \in Nat /\ Cardinality(Deciding(e)) \in Nat
    BY WorkersAssumption, FS_CardinalityType, DecidingCount DEF IndInv, TypeOK
  <2>2. ClaimsLeft(e) \in Nat
    BY <2>1 DEF ClaimsLeft
  <2> QED
    BY <2>1, <2>2 DEF AttemptsCounted
<1> QED
  BY <1>1, <1>2, <1>3, QueueInvariant, PTL DEF Spec

-----------------------------------------------------------------------------
(* One invocation at a time.                                               *)

\* An accepted promotion makes the row of the worker current.
LEMMA PromotedIsCurrent ==
    ASSUME NEW w \in Workers, PromoteCurrent(w), PromotionAccepted(w), job[w] \in Extractions
    PROVE  isCurrent'[job[w]] /\ attempts' = attempts
BY DEF PromoteCurrent

\* The row of the only live invocation stays its own: nobody else claims, reclaims or
\* promotes while it works.
LEMMA HeldStep ==
    ASSUME OneWorker, IndInv, LoneInv, [Next]_vars PROVE RowIsHeld'
<1> USE DEF IndInv, TypeOK, LocalTypeOK, RowsExist, WorkersInformed, CurrentIsSafeToRead, rowVars, docVars, OneWorker, LoneInv, RowIsHeld, Working, Failing, CurrentRows, ChunksIffCompleted
<1>1. ASSUME NEW d \in Docs, EnqueueExtraction(d) PROVE RowIsHeld'
  BY <1>1 DEF EnqueueExtraction, localVars
<1>2. ASSUME NEW d \in Docs, NEW c \in Classes, UpdateMetadata(d, c) PROVE RowIsHeld'
  BY <1>2 DEF UpdateMetadata, localVars
<1>3. ASSUME NEW d \in Docs, ArchiveDocument(d) PROVE RowIsHeld'
  BY <1>3 DEF ArchiveDocument, localVars
<1>4. ASSUME NEW w \in Workers, ReclaimStaleJobs(w) PROVE RowIsHeld'
  BY <1>4 DEF ReclaimStaleJobs, GoTo, localVars, StaleRows
<1>5. ASSUME NEW w \in Workers, ClaimNextPending(w) PROVE RowIsHeld'
  BY <1>5 DEF ClaimNextPending, Claimable
<1>6. ASSUME NEW w \in Workers, NothingPending(w) PROVE RowIsHeld'
  BY <1>6 DEF NothingPending, Exit
<1>7. ASSUME NEW w \in Workers, ReadDocument(w) PROVE RowIsHeld'
  BY <1>7 DEF ReadDocument
<1>8. ASSUME NEW w \in Workers, Download(w) PROVE RowIsHeld'
  BY <1>8 DEF Download, GoTo, Raise, Struck, localVars
<1>9. ASSUME NEW w \in Workers, ExtractText(w) PROVE RowIsHeld'
  BY <1>9 DEF ExtractText, GoTo, localVars
<1>10. ASSUME NEW w \in Workers, ExtractFails(w) PROVE RowIsHeld'
  BY <1>10 DEF ExtractFails, Raise
<1>11. ASSUME NEW w \in Workers, MarkNeedsOcr(w) PROVE RowIsHeld'
  BY <1>11 DEF MarkNeedsOcr, Raise, Exit, CurrentRequiresCompleted
<1>12. ASSUME NEW w \in Workers, UploadArtifact(w) PROVE RowIsHeld'
  BY <1>12 DEF UploadArtifact, GoTo, Raise, Struck, localVars
<1>13. ASSUME NEW w \in Workers, PersistChunks(w) PROVE RowIsHeld'
  BY <1>13 DEF PersistChunks, Flush, Raise, ChunksAccepted
<1>14. ASSUME NEW w \in Workers, PersistFails(w) PROVE RowIsHeld'
  BY <1>14 DEF PersistFails, Raise, Struck
<1>15. ASSUME NEW w \in Workers, PromoteCurrent(w) PROVE RowIsHeld'
  <2>1. PICK g \in Extractions : g = job[w]
    BY <1>15 DEF PromoteCurrent
  <2>2. PromotionAccepted(w) /\ pc[w] = "commit" /\ attempt[w] = attempts[g]
    BY <1>15, <2>1 DEF PromoteCurrent, PromotionAccepted
  <2>3. isCurrent'[g] /\ attempts' = attempts
    BY <1>15, <2>1, <2>2, PromotedIsCurrent
  <2>4. CASE Exit(w)
    BY <2>4 DEF Exit
  <2>5. CASE Raise(w, FALSE)
    <3>1. pc'[w] = "error" /\ job'[w] = g /\ attempt'[w] = attempt[w]
      BY <2>1, <2>5 DEF Raise
    <3> QED
      BY <2>2, <2>3, <3>1
  <2> QED
    BY <1>15, <2>2, <2>4, <2>5 DEF PromoteCurrent
<1>16. ASSUME NEW w \in Workers, ReloadAfterError(w) PROVE RowIsHeld'
  BY <1>16 DEF ReloadAfterError
<1>17. ASSUME NEW w \in Workers, FailOrRequeue(w) PROVE RowIsHeld'
  BY <1>17 DEF FailOrRequeue, Exit, CurrentRequiresCompleted, MayRetry
<1>18. ASSUME NEW w \in Workers, Crash(w) PROVE RowIsHeld'
  BY <1>18 DEF Crash, Exit, Struck
<1>19. ASSUME NEW e \in Extractions, BecomeStale(e) PROVE RowIsHeld'
  BY <1>19 DEF BecomeStale, localVars
<1>20. CASE UNCHANGED vars
  BY <1>20 DEF vars, localVars
<1> QED
  BY <1>1, <1>2, <1>3, <1>4, <1>5, <1>6, <1>7, <1>8, <1>9, <1>10, <1>11, <1>12, <1>13, <1>14, <1>15, <1>16, <1>17, <1>18, <1>19, <1>20
     DEF Next, WorkerStep

\* A row enters the queue only with budget left, and a claim uses one attempt of it.
LEMMA BudgetStep ==
    ASSUME OneWorker, IndInv, LoneInv, [Next]_vars PROVE BudgetKept'
<1> USE DEF IndInv, TypeOK, LocalTypeOK, RowsExist, WorkersInformed, CurrentIsSafeToRead, rowVars, docVars, OneWorker, LoneInv, RowIsHeld, Working, Failing, BudgetKept
<1>1. ASSUME NEW d \in Docs, EnqueueExtraction(d) PROVE BudgetKept'
  BY <1>1 DEF EnqueueExtraction, localVars
<1>2. ASSUME NEW d \in Docs, NEW c \in Classes, UpdateMetadata(d, c) PROVE BudgetKept'
  BY <1>2 DEF UpdateMetadata, localVars
<1>3. ASSUME NEW d \in Docs, ArchiveDocument(d) PROVE BudgetKept'
  BY <1>3 DEF ArchiveDocument, localVars
<1>4. ASSUME NEW w \in Workers, ReclaimStaleJobs(w) PROVE BudgetKept'
  BY <1>4 DEF ReclaimStaleJobs, GoTo, localVars, StaleRows
<1>5. ASSUME NEW w \in Workers, ClaimNextPending(w) PROVE BudgetKept'
  BY <1>5 DEF ClaimNextPending, Claimable
<1>6. ASSUME NEW w \in Workers, NothingPending(w) PROVE BudgetKept'
  BY <1>6 DEF NothingPending, Exit
<1>7. ASSUME NEW w \in Workers, ReadDocument(w) PROVE BudgetKept'
  BY <1>7 DEF ReadDocument
<1>8. ASSUME NEW w \in Workers, Download(w) PROVE BudgetKept'
  BY <1>8 DEF Download, GoTo, Raise, Struck, localVars
<1>9. ASSUME NEW w \in Workers, ExtractText(w) PROVE BudgetKept'
  BY <1>9 DEF ExtractText, GoTo, localVars
<1>10. ASSUME NEW w \in Workers, ExtractFails(w) PROVE BudgetKept'
  BY <1>10 DEF ExtractFails, Raise
<1>11. ASSUME NEW w \in Workers, MarkNeedsOcr(w) PROVE BudgetKept'
  BY <1>11 DEF MarkNeedsOcr, Raise, Exit, CurrentRequiresCompleted
<1>12. ASSUME NEW w \in Workers, UploadArtifact(w) PROVE BudgetKept'
  BY <1>12 DEF UploadArtifact, GoTo, Raise, Struck, localVars
<1>13. ASSUME NEW w \in Workers, PersistChunks(w) PROVE BudgetKept'
  BY <1>13 DEF PersistChunks, Flush, Raise, ChunksAccepted
<1>14. ASSUME NEW w \in Workers, PersistFails(w) PROVE BudgetKept'
  BY <1>14 DEF PersistFails, Raise, Struck
<1>15. ASSUME NEW w \in Workers, PromoteCurrent(w) PROVE BudgetKept'
  BY <1>15 DEF PromoteCurrent, PromotionAccepted, Raise, Exit, Struck
<1>16. ASSUME NEW w \in Workers, ReloadAfterError(w) PROVE BudgetKept'
  BY <1>16 DEF ReloadAfterError
<1>17. ASSUME NEW w \in Workers, FailOrRequeue(w) PROVE BudgetKept'
  BY <1>17 DEF FailOrRequeue, Exit, CurrentRequiresCompleted, MayRetry
<1>18. ASSUME NEW w \in Workers, Crash(w) PROVE BudgetKept'
  BY <1>18 DEF Crash, Exit, Struck
<1>19. ASSUME NEW e \in Extractions, BecomeStale(e) PROVE BudgetKept'
  BY <1>19 DEF BecomeStale, localVars
<1>20. CASE UNCHANGED vars
  BY <1>20 DEF vars, localVars
<1> QED
  BY <1>1, <1>2, <1>3, <1>4, <1>5, <1>6, <1>7, <1>8, <1>9, <1>10, <1>11, <1>12, <1>13, <1>14, <1>15, <1>16, <1>17, <1>18, <1>19, <1>20
     DEF Next, WorkerStep

\* Chunks are stored in the very step that completes the row, and no completed row is
\* ever given back.
LEMMA ChunksStep ==
    ASSUME OneWorker, IndInv, LoneInv, [Next]_vars PROVE ChunksIffCompleted'
<1> USE DEF IndInv, TypeOK, LocalTypeOK, RowsExist, WorkersInformed, CurrentIsSafeToRead, rowVars, docVars, OneWorker, LoneInv, RowIsHeld, Working, Failing, ChunksIffCompleted, CurrentRows
<1>1. ASSUME NEW d \in Docs, EnqueueExtraction(d) PROVE ChunksIffCompleted'
  BY <1>1 DEF EnqueueExtraction, localVars
<1>2. ASSUME NEW d \in Docs, NEW c \in Classes, UpdateMetadata(d, c) PROVE ChunksIffCompleted'
  BY <1>2 DEF UpdateMetadata, localVars
<1>3. ASSUME NEW d \in Docs, ArchiveDocument(d) PROVE ChunksIffCompleted'
  BY <1>3 DEF ArchiveDocument, localVars
<1>4. ASSUME NEW w \in Workers, ReclaimStaleJobs(w) PROVE ChunksIffCompleted'
  BY <1>4 DEF ReclaimStaleJobs, GoTo, localVars, StaleRows
<1>5. ASSUME NEW w \in Workers, ClaimNextPending(w) PROVE ChunksIffCompleted'
  BY <1>5 DEF ClaimNextPending, Claimable
<1>6. ASSUME NEW w \in Workers, NothingPending(w) PROVE ChunksIffCompleted'
  BY <1>6 DEF NothingPending, Exit
<1>7. ASSUME NEW w \in Workers, ReadDocument(w) PROVE ChunksIffCompleted'
  BY <1>7 DEF ReadDocument
<1>8. ASSUME NEW w \in Workers, Download(w) PROVE ChunksIffCompleted'
  BY <1>8 DEF Download, GoTo, Raise, Struck, localVars
<1>9. ASSUME NEW w \in Workers, ExtractText(w) PROVE ChunksIffCompleted'
  BY <1>9 DEF ExtractText, GoTo, localVars
<1>10. ASSUME NEW w \in Workers, ExtractFails(w) PROVE ChunksIffCompleted'
  BY <1>10 DEF ExtractFails, Raise
<1>11. ASSUME NEW w \in Workers, MarkNeedsOcr(w) PROVE ChunksIffCompleted'
  BY <1>11 DEF MarkNeedsOcr, Raise, Exit, CurrentRequiresCompleted
<1>12. ASSUME NEW w \in Workers, UploadArtifact(w) PROVE ChunksIffCompleted'
  BY <1>12 DEF UploadArtifact, GoTo, Raise, Struck, localVars
<1>13. ASSUME NEW w \in Workers, PersistChunks(w) PROVE ChunksIffCompleted'
  BY <1>13 DEF PersistChunks, Flush, Raise, ChunksAccepted
<1>14. ASSUME NEW w \in Workers, PersistFails(w) PROVE ChunksIffCompleted'
  BY <1>14 DEF PersistFails, Raise, Struck
<1>15. ASSUME NEW w \in Workers, PromoteCurrent(w) PROVE ChunksIffCompleted'
  BY <1>15 DEF PromoteCurrent, PromotionAccepted, Raise, Exit, Struck
<1>16. ASSUME NEW w \in Workers, ReloadAfterError(w) PROVE ChunksIffCompleted'
  BY <1>16 DEF ReloadAfterError
<1>17. ASSUME NEW w \in Workers, FailOrRequeue(w) PROVE ChunksIffCompleted'
  BY <1>17 DEF FailOrRequeue, Exit, CurrentRequiresCompleted, MayRetry
<1>18. ASSUME NEW w \in Workers, Crash(w) PROVE ChunksIffCompleted'
  BY <1>18 DEF Crash, Exit, Struck
<1>19. ASSUME NEW e \in Extractions, BecomeStale(e) PROVE ChunksIffCompleted'
  BY <1>19 DEF BecomeStale, localVars
<1>20. CASE UNCHANGED vars
  BY <1>20 DEF vars, localVars
<1> QED
  BY <1>1, <1>2, <1>3, <1>4, <1>5, <1>6, <1>7, <1>8, <1>9, <1>10, <1>11, <1>12, <1>13, <1>14, <1>15, <1>16, <1>17, <1>18, <1>19, <1>20
     DEF Next, WorkerStep

\* An attempt on a readable PDF that ends without chunks was struck by a fault.
LEMMA RecordedStep ==
    ASSUME "database" \notin Faults, OneWorker, IndInv, LoneInv, RetryInv, [Next]_vars PROVE FaultsRecorded'
<1> USE DEF IndInv, TypeOK, LocalTypeOK, RowsExist, WorkersInformed, CurrentIsSafeToRead, rowVars, docVars, OneWorker, LoneInv, RowIsHeld, Working, Failing, BudgetKept, ChunksIffCompleted, CurrentRows, RetryInv, FaultsRecorded, Underway, FailuresTransient, NoAttemptBeforeRow
<1>1. ASSUME NEW d \in Docs, EnqueueExtraction(d) PROVE FaultsRecorded'
  BY ContentAssumption, <1>1 DEF EnqueueExtraction, localVars
<1>2. ASSUME NEW d \in Docs, NEW c \in Classes, UpdateMetadata(d, c) PROVE FaultsRecorded'
  BY ContentAssumption, <1>2 DEF UpdateMetadata, localVars
<1>3. ASSUME NEW d \in Docs, ArchiveDocument(d) PROVE FaultsRecorded'
  BY ContentAssumption, <1>3 DEF ArchiveDocument, localVars
<1>4. ASSUME NEW w \in Workers, ReclaimStaleJobs(w) PROVE FaultsRecorded'
  BY ContentAssumption, <1>4 DEF ReclaimStaleJobs, GoTo, localVars, StaleRows
<1>5. ASSUME NEW w \in Workers, ClaimNextPending(w) PROVE FaultsRecorded'
  <2>1. PICK g \in Extractions :
           /\ status[g] = "pending"
           /\ status' = [status EXCEPT ![g] = "processing"]
           /\ attempts' = [attempts EXCEPT ![g] = @ + 1]
           /\ pc' = [pc EXCEPT ![w] = "read"]
           /\ job' = [job EXCEPT ![w] = g]
    BY <1>5 DEF ClaimNextPending, Claimable
  <2>2. pc[w] = "claim" /\ docOf' = docOf /\ faults' = faults
    BY <1>5 DEF ClaimNextPending
  <2>3. \A e \in Extractions : ~Underway(e)
    BY <2>2
  <2>4. pc'[w] = "read" /\ job'[w] = g
    BY <2>1
  <2>5. Underway(g)'
    BY <2>4
  <2>6. attempts'[g] = attempts[g] + 1 /\ status'[g] = "processing" /\ attempts[g] \in Nat
    BY <2>1
  <2>7. \A e \in Extractions : e # g => attempts'[e] = attempts[e] /\ status'[e] = status[e]
    BY <2>1
  <2> HIDE DEF Underway
  <2> QED
    BY <2>2, <2>1, <2>3, <2>5, <2>6, <2>7
<1>6. ASSUME NEW w \in Workers, NothingPending(w) PROVE FaultsRecorded'
  BY ContentAssumption, <1>6 DEF NothingPending, Exit
<1>7. ASSUME NEW w \in Workers, ReadDocument(w) PROVE FaultsRecorded'
  BY ContentAssumption, <1>7 DEF ReadDocument
<1>8. ASSUME NEW w \in Workers, Download(w) PROVE FaultsRecorded'
  BY ContentAssumption, <1>8 DEF Download, GoTo, Raise, Struck, localVars
<1>9. ASSUME NEW w \in Workers, ExtractText(w) PROVE FaultsRecorded'
  BY ContentAssumption, <1>9 DEF ExtractText, GoTo, localVars
<1>10. ASSUME NEW w \in Workers, ExtractFails(w) PROVE FaultsRecorded'
  BY ContentAssumption, <1>10 DEF ExtractFails, Raise
<1>11. ASSUME NEW w \in Workers, MarkNeedsOcr(w) PROVE FaultsRecorded'
  BY ContentAssumption, <1>11 DEF MarkNeedsOcr, Raise, Exit, CurrentRequiresCompleted
<1>12. ASSUME NEW w \in Workers, UploadArtifact(w) PROVE FaultsRecorded'
  BY ContentAssumption, <1>12 DEF UploadArtifact, GoTo, Raise, Struck, localVars
<1>13. ASSUME NEW w \in Workers, PersistChunks(w) PROVE FaultsRecorded'
  BY ContentAssumption, <1>13 DEF PersistChunks, Flush, Raise, ChunksAccepted
<1>14. ASSUME NEW w \in Workers, PersistFails(w) PROVE FaultsRecorded'
  BY ContentAssumption, <1>14 DEF PersistFails, Raise, Struck
<1>15. ASSUME NEW w \in Workers, PromoteCurrent(w) PROVE FaultsRecorded'
  BY ContentAssumption, <1>15 DEF PromoteCurrent, PromotionAccepted, Raise, Exit, Struck
<1>16. ASSUME NEW w \in Workers, ReloadAfterError(w) PROVE FaultsRecorded'
  BY ContentAssumption, <1>16 DEF ReloadAfterError
<1>17. ASSUME NEW w \in Workers, FailOrRequeue(w) PROVE FaultsRecorded'
  BY ContentAssumption, <1>17 DEF FailOrRequeue, Exit, CurrentRequiresCompleted, MayRetry
<1>18. ASSUME NEW w \in Workers, Crash(w) PROVE FaultsRecorded'
  BY ContentAssumption, <1>18 DEF Crash, Exit, Struck
<1>19. ASSUME NEW e \in Extractions, BecomeStale(e) PROVE FaultsRecorded'
  BY ContentAssumption, <1>19 DEF BecomeStale, localVars
<1>20. CASE UNCHANGED vars
  BY <1>20 DEF vars, localVars
<1> QED
  BY <1>1, <1>2, <1>3, <1>4, <1>5, <1>6, <1>7, <1>8, <1>9, <1>10, <1>11, <1>12, <1>13, <1>14, <1>15, <1>16, <1>17, <1>18, <1>19, <1>20
     DEF Next, WorkerStep

\* When the database answers, a readable PDF fails only by a StorageError.
LEMMA TransientStep ==
    ASSUME "database" \notin Faults, OneWorker, IndInv, LoneInv, RetryInv, [Next]_vars PROVE FailuresTransient'
<1> USE DEF IndInv, TypeOK, LocalTypeOK, RowsExist, WorkersInformed, CurrentIsSafeToRead, rowVars, docVars, OneWorker, LoneInv, RowIsHeld, Working, Failing, ChunksIffCompleted, CurrentRows, RetryInv, FailuresTransient
<1>1. ASSUME NEW d \in Docs, EnqueueExtraction(d) PROVE FailuresTransient'
  BY ContentAssumption, <1>1 DEF EnqueueExtraction, localVars
<1>2. ASSUME NEW d \in Docs, NEW c \in Classes, UpdateMetadata(d, c) PROVE FailuresTransient'
  BY ContentAssumption, <1>2 DEF UpdateMetadata, localVars
<1>3. ASSUME NEW d \in Docs, ArchiveDocument(d) PROVE FailuresTransient'
  BY ContentAssumption, <1>3 DEF ArchiveDocument, localVars
<1>4. ASSUME NEW w \in Workers, ReclaimStaleJobs(w) PROVE FailuresTransient'
  BY ContentAssumption, <1>4 DEF ReclaimStaleJobs, GoTo, localVars, StaleRows
<1>5. ASSUME NEW w \in Workers, ClaimNextPending(w) PROVE FailuresTransient'
  BY ContentAssumption, <1>5 DEF ClaimNextPending, Claimable
<1>6. ASSUME NEW w \in Workers, NothingPending(w) PROVE FailuresTransient'
  BY ContentAssumption, <1>6 DEF NothingPending, Exit
<1>7. ASSUME NEW w \in Workers, ReadDocument(w) PROVE FailuresTransient'
  BY ContentAssumption, <1>7 DEF ReadDocument
<1>8. ASSUME NEW w \in Workers, Download(w) PROVE FailuresTransient'
  BY ContentAssumption, <1>8 DEF Download, GoTo, Raise, Struck, localVars
<1>9. ASSUME NEW w \in Workers, ExtractText(w) PROVE FailuresTransient'
  BY ContentAssumption, <1>9 DEF ExtractText, GoTo, localVars
<1>10. ASSUME NEW w \in Workers, ExtractFails(w) PROVE FailuresTransient'
  BY ContentAssumption, <1>10 DEF ExtractFails, Raise
<1>11. ASSUME NEW w \in Workers, MarkNeedsOcr(w) PROVE FailuresTransient'
  BY ContentAssumption, <1>11 DEF MarkNeedsOcr, Raise, Exit, CurrentRequiresCompleted
<1>12. ASSUME NEW w \in Workers, UploadArtifact(w) PROVE FailuresTransient'
  BY ContentAssumption, <1>12 DEF UploadArtifact, GoTo, Raise, Struck, localVars
<1>13. ASSUME NEW w \in Workers, PersistChunks(w) PROVE FailuresTransient'
  BY ContentAssumption, <1>13 DEF PersistChunks, Flush, Raise, ChunksAccepted
<1>14. ASSUME NEW w \in Workers, PersistFails(w) PROVE FailuresTransient'
  BY ContentAssumption, <1>14 DEF PersistFails, Raise, Struck
<1>15. ASSUME NEW w \in Workers, PromoteCurrent(w) PROVE FailuresTransient'
  BY ContentAssumption, <1>15 DEF PromoteCurrent, PromotionAccepted, Raise, Exit, Struck
<1>16. ASSUME NEW w \in Workers, ReloadAfterError(w) PROVE FailuresTransient'
  BY ContentAssumption, <1>16 DEF ReloadAfterError
<1>17. ASSUME NEW w \in Workers, FailOrRequeue(w) PROVE FailuresTransient'
  BY ContentAssumption, <1>17 DEF FailOrRequeue, Exit, CurrentRequiresCompleted, MayRetry
<1>18. ASSUME NEW w \in Workers, Crash(w) PROVE FailuresTransient'
  BY ContentAssumption, <1>18 DEF Crash, Exit, Struck
<1>19. ASSUME NEW e \in Extractions, BecomeStale(e) PROVE FailuresTransient'
  BY ContentAssumption, <1>19 DEF BecomeStale, localVars
<1>20. CASE UNCHANGED vars
  BY <1>20 DEF vars, localVars
<1> QED
  BY <1>1, <1>2, <1>3, <1>4, <1>5, <1>6, <1>7, <1>8, <1>9, <1>10, <1>11, <1>12, <1>13, <1>14, <1>15, <1>16, <1>17, <1>18, <1>19, <1>20
     DEF Next, WorkerStep

\* With one invocation at a time, every step keeps what ties the row to it.
LEMMA LoneStep ==
    ASSUME OneWorker PROVE IndInv /\ LoneInv /\ [Next]_vars => LoneInv'
<1> SUFFICES ASSUME IndInv, LoneInv, [Next]_vars PROVE LoneInv'
  OBVIOUS
<1> QED
  BY HeldStep, BudgetStep, ChunksStep DEF LoneInv

\* The invariant of one invocation at a time holds, whatever fails.
THEOREM LoneInvariant == ASSUME OneWorker PROVE Spec => []LoneInv
<1>1. Init => LoneInv
  BY DEF Init, LoneInv, RowIsHeld, Working, BudgetKept, ChunksIffCompleted
<1> QED
  BY <1>1, LoneStep, QueueInvariant, PTL DEF Spec

\* With one invocation at a time a row has chunks exactly when it is completed,
\* whatever fails: no partial output of a failed attempt is ever visible.
THEOREM ChunksMeanCompleted == ASSUME OneWorker PROVE Spec => []ChunksIffCompleted
<1>1. LoneInv => ChunksIffCompleted
  BY DEF LoneInv
<1> QED
  BY <1>1, LoneInvariant, PTL

\* With one invocation at a time and a database that answers, an extraction of a
\* readable PDF fails only when a fault struck each of its MaxAttempts attempts.
THEOREM BudgetHonoured ==
    ASSUME OneWorker, "database" \notin Faults PROVE Spec => []RetryBudgetHonoured
<1>1. Init => RetryInv
  BY NoDocAssumption DEF Init, RetryInv, NoAttemptBeforeRow, FaultsRecorded,
     FailuresTransient, Failing, Docs
<1>2. IndInv /\ LoneInv /\ RetryInv /\ [Next]_vars => RetryInv'
  <2> SUFFICES ASSUME IndInv, LoneInv, RetryInv, [Next]_vars PROVE RetryInv'
    OBVIOUS
  <2>1. NoAttemptBeforeRow'
    BY NoAttemptStep DEF RetryInv
  <2> QED
    BY <2>1, RecordedStep, TransientStep DEF RetryInv
<1>3. IndInv /\ LoneInv /\ RetryInv => RetryBudgetHonoured
  <2> SUFFICES ASSUME IndInv, LoneInv, RetryInv, NEW e \in Extractions,
                      status[e] = "failed", docOf[e] \in TextDocs, NEW n \in 1 .. MaxAttempts
               PROVE  n \in faults[e]
    BY DEF RetryBudgetHonoured
  <2>1. attempts[e] \in Nat /\ attempts[e] >= MaxAttempts
    BY DEF IndInv, TypeOK, RetryInv, FaultsRecorded
  <2>2. n \in 1 .. attempts[e]
    BY <2>1
  <2>3. ~Underway(e)
    BY DEF LoneInv, RowIsHeld, Underway
  <2> QED
    BY <2>2, <2>3 DEF RetryInv, FaultsRecorded
<1> QED
  BY <1>1, <1>2, <1>3, LoneInvariant, QueueInvariant, PTL DEF Spec

-----------------------------------------------------------------------------
(* The queue implements ExtractionLifecycle, one invocation at a time.     *)

\* A step of the only invocation, as the life of an extraction shows it.
LEMMA LifecycleStep ==
    ASSUME OneWorker, IndInv, LoneInv, [Next]_vars
    PROVE  [Lifecycle!Next]_<<status, attempts, CurrentOf>>
<1> DEFINE Step == [Lifecycle!Next]_<<status, attempts, CurrentOf>>
<1>1. ASSUME NEW d \in Docs, EnqueueExtraction(d) PROVE Step
  <2>1. PICK e \in Extractions :
           status[e] = "absent" /\ status' = [status EXCEPT ![e] = "pending"]
    BY <1>1 DEF EnqueueExtraction
  <2>2. attempts' = attempts /\ CurrentOf' = CurrentOf
    BY <1>1, EnqueueKeepsPointers DEF EnqueueExtraction
  <2>3. Lifecycle!Request(e)
    BY <2>1, <2>2 DEF Lifecycle!Request
  <2> QED
    BY <2>3 DEF Lifecycle!Next
<1>2. ASSUME NEW w \in Workers, ReclaimStaleJobs(w) PROVE Step
  <2>1. attempts' = attempts /\ CurrentOf' = CurrentOf
    BY <1>2, CorpusStutter DEF ReclaimStaleJobs
  <2>2. \A e \in Extractions : (attempts[e] >= MaxAttempts) = ~(attempts[e] < MaxAttempts)
    BY DEF IndInv, TypeOK
  <2>3. status' = [e \in Extractions |->
                     IF e \notin StaleRows THEN status[e]
                     ELSE IF attempts[e] < MaxAttempts THEN "pending" ELSE "failed"]
    BY <1>2, <2>2 DEF ReclaimStaleJobs
  <2>4. StaleRows \in SUBSET Extractions /\ \A e \in StaleRows : status[e] = "processing"
    BY DEF StaleRows
  <2>5. Lifecycle!GiveUp(StaleRows)
    BY <2>1, <2>3, <2>4 DEF Lifecycle!GiveUp
  <2> QED
    BY <2>4, <2>5 DEF Lifecycle!Next
<1>3. ASSUME NEW w \in Workers, ClaimNextPending(w) PROVE Step
  <2>1. PICK e \in Extractions :
           /\ status[e] = "pending"
           /\ status' = [status EXCEPT ![e] = "processing"]
           /\ attempts' = [attempts EXCEPT ![e] = @ + 1]
    BY <1>3 DEF ClaimNextPending, Claimable
  <2>2. CurrentOf' = CurrentOf /\ attempts[e] < MaxAttempts
    BY <1>3, <2>1, CorpusStutter DEF ClaimNextPending, LoneInv, BudgetKept
  <2>3. Lifecycle!Attempt(e)
    BY <2>1, <2>2 DEF Lifecycle!Attempt
  <2> QED
    BY <2>3 DEF Lifecycle!Next
<1>4. ASSUME NEW w \in Workers, MarkNeedsOcr(w) PROVE Step
  <2>1. PICK e \in Extractions : e = job[w] /\ status[e] = "processing"
    BY <1>4 DEF MarkNeedsOcr, IndInv, WorkersInformed, LoneInv, RowIsHeld, Working, Failing
  <2>2. attempts' = attempts /\ CurrentOf' = CurrentOf
    BY <1>4, CorpusStutter DEF MarkNeedsOcr
  <2>3. \/ status' = status
        \/ status' = [status EXCEPT ![e] = "needs_ocr"]
    BY <1>4, <2>1 DEF MarkNeedsOcr
  <2>4. CASE status' = [status EXCEPT ![e] = "needs_ocr"]
    <3>1. Lifecycle!Reject(e, "needs_ocr")
      BY <2>1, <2>2, <2>4 DEF Lifecycle!Reject
    <3> QED
      BY <3>1 DEF Lifecycle!Next
  <2> QED
    BY <2>2, <2>3, <2>4
<1>5. ASSUME NEW w \in Workers, PromoteCurrent(w) PROVE Step
  <2>1. PICK e \in Extractions : e = job[w] /\ status[e] = "processing"
    BY <1>5 DEF PromoteCurrent, IndInv, WorkersInformed, LoneInv, RowIsHeld, Working, Failing
  <2>2. PromotionAccepted(w)
    BY <1>5 DEF PromoteCurrent, PromotionAccepted, LoneInv, RowIsHeld
  <2>3. PICK d \in Docs : d = docOf[job[w]]
    BY <1>5, <2>2, PromotionMovesPointer
  <2>4. CurrentOf' = [CurrentOf EXCEPT ![d] = e]
    BY <1>5, <2>1, <2>2, <2>3, PromotionMovesPointer
  <2>5. status' = [status EXCEPT ![e] = "completed"] /\ attempts' = attempts
    BY <1>5, <2>1, <2>2 DEF PromoteCurrent
  <2>6. Lifecycle!Complete(e, d)
    BY <2>1, <2>4, <2>5 DEF Lifecycle!Complete
  <2> QED
    BY <2>6 DEF Lifecycle!Next
<1>6. ASSUME NEW w \in Workers, FailOrRequeue(w) PROVE Step
  <2>1. PICK e \in Extractions : e = job[w] /\ attempt[w] = attempts[e]
    BY <1>6 DEF FailOrRequeue, IndInv, WorkersInformed, LoneInv, RowIsHeld, Working
  <2>2. attempts' = attempts /\ CurrentOf' = CurrentOf
    BY <1>6, CorpusStutter DEF FailOrRequeue
  <2>3. CASE isCurrent[e]
    <3>1. status' = status
      BY <1>6, <2>1, <2>3 DEF FailOrRequeue, CurrentRequiresCompleted
    <3> QED
      BY <2>2, <3>1
  <2>4. CASE ~isCurrent[e]
    <3>1. status[e] = "processing"
      BY <1>6, <2>1, <2>4 DEF FailOrRequeue, LoneInv, RowIsHeld, Working
    <3>2. status' = [status EXCEPT ![e] = IF MayRetry(w) THEN "pending" ELSE "failed"]
      BY <1>6, <2>1, <2>4 DEF FailOrRequeue, CurrentRequiresCompleted
    <3>3. CASE MayRetry(w)
      <4>1. attempts[e] < MaxAttempts
        BY <2>1, <3>3 DEF MayRetry
      <4>2. status' = [f \in Extractions |->
                         IF f \notin {e} THEN status[f]
                         ELSE IF attempts[f] < MaxAttempts THEN "pending" ELSE "failed"]
        BY <3>2, <3>3, <4>1 DEF IndInv, TypeOK
      <4>3. Lifecycle!GiveUp({e})
        BY <2>2, <3>1, <4>2 DEF Lifecycle!GiveUp
      <4> QED
        BY <4>3 DEF Lifecycle!Next
    <3>4. CASE ~MayRetry(w)
      <4>1. Lifecycle!Reject(e, "failed")
        BY <2>2, <3>1, <3>2, <3>4 DEF Lifecycle!Reject
      <4> QED
        BY <4>1 DEF Lifecycle!Next
    <3> QED
      BY <3>3, <3>4
  <2> QED
    BY <2>3, <2>4
<1>7. CASE UNCHANGED <<status, attempts, docOf, isCurrent>>
  BY <1>7, CorpusStutter
<1>8. \/ \E d \in Docs : EnqueueExtraction(d)
      \/ \E w \in Workers : \/ ReclaimStaleJobs(w) \/ ClaimNextPending(w)
                            \/ MarkNeedsOcr(w) \/ PromoteCurrent(w) \/ FailOrRequeue(w)
      \/ UNCHANGED <<status, attempts, docOf, isCurrent>>
  BY DEF Next, WorkerStep, vars, rowVars, UpdateMetadata, ArchiveDocument,
     NothingPending, ReadDocument, Download, ExtractText, ExtractFails, UploadArtifact,
     PersistChunks, PersistFails, ReloadAfterError, Crash, BecomeStale
<1> HIDE DEF Step
<1> QED
  BY <1>1, <1>2, <1>3, <1>4, <1>5, <1>6, <1>7, <1>8 DEF Step

\* When invocations do not overlap, an extraction lives as the API documents it:
\* bounded attempts, then settled for good, whatever crashes, fails or is reclaimed.
THEOREM LifecycleImplemented == ASSUME OneWorker PROVE Spec => ImplementsLifecycle
<1>1. Init => Lifecycle!Init
  <2> SUFFICES ASSUME Init PROVE Lifecycle!Init
    OBVIOUS
  <2>1. \A d \in Docs : CurrentRows(d) = {}
    BY DEF Init, CurrentRows
  <2>2. CurrentOf = [d \in Docs |-> NoExtraction]
    BY <2>1 DEF CurrentOf, Only
  <2> QED
    BY <2>2 DEF Init, Lifecycle!Init
<1>2. IndInv /\ LoneInv /\ [Next]_vars => [Lifecycle!Next]_<<status, attempts, CurrentOf>>
  BY LifecycleStep
<1> QED
  BY <1>1, <1>2, LoneInvariant, QueueInvariant, PTL
     DEF Spec, ImplementsLifecycle, Lifecycle!Spec, Lifecycle!vars
=============================================================================
