------------------------ MODULE MCDocumentExtraction ------------------------
(* Small instances of DocumentExtraction for TLC.                           *)
EXTENDS DocumentExtractionRefinement, TLC

\* Workers are interchangeable; documents of one kind are too.
Symmetric == Permutations(Workers)
=============================================================================
