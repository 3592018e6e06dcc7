--------------------------- MODULE DocumentCorpus ---------------------------
(***************************************************************************)
(* What the extraction queue promises to the readers of chunks, however    *)
(* many workers run and whatever fails: the chunks of an extraction appear *)
(* all at once and for good, in the very step that makes the extraction    *)
(* the current one of its document, and a document that has a current      *)
(* extraction keeps having exactly one.                                    *)
(***************************************************************************)
CONSTANTS Docs, Extractions, None

VARIABLES
    corpus,     \* the current extraction of each document, or None
    published   \* the extractions whose chunks can be read

Init ==
    /\ corpus = [d \in Docs |-> None]
    /\ published = {}

Publish(d, e) ==
    /\ e \notin published
    /\ published' = published \cup {e}
    /\ corpus' = [corpus EXCEPT ![d] = e]

Next == \E d \in Docs, e \in Extractions : Publish(d, e)

Spec == Init /\ [][Next]_<<corpus, published>>
=============================================================================
