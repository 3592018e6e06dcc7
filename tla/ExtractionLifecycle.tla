------------------------ MODULE ExtractionLifecycle ------------------------
(***************************************************************************)
(* The life of extractions as the API shows it when worker invocations do  *)
(* not overlap: an extraction is requested, attempted, perhaps returned to *)
(* the queue, and settled once and for all; a bounded number of attempts;  *)
(* completion and promotion are one event.                                 *)
(***************************************************************************)
EXTENDS Naturals

CONSTANTS Docs, Extractions, MaxAttempts, None

VARIABLES
    phase,      \* document_extraction.status as the API reports it
    tries,      \* attempt_count
    corpus      \* the current extraction of each document, or None

vars == <<phase, tries, corpus>>

Init ==
    /\ phase = [e \in Extractions |-> "absent"]
    /\ tries = [e \in Extractions |-> 0]
    /\ corpus = [d \in Docs |-> None]

Request(e) ==
    /\ phase[e] = "absent"
    /\ phase' = [phase EXCEPT ![e] = "pending"]
    /\ UNCHANGED <<tries, corpus>>

Attempt(e) ==
    /\ phase[e] = "pending"
    /\ tries[e] < MaxAttempts
    /\ phase' = [phase EXCEPT ![e] = "processing"]
    /\ tries' = [tries EXCEPT ![e] = @ + 1]
    /\ UNCHANGED corpus

\* Attempts that ended without a result: those with budget left are requeued.
GiveUp(S) ==
    /\ \A e \in S : phase[e] = "processing"
    /\ phase' = [e \in Extractions |->
                   IF e \notin S THEN phase[e]
                   ELSE IF tries[e] < MaxAttempts THEN "pending" ELSE "failed"]
    /\ UNCHANGED <<tries, corpus>>

Reject(e, verdict) ==
    /\ phase[e] = "processing"
    /\ phase' = [phase EXCEPT ![e] = verdict]
    /\ UNCHANGED <<tries, corpus>>

Complete(e, d) ==
    /\ phase[e] = "processing"
    /\ phase' = [phase EXCEPT ![e] = "completed"]
    /\ corpus' = [corpus EXCEPT ![d] = e]
    /\ UNCHANGED tries

Next ==
    \/ \E S \in SUBSET Extractions : GiveUp(S)
    \/ \E e \in Extractions :
         \/ Request(e)
         \/ Attempt(e)
         \/ \E verdict \in {"failed", "needs_ocr"} : Reject(e, verdict)
         \/ \E d \in Docs : Complete(e, d)

Spec == Init /\ [][Next]_vars
=============================================================================
