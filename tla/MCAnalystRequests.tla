------------------------- MODULE MCAnalystRequests -------------------------
(* AnalystRequests for TLC: a note, a document and an alert.                *)
EXTENDS AnalystRequests

MCBlank == [f \in Fields |-> "v1"]
=============================================================================
