---------------------------- MODULE MCEnrichment ----------------------------
(* Enrichment for TLC: a docket that passes for one issuer and was chosen for  *)
(* another, entries numbered against their ids, one with a sealed document that *)
(* must not count, and pages of one entry.  A behaviour is about one of two     *)
(* parts: the walks of three entries while visits run in one order, or the      *)
(* visits in every order and outcome over two dockets, without the sync script. *)
EXTENDS Enrichment, TLC

CONSTANTS i1, i2, d1, d2, r1, r2

Sealed == [is_sealed |-> "unknown", distress |-> TRUE]
Open == [is_sealed |-> "no", distress |-> TRUE]

MCDocketOf == [e \in Entries |-> d1]
MCNumberOf == (1 :> 3) @@ (2 :> 1) @@ (3 :> 2)
MCDocuments == [e \in Entries |-> IF e = 2 THEN {Open} ELSE {Sealed}]
MCSignals == [q \in Issuers \X Dockets |->
    CASE q = <<i1, d1>> -> {"name", "date", "case_type"}
      [] q = <<i1, d2>> -> {"case_number", "case_type"}
      [] OTHER -> {"name", "date"}]
MCCurated == {<<i2, d1>>}
MCTtl == [p \in Providers |-> 0]

VARIABLE part

MCInit == Init /\ part \in {"walks", "visits"}

\* The other providers go first and find what there is.
InOneOrder(r) ==
    left'[r] \in {Providers, Providers \ {"openfigi"}, {"courtlistener"}, {}}

MCNext ==
    /\ Next
    /\ \/ /\ part = "walks"
          /\ \A r \in Runners : InOneOrder(r)
          /\ link'[d2] = None
          /\ \A r \in Runners : outcome'[r] # "ambiguous_manual_review"
          /\ \A i \in Issuers : status'[i]["sec_edgar"] \in {None, "complete"}
       \/ /\ part = "visits"
          /\ published' \subseteq {2}
          /\ pc'[r2] = "idle"
    /\ part' = part

MCSpec == MCInit /\ [][MCNext]_<<vars, part>>
=============================================================================
