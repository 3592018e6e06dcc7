-------------------------- MODULE MCFilingMonitor --------------------------
(* FilingMonitor for TLC: two issuers, one of them with two filings. *)
EXTENDS FilingMonitor, TLC

CONSTANTS i1, i2, f1, f2, f3

MCIssuerOf == (f1 :> i1) @@ (f2 :> i1) @@ (f3 :> i2)
MCDistress == {f1, f3}
MCIssuerOfTwo == (f1 :> i1) @@ (f3 :> i2)
=============================================================================
