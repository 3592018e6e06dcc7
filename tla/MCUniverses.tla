------------------------------ MODULE MCUniverses ------------------------------
(* Universes for TLC: an issuer with definitive and suggestive evidence, a    *)
(* name that makes the slug of a universe.                                    *)
EXTENDS Universes, TLC

CONSTANTS i1, b1, e1, e2, sys, core, cur, n1, n2

MCIssuerOf == [b \in Bundles |-> i1]
MCBundleOf == (e1 :> b1) @@ (e2 :> b1)
MCUniverseOf == [e \in Evidence |-> sys]
MCSeverity == (e1 :> "high") @@ (e2 :> "medium")
MCReviews == {[severity |-> "high", subject |-> "unknown"],
              [severity |-> "low", subject |-> "yes"]}
\* The suffixed slugs tried next are left out: they name plain watchlists.
MCSlugsFor == (n1 :> <<sys>>) @@ (n2 :> <<cur>>)
MCSymmetry == Permutations(Correctors)
=============================================================================
