------------------------- MODULE MCMarketDiscovery -------------------------
(* MarketDiscovery for TLC: two filers, one of them with two hits, one query *)
(* that finds everything and one that finds the hits of the first filer.     *)
EXTENDS MarketDiscovery, TLC

CONSTANTS h1, h2, h3, c1, c2, q1, q2

MCCikOf == (h1 :> c1) @@ (h2 :> c1) @@ (h3 :> c2)
MCCikOfTwo == (h1 :> c1) @@ (h2 :> c1)
MCMatches == (q1 :> {h1, h2, h3}) @@ (q2 :> {h1})
MCMatchesTwo == (q1 :> {h1, h2}) @@ (q2 :> {h1})
MCMatchesOne == q1 :> {h1, h2}
=============================================================================
