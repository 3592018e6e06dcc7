--------------------------- MODULE MCModelRouter ---------------------------
(* ModelRouter for TLC: limits that bite within a few bundles. *)
EXTENDS ModelRouter, TLC
=============================================================================
