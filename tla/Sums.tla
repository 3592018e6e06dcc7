---------------------------------- MODULE Sums ----------------------------------
(* Running sums, as a recursive function rather than a fold, so that what they *)
(* add up to can be proved as well as computed.                                 *)
EXTENDS Integers

\* Total(x)[n] is the sum of the first n values of x.
Total(x) == LET sum[n \in Nat] == IF n = 0 THEN 0 ELSE sum[n - 1] + x[n] IN sum
=============================================================================
