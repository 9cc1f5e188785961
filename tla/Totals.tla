------------------------------- MODULE Totals --------------------------------
(* The total of the values that a function has on a finite set.            *)
EXTENDS Integers, FiniteSetsExt

Total(f, S) == MapThenSumSet(LAMBDA x : f[x], S)
=============================================================================
