---------------------------- MODULE MCNodeStaking ----------------------------
(* Values for the constants of NodeStaking.                                *)
EXTENDS NodeStaking, TLC

CONSTANTS u1, u2, n1, n2

MCUsers == {u1, u2}
MCNodes == {n1, n2}

\* A stake and top-up, and a deposit that takes a part of them back.
MCDeposits == {2, -1}

MCSymmetry == Permutations({u1, u2}) \cup Permutations({n1, n2})
=============================================================================
