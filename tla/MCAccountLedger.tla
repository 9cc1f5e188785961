---------------------------- MODULE MCAccountLedger ----------------------------
(* Values for the constants of AccountLedger.  The client transactions of one *)
(* behaviour come from one of the mixes, so that a run explores the union of  *)
(* their state spaces.                                                        *)
EXTENDS AccountLedger, TLC

CONSTANTS u1, u2, n1, a1, a2, h1, h2, c1, c2, p, q

MCHoldings == [{u1, u2} -> {0, 1}]
MCCycles == {-2, -1}
MCMixes == {{"create", "transfer", "distribute"},
            {"create", "message", "toll"},
            {"create", "message", "friend"},
            {"register", "snapshot"},
            {"create", "email"},
            {"create", "stake"},
            {"config"}}

MCDistributeMix == {{"create", "transfer", "distribute"}}

MCSymmetry == Permutations({u1, u2}) \cup Permutations({c1, c2}) \cup Permutations({p, q})
===============================================================================
