---------------------------- MODULE MCNetworkDao ----------------------------
(* Values for the constants of NetworkDao.                                 *)
EXTENDS NetworkDao, TLC

CONSTANTS u1, low, high, wild

MCOneUser == {u1}
MCParams == {low, high, wild}
MCPermitted == {low, high}

\* `high` raises both fees; `wild` is outside the bounds of a proposal.
MCProposalFee == low :> 1 @@ high :> 2 @@ wild :> 9
MCTransactionFee == low :> 0 @@ high :> 1 @@ wild :> 9
=============================================================================
