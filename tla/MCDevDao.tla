------------------------------ MODULE MCDevDao ------------------------------
(* Values for the constants of DevDao, and so of both DAOs.                *)
EXTENDS DevDao, TLC

CONSTANTS u1, low, high, wild

MCUsers == {u1}
MCParams == {low, high, wild}
MCPermitted == {low, high}
MCLow == {low}

\* `high` raises both fees; `wild` is outside the bounds of a proposal.
MCProposalFee ==
    [x \in Params |-> IF x = low THEN 1 ELSE IF x = high THEN 2 ELSE 9]
MCTransactionFee ==
    [x \in Params |-> IF x = low THEN 0 ELSE IF x = high THEN 1 ELSE 9]
=============================================================================
