----------------------------- MODULE DaoRounds ------------------------------
(***************************************************************************)
(* What the governance of a parameter set promises, without windows,       *)
(* clocks, nodes or messages: rounds one after the other; in each, at most *)
(* one decision; a decided round takes effect once, by putting what was    *)
(* decided in force and making way for the next round.                     *)
(***************************************************************************)
EXTENDS Naturals

CONSTANTS Params, Initial, Undecided

VARIABLES round, stage, decision, inForce

roundVars == <<round, stage, decision, inForce>>

Init ==
    /\ round = 1
    /\ stage = "waiting"
    /\ decision = Undecided
    /\ inForce = Initial

Open ==
    /\ stage = "waiting"
    /\ stage' = "open"
    /\ UNCHANGED <<round, decision, inForce>>

Decide(q) ==
    /\ stage = "open"
    /\ stage' = "decided"
    /\ decision' = q
    /\ UNCHANGED <<round, inForce>>

TakeEffect ==
    /\ stage = "decided"
    /\ stage' = "waiting"
    /\ round' = round + 1
    /\ inForce' = decision
    /\ decision' = Undecided

Next == Open \/ (\E q \in Params : Decide(q)) \/ TakeEffect

Spec == Init /\ [][Next]_roundVars
=============================================================================
