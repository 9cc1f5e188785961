---------------------------- MODULE AccountLedger ----------------------------
(* User accounts, legacy staking and configuration changes, whose             *)
(* transactions meet on the same accounts and at the same millisecond.        *)
EXTENDS LegacyStaking, ConfigChanges

allVars == <<ledgerVars, configVars>>

Init == UserInit /\ LegacyInit /\ ConfigInit

Next ==
    \E t \in now .. now + MaxStep :
        /\ At(t)
        /\ \/ UserTx(t) /\ UNCHANGED <<legacyVars, configVars>>
           \/ LegacyTx(t) /\ UNCHANGED configVars
           \/ ConfigTx(t) /\ UNCHANGED legacyVars

Spec == Init /\ [][Next]_allVars
===============================================================================
