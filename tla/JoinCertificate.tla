-------------------------- MODULE JoinCertificate ---------------------------
(***************************************************************************)
(* How a node gets the certificate it joins with: isReadyToJoin.           *)
(*                                                                         *)
(* Once a cycle, Shardus asks a node that is not in the network whether it *)
(* may join.  The node renews the expiry of its nominator (set_cert_time), *)
(* queries the certificate in a later cycle, holds it in memory, and       *)
(* renews it when 70% of its time is over.  It knows only when it last     *)
(* injected set_cert_time, not whether the transaction was executed.       *)
(*                                                                         *)
(* The module extends NodeStaking: every step is one of that module's, or  *)
(* leaves its variables alone.  A poll is made in each cycle (a tick).     *)
(***************************************************************************)
EXTENDS NodeStaking

CONSTANTS
    NoCert,             \* QueryCertificate.stakeCert when null
    MaxFaults           \* bound on the faults of a node

ASSUME JoinAssumption ==
    /\ NoCert \notin [nominator : Users, nominee : Nodes, stake : Nat, certExp : Nat]
    /\ MaxFaults \in Nat
    /\ 3 * CertLife >= 10 * JoinMargin

VARIABLES
    lastCertTimeTx,     \* of a node: cycle of its last set_cert_time, 0 when none
    stakeCert,          \* of a node: the certificate it holds
    isReadyToJoin,      \* of a node: what its last poll returned
    polled,             \* of a node: cycle of its last poll
    renewing,           \* of a node: it is about to renew what it has just queried
    \* of a node, what only the properties look at
    faults,             \* how much went wrong
    deposits,           \* how many deposits were made on it
    charges,            \* how often its nominator was charged for its set_cert_time
    disturbed,          \* when something went wrong, or stake or status changed
    signedPenalty       \* its nominator's totalNodePenalty when its certificate was queried

pollVars  == <<lastCertTimeTx, stakeCert, isReadyToJoin, polled, renewing>>
countVars == <<faults, deposits, charges, disturbed>>
joinVars  == <<vars, pollVars, countVars, signedPenalty>>

JoinTypeOK ==
    /\ TypeOK
    /\ lastCertTimeTx \in [Nodes -> Nat]
    /\ stakeCert \in [Nodes -> Certificate \cup {NoCert}]
    /\ isReadyToJoin \in [Nodes -> BOOLEAN]
    /\ polled \in [Nodes -> Nat]
    /\ renewing \in [Nodes -> BOOLEAN]
    /\ faults \in [Nodes -> 0 .. MaxFaults]
    /\ deposits \in [Nodes -> Nat]
    /\ charges \in [Nodes -> Nat]
    /\ disturbed \in [Nodes -> Nat]
    /\ signedPenalty \in [Nodes -> Nat]

JoinInit ==
    /\ Init
    /\ lastCertTimeTx = [n \in Nodes |-> 0]
    /\ stakeCert = [n \in Nodes |-> NoCert]
    /\ isReadyToJoin = [n \in Nodes |-> FALSE]
    /\ polled = [n \in Nodes |-> 0]
    /\ renewing = [n \in Nodes |-> FALSE]
    /\ faults = [n \in Nodes |-> 0]
    /\ deposits = [n \in Nodes |-> 0]
    /\ charges = [n \in Nodes |-> 0]
    /\ disturbed = [n \in Nodes |-> 0]
    /\ signedPenalty = [n \in Nodes |-> 0]

Disturbs(n) ==
    /\ disturbed' = [disturbed EXCEPT ![n] = now]
    /\ UNCHANGED <<deposits, charges>>

IsFault(n) ==
    /\ faults[n] < MaxFaults
    /\ faults' = [faults EXCEPT ![n] = @ + 1]
    /\ Disturbs(n)

-----------------------------------------------------------------------------
(* One poll.                                                               *)

\* Mutant: a certificate is used until it expires.
ExpiresNow(c) == now >= c.certExp

\* expiredPercentage >= 0.7, in integers.
ExpiresSoon(c) == 10 * (now - (c.certExp - CertLife)) >= 7 * CertLife

FirstTime(n) == lastCertTimeTx[n] = 0

TimeIsExpired(n) == now - lastCertTimeTx[n] > CertLife

MustRenew(n) ==
    \/ FirstTime(n)
    \/ TimeIsExpired(n)
    \/ stakeCert[n] # NoCert /\ ExpiresSoon(stakeCert[n])

Polls(n, ready) ==
    /\ status[n] = "out"
    /\ polled[n] < now
    /\ polled' = [polled EXCEPT ![n] = now]
    /\ isReadyToJoin' = [isReadyToJoin EXCEPT ![n] = ready]

\* Mutant: the injection is not remembered.
RenewsAgain(n) ==
    /\ MustRenew(n)
    /\ Polls(n, FALSE)
    /\ InjectSetCertTime(n)
    /\ stakeCert' = IF FirstTime(n) THEN stakeCert ELSE [stakeCert EXCEPT ![n] = NoCert]
    /\ UNCHANGED <<lastCertTimeTx, renewing, countVars>>

Renews(n) ==
    /\ MustRenew(n)
    /\ Polls(n, FALSE)
    /\ InjectSetCertTime(n)
    /\ lastCertTimeTx' = [lastCertTimeTx EXCEPT ![n] = now]
    /\ stakeCert' = IF FirstTime(n) THEN stakeCert ELSE [stakeCert EXCEPT ![n] = NoCert]
    /\ UNCHANGED <<renewing, countVars>>

\* injectSetCertTimeTx refuses: the node account names no nominator.
HasNoNominator(n) ==
    /\ MustRenew(n)
    /\ nominator[n] = None
    /\ Polls(n, FALSE)
    /\ UNCHANGED <<vars, lastCertTimeTx, stakeCert, renewing, countVars>>

Holds(n) ==
    /\ ~ MustRenew(n)
    /\ stakeCert[n] # NoCert
    /\ Polls(n, TRUE)
    /\ UNCHANGED <<vars, lastCertTimeTx, stakeCert, renewing, countVars>>

Queries(n) == ~ MustRenew(n) /\ stakeCert[n] = NoCert

\* The query returns a certificate: the node keeps it, or renews it at once.
QuerySucceeds(n) ==
    /\ Queries(n)
    /\ SignCertificate(n)
    /\ LET u == nominator[n]
           c == [nominator |-> u, nominee |-> n, stake |-> stake[u], certExp |-> certExp[u]]
       IN  IF ExpiresSoon(c)
           THEN /\ Polls(n, FALSE)
                /\ renewing' = [renewing EXCEPT ![n] = TRUE]
                /\ UNCHANGED stakeCert
           ELSE /\ Polls(n, TRUE)
                /\ stakeCert' = [stakeCert EXCEPT ![n] = c]
                /\ UNCHANGED renewing
    /\ UNCHANGED <<lastCertTimeTx, countVars>>

EndsRenewing(n) ==
    /\ renewing[n]
    /\ renewing' = [renewing EXCEPT ![n] = FALSE]
    /\ UNCHANGED <<stakeCert, isReadyToJoin, polled>>

RenewsQueried(n) ==
    /\ EndsRenewing(n)
    /\ InjectSetCertTime(n)
    /\ lastCertTimeTx' = [lastCertTimeTx EXCEPT ![n] = now]
    /\ UNCHANGED countVars

\* Mutant: an injection without effect is not repeated.
NeverAgain(n) == UNCHANGED lastCertTimeTx

\* Mutant: the cycle is reset to what it is declared with, null.
AgainWithNull(n) == lastCertTimeTx' = [lastCertTimeTx EXCEPT ![n] = NoCert]

\* More than three cycles, or three cycles in milliseconds, since the injection.
InjectAgainLater(n) ==
    \/ /\ now - lastCertTimeTx[n] >= 3
       /\ lastCertTimeTx' = [lastCertTimeTx EXCEPT ![n] = 0]
    \/ /\ now - lastCertTimeTx[n] <= 3
       /\ UNCHANGED lastCertTimeTx

\* queryCertificateHandler and the signers accept.
MaySign(n) ==
    LET u == nominator[n]
    IN  /\ u # None
        /\ certExp[u] >= now
        /\ stake[u] >= MinStake
        /\ nominee[u] = n

QueryRefused(n) ==
    /\ Queries(n)
    /\ ~ MaySign(n)
    /\ Polls(n, FALSE)
    /\ InjectAgainLater(n)
    /\ UNCHANGED <<vars, stakeCert, renewing, countVars>>

-----------------------------------------------------------------------------
(* Faults.                                                                 *)

\* The node asked is busy or does not answer, or signatures are missing.
QueryFails(n) ==
    /\ Queries(n)
    /\ Polls(n, FALSE)
    /\ InjectAgainLater(n)
    /\ IsFault(n)
    /\ UNCHANGED <<vars, stakeCert, renewing>>

\* The injection is not made or not accepted, or there is a reason to refuse before
\* it is tried.
PollFails(n) ==
    /\ Polls(n, FALSE)
    /\ IsFault(n)
    /\ UNCHANGED <<vars, lastCertTimeTx, stakeCert, renewing>>

\* The injection is accepted and the node does not learn it: the answer is lost, or is
\* a failure all the same.  The node goes on as if it had not injected.
AnswerLost(n) ==
    /\ \/ MustRenew(n) /\ Polls(n, FALSE) /\ UNCHANGED <<stakeCert, renewing>>
       \/ EndsRenewing(n)
    /\ InjectSetCertTime(n)
    /\ IsFault(n)
    /\ UNCHANGED lastCertTimeTx

RenewalFails(n) ==
    /\ EndsRenewing(n)
    /\ \/ IsFault(n)
       \/ nominator[n] = None /\ UNCHANGED countVars
    /\ UNCHANGED <<vars, lastCertTimeTx>>

\* The node's process starts anew, with nothing in memory.
Restarts(n) ==
    /\ IsFault(n)
    /\ lastCertTimeTx' = [lastCertTimeTx EXCEPT ![n] = 0]
    /\ stakeCert' = [stakeCert EXCEPT ![n] = NoCert]
    /\ isReadyToJoin' = [isReadyToJoin EXCEPT ![n] = FALSE]
    /\ renewing' = [renewing EXCEPT ![n] = FALSE]
    /\ UNCHANGED <<vars, polled>>

LosesTx ==
    /\ \E tx \in pending : Lost(tx) /\ IsFault(tx.nominee)
    /\ UNCHANGED pollVars

-----------------------------------------------------------------------------
(* The other steps of NodeStaking.                                         *)

JustReady(n) == status[n] = "out" /\ isReadyToJoin[n] /\ now <= polled[n] + 1

\* The node sends the certificate it holds (getJoinData).
JoinRequest(n) ==
    /\ JustReady(n)
    /\ JoinIsValid(n, stakeCert[n])
    /\ Join(n)
    /\ UNCHANGED <<pollVars, countVars>>

LeavesNetwork(n) ==
    /\ LeaveStandby(n) \/ SyncTimeout(n)
    /\ Disturbs(n)
    /\ UNCHANGED <<pollVars, faults>>

Selected(n) == Select(n) /\ UNCHANGED <<pollVars, countVars>>

Stakes(u, n, amount) ==
    /\ DepositStakeTx(u, n, amount)
    /\ deposits' = [deposits EXCEPT ![n] = @ + 1]
    /\ disturbed' = [disturbed EXCEPT ![n] = now]
    /\ UNCHANGED <<pollVars, faults, charges>>

Withdraws(u, n, force) ==
    /\ WithdrawStakeTx(u, n, force)
    /\ Disturbs(n)
    /\ UNCHANGED <<pollVars, faults>>

\* What the node injected is executed, and charged or not.  A nominator who has
\* left the node since then pays too, but not for this node's certificate.
IsCharged(tx) == CertFee(tx.nominator) # 0 /\ nominator[tx.nominee] = tx.nominator

SetsCertTime(tx) ==
    /\ SetCertTimeTx(tx)
    /\ charges' = IF IsCharged(tx) THEN [charges EXCEPT ![tx.nominee] = @ + 1] ELSE charges
    /\ UNCHANGED <<pollVars, faults, deposits, disturbed>>

Penalised(tx) ==
    /\ ApplyPenaltyTx(tx)
    /\ Disturbs(tx.nominee)
    /\ UNCHANGED <<pollVars, faults>>

Rejected(tx) == Refused(tx) /\ UNCHANGED <<pollVars, countVars>>

JoinTick ==
    /\ Tick
    /\ \A n \in Nodes : status[n] = "out" => polled[n] = now /\ ~ renewing[n]
    /\ UNCHANGED <<pollVars, countVars>>

Poll ==
    \E n \in Nodes :
        \/ Renews(n)
        \/ HasNoNominator(n)
        \/ Holds(n)
        \/ QuerySucceeds(n)
        \/ RenewsQueried(n)
        \/ QueryRefused(n)

JoinFault ==
    \/ \E n \in Nodes :
         QueryFails(n) \/ PollFails(n) \/ AnswerLost(n) \/ RenewalFails(n) \/ Restarts(n)
    \/ LosesTx

StakingStep ==
    \/ \E n \in Nodes : JoinRequest(n) \/ Selected(n) \/ LeavesNetwork(n)
    \/ \E u \in Users, n \in Nodes :
         \/ \E amount \in Deposits : Stakes(u, n, amount)
         \/ \E force \in BOOLEAN : Withdraws(u, n, force)
    \/ \E tx \in pending : SetsCertTime(tx) \/ Penalised(tx) \/ Rejected(tx)

\* The penalties of the nominator at the query of the certificate that is held.
SeesPenalty ==
    signedPenalty' = [n \in Nodes |->
        IF stakeCert'[n] = NoCert THEN 0
        ELSE IF stakeCert[n] = NoCert THEN totalNodePenalty[nominator[n]]
        ELSE signedPenalty[n]]

JoinNext == (Poll \/ JoinFault \/ StakingStep \/ JoinTick) /\ SeesPenalty

JoinSpec == JoinInit /\ [][JoinNext]_joinVars
-----------------------------------------------------------------------------
(* What isReadyToJoin is for.                                              *)

\* A node that says it is ready is not turned away for its certificate, in this
\* cycle or the next: the rule by which it renews (70% of the time) leaves more
\* than what validateJoinRequest asks for (two cycles).
ReadyMayJoin == \A n \in Nodes : JustReady(n) => JoinIsValid(n, stakeCert[n])

\* The node never looks at the accounts again: the stake that the certificate in its
\* memory names may be gone.  But until the certificate expires it is with the node or
\* was taken by penalties: what is locked and what the nominator was punished with
\* since the query is what the certificate names, to the token.  No withdrawal and no
\* other nominator comes between; a deposit is the exception as before.
HeldStakeIsAccounted ==
    \A n \in Nodes :
        LET c == stakeCert[n]
            u == c.nominator
        IN  c # NoCert /\ c \notin undercut /\ c.certExp > now =>
              /\ nominator[n] = u /\ nominee[u] = n
              /\ stakeLock[n] + (totalNodePenalty[u] - signedPenalty[n]) = c.stake

\* Whatever was lost, refused or forgotten: a staked node is ready again six cycles
\* after the last disturbance, and after that it is never longer than a cycle not.
GetsReady ==
    \A n \in Nodes :
        /\ status[n] = "out"
        /\ nominator[n] # None /\ stake[nominator[n]] >= MinStake
        /\ now > disturbed[n] + 5
        => isReadyToJoin[n] \/ now <= lastCertTimeTx[n] + 1

\* The renewals of a node are charged to its nominators at most once for each deposit
\* on the node and each of its faults.
RenewalsAreFree == \A n \in Nodes : charges[n] <= deposits[n] + faults[n]
=============================================================================
