---------------------------- MODULE NodeStaking -----------------------------
(***************************************************************************)
(* Stakes, certificates, rewards and penalties of the nodes.               *)
(*                                                                         *)
(* A nominator locks a stake on a node (deposit_stake), the node renews    *)
(* the expiry of its nominator's certificate (set_cert_time), has the      *)
(* certificate signed (query_certificate, signAppData) and joins with it.  *)
(* When it becomes active and when it leaves, a network transaction is     *)
(* queued for it (nodeInitReward, nodeReward); each is tried again, by     *)
(* init_reward and claim_reward, until its verifier finds it done.  Events *)
(* seen by the other nodes are punished (apply_penalty).  The nominator    *)
(* gets stake and rewards back with withdraw_stake.                        *)
(*                                                                         *)
(* A node-side injection reads the accounts first and is executed later in *)
(* the same cycle: `pending` holds what was read.  A tick is one cycle.    *)
(***************************************************************************)
EXTENDS Sequences, Totals

CONSTANTS
    Users,              \* accounts that may nominate
    Nodes,              \* node accounts
    None,               \* the empty string in nominee and nominator
    InitialBalance,     \* of each user account
    Deposits,           \* the amounts deposited; zero and less are accepted too
    MinStake,           \* stakeRequiredUsd, scaled
    TxFee,              \* transactionFee, scaled
    PenaltyPercent,     \* of the locked stake, for each kind of violation
    Slashed,            \* the violations that are slashed
    Rate,               \* the reward of one tick in the network
    CertLife,           \* certCycleDuration
    JoinMargin,         \* a certificate must be valid for two more cycles
    Cooldown,           \* restakeCooldown
    MaxCerts,           \* bound on the certificates signed
    MaxPending,         \* bound on what is injected and not executed
    MaxQueue,           \* bound on the queue of a node
    MaxTime             \* bound on the clock

ASSUME StakingAssumption ==
    /\ IsFiniteSet(Users) /\ IsFiniteSet(Nodes)
    /\ None \notin Users \cup Nodes
    /\ InitialBalance \in Nat
    /\ Deposits \subseteq Int
    /\ MinStake \in Nat \ {0}
    /\ TxFee \in Nat
    /\ PenaltyPercent \in Nat
    /\ Slashed \subseteq {"LeftNetworkEarly", "NodeRefuted", "SyncingTooLong"}
    /\ Rate \in Nat
    /\ CertLife \in Nat \ {0}
    /\ JoinMargin \in Nat \ {0}
    /\ Cooldown \in Nat
    /\ MaxCerts \in Nat
    /\ MaxPending \in Nat
    /\ MaxQueue \in Nat
    /\ MaxTime \in Nat

VARIABLES
    now,
    \* user accounts: balance and operatorAccountInfo
    balance, nominee, stake, certExp, totalNodePenalty, totalUnstakeReward,
    \* node accounts
    nominator, stakeLock, stakeTimestamp, reward, rewardStartTime,
    rewardEndTime, rewarded, totalReward, lastPenaltyTime,
    \* Shardus
    status,         \* of a node: "out", "standby", "syncing" or "active"
    queue,          \* of a node: its network transactions not yet verified
    pending,        \* transactions injected by nodes and not yet executed
    certs,          \* signed certificates that have not expired
    \* what only the properties look at
    activeSince, served,    \* of a node: its activation, its time in the network
    fees,                   \* burnt
    undercut                \* certificates whose nominator topped up later

userVars   == <<balance, nominee, stake, certExp, totalNodePenalty, totalUnstakeReward>>
lockVars   == <<nominator, stakeLock, stakeTimestamp>>
rewardVars == <<reward, rewardStartTime, rewardEndTime, rewarded, totalReward>>
nodeVars   == <<lockVars, rewardVars, lastPenaltyTime>>
netVars    == <<status, queue, activeSince, served>>
certVars   == <<certs, undercut>>
vars == <<now, userVars, nodeVars, netVars, certVars, pending, fees>>

Certificate == [nominator : Users, nominee : Nodes, stake : Nat, certExp : Nat]

NetworkTx == [type : {"nodeInitReward", "nodeReward"}, time : Nat]

Violation == {"LeftNetworkEarly", "NodeRefuted", "SyncingTooLong"}

Injected ==
    [type : {"set_cert_time"}, nominee : Nodes, nominator : Users] \cup
    [type : {"init_reward"}, nominee : Nodes, time : Nat] \cup
    [type : {"claim_reward"}, nominee : Nodes, nominator : Users, time : Nat] \cup
    [type : {"apply_penalty"}, nominee : Nodes, nominator : Users, time : Nat,
     violation : Violation]

TypeOK ==
    /\ now \in Nat
    /\ balance \in [Users -> Int]
    /\ nominee \in [Users -> Nodes \cup {None}]
    /\ stake \in [Users -> Nat]
    /\ certExp \in [Users -> Nat]
    /\ totalNodePenalty \in [Users -> Nat]
    /\ totalUnstakeReward \in [Users -> Nat]
    /\ nominator \in [Nodes -> Users \cup {None}]
    /\ stakeLock \in [Nodes -> Nat]
    /\ stakeTimestamp \in [Nodes -> Int]
    /\ reward \in [Nodes -> Nat]
    /\ rewardStartTime \in [Nodes -> Nat]
    /\ rewardEndTime \in [Nodes -> Nat]
    /\ rewarded \in [Nodes -> BOOLEAN]
    /\ totalReward \in [Nodes -> Nat]
    /\ lastPenaltyTime \in [Nodes -> Nat]
    /\ status \in [Nodes -> {"out", "standby", "syncing", "active"}]
    /\ queue \in [Nodes -> Seq(NetworkTx)]
    /\ pending \subseteq Injected
    /\ certs \subseteq Certificate
    /\ undercut \subseteq certs
    /\ activeSince \in [Nodes -> Nat]
    /\ served \in [Nodes -> Nat]
    /\ fees \in Nat

\* 0 is the value of a time that is not set, so the clock begins at 1.
Init ==
    /\ now = 1
    /\ balance = [u \in Users |-> InitialBalance]
    /\ nominee = [u \in Users |-> None]
    /\ stake = [u \in Users |-> 0]
    /\ certExp = [u \in Users |-> 0]
    /\ totalNodePenalty = [u \in Users |-> 0]
    /\ totalUnstakeReward = [u \in Users |-> 0]
    /\ nominator = [n \in Nodes |-> None]
    /\ stakeLock = [n \in Nodes |-> 0]
    /\ stakeTimestamp = [n \in Nodes |-> -Cooldown]
    /\ reward = [n \in Nodes |-> 0]
    /\ rewardStartTime = [n \in Nodes |-> 0]
    /\ rewardEndTime = [n \in Nodes |-> 0]
    /\ rewarded = [n \in Nodes |-> FALSE]
    /\ totalReward = [n \in Nodes |-> 0]
    /\ lastPenaltyTime = [n \in Nodes |-> 0]
    /\ status = [n \in Nodes |-> "out"]
    /\ queue = [n \in Nodes |-> << >>]
    /\ pending = {}
    /\ certs = {}
    /\ undercut = {}
    /\ activeSince = [n \in Nodes |-> 0]
    /\ served = [n \in Nodes |-> 0]
    /\ fees = 0

-----------------------------------------------------------------------------
(* Transactions of nominators.                                             *)

\* Mutant: the nominator of the node is not looked at.
AnyNominator(u, n) == nominee[u] \in {None, n}

\* Neither has staked, or been staked on, elsewhere.
MayPair(u, n) ==
    /\ nominee[u] \in {None, n}
    /\ nominator[n] \in {None, u}

DepositIsValid(u, n, amount) ==
    /\ MayPair(u, n)
    /\ stakeTimestamp[n] + Cooldown <= now
    /\ amount + stake[u] >= MinStake

\* A deposit forgets the expiry of the certificate, also of one already signed.  The
\* check that the amount is positive holds for every bigint (&& for ||): a deposit of 0
\* does just that, and one below 0 takes tokens back, down to MinStake.
DepositStakeTx(u, n, amount) ==
    /\ DepositIsValid(u, n, amount)
    /\ balance[u] >= amount + TxFee
    /\ balance' = [balance EXCEPT ![u] = @ - (amount + TxFee)]
    /\ stake' = [stake EXCEPT ![u] = @ + amount]
    /\ nominee' = [nominee EXCEPT ![u] = n]
    /\ certExp' = [certExp EXCEPT ![u] = 0]
    /\ nominator' = [nominator EXCEPT ![n] = u]
    /\ stakeLock' = [stakeLock EXCEPT ![n] = @ + amount]
    /\ stakeTimestamp' = [stakeTimestamp EXCEPT ![n] = now]
    /\ fees' = fees + TxFee
    /\ undercut' = undercut \cup {c \in certs : c.nominator = u}
    /\ UNCHANGED <<now, totalNodePenalty, totalUnstakeReward, rewardVars,
                   lastPenaltyTime, netVars, certs, pending>>

\* The reward period of the node is open: started and not ended.
PeriodIsOpen(n) == rewardEndTime[n] = 0 /\ rewardStartTime[n] > 0

\* isOnStandbyList and isNodeActiveByPubKey; a syncing node is not active.
IsAway(n) == status[n] \notin {"standby", "active"}

\* Mutant: the expiry is not looked at.
AnyCertificate(u) == certExp[u] >= 0

CertificateIsOver(u) == certExp[u] <= now

WithdrawIsValid(u, n, force) ==
    /\ nominee[u] = n
    /\ nominator[n] = u
    /\ stakeLock[n] # 0
    /\ IsAway(n)
    /\ PeriodIsOpen(n) => force
    /\ CertificateIsOver(u)

ClearTimes(n) ==
    /\ rewardStartTime' = [rewardStartTime EXCEPT ![n] = 0]
    /\ rewardEndTime' = [rewardEndTime EXCEPT ![n] = 0]
    /\ rewarded' = [rewarded EXCEPT ![n] = FALSE]

\* Mutant: the reward that was paid stays on the node.
KeepReward(n) == ClearTimes(n) /\ UNCHANGED reward

ClearReward(n) == ClearTimes(n) /\ reward' = [reward EXCEPT ![n] = 0]

\* A reward that was never claimed, in an open period, is given up.
WithdrawStakeTx(u, n, force) ==
    LET paid == IF PeriodIsOpen(n) THEN 0 ELSE reward[n]
    IN  /\ WithdrawIsValid(u, n, force)
        /\ balance' = [balance EXCEPT ![u] = @ + stakeLock[n] + paid - TxFee]
        /\ stake' = [stake EXCEPT ![u] = 0]
        /\ nominee' = [nominee EXCEPT ![u] = None]
        /\ certExp' = [certExp EXCEPT ![u] = 0]
        /\ totalUnstakeReward' = [totalUnstakeReward EXCEPT ![u] = @ + paid]
        /\ nominator' = [nominator EXCEPT ![n] = None]
        /\ stakeLock' = [stakeLock EXCEPT ![n] = 0]
        /\ ClearReward(n)
        /\ fees' = fees + TxFee
        /\ UNCHANGED <<now, totalNodePenalty, stakeTimestamp, totalReward,
                       lastPenaltyTime, netVars, certVars, pending>>

-----------------------------------------------------------------------------
(* What nodes inject: the accounts are read here.                          *)

Adds(txs) ==
    /\ Cardinality(pending \cup txs) <= MaxPending
    /\ pending' = pending \cup txs

Inject(tx) ==
    /\ Adds({tx})
    /\ UNCHANGED <<now, userVars, nodeVars, netVars, certVars, fees>>

\* isReadyToJoin of a node that wants to join.
InjectSetCertTime(n) ==
    /\ status[n] = "out"
    /\ nominator[n] # None
    /\ Inject([type |-> "set_cert_time", nominee |-> n, nominator |-> nominator[n]])

\* try-network-transaction, for the first in the node's queue.
TryFirst(n, type) == queue[n] # << >> /\ Head(queue[n]).type = type

InjectInitReward(n) ==
    /\ TryFirst(n, "nodeInitReward")
    /\ nominator[n] # None
    /\ rewardStartTime[n] < Head(queue[n]).time
    /\ Inject([type |-> "init_reward", nominee |-> n, time |-> Head(queue[n]).time])

InjectClaimReward(n) ==
    /\ TryFirst(n, "nodeReward")
    /\ nominator[n] # None
    /\ rewardEndTime[n] < Head(queue[n]).time
    /\ Inject([type |-> "claim_reward", nominee |-> n, nominator |-> nominator[n],
               time |-> Head(queue[n]).time])

\* The transactions an event about n makes the other nodes inject.
PenaltyFor(n, violation) ==
    {[type |-> "apply_penalty", nominee |-> n, nominator |-> u, time |-> now,
      violation |-> violation] :
        u \in IF violation \in Slashed THEN {nominator[n]} \ {None} ELSE {}}

-----------------------------------------------------------------------------
(* Execution of what was injected.                                         *)

Executes(tx, type) ==
    /\ tx \in pending
    /\ tx.type = type
    /\ pending' = pending \ {tx}
    /\ UNCHANGED <<now, netVars, certVars>>

\* No fee when half of the time of the certificate has passed.
CertFee(u) ==
    IF certExp[u] > 0 /\ 2 * (now - (certExp[u] - CertLife)) >= CertLife THEN 0 ELSE TxFee

SetCertTimeTx(tx) ==
    LET u == tx.nominator
    IN  /\ Executes(tx, "set_cert_time")
        /\ stake[u] >= MinStake
        /\ certExp' = [certExp EXCEPT ![u] = now + CertLife]
        /\ balance' = [balance EXCEPT ![u] = @ - CertFee(u)]
        /\ fees' = fees + CertFee(u)
        /\ UNCHANGED <<nominee, stake, totalNodePenalty, totalUnstakeReward, nodeVars>>

\* Only the start of the period is looked at, not the nominator.
InitRewardIsValid(tx) == rewardStartTime[tx.nominee] < tx.time

InitRewardTx(tx) ==
    LET n == tx.nominee
    IN  /\ Executes(tx, "init_reward")
        /\ InitRewardIsValid(tx)
        /\ rewardStartTime' = [rewardStartTime EXCEPT ![n] = tx.time]
        /\ rewardEndTime' = [rewardEndTime EXCEPT ![n] = 0]
        /\ rewarded' = [rewarded EXCEPT ![n] = FALSE]
        /\ UNCHANGED <<userVars, lockVars, reward, totalReward, lastPenaltyTime, fees>>

ClaimIsValid(tx) ==
    /\ rewardEndTime[tx.nominee] < tx.time
    /\ nominator[tx.nominee] = tx.nominator
    /\ tx.time >= rewardStartTime[tx.nominee]
    /\ ~ rewarded[tx.nominee]

\* A node whose period was never started (a seed node) is claimed for, with no reward.
ClaimRewardTx(tx) ==
    LET n      == tx.nominee
        start  == rewardStartTime[n]
        amount == IF start = 0 THEN 0 ELSE Rate * (tx.time - start)
    IN  /\ Executes(tx, "claim_reward")
        /\ ClaimIsValid(tx)
        /\ reward' = [reward EXCEPT ![n] = @ + amount]
        /\ totalReward' = [totalReward EXCEPT ![n] = @ + amount]
        /\ rewardEndTime' = [rewardEndTime EXCEPT ![n] = tx.time]
        /\ rewarded' = [rewarded EXCEPT ![n] = TRUE]
        /\ UNCHANGED <<userVars, lockVars, rewardStartTime, lastPenaltyTime, fees>>

\* Mutant: the nominator is taken from the transaction.
PenaltyForAnyNominator(tx) == lastPenaltyTime[tx.nominee] < tx.time

PenaltyIsValid(tx) ==
    /\ nominator[tx.nominee] = tx.nominator
    /\ lastPenaltyTime[tx.nominee] < tx.time

Penalty(locked) ==
    LET share == (locked * PenaltyPercent) \div 100
    IN  IF share > locked THEN locked ELSE share

\* Mutant: the penalty is taken and not recorded.
ForgetsPenalty(u, amount) == UNCHANGED totalNodePenalty

RecordsPenalty(u, amount) ==
    totalNodePenalty' = [totalNodePenalty EXCEPT ![u] = @ + amount]

ApplyPenaltyTx(tx) ==
    LET n      == tx.nominee
        u      == tx.nominator
        amount == Penalty(stakeLock[n])
    IN  /\ Executes(tx, "apply_penalty")
        /\ PenaltyIsValid(tx)
        /\ stake' = [stake EXCEPT ![u] = @ - amount]
        /\ RecordsPenalty(u, amount)
        /\ stakeLock' = [stakeLock EXCEPT ![n] = @ - amount]
        /\ lastPenaltyTime' = [lastPenaltyTime EXCEPT ![n] = tx.time]
        /\ rewardEndTime' =
             IF tx.violation = "LeftNetworkEarly" /\ rewardStartTime[n] > 0
             THEN [rewardEndTime EXCEPT ![n] = tx.time]
             ELSE rewardEndTime
        /\ UNCHANGED <<balance, nominee, certExp, totalUnstakeReward, nominator,
                       stakeTimestamp, reward, rewardStartTime, rewarded,
                       totalReward, fees>>

IsValid(tx) ==
    CASE tx.type = "set_cert_time" -> stake[tx.nominator] >= MinStake
      [] tx.type = "init_reward"   -> InitRewardIsValid(tx)
      [] tx.type = "claim_reward"  -> ClaimIsValid(tx)
      [] tx.type = "apply_penalty" -> PenaltyIsValid(tx)

Refused(tx) ==
    /\ ~ IsValid(tx)
    /\ Executes(tx, tx.type)
    /\ UNCHANGED <<userVars, nodeVars, fees>>

\* The put fails, or the transaction is not executed in its time.
Lost(tx) ==
    /\ Executes(tx, tx.type)
    /\ UNCHANGED <<userVars, nodeVars, fees>>

\* Mutant: a network transaction is done once it was tried.
IsDoneWhenTried(n, entry) == entry.time <= now

\* The apply verifiers: the first of the queue leaves it when its effect is seen.
IsDone(n, entry) ==
    CASE entry.type = "nodeInitReward" -> rewardStartTime[n] >= entry.time
      [] entry.type = "nodeReward"     -> rewardEndTime[n] = entry.time

Verified(n) ==
    /\ queue[n] # << >>
    /\ IsDone(n, Head(queue[n]))
    /\ queue' = [queue EXCEPT ![n] = Tail(@)]
    /\ UNCHANGED <<now, userVars, nodeVars, status, activeSince, served, certVars,
                   pending, fees>>

-----------------------------------------------------------------------------
(* Certificates, and the nodes in the network.                             *)

\* query_certificate of the node's nominator, and the checks of the signers.
SignCertificate(n) ==
    LET u == nominator[n]
    IN  /\ u # None
        /\ certExp[u] >= now
        /\ stake[u] >= MinStake
        /\ nominee[u] = n
        /\ Cardinality(certs) < MaxCerts
        /\ certs' = certs \cup
             {[nominator |-> u, nominee |-> n, stake |-> stake[u], certExp |-> certExp[u]]}
        /\ UNCHANGED <<now, userVars, nodeVars, netVars, undercut, pending, fees>>

\* validateJoinRequest looks at the certificate, not at the accounts.
JoinIsValid(n, c) ==
    /\ c.nominee = n
    /\ now + JoinMargin <= c.certExp
    /\ c.stake >= MinStake

Moves(n, from, to) ==
    /\ status[n] = from
    /\ status' = [status EXCEPT ![n] = to]
    /\ UNCHANGED <<now, userVars, nodeVars, certVars, fees>>

Join(n) ==
    /\ Moves(n, "out", "standby")
    /\ \E c \in certs : JoinIsValid(n, c)
    /\ UNCHANGED <<queue, activeSince, served, pending>>

Select(n) ==
    /\ Moves(n, "standby", "syncing")
    /\ UNCHANGED <<queue, activeSince, served, pending>>

LeaveStandby(n) ==
    /\ Moves(n, "standby", "out")
    /\ UNCHANGED <<queue, activeSince, served, pending>>

SyncTimeout(n) ==
    /\ Moves(n, "syncing", "out")
    /\ Adds(PenaltyFor(n, "SyncingTooLong"))
    /\ UNCHANGED <<queue, activeSince, served>>

Enqueue(n, type) ==
    /\ Len(queue[n]) < MaxQueue
    /\ queue' = [queue EXCEPT ![n] = Append(@, [type |-> type, time |-> now])]

Activate(n) ==
    /\ Moves(n, "syncing", "active")
    /\ Enqueue(n, "nodeInitReward")
    /\ activeSince' = [activeSince EXCEPT ![n] = now]
    /\ UNCHANGED <<served, pending>>

Refute(n) ==
    /\ Moves(n, "active", "active")
    /\ Adds(PenaltyFor(n, "NodeRefuted"))
    /\ UNCHANGED <<queue, activeSince, served>>

\* A node is removed; when it left early it is punished, and it may be rewarded too.
Leave(n, early, deactivated) ==
    /\ early \/ deactivated
    /\ Moves(n, "active", "out")
    /\ served' = [served EXCEPT ![n] = @ + (now - activeSince[n])]
    /\ IF deactivated THEN Enqueue(n, "nodeReward") ELSE UNCHANGED queue
    /\ Adds(IF early THEN PenaltyFor(n, "LeftNetworkEarly") ELSE {})
    /\ UNCHANGED activeSince

\* What the shutdown handlers queue for an active node; `fresh`: it was activated in
\* the very cycle of the shutdown.  No reward follows a reward that is still queued.
ShutdownEntries(n, fresh) ==
    LET claim   == [type |-> "nodeReward", time |-> now]
        start   == [type |-> "nodeInitReward", time |-> now]
        paid    == queue[n] # << >> /\ queue[n][Len(queue[n])].type = "nodeReward"
    IN  (IF fresh THEN << start >> ELSE << >>) \o (IF paid THEN << >> ELSE << claim >>)

\* The network shuts down and starts again without its nodes; the network
\* transactions in its records are taken up again.
Shutdown(activated) ==
    /\ \E n \in Nodes : status[n] # "out"
    /\ \A n \in activated : status[n] = "syncing"
    /\ LET members == activated \cup {n \in Nodes : status[n] = "active"}
       IN  queue' = [n \in Nodes |->
                       IF n \in members THEN queue[n] \o ShutdownEntries(n, n \in activated)
                       ELSE queue[n]]
    /\ \A n \in Nodes : Len(queue'[n]) <= MaxQueue
    /\ served' = [n \in Nodes |->
                    IF status[n] = "active" THEN served[n] + (now - activeSince[n]) ELSE served[n]]
    /\ activeSince' = [n \in Nodes |-> IF n \in activated THEN now ELSE activeSince[n]]
    /\ status' = [n \in Nodes |-> "out"]
    /\ UNCHANGED <<now, userVars, nodeVars, certVars, pending, fees>>

\* What was injected in a cycle is executed or lost in it.  An expired
\* certificate is forgotten: nothing accepts it.
Tick ==
    /\ now < MaxTime
    /\ pending = {}
    /\ now' = now + 1
    /\ certs' = {c \in certs : c.certExp > now}
    /\ undercut' = undercut \cap certs'
    /\ UNCHANGED <<userVars, nodeVars, netVars, pending, fees>>

UserTx ==
    \E u \in Users, n \in Nodes :
        \/ \E amount \in Deposits : DepositStakeTx(u, n, amount)
        \/ \E force \in BOOLEAN : WithdrawStakeTx(u, n, force)

InjectTx ==
    \E n \in Nodes : InjectSetCertTime(n) \/ InjectInitReward(n) \/ InjectClaimReward(n)

ExecuteTx ==
    \E tx \in pending :
        \/ SetCertTimeTx(tx)
        \/ InitRewardTx(tx)
        \/ ClaimRewardTx(tx)
        \/ ApplyPenaltyTx(tx)
        \/ Refused(tx)

NodeStep ==
    \E n \in Nodes :
        \/ Verified(n)
        \/ SignCertificate(n)
        \/ Join(n)
        \/ Select(n)
        \/ LeaveStandby(n)
        \/ SyncTimeout(n)
        \/ Activate(n)
        \/ Refute(n)
        \/ \E early, deactivated \in BOOLEAN : Leave(n, early, deactivated)

NetworkStops == \E activated \in SUBSET Nodes : Shutdown(activated)

LoseTx == \E tx \in pending : Lost(tx)

Next == UserTx \/ InjectTx \/ ExecuteTx \/ NodeStep \/ NetworkStops \/ LoseTx \/ Tick

Spec == Init /\ [][Next]_vars
-----------------------------------------------------------------------------
(* What staking is for.                                                    *)

\* Nominator and node agree on who stakes on whom and on how much, through
\* deposits, penalties and withdrawals that interleave: a nominator stakes on
\* one node, and a node is staked on by one nominator.
StakeIsPaired ==
    /\ \A u \in Users, n \in Nodes : nominee[u] = n <=> nominator[n] = u
    /\ \A u \in Users : nominee[u] # None => stake[u] = stakeLock[nominee[u]]
    /\ \A u \in Users : nominee[u] = None => stake[u] = 0 /\ certExp[u] = 0
    /\ \A n \in Nodes : nominator[n] = None => stakeLock[n] = 0

\* Tokens are neither made nor lost by staking: what users have, what is locked
\* and what was burnt as fee or penalty is what there was, and rewards paid out;
\* and no reward is paid twice, so that what was paid and what is still owed was
\* granted by claims (a forced withdrawal gives some of it up).
BooksBalance ==
    /\ Total(balance, Users) + Total(stakeLock, Nodes) + fees
         + Total(totalNodePenalty, Users)
       = Cardinality(Users) * InitialBalance + Total(totalUnstakeReward, Users)
    /\ Total(totalUnstakeReward, Users) + Total(reward, Nodes) <= Total(totalReward, Nodes)

\* A node is never rewarded for more time than it was active, whatever reward
\* transactions are lost or repeated while it leaves, is staked on by somebody
\* else and returns: no two claims cover the same time or the time between two
\* stays.
TimeInNetwork(n) ==
    served[n] + (IF status[n] = "active" THEN now - activeSince[n] ELSE 0)

NoUnearnedReward == \A n \in Nodes : totalReward[n] <= Rate * TimeInNetwork(n)

\* A certificate that has not expired has its nominator: he still stakes on the
\* node and cannot withdraw before the certificate expires.  The only exception
\* are certificates whose nominator has made a deposit after the signing.  How much
\* penalties have left of the stake is another matter (HeldStakeIsAccounted).
LiveCertificateIsBacked ==
    \A c \in certs \ undercut :
        c.certExp > now => /\ nominator[c.nominee] = c.nominator
                           /\ nominee[c.nominator] = c.nominee
                           /\ certExp[c.nominator] >= c.certExp

\* What docs/API.md asks of withdraw_stake: "Stake certificate must be expired".
WithdrawnCertificateExpired ==
    [][\A n \in Nodes : nominator[n] # None /\ nominator'[n] = None =>
         \A c \in certs : c.nominee = n /\ c.nominator = nominator[n] => c.certExp <= now]_vars
=============================================================================
