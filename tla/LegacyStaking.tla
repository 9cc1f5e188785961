---------------------------- MODULE LegacyStaking ----------------------------
(* The staking scheme that deposit_stake replaced and that is still           *)
(* dispatched: stake, remove_stake_request, remove_stake and node_reward, on  *)
(* the user accounts of UserAccounts and on node accounts.                    *)
EXTENDS UserAccounts

CONSTANTS
    Nodes,            \* addresses of node accounts
    StakeLevels,      \* values that network.current.stakeRequiredUsd takes
    RewardInterval,   \* network.current.nodeRewardInterval
    RewardAmount,     \* network.current.nodeRewardAmountUsd
    Lag               \* Date.now() of an executing node minus the timestamp, at most

ASSUME LegacyAssumption ==
    /\ StakeLevels \subseteq Nat \ {0}
    /\ RewardInterval \in Nat \ {0} /\ RewardAmount \in Nat /\ Lag \in Nat
    /\ IsFiniteSet(Nodes) /\ Nodes \cap Users = {}

VARIABLES
    required,     \* network.current.stakeRequiredUsd
    node,         \* balance and nodeRewardTime of each node account; since when the
                  \* node is active (0: it is not), as dapp.getNode knows it
    rewards,      \* number of rewards each node was credited
    paidSince     \* users that were paid since they asked for their stake

legacyVars == <<required, node, rewards, paidSince>>
ledgerVars == <<userVars, legacyVars>>

StakeTx(u, t) ==
    /\ CanPay(u, required)
    /\ LET paid == Move(account, u, -required)
       IN  /\ Commit(Stamped([Maintained(paid, u, t) EXCEPT ![u].stake = required], {u}, t), t)
           \* a stake that was there already is overwritten
           /\ burnt' = burnt + account[u].stake + Maintenance(paid[u], t)
    /\ UNCHANGED <<snapshot, socialVars, minted, torn, legacyVars>>

\* Mutant: any stake will do.
HasSomeStake(u) == IsUser(u) /\ account[u].stake > 0
HasStake(u) == IsUser(u) /\ account[u].stake >= required

\* The handler does not set the timestamp.
RemoveStakeRequestTx(u, clock, t) ==
    /\ HasStake(u)
    /\ Commit([account EXCEPT ![u].request = clock], t)
    /\ paidSince' = IF account[u].stamp = t THEN paidSince \ {u} ELSE paidSince
    /\ UNCHANGED <<snapshot, socialVars, bookVars, required, node, rewards>>

\* Mutant: the request stays.
ReturnedOnly(u) == [Move(account, u, required) EXCEPT ![u].stake = 0]
Returned(u) == [Move(account, u, required) EXCEPT ![u].stake = 0, ![u].request = 0]

\* What is returned is the stake that is required now, not the one that was made.
RemoveStakeTx(u, clock, t) ==
    /\ HasStake(u)
    /\ account[u].request # 0 /\ account[u].request + 2 * RewardInterval <= clock
    /\ Commit(Stamped(Returned(u), {u}, t), t)
    /\ burnt' = burnt + (account[u].stake - required)
    /\ UNCHANGED <<snapshot, socialVars, minted, torn, legacyVars>>

\* Mutant: the last reward is not looked at.
RewardDueAgain(n, m, t) ==
    node[m].active > 0 /\ t - node[m].active >= RewardInterval
\* The account n (from) is rewarded for the node m (nodeId): the transaction is unsigned
\* and nothing ties the one to the other.
RewardDue(n, m, t) ==
    /\ node[m].active > 0 /\ t - node[m].active >= RewardInterval
    /\ node[n].rewardTime = 0 \/ t - node[n].rewardTime >= RewardInterval

\* The reward stays on the node account, when PAY_ADDRESS is not set or the account
\* there has no stake...
NodeKeepsReward(n, m, t) ==
    /\ RewardDue(n, m, t)
    /\ node' = [node EXCEPT ![n].balance = @ + RewardAmount, ![n].rewardTime = t]
    /\ rewards' = [rewards EXCEPT ![n] = @ + 1]
    /\ minted' = minted + RewardAmount
    /\ UNCHANGED <<account, snapshot, socialVars, burnt, torn, required, paidSince>>

\* Mutant: the request stays.
PaidOnly(u, x) == Move(account, u, x)
Paid(u, x) == [Move(account, u, x) EXCEPT ![u].request = 0]

\* ... or goes, with all that has stayed there, to the staker u, whose request to
\* remove his stake is dropped.
NodePaysStaker(n, m, u, t) ==
    /\ RewardDue(n, m, t) /\ HasStake(u)
    /\ Commit(Stamped(Paid(u, node[n].balance + RewardAmount), {u}, t), t)
    /\ node' = [node EXCEPT ![n].balance = 0, ![n].rewardTime = t]
    /\ rewards' = [rewards EXCEPT ![n] = @ + 1]
    /\ minted' = minted + RewardAmount
    /\ paidSince' = paidSince \cup {u}
    /\ UNCHANGED <<snapshot, socialVars, burnt, torn, required>>

\* A node becomes active, again, or leaves.
NodeRotates(n, active) ==
    /\ (active = 0) # (node[n].active = 0)
    /\ node' = [node EXCEPT ![n].active = active]
    /\ UNCHANGED <<account, snapshot, socialVars, bookVars, required, rewards, paidSince>>

\* The DAO changes the parameter (apply_parameters in NetworkDao).
StakeRequirementChanges(level) ==
    /\ level # required
    /\ required' = level
    /\ UNCHANGED <<account, snapshot, socialVars, bookVars, node, rewards, paidSince>>

LegacyTx(t) ==
    /\ Sent("stake")
    /\ \/ \E u \in Users : StakeTx(u, t)
       \/ \E u \in Users, clock \in t .. t + Lag : RemoveStakeRequestTx(u, clock, t)
       \/ \E u \in Users, clock \in t .. t + Lag : RemoveStakeTx(u, clock, t)
       \/ \E n, m \in Nodes : NodeKeepsReward(n, m, t)
       \/ \E n, m \in Nodes, u \in Users : NodePaysStaker(n, m, u, t)
       \/ \E n \in Nodes, active \in {0, t} : NodeRotates(n, active)
       \/ \E level \in StakeLevels : StakeRequirementChanges(level)

LegacyInit ==
    /\ required \in StakeLevels
    /\ node = [n \in Nodes |-> [balance |-> 0, rewardTime |-> 0, active |-> 0]]
    /\ rewards = [n \in Nodes |-> 0]
    /\ paidSince = {}

-------------------------------------------------------------------------------
\* The state is well typed, and only an account with a stake has asked for it.
LegacyTypeOK ==
    /\ required \in StakeLevels
    /\ node \in [Nodes -> [balance : Nat, rewardTime : Nat, active : Nat]]
    /\ rewards \in [Nodes -> Nat]
    /\ paidSince \subseteq Users
    /\ \A u \in Users : account[u].request > 0 => account[u].stake > 0

\* The tokens on the accounts, as stakes and as unpaid rewards.
InHand == Held(account) + Total([n \in Nodes |-> node[n].balance], Nodes)

\* API.md of distribute: "Deduct amount from source account", "Add amount to recipient
\* account", "Update timestamps for all affected accounts": what there is stays what was
\* issued and not taken as a fee.
TokensConserved == InHand = minted - burnt

\* A distribute that is stored in part is the only way to lose tokens, or to gain any:
\* every other transaction, with its several accounts, fee and maintenance, leaves in
\* hand what there was, what it issues and less what it burns.
OnlyTornOnesLose ==
    [][torn' = torn => InHand' - minted' + burnt' = InHand - minted + burnt]_ledgerVars

\* Between two rewards of a node lies an interval, across restarts and changes of
\* account: after k rewards k intervals have passed since it first became active.
RewardsAreTimed == \A n \in Nodes : rewards[n] * RewardInterval <= now - 1

\* A stake is removed two intervals after it was asked for, and only if no reward
\* was paid to the account meanwhile (node_reward.ts:78 drops the request).
UnstakeAfterSilence ==
    [][\A u \in Users : account[u].stake > 0 /\ account'[u].stake = 0 =>
          /\ u \notin paidSince
          /\ now' + Lag >= account[u].request + 2 * RewardInterval]_ledgerVars

\* Nothing but an issue of tokens makes the tokens more: a stake is returned out of
\* what was staked, whatever the DAO has made of the requirement since.
NothingPrinted == [][burnt' >= burnt]_ledgerVars
===============================================================================
