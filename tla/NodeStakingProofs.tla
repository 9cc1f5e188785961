------------------------- MODULE NodeStakingProofs --------------------------
(***************************************************************************)
(* Theorems about NodeStaking, for every value of its constants.           *)
(*                                                                         *)
(* The types alone are not inductive: that a penalty leaves a natural      *)
(* number of stake with the nominator needs the nominator's and the node's *)
(* books to agree, and the time served needs activations to lie in the past. *)
(***************************************************************************)
EXTENDS NodeStaking, TotalsProofs, SequenceTheorems, TLAPS

ActiveInThePast == \A n \in Nodes : activeSince[n] <= now

PairedInv == TypeOK /\ StakeIsPaired /\ ActiveInThePast

pairVars == <<nominee, nominator, stake, stakeLock, certExp>>

\* What the books of stakes are made of did not change: they still agree.
LEMMA PairKept ==
    ASSUME StakeIsPaired, UNCHANGED pairVars
    PROVE  StakeIsPaired'
  BY DEF StakeIsPaired, pairVars

LEMMA InitPaired == Init => PairedInv
<1> SUFFICES ASSUME Init PROVE PairedInv
  OBVIOUS
<1>1. TypeOK
  <2>1. \A n \in Nodes : queue[n] \in Seq(NetworkTx)
    BY DEF Init
  <2>2. queue \in [Nodes -> Seq(NetworkTx)]
    BY <2>1 DEF Init
  <2> QED  BY <2>2, StakingAssumption DEF Init, TypeOK
<1>2. StakeIsPaired
  BY StakingAssumption DEF Init, StakeIsPaired
<1>3. ActiveInThePast
  BY DEF Init, ActiveInThePast
<1> QED  BY <1>1, <1>2, <1>3 DEF PairedInv

LEMMA DepositPaired ==
    ASSUME PairedInv, NEW u \in Users, NEW n \in Nodes, NEW amount \in Deposits,
           DepositStakeTx(u, n, amount)
    PROVE  PairedInv'
<1>0. /\ TypeOK /\ StakeIsPaired /\ ActiveInThePast
      /\ amount \in Int
      /\ TxFee \in Nat /\ MinStake \in Nat
  BY StakingAssumption DEF PairedInv
<1>t. /\ balance \in [Users -> Int]
      /\ nominee \in [Users -> Nodes \cup {None}]
      /\ stake \in [Users -> Nat]
      /\ certExp \in [Users -> Nat]
      /\ nominator \in [Nodes -> Users \cup {None}]
      /\ stakeLock \in [Nodes -> Nat]
      /\ stakeTimestamp \in [Nodes -> Int]
      /\ now \in Nat /\ fees \in Nat
      /\ undercut \subseteq certs
  BY <1>0 DEF TypeOK
<1>a. /\ nominee[u] \in {None, n}
      /\ nominator[n] \in {None, u}
      /\ balance' = [balance EXCEPT ![u] = @ - (amount + TxFee)]
      /\ stake' = [stake EXCEPT ![u] = @ + amount]
      /\ nominee' = [nominee EXCEPT ![u] = n]
      /\ certExp' = [certExp EXCEPT ![u] = 0]
      /\ nominator' = [nominator EXCEPT ![n] = u]
      /\ stakeLock' = [stakeLock EXCEPT ![n] = @ + amount]
      /\ stakeTimestamp' = [stakeTimestamp EXCEPT ![n] = now]
      /\ fees' = fees + TxFee
      /\ undercut' = undercut \cup {c \in certs : c.nominator = u}
      /\ amount + stake[u] >= MinStake
  BY DEF DepositStakeTx, DepositIsValid, MayPair
\* what is taken back by an amount below 0 is there, on both sides
<1>b. stake[u] = stakeLock[n] /\ stake[u] + amount \in Nat
  <2>1. stake[u] = stakeLock[n]
    BY <1>0, <1>t, <1>a, StakingAssumption DEF StakeIsPaired
  <2> QED  BY <1>0, <1>t, <1>a, <2>1
<1>u. UNCHANGED <<now, totalNodePenalty, totalUnstakeReward, rewardVars,
                  lastPenaltyTime, netVars, certs, pending>>
  BY DEF DepositStakeTx
<1>1. TypeOK'
  <2>1. /\ balance' \in [Users -> Int]
        /\ stake' \in [Users -> Nat]
        /\ nominee' \in [Users -> Nodes \cup {None}]
        /\ certExp' \in [Users -> Nat]
        /\ nominator' \in [Nodes -> Users \cup {None}]
        /\ stakeLock' \in [Nodes -> Nat]
        /\ stakeTimestamp' \in [Nodes -> Int]
        /\ fees' \in Nat
    BY <1>0, <1>t, <1>a, <1>b
  <2>2. undercut' \subseteq certs'
    BY <1>t, <1>a, <1>u
  <2> QED  BY <1>0, <1>u, <2>1, <2>2 DEF TypeOK, rewardVars, netVars
<1>2. StakeIsPaired'
  <2>2. \A v \in Users, m \in Nodes : nominee'[v] = m <=> nominator'[m] = v
    BY <1>0, <1>t, <1>a, StakingAssumption DEF StakeIsPaired
  <2>3. \A v \in Users : nominee'[v] # None => stake'[v] = stakeLock'[nominee'[v]]
    BY <1>0, <1>t, <1>a, <1>b, <2>2, StakingAssumption DEF StakeIsPaired
  <2>4. \A v \in Users : nominee'[v] = None => stake'[v] = 0 /\ certExp'[v] = 0
    BY <1>0, <1>t, <1>a, StakingAssumption DEF StakeIsPaired
  <2>5. \A m \in Nodes : nominator'[m] = None => stakeLock'[m] = 0
    BY <1>0, <1>t, <1>a, StakingAssumption DEF StakeIsPaired
  <2> QED  BY <2>2, <2>3, <2>4, <2>5 DEF StakeIsPaired
<1>3. ActiveInThePast'
  BY <1>0, <1>u DEF ActiveInThePast, netVars
<1> QED  BY <1>1, <1>2, <1>3 DEF PairedInv

LEMMA WithdrawPaired ==
    ASSUME PairedInv, NEW u \in Users, NEW n \in Nodes, NEW force \in BOOLEAN,
           WithdrawStakeTx(u, n, force)
    PROVE  PairedInv'
<1> DEFINE paid == IF PeriodIsOpen(n) THEN 0 ELSE reward[n]
<1>0. /\ TypeOK /\ StakeIsPaired /\ ActiveInThePast
      /\ TxFee \in Nat
  BY StakingAssumption DEF PairedInv
<1>t. /\ balance \in [Users -> Int]
      /\ nominee \in [Users -> Nodes \cup {None}]
      /\ stake \in [Users -> Nat]
      /\ certExp \in [Users -> Nat]
      /\ totalUnstakeReward \in [Users -> Nat]
      /\ nominator \in [Nodes -> Users \cup {None}]
      /\ stakeLock \in [Nodes -> Nat]
      /\ reward \in [Nodes -> Nat]
      /\ rewardStartTime \in [Nodes -> Nat]
      /\ rewardEndTime \in [Nodes -> Nat]
      /\ rewarded \in [Nodes -> BOOLEAN]
      /\ fees \in Nat
  BY <1>0 DEF TypeOK
<1>a. /\ nominee[u] = n
      /\ nominator[n] = u
      /\ balance' = [balance EXCEPT ![u] = @ + stakeLock[n] + paid - TxFee]
      /\ stake' = [stake EXCEPT ![u] = 0]
      /\ nominee' = [nominee EXCEPT ![u] = None]
      /\ certExp' = [certExp EXCEPT ![u] = 0]
      /\ totalUnstakeReward' = [totalUnstakeReward EXCEPT ![u] = @ + paid]
      /\ nominator' = [nominator EXCEPT ![n] = None]
      /\ stakeLock' = [stakeLock EXCEPT ![n] = 0]
      /\ rewardStartTime' = [rewardStartTime EXCEPT ![n] = 0]
      /\ rewardEndTime' = [rewardEndTime EXCEPT ![n] = 0]
      /\ rewarded' = [rewarded EXCEPT ![n] = FALSE]
      /\ reward' = [reward EXCEPT ![n] = 0]
      /\ fees' = fees + TxFee
  BY DEF WithdrawStakeTx, WithdrawIsValid, ClearReward, ClearTimes
<1>u. UNCHANGED <<now, totalNodePenalty, stakeTimestamp, totalReward,
                  lastPenaltyTime, netVars, certVars, pending>>
  BY DEF WithdrawStakeTx
<1>1. TypeOK'
  <2>1. paid \in Nat
    BY <1>t
  <2> HIDE DEF paid
  <2>2. /\ balance' \in [Users -> Int]
        /\ stake' \in [Users -> Nat]
        /\ nominee' \in [Users -> Nodes \cup {None}]
        /\ certExp' \in [Users -> Nat]
        /\ totalUnstakeReward' \in [Users -> Nat]
        /\ nominator' \in [Nodes -> Users \cup {None}]
        /\ stakeLock' \in [Nodes -> Nat]
        /\ fees' \in Nat
    BY <1>0, <1>t, <1>a, <2>1
  <2>3. /\ rewardStartTime' \in [Nodes -> Nat]
        /\ rewardEndTime' \in [Nodes -> Nat]
        /\ rewarded' \in [Nodes -> BOOLEAN]
        /\ reward' \in [Nodes -> Nat]
    BY <1>t, <1>a
  <2> QED  BY <1>0, <1>u, <2>2, <2>3 DEF TypeOK, netVars, certVars
<1>2. StakeIsPaired'
  <2>1. \A v \in Users, m \in Nodes : nominee'[v] = m <=> nominator'[m] = v
    BY <1>0, <1>t, <1>a, StakingAssumption DEF StakeIsPaired
  <2>2. \A v \in Users : nominee'[v] # None => stake'[v] = stakeLock'[nominee'[v]]
    BY <1>0, <1>t, <1>a, <2>1, StakingAssumption DEF StakeIsPaired
  <2>3. \A v \in Users : nominee'[v] = None => stake'[v] = 0 /\ certExp'[v] = 0
    BY <1>0, <1>t, <1>a, StakingAssumption DEF StakeIsPaired
  <2>4. \A m \in Nodes : nominator'[m] = None => stakeLock'[m] = 0
    BY <1>0, <1>t, <1>a, StakingAssumption DEF StakeIsPaired
  <2> QED  BY <2>1, <2>2, <2>3, <2>4 DEF StakeIsPaired
<1>3. ActiveInThePast'
  BY <1>0, <1>u DEF ActiveInThePast, netVars
<1> QED  BY <1>1, <1>2, <1>3 DEF PairedInv

\* Injections add to `pending` what the injecting node read.
LEMMA InjectPaired == ASSUME PairedInv, InjectTx PROVE PairedInv'
<1>0. TypeOK /\ StakeIsPaired /\ ActiveInThePast
  BY DEF PairedInv
<1>1. ASSUME NEW tx \in Injected, Inject(tx)
      PROVE  PairedInv'
  <2>1. /\ pending' = pending \cup {tx}
        /\ UNCHANGED <<now, userVars, nodeVars, netVars, certVars, fees>>
    BY <1>1 DEF Inject, Adds
  <2>2. pending' \subseteq Injected
    BY <1>0, <1>1, <2>1 DEF TypeOK
  <2>3. TypeOK'
    BY <1>0, <2>1, <2>2
       DEF TypeOK, userVars, nodeVars, lockVars, rewardVars, netVars, certVars
  <2>4. StakeIsPaired'
    BY <1>0, <2>1, PairKept DEF pairVars, userVars, nodeVars, lockVars
  <2>5. ActiveInThePast'
    BY <1>0, <2>1 DEF ActiveInThePast, netVars
  <2> QED  BY <2>3, <2>4, <2>5 DEF PairedInv
<1>2. PICK n \in Nodes : InjectSetCertTime(n) \/ InjectInitReward(n) \/ InjectClaimReward(n)
  BY DEF InjectTx
<1>3. nominator[n] \in Users \cup {None} /\ queue[n] \in Seq(NetworkTx)
  BY <1>0 DEF TypeOK
<1>4. queue[n] # << >> => Head(queue[n]).time \in Nat
  <2>1. queue[n] # << >> => Head(queue[n]) \in NetworkTx
    BY <1>3
  <2> QED  BY <2>1 DEF NetworkTx
<1>5. CASE InjectSetCertTime(n)
  <2> DEFINE tx == [type |-> "set_cert_time", nominee |-> n, nominator |-> nominator[n]]
  <2>1. nominator[n] \in Users /\ Inject(tx)
    BY <1>3, <1>5 DEF InjectSetCertTime
  <2>2. tx \in Injected
    BY <2>1 DEF Injected
  <2> QED  BY <1>1, <2>1, <2>2
<1>6. CASE InjectInitReward(n)
  <2> DEFINE tx == [type |-> "init_reward", nominee |-> n, time |-> Head(queue[n]).time]
  <2>1. queue[n] # << >> /\ Inject(tx)
    BY <1>6 DEF InjectInitReward, TryFirst
  <2>2. tx \in Injected
    BY <1>4, <2>1 DEF Injected
  <2> QED  BY <1>1, <2>1, <2>2
<1>7. CASE InjectClaimReward(n)
  <2> DEFINE tx == [type |-> "claim_reward", nominee |-> n, nominator |-> nominator[n],
                    time |-> Head(queue[n]).time]
  <2>1. queue[n] # << >> /\ nominator[n] \in Users /\ Inject(tx)
    BY <1>3, <1>7 DEF InjectClaimReward, TryFirst
  <2>2. tx \in Injected
    BY <1>4, <2>1 DEF Injected
  <2> QED  BY <1>1, <2>1, <2>2
<1> QED  BY <1>2, <1>5, <1>6, <1>7

LEMMA PenaltyForTyped ==
    ASSUME TypeOK, NEW n \in Nodes, NEW violation \in Violation
    PROVE  PenaltyFor(n, violation) \subseteq Injected
<1>1. nominator[n] \in Users \cup {None} /\ now \in Nat
  BY DEF TypeOK
<1>2. ASSUME NEW u \in {nominator[n]} \ {None}
      PROVE  [type |-> "apply_penalty", nominee |-> n, nominator |-> u, time |-> now,
              violation |-> violation] \in Injected
  BY <1>1, <1>2 DEF Injected
<1> QED  BY <1>2 DEF PenaltyFor

\* What every execution leaves alone and what it takes from `pending`.
LEMMA ExecutesTyped ==
    ASSUME TypeOK, NEW tx, NEW type, Executes(tx, type)
    PROVE  /\ tx \in Injected
           /\ tx.type = type
           /\ pending' \subseteq Injected
           /\ UNCHANGED <<now, netVars, certVars>>
  BY DEF TypeOK, Executes

LEMMA SetCertTimePaired ==
    ASSUME PairedInv, NEW tx \in pending, SetCertTimeTx(tx)
    PROVE  PairedInv'
<1> DEFINE u == tx.nominator
<1>0. /\ TypeOK /\ StakeIsPaired /\ ActiveInThePast
      /\ TxFee \in Nat /\ CertLife \in Nat /\ MinStake \in Nat \ {0}
  BY StakingAssumption DEF PairedInv
<1>1. /\ pending' \subseteq Injected
      /\ UNCHANGED <<now, netVars, certVars>>
      /\ tx \in Injected /\ tx.type = "set_cert_time"
  BY <1>0, ExecutesTyped DEF SetCertTimeTx
<1>2. u \in Users
  BY <1>1 DEF Injected
<1>t. /\ balance \in [Users -> Int]
      /\ certExp \in [Users -> Nat]
      /\ stake \in [Users -> Nat]
      /\ now \in Nat /\ fees \in Nat
  BY <1>0 DEF TypeOK
<1>a. /\ stake[u] >= MinStake
      /\ certExp' = [certExp EXCEPT ![u] = now + CertLife]
      /\ balance' = [balance EXCEPT ![u] = @ - CertFee(u)]
      /\ fees' = fees + CertFee(u)
      /\ UNCHANGED <<nominee, stake, totalNodePenalty, totalUnstakeReward, nodeVars>>
  BY DEF SetCertTimeTx
<1>3. CertFee(u) \in Nat
  BY <1>0 DEF CertFee
<1> HIDE DEF u
<1>4. TypeOK'
  <2>1. /\ balance' \in [Users -> Int]
        /\ certExp' \in [Users -> Nat]
        /\ fees' \in Nat
    BY <1>0, <1>2, <1>3, <1>t, <1>a
  <2> QED  BY <1>0, <1>1, <1>a, <2>1
           DEF TypeOK, nodeVars, lockVars, rewardVars, netVars, certVars
<1>5. StakeIsPaired'
  <2>1. stake[u] # 0
    BY <1>0, <1>2, <1>t, <1>a
  <2>2. \A v \in Users : nominee[v] = None => stake[v] = 0 /\ certExp'[v] = 0
    BY <1>0, <1>t, <1>a, <2>1 DEF StakeIsPaired
  <2> QED  BY <1>0, <1>a, <2>2 DEF StakeIsPaired, nodeVars, lockVars
<1>6. ActiveInThePast'
  BY <1>0, <1>1 DEF ActiveInThePast, netVars
<1> QED  BY <1>4, <1>5, <1>6 DEF PairedInv

LEMMA InitRewardPaired ==
    ASSUME PairedInv, NEW tx \in pending, InitRewardTx(tx)
    PROVE  PairedInv'
<1> DEFINE n == tx.nominee
<1>0. TypeOK /\ StakeIsPaired /\ ActiveInThePast
  BY DEF PairedInv
<1>1. /\ pending' \subseteq Injected
      /\ UNCHANGED <<now, netVars, certVars>>
      /\ tx \in Injected /\ tx.type = "init_reward"
  BY <1>0, ExecutesTyped DEF InitRewardTx
<1>2. n \in Nodes /\ tx.time \in Nat
  BY <1>1 DEF Injected
<1>t. /\ rewardStartTime \in [Nodes -> Nat]
      /\ rewardEndTime \in [Nodes -> Nat]
      /\ rewarded \in [Nodes -> BOOLEAN]
  BY <1>0 DEF TypeOK
<1>a. /\ rewardStartTime' = [rewardStartTime EXCEPT ![n] = tx.time]
      /\ rewardEndTime' = [rewardEndTime EXCEPT ![n] = 0]
      /\ rewarded' = [rewarded EXCEPT ![n] = FALSE]
      /\ UNCHANGED <<userVars, lockVars, reward, totalReward, lastPenaltyTime, fees>>
  BY DEF InitRewardTx
<1> HIDE DEF n
<1>3. /\ rewardStartTime' \in [Nodes -> Nat]
      /\ rewardEndTime' \in [Nodes -> Nat]
      /\ rewarded' \in [Nodes -> BOOLEAN]
  BY <1>2, <1>t, <1>a
<1>4. TypeOK'
  BY <1>0, <1>1, <1>a, <1>3 DEF TypeOK, userVars, lockVars, netVars, certVars
<1>5. StakeIsPaired'
  BY <1>0, <1>a, PairKept DEF pairVars, userVars, lockVars
<1>6. ActiveInThePast'
  BY <1>0, <1>1 DEF ActiveInThePast, netVars
<1> QED  BY <1>4, <1>5, <1>6 DEF PairedInv

LEMMA ClaimRewardPaired ==
    ASSUME PairedInv, NEW tx \in pending, ClaimRewardTx(tx)
    PROVE  PairedInv'
<1> DEFINE n      == tx.nominee
           start  == rewardStartTime[n]
           amount == IF start = 0 THEN 0 ELSE Rate * (tx.time - start)
<1>0. TypeOK /\ StakeIsPaired /\ ActiveInThePast /\ Rate \in Nat
  BY StakingAssumption DEF PairedInv
<1>1. /\ pending' \subseteq Injected
      /\ UNCHANGED <<now, netVars, certVars>>
      /\ tx \in Injected /\ tx.type = "claim_reward"
  BY <1>0, ExecutesTyped DEF ClaimRewardTx
<1>2. n \in Nodes /\ tx.time \in Nat
  BY <1>1 DEF Injected
<1>t. /\ reward \in [Nodes -> Nat]
      /\ totalReward \in [Nodes -> Nat]
      /\ rewardStartTime \in [Nodes -> Nat]
      /\ rewardEndTime \in [Nodes -> Nat]
      /\ rewarded \in [Nodes -> BOOLEAN]
  BY <1>0 DEF TypeOK
<1>a. /\ tx.time >= rewardStartTime[n]
      /\ reward' = [reward EXCEPT ![n] = @ + amount]
      /\ totalReward' = [totalReward EXCEPT ![n] = @ + amount]
      /\ rewardEndTime' = [rewardEndTime EXCEPT ![n] = tx.time]
      /\ rewarded' = [rewarded EXCEPT ![n] = TRUE]
      /\ UNCHANGED <<userVars, lockVars, rewardStartTime, lastPenaltyTime, fees>>
  BY DEF ClaimRewardTx, ClaimIsValid
<1>3. amount \in Nat
  <2>1. tx.time - start \in Nat
    BY <1>2, <1>t, <1>a
  <2>2. \A d \in Nat : Rate * d \in Nat
    BY <1>0
  <2> QED  BY <2>1, <2>2
<1> HIDE DEF n, amount
<1>4. /\ reward' \in [Nodes -> Nat]
      /\ totalReward' \in [Nodes -> Nat]
      /\ rewardEndTime' \in [Nodes -> Nat]
      /\ rewarded' \in [Nodes -> BOOLEAN]
  BY <1>2, <1>3, <1>t, <1>a
<1>5. TypeOK'
  BY <1>0, <1>1, <1>a, <1>4 DEF TypeOK, userVars, lockVars, netVars, certVars
<1>6. StakeIsPaired'
  BY <1>0, <1>a, PairKept DEF pairVars, userVars, lockVars
<1>7. ActiveInThePast'
  BY <1>0, <1>1 DEF ActiveInThePast, netVars
<1> QED  BY <1>5, <1>6, <1>7 DEF PairedInv

\* A penalty takes a share of what is locked, never more.
LEMMA PenaltyBounded ==
    ASSUME NEW locked \in Nat
    PROVE  Penalty(locked) \in 0 .. locked
<1> DEFINE share == (locked * PenaltyPercent) \div 100
<1>1. PenaltyPercent \in Nat
  BY StakingAssumption
<1>2. \A a, b \in Nat : a * b \in Nat
  OBVIOUS
<1>3. \A a \in Nat : a \div 100 \in Nat
  OBVIOUS
<1>4. share \in Nat
  BY <1>1, <1>2, <1>3
<1> HIDE DEF share
<1>5. Penalty(locked) = IF share > locked THEN locked ELSE share
  BY DEF Penalty, share
<1> QED  BY <1>4, <1>5

LEMMA ApplyPenaltyPaired ==
    ASSUME PairedInv, NEW tx \in pending, ApplyPenaltyTx(tx)
    PROVE  PairedInv'
<1> DEFINE n      == tx.nominee
           u      == tx.nominator
           amount == Penalty(stakeLock[n])
<1>0. TypeOK /\ StakeIsPaired /\ ActiveInThePast
  BY DEF PairedInv
<1>1. /\ pending' \subseteq Injected
      /\ UNCHANGED <<now, netVars, certVars>>
      /\ tx \in Injected /\ tx.type = "apply_penalty"
  BY <1>0, ExecutesTyped DEF ApplyPenaltyTx
<1>2. n \in Nodes /\ u \in Users /\ tx.time \in Nat
  BY <1>1 DEF Injected
<1>t. /\ stake \in [Users -> Nat]
      /\ nominee \in [Users -> Nodes \cup {None}]
      /\ nominator \in [Nodes -> Users \cup {None}]
      /\ totalNodePenalty \in [Users -> Nat]
      /\ stakeLock \in [Nodes -> Nat]
      /\ lastPenaltyTime \in [Nodes -> Nat]
      /\ rewardEndTime \in [Nodes -> Nat]
  BY <1>0 DEF TypeOK
<1>a. /\ nominator[n] = u
      /\ stake' = [stake EXCEPT ![u] = @ - amount]
      /\ totalNodePenalty' = [totalNodePenalty EXCEPT ![u] = @ + amount]
      /\ stakeLock' = [stakeLock EXCEPT ![n] = @ - amount]
      /\ lastPenaltyTime' = [lastPenaltyTime EXCEPT ![n] = tx.time]
      /\ rewardEndTime' \in {[rewardEndTime EXCEPT ![n] = tx.time], rewardEndTime}
      /\ UNCHANGED <<balance, nominee, certExp, totalUnstakeReward, nominator,
                     stakeTimestamp, reward, rewardStartTime, rewarded,
                     totalReward, fees>>
  BY DEF ApplyPenaltyTx, PenaltyIsValid, RecordsPenalty
<1>3. /\ nominee[u] = n
      /\ stake[u] = stakeLock[n]
      /\ None \notin Nodes
  BY <1>0, <1>2, <1>a, StakingAssumption DEF StakeIsPaired
<1>4. amount \in 0 .. stakeLock[n]
  BY <1>2, <1>t, PenaltyBounded
<1> HIDE DEF n, u, amount
<1>5. TypeOK'
  <2>1. /\ stake' \in [Users -> Nat]
        /\ totalNodePenalty' \in [Users -> Nat]
        /\ stakeLock' \in [Nodes -> Nat]
    BY <1>2, <1>t, <1>a, <1>3, <1>4
  <2>2. /\ lastPenaltyTime' \in [Nodes -> Nat]
        /\ rewardEndTime' \in [Nodes -> Nat]
    BY <1>2, <1>t, <1>a
  <2> QED  BY <1>0, <1>1, <1>a, <2>1, <2>2 DEF TypeOK, netVars, certVars
<1>6. StakeIsPaired'
  <2>1. \A v \in Users : nominee'[v] # None => stake'[v] = stakeLock'[nominee'[v]]
    <3> SUFFICES ASSUME NEW v \in Users, nominee[v] # None
                 PROVE  stake'[v] = stakeLock'[nominee[v]]
      BY <1>a
    <3>1. nominee[v] \in Nodes
      BY <1>t
    <3>2. stake[v] = stakeLock[nominee[v]]
      BY <1>0 DEF StakeIsPaired
    <3>3. v # u => nominee[v] # n
      BY <1>0, <1>2, <1>a DEF StakeIsPaired
    <3> QED  BY <1>2, <1>t, <1>a, <1>3, <3>1, <3>2, <3>3
  <2>2. \A v \in Users : nominee'[v] = None => stake'[v] = 0 /\ certExp'[v] = 0
    BY <1>0, <1>2, <1>t, <1>a, <1>3 DEF StakeIsPaired
  <2>3. \A m \in Nodes : nominator'[m] = None => stakeLock'[m] = 0
    BY <1>0, <1>2, <1>t, <1>a, StakingAssumption DEF StakeIsPaired
  <2> QED  BY <1>0, <1>a, <2>1, <2>2, <2>3 DEF StakeIsPaired
<1>7. ActiveInThePast'
  BY <1>0, <1>1 DEF ActiveInThePast, netVars
<1> QED  BY <1>5, <1>6, <1>7 DEF PairedInv

\* A transaction that is refused or lost only leaves `pending`.
LEMMA GonePaired ==
    ASSUME PairedInv, NEW tx \in pending, Refused(tx) \/ Lost(tx)
    PROVE  PairedInv'
<1>0. TypeOK /\ StakeIsPaired /\ ActiveInThePast
  BY DEF PairedInv
<1>1. Executes(tx, tx.type) /\ UNCHANGED <<userVars, nodeVars, fees>>
  BY DEF Refused, Lost
<1>2. pending' \subseteq Injected /\ UNCHANGED <<now, netVars, certVars>>
  BY <1>0, <1>1, ExecutesTyped
<1>3. TypeOK'
  BY <1>0, <1>1, <1>2
     DEF TypeOK, userVars, nodeVars, lockVars, rewardVars, netVars, certVars
<1>4. StakeIsPaired'
  BY <1>0, <1>1, PairKept DEF pairVars, userVars, nodeVars, lockVars
<1>5. ActiveInThePast'
  BY <1>0, <1>2 DEF ActiveInThePast, netVars
<1> QED  BY <1>3, <1>4, <1>5 DEF PairedInv

\* Steps of the nodes in the network leave every account alone.
LEMMA NodeStepPaired == ASSUME PairedInv, NodeStep PROVE PairedInv'
<1>0. TypeOK /\ StakeIsPaired /\ ActiveInThePast
  BY DEF PairedInv
<1>t. /\ queue \in [Nodes -> Seq(NetworkTx)]
      /\ status \in [Nodes -> {"out", "standby", "syncing", "active"}]
      /\ activeSince \in [Nodes -> Nat]
      /\ served \in [Nodes -> Nat]
      /\ pending \subseteq Injected
      /\ certs \subseteq Certificate
      /\ now \in Nat
  BY <1>0 DEF TypeOK
<1>1. PICK n \in Nodes :
        \/ Verified(n) \/ SignCertificate(n) \/ Join(n) \/ Select(n) \/ LeaveStandby(n)
        \/ SyncTimeout(n) \/ Activate(n) \/ Refute(n)
        \/ \E early, deactivated \in BOOLEAN : Leave(n, early, deactivated)
  BY DEF NodeStep
<1>2. UNCHANGED <<now, userVars, nodeVars, fees>>
  BY <1>1 DEF Verified, SignCertificate, Join, Select, LeaveStandby, SyncTimeout,
              Activate, Refute, Leave, Moves
<1>3. StakeIsPaired'
  BY <1>0, <1>2, PairKept DEF pairVars, userVars, nodeVars, lockVars
\* What is left to show is about queue, status, certs and pending.
<1>4. ASSUME /\ queue' \in [Nodes -> Seq(NetworkTx)]
             /\ status' \in [Nodes -> {"out", "standby", "syncing", "active"}]
             /\ activeSince' \in [Nodes -> Nat]
             /\ served' \in [Nodes -> Nat]
             /\ pending' \subseteq Injected
             /\ certs' \subseteq Certificate
             /\ undercut' \subseteq certs'
             /\ \A m \in Nodes : activeSince'[m] <= now
      PROVE  PairedInv'
  <2>1. TypeOK'
    BY <1>0, <1>2, <1>4 DEF TypeOK, userVars, nodeVars, lockVars, rewardVars
  <2>2. ActiveInThePast'
    BY <1>2, <1>4 DEF ActiveInThePast
  <2> QED  BY <1>3, <2>1, <2>2 DEF PairedInv
<1>5. undercut \subseteq certs /\ \A m \in Nodes : activeSince[m] <= now
  BY <1>0 DEF TypeOK, ActiveInThePast
<1>6. ASSUME NEW from, NEW to \in {"out", "standby", "syncing", "active"}, Moves(n, from, to)
      PROVE  /\ status' \in [Nodes -> {"out", "standby", "syncing", "active"}]
             /\ UNCHANGED certVars
  BY <1>t, <1>6 DEF Moves
<1>7. ASSUME NEW txs \in SUBSET Injected, Adds(txs)
      PROVE  pending' \subseteq Injected
  BY <1>t, <1>7 DEF Adds
<1>8. ASSUME NEW type \in {"nodeInitReward", "nodeReward"}, Enqueue(n, type)
      PROVE  queue' \in [Nodes -> Seq(NetworkTx)]
  <2>1. [type |-> type, time |-> now] \in NetworkTx
    BY <1>t DEF NetworkTx
  <2>2. queue' = [queue EXCEPT ![n] = Append(queue[n], [type |-> type, time |-> now])]
    BY <1>8 DEF Enqueue
  <2>3. Append(queue[n], [type |-> type, time |-> now]) \in Seq(NetworkTx)
    BY <1>t, <2>1
  <2> QED  BY <1>t, <2>2, <2>3
<1>9. CASE Verified(n)
  <2>1. queue' = [queue EXCEPT ![n] = Tail(queue[n])] /\ queue[n] # << >>
    BY <1>9 DEF Verified
  <2>2. Tail(queue[n]) \in Seq(NetworkTx)
    BY <1>t, <2>1
  <2>3. queue' \in [Nodes -> Seq(NetworkTx)]
    BY <1>t, <2>1, <2>2
  <2> QED  BY <1>t, <1>4, <1>5, <1>9, <2>3 DEF Verified, certVars
<1>10. CASE SignCertificate(n)
  <2> DEFINE c == [nominator |-> nominator[n], nominee |-> n,
                   stake |-> stake[nominator[n]], certExp |-> certExp[nominator[n]]]
  <2>1. /\ nominator[n] # None
        /\ certs' = certs \cup {c}
        /\ UNCHANGED <<netVars, undercut, pending>>
    BY <1>10 DEF SignCertificate
  <2>2. nominator[n] \in Users /\ stake[nominator[n]] \in Nat /\ certExp[nominator[n]] \in Nat
    BY <1>0, <2>1 DEF TypeOK
  <2>3. c \in Certificate
    BY <2>2 DEF Certificate
  <2> QED  BY <1>t, <1>4, <1>5, <2>1, <2>3 DEF netVars
<1>11. CASE Join(n)
  BY <1>t, <1>4, <1>5, <1>6, <1>11 DEF Join, certVars
<1>12. CASE Select(n)
  BY <1>t, <1>4, <1>5, <1>6, <1>12 DEF Select, certVars
<1>13. CASE LeaveStandby(n)
  BY <1>t, <1>4, <1>5, <1>6, <1>13 DEF LeaveStandby, certVars
<1>14. CASE SyncTimeout(n)
  <2>1. PenaltyFor(n, "SyncingTooLong") \subseteq Injected
    BY <1>0, PenaltyForTyped DEF Violation
  <2> QED  BY <1>t, <1>4, <1>5, <1>6, <1>7, <1>14, <2>1 DEF SyncTimeout, certVars
<1>15. CASE Activate(n)
  <2>1. /\ Moves(n, "syncing", "active")
        /\ Enqueue(n, "nodeInitReward")
        /\ activeSince' = [activeSince EXCEPT ![n] = now]
        /\ UNCHANGED <<served, pending>>
    BY <1>15 DEF Activate
  <2>2. activeSince' \in [Nodes -> Nat] /\ \A m \in Nodes : activeSince'[m] <= now
    BY <1>t, <1>5, <2>1
  <2> QED  BY <1>t, <1>4, <1>5, <1>6, <1>8, <2>1, <2>2 DEF certVars
<1>16. CASE Refute(n)
  <2>1. PenaltyFor(n, "NodeRefuted") \subseteq Injected
    BY <1>0, PenaltyForTyped DEF Violation
  <2> QED  BY <1>t, <1>4, <1>5, <1>6, <1>7, <1>16, <2>1 DEF Refute, certVars
<1>17. ASSUME NEW early \in BOOLEAN, NEW deactivated \in BOOLEAN, Leave(n, early, deactivated)
       PROVE  PairedInv'
  <2>1. /\ Moves(n, "active", "out")
        /\ served' = [served EXCEPT ![n] = @ + (now - activeSince[n])]
        /\ deactivated => Enqueue(n, "nodeReward")
        /\ ~ deactivated => UNCHANGED queue
        /\ Adds(IF early THEN PenaltyFor(n, "LeftNetworkEarly") ELSE {})
        /\ UNCHANGED activeSince
    BY <1>17 DEF Leave
  <2>2. served' \in [Nodes -> Nat]
    BY <1>t, <1>5, <2>1
  <2>3. queue' \in [Nodes -> Seq(NetworkTx)]
    BY <1>t, <1>8, <2>1
  <2>4. PenaltyFor(n, "LeftNetworkEarly") \subseteq Injected
    BY <1>0, PenaltyForTyped DEF Violation
  <2>5. pending' \subseteq Injected
    BY <1>7, <2>1, <2>4
  <2> QED  BY <1>t, <1>4, <1>5, <1>6, <2>1, <2>2, <2>3, <2>5 DEF certVars
<1> QED  BY <1>1, <1>9, <1>10, <1>11, <1>12, <1>13, <1>14, <1>15, <1>16, <1>17

\* A shutdown of the network leaves every account alone, too.
LEMMA ShutdownPaired == ASSUME PairedInv, NetworkStops PROVE PairedInv'
<1>0. TypeOK /\ StakeIsPaired /\ ActiveInThePast
  BY DEF PairedInv
<1>t. /\ queue \in [Nodes -> Seq(NetworkTx)]
      /\ activeSince \in [Nodes -> Nat]
      /\ served \in [Nodes -> Nat]
      /\ now \in Nat
      /\ \A m \in Nodes : activeSince[m] <= now
  BY <1>0 DEF TypeOK, ActiveInThePast
<1>1. PICK activated \in SUBSET Nodes : Shutdown(activated)
  BY DEF NetworkStops
<1>2. ASSUME NEW n \in Nodes
      PROVE  ShutdownEntries(n, n \in activated) \in Seq(NetworkTx)
  <2>1. /\ [type |-> "nodeReward", time |-> now] \in NetworkTx
        /\ [type |-> "nodeInitReward", time |-> now] \in NetworkTx
    BY <1>t DEF NetworkTx
  <2> DEFINE claim == [type |-> "nodeReward", time |-> now]
             start == [type |-> "nodeInitReward", time |-> now]
             paid  == queue[n] # << >> /\ queue[n][Len(queue[n])].type = "nodeReward"
             first == IF n \in activated THEN << start >> ELSE << >>
             last  == IF paid THEN << >> ELSE << claim >>
  <2>2. first \in Seq(NetworkTx)
    <3>1. << start >> \in Seq(NetworkTx) /\ << >> \in Seq(NetworkTx)
      BY <2>1
    <3> QED  BY <3>1
  <2>3. last \in Seq(NetworkTx)
    <3>1. << claim >> \in Seq(NetworkTx) /\ << >> \in Seq(NetworkTx)
      BY <2>1
    <3> QED  BY <3>1
  <2>4. ShutdownEntries(n, n \in activated) = first \o last
    BY DEF ShutdownEntries
  <2> HIDE DEF first, last
  <2> QED  BY <2>2, <2>3, <2>4, ConcatProperties
<1>3. queue' \in [Nodes -> Seq(NetworkTx)]
  <2>1. ASSUME NEW n \in Nodes
        PROVE  queue[n] \o ShutdownEntries(n, n \in activated) \in Seq(NetworkTx)
    <3> DEFINE entries == ShutdownEntries(n, n \in activated)
    <3>1. queue[n] \in Seq(NetworkTx) /\ entries \in Seq(NetworkTx)
      BY <1>t, <1>2
    <3> HIDE DEF entries
    <3> QED  BY <3>1, ConcatProperties DEF entries
  <2> QED  BY <1>t, <1>1, <2>1 DEF Shutdown
<1>4. served' \in [Nodes -> Nat]
  BY <1>t, <1>1 DEF Shutdown
<1>5. activeSince' \in [Nodes -> Nat] /\ \A m \in Nodes : activeSince'[m] <= now
  BY <1>t, <1>1 DEF Shutdown
<1>6. /\ status' \in [Nodes -> {"out", "standby", "syncing", "active"}]
      /\ UNCHANGED <<now, userVars, nodeVars, certVars, pending, fees>>
  BY <1>1 DEF Shutdown
<1>7. StakeIsPaired'
  BY <1>0, <1>6, PairKept DEF pairVars, userVars, nodeVars, lockVars
<1>8. TypeOK'
  BY <1>0, <1>3, <1>4, <1>5, <1>6 DEF TypeOK, userVars, nodeVars, lockVars, rewardVars, certVars
<1>9. ActiveInThePast'
  BY <1>5, <1>6 DEF ActiveInThePast
<1> QED  BY <1>7, <1>8, <1>9 DEF PairedInv

LEMMA TickPaired == ASSUME PairedInv, Tick PROVE PairedInv'
<1>0. TypeOK /\ StakeIsPaired /\ ActiveInThePast
  BY DEF PairedInv
<1>1. /\ now' = now + 1
      /\ certs' = {c \in certs : c.certExp > now}
      /\ undercut' = undercut \cap certs'
      /\ UNCHANGED <<userVars, nodeVars, netVars, pending, fees>>
  BY DEF Tick
<1>2. /\ now' \in Nat
      /\ certs' \subseteq Certificate
      /\ undercut' \subseteq certs'
  BY <1>0, <1>1 DEF TypeOK
<1>3. TypeOK'
  BY <1>0, <1>1, <1>2
     DEF TypeOK, userVars, nodeVars, lockVars, rewardVars, netVars
<1>4. StakeIsPaired'
  BY <1>0, <1>1, PairKept DEF pairVars, userVars, nodeVars, lockVars
<1>5. now \in Nat /\ activeSince \in [Nodes -> Nat]
  BY <1>0 DEF TypeOK
<1>6. ActiveInThePast'
  BY <1>0, <1>1, <1>5 DEF ActiveInThePast, netVars
<1> QED  BY <1>3, <1>4, <1>6 DEF PairedInv

LEMMA NextPaired == ASSUME PairedInv, [Next]_vars PROVE PairedInv'
<1>1. CASE UserTx
  BY <1>1, DepositPaired, WithdrawPaired DEF UserTx
<1>2. CASE InjectTx
  BY <1>2, InjectPaired
<1>3. CASE ExecuteTx
  BY <1>3, SetCertTimePaired, InitRewardPaired, ClaimRewardPaired,
     ApplyPenaltyPaired, GonePaired DEF ExecuteTx
<1>4. CASE NodeStep
  BY <1>4, NodeStepPaired
<1>5. CASE LoseTx
  BY <1>5, GonePaired DEF LoseTx
<1>6. CASE Tick
  BY <1>6, TickPaired
<1>8. CASE NetworkStops
  BY <1>8, ShutdownPaired
<1>7. CASE UNCHANGED vars
  <2>1. UNCHANGED <<now, userVars, nodeVars, netVars, certVars, pending, fees>>
    BY <1>7 DEF vars
  <2>2. TypeOK'
    BY <2>1 DEF PairedInv, TypeOK, userVars, nodeVars, lockVars, rewardVars,
                netVars, certVars
  <2>3. StakeIsPaired'
    BY <2>1, PairKept DEF PairedInv, pairVars, userVars, nodeVars, lockVars
  <2>4. ActiveInThePast'
    BY <2>1 DEF PairedInv, ActiveInThePast, netVars
  <2> QED  BY <2>2, <2>3, <2>4 DEF PairedInv
<1> QED  BY <1>1, <1>2, <1>3, <1>4, <1>5, <1>6, <1>7, <1>8 DEF Next

LEMMA PairedAlways == Spec => []PairedInv
<1>1. PairedInv /\ [Next]_vars => PairedInv'
  BY NextPaired
<1> QED  BY InitPaired, <1>1, PTL DEF Spec

\* The state keeps its types: no penalty, however late, takes more than what is
\* staked (apply_penalty.ts), and no claim is for a negative time (claim_reward.ts).
THEOREM StakingTyped == Spec => []TypeOK
<1>1. PairedInv => TypeOK
  BY DEF PairedInv
<1> QED  BY PairedAlways, <1>1, PTL

\* Nominator and node always agree on who stakes on whom and how much, for any
\* number of both and any interleaving of deposits, withdrawals and penalties.
THEOREM StakingPaired == Spec => []StakeIsPaired
<1>1. PairedInv => StakeIsPaired
  BY DEF PairedInv
<1> QED  BY PairedAlways, <1>1, PTL
-----------------------------------------------------------------------------
(* Certificates.  A renewal must not shorten what was already signed: no   *)
(* expiry lies further ahead than one certificate's life.                  *)

ExpiryIsNear == \A u \in Users : certExp[u] <= now + CertLife

BackedInv == LiveCertificateIsBacked /\ ExpiryIsNear

LEMMA BackedKept ==
    ASSUME BackedInv,
           UNCHANGED <<now, nominee, nominator, certExp, certs, undercut>>
    PROVE  BackedInv'
  BY DEF BackedInv, LiveCertificateIsBacked, ExpiryIsNear

LEMMA InitBacked == Init => BackedInv
  BY StakingAssumption DEF Init, BackedInv, LiveCertificateIsBacked, ExpiryIsNear

LEMMA DepositBacked ==
    ASSUME PairedInv, BackedInv, NEW u \in Users, NEW n \in Nodes,
           NEW amount \in Deposits, DepositStakeTx(u, n, amount)
    PROVE  BackedInv'
<1>t. /\ nominee \in [Users -> Nodes \cup {None}]
      /\ nominator \in [Nodes -> Users \cup {None}]
      /\ certExp \in [Users -> Nat]
      /\ certs \subseteq Certificate
      /\ now \in Nat /\ CertLife \in Nat
      /\ None \notin Users \cup Nodes
  BY StakingAssumption DEF PairedInv, TypeOK
<1>a. /\ nominee[u] \in {None, n}
      /\ nominator[n] \in {None, u}
      /\ nominee' = [nominee EXCEPT ![u] = n]
      /\ certExp' = [certExp EXCEPT ![u] = 0]
      /\ nominator' = [nominator EXCEPT ![n] = u]
      /\ undercut' = undercut \cup {c \in certs : c.nominator = u}
      /\ UNCHANGED <<now, certs>>
  BY DEF DepositStakeTx, DepositIsValid, MayPair
<1>1. ASSUME NEW c \in certs' \ undercut', c.certExp > now'
      PROVE  /\ nominator'[c.nominee] = c.nominator
             /\ nominee'[c.nominator] = c.nominee
             /\ certExp'[c.nominator] >= c.certExp
  <2>1. c \in certs \ undercut /\ c.nominator # u /\ c.certExp > now
    BY <1>1, <1>a
  <2>2. c.nominator \in Users /\ c.nominee \in Nodes
    BY <2>1, <1>t DEF Certificate
  <2>3. /\ nominator[c.nominee] = c.nominator
        /\ nominee[c.nominator] = c.nominee
        /\ certExp[c.nominator] >= c.certExp
    BY <2>1 DEF BackedInv, LiveCertificateIsBacked
  <2>4. c.nominee # n
    BY <2>1, <2>2, <2>3, <1>a, <1>t
  <2> QED  BY <2>1, <2>2, <2>3, <2>4, <1>a, <1>t
<1>2. ExpiryIsNear'
  BY <1>t, <1>a DEF BackedInv, ExpiryIsNear
<1> QED  BY <1>1, <1>2 DEF BackedInv, LiveCertificateIsBacked

\* A stake whose certificate is still live is not withdrawn.
LEMMA WithdrawBacked ==
    ASSUME PairedInv, BackedInv, NEW u \in Users, NEW n \in Nodes,
           NEW force \in BOOLEAN, WithdrawStakeTx(u, n, force)
    PROVE  BackedInv'
<1>t. /\ nominee \in [Users -> Nodes \cup {None}]
      /\ nominator \in [Nodes -> Users \cup {None}]
      /\ certExp \in [Users -> Nat]
      /\ certs \subseteq Certificate
      /\ now \in Nat /\ CertLife \in Nat
  BY StakingAssumption DEF PairedInv, TypeOK
<1>a. /\ nominator[n] = u
      /\ certExp[u] <= now
      /\ nominee' = [nominee EXCEPT ![u] = None]
      /\ certExp' = [certExp EXCEPT ![u] = 0]
      /\ nominator' = [nominator EXCEPT ![n] = None]
      /\ UNCHANGED <<now, certs, undercut>>
  BY DEF WithdrawStakeTx, WithdrawIsValid, CertificateIsOver, certVars
<1>1. ASSUME NEW c \in certs' \ undercut', c.certExp > now'
      PROVE  /\ nominator'[c.nominee] = c.nominator
             /\ nominee'[c.nominator] = c.nominee
             /\ certExp'[c.nominator] >= c.certExp
  <2>1. c \in certs \ undercut /\ c.certExp > now
    BY <1>1, <1>a
  <2>2. c.nominator \in Users /\ c.nominee \in Nodes /\ c.certExp \in Nat
    BY <2>1, <1>t DEF Certificate
  <2>3. /\ nominator[c.nominee] = c.nominator
        /\ nominee[c.nominator] = c.nominee
        /\ certExp[c.nominator] >= c.certExp
    BY <2>1 DEF BackedInv, LiveCertificateIsBacked
  <2>4. c.nominator # u
    BY <2>1, <2>2, <2>3, <1>a, <1>t
  <2>5. c.nominee # n
    BY <2>3, <2>4, <1>a
  <2> QED  BY <2>2, <2>3, <2>4, <2>5, <1>a, <1>t
<1>2. ExpiryIsNear'
  BY <1>t, <1>a DEF BackedInv, ExpiryIsNear
<1> QED  BY <1>1, <1>2 DEF BackedInv, LiveCertificateIsBacked

LEMMA SetCertTimeBacked ==
    ASSUME PairedInv, BackedInv, NEW tx \in pending, SetCertTimeTx(tx)
    PROVE  BackedInv'
<1> DEFINE u == tx.nominator
<1>t. /\ certExp \in [Users -> Nat]
      /\ certs \subseteq Certificate
      /\ now \in Nat /\ CertLife \in Nat
  BY StakingAssumption DEF PairedInv, TypeOK
<1>0. tx \in Injected /\ tx.type = "set_cert_time"
  BY DEF PairedInv, TypeOK, SetCertTimeTx, Executes
<1>2. u \in Users
  BY <1>0 DEF Injected
<1>a. /\ certExp' = [certExp EXCEPT ![u] = now + CertLife]
      /\ UNCHANGED <<now, nominee, nominator, certs, undercut>>
  BY DEF SetCertTimeTx, Executes, nodeVars, lockVars, certVars
<1> HIDE DEF u
<1>3. \A v \in Users : certExp'[v] >= certExp[v] /\ certExp'[v] <= now + CertLife
  BY <1>t, <1>2, <1>a DEF BackedInv, ExpiryIsNear
<1>4. ASSUME NEW c \in certs' \ undercut', c.certExp > now'
      PROVE  /\ nominator'[c.nominee] = c.nominator
             /\ nominee'[c.nominator] = c.nominee
             /\ certExp'[c.nominator] >= c.certExp
  <2>1. c \in certs \ undercut /\ c.certExp > now
    BY <1>4, <1>a
  <2>2. c.nominator \in Users /\ c.certExp \in Nat
    BY <2>1, <1>t DEF Certificate
  <2>3. /\ nominator[c.nominee] = c.nominator
        /\ nominee[c.nominator] = c.nominee
        /\ certExp[c.nominator] >= c.certExp
    BY <2>1 DEF BackedInv, LiveCertificateIsBacked
  <2>4. certExp'[c.nominator] \in Nat
    BY <1>t, <1>2, <1>a, <2>2
  <2> QED  BY <1>t, <1>3, <1>a, <2>2, <2>3, <2>4
<1>5. ExpiryIsNear'
  BY <1>3, <1>a DEF ExpiryIsNear
<1> QED  BY <1>4, <1>5 DEF BackedInv, LiveCertificateIsBacked

LEMMA SignBacked ==
    ASSUME PairedInv, BackedInv, NEW n \in Nodes, SignCertificate(n)
    PROVE  BackedInv'
<1> DEFINE u == nominator[n]
           s == [nominator |-> u, nominee |-> n, stake |-> stake[u], certExp |-> certExp[u]]
<1>t. /\ nominator \in [Nodes -> Users \cup {None}]
      /\ certExp \in [Users -> Nat]
  BY DEF PairedInv, TypeOK
<1>a. /\ u # None
      /\ nominee[u] = n
      /\ certs' = certs \cup {s}
      /\ UNCHANGED <<now, nominee, nominator, certExp, undercut>>
  BY DEF SignCertificate, userVars, nodeVars, lockVars
<1>1. ASSUME NEW c \in certs' \ undercut', c.certExp > now'
      PROVE  /\ nominator'[c.nominee] = c.nominator
             /\ nominee'[c.nominator] = c.nominee
             /\ certExp'[c.nominator] >= c.certExp
  <2>1. CASE c = s
    <3>1. certExp[u] \in Nat
      BY <1>t, <1>a
    <3> QED  BY <1>a, <2>1, <3>1
  <2>2. CASE c # s
    BY <1>1, <1>a, <2>2 DEF BackedInv, LiveCertificateIsBacked
  <2> QED  BY <2>1, <2>2
<1>2. ExpiryIsNear'
  BY <1>a DEF BackedInv, ExpiryIsNear
<1> QED  BY <1>1, <1>2 DEF BackedInv, LiveCertificateIsBacked

LEMMA TickBacked == ASSUME PairedInv, BackedInv, Tick PROVE BackedInv'
<1>t. /\ certExp \in [Users -> Nat]
      /\ certs \subseteq Certificate
      /\ now \in Nat /\ CertLife \in Nat
  BY StakingAssumption DEF PairedInv, TypeOK
<1>a. /\ now' = now + 1
      /\ certs' \subseteq certs
      /\ undercut' = undercut \cap certs'
      /\ UNCHANGED <<nominee, nominator, certExp>>
  BY DEF Tick, userVars, nodeVars, lockVars
<1>1. ASSUME NEW c \in certs' \ undercut', c.certExp > now'
      PROVE  /\ nominator'[c.nominee] = c.nominator
             /\ nominee'[c.nominator] = c.nominee
             /\ certExp'[c.nominator] >= c.certExp
  <2>1. c \in certs \ undercut
    BY <1>1, <1>a
  <2>2. c.certExp \in Nat
    BY <2>1, <1>t DEF Certificate
  <2>3. c.certExp > now
    BY <1>1, <1>a, <1>t, <2>2
  <2> QED  BY <2>1, <2>3, <1>a DEF BackedInv, LiveCertificateIsBacked
<1>2. ExpiryIsNear'
  BY <1>t, <1>a DEF BackedInv, ExpiryIsNear
<1> QED  BY <1>1, <1>2 DEF BackedInv, LiveCertificateIsBacked

LEMMA NextBacked == ASSUME PairedInv, BackedInv, [Next]_vars PROVE BackedInv'
<1>1. CASE UserTx
  BY <1>1, DepositBacked, WithdrawBacked DEF UserTx
<1>2. CASE InjectTx
  BY <1>2, BackedKept
     DEF InjectTx, InjectSetCertTime, InjectInitReward, InjectClaimReward, Inject,
         userVars, nodeVars, lockVars, certVars
<1>3. CASE ExecuteTx
  <2>1. PICK tx \in pending :
          \/ SetCertTimeTx(tx) \/ InitRewardTx(tx) \/ ClaimRewardTx(tx)
          \/ ApplyPenaltyTx(tx) \/ Refused(tx)
    BY <1>3 DEF ExecuteTx
  <2>2. CASE SetCertTimeTx(tx)
    BY <2>2, SetCertTimeBacked
  <2>3. CASE InitRewardTx(tx) \/ ClaimRewardTx(tx)
    BY <2>3, BackedKept
       DEF InitRewardTx, ClaimRewardTx, Executes, userVars, lockVars, certVars
  <2>4. CASE ApplyPenaltyTx(tx)
    BY <2>4, BackedKept DEF ApplyPenaltyTx, Executes, certVars
  <2>5. CASE Refused(tx)
    BY <2>5, BackedKept DEF Refused, Executes, userVars, nodeVars, lockVars, certVars
  <2> QED  BY <2>1, <2>2, <2>3, <2>4, <2>5
<1>4. CASE NodeStep
  <2>1. PICK n \in Nodes :
          \/ Verified(n) \/ SignCertificate(n) \/ Join(n) \/ Select(n)
          \/ LeaveStandby(n) \/ SyncTimeout(n) \/ Activate(n) \/ Refute(n)
          \/ \E early, deactivated \in BOOLEAN : Leave(n, early, deactivated)
    BY <1>4 DEF NodeStep
  <2>2. CASE SignCertificate(n)
    BY <2>2, SignBacked
  <2>3. CASE ~ SignCertificate(n)
    <3>1. UNCHANGED <<now, userVars, nodeVars, certVars>>
      BY <2>1, <2>3 DEF Verified, Join, Select, LeaveStandby, SyncTimeout, Activate,
                        Refute, Leave, Moves
    <3> QED  BY <3>1, BackedKept DEF userVars, nodeVars, lockVars, certVars
  <2> QED  BY <2>2, <2>3
<1>5. CASE LoseTx
  BY <1>5, BackedKept
     DEF LoseTx, Lost, Executes, userVars, nodeVars, lockVars, certVars
<1>6. CASE Tick
  BY <1>6, TickBacked
<1>8. CASE NetworkStops
  BY <1>8, BackedKept
     DEF NetworkStops, Shutdown, userVars, nodeVars, lockVars, certVars
<1>7. CASE UNCHANGED vars
  BY <1>7, BackedKept DEF vars, userVars, nodeVars, lockVars, certVars
<1> QED  BY <1>1, <1>2, <1>3, <1>4, <1>5, <1>6, <1>7, <1>8 DEF Next

LEMMA BackedAlways == Spec => []BackedInv
<1>1. PairedInv /\ BackedInv /\ [Next]_vars => BackedInv'
  BY NextBacked
<1> QED  BY PairedAlways, InitBacked, <1>1, PTL DEF Spec

\* A certificate that has not expired is backed by the stake it was signed for,
\* unless the nominator topped it up after the signing: neither late renewals
\* (set_cert_time.ts) nor withdrawals (withdraw_stake.ts) take it away.
THEOREM StakingBacked == Spec => []LiveCertificateIsBacked
<1>1. BackedInv => LiveCertificateIsBacked
  BY DEF BackedInv
<1> QED  BY BackedAlways, <1>1, PTL
-----------------------------------------------------------------------------
(* The books.  Each step moves tokens from one entry to another; the       *)
(* lemmas of TotalsProofs turn the entries into the totals.                *)

bookVars == <<balance, stakeLock, fees, totalNodePenalty, totalUnstakeReward,
              reward, totalReward>>

LEMMA BooksKept ==
    ASSUME BooksBalance, UNCHANGED bookVars
    PROVE  BooksBalance'
BY DEF BooksBalance, bookVars

\* One entry of a function becomes v.
LEMMA EntryChanges ==
    ASSUME NEW S, IsFiniteSet(S), NEW f \in [S -> Int], NEW e \in S, NEW v \in Int,
           NEW g, g = [f EXCEPT ![e] = v]
    PROVE  Total(g, S) = Total(f, S) + (v - f[e])
<1>1. /\ \A x \in S : f[x] \in Int /\ g[x] \in Int
      /\ \A x \in S \ {e} : f[x] = g[x]
      /\ g[e] = v
    OBVIOUS
<1>2. Total(g, S) = Total(f, S) + (g[e] - f[e])
    BY <1>1, TotalChanges
<1>. QED  BY <1>1, <1>2

LEMMA BooksTyped ==
    ASSUME TypeOK
    PROVE  /\ IsFiniteSet(Users) /\ IsFiniteSet(Nodes)
           /\ balance \in [Users -> Int]
           /\ totalNodePenalty \in [Users -> Int]
           /\ totalUnstakeReward \in [Users -> Int]
           /\ stakeLock \in [Nodes -> Int]
           /\ reward \in [Nodes -> Int]
           /\ totalReward \in [Nodes -> Int]
           /\ fees \in Int
           /\ Total(balance, Users) \in Int
           /\ Total(totalNodePenalty, Users) \in Int
           /\ Total(totalUnstakeReward, Users) \in Int
           /\ Total(stakeLock, Nodes) \in Int
           /\ Total(reward, Nodes) \in Int
           /\ Total(totalReward, Nodes) \in Int
           /\ Cardinality(Users) * InitialBalance \in Int
<1>1. IsFiniteSet(Users) /\ IsFiniteSet(Nodes) /\ InitialBalance \in Int
    BY StakingAssumption
<1>2. /\ balance \in [Users -> Int]
      /\ totalNodePenalty \in [Users -> Int]
      /\ totalUnstakeReward \in [Users -> Int]
      /\ stakeLock \in [Nodes -> Int]
      /\ reward \in [Nodes -> Int]
      /\ totalReward \in [Nodes -> Int]
      /\ fees \in Int
    BY DEF TypeOK
<1>3. /\ Total(balance, Users) \in Int
      /\ Total(totalNodePenalty, Users) \in Int
      /\ Total(totalUnstakeReward, Users) \in Int
      /\ Total(stakeLock, Nodes) \in Int
      /\ Total(reward, Nodes) \in Int
      /\ Total(totalReward, Nodes) \in Int
    <2>1. /\ \A u \in Users : /\ balance[u] \in Int
                             /\ totalNodePenalty[u] \in Int
                             /\ totalUnstakeReward[u] \in Int
          /\ \A n \in Nodes : /\ stakeLock[n] \in Int
                             /\ reward[n] \in Int
                             /\ totalReward[n] \in Int
        BY <1>2
    <2>. QED  BY <1>1, <2>1, TotalInt
<1>4. Cardinality(Users) * InitialBalance \in Int
    <2>1. Cardinality(Users) \in Int
        BY <1>1, FS_CardinalityType
    <2>. QED  BY <1>1, <2>1
<1>. QED  BY <1>1, <1>2, <1>3, <1>4

LEMMA InitBooks == Init => BooksBalance
<1> SUFFICES ASSUME Init PROVE BooksBalance
    OBVIOUS
<1>1. IsFiniteSet(Users) /\ IsFiniteSet(Nodes) /\ InitialBalance \in Int
    BY StakingAssumption
<1>2. /\ Cardinality(Users) \in Nat /\ Cardinality(Nodes) \in Nat
    BY <1>1, FS_CardinalityType
<1>3. Total(balance, Users) = Cardinality(Users) * InitialBalance
    BY <1>1, TotalOfConstant DEF Init
<1>4. /\ Total(totalNodePenalty, Users) = Cardinality(Users) * 0
      /\ Total(totalUnstakeReward, Users) = Cardinality(Users) * 0
    BY <1>1, TotalOfConstant DEF Init
<1>5. /\ Total(stakeLock, Nodes) = Cardinality(Nodes) * 0
      /\ Total(reward, Nodes) = Cardinality(Nodes) * 0
      /\ Total(totalReward, Nodes) = Cardinality(Nodes) * 0
    BY <1>1, TotalOfConstant DEF Init
<1>6. Cardinality(Users) * InitialBalance \in Int
    BY <1>1, <1>2
<1>7. fees = 0
    BY DEF Init
<1>. QED  BY <1>2, <1>3, <1>4, <1>5, <1>6, <1>7 DEF BooksBalance

LEMMA DepositBooks ==
    ASSUME PairedInv, BooksBalance, NEW u \in Users, NEW n \in Nodes,
           NEW amount \in Deposits, DepositStakeTx(u, n, amount)
    PROVE  BooksBalance'
<1>1. TypeOK /\ amount \in Int /\ TxFee \in Nat
    BY StakingAssumption DEF PairedInv
<1>2. /\ balance' = [balance EXCEPT ![u] = balance[u] - (amount + TxFee)]
      /\ stakeLock' = [stakeLock EXCEPT ![n] = stakeLock[n] + amount]
      /\ fees' = fees + TxFee
      /\ UNCHANGED <<totalNodePenalty, totalUnstakeReward, reward, totalReward>>
    BY DEF DepositStakeTx, rewardVars
<1>3. balance[u] \in Int /\ stakeLock[n] \in Int
    BY <1>1, BooksTyped
<1>4. Total(balance', Users) = Total(balance, Users) - (amount + TxFee)
    <2> DEFINE v == balance[u] - (amount + TxFee)
    <2>1. /\ IsFiniteSet(Users) /\ balance \in [Users -> Int] /\ v \in Int
          /\ balance' = [balance EXCEPT ![u] = v]
          /\ Total(balance, Users) \in Int
        BY <1>1, <1>2, <1>3, BooksTyped
    <2> HIDE DEF v
    <2>2. Total(balance', Users) = Total(balance, Users) + (v - balance[u])
        BY <2>1, EntryChanges
    <2>. QED  BY <1>1, <1>2, <1>3, <2>1, <2>2 DEF v
<1>5. Total(stakeLock', Nodes) = Total(stakeLock, Nodes) + amount
    <2> DEFINE v == stakeLock[n] + amount
    <2>1. /\ IsFiniteSet(Nodes) /\ stakeLock \in [Nodes -> Int] /\ v \in Int
          /\ stakeLock' = [stakeLock EXCEPT ![n] = v]
          /\ Total(stakeLock, Nodes) \in Int
        BY <1>1, <1>2, <1>3, BooksTyped
    <2> HIDE DEF v
    <2>2. Total(stakeLock', Nodes) = Total(stakeLock, Nodes) + (v - stakeLock[n])
        BY <2>1, EntryChanges
    <2>. QED  BY <1>1, <1>2, <1>3, <2>1, <2>2 DEF v
<1>. QED  BY <1>1, <1>2, <1>4, <1>5, BooksTyped DEF BooksBalance

\* What is locked and what is paid go back to the nominator.
LEMMA WithdrawBooks ==
    ASSUME PairedInv, BooksBalance, NEW u \in Users, NEW n \in Nodes,
           NEW force \in BOOLEAN, WithdrawStakeTx(u, n, force)
    PROVE  BooksBalance'
<1> DEFINE paid == IF PeriodIsOpen(n) THEN 0 ELSE reward[n]
<1>1. TypeOK /\ TxFee \in Nat
    BY StakingAssumption DEF PairedInv
<1>2. /\ balance' = [balance EXCEPT ![u] = balance[u] + stakeLock[n] + paid - TxFee]
      /\ stakeLock' = [stakeLock EXCEPT ![n] = 0]
      /\ totalUnstakeReward' = [totalUnstakeReward EXCEPT ![u] = totalUnstakeReward[u] + paid]
      /\ reward' = [reward EXCEPT ![n] = 0]
      /\ fees' = fees + TxFee
      /\ UNCHANGED <<totalNodePenalty, totalReward>>
    BY DEF WithdrawStakeTx, ClearReward
<1>3. /\ balance[u] \in Int /\ stakeLock[n] \in Int /\ totalUnstakeReward[u] \in Int
      /\ reward[n] \in Nat
    BY <1>1, BooksTyped DEF TypeOK
<1>4. paid \in Int /\ paid <= reward[n]
    BY <1>3
<1> HIDE DEF paid
<1>5. Total(balance', Users) = Total(balance, Users) + (stakeLock[n] + paid - TxFee)
    <2> DEFINE v == balance[u] + stakeLock[n] + paid - TxFee
    <2>1. /\ IsFiniteSet(Users) /\ balance \in [Users -> Int] /\ v \in Int
          /\ balance' = [balance EXCEPT ![u] = v]
          /\ Total(balance, Users) \in Int
        BY <1>1, <1>2, <1>3, <1>4, BooksTyped
    <2> HIDE DEF v
    <2>2. Total(balance', Users) = Total(balance, Users) + (v - balance[u])
        BY <2>1, EntryChanges
    <2>. QED  BY <1>1, <1>2, <1>3, <1>4, <2>1, <2>2 DEF v
<1>6. Total(stakeLock', Nodes) = Total(stakeLock, Nodes) - stakeLock[n]
    <2> DEFINE v == 0
    <2>1. /\ IsFiniteSet(Nodes) /\ stakeLock \in [Nodes -> Int] /\ v \in Int
          /\ stakeLock' = [stakeLock EXCEPT ![n] = v]
          /\ Total(stakeLock, Nodes) \in Int
        BY <1>1, <1>2, <1>3, BooksTyped
    <2> HIDE DEF v
    <2>2. Total(stakeLock', Nodes) = Total(stakeLock, Nodes) + (v - stakeLock[n])
        BY <2>1, EntryChanges
    <2>. QED  BY <1>1, <1>2, <1>3, <2>1, <2>2 DEF v
<1>7. Total(totalUnstakeReward', Users) = Total(totalUnstakeReward, Users) + paid
    <2> DEFINE v == totalUnstakeReward[u] + paid
    <2>1. /\ IsFiniteSet(Users) /\ totalUnstakeReward \in [Users -> Int] /\ v \in Int
          /\ totalUnstakeReward' = [totalUnstakeReward EXCEPT ![u] = v]
          /\ Total(totalUnstakeReward, Users) \in Int
        BY <1>1, <1>2, <1>3, <1>4, BooksTyped
    <2> HIDE DEF v
    <2>2. Total(totalUnstakeReward', Users) = Total(totalUnstakeReward, Users) + (v - totalUnstakeReward[u])
        BY <2>1, EntryChanges
    <2>. QED  BY <1>1, <1>2, <1>3, <1>4, <2>1, <2>2 DEF v
<1>8. Total(reward', Nodes) = Total(reward, Nodes) - reward[n]
    <2> DEFINE v == 0
    <2>1. /\ IsFiniteSet(Nodes) /\ reward \in [Nodes -> Int] /\ v \in Int
          /\ reward' = [reward EXCEPT ![n] = v]
          /\ Total(reward, Nodes) \in Int
        BY <1>1, <1>2, <1>3, BooksTyped
    <2> HIDE DEF v
    <2>2. Total(reward', Nodes) = Total(reward, Nodes) + (v - reward[n])
        BY <2>1, EntryChanges
    <2>. QED  BY <1>1, <1>2, <1>3, <2>1, <2>2 DEF v
<1>. QED  BY <1>1, <1>2, <1>3, <1>4, <1>5, <1>6, <1>7, <1>8, BooksTyped DEF BooksBalance

LEMMA SetCertTimeBooks ==
    ASSUME PairedInv, BooksBalance, NEW tx \in pending, SetCertTimeTx(tx)
    PROVE  BooksBalance'
<1> DEFINE u == tx.nominator
<1>1. TypeOK /\ TxFee \in Nat
    BY StakingAssumption DEF PairedInv
<1>2. u \in Users
    BY <1>1, ExecutesTyped DEF SetCertTimeTx, Injected
<1>3. CertFee(u) \in Nat
    BY <1>1 DEF CertFee
<1>4. /\ balance' = [balance EXCEPT ![u] = balance[u] - CertFee(u)]
      /\ fees' = fees + CertFee(u)
      /\ UNCHANGED <<stakeLock, totalNodePenalty, totalUnstakeReward, reward, totalReward>>
    BY DEF SetCertTimeTx, nodeVars, lockVars, rewardVars
<1>5. balance[u] \in Int
    BY <1>1, <1>2, BooksTyped
<1> HIDE DEF u
<1>6. Total(balance', Users) = Total(balance, Users) - CertFee(u)
    <2> DEFINE v == balance[u] - CertFee(u)
    <2>1. /\ IsFiniteSet(Users) /\ balance \in [Users -> Int] /\ v \in Int
          /\ balance' = [balance EXCEPT ![u] = v]
          /\ Total(balance, Users) \in Int
        BY <1>1, <1>2, <1>3, <1>4, <1>5, BooksTyped
    <2> HIDE DEF v
    <2>2. Total(balance', Users) = Total(balance, Users) + (v - balance[u])
        BY <1>2, <2>1, EntryChanges
    <2>. QED  BY <1>1, <1>2, <1>3, <1>4, <1>5, <2>1, <2>2 DEF v
<1>. QED  BY <1>1, <1>3, <1>4, <1>6, BooksTyped DEF BooksBalance

LEMMA ClaimBooks ==
    ASSUME PairedInv, BooksBalance, NEW tx \in pending, ClaimRewardTx(tx)
    PROVE  BooksBalance'
<1> DEFINE n == tx.nominee
           start == rewardStartTime[n]
           amount == IF start = 0 THEN 0 ELSE Rate * (tx.time - start)
<1>1. TypeOK /\ Rate \in Nat
    BY StakingAssumption DEF PairedInv
<1>2. n \in Nodes /\ tx.time \in Nat
    BY <1>1, ExecutesTyped DEF ClaimRewardTx, Injected
<1>3. amount \in Int
    BY <1>1, <1>2 DEF TypeOK
<1>4. /\ reward' = [reward EXCEPT ![n] = reward[n] + amount]
      /\ totalReward' = [totalReward EXCEPT ![n] = totalReward[n] + amount]
      /\ UNCHANGED <<balance, stakeLock, fees, totalNodePenalty, totalUnstakeReward>>
    BY DEF ClaimRewardTx, userVars, lockVars
<1>5. reward[n] \in Int /\ totalReward[n] \in Int
    BY <1>1, <1>2, BooksTyped
<1> HIDE DEF n, amount
<1>6. Total(reward', Nodes) = Total(reward, Nodes) + amount
    <2> DEFINE v == reward[n] + amount
    <2>1. /\ IsFiniteSet(Nodes) /\ reward \in [Nodes -> Int] /\ v \in Int
          /\ reward' = [reward EXCEPT ![n] = v]
          /\ Total(reward, Nodes) \in Int
        BY <1>1, <1>2, <1>3, <1>4, <1>5, BooksTyped
    <2> HIDE DEF v
    <2>2. Total(reward', Nodes) = Total(reward, Nodes) + (v - reward[n])
        BY <1>2, <2>1, EntryChanges
    <2>. QED  BY <1>1, <1>2, <1>3, <1>4, <1>5, <2>1, <2>2 DEF v
<1>7. Total(totalReward', Nodes) = Total(totalReward, Nodes) + amount
    <2> DEFINE v == totalReward[n] + amount
    <2>1. /\ IsFiniteSet(Nodes) /\ totalReward \in [Nodes -> Int] /\ v \in Int
          /\ totalReward' = [totalReward EXCEPT ![n] = v]
          /\ Total(totalReward, Nodes) \in Int
        BY <1>1, <1>2, <1>3, <1>4, <1>5, BooksTyped
    <2> HIDE DEF v
    <2>2. Total(totalReward', Nodes) = Total(totalReward, Nodes) + (v - totalReward[n])
        BY <1>2, <2>1, EntryChanges
    <2>. QED  BY <1>1, <1>2, <1>3, <1>4, <1>5, <2>1, <2>2 DEF v
<1>. QED  BY <1>1, <1>3, <1>4, <1>6, <1>7, BooksTyped DEF BooksBalance

LEMMA PenaltyBooks ==
    ASSUME PairedInv, BooksBalance, NEW tx \in pending, ApplyPenaltyTx(tx)
    PROVE  BooksBalance'
<1> DEFINE n == tx.nominee
           u == tx.nominator
           amount == Penalty(stakeLock[n])
<1>1. TypeOK
    BY DEF PairedInv
<1>2. n \in Nodes /\ u \in Users
    BY <1>1, ExecutesTyped DEF ApplyPenaltyTx, Injected
<1>3. amount \in Int
    <2>1. stakeLock \in [Nodes -> Nat]
        BY <1>1 DEF TypeOK
    <2>2. stakeLock[n] \in Nat
        BY <1>2, <2>1
    <2> HIDE DEF n, u
    <2>3. amount \in 0 .. stakeLock[n]
        BY <2>2, PenaltyBounded
    <2>. QED  BY <2>2, <2>3
<1>4. /\ totalNodePenalty' = [totalNodePenalty EXCEPT ![u] = totalNodePenalty[u] + amount]
      /\ stakeLock' = [stakeLock EXCEPT ![n] = stakeLock[n] - amount]
      /\ UNCHANGED <<balance, fees, totalUnstakeReward, reward, totalReward>>
    BY DEF ApplyPenaltyTx, RecordsPenalty
<1>5. stakeLock[n] \in Int /\ totalNodePenalty[u] \in Int
    BY <1>1, <1>2, BooksTyped
<1> HIDE DEF n, u, amount
<1>6. Total(totalNodePenalty', Users) = Total(totalNodePenalty, Users) + amount
    <2> DEFINE v == totalNodePenalty[u] + amount
    <2>1. /\ IsFiniteSet(Users) /\ totalNodePenalty \in [Users -> Int] /\ v \in Int
          /\ totalNodePenalty' = [totalNodePenalty EXCEPT ![u] = v]
          /\ Total(totalNodePenalty, Users) \in Int
        BY <1>1, <1>2, <1>3, <1>4, <1>5, BooksTyped
    <2> HIDE DEF v
    <2>2. Total(totalNodePenalty', Users) = Total(totalNodePenalty, Users) + (v - totalNodePenalty[u])
        BY <1>2, <2>1, EntryChanges
    <2>. QED  BY <1>1, <1>2, <1>3, <1>4, <1>5, <2>1, <2>2 DEF v
<1>7. Total(stakeLock', Nodes) = Total(stakeLock, Nodes) - amount
    <2> DEFINE v == stakeLock[n] - amount
    <2>1. /\ IsFiniteSet(Nodes) /\ stakeLock \in [Nodes -> Int] /\ v \in Int
          /\ stakeLock' = [stakeLock EXCEPT ![n] = v]
          /\ Total(stakeLock, Nodes) \in Int
        BY <1>1, <1>2, <1>3, <1>4, <1>5, BooksTyped
    <2> HIDE DEF v
    <2>2. Total(stakeLock', Nodes) = Total(stakeLock, Nodes) + (v - stakeLock[n])
        BY <1>2, <2>1, EntryChanges
    <2>. QED  BY <1>1, <1>2, <1>3, <1>4, <1>5, <2>1, <2>2 DEF v
<1>. QED  BY <1>1, <1>3, <1>4, <1>6, <1>7, BooksTyped DEF BooksBalance

LEMMA NextBooks == ASSUME PairedInv, BooksBalance, [Next]_vars PROVE BooksBalance'
<1> USE DEF bookVars, userVars, nodeVars, lockVars, rewardVars
<1>1. CASE UserTx
  BY <1>1, DepositBooks, WithdrawBooks DEF UserTx
<1>2. CASE InjectTx
  BY <1>2, BooksKept
     DEF InjectTx, InjectSetCertTime, InjectInitReward, InjectClaimReward, Inject
<1>3. CASE ExecuteTx
  <2>1. PICK tx \in pending :
          \/ SetCertTimeTx(tx) \/ InitRewardTx(tx) \/ ClaimRewardTx(tx)
          \/ ApplyPenaltyTx(tx) \/ Refused(tx)
    BY <1>3 DEF ExecuteTx
  <2>2. CASE InitRewardTx(tx) \/ Refused(tx)
    BY <2>2, BooksKept DEF InitRewardTx, Refused
  <2> QED  BY <2>1, <2>2, SetCertTimeBooks, ClaimBooks, PenaltyBooks
<1>4. CASE NodeStep
  <2>1. UNCHANGED <<userVars, nodeVars, fees>>
    BY <1>4 DEF NodeStep, Verified, SignCertificate, Join, Select, LeaveStandby,
                SyncTimeout, Activate, Refute, Leave, Moves
  <2> QED  BY <2>1, BooksKept
<1>5. CASE LoseTx
  BY <1>5, BooksKept DEF LoseTx, Lost
<1>6. CASE Tick
  BY <1>6, BooksKept DEF Tick
<1>7. CASE NetworkStops
  BY <1>7, BooksKept DEF NetworkStops, Shutdown
<1>8. CASE UNCHANGED vars
  BY <1>8, BooksKept DEF vars
<1> QED  BY <1>1, <1>2, <1>3, <1>4, <1>5, <1>6, <1>7, <1>8 DEF Next

\* Tokens are neither made nor lost by staking, for any number of nominators and
\* nodes: deposits, fees, penalties and withdrawals move them between balances, locks
\* and what is burnt, and no reward is paid that no claim granted (withdraw_stake.ts).
THEOREM StakingBooksBalance == Spec => []BooksBalance
<1>1. PairedInv /\ BooksBalance /\ [Next]_vars => BooksBalance'
  BY NextBooks
<1> QED  BY PairedAlways, InitBooks, <1>1, PTL DEF Spec
-----------------------------------------------------------------------------
(* Rewards.  Every claim in a queue pays for one stay: the time between    *)
(* the two transactions of the stay or, for the first of the queue, the    *)
(* time since the start of the period.  What was granted and what the      *)
(* queue may still be granted is never more than the time served.          *)

Opens(t) == [type |-> "nodeInitReward", time |-> t]
Claims(t) == [type |-> "nodeReward", time |-> t]

\* The queue holds stays in the order of time: a reward follows its start.
InOrder(q, time) ==
    /\ \A k \in 1..Len(q) : 0 < q[k].time /\ q[k].time <= time
    /\ \A j, k \in 1..Len(q) : j <= k => q[j].time <= q[k].time
    /\ \A k \in 2..Len(q) : q[k].type = "nodeReward" => q[k - 1].type = "nodeInitReward"

\* The stay of an active node is the last that was queued, or its period has begun.
StayIsQueued(q, start, since) ==
    IF q = << >> THEN start = 0 \/ start >= since ELSE q[Len(q)] = Opens(since)

\* An injected init_reward is for the first of the queue.
StartIsFirst(q, start, t) ==
    /\ q # << >>
    /\ q[1] = Opens(t)
    /\ start < t

\* An injected claim_reward is for the first of the queue, or would grant nothing.
NotBefore(q, time, t) == t <= time /\ \A k \in 1..Len(q) : t <= q[k].time

ClaimIsFirst(q, t) == q # << >> /\ q[1] = Claims(t)

ClaimIsVoid(start, end, done, t) == end >= t \/ start = 0 \/ start >= t \/ done

ClaimsInOrder(q, start, end, done, time, t) ==
    /\ NotBefore(q, time, t)
    /\ ClaimIsFirst(q, t) \/ ClaimIsVoid(start, end, done, t)

\* The time the k-th of the queue would be granted now.
Width(q, start, done, k) ==
    IF q[k].type = "nodeInitReward" THEN 0
    ELSE IF k > 1 THEN q[k].time - q[k - 1].time
    ELSE IF start = 0 \/ done \/ start > q[k].time THEN 0
    ELSE q[k].time - start

\* r[k] bounds what the queue is granted after its k-th.
Funds(r, q, start, done) ==
    /\ r \in [0..Len(q) -> Nat]
    /\ \A k \in 1..Len(q) : r[k - 1] >= r[k] + Width(q, start, done, k)

Funded(q, start, done, total, time) ==
    \E r : Funds(r, q, start, done) /\ total + Rate * r[0] <= Rate * time

StayInv(n) ==
    /\ InOrder(queue[n], now)
    /\ status[n] = "active" => StayIsQueued(queue[n], rewardStartTime[n], activeSince[n])
    /\ Funded(queue[n], rewardStartTime[n], rewarded[n], totalReward[n], served[n])

InjectedInv(tx) ==
    LET n == tx.nominee
    IN  /\ tx.type = "init_reward" => StartIsFirst(queue[n], rewardStartTime[n], tx.time)
        /\ tx.type = "claim_reward" =>
             ClaimsInOrder(queue[n], rewardStartTime[n], rewardEndTime[n], rewarded[n],
                           now, tx.time)
        /\ tx.type = "apply_penalty" => tx.time = now

RewardInv ==
    /\ now > 0
    /\ \A n \in Nodes : StayInv(n)
    /\ \A tx \in pending : InjectedInv(tx)

\* The reward of a time, of a longer one, and of two.
LEMMA RateTyped ==
    ASSUME NEW a \in Int
    PROVE  Rate * a \in Int
  BY StakingAssumption

LEMMA RateGrows ==
    ASSUME NEW a \in Int, NEW b \in Int, a <= b
    PROVE  Rate * a <= Rate * b
  BY StakingAssumption

LEMMA RateAdds ==
    ASSUME NEW a \in Int, NEW b \in Int
    PROVE  Rate * (a + b) = Rate * a + Rate * b
  BY StakingAssumption

LEMMA QueueEntry ==
    ASSUME NEW q \in Seq(NetworkTx), NEW k \in 1..Len(q)
    PROVE  /\ q[k] \in NetworkTx
           /\ q[k].time \in Nat
           /\ q[k].type \in {"nodeInitReward", "nodeReward"}
<1>1. q[k] \in NetworkTx
  OBVIOUS
<1> QED  BY <1>1 DEF NetworkTx

LEMMA WidthTyped ==
    ASSUME NEW q \in Seq(NetworkTx), NEW start \in Nat, NEW done \in BOOLEAN,
           NEW k \in 1..Len(q)
    PROVE  Width(q, start, done, k) \in Int
<1>1. q[k].time \in Nat
  BY QueueEntry
<1>2. k > 1 => q[k - 1].time \in Nat
  <2>1. k > 1 => k - 1 \in 1..Len(q)
    OBVIOUS
  <2> QED  BY <2>1, QueueEntry
<1> QED  BY <1>1, <1>2 DEF Width

\* Time goes on, or the first of the queue would be granted less.
LEMMA FundedStays ==
    ASSUME NEW q \in Seq(NetworkTx), NEW total \in Nat,
           NEW start \in Nat, NEW done \in BOOLEAN, NEW time \in Nat,
           NEW start2 \in Nat, NEW done2 \in BOOLEAN, NEW time2 \in Nat,
           Funded(q, start, done, total, time), time <= time2,
           q # << >> => Width(q, start2, done2, 1) <= Width(q, start, done, 1)
    PROVE  Funded(q, start2, done2, total, time2)
<1>1. PICK r : Funds(r, q, start, done) /\ total + Rate * r[0] <= Rate * time
  BY DEF Funded
<1>2. r[0] \in Int /\ time \in Int /\ time2 \in Int
  BY <1>1 DEF Funds
<1>3. total + Rate * r[0] <= Rate * time2
  <2>1. Rate * time <= Rate * time2
    BY RateGrows
  <2>2. Rate * r[0] \in Int /\ Rate * time \in Int /\ Rate * time2 \in Int
    BY <1>2, RateTyped
  <2> QED  BY <1>1, <2>1, <2>2
<1>4. ASSUME NEW k \in 1..Len(q)
      PROVE  r[k - 1] >= r[k] + Width(q, start2, done2, k)
  <2>1. Width(q, start2, done2, k) <= Width(q, start, done, k)
    <3>1. CASE k = 1
      BY <3>1
    <3>2. CASE k > 1
      <4>1. Width(q, start2, done2, k) = Width(q, start, done, k)
        BY <3>2 DEF Width
      <4> QED  BY <4>1, WidthTyped
    <3> QED  BY <3>1, <3>2
  <2>2. Width(q, start2, done2, k) \in Int /\ Width(q, start, done, k) \in Int
    BY WidthTyped
  <2>3. r[k - 1] \in Nat /\ r[k] \in Nat
    BY <1>1 DEF Funds
  <2> QED  BY <1>1, <2>1, <2>2, <2>3 DEF Funds
<1> QED  BY <1>1, <1>3, <1>4 DEF Funds, Funded

\* A stay is queued; it is granted w, and time has grown by as much.
LEMMA FundedAppends ==
    ASSUME NEW q \in Seq(NetworkTx), NEW total \in Nat, NEW start \in Nat,
           NEW done \in BOOLEAN, NEW time \in Nat, NEW time2 \in Nat, NEW w \in Nat,
           Funded(q, start, done, total, time), time + w <= time2,
           NEW e \in NetworkTx,
           w = Width(Append(q, e), start, done, Len(q) + 1)
    PROVE  Funded(Append(q, e), start, done, total, time2)
<1> DEFINE p == Append(q, e)
<1>1. PICK r : Funds(r, q, start, done) /\ total + Rate * r[0] <= Rate * time
  BY DEF Funded
<1> DEFINE s == [k \in 0..Len(p) |-> IF k = Len(p) THEN 0 ELSE r[k] + w]
<1>2. /\ p \in Seq(NetworkTx)
      /\ Len(p) = Len(q) + 1
      /\ Len(q) \in Nat
      /\ \A k \in 1..Len(q) : p[k] = q[k]
  OBVIOUS
<1>3. \A k \in 0..Len(q) : r[k] \in Nat
  BY <1>1 DEF Funds
<1> HIDE DEF p
<1>4. s \in [0..Len(p) -> Nat]
  <2>1. \A k \in 0..Len(p) : k # Len(p) => k \in 0..Len(q)
    BY <1>2
  <2> QED  BY <1>3, <2>1
<1>5. ASSUME NEW k \in 1..Len(p)
      PROVE  s[k - 1] >= s[k] + Width(p, start, done, k)
  <2>0. s[k - 1] = r[k - 1] + w /\ r[k - 1] \in Nat
    BY <1>2, <1>3
  <2>1. CASE k = Len(p)
    BY <1>2, <2>0, <2>1 DEF p
  <2>2. CASE k # Len(p)
    <3>1. k \in 1..Len(q) /\ s[k] = r[k] + w /\ r[k] \in Nat
      BY <1>2, <1>3, <2>2
    <3>2. Width(p, start, done, k) = Width(q, start, done, k)
      <4>1. p[k] = q[k] /\ (k > 1 => p[k - 1] = q[k - 1])
        <5>1. k > 1 => k - 1 \in 1..Len(q)
          BY <1>2, <3>1
        <5> QED  BY <1>2, <3>1, <5>1
      <4> QED  BY <4>1 DEF Width
    <3>3. r[k - 1] >= r[k] + Width(q, start, done, k)
      BY <1>1, <3>1 DEF Funds
    <3>4. Width(q, start, done, k) \in Int
      BY <3>1, WidthTyped
    <3> QED  BY SMTT(30), <2>0, <3>1, <3>2, <3>3, <3>4
  <2> QED  BY <2>1, <2>2
<1>6. total + Rate * s[0] <= Rate * time2
  <2>1. s[0] = r[0] + w /\ r[0] \in Int /\ w \in Int /\ time \in Int /\ time2 \in Int
    BY <1>2, <1>3
  <2>2. Rate * (r[0] + w) = Rate * r[0] + Rate * w
    BY <2>1, RateAdds
  <2>3. Rate * (time + w) = Rate * time + Rate * w
    BY RateAdds
  <2>4. Rate * (time + w) <= Rate * time2
    BY RateGrows
  <2>5. Rate * r[0] \in Int /\ Rate * w \in Int /\ Rate * time \in Int /\ Rate * time2 \in Int
    BY <2>1, RateTyped
  <2> HIDE DEF s
  <2> QED  BY SMTT(30), <1>1, <2>1, <2>2, <2>3, <2>4, <2>5
<1>7. Funds(s, p, start, done)
  <2> HIDE DEF s
  <2> QED  BY <1>4, <1>5 DEF Funds
<1> HIDE DEF s
<1> QED  BY <1>6, <1>7 DEF Funded, p

\* The first of the queue leaves it.
LEMMA FundedPops ==
    ASSUME NEW q \in Seq(NetworkTx), NEW total \in Nat, NEW start \in Nat,
           NEW done \in BOOLEAN, NEW time \in Nat,
           Funded(q, start, done, total, time), q # << >>,
           Len(q) > 1 => Width(Tail(q), start, done, 1) <= Width(q, start, done, 2),
           \A k \in 1..Len(q) : Width(q, start, done, k) >= 0
    PROVE  Funded(Tail(q), start, done, total, time)
<1> DEFINE p == Tail(q)
<1>1. PICK r : Funds(r, q, start, done) /\ total + Rate * r[0] <= Rate * time
  BY DEF Funded
<1> DEFINE s == [k \in 0..Len(p) |-> r[k + 1]]
<1>2. /\ p \in Seq(NetworkTx)
      /\ Len(p) = Len(q) - 1
      /\ Len(q) \in Nat /\ Len(q) >= 1
      /\ \A k \in 1..Len(p) : p[k] = q[k + 1]
  OBVIOUS
<1>3. \A k \in 0..Len(q) : r[k] \in Nat
  BY <1>1 DEF Funds
<1> HIDE DEF p
<1>4. s \in [0..Len(p) -> Nat]
  BY <1>2, <1>3
<1>5. ASSUME NEW k \in 1..Len(p)
      PROVE  s[k - 1] >= s[k] + Width(p, start, done, k)
  <2>1. k + 1 \in 1..Len(q) /\ s[k - 1] = r[k] /\ s[k] = r[k + 1] /\ r[k] \in Nat /\ r[k + 1] \in Nat
    BY <1>2, <1>3
  <2>2. r[k] >= r[k + 1] + Width(q, start, done, k + 1)
    <3>1. r[(k + 1) - 1] >= r[k + 1] + Width(q, start, done, k + 1)
      BY <1>1, <2>1 DEF Funds
    <3> QED  BY <3>1
  <2>0. Width(p, start, done, k) \in Int /\ Width(q, start, done, k + 1) \in Int
    BY <1>2, <2>1, WidthTyped
  <2>3. Width(p, start, done, k) <= Width(q, start, done, k + 1)
    <3>1. CASE k = 1
      BY <1>2, <3>1 DEF p
    <3>2. CASE k > 1
      <4>1. p[k] = q[k + 1] /\ p[k - 1] = q[k]
        BY <1>2, <3>2
      <4>2. Width(p, start, done, k) = Width(q, start, done, k + 1)
        BY <3>2, <4>1 DEF Width
      <4> QED  BY <2>0, <4>2
    <3> QED  BY <3>1, <3>2
  <2> HIDE DEF s
  <2> QED  BY <2>0, <2>1, <2>2, <2>3
<1>6. total + Rate * s[0] <= Rate * time
  <2>1. s[0] = r[1] /\ r[1] \in Int /\ r[0] \in Int /\ time \in Int
    BY <1>2, <1>3
  <2>2. r[1] <= r[0]
    <3>1. 1 \in 1..Len(q)
      BY <1>2
    <3>2. r[1 - 1] >= r[1] + Width(q, start, done, 1)
      BY <1>1, <3>1 DEF Funds
    <3> QED  BY <2>1, <3>1, <3>2, WidthTyped
  <2>3. Rate * r[1] <= Rate * r[0]
    BY <2>1, <2>2, RateGrows
  <2>4. Rate * r[1] \in Int /\ Rate * r[0] \in Int /\ Rate * time \in Int
    BY <2>1, RateTyped
  <2> HIDE DEF s
  <2> QED  BY <1>1, <2>1, <2>3, <2>4
<1>7. Funds(s, p, start, done)
  <2> HIDE DEF s
  <2> QED  BY <1>4, <1>5 DEF Funds
<1> HIDE DEF s
<1> QED  BY <1>6, <1>7 DEF Funded, p

\* The first of the queue is granted what it is worth.
LEMMA FundedPays ==
    ASSUME NEW q \in Seq(NetworkTx), NEW total \in Nat, NEW start \in Nat,
           NEW done \in BOOLEAN, NEW time \in Nat,
           Funded(q, start, done, total, time), q # << >>,
           NEW paid \in BOOLEAN, paid = TRUE
    PROVE  Funded(q, start, paid, total + Rate * Width(q, start, done, 1), time)
<1> DEFINE w == Width(q, start, done, 1)
<1>1. PICK r : Funds(r, q, start, done) /\ total + Rate * r[0] <= Rate * time
  BY DEF Funded
<1>2. 1 \in 1..Len(q)
  OBVIOUS
<1>3. w \in Int
  BY <1>2, WidthTyped
<1> HIDE DEF w
<1> DEFINE s == [r EXCEPT ![0] = r[1]]
<1>4. \A k \in 0..Len(q) : r[k] \in Nat
  BY <1>1 DEF Funds
<1>5. s \in [0..Len(q) -> Nat]
  BY <1>1, <1>2, <1>4 DEF Funds
<1>s. /\ s[0] = r[1]
      /\ \A k \in 1..Len(q) : s[k] = r[k] /\ r[k] \in Nat /\ (k > 1 => s[k - 1] = r[k - 1])
  BY <1>1, <1>4 DEF Funds
<1> HIDE DEF s
<1>6. ASSUME NEW k \in 1..Len(q)
      PROVE  s[k - 1] >= s[k] + Width(q, start, paid, k)
  <2>0. k \in Int /\ (k # 1 => k > 1)
    OBVIOUS
  <2>1. CASE k = 1
    <3>1. Width(q, start, paid, k) = 0
      BY <2>1 DEF Width
    <3>2. s[k - 1] = r[1] /\ s[k] = r[1] /\ r[1] \in Nat
      BY <1>2, <1>s, <2>1
    <3> QED  BY <3>1, <3>2
  <2>2. CASE k # 1
    <3>1. s[k - 1] = r[k - 1] /\ s[k] = r[k]
      BY <1>s, <2>0, <2>2
    <3>2. Width(q, start, paid, k) = Width(q, start, done, k)
      BY <2>0, <2>2 DEF Width
    <3>3. r[k - 1] >= r[k] + Width(q, start, done, k)
      BY <1>1 DEF Funds
    <3> QED  BY <3>1, <3>2, <3>3
  <2> QED  BY <2>1, <2>2
<1>7. (total + Rate * w) + Rate * s[0] <= Rate * time
  <2>1. s[0] = r[1] /\ r[1] \in Int /\ r[0] \in Int /\ time \in Int
    BY <1>2, <1>4, <1>s
  <2>2. w + r[1] <= r[0]
    <3>1. r[1 - 1] >= r[1] + w
      BY <1>1, <1>2 DEF Funds, w
    <3> QED  BY <1>3, <2>1, <3>1
  <2>3. Rate * (w + r[1]) <= Rate * r[0]
    BY <1>3, <2>1, <2>2, RateGrows
  <2>4. Rate * (w + r[1]) = Rate * w + Rate * r[1]
    BY <1>3, <2>1, RateAdds
  <2>5. Rate * w \in Int /\ Rate * r[1] \in Int /\ Rate * r[0] \in Int /\ Rate * time \in Int
    BY <1>3, <2>1, RateTyped
  <2> QED  BY <1>1, <2>1, <2>3, <2>4, <2>5
<1>8. Funds(s, q, start, paid)
  BY <1>5, <1>6 DEF Funds
<1> QED  BY <1>7, <1>8 DEF Funded, w

LEMMA InOrderAppends ==
    ASSUME NEW q \in Seq(NetworkTx), NEW time \in Nat, time > 0, InOrder(q, time),
           NEW e \in NetworkTx, e.time = time,
           e.type = "nodeReward" /\ q # << >> => q[Len(q)].type = "nodeInitReward"
    PROVE  InOrder(Append(q, e), time)
<1> DEFINE p == Append(q, e)
<1>1. /\ Len(p) = Len(q) + 1 /\ Len(q) \in Nat
      /\ \A k \in 1..Len(q) : p[k] = q[k] /\ q[k].time \in Nat
      /\ p[Len(p)] = e
      /\ q # << >> => Len(q) > 0
  <2>1. \A k \in 1..Len(q) : q[k].time \in Nat
    BY QueueEntry
  <2> QED  BY <2>1
<1> HIDE DEF p
<1>2. \A k \in 1..Len(p) : k \in 1..Len(q) \/ k = Len(p)
  BY <1>1
<1>3. \A k \in 1..Len(p) : 0 < p[k].time /\ p[k].time <= time
  BY <1>1, <1>2 DEF InOrder
<1>4. \A j, k \in 1..Len(p) : j <= k => p[j].time <= p[k].time
  <2> TAKE j, k \in 1..Len(p)
  <2>1. CASE k = Len(p)
    BY <1>1, <1>3, <2>1
  <2>2. CASE k # Len(p)
    <3>1. j <= k => j \in 1..Len(q)
      BY <1>1, <1>2, <2>2
    <3> QED  BY <1>1, <1>2, <2>2, <3>1 DEF InOrder
  <2> QED  BY <2>1, <2>2
<1>5. \A k \in 2..Len(p) : p[k].type = "nodeReward" => p[k - 1].type = "nodeInitReward"
  <2> TAKE k \in 2..Len(p)
  <2>1. CASE k = Len(p)
    <3>1. k - 1 = Len(q) /\ k - 1 \in 1..Len(q)
      BY <1>1, <2>1
    <3>2. q # << >>
      BY <3>1
    <3> QED  BY <1>1, <2>1, <3>1, <3>2
  <2>2. CASE k # Len(p)
    <3>1. k \in 2..Len(q) /\ k - 1 \in 1..Len(q) /\ k \in 1..Len(q)
      BY <1>1, <2>2
    <3> QED  BY <1>1, <3>1 DEF InOrder
  <2> QED  BY <2>1, <2>2
<1> QED  BY <1>3, <1>4, <1>5 DEF InOrder, p

LEMMA InOrderPops ==
    ASSUME NEW q \in Seq(NetworkTx), NEW time \in Nat, InOrder(q, time), q # << >>
    PROVE  InOrder(Tail(q), time)
<1> DEFINE p == Tail(q)
<1>1. /\ Len(p) = Len(q) - 1 /\ Len(q) \in Nat /\ Len(q) >= 1
      /\ \A k \in 1..Len(p) : p[k] = q[k + 1] /\ k + 1 \in 1..Len(q)
  OBVIOUS
<1> HIDE DEF p
<1>2. \A k \in 1..Len(p) : 0 < p[k].time /\ p[k].time <= time
  BY <1>1 DEF InOrder
<1>3. \A j, k \in 1..Len(p) : j <= k => p[j].time <= p[k].time
  BY <1>1 DEF InOrder
<1>4. \A k \in 2..Len(p) : p[k].type = "nodeReward" => p[k - 1].type = "nodeInitReward"
  <2> TAKE k \in 2..Len(p)
  <2>1. k + 1 \in 2..Len(q) /\ p[k] = q[k + 1] /\ p[k - 1] = q[k]
    <3>1. k \in 1..Len(p) /\ k - 1 \in 1..Len(p) /\ (k - 1) + 1 = k
      BY <1>1
    <3> QED  BY <1>1, <3>1
  <2>2. q[k + 1].type = "nodeReward" => q[(k + 1) - 1].type = "nodeInitReward"
    BY <2>1 DEF InOrder
  <2> QED  BY <2>1, <2>2
<1> QED  BY <1>2, <1>3, <1>4 DEF InOrder, p

LEMMA WidthPositive ==
    ASSUME NEW q \in Seq(NetworkTx), NEW time \in Nat, InOrder(q, time),
           NEW start \in Nat, NEW done \in BOOLEAN, NEW k \in 1..Len(q)
    PROVE  Width(q, start, done, k) >= 0
<1>1. q[k].time \in Nat
  BY QueueEntry
<1>2. CASE k > 1
  <2>1. k - 1 \in 1..Len(q)
    BY <1>2
  <2>2. q[k - 1].time \in Nat /\ q[k - 1].time <= q[k].time
    BY <2>1, QueueEntry DEF InOrder
  <2> QED  BY <1>1, <1>2, <2>2 DEF Width
<1>3. CASE ~ (k > 1)
  BY <1>1, <1>3 DEF Width
<1> QED  BY <1>2, <1>3

LEMMA EntryTyped ==
    ASSUME NEW t \in Nat
    PROVE  /\ Opens(t) \in NetworkTx /\ Opens(t).time = t /\ Opens(t).type = "nodeInitReward"
           /\ Claims(t) \in NetworkTx /\ Claims(t).time = t /\ Claims(t).type = "nodeReward"
  BY DEF Opens, Claims, NetworkTx

\* A stay begins: nothing is granted yet.
LEMMA StayBegins ==
    ASSUME NEW q \in Seq(NetworkTx), NEW t \in Nat, t > 0, InOrder(q, t),
           NEW total \in Nat, NEW start \in Nat, NEW done \in BOOLEAN, NEW time \in Nat,
           Funded(q, start, done, total, time)
    PROVE  LET p == Append(q, Opens(t))
           IN  /\ p \in Seq(NetworkTx)
               /\ InOrder(p, t)
               /\ StayIsQueued(p, start, t)
               /\ Funded(p, start, done, total, time)
<1> DEFINE p == Append(q, Opens(t))
<1>1. /\ Opens(t) \in NetworkTx /\ Opens(t).time = t /\ Opens(t).type = "nodeInitReward"
  BY EntryTyped
<1>2. InOrder(p, t)
  BY <1>1, InOrderAppends
<1>3. p \in Seq(NetworkTx) /\ Len(p) = Len(q) + 1 /\ p[Len(p)] = Opens(t) /\ p # << >>
  BY <1>1
<1>4. 0 = Width(p, start, done, Len(q) + 1)
  BY <1>1, <1>3 DEF Width
<1>5. Funded(p, start, done, total, time)
  <2>1. time + 0 <= time
    OBVIOUS
  <2> QED  BY <1>1, <1>4, <2>1, FundedAppends
<1> HIDE DEF p
<1>6. StayIsQueued(p, start, t)
  BY <1>3 DEF StayIsQueued
<1> QED  BY <1>2, <1>3, <1>5, <1>6 DEF p

\* A stay ends: it is worth no more than the time since its beginning.
LEMMA StayEnds ==
    ASSUME NEW q \in Seq(NetworkTx), NEW t \in Nat, t > 0, InOrder(q, t),
           NEW total \in Nat, NEW start \in Nat, NEW done \in BOOLEAN, NEW time \in Nat,
           Funded(q, start, done, total, time),
           NEW since \in Nat, since <= t, StayIsQueued(q, start, since)
    PROVE  LET p == Append(q, Claims(t))
           IN  InOrder(p, t) /\ Funded(p, start, done, total, time + (t - since))
<1> DEFINE p == Append(q, Claims(t))
           w == Width(p, start, done, Len(q) + 1)
<1>1. /\ Claims(t) \in NetworkTx /\ Claims(t).time = t /\ Claims(t).type = "nodeReward"
      /\ Opens(since).time = since /\ Opens(since).type = "nodeInitReward"
  BY EntryTyped
<1>2. InOrder(p, t)
  BY <1>1, InOrderAppends DEF StayIsQueued
<1>3. /\ p \in Seq(NetworkTx) /\ Len(p) = Len(q) + 1 /\ p[Len(q) + 1] = Claims(t)
      /\ Len(q) \in Nat
      /\ Len(q) + 1 \in 1..Len(p)
      /\ q # << >> => Len(q) > 0 /\ p[Len(q)] = q[Len(q)]
  BY <1>1
<1> HIDE DEF p
<1>4. w \in Nat
  BY <1>2, <1>3, WidthTyped, WidthPositive
<1>5. w <= t - since
  <2>1. CASE q = << >>
    <3>1. Len(q) = 0
      BY <2>1
    <3>2. w = IF start = 0 \/ done \/ start > t THEN 0 ELSE t - start
      BY <1>1, <1>3, <3>1 DEF Width
    <3>3. start = 0 \/ start >= since
      BY <2>1 DEF StayIsQueued
    <3> HIDE DEF w
    <3> QED  BY <3>2, <3>3
  <2>2. CASE q # << >>
    <3>1. q[Len(q)] = Opens(since)
      BY <2>2 DEF StayIsQueued
    <3>2. Len(q) + 1 > 1 /\ (Len(q) + 1) - 1 = Len(q)
      BY <1>3, <2>2
    <3>3. w = t - since
      BY <1>1, <1>3, <2>2, <3>1, <3>2 DEF Width
    <3> HIDE DEF w
    <3> QED  BY <3>3
  <2> QED  BY <2>1, <2>2
<1>6. Funded(p, start, done, total, time + (t - since))
  <2> DEFINE time2 == time + (t - since)
  <2>1. time2 \in Nat /\ time + w <= time2
    BY <1>4, <1>5
  <2>2. w = Width(Append(q, Claims(t)), start, done, Len(q) + 1)
    BY DEF p
  <2> HIDE DEF time2, w
  <2>3. Funded(Append(q, Claims(t)), start, done, total, time2)
    BY SMTT(30), <1>1, <1>4, <2>1, <2>2, FundedAppends
  <2> QED  BY <2>3 DEF p, time2
<1> QED  BY <1>2, <1>6 DEF p

\* What is injected for the first of the queue sees no difference.
LEMMA StartIsFirstAppends ==
    ASSUME NEW q \in Seq(NetworkTx), NEW e \in NetworkTx, NEW start, NEW t,
           StartIsFirst(q, start, t)
    PROVE  StartIsFirst(Append(q, e), start, t)
<1>1. Append(q, e)[1] = q[1] /\ Append(q, e) # << >>
  BY DEF StartIsFirst
<1> QED  BY <1>1 DEF StartIsFirst

LEMMA ClaimsInOrderAppends ==
    ASSUME NEW q \in Seq(NetworkTx), NEW e \in NetworkTx, NEW start, NEW end, NEW done,
           NEW time \in Nat, NEW t \in Nat, e.time = time,
           ClaimsInOrder(q, start, end, done, time, t)
    PROVE  ClaimsInOrder(Append(q, e), start, end, done, time, t)
<1> DEFINE p == Append(q, e)
<1>1. /\ Len(p) = Len(q) + 1 /\ Len(q) \in Nat
      /\ \A k \in 1..Len(q) : p[k] = q[k]
      /\ p[Len(p)] = e
  OBVIOUS
<1>0. p # << >> /\ (q # << >> => 1 \in 1..Len(q))
  <2>1. q # << >> => Len(q) > 0
    OBVIOUS
  <2> QED  BY <1>1, <2>1
<1> HIDE DEF p
<1>2. \A k \in 1..Len(p) : k \in 1..Len(q) \/ k = Len(p)
  BY <1>1
<1>3. NotBefore(p, time, t)
  BY <1>1, <1>2 DEF ClaimsInOrder, NotBefore
<1>4. ClaimIsFirst(q, t) => ClaimIsFirst(p, t)
  BY <1>0, <1>1 DEF ClaimIsFirst
<1> QED  BY <1>3, <1>4 DEF ClaimsInOrder, p

rewardState == <<now, queue, rewardStartTime, rewardEndTime, rewarded, totalReward,
                 served, activeSince>>

\* Nothing of the node changes, except that it may have stopped being active.
SameStay(n) ==
    /\ queue'[n] = queue[n]
    /\ rewardStartTime'[n] = rewardStartTime[n]
    /\ rewardEndTime'[n] = rewardEndTime[n]
    /\ rewarded'[n] = rewarded[n]
    /\ totalReward'[n] = totalReward[n]
    /\ served'[n] = served[n]
    /\ activeSince'[n] = activeSince[n]
    /\ status'[n] = "active" => status[n] = "active"

LEMMA StaySame ==
    ASSUME NEW n, StayInv(n), SameStay(n), now' = now
    PROVE  StayInv(n)'
  BY DEF StayInv, SameStay

LEMMA InjectedSame ==
    ASSUME NEW tx, InjectedInv(tx), SameStay(tx.nominee), now' = now
    PROVE  InjectedInv(tx)'
  BY DEF InjectedInv, SameStay

LEMMA RewardTyped ==
    ASSUME TypeOK, NEW n \in Nodes
    PROVE  /\ queue[n] \in Seq(NetworkTx)
           /\ rewardStartTime[n] \in Nat
           /\ rewardEndTime[n] \in Nat
           /\ rewarded[n] \in BOOLEAN
           /\ totalReward[n] \in Nat
           /\ served[n] \in Nat
           /\ activeSince[n] \in Nat
           /\ now \in Nat
  BY DEF TypeOK

LEMMA PendingTyped ==
    ASSUME TypeOK, NEW tx \in pending
    PROVE  /\ tx.nominee \in Nodes
           /\ tx.type \in {"set_cert_time", "init_reward", "claim_reward", "apply_penalty"}
           /\ tx.type # "set_cert_time" => tx.time \in Nat
           /\ tx.type = "init_reward" =>
                tx = [type |-> "init_reward", nominee |-> tx.nominee, time |-> tx.time]
<1>1. tx \in Injected
  BY DEF TypeOK
<1> QED  BY <1>1 DEF Injected

\* A step that changes none of it and injects nothing.
LEMMA RewardKept ==
    ASSUME TypeOK, RewardInv, pending' \subseteq pending, UNCHANGED rewardState,
           \A n \in Nodes : status'[n] = "active" => status[n] = "active"
    PROVE  RewardInv'
<1>1. now' = now /\ \A n \in Nodes : SameStay(n)
  BY DEF rewardState, SameStay
<1>2. \A n \in Nodes : StayInv(n)'
  BY <1>1, StaySame DEF RewardInv
<1>3. \A tx \in pending' : InjectedInv(tx)'
  BY <1>1, InjectedSame, PendingTyped DEF RewardInv
<1> QED  BY <1>1, <1>2, <1>3 DEF RewardInv

\* A step that changes the stays of one node.
LEMMA RewardStep ==
    ASSUME TypeOK, RewardInv, NEW n \in Nodes, now' = now,
           \A m \in Nodes : m # n => SameStay(m),
           StayInv(n)',
           \A tx \in pending' : (tx \in pending /\ tx.nominee # n) \/ InjectedInv(tx)'
    PROVE  RewardInv'
<1>1. \A m \in Nodes : StayInv(m)'
  BY StaySame DEF RewardInv
<1>2. \A tx \in pending' : InjectedInv(tx)'
  BY InjectedSame, PendingTyped DEF RewardInv
<1> QED  BY <1>1, <1>2 DEF RewardInv

LEMMA InitRewardInv == Init => RewardInv
<1> SUFFICES ASSUME Init PROVE RewardInv
  OBVIOUS
<1>1. ASSUME NEW n \in Nodes
      PROVE  StayInv(n)
  <2>1. /\ queue[n] = << >> /\ status[n] = "out" /\ totalReward[n] = 0 /\ served[n] = 0
        /\ Len(queue[n]) = 0
    BY <1>1 DEF Init
  <2>2. InOrder(queue[n], now)
    BY <2>1 DEF InOrder
  <2>3. Funded(queue[n], rewardStartTime[n], rewarded[n], totalReward[n], served[n])
    <3> DEFINE r == [k \in 0..0 |-> 0]
    <3>1. r \in [0..0 -> Nat] /\ r[0] = 0
      OBVIOUS
    <3> HIDE DEF r
    <3>2. Funds(r, queue[n], rewardStartTime[n], rewarded[n])
      BY <2>1, <3>1 DEF Funds
    <3>3. totalReward[n] + Rate * r[0] <= Rate * served[n]
      BY <2>1, <3>1, StakingAssumption
    <3> QED  BY <3>2, <3>3 DEF Funded
  <2> QED  BY <2>1, <2>2, <2>3 DEF StayInv
<1>2. pending = {} /\ now > 0
  BY DEF Init
<1> QED  BY <1>1, <1>2 DEF RewardInv

\* The start is forgotten: nothing is granted until the node is active again.
LEMMA WithdrawReward ==
    ASSUME PairedInv, PairedInv', RewardInv, NEW u \in Users, NEW n \in Nodes,
           NEW force \in BOOLEAN, WithdrawStakeTx(u, n, force)
    PROVE  RewardInv'
<1>1. TypeOK /\ TypeOK'
  BY DEF PairedInv
<1>2. /\ rewardStartTime' = [rewardStartTime EXCEPT ![n] = 0]
      /\ rewardEndTime' = [rewardEndTime EXCEPT ![n] = 0]
      /\ rewarded' = [rewarded EXCEPT ![n] = FALSE]
      /\ status[n] # "active"
      /\ UNCHANGED <<now, totalReward, status, queue, activeSince, served, pending>>
  BY DEF WithdrawStakeTx, ClearReward, ClearTimes, netVars, WithdrawIsValid, IsAway
<1>3. /\ rewardStartTime'[n] = 0
      /\ \A m \in Nodes : m # n => SameStay(m)
  BY <1>1, <1>2 DEF TypeOK, SameStay
<1>4. StayInv(n)'
  <2>1. /\ InOrder(queue[n], now)
        /\ Funded(queue[n], rewardStartTime[n], rewarded[n], totalReward[n], served[n])
    BY DEF RewardInv, StayInv
  <2>2. queue[n] # << >> =>
          Width(queue[n], rewardStartTime'[n], rewarded'[n], 1)
            <= Width(queue[n], rewardStartTime[n], rewarded[n], 1)
    <3>1. SUFFICES ASSUME queue[n] # << >>
                   PROVE  Width(queue[n], rewardStartTime'[n], rewarded'[n], 1)
                            <= Width(queue[n], rewardStartTime[n], rewarded[n], 1)
      OBVIOUS
    <3>2. queue[n] \in Seq(NetworkTx) /\ 1 \in 1..Len(queue[n])
      BY <1>1, <3>1, RewardTyped
    <3>3. /\ Width(queue[n], rewardStartTime[n], rewarded[n], 1) >= 0
          /\ Width(queue[n], rewardStartTime[n], rewarded[n], 1) \in Int
      BY <1>1, <2>1, <3>2, RewardTyped, WidthPositive, WidthTyped
    <3>4. Width(queue[n], rewardStartTime'[n], rewarded'[n], 1) = 0
      BY <1>3 DEF Width
    <3> QED  BY <3>3, <3>4
  <2>3. /\ rewardStartTime'[n] \in Nat /\ rewarded'[n] \in BOOLEAN
        /\ rewardStartTime[n] \in Nat /\ rewarded[n] \in BOOLEAN
        /\ queue[n] \in Seq(NetworkTx) /\ totalReward[n] \in Nat /\ served[n] \in Nat
        /\ served[n] <= served[n]
    <3>1. rewardStartTime'[n] \in Nat /\ rewarded'[n] \in BOOLEAN
      BY <1>1 DEF TypeOK
    <3>2. served[n] \in Nat
      BY <1>1, RewardTyped
    <3> QED  BY <1>1, <3>1, <3>2, RewardTyped
  <2>4. Funded(queue[n], rewardStartTime'[n], rewarded'[n], totalReward[n], served[n])
    <3> DEFINE q == queue[n]
               s == rewardStartTime[n]
               d == rewarded[n]
               s2 == rewardStartTime'[n]
               d2 == rewarded'[n]
               a == totalReward[n]
               b == served[n]
    <3>1. /\ q \in Seq(NetworkTx) /\ s \in Nat /\ d \in BOOLEAN /\ s2 \in Nat /\ d2 \in BOOLEAN
          /\ a \in Nat /\ b \in Nat /\ b <= b
          /\ Funded(q, s, d, a, b)
      BY <2>1, <2>3
    <3>2. q # << >> => Width(q, s2, d2, 1) <= Width(q, s, d, 1)
      BY <2>2
    <3> HIDE DEF q, s, d, s2, d2, a, b
    <3>3. Funded(q, s2, d2, a, b)
      BY <3>1, <3>2, FundedStays
    <3> QED  BY <3>3 DEF q, s2, d2, a, b
  <2> QED  BY <1>2, <2>1, <2>4 DEF StayInv
<1>5. ASSUME NEW tx \in pending, tx.nominee = n
      PROVE  InjectedInv(tx)'
  <2>1. InjectedInv(tx) /\ (tx.type \in {"init_reward", "claim_reward"} => tx.time \in Nat)
    BY <1>1, <1>5, PendingTyped DEF RewardInv
  <2>2. tx.type = "init_reward" => StartIsFirst(queue[n], rewardStartTime'[n], tx.time)
    <3>1. ASSUME tx.type = "init_reward"
          PROVE  tx.time > 0
      <4>1. queue[n] # << >> /\ queue[n][1] = Opens(tx.time)
        BY <1>5, <2>1, <3>1 DEF InjectedInv, StartIsFirst
      <4>2. 1 \in 1..Len(queue[n])
        BY <1>1, <4>1, RewardTyped
      <4>3. InOrder(queue[n], now)
        BY DEF RewardInv, StayInv
      <4> QED  BY <2>1, <3>1, <4>1, <4>2, <4>3 DEF InOrder, Opens
    <3> QED  BY <1>3, <1>5, <2>1, <3>1 DEF InjectedInv, StartIsFirst
  <2>3. tx.type = "claim_reward" =>
          ClaimsInOrder(queue[n], rewardStartTime'[n], rewardEndTime'[n], rewarded'[n],
                        now, tx.time)
    BY <1>3, <1>5, <2>1 DEF InjectedInv, ClaimsInOrder, ClaimIsVoid
  <2> QED  BY <1>2, <1>5, <2>1, <2>2, <2>3 DEF InjectedInv
<1> QED  BY <1>1, <1>2, <1>3, <1>4, <1>5, RewardStep

LEMMA InjectReward == ASSUME PairedInv, RewardInv, InjectTx PROVE RewardInv'
<1>1. TypeOK
  BY DEF PairedInv
<1>2. ASSUME NEW tx, Inject(tx), tx.nominee \in Nodes, InjectedInv(tx)
      PROVE  RewardInv'
  <2>1. /\ pending' = pending \cup {tx}
        /\ UNCHANGED <<now, userVars, nodeVars, netVars, certVars, fees>>
    BY <1>2 DEF Inject, Adds
  <2>2. now' = now /\ \A n \in Nodes : SameStay(n)
    BY <2>1 DEF SameStay, netVars, nodeVars, rewardVars
  <2>3. \A n \in Nodes : StayInv(n)'
    BY <2>2, StaySame DEF RewardInv
  <2>4. \A t \in pending' : InjectedInv(t)'
    BY <1>1, <1>2, <2>1, <2>2, InjectedSame, PendingTyped DEF RewardInv
  <2> QED  BY <2>2, <2>3, <2>4 DEF RewardInv
<1>3. PICK n \in Nodes : InjectSetCertTime(n) \/ InjectInitReward(n) \/ InjectClaimReward(n)
  BY DEF InjectTx
<1>4. queue[n] \in Seq(NetworkTx) /\ InOrder(queue[n], now) /\ now \in Nat
  BY <1>1, RewardTyped DEF RewardInv, StayInv
<1>5. queue[n] # << >> =>
        /\ Head(queue[n]) = queue[n][1] /\ 1 \in 1..Len(queue[n])
        /\ queue[n][1] \in NetworkTx
        /\ Head(queue[n]).type = "nodeInitReward" => queue[n][1] = Opens(Head(queue[n]).time)
        /\ Head(queue[n]).type = "nodeReward" => queue[n][1] = Claims(Head(queue[n]).time)
  <2>1. queue[n] # << >> => /\ Head(queue[n]) = queue[n][1] /\ 1 \in 1..Len(queue[n])
                            /\ queue[n][1] \in NetworkTx
    BY <1>4
  <2> QED  BY <2>1 DEF Opens, Claims, NetworkTx
<1>6. CASE InjectSetCertTime(n)
  <2> DEFINE tx == [type |-> "set_cert_time", nominee |-> n, nominator |-> nominator[n]]
  <2>1. Inject(tx) /\ tx.nominee \in Nodes /\ tx.type = "set_cert_time"
    BY <1>6 DEF InjectSetCertTime
  <2>2. InjectedInv(tx)
    BY <2>1 DEF InjectedInv
  <2> QED  BY <1>2, <2>1, <2>2
<1>7. CASE InjectInitReward(n)
  <2> DEFINE t == Head(queue[n]).time
             tx == [type |-> "init_reward", nominee |-> n, time |-> t]
  <2>1. /\ queue[n] # << >> /\ Head(queue[n]).type = "nodeInitReward"
        /\ rewardStartTime[n] < t
        /\ Inject(tx)
    BY <1>7 DEF InjectInitReward, TryFirst
  <2>2. StartIsFirst(queue[n], rewardStartTime[n], t)
    BY <1>5, <2>1 DEF StartIsFirst
  <2> HIDE DEF t
  <2>3. InjectedInv(tx)
    BY <2>2 DEF InjectedInv
  <2> QED  BY <1>2, <2>1, <2>3
<1>8. CASE InjectClaimReward(n)
  <2> DEFINE t == Head(queue[n]).time
             tx == [type |-> "claim_reward", nominee |-> n, nominator |-> nominator[n], time |-> t]
  <2>1. /\ queue[n] # << >> /\ Head(queue[n]).type = "nodeReward"
        /\ Inject(tx)
    BY <1>8 DEF InjectClaimReward, TryFirst
  <2>2. ClaimIsFirst(queue[n], t)
    BY <1>5, <2>1 DEF ClaimIsFirst
  <2>3. NotBefore(queue[n], now, t)
    <3>1. \A k \in 1..Len(queue[n]) : 1 <= k
      OBVIOUS
    <3> QED  BY <1>4, <1>5, <2>1, <3>1 DEF NotBefore, InOrder
  <2> HIDE DEF t
  <2>4. InjectedInv(tx)
    BY <2>2, <2>3 DEF InjectedInv, ClaimsInOrder
  <2> QED  BY <1>2, <2>1, <2>4
<1> QED  BY <1>3, <1>6, <1>7, <1>8

\* The first of the queue was not started: it was worth nothing and still is.
LEMMA InitRewardReward ==
    ASSUME PairedInv, PairedInv', RewardInv, NEW tx \in pending, InitRewardTx(tx)
    PROVE  RewardInv'
<1> DEFINE n == tx.nominee
<1>1. TypeOK /\ TypeOK'
  BY DEF PairedInv
<1>2. n \in Nodes /\ tx.time \in Nat /\ tx.type = "init_reward" /\ InjectedInv(tx)
      /\ tx = [type |-> "init_reward", nominee |-> n, time |-> tx.time]
  BY <1>1, PendingTyped DEF InitRewardTx, Executes, RewardInv
<1>3. /\ rewardStartTime' = [rewardStartTime EXCEPT ![n] = tx.time]
      /\ rewardEndTime' = [rewardEndTime EXCEPT ![n] = 0]
      /\ rewarded' = [rewarded EXCEPT ![n] = FALSE]
      /\ pending' = pending \ {tx}
      /\ UNCHANGED <<now, totalReward, status, queue, activeSince, served>>
  BY DEF InitRewardTx, Executes, netVars
<1>4. StartIsFirst(queue[n], rewardStartTime[n], tx.time)
  BY <1>2 DEF InjectedInv
<1> HIDE DEF n
<1>5. /\ rewardStartTime'[n] = tx.time
      /\ \A m \in Nodes : m # n => SameStay(m)
  BY <1>1, <1>2, <1>3 DEF TypeOK, SameStay
<1>6. /\ queue[n] \in Seq(NetworkTx) /\ queue[n] # << >>
      /\ 1 \in 1..Len(queue[n]) /\ queue[n][1] = Opens(tx.time)
  <2>1. queue[n] \in Seq(NetworkTx) /\ queue[n] # << >> /\ queue[n][1] = Opens(tx.time)
    BY <1>1, <1>2, <1>4, RewardTyped DEF StartIsFirst
  <2>2. 1 \in 1..Len(queue[n])
    BY <2>1
  <2> QED  BY <2>1, <2>2
<1>7. StayInv(n)'
  <2>1. StayInv(n)
    BY <1>2 DEF RewardInv
  <2>2. Funded(queue[n], rewardStartTime'[n], rewarded'[n], totalReward[n], served[n])
    <3> DEFINE q == queue[n]
               s == rewardStartTime[n]
               d == rewarded[n]
               s2 == rewardStartTime'[n]
               d2 == rewarded'[n]
               a == totalReward[n]
               b == served[n]
    <3>1. /\ q \in Seq(NetworkTx) /\ s \in Nat /\ d \in BOOLEAN
          /\ a \in Nat /\ b \in Nat /\ Funded(q, s, d, a, b)
      BY <1>1, <1>2, <2>1, RewardTyped DEF StayInv
    <3>2. s2 \in Nat /\ d2 \in BOOLEAN
      BY <1>1, <1>2 DEF TypeOK
    <3>3. Width(q, s2, d2, 1) = 0 /\ Width(q, s, d, 1) = 0
      BY <1>6, EntryTyped, <1>2 DEF Width
    <3> HIDE DEF q, s, d, s2, d2, a, b
    <3>4. Width(q, s2, d2, 1) <= Width(q, s, d, 1) /\ b <= b
      BY <3>1, <3>3
    <3>5. Funded(q, s2, d2, a, b)
      BY <3>1, <3>2, <3>4, FundedStays
    <3> QED  BY <3>5 DEF q, s2, d2, a, b
  <2>3. StayIsQueued(queue[n], rewardStartTime[n], activeSince[n])
          => StayIsQueued(queue[n], rewardStartTime'[n], activeSince[n])
    BY <1>6 DEF StayIsQueued
  <2> QED  BY <1>3, <2>1, <2>2, <2>3 DEF StayInv
<1>8. ASSUME NEW t \in pending', t.nominee = n
      PROVE  InjectedInv(t)'
  <2>1. t \in pending /\ t # tx /\ InjectedInv(t)
    BY <1>3 DEF RewardInv
  <2>2. t.type # "init_reward"
    <3>1. ASSUME t.type = "init_reward"
          PROVE  FALSE
      <4>1. StartIsFirst(queue[n], rewardStartTime[n], t.time)
        BY <1>8, <2>1, <3>1 DEF InjectedInv
      <4>2. Opens(t.time) = Opens(tx.time)
        BY <1>6, <4>1 DEF StartIsFirst
      <4>3. t.time = tx.time
        BY <4>2 DEF Opens
      <4>4. t = [type |-> "init_reward", nominee |-> n, time |-> t.time]
        BY <1>1, <1>8, <2>1, <3>1, PendingTyped
      <4> QED  BY <1>2, <2>1, <4>3, <4>4
    <3> QED  BY <3>1
  <2>3. t.type = "claim_reward" =>
          ClaimsInOrder(queue[n], rewardStartTime'[n], rewardEndTime'[n], rewarded'[n],
                        now, t.time)
    <3>1. SUFFICES ASSUME t.type = "claim_reward"
                   PROVE  ClaimsInOrder(queue[n], rewardStartTime'[n], rewardEndTime'[n],
                                        rewarded'[n], now, t.time)
      OBVIOUS
    <3>2. NotBefore(queue[n], now, t.time)
      BY <1>8, <2>1, <3>1 DEF InjectedInv, ClaimsInOrder
    <3>3. t.time <= tx.time
      BY <1>2, <1>6, <3>2, EntryTyped DEF NotBefore
    <3>4. t.time \in Nat
      BY <1>1, <2>1, <3>1, PendingTyped
    <3> QED  BY <1>2, <1>5, <3>2, <3>3, <3>4 DEF ClaimsInOrder, ClaimIsVoid
  <2>4. t.type = "apply_penalty" => t.time = now
    BY <2>1 DEF InjectedInv
  <2> QED  BY <1>3, <1>8, <2>2, <2>3, <2>4 DEF InjectedInv
<1>9. \A t \in pending' : (t \in pending /\ t.nominee # n) \/ InjectedInv(t)'
  BY <1>3, <1>8
<1> QED  BY <1>1, <1>2, <1>3, <1>5, <1>7, <1>9, RewardStep

\* A claim is for the first of the queue, and granted what that is worth, or void.
LEMMA ClaimRewardReward ==
    ASSUME PairedInv, PairedInv', RewardInv, NEW tx \in pending, ClaimRewardTx(tx)
    PROVE  RewardInv'
<1> DEFINE n == tx.nominee
           start == rewardStartTime[n]
           amount == IF start = 0 THEN 0 ELSE Rate * (tx.time - start)
<1>1. TypeOK /\ TypeOK'
  BY DEF PairedInv
<1>2. n \in Nodes /\ tx.time \in Nat /\ tx.type = "claim_reward" /\ InjectedInv(tx)
  BY <1>1, PendingTyped DEF ClaimRewardTx, Executes, RewardInv
<1>3. /\ rewardEndTime' = [rewardEndTime EXCEPT ![n] = tx.time]
      /\ rewarded' = [rewarded EXCEPT ![n] = TRUE]
      /\ totalReward' = [totalReward EXCEPT ![n] = totalReward[n] + amount]
      /\ pending' = pending \ {tx}
      /\ UNCHANGED <<now, rewardStartTime, status, queue, activeSince, served>>
  BY DEF ClaimRewardTx, Executes, netVars
<1>4. /\ rewardEndTime[n] < tx.time /\ tx.time >= start /\ ~ rewarded[n]
  BY DEF ClaimRewardTx, ClaimIsValid
<1>5. ClaimsInOrder(queue[n], start, rewardEndTime[n], rewarded[n], now, tx.time)
  BY <1>2 DEF InjectedInv
<1>6. /\ rewarded'[n] = TRUE /\ totalReward'[n] = totalReward[n] + amount
      /\ \A m \in Nodes : m # n => SameStay(m)
  BY <1>1, <1>2, <1>3 DEF TypeOK, SameStay
<1>7. StayInv(n)
  BY <1>2 DEF RewardInv
<1>8. Funded(queue[n], start, rewarded'[n], totalReward[n] + amount, served[n])
  <2> DEFINE q == queue[n]
             d == rewarded[n]
             d2 == rewarded'[n]
             a == totalReward[n]
             b == served[n]
  <2>1. /\ q \in Seq(NetworkTx) /\ start \in Nat /\ d \in BOOLEAN
        /\ a \in Nat /\ b \in Nat /\ Funded(q, start, d, a, b)
        /\ d2 \in BOOLEAN /\ d2 = TRUE /\ ~ d
        /\ rewardEndTime[n] \in Nat
        /\ InOrder(q, now) /\ now \in Nat
    <3>1. rewarded'[n] \in BOOLEAN
      BY <1>1, <1>2 DEF TypeOK
    <3> QED  BY <1>1, <1>2, <1>4, <1>6, <1>7, <3>1, RewardTyped DEF StayInv
  <2>2. ClaimIsFirst(q, tx.time) \/ ClaimIsVoid(start, rewardEndTime[n], d, tx.time)
    BY <1>5 DEF ClaimsInOrder
  <2>3. CASE ClaimIsFirst(q, tx.time)
    <3>1. q # << >> /\ q[1] = Claims(tx.time)
      BY <2>3 DEF ClaimIsFirst
    <3>2. amount = Rate * Width(q, start, d, 1)
      <4>1. Width(q, start, d, 1) = IF start = 0 THEN 0 ELSE tx.time - start
        BY <1>2, <1>4, <2>1, <3>1, EntryTyped DEF Width
      <4>2. Rate * 0 = 0
        BY StakingAssumption
      <4> HIDE DEF start
      <4> QED  BY <4>1, <4>2
    <3> HIDE DEF q, start, d, d2, a, b
    <3>3. Funded(q, start, d2, a + Rate * Width(q, start, d, 1), b)
      BY <2>1, <3>1, FundedPays
    <3> QED  BY <3>2, <3>3 DEF q, start, d2, a, b
  <2>4. CASE ClaimIsVoid(start, rewardEndTime[n], d, tx.time)
    <3>1. start = 0 \/ start = tx.time
      BY <1>2, <1>4, <2>1, <2>4 DEF ClaimIsVoid
    <3>2. a + amount = a
      <4>1. Rate * (tx.time - tx.time) = 0
        BY <1>2, StakingAssumption
      <4>2. amount = 0
        BY <3>1, <4>1
      <4> HIDE DEF amount
      <4> QED  BY <2>1, <4>2
    <3>3. q # << >> => Width(q, start, d2, 1) <= Width(q, start, d, 1)
      <4>1. SUFFICES ASSUME q # << >>
                     PROVE  Width(q, start, d2, 1) <= Width(q, start, d, 1)
        OBVIOUS
      <4>2. 1 \in 1..Len(q)
        BY <2>1, <4>1
      <4>3. Width(q, start, d2, 1) = 0
        BY <2>1 DEF Width
      <4> HIDE DEF q, start, d, d2
      <4>4. Width(q, start, d, 1) >= 0 /\ Width(q, start, d, 1) \in Int
        BY <2>1, <4>2, WidthPositive, WidthTyped
      <4> QED  BY <4>3, <4>4
    <3> HIDE DEF q, start, d, d2, a, b
    <3>4. Funded(q, start, d2, a, b)
      <4>1. /\ q \in Seq(NetworkTx) /\ start \in Nat /\ d \in BOOLEAN /\ d2 \in BOOLEAN
            /\ a \in Nat /\ b \in Nat /\ b <= b /\ Funded(q, start, d, a, b)
        BY <2>1
      <4> QED  BY <3>3, <4>1, FundedStays
    <3> QED  BY <3>2, <3>4 DEF q, start, d2, a, b
  <2> QED  BY <2>2, <2>3, <2>4
<1>9. StayInv(n)'
  BY <1>3, <1>6, <1>7, <1>8 DEF StayInv
<1>10. ASSUME NEW t \in pending', t.nominee = n
       PROVE  InjectedInv(t)'
  <2>1. t \in pending /\ InjectedInv(t)
    BY <1>3 DEF RewardInv
  <2>2. t.type = "claim_reward" =>
          ClaimsInOrder(queue[n], rewardStartTime'[n], rewardEndTime'[n], rewarded'[n],
                        now, t.time)
    BY <1>6, <1>10, <2>1 DEF InjectedInv, ClaimsInOrder, ClaimIsVoid
  <2> QED  BY <1>3, <1>10, <2>1, <2>2 DEF InjectedInv
<1>11. \A t \in pending' : (t \in pending /\ t.nominee # n) \/ InjectedInv(t)'
  BY <1>3, <1>10
<1> QED  BY <1>1, <1>2, <1>3, <1>6, <1>9, <1>11, RewardStep

\* A penalty ends the period now, after the time of every claim.
LEMMA PenaltyReward ==
    ASSUME PairedInv, PairedInv', RewardInv, NEW tx \in pending, ApplyPenaltyTx(tx)
    PROVE  RewardInv'
<1> DEFINE n == tx.nominee
<1>1. TypeOK /\ TypeOK'
  BY DEF PairedInv
<1>2. n \in Nodes /\ tx.time \in Nat /\ tx.time = now
  BY <1>1, PendingTyped DEF ApplyPenaltyTx, Executes, RewardInv, InjectedInv
<1>3. /\ \/ rewardEndTime' = rewardEndTime
         \/ rewardEndTime' = [rewardEndTime EXCEPT ![n] = tx.time]
      /\ pending' = pending \ {tx}
      /\ UNCHANGED <<now, rewardStartTime, rewarded, totalReward, status, queue,
                     activeSince, served>>
  BY DEF ApplyPenaltyTx, Executes, netVars
<1> HIDE DEF n
<1>4. /\ rewardEndTime'[n] \in {rewardEndTime[n], tx.time}
      /\ \A m \in Nodes : m # n => SameStay(m)
  BY <1>1, <1>2, <1>3 DEF TypeOK, SameStay
<1>5. StayInv(n)'
  BY <1>2, <1>3 DEF StayInv, RewardInv
<1>6. ASSUME NEW t \in pending', t.nominee = n
      PROVE  InjectedInv(t)'
  <2>1. t \in pending /\ InjectedInv(t)
    BY <1>3 DEF RewardInv
  <2>2. t.type = "claim_reward" =>
          ClaimsInOrder(queue[n], rewardStartTime[n], rewardEndTime'[n], rewarded[n],
                        now, t.time)
    BY <1>2, <1>4, <1>6, <2>1
       DEF InjectedInv, ClaimsInOrder, ClaimIsVoid, NotBefore
  <2> QED  BY <1>3, <1>6, <2>1, <2>2 DEF InjectedInv
<1>7. \A t \in pending' : (t \in pending /\ t.nominee # n) \/ InjectedInv(t)'
  BY <1>3, <1>6
<1> QED  BY <1>1, <1>2, <1>3, <1>4, <1>5, <1>7, RewardStep

\* Verified: a start leaves the queue when the period has begun, a reward when its
\* claim would be void.
LEMMA VerifiedReward ==
    ASSUME PairedInv, PairedInv', RewardInv, NEW n \in Nodes, Verified(n)
    PROVE  RewardInv'
<1> DEFINE q == queue[n]
           start == rewardStartTime[n]
<1>1. TypeOK
  BY DEF PairedInv
<1>2. /\ q # << >>
      /\ IsDone(n, Head(q))
      /\ queue' = [queue EXCEPT ![n] = Tail(q)]
      /\ UNCHANGED <<now, userVars, nodeVars, status, activeSince, served, pending>>
  BY DEF Verified
<1>3. UNCHANGED <<rewardStartTime, rewardEndTime, rewarded, totalReward>>
  BY <1>2 DEF nodeVars, rewardVars
<1>4. queue'[n] = Tail(q) /\ \A m \in Nodes : m # n => SameStay(m)
  BY <1>1, <1>2, <1>3 DEF TypeOK, SameStay
<1>5. /\ q \in Seq(NetworkTx) /\ start \in Nat /\ rewarded[n] \in BOOLEAN
      /\ totalReward[n] \in Nat /\ served[n] \in Nat /\ now \in Nat
      /\ rewardEndTime[n] \in Nat
      /\ InOrder(q, now)
      /\ status[n] = "active" => StayIsQueued(q, start, activeSince[n])
      /\ Funded(q, start, rewarded[n], totalReward[n], served[n])
  BY <1>1, RewardTyped DEF RewardInv, StayInv
<1>6. /\ Len(q) \in Nat /\ Len(q) >= 1
      /\ Head(q) = q[1] /\ 1 \in 1..Len(q)
      /\ Len(Tail(q)) = Len(q) - 1
      /\ \A k \in 1..Len(Tail(q)) : Tail(q)[k] = q[k + 1] /\ k + 1 \in 1..Len(q)
  BY <1>2, <1>5
<1>7. /\ q[1].time \in Nat
      /\ q[1].type = "nodeInitReward" => start >= q[1].time
      /\ q[1].type = "nodeReward" => rewardEndTime[n] = q[1].time
  BY <1>2, <1>5, <1>6, QueueEntry DEF IsDone
<1> HIDE DEF q, start
<1>8. StayInv(n)'
  <2>1. InOrder(Tail(q), now)
    BY <1>2, <1>5, InOrderPops
  <2>2. status[n] = "active" => StayIsQueued(Tail(q), start, activeSince[n])
    <3>1. SUFFICES ASSUME status[n] = "active"
                   PROVE  StayIsQueued(Tail(q), start, activeSince[n])
      OBVIOUS
    <3>2. q[Len(q)] = Opens(activeSince[n])
      BY <1>2, <1>5, <3>1 DEF StayIsQueued
    <3>3. CASE Len(q) = 1
      <4>1. start >= activeSince[n]
        BY <1>7, <3>2, <3>3 DEF Opens
      <4>2. Tail(q) = << >>
        BY <1>5, <1>6, <3>3
      <4> QED  BY <4>1, <4>2 DEF StayIsQueued
    <3>4. CASE Len(q) # 1
      <4> DEFINE p == Tail(q)
                 l == Len(q) - 1
      <4>0. Len(p) = l /\ (l \in 1..Len(p) => p[l] = q[l + 1])
        BY <1>6
      <4> HIDE DEF p
      <4>1. l \in Nat /\ l >= 1 /\ l + 1 = Len(q) /\ l \in 1..Len(p)
        BY <1>6, <3>4, <4>0
      <4>2. p # << >>
        BY <4>0, <4>1
      <4>3. p[l] = q[Len(q)]
        BY <4>0, <4>1
      <4> HIDE DEF p, l
      <4>4. StayIsQueued(p, start, activeSince[n])
        BY <3>2, <4>0, <4>2, <4>3 DEF StayIsQueued
      <4> QED  BY <4>4 DEF p
    <3> QED  BY <3>3, <3>4
  <2>3. Len(q) > 1 => Width(Tail(q), start, rewarded[n], 1) <= Width(q, start, rewarded[n], 2)
    <3>1. SUFFICES ASSUME Len(q) > 1
                   PROVE  Width(Tail(q), start, rewarded[n], 1) <= Width(q, start, rewarded[n], 2)
      OBVIOUS
    <3>2. Tail(q)[1] = q[2] /\ 2 \in 1..Len(q) /\ 2 \in 2..Len(q)
      BY <1>6, <3>1
    <3>3. q[2].time \in Nat /\ q[2].type \in {"nodeInitReward", "nodeReward"}
      BY <1>5, <3>2, QueueEntry
    <3>4. q[2].type = "nodeReward" => start >= q[1].time
      <4>1. q[2].type = "nodeReward" => q[2 - 1].type = "nodeInitReward"
        BY <1>5, <3>2 DEF InOrder
      <4> QED  BY <1>7, <4>1
    <3>5. q[1].time <= q[2].time
      BY <1>5, <1>6, <3>2 DEF InOrder
    <3>6. Width(q, start, rewarded[n], 2) =
            IF q[2].type = "nodeInitReward" THEN 0 ELSE q[2].time - q[1].time
      BY DEF Width
    <3>7. Width(Tail(q), start, rewarded[n], 1) =
            IF q[2].type = "nodeInitReward" THEN 0
            ELSE IF start = 0 \/ rewarded[n] \/ start > q[2].time THEN 0
            ELSE q[2].time - start
      BY <3>2 DEF Width
    <3> QED  BY <1>5, <1>7, <3>3, <3>4, <3>5, <3>6, <3>7
  <2>4. \A k \in 1..Len(q) : Width(q, start, rewarded[n], k) >= 0
    BY <1>5, WidthPositive
  <2>5. Funded(Tail(q), start, rewarded[n], totalReward[n], served[n])
    BY <1>2, <1>5, <2>3, <2>4, FundedPops
  <2> QED  BY <1>2, <1>3, <1>4, <2>1, <2>2, <2>5 DEF StayInv, start
<1>9. ASSUME NEW t \in pending, t.nominee = n
      PROVE  InjectedInv(t)'
  <2>1. InjectedInv(t)
    BY DEF RewardInv
  <2>2. t.type # "init_reward"
    <3>1. ASSUME t.type = "init_reward"
          PROVE  FALSE
      <4>1. q[1] = Opens(t.time) /\ start < t.time /\ t.time \in Nat
        BY <1>1, <1>9, <2>1, <3>1, PendingTyped DEF InjectedInv, StartIsFirst, q, start
      <4>2. start >= t.time
        BY <1>7, <4>1 DEF Opens
      <4> QED  BY <1>5, <4>1, <4>2
    <3> QED  BY <3>1
  <2>3. t.type = "claim_reward" =>
          ClaimsInOrder(Tail(q), start, rewardEndTime[n], rewarded[n], now, t.time)
    <3>1. SUFFICES ASSUME t.type = "claim_reward"
                   PROVE  ClaimsInOrder(Tail(q), start, rewardEndTime[n], rewarded[n],
                                        now, t.time)
      OBVIOUS
    <3>2. ClaimsInOrder(q, start, rewardEndTime[n], rewarded[n], now, t.time) /\ t.time \in Nat
      BY <1>1, <1>9, <2>1, <3>1, PendingTyped DEF InjectedInv, q, start
    <3>3. NotBefore(Tail(q), now, t.time)
      BY <1>6, <3>2 DEF ClaimsInOrder, NotBefore
    <3>4. ClaimIsFirst(q, t.time) => rewardEndTime[n] >= t.time
      BY <1>7, <3>2 DEF ClaimIsFirst, Claims
    <3> QED  BY <3>2, <3>3, <3>4 DEF ClaimsInOrder, ClaimIsVoid
  <2> QED  BY <1>2, <1>3, <1>4, <1>9, <2>1, <2>2, <2>3 DEF InjectedInv, start
<1>10. \A t \in pending' : (t \in pending /\ t.nominee # n) \/ InjectedInv(t)'
  BY <1>2, <1>9
<1> QED  BY <1>1, <1>2, <1>4, <1>8, <1>10, RewardStep

\* What is queued last makes no difference to what was injected.
LEMMA InjectedAppends ==
    ASSUME TypeOK, NEW n \in Nodes, NEW e \in NetworkTx, e.time = now,
           queue'[n] = Append(queue[n], e),
           UNCHANGED <<now, rewardStartTime, rewardEndTime, rewarded>>,
           NEW tx \in pending, tx.nominee = n, InjectedInv(tx)
    PROVE  InjectedInv(tx)'
<1>1. queue[n] \in Seq(NetworkTx) /\ now \in Nat
  BY RewardTyped
<1>2. tx.type = "init_reward" =>
        StartIsFirst(Append(queue[n], e), rewardStartTime[n], tx.time)
  BY <1>1, StartIsFirstAppends DEF InjectedInv
<1>3. tx.type = "claim_reward" =>
        ClaimsInOrder(Append(queue[n], e), rewardStartTime[n], rewardEndTime[n], rewarded[n],
                      now, tx.time)
  <2>1. tx.type = "claim_reward" => tx.time \in Nat
    BY PendingTyped
  <2> QED  BY <1>1, <2>1, ClaimsInOrderAppends DEF InjectedInv
<1> QED  BY <1>2, <1>3 DEF InjectedInv

LEMMA PenaltyForNow ==
    ASSUME NEW n, NEW violation, NEW tx \in PenaltyFor(n, violation)
    PROVE  tx.type = "apply_penalty" /\ tx.time = now /\ InjectedInv(tx)
<1>1. tx.type = "apply_penalty" /\ tx.time = now
  BY DEF PenaltyFor
<1> QED  BY <1>1 DEF InjectedInv

LEMMA ActivateReward ==
    ASSUME PairedInv, PairedInv', RewardInv, NEW n \in Nodes, Activate(n)
    PROVE  RewardInv'
<1>1. TypeOK
  BY DEF PairedInv
<1>2. /\ queue' = [queue EXCEPT ![n] = Append(queue[n], Opens(now))]
      /\ status' = [status EXCEPT ![n] = "active"]
      /\ activeSince' = [activeSince EXCEPT ![n] = now]
      /\ UNCHANGED <<now, nodeVars, served, pending>>
  BY DEF Activate, Moves, Enqueue, Opens
<1>3. UNCHANGED <<rewardStartTime, rewardEndTime, rewarded, totalReward>>
  BY <1>2 DEF nodeVars, rewardVars
<1>4. /\ queue'[n] = Append(queue[n], Opens(now)) /\ activeSince'[n] = now
      /\ \A m \in Nodes : m # n => SameStay(m)
  BY <1>1, <1>2, <1>3 DEF TypeOK, SameStay
<1>5. StayInv(n)'
  <2> DEFINE q == queue[n]
             s == rewardStartTime[n]
             d == rewarded[n]
             a == totalReward[n]
             b == served[n]
             p == Append(q, Opens(now))
  <2>1. /\ q \in Seq(NetworkTx) /\ now \in Nat /\ now > 0 /\ InOrder(q, now)
        /\ a \in Nat /\ s \in Nat /\ d \in BOOLEAN /\ b \in Nat
        /\ Funded(q, s, d, a, b)
    BY <1>1, RewardTyped DEF RewardInv, StayInv
  <2> HIDE DEF q, s, d, a, b
  <2>2. InOrder(p, now) /\ StayIsQueued(p, s, now) /\ Funded(p, s, d, a, b)
    BY <2>1, StayBegins
  <2> QED  BY <1>2, <1>3, <1>4, <2>2 DEF StayInv, q, s, d, a, b
<1>6. \A t \in pending' : (t \in pending /\ t.nominee # n) \/ InjectedInv(t)'
  <2>1. Opens(now) \in NetworkTx /\ Opens(now).time = now
    BY <1>1, RewardTyped, EntryTyped
  <2> QED  BY <1>1, <1>2, <1>3, <1>4, <2>1, InjectedAppends DEF RewardInv
<1> QED  BY <1>1, <1>2, <1>4, <1>5, <1>6, RewardStep

\* A node leaves; the reward that is queued for it is paid by its time served.
LEMMA LeaveReward ==
    ASSUME PairedInv, PairedInv', RewardInv, NEW n \in Nodes, NEW early \in BOOLEAN,
           NEW deactivated \in BOOLEAN, Leave(n, early, deactivated)
    PROVE  RewardInv'
<1>1. TypeOK /\ TypeOK' /\ activeSince[n] <= now
  BY DEF PairedInv, ActiveInThePast
<1>2. /\ status[n] = "active"
      /\ status' = [status EXCEPT ![n] = "out"]
      /\ served' = [served EXCEPT ![n] = served[n] + (now - activeSince[n])]
      /\ deactivated => queue' = [queue EXCEPT ![n] = Append(queue[n], Claims(now))]
      /\ ~ deactivated => queue' = queue
      /\ UNCHANGED <<now, nodeVars, activeSince>>
      /\ \A tx \in pending' : tx \in pending \/ tx \in PenaltyFor(n, "LeftNetworkEarly")
  BY DEF Leave, Moves, Enqueue, Claims, Adds
<1>3. UNCHANGED <<rewardStartTime, rewardEndTime, rewarded, totalReward>>
  BY <1>2 DEF nodeVars, rewardVars
<1>4. /\ deactivated => queue'[n] = Append(queue[n], Claims(now))
      /\ status'[n] = "out"
      /\ served'[n] = served[n] + (now - activeSince[n])
      /\ \A m \in Nodes : m # n => SameStay(m)
  BY SMTT(30), <1>1, <1>2, <1>3 DEF TypeOK, SameStay
<1>5. StayInv(n)'
  <2> DEFINE q == queue[n]
             s == rewardStartTime[n]
             d == rewarded[n]
             a == totalReward[n]
             b == served[n]
             since == activeSince[n]
             p == Append(q, Claims(now))
             time2 == b + (now - since)
  <2>1. /\ q \in Seq(NetworkTx) /\ now \in Nat /\ now > 0 /\ InOrder(q, now)
        /\ a \in Nat /\ s \in Nat /\ d \in BOOLEAN /\ b \in Nat
        /\ Funded(q, s, d, a, b)
        /\ since \in Nat /\ since <= now /\ StayIsQueued(q, s, since)
    BY <1>1, <1>2, RewardTyped DEF RewardInv, StayInv
  <2> HIDE DEF q, s, d, a, b, since
  <2>2. InOrder(p, now) /\ Funded(p, s, d, a, time2)
    BY <2>1, StayEnds
  <2>3. Funded(q, s, d, a, time2)
    <3>1. time2 \in Nat /\ b <= time2
      BY <2>1
    <3>2. q # << >> => Width(q, s, d, 1) <= Width(q, s, d, 1)
      <4>1. q # << >> => 1 \in 1..Len(q)
        BY <2>1
      <4> QED  BY <2>1, <4>1, WidthTyped
    <3> HIDE DEF time2
    <3> QED  BY SMTT(30), <2>1, <3>1, <3>2, FundedStays
  <2>4. CASE deactivated
    BY <1>2, <1>3, <1>4, <2>2, <2>4 DEF StayInv, q, s, d, a, b, since
  <2>5. CASE ~ deactivated
    BY <1>2, <1>3, <1>4, <2>1, <2>3, <2>5 DEF StayInv, q, s, d, a, b, since
  <2> QED  BY <2>4, <2>5
<1>6. ASSUME NEW t \in pending', ~ (t \in pending /\ t.nominee # n)
      PROVE  InjectedInv(t)'
  <2>1. CASE t \in pending /\ t.nominee = n /\ deactivated
    <3>1. Claims(now) \in NetworkTx /\ Claims(now).time = now
      BY <1>1, RewardTyped, EntryTyped
    <3> QED  BY <1>1, <1>2, <1>3, <1>4, <2>1, <3>1, InjectedAppends DEF RewardInv
  <2>2. CASE t \in pending /\ t.nominee = n /\ ~ deactivated
    BY <1>2, <1>3, <2>2 DEF RewardInv, InjectedInv
  <2>3. CASE t \in PenaltyFor(n, "LeftNetworkEarly")
    <3>1. t.type = "apply_penalty" /\ t.time = now
      BY <2>3, PenaltyForNow
    <3> QED  BY <1>2, <3>1 DEF InjectedInv
  <2> QED  BY <1>2, <1>6, <2>1, <2>2, <2>3
<1> QED  BY <1>1, <1>2, <1>4, <1>5, <1>6, RewardStep

\* The other events of a node: nothing of its stays changes.
LEMMA NodeStepReward ==
    ASSUME PairedInv, PairedInv', RewardInv, NodeStep
    PROVE  RewardInv'
<1>1. TypeOK
  BY DEF PairedInv
<1>2. PICK n \in Nodes :
        \/ Verified(n) \/ SignCertificate(n) \/ Join(n) \/ Select(n) \/ LeaveStandby(n)
        \/ SyncTimeout(n) \/ Activate(n) \/ Refute(n)
        \/ \E early, deactivated \in BOOLEAN : Leave(n, early, deactivated)
  BY DEF NodeStep
<1>3. CASE SignCertificate(n)
  <2>1. UNCHANGED <<rewardState, status, pending>>
    BY <1>3 DEF SignCertificate, rewardState, nodeVars, rewardVars, netVars
  <2> QED  BY <1>1, <2>1, RewardKept
<1>4. CASE Join(n) \/ Select(n) \/ LeaveStandby(n)
  <2>1. /\ UNCHANGED <<rewardState, pending>>
        /\ status' \in {[status EXCEPT ![n] = "standby"], [status EXCEPT ![n] = "syncing"],
                        [status EXCEPT ![n] = "out"]}
    BY <1>4 DEF Join, Select, LeaveStandby, Moves, rewardState, nodeVars, rewardVars
  <2>2. \A m \in Nodes : status'[m] = "active" => status[m] = "active"
    BY <1>1, <2>1 DEF TypeOK
  <2> QED  BY <1>1, <2>1, <2>2, RewardKept
<1>5. CASE SyncTimeout(n) \/ Refute(n)
  <2>1. /\ UNCHANGED rewardState
        /\ \/ status' = [status EXCEPT ![n] = "out"] 
           \/ status[n] = "active" /\ status' = [status EXCEPT ![n] = "active"]
        /\ \A tx \in pending' : \/ tx \in pending
                                \/ \E violation : tx \in PenaltyFor(n, violation)
    BY <1>5 DEF SyncTimeout, Refute, Moves, Adds, rewardState, nodeVars, rewardVars
  <2>2. now' = now /\ \A m \in Nodes : SameStay(m)
    BY <1>1, <2>1 DEF TypeOK, SameStay, rewardState
  <2>3. \A m \in Nodes : StayInv(m)'
    BY <2>2, StaySame DEF RewardInv
  <2>4. ASSUME NEW tx \in pending'
        PROVE  InjectedInv(tx)'
    <3>1. CASE tx \in pending
      BY <1>1, <2>2, <3>1, InjectedSame, PendingTyped DEF RewardInv
    <3>2. CASE \E violation : tx \in PenaltyFor(n, violation)
      <4>1. tx.type = "apply_penalty" /\ tx.time = now
        BY <3>2, PenaltyForNow
      <4> QED  BY <2>2, <4>1 DEF InjectedInv
    <3> QED  BY <2>1, <3>1, <3>2
  <2> QED  BY <2>2, <2>3, <2>4 DEF RewardInv
<1> QED  BY <1>2, <1>3, <1>4, <1>5, VerifiedReward, ActivateReward, LeaveReward

\* Two transactions queued at once are queued one after the other.
LEMMA AppendsTwo ==
    ASSUME NEW S, NEW q \in Seq(S), NEW a \in S, NEW b \in S
    PROVE  q \o << a, b >> = Append(Append(q, a), b)
<1> DEFINE l == q \o << a, b >>
           p == Append(q, a)
           r == Append(p, b)
<1>1. l \in Seq(S) /\ r \in Seq(S) /\ p \in Seq(S)
  BY ConcatProperties
<1>2. Len(l) = Len(q) + 2 /\ Len(r) = Len(q) + 2 /\ Len(q) \in Nat
  BY ConcatProperties
<1>3. ASSUME NEW k \in 1..Len(q) + 2
      PROVE  l[k] = r[k]
  OBVIOUS
<1> QED  BY <1>1, <1>2, <1>3, SeqEqual

LEMMA ConcatPair ==
    ASSUME NEW S, NEW a \in S, NEW b \in S
    PROVE  << a >> \o << b >> = << a, b >>
<1>1. << a >> \in Seq(S) /\ << b >> \in Seq(S) /\ << a, b >> \in Seq(S)
  OBVIOUS
<1>2. /\ << a >> \o << b >> \in Seq(S)
      /\ Len(<< a >> \o << b >>) = 2 /\ Len(<< a, b >>) = 2
  BY <1>1, ConcatProperties
<1>3. ASSUME NEW k \in 1..2
      PROVE  (<< a >> \o << b >>)[k] = << a, b >>[k]
  <2>1. k = 1 \/ k = 2
    OBVIOUS
  <2>2. /\ (<< a >> \o << b >>)[1] = << a >>[1]
        /\ (<< a >> \o << b >>)[2] = << b >>[2 - 1]
    BY <1>1, ConcatProperties
  <2> QED  BY <2>1, <2>2
<1> QED  BY <1>1, <1>2, <1>3, SeqEqual

\* What the shutdown queues for a node.
LEMMA ShutdownQueues ==
    ASSUME TypeOK, NEW m \in Nodes, NEW fresh \in BOOLEAN
    PROVE  queue[m] \o ShutdownEntries(m, fresh) \in
             IF fresh THEN {Append(queue[m], Opens(now)),
                            Append(Append(queue[m], Opens(now)), Claims(now))}
             ELSE IF queue[m] # << >> /\ queue[m][Len(queue[m])].type = "nodeReward"
                  THEN {queue[m]} ELSE {Append(queue[m], Claims(now))}
<1> DEFINE q == queue[m]
           paid == q # << >> /\ q[Len(q)].type = "nodeReward"
<1>1. q \in Seq(NetworkTx) /\ Opens(now) \in NetworkTx /\ Claims(now) \in NetworkTx
  BY RewardTyped, EntryTyped
<1>2. ShutdownEntries(m, fresh) =
        (IF fresh THEN << Opens(now) >> ELSE << >>) \o (IF paid THEN << >> ELSE << Claims(now) >>)
  BY DEF ShutdownEntries, Opens, Claims
<1> HIDE DEF q, paid
<1>3. /\ q \o << >> = q
      /\ q \o << Opens(now) >> = Append(q, Opens(now))
      /\ q \o << Claims(now) >> = Append(q, Claims(now))
      /\ q \o << Opens(now), Claims(now) >> = Append(Append(q, Opens(now)), Claims(now))
  <2>1. q \o << Opens(now), Claims(now) >> = Append(Append(q, Opens(now)), Claims(now))
    BY <1>1, AppendsTwo
  <2>2. q \o << >> = q
    BY <1>1
  <2>3. /\ q \o << Opens(now) >> = Append(q, Opens(now))
        /\ q \o << Claims(now) >> = Append(q, Claims(now))
    BY <1>1
  <2> QED  BY <2>1, <2>2, <2>3
<1>4. /\ << Opens(now) >> \o << >> = << Opens(now) >>
      /\ << >> \o << Claims(now) >> = << Claims(now) >>
      /\ << >> \o << >> = << >>
      /\ << Opens(now) >> \o << Claims(now) >> = << Opens(now), Claims(now) >>
  <2>1. << Opens(now) >> \o << >> = << Opens(now) >>
    OBVIOUS
  <2>2. << >> \o << Claims(now) >> = << Claims(now) >>
    OBVIOUS
  <2>3. << >> \o << >> = << >>
    OBVIOUS
  <2>4. << Opens(now) >> \o << Claims(now) >> = << Opens(now), Claims(now) >>
    BY <1>1, ConcatPair
  <2> QED  BY <2>1, <2>2, <2>3, <2>4
<1>5. CASE fresh /\ paid
  BY <1>2, <1>3, <1>4, <1>5 DEF q, paid
<1>6. CASE fresh /\ ~ paid
  BY <1>2, <1>3, <1>4, <1>6 DEF q, paid
<1>7. CASE ~ fresh /\ paid
  BY <1>2, <1>3, <1>4, <1>7 DEF q, paid
<1>8. CASE ~ fresh /\ ~ paid
  BY <1>2, <1>3, <1>4, <1>8 DEF q, paid
<1> QED  BY <1>5, <1>6, <1>7, <1>8

\* The shutdown ends the stay of every active node, and begins and ends that of a
\* node that was activated in the same cycle.
LEMMA ShutdownReward ==
    ASSUME PairedInv, PairedInv', RewardInv, NetworkStops
    PROVE  RewardInv'
<1>1. TypeOK /\ TypeOK' /\ ActiveInThePast
  BY DEF PairedInv
<1>2. PICK activated \in SUBSET Nodes : Shutdown(activated)
  BY DEF NetworkStops
<1> DEFINE members == activated \cup {n \in Nodes : status[n] = "active"}
<1>3. /\ \A n \in activated : status[n] = "syncing"
      /\ queue' = [n \in Nodes |-> IF n \in members
                                   THEN queue[n] \o ShutdownEntries(n, n \in activated)
                                   ELSE queue[n]]
      /\ served' = [n \in Nodes |-> IF status[n] = "active"
                                    THEN served[n] + (now - activeSince[n]) ELSE served[n]]
      /\ status' = [n \in Nodes |-> "out"]
      /\ UNCHANGED <<now, nodeVars, pending>>
  BY <1>2 DEF Shutdown
<1>4. UNCHANGED <<rewardStartTime, rewardEndTime, rewarded, totalReward>>
  BY <1>3 DEF nodeVars, rewardVars
<1>5. now \in Nat /\ now > 0
  BY <1>1 DEF TypeOK, RewardInv
<1>6. ASSUME NEW m \in Nodes
      PROVE  /\ StayInv(m)'
             /\ \A t \in pending : t.nominee = m => InjectedInv(t)'
  <2> DEFINE q == queue[m]
             s == rewardStartTime[m]
             d == rewarded[m]
             a == totalReward[m]
             b == served[m]
             end == rewardEndTime[m]
             since == activeSince[m]
  <2>1. /\ q \in Seq(NetworkTx) /\ InOrder(q, now)
        /\ a \in Nat /\ s \in Nat /\ d \in BOOLEAN /\ b \in Nat
        /\ Funded(q, s, d, a, b)
        /\ since \in Nat /\ since <= now
        /\ status[m] = "active" => StayIsQueued(q, s, since)
    BY <1>1, RewardTyped DEF RewardInv, StayInv, ActiveInThePast
  <2>2. /\ Opens(now) \in NetworkTx /\ Opens(now).time = now
        /\ Claims(now) \in NetworkTx /\ Claims(now).time = now
    BY <1>5, EntryTyped
  <2> DEFINE Told(p) == \A t \in pending : t.nominee = m =>
               /\ t.type = "init_reward" => StartIsFirst(p, s, t.time)
               /\ t.type = "claim_reward" => ClaimsInOrder(p, s, end, d, now, t.time)
               /\ t.type = "apply_penalty" => t.time = now
  <2>3. Told(q)
    BY DEF RewardInv, InjectedInv
  <2>4. ASSUME NEW p \in Seq(NetworkTx), NEW e \in NetworkTx, e.time = now, Told(p)
        PROVE  Told(Append(p, e))
    <3> TAKE t \in pending
    <3> HAVE t.nominee = m
    <3>1. t.type = "init_reward" => StartIsFirst(Append(p, e), s, t.time)
      BY <2>4, StartIsFirstAppends
    <3>2. t.type = "claim_reward" => ClaimsInOrder(Append(p, e), s, end, d, now, t.time)
      <4>1. t.type = "claim_reward" => t.time \in Nat
        BY <1>1, PendingTyped
      <4> HIDE DEF s, d, end
      <4> QED  BY <1>5, <2>4, <4>1, ClaimsInOrderAppends
    <3>3. t.type = "apply_penalty" => t.time = now
      BY <2>4
    <3> QED  BY <3>1, <3>2, <3>3
  <2>5. status'[m] # "active"
    BY <1>3
  <2>6. ASSUME NEW p, queue'[m] = p, InOrder(p, now), Told(p),
               Funded(p, s, d, a, served'[m])
        PROVE  /\ StayInv(m)'
               /\ \A t \in pending : t.nominee = m => InjectedInv(t)'
    <3>1. StayInv(m)'
      BY <1>3, <1>4, <2>5, <2>6 DEF StayInv
    <3>2. \A t \in pending : t.nominee = m => InjectedInv(t)'
      BY <1>3, <1>4, <2>6 DEF InjectedInv
    <3> QED  BY <3>1, <3>2
  <2>7. CASE m \in activated
    <3>1. served'[m] = b /\ m \in members
      BY <1>3, <2>7
    <3>2. queue'[m] \in {Append(q, Opens(now)), Append(Append(q, Opens(now)), Claims(now))}
      BY <1>1, <1>3, <2>7, <3>1, ShutdownQueues
    <3> DEFINE p == Append(q, Opens(now))
    <3>3. /\ p \in Seq(NetworkTx) /\ InOrder(p, now) /\ StayIsQueued(p, s, now)
          /\ Funded(p, s, d, a, b)
      <4> HIDE DEF q, s, d, a, b
      <4> QED  BY <1>5, <2>1, StayBegins
    <3>4. Told(p)
      BY <2>1, <2>2, <2>3, <2>4
    <3> DEFINE r == Append(p, Claims(now))
    <3>5. InOrder(r, now) /\ Funded(r, s, d, a, b)
      <4> HIDE DEF p, q, s, d, a, b
      <4>1. now <= now /\ b + (now - now) = b
        BY <1>5, <2>1
      <4>2. InOrder(r, now) /\ Funded(r, s, d, a, b + (now - now))
        BY <1>5, <2>1, <3>3, <4>1, StayEnds
      <4> QED  BY <4>1, <4>2
    <3>6. Told(r)
      <4> HIDE DEF p, Told
      <4> QED  BY <2>2, <2>4, <3>3, <3>4
    <3> HIDE DEF p, r, Told
    <3>7. CASE queue'[m] = p
      BY <2>6, <3>1, <3>3, <3>4, <3>7
    <3>8. CASE queue'[m] = r
      BY <2>6, <3>1, <3>5, <3>6, <3>8
    <3> QED  BY <3>2, <3>7, <3>8 DEF p, r
  <2>8. CASE m \notin activated /\ status[m] = "active"
    <3>1. served'[m] = b + (now - since) /\ m \in members
      BY <1>3, <2>8
    <3>2. ~ (q # << >> /\ q[Len(q)].type = "nodeReward")
      BY <2>1, <2>8 DEF StayIsQueued, Opens
    <3> DEFINE p == Append(q, Claims(now))
    <3>3. queue'[m] = p
      <4>1. queue'[m] = q \o ShutdownEntries(m, FALSE)
        <5>1. (m \in activated) = FALSE
          BY <2>8
        <5> QED  BY <1>3, <3>1, <5>1
      <4>2. q \o ShutdownEntries(m, FALSE) \in {p}
        BY <1>1, <3>2, ShutdownQueues
      <4> QED  BY <4>1, <4>2
    <3>4. InOrder(p, now) /\ Funded(p, s, d, a, b + (now - since))
      <4> HIDE DEF q, s, d, a, b, since
      <4> QED  BY <1>5, <2>1, <2>8, StayEnds
    <3>5. Told(p)
      BY <2>1, <2>2, <2>3, <2>4
    <3> HIDE DEF p, Told
    <3> QED  BY <2>6, <3>1, <3>3, <3>4, <3>5
  <2>9. CASE m \notin activated /\ status[m] # "active"
    <3>1. served'[m] = b /\ queue'[m] = q
      BY <1>3, <2>9
    <3> HIDE DEF Told
    <3> QED  BY <2>1, <2>3, <2>6, <3>1
  <2> QED  BY <2>7, <2>8, <2>9
<1>7. \A t \in pending' : InjectedInv(t)'
  BY <1>1, <1>3, <1>6, PendingTyped
<1> QED  BY <1>3, <1>5, <1>6, <1>7 DEF RewardInv

LEMMA TickReward == ASSUME PairedInv, RewardInv, Tick PROVE RewardInv'
<1>1. TypeOK /\ now \in Nat
  BY DEF PairedInv, TypeOK
<1>2. /\ now' = now + 1 /\ pending' = {}
      /\ UNCHANGED <<nodeVars, netVars>>
  BY DEF Tick
<1>3. ASSUME NEW n \in Nodes
      PROVE  StayInv(n)'
  <2>1. StayInv(n) /\ queue[n] \in Seq(NetworkTx)
    BY <1>1, RewardTyped DEF RewardInv
  <2>2. \A k \in 1..Len(queue[n]) : queue[n][k].time \in Nat
    BY <2>1, QueueEntry
  <2>3. InOrder(queue[n], now + 1)
    BY <1>1, <2>1, <2>2 DEF StayInv, InOrder
  <2> QED  BY <1>2, <2>1, <2>3 DEF StayInv, nodeVars, rewardVars, netVars
<1> QED  BY <1>1, <1>2, <1>3 DEF RewardInv

LEMMA NextReward ==
    ASSUME PairedInv, PairedInv', RewardInv, [Next]_vars
    PROVE  RewardInv'
<1>1. TypeOK
  BY DEF PairedInv
<1>2. ASSUME pending' \subseteq pending, UNCHANGED <<rewardState, status>>
      PROVE  RewardInv'
  BY <1>1, <1>2, RewardKept
<1> USE DEF rewardState, nodeVars, rewardVars, netVars
<1>3. CASE UserTx
  <2>1. PICK u \in Users, n \in Nodes :
          \/ \E amount \in Deposits : DepositStakeTx(u, n, amount)
          \/ \E force \in BOOLEAN : WithdrawStakeTx(u, n, force)
    BY <1>3 DEF UserTx
  <2>2. CASE \E amount \in Deposits : DepositStakeTx(u, n, amount)
    BY <1>2, <2>2 DEF DepositStakeTx
  <2> QED  BY <2>1, <2>2, WithdrawReward
<1>4. CASE InjectTx
  BY <1>4, InjectReward
<1>5. CASE ExecuteTx
  <2>1. PICK tx \in pending :
          \/ SetCertTimeTx(tx) \/ InitRewardTx(tx) \/ ClaimRewardTx(tx)
          \/ ApplyPenaltyTx(tx) \/ Refused(tx)
    BY <1>5 DEF ExecuteTx
  <2>2. CASE SetCertTimeTx(tx) \/ Refused(tx)
    BY <1>2, <2>2 DEF SetCertTimeTx, Refused, Executes
  <2> QED  BY <2>1, <2>2, InitRewardReward, ClaimRewardReward, PenaltyReward
<1>6. CASE NodeStep
  BY <1>6, NodeStepReward
<1>7. CASE LoseTx
  BY <1>2, <1>7 DEF LoseTx, Lost, Executes
<1>8. CASE Tick
  BY <1>8, TickReward
<1>9. CASE NetworkStops
  BY <1>9, ShutdownReward
<1>10. CASE UNCHANGED vars
  BY <1>2, <1>10 DEF vars
<1> QED  BY <1>3, <1>4, <1>5, <1>6, <1>7, <1>8, <1>9, <1>10 DEF Next

\* What was granted is at most the reward of the time served.
LEMMA RewardEarned ==
    ASSUME PairedInv, RewardInv
    PROVE  NoUnearnedReward
<1> SUFFICES ASSUME NEW n \in Nodes
             PROVE  totalReward[n] <= Rate * TimeInNetwork(n)
  BY DEF NoUnearnedReward
<1>1. /\ totalReward[n] \in Int /\ served[n] \in Int /\ activeSince[n] \in Int /\ now \in Int
      /\ activeSince[n] <= now
  BY DEF PairedInv, TypeOK, ActiveInThePast
<1>2. Funded(queue[n], rewardStartTime[n], rewarded[n], totalReward[n], served[n])
      /\ queue[n] \in Seq(NetworkTx)
  BY DEF PairedInv, TypeOK, RewardInv, StayInv
<1>3. PICK r : /\ Funds(r, queue[n], rewardStartTime[n], rewarded[n])
               /\ totalReward[n] + Rate * r[0] <= Rate * served[n]
  BY <1>2 DEF Funded
<1>4. r[0] \in Int /\ 0 <= r[0]
  BY <1>2, <1>3 DEF Funds
<1>5. TimeInNetwork(n) \in Int /\ served[n] <= TimeInNetwork(n)
  BY <1>1 DEF TimeInNetwork
<1>6. Rate * 0 <= Rate * r[0] /\ Rate * served[n] <= Rate * TimeInNetwork(n)
  BY <1>1, <1>4, <1>5, RateGrows
<1>7. /\ Rate * 0 = 0 /\ Rate * r[0] \in Int
      /\ Rate * served[n] \in Int /\ Rate * TimeInNetwork(n) \in Int
  <2>1. Rate * 0 = 0
    BY StakingAssumption
  <2> QED  BY <1>1, <1>4, <1>5, <2>1, RateTyped
<1> QED  BY <1>1, <1>3, <1>6, <1>7

\* A node is never granted more than the reward of the time it was active, for any
\* number of nodes and nominators and any length of the queues, whatever reward
\* transactions are lost, repeated or late (claim_reward.ts, networkTransaction.ts).
THEOREM StakingRewardsEarned == Spec => []NoUnearnedReward
<1>1. Init => RewardInv
  BY InitRewardInv
<1>2. PairedInv /\ PairedInv' /\ RewardInv /\ [Next]_vars => RewardInv'
  BY NextReward
<1>3. PairedInv /\ RewardInv => NoUnearnedReward
  BY RewardEarned
<1> QED  BY PairedAlways, <1>1, <1>2, <1>3, PTL DEF Spec
=============================================================================
