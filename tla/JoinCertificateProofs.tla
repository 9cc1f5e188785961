----------------------- MODULE JoinCertificateProofs ------------------------
(***************************************************************************)
(* Theorems about JoinCertificate, for every value of its constants.       *)
(*                                                                         *)
(* Every behaviour of it is one of NodeStaking, so that what is proved     *)
(* there holds here; what a node keeps in its memory is then tied to the   *)
(* certificates that were signed, and to the renewals that are under way,  *)
(* which bounds what they cost and how long a node waits.                  *)
(***************************************************************************)
EXTENDS JoinCertificate, NodeStakingProofs

\* A step of isReadyToJoin is a step of staking, or leaves the accounts alone.
LEMMA StepOfStaking == ASSUME [JoinNext]_joinVars PROVE [Next]_vars
<1>1. CASE Poll
  <2>1. PICK n \in Nodes :
          \/ Renews(n) \/ HasNoNominator(n) \/ Holds(n) \/ QuerySucceeds(n)
          \/ RenewsQueried(n) \/ QueryRefused(n)
    BY <1>1 DEF Poll
  <2>2. CASE Renews(n) \/ RenewsQueried(n)
    BY <2>2 DEF Renews, RenewsQueried, Next, InjectTx
  <2>3. CASE QuerySucceeds(n)
    BY <2>3 DEF QuerySucceeds, Next, NodeStep
  <2>4. CASE HasNoNominator(n) \/ Holds(n) \/ QueryRefused(n)
    BY <2>4 DEF HasNoNominator, Holds, QueryRefused
  <2> QED  BY <2>1, <2>2, <2>3, <2>4
<1>2. CASE JoinFault
  <2>1. CASE LosesTx
    BY <2>1 DEF LosesTx, LoseTx, Next
  <2>2. CASE \E n \in Nodes :
               QueryFails(n) \/ PollFails(n) \/ RenewalFails(n) \/ Restarts(n)
    BY <2>2 DEF QueryFails, PollFails, RenewalFails, Restarts
  <2>3. CASE \E n \in Nodes : AnswerLost(n)
    BY <2>3 DEF AnswerLost, Next, InjectTx
  <2> QED  BY <1>2, <2>1, <2>2, <2>3 DEF JoinFault
<1>3. CASE StakingStep
  <2>1. CASE \E n \in Nodes : JoinRequest(n) \/ Selected(n) \/ LeavesNetwork(n)
    <3>1. NodeStep
      BY <2>1 DEF JoinRequest, Selected, LeavesNetwork, NodeStep
    <3> QED  BY <3>1 DEF Next
  <2>2. CASE \E u \in Users, n \in Nodes :
               \/ \E amount \in Deposits : Stakes(u, n, amount)
               \/ \E force \in BOOLEAN : Withdraws(u, n, force)
    <3>1. UserTx
      BY <2>2 DEF Stakes, Withdraws, UserTx
    <3> QED  BY <3>1 DEF Next
  <2>3. CASE \E tx \in pending : SetsCertTime(tx) \/ Penalised(tx) \/ Rejected(tx)
    <3>1. ExecuteTx
      BY <2>3 DEF SetsCertTime, Penalised, Rejected, ExecuteTx
    <3> QED  BY <3>1 DEF Next
  <2> QED  BY <1>3, <2>1, <2>2, <2>3 DEF StakingStep
<1>4. CASE JoinTick
  BY <1>4 DEF JoinTick, Next
<1>5. CASE UNCHANGED joinVars
  BY <1>5 DEF joinVars
<1> QED  BY <1>1, <1>2, <1>3, <1>4, <1>5 DEF JoinNext

\* A network whose nodes get their certificates by isReadyToJoin (index.ts) is one
\* that NodeStaking describes: what holds there of stakes and certificates holds here.
THEOREM JoinImplementsStaking == JoinSpec => Spec
<1>1. JoinInit => Init
  BY DEF JoinInit
<1>2. [JoinNext]_joinVars => [Next]_vars
  BY StepOfStaking
<1> QED  BY <1>1, <1>2, PTL DEF JoinSpec, Spec

-----------------------------------------------------------------------------
(* What a node holds in its memory.                                        *)

PollTyped ==
    /\ lastCertTimeTx \in [Nodes -> Nat]
    /\ stakeCert \in [Nodes -> Certificate \cup {NoCert}]
    /\ isReadyToJoin \in [Nodes -> BOOLEAN]
    /\ polled \in [Nodes -> Nat]
    /\ renewing \in [Nodes -> BOOLEAN]

CountTyped ==
    /\ faults \in [Nodes -> 0 .. MaxFaults]
    /\ deposits \in [Nodes -> Nat]
    /\ charges \in [Nodes -> Nat]
    /\ disturbed \in [Nodes -> Nat]

\* The node holds a certificate that was signed for it, with enough stake; the
\* network forgets it only when it has expired.
HeldIsSigned ==
    \A n \in Nodes :
        LET c == stakeCert[n]
        IN  c # NoCert => /\ c.nominee = n
                          /\ c.stake >= MinStake
                          /\ c.certExp > now => c \in certs

\* A node was ready with a certificate of which less than 70% was over.
ReadyWhenFresh ==
    \A n \in Nodes :
        LET c == stakeCert[n]
        IN  isReadyToJoin[n] => /\ c # NoCert
                                /\ 10 * (polled[n] - (c.certExp - CertLife)) < 7 * CertLife

HeldInv == PollTyped /\ HeldIsSigned /\ ReadyWhenFresh

LEMMA NoCertIsNone == NoCert \notin Certificate
  BY JoinAssumption DEF Certificate

LEMMA InitHeld == JoinInit => HeldInv /\ CountTyped
  BY JoinAssumption
     DEF JoinInit, HeldInv, PollTyped, CountTyped, HeldIsSigned, ReadyWhenFresh

\* The clock does not go back, and no step but a tick takes a certificate away.
LEMMA CertsKept ==
    ASSUME TypeOK, [Next]_vars
    PROVE  /\ now' \in Nat
           /\ now' >= now
           /\ \A c \in certs : c.certExp > now' => c \in certs'
<1>t. now \in Nat /\ certs \subseteq Certificate
  BY DEF TypeOK
<1>0. \A c \in certs : c.certExp \in Nat
  BY <1>t DEF Certificate
<1>1. CASE now' = now /\ certs \subseteq certs'
  BY <1>1, <1>t
<1>2. CASE Tick
  BY <1>2, <1>t, <1>0 DEF Tick
<1>3. CASE UserTx
  BY <1>3, <1>1 DEF UserTx, DepositStakeTx, WithdrawStakeTx, certVars
<1>4. CASE InjectTx
  BY <1>4, <1>1 DEF InjectTx, InjectSetCertTime, InjectInitReward, InjectClaimReward,
                    Inject, certVars
<1>5. CASE ExecuteTx
  BY <1>5, <1>1 DEF ExecuteTx, SetCertTimeTx, InitRewardTx, ClaimRewardTx,
                    ApplyPenaltyTx, Refused, Executes, certVars
<1>6. CASE NodeStep
  <2>1. PICK n \in Nodes :
          \/ Verified(n) \/ SignCertificate(n) \/ Join(n) \/ Select(n)
          \/ LeaveStandby(n) \/ SyncTimeout(n) \/ Activate(n) \/ Refute(n)
          \/ \E early, deactivated \in BOOLEAN : Leave(n, early, deactivated)
    BY <1>6 DEF NodeStep
  <2>2. CASE SignCertificate(n)
    BY <2>2, <1>1 DEF SignCertificate
  <2>3. CASE ~ SignCertificate(n)
    BY <2>1, <2>3, <1>1 DEF Verified, Join, Select, LeaveStandby, SyncTimeout,
                            Activate, Refute, Leave, Moves, certVars
  <2> QED  BY <2>2, <2>3
<1>7. CASE LoseTx
  BY <1>7, <1>1 DEF LoseTx, Lost, Executes, certVars
<1>8. CASE UNCHANGED vars
  BY <1>8, <1>1 DEF vars, certVars
<1>9. CASE NetworkStops
  BY <1>9, <1>1 DEF NetworkStops, Shutdown, certVars
<1> QED  BY <1>2, <1>3, <1>4, <1>5, <1>6, <1>7, <1>8, <1>9 DEF Next

\* A node that polled, and holds what it held or nothing.
LEMMA KeptHeld ==
    ASSUME TypeOK, HeldInv, [Next]_vars, NEW n \in Nodes, PollTyped',
           stakeCert'[n] \in {stakeCert[n], NoCert},
           isReadyToJoin'[n] =>
             /\ stakeCert'[n] # NoCert
             /\ \/ isReadyToJoin[n] /\ polled'[n] = polled[n]
                \/ polled'[n] = now /\ ~ ExpiresSoon(stakeCert[n]),
           \A m \in Nodes \ {n} :
             /\ stakeCert'[m] = stakeCert[m]
             /\ isReadyToJoin'[m] = isReadyToJoin[m]
             /\ polled'[m] = polled[m]
    PROVE  HeldInv'
<1>t. /\ now \in Nat
      /\ \A m \in Nodes : stakeCert[m] \in Certificate \cup {NoCert}
      /\ \A m \in Nodes : polled[m] \in Nat
      /\ CertLife \in Nat
      /\ \A c \in Certificate : c.certExp \in Nat
  BY StakingAssumption DEF TypeOK, HeldInv, PollTyped, Certificate
<1>c. /\ now' \in Nat
      /\ now' >= now
      /\ \A c \in certs : c.certExp > now' => c \in certs'
  BY CertsKept
<1>1. HeldIsSigned'
  BY <1>t, <1>c DEF HeldInv, HeldIsSigned
<1>2. ReadyWhenFresh'
  BY <1>t DEF HeldInv, ReadyWhenFresh, ExpiresSoon
<1> QED  BY <1>1, <1>2 DEF HeldInv

LEMMA SameHeld ==
    ASSUME TypeOK, HeldInv, [Next]_vars, UNCHANGED pollVars
    PROVE  HeldInv'
<1>t. /\ now \in Nat
      /\ \A m \in Nodes : stakeCert[m] \in Certificate \cup {NoCert}
      /\ \A c \in Certificate : c.certExp \in Nat
  BY DEF TypeOK, HeldInv, PollTyped, Certificate
<1>c. /\ now' \in Nat
      /\ now' >= now
      /\ \A c \in certs : c.certExp > now' => c \in certs'
  BY CertsKept
<1>1. PollTyped' /\ ReadyWhenFresh'
  BY DEF HeldInv, PollTyped, ReadyWhenFresh, pollVars
<1>2. HeldIsSigned'
  BY <1>t, <1>c DEF HeldInv, HeldIsSigned, pollVars
<1> QED  BY <1>1, <1>2 DEF HeldInv

LEMMA PollKeepsTypes ==
    ASSUME TypeOK, PollTyped, NEW n \in Nodes,
           \/ Renews(n) \/ HasNoNominator(n) \/ Holds(n) \/ QuerySucceeds(n)
           \/ RenewsQueried(n) \/ QueryRefused(n) \/ QueryFails(n) \/ PollFails(n)
           \/ AnswerLost(n) \/ RenewalFails(n) \/ Restarts(n)
    PROVE  PollTyped'
<1>t. now \in Nat /\ stake \in [Users -> Nat] /\ certExp \in [Users -> Nat]
      /\ nominator \in [Nodes -> Users \cup {None}]
  BY DEF TypeOK
<1>1. lastCertTimeTx' \in [Nodes -> Nat]
  <2>1. lastCertTimeTx' \in {lastCertTimeTx, [lastCertTimeTx EXCEPT ![n] = now],
                             [lastCertTimeTx EXCEPT ![n] = 0]}
    BY DEF Renews, HasNoNominator, Holds, QuerySucceeds, RenewsQueried, QueryRefused,
           QueryFails, PollFails, AnswerLost, RenewalFails, Restarts, InjectAgainLater
  <2> QED  BY <2>1, <1>t DEF PollTyped
<1>2. stakeCert' \in [Nodes -> Certificate \cup {NoCert}]
  <2>1. CASE QuerySucceeds(n)
    <3> DEFINE u == nominator[n]
               c == [nominator |-> u, nominee |-> n, stake |-> stake[u], certExp |-> certExp[u]]
    <3>1. u \in Users
      BY <2>1, <1>t DEF QuerySucceeds, SignCertificate
    <3>2. c \in Certificate
      BY <3>1, <1>t DEF Certificate
    <3>3. stakeCert' = stakeCert \/ stakeCert' = [stakeCert EXCEPT ![n] = c]
      BY <2>1 DEF QuerySucceeds
    <3> HIDE DEF c
    <3> QED  BY <3>2, <3>3 DEF PollTyped
  <2>2. CASE ~ QuerySucceeds(n)
    BY <2>2 DEF PollTyped, Renews, HasNoNominator, Holds, RenewsQueried, EndsRenewing,
                QueryRefused, QueryFails, PollFails, AnswerLost, RenewalFails, Restarts
  <2> QED  BY <2>1, <2>2
<1>3. isReadyToJoin' \in [Nodes -> BOOLEAN] /\ polled' \in [Nodes -> Nat]
  BY <1>t DEF PollTyped, Renews, HasNoNominator, Holds, QuerySucceeds, RenewsQueried,
              QueryRefused, QueryFails, PollFails, AnswerLost, RenewalFails, Restarts, Polls,
              EndsRenewing
<1>4. renewing' \in [Nodes -> BOOLEAN]
  BY DEF PollTyped, Renews, HasNoNominator, Holds, QuerySucceeds, RenewsQueried,
         QueryRefused, QueryFails, PollFails, AnswerLost, RenewalFails, Restarts, EndsRenewing
<1> QED  BY <1>1, <1>2, <1>3, <1>4 DEF PollTyped

\* The node keeps a certificate that was signed in this very poll.
LEMMA QueriedHeld ==
    ASSUME TypeOK, HeldInv, [Next]_vars, NEW n \in Nodes, PollTyped', QuerySucceeds(n),
           ~ ExpiresSoon([nominator |-> nominator[n], nominee |-> n,
                          stake |-> stake[nominator[n]], certExp |-> certExp[nominator[n]]])
    PROVE  HeldInv'
<1> DEFINE u == nominator[n]
           c == [nominator |-> u, nominee |-> n, stake |-> stake[u], certExp |-> certExp[u]]
<1>t. /\ now \in Nat
      /\ stakeCert \in [Nodes -> Certificate \cup {NoCert}]
      /\ isReadyToJoin \in [Nodes -> BOOLEAN]
      /\ polled \in [Nodes -> Nat]
      /\ \A d \in Certificate : d.certExp \in Nat
      /\ nominator \in [Nodes -> Users \cup {None}]
      /\ stake \in [Users -> Nat] /\ certExp \in [Users -> Nat]
  BY DEF TypeOK, HeldInv, PollTyped, Certificate
<1>1. /\ u \in Users
      /\ stake[u] >= MinStake
      /\ certs' = certs \cup {c}
      /\ now' = now
  BY <1>t DEF QuerySucceeds, SignCertificate
<1>2. /\ c \in Certificate
      /\ c.nominee = n
      /\ c.stake >= MinStake
  BY <1>1, <1>t DEF Certificate
<1>3. /\ stakeCert' = [stakeCert EXCEPT ![n] = c]
      /\ polled' = [polled EXCEPT ![n] = now]
      /\ isReadyToJoin' = [isReadyToJoin EXCEPT ![n] = TRUE]
  BY DEF QuerySucceeds, Polls
<1>4. 10 * (now - (c.certExp - CertLife)) < 7 * CertLife
  BY <1>1, <1>t, StakingAssumption DEF ExpiresSoon
<1>5. c # NoCert
  BY <1>2, NoCertIsNone
<1> HIDE DEF c, u
<1>6. HeldIsSigned'
  <2> SUFFICES ASSUME NEW m \in Nodes, stakeCert'[m] # NoCert
               PROVE  /\ stakeCert'[m].nominee = m
                      /\ stakeCert'[m].stake >= MinStake
                      /\ stakeCert'[m].certExp > now' => stakeCert'[m] \in certs'
    BY DEF HeldIsSigned
  <2>1. CASE m = n
    BY <2>1, <1>1, <1>2, <1>3, <1>t
  <2>2. CASE m # n
    BY <2>2, <1>1, <1>3, <1>t DEF HeldInv, HeldIsSigned
  <2> QED  BY <2>1, <2>2
<1>7. ReadyWhenFresh'
  <2> SUFFICES ASSUME NEW m \in Nodes, isReadyToJoin'[m]
               PROVE  /\ stakeCert'[m] # NoCert
                      /\ 10 * (polled'[m] - (stakeCert'[m].certExp - CertLife)) < 7 * CertLife
    BY DEF ReadyWhenFresh
  <2>1. CASE m = n
    BY <2>1, <1>3, <1>4, <1>5, <1>t
  <2>2. CASE m # n
    BY <2>2, <1>3, <1>t DEF HeldInv, ReadyWhenFresh
  <2> QED  BY <2>1, <2>2
<1> QED  BY <1>6, <1>7 DEF HeldInv

LEMMA PollHeld ==
    ASSUME TypeOK, HeldInv, [Next]_vars, NEW n \in Nodes,
           \/ Renews(n) \/ HasNoNominator(n) \/ Holds(n) \/ QuerySucceeds(n)
           \/ RenewsQueried(n) \/ QueryRefused(n) \/ QueryFails(n) \/ PollFails(n)
           \/ AnswerLost(n) \/ RenewalFails(n) \/ Restarts(n)
    PROVE  HeldInv'
<1>0. PollTyped'
  BY PollKeepsTypes DEF HeldInv
<1>t. /\ stakeCert \in [Nodes -> Certificate \cup {NoCert}]
      /\ isReadyToJoin \in [Nodes -> BOOLEAN]
      /\ polled \in [Nodes -> Nat]
  BY DEF HeldInv, PollTyped
<1>1. CASE QuerySucceeds(n) /\ ~ UNCHANGED stakeCert
  BY <1>0, <1>1, QueriedHeld DEF QuerySucceeds
<1>2. CASE Holds(n)
  BY <1>0, <1>2, <1>t, KeptHeld DEF Holds, MustRenew, Polls
<1>3. CASE EndsRenewing(n)
  BY <1>0, <1>3, <1>t, KeptHeld DEF EndsRenewing, HeldInv, ReadyWhenFresh
<1>4. CASE /\ stakeCert' \in {stakeCert, [stakeCert EXCEPT ![n] = NoCert]}
           /\ isReadyToJoin' = [isReadyToJoin EXCEPT ![n] = FALSE]
           /\ polled' \in {polled, [polled EXCEPT ![n] = now]}
  BY <1>0, <1>4, <1>t, KeptHeld
<1>5. CASE QuerySucceeds(n) /\ UNCHANGED stakeCert
  <2>1. CASE Polls(n, FALSE)
    BY <1>4, <1>5, <2>1 DEF Polls
  <2>2. CASE ~ Polls(n, FALSE)
    BY <1>0, <1>5, <2>2, QueriedHeld DEF QuerySucceeds
  <2> QED  BY <2>1, <2>2
<1>6. CASE \/ Renews(n) \/ HasNoNominator(n) \/ QueryRefused(n) \/ QueryFails(n)
           \/ PollFails(n) \/ Restarts(n)
  BY <1>4, <1>6 DEF Renews, HasNoNominator, QueryRefused, QueryFails, PollFails,
                    Restarts, Polls
<1>7. CASE RenewsQueried(n) \/ RenewalFails(n)
  BY <1>3, <1>7 DEF RenewsQueried, RenewalFails
<1>8. CASE AnswerLost(n)
  BY <1>3, <1>4, <1>8 DEF AnswerLost, Polls
<1> QED  BY <1>1, <1>2, <1>5, <1>6, <1>7, <1>8

LEMMA NextHeld == ASSUME TypeOK, HeldInv, [JoinNext]_joinVars PROVE HeldInv'
<1>0. [Next]_vars
  BY StepOfStaking
<1>1. CASE UNCHANGED pollVars
  BY <1>0, <1>1, SameHeld
<1>2. CASE Poll
  BY <1>0, <1>2, PollHeld DEF Poll
<1>3. CASE JoinFault
  BY <1>0, <1>1, <1>3, PollHeld DEF JoinFault, LosesTx
<1>4. CASE StakingStep
  BY <1>1, <1>4 DEF StakingStep, JoinRequest, Selected, LeavesNetwork, Stakes, Withdraws,
                    SetsCertTime, Penalised, Rejected
<1>5. CASE JoinTick
  BY <1>1, <1>5 DEF JoinTick
<1>6. CASE UNCHANGED joinVars
  BY <1>1, <1>6 DEF joinVars
<1> QED  BY <1>2, <1>3, <1>4, <1>5, <1>6 DEF JoinNext

LEMMA HeldAlways == JoinSpec => []HeldInv
<1>1. JoinInit => HeldInv
  BY InitHeld
<1>2. TypeOK /\ HeldInv /\ [JoinNext]_joinVars => HeldInv'
  BY NextHeld
<1> QED  BY <1>1, <1>2, JoinImplementsStaking, StakingTyped, PTL DEF JoinSpec

\* A certificate comes into a node's memory by a query only.
LEMMA CertComes ==
    ASSUME PollTyped, NEW n \in Nodes, [JoinNext]_joinVars
    PROVE  \/ stakeCert'[n] \in {stakeCert[n], NoCert}
           \/ /\ QuerySucceeds(n)
              /\ stakeCert[n] = NoCert
              /\ stakeCert'[n] = [nominator |-> nominator[n], nominee |-> n,
                                  stake |-> stake[nominator[n]],
                                  certExp |-> certExp[nominator[n]]]
<1>1. CASE UNCHANGED stakeCert
  BY <1>1
<1>2. CASE Poll
  <2>1. PICK m \in Nodes :
          \/ Renews(m) \/ HasNoNominator(m) \/ Holds(m) \/ QuerySucceeds(m)
          \/ RenewsQueried(m) \/ QueryRefused(m)
    BY <1>2 DEF Poll
  <2>2. CASE QuerySucceeds(m)
    BY <2>2 DEF QuerySucceeds, Queries, PollTyped
  <2>3. CASE ~ QuerySucceeds(m)
    BY <2>1, <2>3 DEF Renews, HasNoNominator, Holds, RenewsQueried, EndsRenewing,
                      QueryRefused, PollTyped
  <2> QED  BY <2>2, <2>3
<1>3. CASE JoinFault
  BY <1>3 DEF JoinFault, QueryFails, PollFails, AnswerLost, RenewalFails, EndsRenewing,
              Restarts, LosesTx, pollVars, PollTyped
<1>4. CASE StakingStep
  BY <1>1, <1>4 DEF StakingStep, JoinRequest, Selected, LeavesNetwork, Stakes, Withdraws,
                    SetsCertTime, Penalised, Rejected, pollVars
<1>5. CASE JoinTick \/ UNCHANGED joinVars
  BY <1>1, <1>5 DEF JoinTick, joinVars, pollVars
<1> QED  BY <1>2, <1>3, <1>4, <1>5 DEF JoinNext

LEMMA CountsTyped ==
    ASSUME TypeOK, CountTyped, [JoinNext]_joinVars PROVE CountTyped'
<1>t. now \in Nat /\ MaxFaults \in Nat /\ pending \subseteq Injected
  BY JoinAssumption DEF TypeOK
<1>i. \A tx \in Injected : tx.nominee \in Nodes
  BY DEF Injected
<1>1. CASE UNCHANGED countVars
  BY <1>1 DEF CountTyped, countVars
<1>2. CASE \E n \in Nodes : IsFault(n)
  BY <1>2, <1>t DEF CountTyped, IsFault, Disturbs
<1>3. CASE \E n \in Nodes : Disturbs(n) /\ UNCHANGED faults
  BY <1>3, <1>t DEF CountTyped, Disturbs
<1>4. CASE Poll
  BY <1>1, <1>4 DEF Poll, Renews, HasNoNominator, Holds, QuerySucceeds, RenewsQueried,
                    QueryRefused
<1>5. CASE JoinFault
  <2>1. CASE LosesTx
    BY <1>2, <2>1, <1>t, <1>i DEF LosesTx
  <2>2. CASE ~ LosesTx
    BY <1>1, <1>2, <1>5, <2>2
       DEF JoinFault, QueryFails, PollFails, AnswerLost, RenewalFails, Restarts
  <2> QED  BY <2>1, <2>2
<1>6. CASE StakingStep
  <2>1. CASE \E n \in Nodes : JoinRequest(n) \/ Selected(n) \/ LeavesNetwork(n)
    BY <1>1, <1>3, <2>1 DEF JoinRequest, Selected, LeavesNetwork
  <2>2. CASE \E u \in Users, n \in Nodes :
               \/ \E amount \in Deposits : Stakes(u, n, amount)
               \/ \E force \in BOOLEAN : Withdraws(u, n, force)
    BY <1>3, <1>t, <2>2 DEF Stakes, Withdraws, CountTyped
  <2>3. CASE \E tx \in pending : SetsCertTime(tx) \/ Penalised(tx) \/ Rejected(tx)
    BY <1>1, <1>3, <1>t, <1>i, <2>3 DEF SetsCertTime, Penalised, Rejected, CountTyped
  <2> QED  BY <1>6, <2>1, <2>2, <2>3 DEF StakingStep
<1>7. CASE JoinTick
  BY <1>1, <1>7 DEF JoinTick
<1>8. CASE UNCHANGED joinVars
  BY <1>1, <1>8 DEF joinVars
<1> QED  BY <1>4, <1>5, <1>6, <1>7, <1>8 DEF JoinNext

\* The penalties that a certificate is compared with are those of its nominator.
LEMMA PenaltySeen ==
    ASSUME TypeOK, HeldInv, signedPenalty \in [Nodes -> Nat], [JoinNext]_joinVars
    PROVE  signedPenalty' \in [Nodes -> Nat]
<1>t. /\ totalNodePenalty \in [Users -> Nat]
      /\ nominator \in [Nodes -> Users \cup {None}]
  BY DEF TypeOK
<1>1. CASE SeesPenalty
  <2>1. ASSUME NEW n \in Nodes, stakeCert'[n] # NoCert, stakeCert[n] = NoCert
        PROVE  totalNodePenalty[nominator[n]] \in Nat
    <3>1. SignCertificate(n)
      BY <2>1, CertComes DEF HeldInv, QuerySucceeds
    <3> QED  BY <3>1, <1>t DEF SignCertificate
  <2> QED  BY <1>1, <2>1 DEF SeesPenalty
<1>2. CASE UNCHANGED joinVars
  BY <1>2 DEF joinVars
<1> QED  BY <1>1, <1>2 DEF JoinNext

\* The state keeps its types: a node remembers the cycle of its last renewal and
\* one certificate that has the form of a signed one, or none (index.ts).
THEOREM JoinTyped == JoinSpec => []JoinTypeOK
<1> DEFINE PenaltyTyped == signedPenalty \in [Nodes -> Nat]
<1>1. JoinInit => CountTyped /\ PenaltyTyped
  BY InitHeld DEF JoinInit
<1>2. /\ TypeOK /\ HeldInv /\ CountTyped /\ PenaltyTyped /\ [JoinNext]_joinVars
      => CountTyped' /\ PenaltyTyped'
  BY CountsTyped, PenaltySeen
<1>3. TypeOK /\ HeldInv /\ CountTyped /\ PenaltyTyped => JoinTypeOK
  BY DEF HeldInv, PollTyped, CountTyped, JoinTypeOK
<1> HIDE DEF PenaltyTyped
<1> QED
  BY <1>1, <1>2, <1>3, HeldAlways, JoinImplementsStaking, StakingTyped, PTL DEF JoinSpec

\* A node that says it is ready joins with the certificate it holds, in this cycle
\* or the next, for every life of certificates of which 30% is more than the two
\* cycles that validateJoinRequest asks for (index.ts).
THEOREM JoinReady == JoinSpec => []ReadyMayJoin
<1>1. ASSUME TypeOK, HeldInv PROVE ReadyMayJoin
  <2> SUFFICES ASSUME NEW n \in Nodes, JustReady(n)
               PROVE  JoinIsValid(n, stakeCert[n])
    BY DEF ReadyMayJoin
  <2> DEFINE c == stakeCert[n]
  <2>1. /\ now \in Nat /\ polled[n] \in Nat /\ CertLife \in Nat /\ JoinMargin \in Nat
        /\ isReadyToJoin[n] /\ now <= polled[n] + 1
    BY <1>1, StakingAssumption DEF TypeOK, HeldInv, PollTyped, JustReady
  <2>2. c # NoCert /\ 10 * (polled[n] - (c.certExp - CertLife)) < 7 * CertLife
    BY <1>1, <2>1 DEF HeldInv, ReadyWhenFresh
  <2>3. c \in Certificate /\ c.nominee = n /\ c.stake >= MinStake
    BY <1>1, <2>2 DEF HeldInv, PollTyped, HeldIsSigned
  <2>4. c.certExp \in Nat
    BY <2>3 DEF Certificate
  <2> HIDE DEF c
  <2>5. now + JoinMargin <= c.certExp
    BY <2>1, <2>2, <2>4, JoinAssumption
  <2> QED  BY <2>3, <2>5 DEF JoinIsValid, c
<1> QED  BY <1>1, HeldAlways, JoinImplementsStaking, StakingTyped, PTL

-----------------------------------------------------------------------------
(* What the certificate in a node's memory is worth.                       *)

\* While a certificate lives, what its nominator has locked on the node and what he
\* was punished with add up to the same, unless he makes a deposit.
LEMMA LockedIsKept ==
    ASSUME PairedInv, LiveCertificateIsBacked, [Next]_vars,
           NEW c \in certs \ undercut, c.certExp > now, c \notin undercut'
    PROVE  /\ nominator[c.nominee] = c.nominator /\ nominee[c.nominator] = c.nominee
           /\ stakeLock'[c.nominee] + totalNodePenalty'[c.nominator]
              = stakeLock[c.nominee] + totalNodePenalty[c.nominator]
<1> DEFINE n == c.nominee
           u == c.nominator
<1>t. /\ now \in Nat /\ certs \subseteq Certificate /\ pending \subseteq Injected
      /\ certExp \in [Users -> Nat]
      /\ stakeLock \in [Nodes -> Nat] /\ totalNodePenalty \in [Users -> Nat]
      /\ None \notin Users \cup Nodes
      /\ \A v \in Users, m \in Nodes : nominee[v] = m <=> nominator[m] = v
  BY StakingAssumption DEF PairedInv, TypeOK, StakeIsPaired
<1>1. n \in Nodes /\ u \in Users /\ c.certExp \in Nat
  BY <1>t DEF Certificate
<1>2. nominator[n] = u /\ nominee[u] = n /\ certExp[u] >= c.certExp
  BY DEF LiveCertificateIsBacked
<1> HIDE DEF n, u
<1>3. CASE stakeLock' = stakeLock /\ totalNodePenalty' = totalNodePenalty
  BY <1>2, <1>3 DEF n, u
<1>4. ASSUME NEW v \in Users, NEW m \in Nodes, NEW amount \in Deposits,
             DepositStakeTx(v, m, amount)
      PROVE  stakeLock'[n] = stakeLock[n] /\ totalNodePenalty' = totalNodePenalty
  <2>1. v # u
    BY <1>4 DEF DepositStakeTx, u
  <2>2. m # n
    BY <1>1, <1>2, <1>4, <1>t, <2>1 DEF DepositStakeTx, DepositIsValid, MayPair
  <2> QED  BY <1>4, <1>t, <2>2 DEF DepositStakeTx
<1>5. ASSUME NEW v \in Users, NEW m \in Nodes, NEW force \in BOOLEAN,
             WithdrawStakeTx(v, m, force)
      PROVE  stakeLock'[n] = stakeLock[n] /\ totalNodePenalty' = totalNodePenalty
  <2>1. nominator[m] = v /\ certExp[v] <= now
    BY <1>5 DEF WithdrawStakeTx, WithdrawIsValid, CertificateIsOver
  <2>2. m # n
    BY <1>1, <1>2, <1>t, <2>1
  <2> QED  BY <1>5, <1>t, <2>2 DEF WithdrawStakeTx
<1>6. ASSUME NEW tx \in pending, ApplyPenaltyTx(tx)
      PROVE  stakeLock'[n] + totalNodePenalty'[u] = stakeLock[n] + totalNodePenalty[u]
  <2> DEFINE amount == Penalty(stakeLock[tx.nominee])
  <2>1. tx.nominee \in Nodes /\ tx.nominator \in Users
    BY <1>6, <1>t DEF ApplyPenaltyTx, Executes, Injected
  <2>2. amount \in Int
    BY <1>t, <2>1, PenaltyBounded
  <2>3. /\ nominator[tx.nominee] = tx.nominator
        /\ stakeLock' = [stakeLock EXCEPT ![tx.nominee] = @ - amount]
        /\ totalNodePenalty' = [totalNodePenalty EXCEPT ![tx.nominator] = @ + amount]
    BY <1>6 DEF ApplyPenaltyTx, PenaltyIsValid, RecordsPenalty
  <2> HIDE DEF amount
  <2>4. CASE tx.nominee = n
    <3>1. tx.nominator = u
      BY <1>2, <2>3, <2>4
    <3>2. /\ stakeLock'[n] = stakeLock[n] - amount
          /\ totalNodePenalty'[u] = totalNodePenalty[u] + amount
      BY <1>1, <1>t, <2>3, <2>4, <3>1
    <3>3. stakeLock[n] \in Nat /\ totalNodePenalty[u] \in Nat
      BY <1>1, <1>t
    <3> QED  BY <2>2, <3>2, <3>3
  <2>5. CASE tx.nominee # n
    <3>1. tx.nominator # u
      BY <1>1, <1>2, <1>t, <2>1, <2>3, <2>5
    <3> QED  BY <1>1, <1>t, <2>3, <2>5, <3>1
  <2> QED  BY <2>4, <2>5
<1>7. CASE UserTx
  BY <1>2, <1>4, <1>5, <1>7 DEF UserTx, n, u
<1>8. CASE ExecuteTx
  <2>1. CASE \E tx \in pending : ApplyPenaltyTx(tx)
    BY <1>2, <1>6, <2>1 DEF n, u
  <2>2. CASE ~ \E tx \in pending : ApplyPenaltyTx(tx)
    BY <1>3, <1>8, <2>2 DEF ExecuteTx, SetCertTimeTx, InitRewardTx, ClaimRewardTx, Refused,
                            userVars, nodeVars, lockVars
  <2> QED  BY <2>1, <2>2
<1>9. CASE NodeStep
  BY <1>3, <1>9 DEF NodeStep, Verified, SignCertificate, Join, Select, LeaveStandby,
                    SyncTimeout, Activate, Refute, Leave, Moves, userVars, nodeVars, lockVars
<1>10. CASE InjectTx \/ NetworkStops \/ LoseTx \/ Tick \/ UNCHANGED vars
  BY <1>3, <1>10 DEF InjectTx, InjectSetCertTime, InjectInitReward, InjectClaimReward, Inject,
                     NetworkStops, Shutdown, LoseTx, Lost, Tick, vars,
                     userVars, nodeVars, lockVars
<1> QED  BY <1>7, <1>8, <1>9, <1>10 DEF Next

\* A certificate that its nominator undercut stays so as long as it lives.
LEMMA UndercutKept ==
    ASSUME TypeOK, [Next]_vars, NEW c \in undercut, c.certExp > now'
    PROVE  c \in undercut'
<1>t. c \in certs /\ c.certExp > now
  <2>1. now \in Nat /\ now' \in Nat /\ now' >= now /\ c \in certs /\ c.certExp \in Nat
    BY CertsKept DEF TypeOK, Certificate
  <2> QED  BY <2>1
<1>1. CASE Tick
  <2>1. c \in certs'
    BY <1>t, CertsKept
  <2> QED  BY <1>1, <2>1 DEF Tick
<1>2. CASE ~ Tick
  BY <1>2 DEF Next, UserTx, DepositStakeTx, WithdrawStakeTx, InjectTx, InjectSetCertTime,
              InjectInitReward, InjectClaimReward, Inject, ExecuteTx, SetCertTimeTx,
              InitRewardTx, ClaimRewardTx, ApplyPenaltyTx, Refused, Executes, NodeStep,
              Verified, SignCertificate, Join, Select, LeaveStandby, SyncTimeout, Activate,
              Refute, Leave, Moves, NetworkStops, Shutdown, LoseTx, Lost, certVars, vars
<1> QED  BY <1>1, <1>2

LEMMA NextAccounted ==
    ASSUME PairedInv, LiveCertificateIsBacked, LiveCertificateIsBacked', JoinTypeOK,
           JoinTypeOK', HeldInv, HeldInv', HeldStakeIsAccounted, [JoinNext]_joinVars
    PROVE  HeldStakeIsAccounted'
<1> SUFFICES ASSUME NEW n \in Nodes, stakeCert'[n] # NoCert,
                    stakeCert'[n] \notin undercut', stakeCert'[n].certExp > now'
             PROVE  LET c == stakeCert'[n]
                        u == c.nominator
                    IN  /\ nominator'[n] = u /\ nominee'[u] = n
                        /\ stakeLock'[n] + (totalNodePenalty'[u] - signedPenalty'[n]) = c.stake
  BY DEF HeldStakeIsAccounted
<1> DEFINE c == stakeCert'[n]
           u == c.nominator
<1>0. [Next]_vars
  BY StepOfStaking
<1>t. /\ stakeLock[n] \in Nat /\ stakeLock'[n] \in Nat
      /\ signedPenalty[n] \in Nat /\ signedPenalty'[n] \in Nat
      /\ totalNodePenalty \in [Users -> Nat] /\ totalNodePenalty' \in [Users -> Nat]
      /\ c \in Certificate
  BY DEF JoinTypeOK, TypeOK
<1>c. u \in Users /\ c.certExp \in Nat /\ c.stake \in Nat
  BY <1>t DEF Certificate
<1>1. nominator'[n] = u /\ nominee'[u] = n
  BY DEF HeldInv, HeldIsSigned, LiveCertificateIsBacked
<1>2. CASE stakeCert[n] = c
  <2>1. signedPenalty'[n] = signedPenalty[n]
    BY <1>2 DEF JoinNext, SeesPenalty, joinVars
  <2>2. c.certExp > now
    <3>1. now \in Nat /\ now' \in Nat /\ now' >= now
      BY <1>0, CertsKept DEF JoinTypeOK, TypeOK
    <3> QED  BY <1>c, <3>1
  <2>3. c \in certs /\ c.nominee = n
    BY <1>2, <2>2 DEF HeldInv, HeldIsSigned
  <2>4. c \notin undercut
    BY <1>0, UndercutKept DEF JoinTypeOK
  <2>5. stakeLock[n] + (totalNodePenalty[u] - signedPenalty[n]) = c.stake
    BY <1>2, <2>2, <2>4 DEF HeldStakeIsAccounted
  <2>6. stakeLock'[n] + totalNodePenalty'[u] = stakeLock[n] + totalNodePenalty[u]
    BY <1>0, <2>2, <2>3, <2>4, LockedIsKept
  <2> HIDE DEF c, u
  <2>7. totalNodePenalty[u] \in Nat /\ totalNodePenalty'[u] \in Nat
    BY <1>c, <1>t
  <2>8. stakeLock'[n] + (totalNodePenalty'[u] - signedPenalty'[n]) = c.stake
    BY <1>t, <2>1, <2>5, <2>6, <2>7
  <2> QED  BY <1>1, <2>8 DEF c, u
<1>3. CASE stakeCert[n] # c
  <2>1. /\ QuerySucceeds(n)
        /\ stakeCert[n] = NoCert
        /\ c.nominator = nominator[n] /\ c.stake = stake[nominator[n]]
    <3>1. /\ QuerySucceeds(n)
          /\ stakeCert[n] = NoCert
          /\ c = [nominator |-> nominator[n], nominee |-> n, stake |-> stake[nominator[n]],
                  certExp |-> certExp[nominator[n]]]
      BY <1>3, CertComes DEF HeldInv
    <3> HIDE DEF c
    <3> QED  BY <3>1
  <2>2. /\ UNCHANGED <<stakeLock, totalNodePenalty>>
        /\ nominee[u] = n
    BY <2>1 DEF QuerySucceeds, SignCertificate, userVars, nodeVars, lockVars
  <2>3. signedPenalty'[n] = totalNodePenalty[u]
    <3>1. SeesPenalty
      BY <1>3 DEF JoinNext, joinVars, pollVars
    <3> QED  BY <2>1, <3>1 DEF SeesPenalty
  <2>4. c.stake = stakeLock[n]
    BY <1>c, <2>1, <2>2, StakingAssumption DEF PairedInv, StakeIsPaired
  <2> HIDE DEF c, u
  <2>5. stakeLock'[n] + (totalNodePenalty'[u] - signedPenalty'[n]) = c.stake
    BY <1>c, <1>t, <2>2, <2>3, <2>4
  <2> QED  BY <1>1, <2>5 DEF c, u
<1> QED  BY <1>2, <1>3

\* What a node holds in its memory (index.ts) names a stake that, until the certificate
\* expires, is locked on the node but for what apply_penalty.ts took of it since it was
\* queried, for every size of penalties, deposits and stakes, and although nobody
\* tells the node of penalties.
THEOREM JoinHeldAccounted == JoinSpec => []HeldStakeIsAccounted
<1>1. JoinInit => HeldStakeIsAccounted
  BY DEF JoinInit, HeldStakeIsAccounted
<1>2. /\ PairedInv /\ LiveCertificateIsBacked /\ LiveCertificateIsBacked'
      /\ JoinTypeOK /\ JoinTypeOK' /\ HeldInv /\ HeldInv'
      /\ HeldStakeIsAccounted /\ [JoinNext]_joinVars
      => HeldStakeIsAccounted'
  BY NextAccounted
<1> QED  BY <1>1, <1>2, HeldAlways, JoinTyped, JoinImplementsStaking, PairedAlways,
            StakingBacked, PTL DEF JoinSpec

-----------------------------------------------------------------------------
(* Renewals.  What a node remembers of its renewals and what is under way  *)
(* of them fit together; for that every step is seen from one node.        *)

\* The renewals of the node that are injected and not yet executed.
RenewalsOf(n) == {tx \in pending : tx.type = "set_cert_time" /\ tx.nominee = n}

RenewalFor(n, u) == [type |-> "set_cert_time", nominee |-> n, nominator |-> u]

\* Less than half of the time of the certificate is over: a renewal is charged.
Fresh(u) == certExp[u] > 0 /\ 2 * (now - (certExp[u] - CertLife)) < CertLife

\* The node's memory agrees with its last poll.  It has no certificate in the cycle of a
\* renewal that it knows of, and in no cycle more than one renewal is under way.
MemoryOf(n) ==
    /\ lastCertTimeTx[n] <= polled[n]
    /\ polled[n] <= now
    /\ lastCertTimeTx[n] \in {0, now} => stakeCert[n] = NoCert
    /\ renewing[n] => /\ lastCertTimeTx[n] # 0 /\ lastCertTimeTx[n] < now
                      /\ polled[n] = now
                      /\ stakeCert[n] = NoCert /\ ~ isReadyToJoin[n] /\ status[n] = "out"
    /\ \A tx \in RenewalsOf(n) : /\ RenewalsOf(n) = {tx}
                                 /\ polled[n] = now /\ ~ renewing[n]

\* A certificate that is renewed as soon as it was queried is an old one, unless a
\* renewal that another node injected for the nominator came in between.
DueOf(n) ==
    renewing[n] /\ nominator[n] # None /\ Fresh(nominator[n]) =>
      certExp[nominator[n]] = now + CertLife

\* A renewal that comes when its nominator has left the node comes in the cycle of
\* his withdrawal: his certificate has no expiry, or a new one.
LateRenewals ==
    \A tx \in pending :
        tx.type = "set_cert_time" /\ nominator[tx.nominee] # tx.nominator =>
          certExp[tx.nominator] \in {0, now + CertLife}

MemoryInv == LateRenewals /\ \A n \in Nodes : MemoryOf(n) /\ DueOf(n)

\* The node's process does not take part in the step.
SameMemory(n) ==
    /\ lastCertTimeTx'[n] = lastCertTimeTx[n]
    /\ stakeCert'[n] = stakeCert[n]
    /\ isReadyToJoin'[n] = isReadyToJoin[n]
    /\ polled'[n] = polled[n]
    /\ renewing'[n] = renewing[n]

SameCounts(n) ==
    /\ faults'[n] = faults[n]
    /\ deposits'[n] = deposits[n]
    /\ charges'[n] = charges[n]
    /\ disturbed'[n] = disturbed[n]

Enough(n) == nominator[n] # None /\ stake[nominator[n]] >= MinStake

StakeIsSame(n) ==
    /\ nominator'[n] = nominator[n]
    /\ nominator[n] # None => stake'[nominator[n]] = stake[nominator[n]]

ExpiryIsSame(n) == nominator[n] # None => certExp'[nominator[n]] = certExp[nominator[n]]

\* A renewal of the node's nominator by another node comes late.
ExpiryIsNew(n) ==
    /\ nominator[n] # None
    /\ certExp[nominator[n]] \in {0, now + CertLife}
    /\ certExp'[nominator[n]] = now + CertLife

\* The step is about others, or it ends a renewal that has no effect here.
Aside(n) ==
    /\ now' = now
    /\ SameMemory(n) /\ SameCounts(n) /\ StakeIsSame(n)
    /\ ExpiryIsSame(n) \/ ExpiryIsNew(n)
    /\ RenewalsOf(n)' \subseteq RenewalsOf(n)
    /\ Enough(n) /\ RenewalFor(n, nominator[n]) \in RenewalsOf(n) =>
         RenewalFor(n, nominator[n]) \in RenewalsOf(n)'
    /\ status'[n] = "out" => status[n] = "out"
    /\ renewing[n] => status'[n] = "out"

\* The node is staked on.
Deposited(n) ==
    /\ now' = now /\ status'[n] = status[n]
    /\ SameMemory(n)
    /\ RenewalsOf(n)' = RenewalsOf(n)
    /\ nominator'[n] \in Users
    /\ certExp'[nominator'[n]] = 0
    /\ charges'[n] = charges[n] /\ faults'[n] = faults[n]
    /\ deposits'[n] = deposits[n] + 1
    /\ disturbed'[n] = now

\* The node loses stake, its nominator, a transaction or its place in the network.
Weakened(n) ==
    /\ now' = now
    /\ SameMemory(n)
    /\ RenewalsOf(n)' \subseteq RenewalsOf(n)
    /\ \/ nominator'[n] = None
       \/ /\ nominator'[n] = nominator[n]
          /\ ExpiryIsSame(n)
          /\ nominator[n] # None => stake'[nominator[n]] <= stake[nominator[n]]
    /\ renewing[n] => status'[n] = "out"
    /\ charges'[n] = charges[n] /\ deposits'[n] = deposits[n]
    /\ faults'[n] >= faults[n]
    /\ disturbed'[n] = now

\* The node's own renewal is executed.
Renewed(n) ==
    LET u == nominator[n]
    IN  /\ now' = now /\ status'[n] = status[n]
        /\ SameMemory(n) /\ StakeIsSame(n)
        /\ Enough(n)
        /\ RenewalFor(n, u) \in RenewalsOf(n)
        /\ RenewalsOf(n)' = RenewalsOf(n) \ {RenewalFor(n, u)}
        /\ certExp'[u] = now + CertLife
        /\ \/ charges'[n] = charges[n]
           \/ charges'[n] = charges[n] + 1 /\ CertFee(u) # 0
        /\ faults'[n] = faults[n] /\ deposits'[n] = deposits[n]
        /\ disturbed'[n] = disturbed[n]

\* A step of the node's own process.
OwnPoll(n) ==
    \/ Renews(n) \/ HasNoNominator(n) \/ Holds(n) \/ QuerySucceeds(n) \/ RenewsQueried(n)
    \/ QueryRefused(n) \/ QueryFails(n) \/ PollFails(n) \/ AnswerLost(n)
    \/ RenewalFails(n) \/ Restarts(n)

-----------------------------------------------------------------------------
LEMMA RenewalsShrink ==
    ASSUME NEW n \in Nodes, pending' \subseteq pending
    PROVE  RenewalsOf(n)' \subseteq RenewalsOf(n)
  BY DEF RenewalsOf

\* What a poll of another node does to this one: nothing.
LEMMA PollAside ==
    ASSUME TypeOK, JoinTypeOK, NEW n \in Nodes, NEW m \in Nodes, m # n, OwnPoll(m),
           MemoryOf(n)
    PROVE  Aside(n)
<1>t. /\ lastCertTimeTx \in [Nodes -> Nat]
      /\ stakeCert \in [Nodes -> Certificate \cup {NoCert}]
      /\ isReadyToJoin \in [Nodes -> BOOLEAN]
      /\ polled \in [Nodes -> Nat]
      /\ renewing \in [Nodes -> BOOLEAN]
      /\ faults \in [Nodes -> 0 .. MaxFaults]
      /\ disturbed \in [Nodes -> Nat]
  BY DEF JoinTypeOK
<1>1. SameMemory(n)
  BY <1>t DEF SameMemory, OwnPoll, Renews, HasNoNominator, Holds, QuerySucceeds,
         RenewsQueried, QueryRefused, QueryFails, PollFails, AnswerLost, RenewalFails, Restarts,
         Polls, EndsRenewing, InjectAgainLater
<1>2. SameCounts(n)
  <2>1. UNCHANGED countVars \/ IsFault(m)
    BY DEF OwnPoll, Renews, HasNoNominator, Holds, QuerySucceeds,
           RenewsQueried, QueryRefused, QueryFails, PollFails, AnswerLost, RenewalFails, Restarts
  <2> QED  BY <2>1, <1>t DEF SameCounts, countVars, IsFault, Disturbs
<1>3. /\ now' = now
      /\ nominator' = nominator /\ stake' = stake /\ certExp' = certExp
      /\ status' = status
      /\ \/ pending' = pending
         \/ pending' = pending \cup {RenewalFor(m, nominator[m])}
  BY DEF OwnPoll, Renews, HasNoNominator, Holds, QuerySucceeds, SignCertificate,
         RenewsQueried, QueryRefused, QueryFails, PollFails, AnswerLost, RenewalFails, Restarts,
         InjectSetCertTime, Inject, Adds, RenewalFor, vars, userVars, nodeVars, lockVars, netVars
<1>4. RenewalsOf(n)' = RenewalsOf(n)
  <2>1. CASE pending' = pending
    BY <2>1 DEF RenewalsOf
  <2>2. CASE pending' = pending \cup {RenewalFor(m, nominator[m])}
    <3> DEFINE txs == {RenewalFor(m, nominator[m])}
    <3>1. \A tx \in txs : tx.type # "set_cert_time" \/ tx.nominee # n
      BY DEF RenewalFor
    <3>2. pending' = pending \cup txs
      BY <2>2
    <3> HIDE DEF txs
    <3> QED  BY <3>1, <3>2 DEF RenewalsOf
  <2> QED  BY <1>3, <2>1, <2>2
<1>5. renewing[n] => status'[n] = "out"
  BY <1>3 DEF MemoryOf
<1> QED  BY <1>1, <1>2, <1>3, <1>4, <1>5 DEF Aside, StakeIsSame, ExpiryIsSame

LEMMA SeenTypes ==
    ASSUME PairedInv, JoinTypeOK
    PROVE  /\ now \in Nat
           /\ nominee \in [Users -> Nodes \cup {None}]
           /\ nominator \in [Nodes -> Users \cup {None}]
           /\ stake \in [Users -> Nat] /\ certExp \in [Users -> Nat]
           /\ stakeLock \in [Nodes -> Nat]
           /\ status \in [Nodes -> {"out", "standby", "syncing", "active"}]
           /\ pending \subseteq Injected
           /\ None \notin Users \cup Nodes
           /\ CertLife \in Nat \ {0} /\ MinStake \in Nat \ {0}
           /\ lastCertTimeTx \in [Nodes -> Nat]
           /\ stakeCert \in [Nodes -> Certificate \cup {NoCert}]
           /\ isReadyToJoin \in [Nodes -> BOOLEAN]
           /\ polled \in [Nodes -> Nat]
           /\ renewing \in [Nodes -> BOOLEAN]
           /\ faults \in [Nodes -> 0 .. MaxFaults]
           /\ deposits \in [Nodes -> Nat]
           /\ charges \in [Nodes -> Nat]
           /\ disturbed \in [Nodes -> Nat]
           /\ \A u \in Users, n \in Nodes : nominee[u] = n <=> nominator[n] = u
  BY StakingAssumption DEF PairedInv, TypeOK, JoinTypeOK, StakeIsPaired

LEMMA TxNames ==
    ASSUME NEW tx \in Injected
    PROVE  /\ tx.nominee \in Nodes
           /\ tx.type # "init_reward" => tx.nominator \in Users
           /\ tx.type = "set_cert_time" => tx = RenewalFor(tx.nominee, tx.nominator)
  BY DEF Injected, RenewalFor

\* A node that joins, is selected or leaves.
LEMMA NodeSeen ==
    ASSUME PairedInv, JoinTypeOK, NEW n \in Nodes, NEW m \in Nodes, MemoryOf(n),
           JoinRequest(m) \/ Selected(m) \/ LeavesNetwork(m)
    PROVE  Aside(n) \/ Weakened(n)
<1>t. /\ status \in [Nodes -> {"out", "standby", "syncing", "active"}]
      /\ renewing \in [Nodes -> BOOLEAN]
      /\ faults \in [Nodes -> 0 .. MaxFaults]
      /\ disturbed \in [Nodes -> Nat]
      /\ stake \in [Users -> Nat]
      /\ nominator \in [Nodes -> Users \cup {None}]
  BY SeenTypes
<1>1. /\ now' = now /\ nominator' = nominator /\ stake' = stake /\ certExp' = certExp
      /\ UNCHANGED pollVars
  BY DEF JoinRequest, Selected, LeavesNetwork, Join, Select, LeaveStandby, SyncTimeout,
         Moves, userVars, nodeVars, lockVars
<1>2. SameMemory(n)
  BY <1>1 DEF pollVars, SameMemory
<1>3. RenewalsOf(n)' = RenewalsOf(n)
  <2>1. CASE pending' = pending
    BY <2>1 DEF RenewalsOf
  <2>2. CASE pending' = pending \cup PenaltyFor(m, "SyncingTooLong")
    <3>1. \A tx \in PenaltyFor(m, "SyncingTooLong") : tx.type # "set_cert_time"
      BY DEF PenaltyFor
    <3> QED  BY <2>2, <3>1 DEF RenewalsOf
  <2> QED  BY <2>1, <2>2 DEF JoinRequest, Selected, LeavesNetwork, Join, Select,
                             LeaveStandby, SyncTimeout, Adds
<1>4. CASE LeavesNetwork(m)
  <2>1. /\ status' = [status EXCEPT ![m] = "out"]
        /\ disturbed' = [disturbed EXCEPT ![m] = now]
        /\ UNCHANGED <<deposits, charges, faults>>
    BY <1>4 DEF LeavesNetwork, LeaveStandby, SyncTimeout, Moves, Disturbs
  <2>2. CASE m = n
    BY <1>1, <1>2, <1>3, <1>t, <2>1, <2>2 DEF Weakened, ExpiryIsSame
  <2>3. CASE m # n
    BY <1>1, <1>2, <1>3, <1>t, <2>1, <2>3
       DEF Aside, SameCounts, StakeIsSame, ExpiryIsSame, MemoryOf
  <2> QED  BY <2>2, <2>3
<1>5. CASE JoinRequest(m) \/ Selected(m)
  <2>1. /\ status' \in {[status EXCEPT ![m] = "standby"], [status EXCEPT ![m] = "syncing"]}
        /\ UNCHANGED countVars
    BY <1>5 DEF JoinRequest, Selected, Join, Select, Moves
  <2>2. m = n => ~ renewing[n]
    BY <1>5 DEF JoinRequest, Selected, Select, Moves, JustReady, MemoryOf
  <2>3. /\ status'[n] = "out" => status[n] = "out"
        /\ renewing[n] => status'[n] = "out"
    BY <1>t, <2>1, <2>2 DEF MemoryOf
  <2> QED  BY <1>1, <1>2, <1>3, <2>1, <2>3
              DEF Aside, SameCounts, StakeIsSame, ExpiryIsSame, countVars
<1> QED  BY <1>4, <1>5

\* A nominator who stakes or unstakes, on this node or another.
LEMMA NominatorSeen ==
    ASSUME PairedInv, JoinTypeOK, NEW n \in Nodes, NEW m \in Nodes, NEW u \in Users, MemoryOf(n),
           \/ \E amount \in Deposits : Stakes(u, m, amount)
           \/ \E force \in BOOLEAN : Withdraws(u, m, force)
    PROVE  Aside(n) \/ Deposited(n) \/ Weakened(n)
<1>t. /\ status \in [Nodes -> {"out", "standby", "syncing", "active"}]
      /\ deposits \in [Nodes -> Nat]
      /\ disturbed \in [Nodes -> Nat]
      /\ stake \in [Users -> Nat] /\ certExp \in [Users -> Nat]
      /\ nominator \in [Nodes -> Users \cup {None}]
      /\ faults \in [Nodes -> 0 .. MaxFaults]
      /\ nominee \in [Users -> Nodes \cup {None}]
      /\ None \notin Users \cup Nodes
      /\ \A v \in Users, k \in Nodes : nominee[v] = k <=> nominator[k] = v
  BY SeenTypes
<1>1. /\ now' = now /\ status' = status /\ pending' = pending
      /\ UNCHANGED pollVars /\ UNCHANGED <<faults, charges>>
      /\ disturbed' = [disturbed EXCEPT ![m] = now]
  BY DEF Stakes, Withdraws, DepositStakeTx, WithdrawStakeTx, Disturbs, netVars
<1>2. SameMemory(n) /\ RenewalsOf(n)' = RenewalsOf(n)
  BY <1>1 DEF pollVars, SameMemory, RenewalsOf
<1>3. renewing[n] => status'[n] = "out"
  BY <1>1 DEF MemoryOf
<1>4. ASSUME NEW amount \in Deposits, Stakes(u, m, amount)
      PROVE  Aside(n) \/ Deposited(n)
  <2>1. /\ nominator' = [nominator EXCEPT ![m] = u]
        /\ certExp' = [certExp EXCEPT ![u] = 0]
        /\ stake' = [stake EXCEPT ![u] = @ + amount]
        /\ nominee[u] \in {None, m}
        /\ deposits' = [deposits EXCEPT ![m] = @ + 1]
    BY <1>4 DEF Stakes, DepositStakeTx, DepositIsValid, MayPair
  <2>2. CASE m = n
    BY <1>1, <1>2, <1>t, <2>1, <2>2 DEF Deposited
  <2>3. CASE m # n
    <3>1. nominator[n] # u
      BY <1>t, <2>1, <2>3
    <3> QED  BY <1>1, <1>2, <1>3, <1>t, <2>1, <2>3, <3>1
                DEF Aside, SameCounts, StakeIsSame, ExpiryIsSame
  <2> QED  BY <2>2, <2>3
<1>5. ASSUME NEW force \in BOOLEAN, Withdraws(u, m, force)
      PROVE  Aside(n) \/ Weakened(n)
  <2>1. /\ nominator' = [nominator EXCEPT ![m] = None]
        /\ certExp' = [certExp EXCEPT ![u] = 0]
        /\ stake' = [stake EXCEPT ![u] = 0]
        /\ nominee[u] = m
        /\ UNCHANGED deposits
    BY <1>5 DEF Withdraws, WithdrawStakeTx, WithdrawIsValid, Disturbs
  <2>2. CASE m = n
    BY <1>1, <1>2, <1>3, <1>t, <2>1, <2>2 DEF Weakened
  <2>3. CASE m # n
    <3>1. nominator[n] # u
      BY <1>t, <2>1, <2>3
    <3> QED  BY <1>1, <1>2, <1>3, <1>t, <2>1, <2>3, <3>1
                DEF Aside, SameCounts, StakeIsSame, ExpiryIsSame
  <2> QED  BY <2>2, <2>3
<1> QED  BY <1>4, <1>5

\* What is executed or lost leaves the renewals of other nodes, and of this node
\* those of other nominators.
LEMMA RenewalsLeft ==
    ASSUME NEW n \in Nodes, NEW tx \in pending, pending \subseteq Injected,
           pending' = pending \ {tx}
    PROVE  /\ RenewalsOf(n)' \subseteq RenewalsOf(n)
           /\ tx.type # "set_cert_time" \/ tx.nominee # n => RenewalsOf(n)' = RenewalsOf(n)
           /\ tx # RenewalFor(n, nominator[n]) =>
                (RenewalFor(n, nominator[n]) \in RenewalsOf(n) =>
                 RenewalFor(n, nominator[n]) \in RenewalsOf(n)')
  BY DEF RenewalsOf

\* A set_cert_time that is executed: of this node, or of another.
LEMMA SetCertTimeSeen ==
    ASSUME PairedInv, JoinTypeOK, NEW n \in Nodes, MemoryOf(n), LateRenewals,
           NEW tx \in pending, SetsCertTime(tx)
    PROVE  Aside(n) \/ Renewed(n)
<1>t. /\ status \in [Nodes -> {"out", "standby", "syncing", "active"}]
      /\ charges \in [Nodes -> Nat]
      /\ stake \in [Users -> Nat] /\ certExp \in [Users -> Nat]
      /\ nominator \in [Nodes -> Users \cup {None}]
      /\ nominee \in [Users -> Nodes \cup {None}]
      /\ None \notin Users \cup Nodes
      /\ pending \subseteq Injected
      /\ \A v \in Users, k \in Nodes : nominee[v] = k <=> nominator[k] = v
  BY SeenTypes
<1> DEFINE u == tx.nominator
           m == tx.nominee
<1>1. /\ tx.type = "set_cert_time"
      /\ m \in Nodes /\ u \in Users
      /\ tx = RenewalFor(m, u)
  BY <1>t, TxNames DEF SetsCertTime, SetCertTimeTx, Executes
<1>2. /\ now' = now /\ status' = status /\ pending' = pending \ {tx}
      /\ nominator' = nominator /\ stake' = stake
      /\ certExp' = [certExp EXCEPT ![u] = now + CertLife]
      /\ stake[u] >= MinStake
      /\ UNCHANGED pollVars /\ UNCHANGED <<faults, deposits, disturbed>>
  BY DEF SetsCertTime, SetCertTimeTx, Executes, netVars, nodeVars, lockVars
<1>3. SameMemory(n)
  BY <1>2 DEF pollVars, SameMemory
<1>4. /\ RenewalsOf(n)' \subseteq RenewalsOf(n)
      /\ m # n => RenewalsOf(n)' = RenewalsOf(n)
      /\ tx # RenewalFor(n, nominator[n]) =>
           (RenewalFor(n, nominator[n]) \in RenewalsOf(n) =>
            RenewalFor(n, nominator[n]) \in RenewalsOf(n)')
  BY <1>1, <1>2, <1>t, RenewalsLeft
<1>5. charges' = IF IsCharged(tx) THEN [charges EXCEPT ![m] = @ + 1] ELSE charges
  BY DEF SetsCertTime
<1>6. renewing[n] => status'[n] = "out"
  BY <1>2 DEF MemoryOf
<1>7. CASE m = n /\ nominator[n] = u
  <2>1. RenewalFor(n, u) \in RenewalsOf(n)
    BY <1>1, <1>7 DEF RenewalsOf
  <2>2. RenewalsOf(n)' = RenewalsOf(n) \ {RenewalFor(n, u)}
    BY <1>1, <1>2, <1>7 DEF RenewalsOf
  <2>3. \/ charges'[n] = charges[n]
        \/ charges'[n] = charges[n] + 1 /\ CertFee(u) # 0
    BY <1>5, <1>7, <1>t DEF IsCharged
  <2>4. StakeIsSame(n) /\ Enough(n)
    BY <1>1, <1>2, <1>7, <1>t DEF StakeIsSame, Enough
  <2>5. certExp'[u] = now + CertLife
    BY <1>1, <1>2, <1>t
  <2> HIDE DEF u, m
  <2> QED  BY <1>2, <1>3, <1>7, <2>1, <2>2, <2>3, <2>4, <2>5 DEF Renewed
<1>8. CASE ~ (m = n /\ nominator[n] = u)
  <2>1. charges'[n] = charges[n]
    BY <1>1, <1>5, <1>8, <1>t DEF IsCharged
  <2>2. tx # RenewalFor(n, nominator[n])
    BY <1>8 DEF RenewalFor
  <2>3. ExpiryIsSame(n) \/ ExpiryIsNew(n)
    <3>1. CASE nominator[n] = u
      <4>1. nominator[m] # u
        BY <1>1, <1>8, <1>t, <3>1
      <4>2. certExp[u] \in {0, now + CertLife}
        BY <1>1, <4>1 DEF LateRenewals
      <4> QED  BY <1>1, <1>2, <1>t, <3>1, <4>2 DEF ExpiryIsNew
    <3>2. CASE nominator[n] # u
      BY <1>1, <1>2, <1>t, <3>2 DEF ExpiryIsSame
    <3> QED  BY <3>1, <3>2
  <2> HIDE DEF u, m
  <2> QED  BY <1>2, <1>3, <1>4, <1>6, <2>1, <2>2, <2>3 DEF Aside, SameCounts, StakeIsSame
<1> QED  BY <1>7, <1>8

\* Another transaction that is executed, refused or lost.
LEMMA OtherTxSeen ==
    ASSUME PairedInv, JoinTypeOK, NEW n \in Nodes, MemoryOf(n), NEW tx \in pending,
           \/ Penalised(tx)
           \/ Rejected(tx)
           \/ Lost(tx) /\ IsFault(tx.nominee) /\ UNCHANGED pollVars
    PROVE  Aside(n) \/ Weakened(n)
<1>t. /\ status \in [Nodes -> {"out", "standby", "syncing", "active"}]
      /\ faults \in [Nodes -> 0 .. MaxFaults]
      /\ disturbed \in [Nodes -> Nat]
      /\ stake \in [Users -> Nat] /\ stakeLock \in [Nodes -> Nat]
      /\ nominator \in [Nodes -> Users \cup {None}]
      /\ nominee \in [Users -> Nodes \cup {None}]
      /\ None \notin Users \cup Nodes
      /\ pending \subseteq Injected
      /\ \A v \in Users, k \in Nodes : nominee[v] = k <=> nominator[k] = v
  BY SeenTypes
<1> DEFINE m == tx.nominee
<1>1. m \in Nodes
  BY <1>t, TxNames
<1>2. /\ now' = now /\ status' = status /\ pending' = pending \ {tx}
      /\ nominator' = nominator /\ certExp' = certExp
      /\ UNCHANGED pollVars /\ UNCHANGED <<charges, deposits>>
  BY DEF Penalised, ApplyPenaltyTx, Rejected, Refused, Lost, IsFault, Disturbs, Executes,
         netVars, nodeVars, lockVars, userVars, countVars
<1>3. SameMemory(n) /\ (renewing[n] => status'[n] = "out")
  BY <1>2 DEF pollVars, SameMemory, MemoryOf
<1>4. /\ RenewalsOf(n)' \subseteq RenewalsOf(n)
      /\ tx.type # "set_cert_time" \/ m # n => RenewalsOf(n)' = RenewalsOf(n)
      /\ tx # RenewalFor(n, nominator[n]) =>
           (RenewalFor(n, nominator[n]) \in RenewalsOf(n) =>
            RenewalFor(n, nominator[n]) \in RenewalsOf(n)')
  BY <1>2, <1>t, RenewalsLeft
<1>5. CASE Penalised(tx)
  <2> DEFINE u == tx.nominator
  <2>1. /\ tx.type = "apply_penalty"
        /\ nominator[m] = u
        /\ stake' = [stake EXCEPT ![u] = @ - Penalty(stakeLock[m])]
        /\ disturbed' = [disturbed EXCEPT ![m] = now]
        /\ UNCHANGED faults
    BY <1>5 DEF Penalised, ApplyPenaltyTx, PenaltyIsValid, Executes, Disturbs
  <2>2. u \in Users
    BY <1>t, <2>1, TxNames
  <2>3. Penalty(stakeLock[m]) \in Nat
    BY <1>1, <1>t, PenaltyBounded
  <2> HIDE DEF u
  <2>4. CASE m = n
    <3>1. stake'[u] <= stake[u]
      BY <2>1, <2>2, <2>3, <1>t
    <3> HIDE DEF m
    <3> QED  BY <1>1, <1>2, <1>3, <1>4, <1>t, <2>1, <2>4, <3>1 DEF Weakened, ExpiryIsSame
  <2>5. CASE m # n
    <3>1. nominator[n] # u
      BY <1>1, <1>t, <2>1, <2>2, <2>5
    <3>2. SameCounts(n) /\ StakeIsSame(n) /\ ExpiryIsSame(n)
      BY <1>1, <1>2, <1>t, <2>1, <2>2, <2>5, <3>1 DEF SameCounts, StakeIsSame, ExpiryIsSame
    <3> QED  BY <1>2, <1>3, <1>4, <2>1, <2>5, <3>2 DEF Aside
  <2> QED  BY <2>4, <2>5
<1>6. CASE Rejected(tx)
  <2>1. stake' = stake /\ ~ IsValid(tx) /\ UNCHANGED countVars
    BY <1>6 DEF Rejected, Refused, userVars
  <2>2. tx = RenewalFor(n, nominator[n]) => ~ Enough(n)
    BY <1>t, <2>1 DEF IsValid, RenewalFor, Enough
  <2> QED  BY <1>2, <1>3, <1>4, <2>1, <2>2
              DEF Aside, SameCounts, StakeIsSame, ExpiryIsSame, countVars
<1>7. CASE Lost(tx) /\ IsFault(m) /\ UNCHANGED pollVars
  <2>1. /\ stake' = stake
        /\ disturbed' = [disturbed EXCEPT ![m] = now]
        /\ faults' = [faults EXCEPT ![m] = @ + 1]
    BY <1>7 DEF Lost, IsFault, Disturbs, userVars
  <2>2. CASE m = n
    <3>1. faults'[n] >= faults[n] /\ disturbed'[n] = now
      BY <1>t, <2>1, <2>2
    <3>2. nominator[n] # None => stake'[nominator[n]] <= stake[nominator[n]]
      BY <1>t, <2>1
    <3> QED  BY <1>2, <1>3, <1>4, <3>1, <3>2 DEF Weakened, ExpiryIsSame
  <2>3. CASE m # n
    <3>1. SameCounts(n) /\ StakeIsSame(n) /\ ExpiryIsSame(n)
      BY <1>1, <1>2, <1>t, <2>1, <2>3 DEF SameCounts, StakeIsSame, ExpiryIsSame
    <3> QED  BY <1>2, <1>3, <1>4, <2>3, <3>1 DEF Aside
  <2> QED  BY <2>2, <2>3
<1> QED  BY <1>5, <1>6, <1>7

\* Every step, seen from one node.
LEMMA StepSeen ==
    ASSUME PairedInv, JoinTypeOK, MemoryInv, [JoinNext]_joinVars, NEW n \in Nodes
    PROVE  \/ Aside(n) \/ Deposited(n) \/ Weakened(n) \/ Renewed(n)
           \/ OwnPoll(n) \/ JoinTick
<1>m. MemoryOf(n) /\ LateRenewals
  BY DEF MemoryInv
<1>p. TypeOK
  BY DEF PairedInv
<1>1. CASE Poll
  <2>1. PICK m \in Nodes : OwnPoll(m)
    BY <1>1 DEF Poll, OwnPoll
  <2> QED  BY <2>1, <1>m, <1>p, PollAside
<1>2. CASE JoinFault
  <2>1. CASE LosesTx
    <3>1. PICK tx \in pending : Lost(tx) /\ IsFault(tx.nominee) /\ UNCHANGED pollVars
      BY <2>1 DEF LosesTx
    <3> QED  BY <3>1, <1>m, OtherTxSeen
  <2>2. CASE ~ LosesTx
    <3>1. PICK m \in Nodes : OwnPoll(m)
      BY <1>2, <2>2 DEF JoinFault, OwnPoll
    <3> QED  BY <3>1, <1>m, <1>p, PollAside
  <2> QED  BY <2>1, <2>2
<1>3. CASE StakingStep
  <2>1. CASE \E m \in Nodes : JoinRequest(m) \/ Selected(m) \/ LeavesNetwork(m)
    BY <2>1, <1>m, NodeSeen
  <2>2. CASE \E u \in Users, m \in Nodes :
               \/ \E amount \in Deposits : Stakes(u, m, amount)
               \/ \E force \in BOOLEAN : Withdraws(u, m, force)
    BY <2>2, <1>m, NominatorSeen
  <2>3. CASE \E tx \in pending : SetsCertTime(tx) \/ Penalised(tx) \/ Rejected(tx)
    <3>1. PICK tx \in pending : SetsCertTime(tx) \/ Penalised(tx) \/ Rejected(tx)
      BY <2>3
    <3>2. CASE SetsCertTime(tx)
      BY <3>2, <1>m, SetCertTimeSeen
    <3>3. CASE Penalised(tx) \/ Rejected(tx)
      BY <3>3, <1>m, OtherTxSeen
    <3> QED  BY <3>1, <3>2, <3>3
  <2> QED  BY <1>3, <2>1, <2>2, <2>3 DEF StakingStep
<1>4. CASE JoinTick
  BY <1>4
<1>5. CASE UNCHANGED joinVars
  BY <1>5, <1>m DEF joinVars, vars, pollVars, countVars, userVars, nodeVars, lockVars, netVars,
                   Aside, SameMemory, SameCounts, StakeIsSame, ExpiryIsSame, RenewalsOf,
                   MemoryOf
<1> QED  BY <1>1, <1>2, <1>3, <1>4, <1>5 DEF JoinNext

-----------------------------------------------------------------------------
LEMMA InitMemory == JoinInit => MemoryInv
  BY StakingAssumption
     DEF JoinInit, Init, MemoryInv, LateRenewals, MemoryOf, DueOf, RenewalsOf

\* What the accounts of a nominator who moved show of his certificate.
LEMMA NextLate ==
    ASSUME PairedInv, JoinTypeOK, LateRenewals, [JoinNext]_joinVars
    PROVE  LateRenewals'
<1>t. /\ now \in Nat
      /\ stake \in [Users -> Nat] /\ certExp \in [Users -> Nat]
      /\ nominator \in [Nodes -> Users \cup {None}]
      /\ None \notin Users \cup Nodes
      /\ pending \subseteq Injected
  BY SeenTypes
<1>i. \A tx \in Injected : /\ tx.nominee \in Nodes
                           /\ tx.type = "set_cert_time" => tx.nominator \in Users
  BY TxNames
<1>1. ASSUME UNCHANGED <<now, nominator, certExp>>,
             \A tx \in pending' \ pending :
               tx.type = "set_cert_time" => nominator[tx.nominee] = tx.nominator
      PROVE  LateRenewals'
  BY <1>1 DEF LateRenewals
<1>2. CASE \/ Poll
           \/ \E n \in Nodes : \/ QueryFails(n) \/ PollFails(n) \/ AnswerLost(n)
                              \/ RenewalFails(n) \/ Restarts(n)
  <2>1. PICK n \in Nodes : OwnPoll(n)
    BY <1>2 DEF Poll, OwnPoll
  <2>2. /\ UNCHANGED <<now, nominator, certExp>>
        /\ pending' = pending \/ pending' = pending \cup {RenewalFor(n, nominator[n])}
    BY <2>1 DEF OwnPoll, Renews, HasNoNominator, Holds, QuerySucceeds, SignCertificate,
         RenewsQueried, QueryRefused, QueryFails, PollFails, AnswerLost, RenewalFails, Restarts,
         InjectSetCertTime, Inject, Adds, RenewalFor, vars, userVars, nodeVars, lockVars
  <2>3. \A tx \in pending' \ pending :
          tx.type = "set_cert_time" => nominator[tx.nominee] = tx.nominator
    BY <2>2 DEF RenewalFor
  <2> QED  BY <2>2, <2>3, <1>1
<1>3. CASE LosesTx
  BY <1>1, <1>3 DEF LosesTx, Lost, Executes, userVars, nodeVars, lockVars
<1>4. CASE \E n \in Nodes : JoinRequest(n) \/ Selected(n) \/ LeavesNetwork(n)
  <2>1. PICK n \in Nodes : JoinRequest(n) \/ Selected(n) \/ LeavesNetwork(n)
    BY <1>4
  <2>2. /\ UNCHANGED <<now, nominator, certExp>>
        /\ pending' = pending \/ pending' = pending \cup PenaltyFor(n, "SyncingTooLong")
    BY <2>1 DEF JoinRequest, Selected, LeavesNetwork, Join, Select, LeaveStandby, SyncTimeout,
                Moves, Adds, userVars, nodeVars, lockVars
  <2>3. \A tx \in PenaltyFor(n, "SyncingTooLong") : tx.type # "set_cert_time"
    BY DEF PenaltyFor
  <2> QED  BY <2>2, <2>3, <1>1
<1>5. ASSUME NEW u \in Users, NEW n \in Nodes, NEW amount \in Deposits, Stakes(u, n, amount)
      PROVE  LateRenewals'
  <2>1. /\ now' = now /\ pending' = pending
        /\ nominator[n] \in {None, u}
        /\ nominator' = [nominator EXCEPT ![n] = u]
        /\ certExp' = [certExp EXCEPT ![u] = 0]
    BY <1>5 DEF Stakes, DepositStakeTx, DepositIsValid, MayPair
  <2> QED  BY <1>t, <1>i, <2>1 DEF LateRenewals
<1>6. ASSUME NEW u \in Users, NEW n \in Nodes, NEW force \in BOOLEAN, Withdraws(u, n, force)
      PROVE  LateRenewals'
  <2>1. /\ now' = now /\ pending' = pending
        /\ nominator[n] = u
        /\ nominator' = [nominator EXCEPT ![n] = None]
        /\ certExp' = [certExp EXCEPT ![u] = 0]
    BY <1>6 DEF Withdraws, WithdrawStakeTx, WithdrawIsValid, netVars
  <2> QED  BY <1>t, <1>i, <2>1 DEF LateRenewals
<1>7. ASSUME NEW tx \in pending, SetsCertTime(tx)
      PROVE  LateRenewals'
  <2>1. /\ now' = now /\ pending' = pending \ {tx}
        /\ nominator' = nominator
        /\ certExp' = [certExp EXCEPT ![tx.nominator] = now + CertLife]
    BY <1>7 DEF SetsCertTime, SetCertTimeTx, Executes, nodeVars, lockVars
  <2> QED  BY <1>t, <1>i, <2>1 DEF LateRenewals
<1>8. ASSUME NEW tx \in pending, Penalised(tx) \/ Rejected(tx)
      PROVE  LateRenewals'
  BY <1>1, <1>8 DEF Penalised, ApplyPenaltyTx, Rejected, Refused, Executes,
                    userVars, nodeVars, lockVars
<1>9. CASE JoinTick
  BY <1>9 DEF JoinTick, Tick, LateRenewals
<1>10. CASE UNCHANGED joinVars
  BY <1>1, <1>10 DEF joinVars, vars, userVars, nodeVars, lockVars
<1>11. CASE StakingStep
  BY <1>4, <1>5, <1>6, <1>7, <1>8, <1>11 DEF StakingStep
<1> QED  BY <1>2, <1>3, <1>9, <1>10, <1>11 DEF JoinNext, JoinFault

\* A step in which the node's process takes no part.
LEMMA KeptMemory ==
    ASSUME PairedInv, JoinTypeOK, NEW n \in Nodes, MemoryOf(n), DueOf(n),
           Aside(n) \/ Deposited(n) \/ Weakened(n) \/ Renewed(n)
    PROVE  MemoryOf(n)' /\ DueOf(n)'
<1>t. now \in Nat /\ certExp \in [Users -> Nat] /\ CertLife \in Nat \ {0}
      /\ nominator \in [Nodes -> Users \cup {None}]
  BY SeenTypes
<1>1. /\ now' = now
      /\ SameMemory(n)
      /\ RenewalsOf(n)' \subseteq RenewalsOf(n)
      /\ renewing[n] => status'[n] = "out"
  BY DEF Aside, Deposited, Weakened, Renewed, MemoryOf
<1>2. MemoryOf(n)'
  BY <1>1 DEF MemoryOf, SameMemory
<1>3. DueOf(n)'
  <2>1. CASE Aside(n) /\ ExpiryIsNew(n)
    BY <1>1, <2>1 DEF Aside, ExpiryIsNew, StakeIsSame, DueOf
  <2>2. CASE nominator'[n] = None
    BY <2>2 DEF DueOf
  <2>3. CASE nominator'[n] = nominator[n] /\ ExpiryIsSame(n)
    BY <1>1, <2>3 DEF DueOf, ExpiryIsSame, Fresh, SameMemory
  <2>4. CASE Deposited(n)
    BY <1>t, <2>4 DEF Deposited, DueOf, Fresh
  <2>5. CASE Renewed(n)
    BY <2>5 DEF Renewed, DueOf, StakeIsSame
  <2> QED  BY <2>1, <2>2, <2>3, <2>4, <2>5 DEF Aside, Weakened, StakeIsSame
<1> QED  BY <1>2, <1>3

LEMMA TickMemory ==
    ASSUME PairedInv, JoinTypeOK, NEW n \in Nodes, MemoryOf(n), DueOf(n), JoinTick
    PROVE  MemoryOf(n)' /\ DueOf(n)'
<1>t. /\ now \in Nat
      /\ lastCertTimeTx \in [Nodes -> Nat]
      /\ polled \in [Nodes -> Nat]
      /\ renewing \in [Nodes -> BOOLEAN]
  BY SeenTypes
<1>1. /\ now' = now + 1 /\ pending' = {}
      /\ UNCHANGED pollVars
      /\ ~ renewing[n]
  BY DEF JoinTick, Tick, MemoryOf
<1>2. RenewalsOf(n)' = {}
  BY <1>1 DEF RenewalsOf
<1>3. ~ renewing'[n]
  BY <1>1 DEF pollVars
<1> QED  BY <1>1, <1>2, <1>3, <1>t DEF MemoryOf, DueOf, pollVars

-----------------------------------------------------------------------------
(* What each step of the node's own process does.                          *)

LEMMA PollAccounts ==
    ASSUME NEW n \in Nodes, OwnPoll(n)
    PROVE  /\ UNCHANGED <<now, nominator, nominee, stake, certExp, status>>
           /\ UNCHANGED <<charges, deposits>>
           /\ Renews(n) \/ RenewsQueried(n) \/ AnswerLost(n) =>
                /\ nominator[n] # None
                /\ RenewalsOf(n)' = RenewalsOf(n) \cup {RenewalFor(n, nominator[n])}
           /\ ~ Renews(n) /\ ~ RenewsQueried(n) /\ ~ AnswerLost(n) =>
                RenewalsOf(n)' = RenewalsOf(n)
<1>1. CASE Renews(n) \/ RenewsQueried(n) \/ AnswerLost(n)
  <2>1. InjectSetCertTime(n) /\ UNCHANGED <<charges, deposits>>
    BY <1>1 DEF Renews, RenewsQueried, AnswerLost, countVars, IsFault, Disturbs
  <2>2. /\ UNCHANGED <<now, nominator, nominee, stake, certExp, status>>
        /\ nominator[n] # None
        /\ pending' = pending \cup {RenewalFor(n, nominator[n])}
    BY <2>1 DEF InjectSetCertTime, Inject, Adds, RenewalFor, userVars, nodeVars, lockVars, netVars
  <2>3. RenewalsOf(n)' = RenewalsOf(n) \cup {RenewalFor(n, nominator[n])}
    BY <2>2 DEF RenewalsOf, RenewalFor
  <2> QED  BY <1>1, <2>1, <2>2, <2>3
<1>2. CASE ~ (Renews(n) \/ RenewsQueried(n) \/ AnswerLost(n))
  <2>1. UNCHANGED <<now, nominator, nominee, stake, certExp, status, pending>>
    BY <1>2 DEF OwnPoll, HasNoNominator, Holds, QuerySucceeds, SignCertificate,
         QueryRefused, QueryFails, PollFails, RenewalFails, Restarts,
         vars, userVars, nodeVars, lockVars, netVars
  <2>2. UNCHANGED <<charges, deposits>>
    BY <1>2 DEF OwnPoll, HasNoNominator, Holds, QuerySucceeds,
         QueryRefused, QueryFails, PollFails, RenewalFails, Restarts, countVars, IsFault,
         Disturbs
  <2> QED  BY <1>2, <2>1, <2>2 DEF RenewalsOf
<1> QED  BY <1>1, <1>2

\* What the node remembers after a poll (or a restart).
Remembers(n, last, cert, ready, busy) ==
    /\ lastCertTimeTx'[n] = last
    /\ stakeCert'[n] = cert
    /\ isReadyToJoin'[n] = ready
    /\ renewing'[n] = busy

IsPoll(n) == status[n] = "out" /\ polled[n] < now /\ polled'[n] = now

Faulty(n) == faults'[n] = faults[n] + 1 /\ disturbed'[n] = now

Faultless(n) == faults'[n] = faults[n] /\ disturbed'[n] = disturbed[n]

\* The certificate that a query of the node returns.
Queried(n) ==
    LET u == nominator[n]
    IN  [nominator |-> u, nominee |-> n, stake |-> stake[u], certExp |-> certExp[u]]

LEMMA RenewsEffect ==
    ASSUME PairedInv, JoinTypeOK, NEW n \in Nodes, Renews(n), MemoryOf(n)
    PROVE  /\ IsPoll(n) /\ MustRenew(n) /\ Faultless(n)
           /\ Remembers(n, now, NoCert, FALSE, renewing[n])
<1>t. /\ lastCertTimeTx \in [Nodes -> Nat]
      /\ stakeCert \in [Nodes -> Certificate \cup {NoCert}]
      /\ isReadyToJoin \in [Nodes -> BOOLEAN]
      /\ polled \in [Nodes -> Nat]
  BY SeenTypes
<1>1. /\ MustRenew(n) /\ Polls(n, FALSE)
      /\ lastCertTimeTx' = [lastCertTimeTx EXCEPT ![n] = now]
      /\ stakeCert' = IF FirstTime(n) THEN stakeCert ELSE [stakeCert EXCEPT ![n] = NoCert]
      /\ UNCHANGED <<renewing, countVars>>
  BY DEF Renews
<1>2. stakeCert'[n] = NoCert
  BY <1>1, <1>t DEF FirstTime, MemoryOf
<1> QED  BY <1>1, <1>2, <1>t DEF Polls, IsPoll, Faultless, Remembers, countVars

LEMMA HoldsEffect ==
    ASSUME PairedInv, JoinTypeOK, NEW n \in Nodes, HasNoNominator(n) \/ Holds(n)
    PROVE  /\ IsPoll(n) /\ Faultless(n)
           /\ \/ nominator[n] = None /\ isReadyToJoin'[n] = FALSE
              \/ stakeCert[n] # NoCert /\ isReadyToJoin'[n] = TRUE
           /\ Remembers(n, lastCertTimeTx[n], stakeCert[n], isReadyToJoin'[n], renewing[n])
<1>t. /\ isReadyToJoin \in [Nodes -> BOOLEAN]
      /\ polled \in [Nodes -> Nat]
  BY SeenTypes
<1> QED  BY <1>t DEF HasNoNominator, Holds, Polls, IsPoll, Faultless, Remembers, countVars

LEMMA QueryEffect ==
    ASSUME PairedInv, JoinTypeOK, NEW n \in Nodes, QuerySucceeds(n)
    PROVE  /\ IsPoll(n) /\ Faultless(n)
           /\ ~ MustRenew(n) /\ stakeCert[n] = NoCert /\ nominator[n] \in Users
           /\ certExp[nominator[n]] >= now
           /\ \/ /\ ExpiresSoon(Queried(n))
                 /\ Remembers(n, lastCertTimeTx[n], NoCert, FALSE, TRUE)
              \/ Remembers(n, lastCertTimeTx[n], Queried(n), TRUE, renewing[n])
<1>t. /\ stakeCert \in [Nodes -> Certificate \cup {NoCert}]
      /\ isReadyToJoin \in [Nodes -> BOOLEAN]
      /\ polled \in [Nodes -> Nat]
      /\ renewing \in [Nodes -> BOOLEAN]
      /\ nominator \in [Nodes -> Users \cup {None}]
  BY SeenTypes
<1>1. /\ ~ MustRenew(n) /\ stakeCert[n] = NoCert
      /\ nominator[n] \in Users /\ certExp[nominator[n]] >= now
      /\ UNCHANGED <<lastCertTimeTx, countVars>>
  BY <1>t DEF QuerySucceeds, Queries, SignCertificate
<1>2. \/ /\ ExpiresSoon(Queried(n))
         /\ Polls(n, FALSE)
         /\ renewing' = [renewing EXCEPT ![n] = TRUE]
         /\ UNCHANGED stakeCert
      \/ /\ Polls(n, TRUE)
         /\ stakeCert' = [stakeCert EXCEPT ![n] = Queried(n)]
         /\ UNCHANGED renewing
  BY DEF QuerySucceeds, Queried
<1> QED  BY <1>1, <1>2, <1>t DEF Polls, IsPoll, Faultless, Remembers, countVars

LEMMA RenewsQueriedEffect ==
    ASSUME PairedInv, JoinTypeOK, NEW n \in Nodes, RenewsQueried(n)
    PROVE  /\ renewing[n] /\ Faultless(n) /\ polled'[n] = polled[n]
           /\ Remembers(n, now, stakeCert[n], isReadyToJoin[n], FALSE)
<1>t. lastCertTimeTx \in [Nodes -> Nat] /\ renewing \in [Nodes -> BOOLEAN]
  BY SeenTypes
<1> QED  BY <1>t DEF RenewsQueried, EndsRenewing, Faultless, Remembers, countVars

LEMMA RefusedEffect ==
    ASSUME PairedInv, JoinTypeOK, NEW n \in Nodes, QueryRefused(n) \/ QueryFails(n)
    PROVE  /\ IsPoll(n)
           /\ ~ MustRenew(n) /\ stakeCert[n] = NoCert
           /\ \/ Faulty(n)
              \/ ~ MaySign(n) /\ Faultless(n)
           /\ \/ /\ now - lastCertTimeTx[n] >= 3
                 /\ Remembers(n, 0, NoCert, FALSE, renewing[n])
              \/ /\ now - lastCertTimeTx[n] <= 3
                 /\ Remembers(n, lastCertTimeTx[n], NoCert, FALSE, renewing[n])
<1>t. /\ lastCertTimeTx \in [Nodes -> Nat]
      /\ isReadyToJoin \in [Nodes -> BOOLEAN]
      /\ polled \in [Nodes -> Nat]
      /\ faults \in [Nodes -> 0 .. MaxFaults]
      /\ disturbed \in [Nodes -> Nat]
  BY SeenTypes
<1>1. /\ ~ MustRenew(n) /\ stakeCert[n] = NoCert
      /\ Polls(n, FALSE) /\ InjectAgainLater(n)
      /\ UNCHANGED <<stakeCert, renewing>>
      /\ IsFault(n) \/ (~ MaySign(n) /\ UNCHANGED countVars)
  BY DEF QueryRefused, QueryFails, Queries
<1>2. IsPoll(n) /\ isReadyToJoin'[n] = FALSE
  BY <1>1, <1>t DEF Polls, IsPoll
<1>3. \/ Faulty(n)
      \/ ~ MaySign(n) /\ Faultless(n)
  BY <1>1, <1>t DEF IsFault, Disturbs, countVars, Faulty, Faultless
<1>4. \/ now - lastCertTimeTx[n] >= 3 /\ lastCertTimeTx'[n] = 0
      \/ now - lastCertTimeTx[n] <= 3 /\ lastCertTimeTx'[n] = lastCertTimeTx[n]
  BY <1>1, <1>t DEF InjectAgainLater
<1> QED  BY <1>1, <1>2, <1>3, <1>4 DEF Remembers

LEMMA FaultEffect ==
    ASSUME PairedInv, JoinTypeOK, NEW n \in Nodes,
           PollFails(n) \/ RenewalFails(n) \/ Restarts(n)
    PROVE  /\ polled'[n] \in {polled[n], now}
           /\ \/ Faulty(n)
              \/ nominator[n] = None /\ Faultless(n)
           /\ \/ /\ PollFails(n) /\ IsPoll(n)
                 /\ Remembers(n, lastCertTimeTx[n], stakeCert[n], FALSE, renewing[n])
              \/ /\ RenewalFails(n) /\ polled'[n] = polled[n]
                 /\ Remembers(n, lastCertTimeTx[n], stakeCert[n], isReadyToJoin[n], FALSE)
              \/ /\ Restarts(n) /\ polled'[n] = polled[n]
                 /\ Remembers(n, 0, NoCert, FALSE, FALSE)
<1>t. /\ lastCertTimeTx \in [Nodes -> Nat]
      /\ stakeCert \in [Nodes -> Certificate \cup {NoCert}]
      /\ isReadyToJoin \in [Nodes -> BOOLEAN]
      /\ polled \in [Nodes -> Nat]
      /\ renewing \in [Nodes -> BOOLEAN]
      /\ faults \in [Nodes -> 0 .. MaxFaults]
      /\ disturbed \in [Nodes -> Nat]
  BY SeenTypes
<1>1. \/ Faulty(n)
      \/ nominator[n] = None /\ Faultless(n)
  <2>1. IsFault(n) \/ (nominator[n] = None /\ UNCHANGED countVars)
    BY DEF PollFails, RenewalFails, Restarts
  <2> QED  BY <2>1, <1>t DEF IsFault, Disturbs, countVars, Faulty, Faultless
<1>2. CASE PollFails(n)
  BY <1>1, <1>2, <1>t DEF PollFails, Polls, IsPoll, Remembers
<1>3. CASE RenewalFails(n)
  BY <1>1, <1>3, <1>t DEF RenewalFails, EndsRenewing, Remembers
<1>4. CASE Restarts(n)
  BY <1>1, <1>4, <1>t DEF Restarts, Remembers
<1> QED  BY <1>2, <1>3, <1>4

LEMMA AnswerLostEffect ==
    ASSUME PairedInv, JoinTypeOK, NEW n \in Nodes, AnswerLost(n)
    PROVE  /\ Faulty(n)
           /\ \/ /\ MustRenew(n) /\ IsPoll(n)
                 /\ Remembers(n, lastCertTimeTx[n], stakeCert[n], FALSE, renewing[n])
              \/ /\ renewing[n] /\ polled'[n] = polled[n]
                 /\ Remembers(n, lastCertTimeTx[n], stakeCert[n], isReadyToJoin[n], FALSE)
<1>t. /\ isReadyToJoin \in [Nodes -> BOOLEAN]
      /\ polled \in [Nodes -> Nat]
      /\ renewing \in [Nodes -> BOOLEAN]
      /\ faults \in [Nodes -> 0 .. MaxFaults]
      /\ disturbed \in [Nodes -> Nat]
  BY SeenTypes
<1>1. Faulty(n)
  BY <1>t DEF AnswerLost, IsFault, Disturbs, Faulty
<1>2. CASE MustRenew(n) /\ Polls(n, FALSE) /\ UNCHANGED <<stakeCert, renewing>>
  BY <1>1, <1>2, <1>t DEF AnswerLost, Polls, IsPoll, Remembers
<1>3. CASE EndsRenewing(n)
  BY <1>1, <1>3, <1>t DEF AnswerLost, EndsRenewing, Remembers
<1> QED  BY <1>2, <1>3 DEF AnswerLost

LEMMA PollMemory ==
    ASSUME PairedInv, JoinTypeOK, NEW n \in Nodes, MemoryOf(n), DueOf(n), OwnPoll(n)
    PROVE  MemoryOf(n)' /\ DueOf(n)'
<1>t. /\ now \in Nat /\ CertLife \in Nat \ {0}
      /\ certExp \in [Users -> Nat]
      /\ lastCertTimeTx \in [Nodes -> Nat]
      /\ polled \in [Nodes -> Nat]
      /\ renewing \in [Nodes -> BOOLEAN]
      /\ nominator \in [Nodes -> Users \cup {None}]
  BY SeenTypes
<1>a. /\ UNCHANGED <<now, nominator, nominee, stake, certExp, status>>
      /\ \/ RenewalsOf(n)' = RenewalsOf(n)
         \/ /\ Renews(n) \/ RenewsQueried(n) \/ AnswerLost(n)
            /\ RenewalsOf(n)' = RenewalsOf(n) \cup {RenewalFor(n, nominator[n])}
  BY PollAccounts
<1>d. renewing'[n] => renewing[n] \/ QuerySucceeds(n)
  BY RenewsEffect, HoldsEffect, QueryEffect, RenewsQueriedEffect, RefusedEffect, FaultEffect,
     AnswerLostEffect
     DEF OwnPoll, Remembers
<1>1. DueOf(n)'
  <2>1. CASE renewing[n]
    BY <1>a, <2>1 DEF DueOf, Fresh
  <2>2. CASE QuerySucceeds(n) /\ renewing'[n] /\ ~ renewing[n]
    <3>1. ExpiresSoon(Queried(n)) /\ nominator[n] \in Users
      BY <2>2, QueryEffect DEF Remembers
    <3>2. 10 * (now - (certExp[nominator[n]] - CertLife)) >= 7 * CertLife
      BY <3>1 DEF ExpiresSoon, Queried
    <3>3. certExp[nominator[n]] \in Nat
      BY <3>1, <1>t
    <3>4. ~ Fresh(nominator[n])
      BY <3>2, <3>3, <1>t DEF Fresh
    <3> QED  BY <3>4, <1>a DEF DueOf, Fresh
  <2>3. CASE ~ renewing'[n]
    BY <2>3 DEF DueOf
  <2> QED  BY <1>d, <2>1, <2>2, <2>3
<1>2. ASSUME IsPoll(n)
      PROVE  ~ renewing[n] /\ RenewalsOf(n) = {}
  BY <1>2, <1>t DEF IsPoll, MemoryOf
<1>3. CASE Renews(n)
  <2>1. IsPoll(n) /\ Remembers(n, now, NoCert, FALSE, renewing[n])
    BY <1>3, RenewsEffect
  <2>2. ~ renewing[n]
    BY <1>2, <2>1
  <2> QED  BY <1>1, <1>a, <1>t, <2>1, <2>2 DEF MemoryOf, Remembers, IsPoll
<1>4. CASE HasNoNominator(n) \/ Holds(n)
  <2>1. /\ IsPoll(n)
        /\ Remembers(n, lastCertTimeTx[n], stakeCert[n], isReadyToJoin'[n], renewing[n])
    BY <1>4, HoldsEffect
  <2>2. RenewalsOf(n)' = {} /\ renewing'[n] = FALSE
    BY <1>2, <1>a, <1>t, <2>1, <1>4 DEF Remembers, HasNoNominator, Holds, MemoryOf, RenewalsOf, vars
  <2> QED  BY <1>1, <1>a, <1>t, <2>1, <2>2 DEF MemoryOf, Remembers, IsPoll
<1>5. CASE QuerySucceeds(n)
  <2>1. /\ IsPoll(n) /\ ~ MustRenew(n)
        /\ \/ Remembers(n, lastCertTimeTx[n], NoCert, FALSE, TRUE)
           \/ Remembers(n, lastCertTimeTx[n], Queried(n), TRUE, renewing[n])
    BY <1>5, QueryEffect
  <2>2. lastCertTimeTx[n] # 0 /\ RenewalsOf(n)' = {} /\ ~ renewing[n]
    BY <1>2, <1>5, <2>1 DEF MustRenew, FirstTime, QuerySucceeds, SignCertificate, RenewalsOf
  <2> HIDE DEF Queried
  <2> QED  BY <1>1, <1>a, <1>t, <2>1, <2>2 DEF MemoryOf, Remembers, IsPoll
<1>6. CASE RenewsQueried(n)
  <2>1. /\ renewing[n] /\ polled'[n] = polled[n]
        /\ Remembers(n, now, stakeCert[n], isReadyToJoin[n], FALSE)
    BY <1>6, RenewsQueriedEffect
  <2> QED  BY <1>1, <1>a, <1>t, <2>1 DEF MemoryOf, Remembers
<1>7. CASE QueryRefused(n) \/ QueryFails(n)
  <2>1. /\ IsPoll(n)
        /\ \/ Remembers(n, 0, NoCert, FALSE, renewing[n])
           \/ Remembers(n, lastCertTimeTx[n], NoCert, FALSE, renewing[n])
    BY <1>7, RefusedEffect
  <2>2. RenewalsOf(n)' = {} /\ ~ renewing[n]
    BY <1>2, <1>7, <2>1 DEF QueryRefused, QueryFails, RenewalsOf, vars
  <2> QED  BY <1>1, <1>a, <1>t, <2>1, <2>2 DEF MemoryOf, Remembers, IsPoll
<1>8. CASE PollFails(n)
  <2>1. IsPoll(n) /\ Remembers(n, lastCertTimeTx[n], stakeCert[n], FALSE, renewing[n])
    BY <1>8, <1>t DEF PollFails, Polls, IsPoll, Remembers, JoinTypeOK
  <2>2. RenewalsOf(n)' = {} /\ ~ renewing[n]
    BY <1>2, <1>8, <2>1 DEF PollFails, RenewalsOf, vars
  <2> QED  BY <1>1, <1>a, <1>t, <2>1, <2>2 DEF MemoryOf, Remembers, IsPoll
<1>9. CASE RenewalFails(n) \/ Restarts(n)
  <2>1. /\ polled'[n] = polled[n]
        /\ \/ Remembers(n, lastCertTimeTx[n], stakeCert[n], isReadyToJoin[n], FALSE)
           \/ Remembers(n, 0, NoCert, FALSE, FALSE)
    BY <1>9, <1>t DEF RenewalFails, Restarts, EndsRenewing, Remembers, JoinTypeOK
  <2>2. RenewalsOf(n)' = RenewalsOf(n)
    BY <1>9 DEF RenewalFails, Restarts, RenewalsOf, vars
  <2> QED  BY <1>1, <1>a, <1>t, <2>1, <2>2 DEF MemoryOf, Remembers
<1>10. CASE AnswerLost(n)
  <2>1. \/ /\ IsPoll(n)
           /\ Remembers(n, lastCertTimeTx[n], stakeCert[n], FALSE, renewing[n])
        \/ /\ renewing[n] /\ polled'[n] = polled[n]
           /\ Remembers(n, lastCertTimeTx[n], stakeCert[n], isReadyToJoin[n], FALSE)
    BY <1>10, AnswerLostEffect
  <2>2. RenewalsOf(n) = {}
    BY <1>2, <2>1 DEF MemoryOf
  <2> QED  BY <1>1, <1>2, <1>a, <1>t, <2>1, <2>2 DEF MemoryOf, Remembers, IsPoll
<1> QED  BY <1>1, <1>3, <1>4, <1>5, <1>6, <1>7, <1>8, <1>9, <1>10 DEF OwnPoll

LEMMA NextMemory ==
    ASSUME PairedInv, JoinTypeOK, MemoryInv, [JoinNext]_joinVars PROVE MemoryInv'
<1>1. LateRenewals'
  BY NextLate DEF MemoryInv
<1>2. ASSUME NEW n \in Nodes PROVE MemoryOf(n)' /\ DueOf(n)'
  <2>1. MemoryOf(n) /\ DueOf(n)
    BY DEF MemoryInv
  <2>2. \/ Aside(n) \/ Deposited(n) \/ Weakened(n) \/ Renewed(n)
        \/ OwnPoll(n) \/ JoinTick
    BY StepSeen
  <2> QED  BY <2>1, <2>2, KeptMemory, PollMemory, TickMemory
<1> QED  BY <1>1, <1>2 DEF MemoryInv

-----------------------------------------------------------------------------
(* Charges.  A node may still have one renewal charged because its         *)
(* nominator's certificate has no expiry, or is new and not the one that   *)
(* the node remembers to have renewed; and one more when it forgot that,   *)
(* or never learnt it.                                                     *)

OwesRenewal(n) ==
    LET u     == nominator[n]
        start == certExp[u] - CertLife
    IN  /\ u # None
        /\ \/ certExp[u] = 0
           \/ /\ Fresh(u)
              /\ \/ Enough(n) /\ RenewalFor(n, u) \in RenewalsOf(n)
                 \/ lastCertTimeTx[n] # 0 /\ lastCertTimeTx[n] < start
                 \/ stakeCert[n] # NoCert /\ stakeCert[n].certExp # certExp[u]

OwesForgotten(n) ==
    \/ RenewalsOf(n) # {} /\ (lastCertTimeTx[n] = 0 \/ lastCertTimeTx[n] < now)
    \/ lastCertTimeTx[n] = 0 /\ Enough(n) /\ Fresh(nominator[n])

Ones(b, c) == (IF b THEN 1 ELSE 0) + (IF c THEN 1 ELSE 0)

ChargeOf(n) ==
    charges[n] + Ones(OwesRenewal(n), OwesForgotten(n)) <= deposits[n] + faults[n]

LEMMA InitCharge == JoinInit => \A n \in Nodes : ChargeOf(n)
<1> SUFFICES ASSUME JoinInit, NEW n \in Nodes PROVE ChargeOf(n)
  OBVIOUS
<1>1. /\ nominator[n] = None /\ pending = {}
      /\ charges[n] = 0 /\ deposits[n] = 0 /\ faults[n] = 0
  BY DEF JoinInit, Init
<1>2. ~ OwesRenewal(n) /\ ~ OwesForgotten(n)
  BY <1>1 DEF OwesRenewal, OwesForgotten, RenewalsOf, Enough
<1> QED  BY <1>1, <1>2 DEF ChargeOf, Ones

\* Nothing more is owed, and nothing was charged.
LEMMA ChargeKept ==
    ASSUME JoinTypeOK, NEW n \in Nodes, ChargeOf(n),
           charges'[n] = charges[n], deposits'[n] = deposits[n],
           faults'[n] = faults[n],
           OwesRenewal(n)' => OwesRenewal(n),
           OwesForgotten(n)' => OwesForgotten(n)
    PROVE  ChargeOf(n)'
<1>1. charges[n] \in Nat /\ deposits[n] \in Nat /\ faults[n] \in Nat
  BY DEF JoinTypeOK
<1> QED  BY <1>1 DEF ChargeOf, Ones

\* What is newly owed, or charged, stands for another that is not owed any more.
LEMMA ChargeMoves ==
    ASSUME JoinTypeOK, NEW n \in Nodes, ChargeOf(n),
           charges'[n] = charges[n], deposits'[n] = deposits[n],
           faults'[n] = faults[n],
           OwesRenewal(n)' \/ OwesForgotten(n)' => OwesRenewal(n) \/ OwesForgotten(n),
           OwesRenewal(n)' /\ OwesForgotten(n)' => OwesRenewal(n) /\ OwesForgotten(n)
    PROVE  ChargeOf(n)'
<1>1. charges[n] \in Nat /\ deposits[n] \in Nat /\ faults[n] \in Nat
  BY DEF JoinTypeOK
<1> QED  BY <1>1 DEF ChargeOf, Ones

\* A deposit or a fault allows one charge.
LEMMA ChargeAllowed ==
    ASSUME JoinTypeOK, NEW n \in Nodes, ChargeOf(n),
           charges'[n] = charges[n], deposits'[n] \in Nat, faults'[n] \in Nat,
           deposits'[n] + faults'[n] >= deposits[n] + faults[n] + 1,
           OwesRenewal(n)' /\ OwesForgotten(n)' => OwesRenewal(n) \/ OwesForgotten(n)
    PROVE  ChargeOf(n)'
<1>1. charges[n] \in Nat /\ deposits[n] \in Nat /\ faults[n] \in Nat
  BY DEF JoinTypeOK
<1> QED  BY <1>1 DEF ChargeOf, Ones

LEMMA AsideCharge ==
    ASSUME PairedInv, JoinTypeOK, NEW n \in Nodes, MemoryOf(n), ChargeOf(n), Aside(n)
    PROVE  ChargeOf(n)'
<1>t. /\ now \in Nat /\ CertLife \in Nat \ {0}
      /\ certExp \in [Users -> Nat]
      /\ nominator \in [Nodes -> Users \cup {None}]
  BY SeenTypes
<1>1. /\ now' = now /\ nominator'[n] = nominator[n]
      /\ SameMemory(n) /\ SameCounts(n)
      /\ RenewalsOf(n)' \subseteq RenewalsOf(n)
      /\ Enough(n)' <=> Enough(n)
  BY DEF Aside, StakeIsSame, Enough
<1>2. CASE ExpiryIsSame(n)
  <2>1. OwesRenewal(n)' => OwesRenewal(n)
    BY <1>1, <1>2 DEF OwesRenewal, ExpiryIsSame, SameMemory, Fresh, RenewalFor
  <2>2. OwesForgotten(n)' => OwesForgotten(n)
    BY <1>1, <1>2 DEF OwesForgotten, ExpiryIsSame, SameMemory, Fresh, Enough
  <2> QED  BY <1>1, <2>1, <2>2, ChargeKept DEF SameCounts
<1>3. CASE ~ ExpiryIsSame(n)
  <2>1. nominator[n] # None /\ certExp[nominator[n]] = 0
    BY <1>3 DEF Aside, ExpiryIsSame, ExpiryIsNew
  <2>2. OwesRenewal(n)
    BY <2>1 DEF OwesRenewal
  <2>3. OwesRenewal(n)' /\ OwesForgotten(n)' => OwesForgotten(n)
    <3> SUFFICES ASSUME OwesRenewal(n)', OwesForgotten(n)'
                 PROVE  OwesForgotten(n)
      OBVIOUS
    <3>1. CASE RenewalsOf(n)' # {}
      BY <1>1, <3>1 DEF OwesForgotten, SameMemory, Enough, Fresh
    <3>2. CASE RenewalsOf(n)' = {}
      <4>1. lastCertTimeTx[n] = 0 /\ stakeCert[n] = NoCert /\ stakeCert'[n] = NoCert
        BY <1>1, <3>2 DEF OwesForgotten, SameMemory, MemoryOf
      <4>2. certExp'[nominator[n]] # 0
        BY <1>3, <1>t DEF Aside, ExpiryIsNew
      <4> QED  BY <1>1, <3>2, <4>1, <4>2 DEF OwesRenewal, SameMemory
    <3> QED  BY <3>1, <3>2
  <2> QED  BY <1>1, <2>2, <2>3, ChargeMoves DEF SameCounts
<1> QED  BY <1>2, <1>3

LEMMA DepositedCharge ==
    ASSUME PairedInv, JoinTypeOK, NEW n \in Nodes, ChargeOf(n), Deposited(n)
    PROVE  ChargeOf(n)'
<1>t. /\ now \in Nat /\ CertLife \in Nat \ {0}
      /\ deposits \in [Nodes -> Nat] /\ faults \in [Nodes -> 0 .. MaxFaults]
  BY SeenTypes
<1>1. OwesForgotten(n)' => OwesForgotten(n)
  BY DEF Deposited, OwesForgotten, SameMemory, Fresh
<1>2. /\ deposits'[n] \in Nat /\ faults'[n] \in Nat
      /\ deposits'[n] + faults'[n] >= deposits[n] + faults[n] + 1
      /\ charges'[n] = charges[n]
  BY <1>t DEF Deposited
<1> QED  BY <1>1, <1>2, ChargeAllowed

LEMMA WeakenedCharge ==
    ASSUME PairedInv, JoinTypeOK, JoinTypeOK', NEW n \in Nodes, ChargeOf(n), Weakened(n)
    PROVE  ChargeOf(n)'
<1>t. /\ now \in Nat /\ CertLife \in Nat \ {0} /\ MinStake \in Nat \ {0}
      /\ nominator \in [Nodes -> Users \cup {None}] /\ stake \in [Users -> Nat]
      /\ deposits \in [Nodes -> Nat] /\ faults \in [Nodes -> 0 .. MaxFaults]
  BY SeenTypes
<1>f. /\ charges'[n] = charges[n] /\ deposits'[n] = deposits[n]
      /\ faults'[n] >= faults[n] /\ faults'[n] \in Nat
      /\ stake' \in [Users -> Nat]
  BY DEF Weakened, JoinTypeOK, TypeOK
<1>1. OwesRenewal(n)' => OwesRenewal(n)
  <2>1. CASE nominator'[n] = None
    BY <2>1 DEF OwesRenewal
  <2>2. CASE nominator'[n] # None
    <3>1. /\ nominator'[n] = nominator[n] /\ nominator[n] \in Users
          /\ certExp'[nominator[n]] = certExp[nominator[n]]
          /\ stake'[nominator[n]] <= stake[nominator[n]]
      BY <1>t, <2>2 DEF Weakened, ExpiryIsSame
    <3>2. Enough(n)' => Enough(n)
      BY <1>t, <1>f, <3>1 DEF Enough
    <3> QED  BY <3>1, <3>2 DEF Weakened, OwesRenewal, SameMemory, Fresh, RenewalFor
  <2> QED  BY <2>1, <2>2
<1>2. OwesForgotten(n)' => OwesForgotten(n)
  <2>1. CASE nominator'[n] = None
    BY <2>1 DEF Weakened, OwesForgotten, Enough, SameMemory
  <2>2. CASE nominator'[n] # None
    <3>1. /\ nominator'[n] = nominator[n] /\ nominator[n] \in Users
          /\ certExp'[nominator[n]] = certExp[nominator[n]]
          /\ stake'[nominator[n]] <= stake[nominator[n]]
      BY <1>t, <2>2 DEF Weakened, ExpiryIsSame
    <3>2. Enough(n)' => Enough(n)
      BY <1>t, <1>f, <3>1 DEF Enough
    <3> QED  BY <3>1, <3>2 DEF Weakened, OwesForgotten, SameMemory, Fresh
  <2> QED  BY <2>1, <2>2
<1>3. charges[n] \in Nat /\ deposits[n] \in Nat /\ faults[n] \in Nat
  BY DEF JoinTypeOK
<1> QED  BY <1>1, <1>2, <1>3, <1>f DEF ChargeOf, Ones

LEMMA RenewedCharge ==
    ASSUME PairedInv, JoinTypeOK, NEW n \in Nodes, MemoryOf(n), ChargeOf(n), Renewed(n)
    PROVE  ChargeOf(n)'
<1> DEFINE u == nominator[n]
<1>t. /\ now \in Nat /\ CertLife \in Nat \ {0}
      /\ certExp \in [Users -> Nat]
      /\ nominator \in [Nodes -> Users \cup {None}]
      /\ lastCertTimeTx \in [Nodes -> Nat]
      /\ charges[n] \in Nat /\ deposits[n] \in Nat /\ faults[n] \in Nat
  BY SeenTypes DEF JoinTypeOK
<1>1. /\ now' = now /\ nominator'[n] = u
      /\ SameMemory(n)
      /\ Enough(n) /\ u \in Users
      /\ RenewalFor(n, u) \in RenewalsOf(n)
      /\ RenewalsOf(n)' = RenewalsOf(n) \ {RenewalFor(n, u)}
      /\ certExp'[u] = now + CertLife
      /\ faults'[n] = faults[n] /\ deposits'[n] = deposits[n]
  BY <1>t DEF Renewed, StakeIsSame, Enough
<1>2. RenewalsOf(n)' = {} /\ lastCertTimeTx[n] <= now
  BY <1>1, <1>t DEF MemoryOf
<1>3. \/ ~ OwesRenewal(n)' /\ (OwesForgotten(n)' => OwesForgotten(n))
      \/ OwesForgotten(n) /\ ~ OwesForgotten(n)'
  <2>1. CASE lastCertTimeTx[n] \in {0, now}
    <3>1. stakeCert[n] = NoCert
      BY <2>1 DEF MemoryOf
    <3>2. ~ OwesRenewal(n)'
      BY <1>1, <1>2, <1>t, <2>1, <3>1 DEF OwesRenewal, SameMemory
    <3>3. OwesForgotten(n)' => OwesForgotten(n)
      BY <1>1, <1>2 DEF OwesForgotten, SameMemory
    <3> QED  BY <3>2, <3>3
  <2>2. CASE lastCertTimeTx[n] \notin {0, now}
    <3>1. lastCertTimeTx[n] < now
      BY <1>2, <1>t, <2>2
    <3> QED  BY <1>1, <1>2, <2>2, <3>1 DEF OwesForgotten, SameMemory
  <2> QED  BY <2>1, <2>2
<1>4. \/ charges'[n] = charges[n]
      \/ charges'[n] = charges[n] + 1 /\ OwesRenewal(n)
  <2>1. CASE charges'[n] = charges[n] + 1 /\ CertFee(u) # 0
    <3>1. certExp[u] = 0 \/ Fresh(u)
      BY <1>1, <2>1, <1>t DEF CertFee, Fresh
    <3> QED  BY <1>1, <1>t, <2>1, <3>1, StakingAssumption DEF OwesRenewal
  <2> QED  BY <2>1 DEF Renewed
<1> QED  BY <1>1, <1>3, <1>4, <1>t DEF ChargeOf, Ones

LEMMA TickCharge ==
    ASSUME PairedInv, JoinTypeOK, NEW n \in Nodes, ChargeOf(n), JoinTick
    PROVE  ChargeOf(n)'
<1>t. /\ now \in Nat /\ CertLife \in Nat \ {0}
      /\ certExp \in [Users -> Nat]
      /\ nominator \in [Nodes -> Users \cup {None}]
  BY SeenTypes
<1>1. /\ now' = now + 1
      /\ UNCHANGED <<nominator, stake, certExp, lastCertTimeTx, stakeCert>>
      /\ UNCHANGED <<charges, deposits, faults>>
      /\ pending' = {}
  BY DEF JoinTick, Tick, userVars, nodeVars, lockVars, pollVars, countVars
<1>2. RenewalsOf(n)' = {}
  BY <1>1 DEF RenewalsOf
<1>3. nominator[n] # None /\ Fresh(nominator[n])' => Fresh(nominator[n])
  BY <1>1, <1>t DEF Fresh
<1>4. OwesRenewal(n)' => OwesRenewal(n)
  BY <1>1, <1>2, <1>3 DEF OwesRenewal
<1>5. OwesForgotten(n)' => OwesForgotten(n)
  BY <1>1, <1>2, <1>3 DEF OwesForgotten, Enough
<1> QED  BY <1>1, <1>4, <1>5, ChargeKept

\* A renewal is injected when the node never injected one, or when what it renewed
\* is not the nominator's certificate any more or is past half of its time.
LEMMA RenewalOwed ==
    ASSUME PairedInv, JoinTypeOK, ExpiryIsNear, NEW n \in Nodes, MemoryOf(n), DueOf(n),
           MustRenew(n) \/ renewing[n],
           Enough(n), Fresh(nominator[n])
    PROVE  OwesRenewal(n) \/ OwesForgotten(n)
<1> DEFINE u == nominator[n]
<1>t. /\ now \in Nat /\ CertLife \in Nat \ {0}
      /\ certExp \in [Users -> Nat]
      /\ nominator \in [Nodes -> Users \cup {None}]
      /\ lastCertTimeTx \in [Nodes -> Nat]
      /\ stakeCert \in [Nodes -> Certificate \cup {NoCert}]
  BY SeenTypes
<1>1. u \in Users /\ u # None /\ certExp[u] \in Nat
  BY <1>t DEF Enough
<1>2. 2 * (now - (certExp[u] - CertLife)) < CertLife
  BY DEF Fresh
<1>3. CASE FirstTime(n)
  BY <1>3 DEF FirstTime, OwesForgotten
<1>4. CASE ~ FirstTime(n) /\ TimeIsExpired(n)
  <2>1. lastCertTimeTx[n] \in Nat /\ now - lastCertTimeTx[n] > CertLife
    BY <1>t, <1>4 DEF TimeIsExpired
  <2>2. lastCertTimeTx[n] < certExp[u] - CertLife
    BY <1>t, <1>1, <1>2, <2>1
  <2> QED  BY <1>1, <1>4, <2>2 DEF OwesRenewal, FirstTime
<1>5. CASE stakeCert[n] # NoCert /\ ExpiresSoon(stakeCert[n])
  <2>1. 10 * (now - (stakeCert[n].certExp - CertLife)) >= 7 * CertLife
    BY <1>5 DEF ExpiresSoon
  <2>2. stakeCert[n].certExp # certExp[u]
    <3> SUFFICES ASSUME stakeCert[n].certExp = certExp[u] PROVE FALSE
      OBVIOUS
    <3>1. 10 * (now - (certExp[u] - CertLife)) >= 7 * CertLife
      BY <2>1
    <3> QED  BY <3>1, <1>2, <1>1, <1>t
  <2> QED  BY <1>1, <1>5, <2>2 DEF OwesRenewal
<1>6. CASE renewing[n]
  <2>1. lastCertTimeTx[n] # 0 /\ lastCertTimeTx[n] < now
    BY <1>6 DEF MemoryOf
  <2>2. certExp[u] = now + CertLife
    BY <1>1, <1>6 DEF DueOf
  <2>3. certExp[u] - CertLife = now
    BY <2>2, <1>t
  <2> QED  BY <1>1, <2>1, <2>3 DEF OwesRenewal
<1> QED  BY <1>3, <1>4, <1>5, <1>6 DEF MustRenew

LEMMA RenewsCharge ==
    ASSUME PairedInv, JoinTypeOK, ExpiryIsNear, NEW n \in Nodes, MemoryOf(n), DueOf(n),
           ChargeOf(n), Renews(n) \/ RenewsQueried(n)
    PROVE  ChargeOf(n)'
<1> DEFINE u == nominator[n]
<1>t. /\ now \in Nat /\ CertLife \in Nat \ {0}
      /\ certExp \in [Users -> Nat]
      /\ nominator \in [Nodes -> Users \cup {None}]
      /\ lastCertTimeTx \in [Nodes -> Nat]
      /\ polled \in [Nodes -> Nat]
  BY SeenTypes
<1>1. /\ UNCHANGED <<now, nominator, stake, certExp>>
      /\ UNCHANGED <<charges, deposits>>
      /\ u \in Users
  BY <1>t, PollAccounts DEF OwnPoll
<1>2. /\ lastCertTimeTx'[n] = now /\ stakeCert'[n] = NoCert
      /\ faults'[n] = faults[n]
      /\ now # 0
      /\ MustRenew(n) \/ renewing[n]
  <2>1. CASE Renews(n)
    <3>1. /\ IsPoll(n) /\ MustRenew(n) /\ Faultless(n)
          /\ Remembers(n, now, NoCert, FALSE, renewing[n])
      BY <2>1, RenewsEffect
    <3> QED  BY <3>1, <1>t DEF Remembers, Faultless, IsPoll
  <2>2. CASE RenewsQueried(n)
    <3>1. /\ renewing[n] /\ Faultless(n)
          /\ Remembers(n, now, stakeCert[n], isReadyToJoin[n], FALSE)
      BY <2>2, RenewsQueriedEffect
    <3> QED  BY <3>1, <1>t DEF Remembers, Faultless, MemoryOf
  <2> QED  BY <2>1, <2>2
<1>3. ~ OwesForgotten(n)'
  BY <1>1, <1>2, <1>t DEF OwesForgotten
<1>4. ASSUME OwesRenewal(n)' PROVE OwesRenewal(n) \/ OwesForgotten(n)
  <2>1. CASE certExp[u] = 0
    BY <1>1, <2>1, <1>t, StakingAssumption DEF OwesRenewal
  <2>2. CASE certExp[u] # 0
    <3>1. certExp[u] \in Nat /\ certExp[u] <= now + CertLife
      BY <1>1, <1>t DEF ExpiryIsNear
    <3>2. ~ (now < certExp[u] - CertLife)
      BY <3>1, <1>t
    <3>3. Fresh(u) /\ Enough(n)
      BY <1>1, <1>2, <1>4, <2>2, <3>2 DEF OwesRenewal, Fresh, Enough
    <3> QED  BY <1>2, <3>3, RenewalOwed
  <2> QED  BY <2>1, <2>2
<1> QED  BY <1>1, <1>2, <1>3, <1>4, ChargeMoves

\* A renewal that the node does not learn of: the fault allows the charge.
LEMMA AnswerLostCharge ==
    ASSUME PairedInv, JoinTypeOK, ExpiryIsNear, NEW n \in Nodes, MemoryOf(n), DueOf(n),
           ChargeOf(n), AnswerLost(n)
    PROVE  ChargeOf(n)'
<1>t. deposits \in [Nodes -> Nat] /\ faults \in [Nodes -> 0 .. MaxFaults]
  BY SeenTypes
<1>1. /\ UNCHANGED <<now, nominator, stake, certExp>>
      /\ UNCHANGED <<charges, deposits>>
  BY PollAccounts DEF OwnPoll
<1>2. /\ Faulty(n)
      /\ MustRenew(n) \/ renewing[n]
      /\ lastCertTimeTx'[n] = lastCertTimeTx[n] /\ stakeCert'[n] = stakeCert[n]
  BY AnswerLostEffect DEF Remembers
<1>3. ASSUME OwesRenewal(n)' PROVE OwesRenewal(n) \/ OwesForgotten(n)
  <2>1. CASE Enough(n) /\ Fresh(nominator[n])
    BY <1>2, <2>1, RenewalOwed
  <2>2. CASE ~ (Enough(n) /\ Fresh(nominator[n]))
    BY <1>1, <1>2, <1>3, <2>2 DEF OwesRenewal, Fresh, Enough
  <2> QED  BY <2>1, <2>2
<1>4. /\ deposits'[n] \in Nat /\ faults'[n] \in Nat
      /\ deposits'[n] + faults'[n] >= deposits[n] + faults[n] + 1
  BY <1>1, <1>2, <1>t DEF Faulty
<1> QED  BY <1>1, <1>3, <1>4, ChargeAllowed

LEMMA QueryCharge ==
    ASSUME PairedInv, JoinTypeOK, NEW n \in Nodes, MemoryOf(n), ChargeOf(n),
           QuerySucceeds(n) \/ HasNoNominator(n) \/ Holds(n)
    PROVE  ChargeOf(n)'
<1>1. /\ UNCHANGED <<now, nominator, stake, certExp>>
      /\ UNCHANGED <<charges, deposits>>
      /\ RenewalsOf(n)' = RenewalsOf(n)
  BY PollAccounts DEF OwnPoll, QuerySucceeds, SignCertificate, HasNoNominator, Holds, vars,
         userVars, nodeVars, lockVars, RenewalsOf, countVars
<1>2. /\ lastCertTimeTx'[n] = lastCertTimeTx[n] /\ faults'[n] = faults[n]
      /\ \/ stakeCert'[n] \in {NoCert, stakeCert[n]}
         \/ stakeCert'[n].certExp = certExp[nominator[n]]
  <2>1. CASE QuerySucceeds(n)
    <3>1. /\ Faultless(n)
          /\ \/ Remembers(n, lastCertTimeTx[n], NoCert, FALSE, TRUE)
             \/ Remembers(n, lastCertTimeTx[n], Queried(n), TRUE, renewing[n])
      BY <2>1, QueryEffect
    <3>2. Queried(n).certExp = certExp[nominator[n]]
      BY DEF Queried
    <3> QED  BY <3>1, <3>2 DEF Remembers, Faultless
  <2>2. CASE HasNoNominator(n) \/ Holds(n)
    <3>1. /\ Faultless(n)
          /\ Remembers(n, lastCertTimeTx[n], stakeCert[n], isReadyToJoin'[n], renewing[n])
      BY <2>2, HoldsEffect
    <3> QED  BY <3>1 DEF Remembers, Faultless
  <2> QED  BY <2>1, <2>2
<1>3. OwesRenewal(n)' => OwesRenewal(n)
  BY <1>1, <1>2 DEF OwesRenewal, Fresh, Enough
<1>4. OwesForgotten(n)' => OwesForgotten(n)
  BY <1>1, <1>2 DEF OwesForgotten, Fresh, Enough
<1> QED  BY <1>1, <1>2, <1>3, <1>4, ChargeKept

\* A node that forgets its renewal may pay for one more: after a fault, and after a
\* refusal only when the certificate is not new.
LEMMA ForgetsCharge ==
    ASSUME PairedInv, JoinTypeOK, NEW n \in Nodes, MemoryOf(n), ChargeOf(n),
           \/ QueryRefused(n) \/ QueryFails(n)
           \/ PollFails(n) \/ RenewalFails(n) \/ Restarts(n)
    PROVE  ChargeOf(n)'
<1> DEFINE u == nominator[n]
<1>t. /\ now \in Nat /\ CertLife \in Nat \ {0}
      /\ certExp \in [Users -> Nat]
      /\ nominator \in [Nodes -> Users \cup {None}]
      /\ nominee \in [Users -> Nodes \cup {None}]
      /\ deposits \in [Nodes -> Nat] /\ faults \in [Nodes -> 0 .. MaxFaults]
      /\ polled \in [Nodes -> Nat]
      /\ \A v \in Users, k \in Nodes : nominee[v] = k <=> nominator[k] = v
  BY SeenTypes
<1>1. /\ UNCHANGED <<now, nominator, stake, certExp>>
      /\ UNCHANGED <<charges, deposits>>
      /\ RenewalsOf(n)' = RenewalsOf(n)
  BY PollAccounts DEF OwnPoll, QueryRefused, QueryFails, PollFails, RenewalFails, Restarts,
         vars, userVars, nodeVars, lockVars, RenewalsOf, countVars, IsFault, Disturbs
<1>2. /\ lastCertTimeTx'[n] \in {0, lastCertTimeTx[n]}
      /\ stakeCert'[n] \in {NoCert, stakeCert[n]}
      /\ \/ Faulty(n)
         \/ /\ Faultless(n)
            /\ \/ nominator[n] = None /\ lastCertTimeTx'[n] = lastCertTimeTx[n]
               \/ ~ MaySign(n) /\ IsPoll(n)
  <2>1. CASE QueryRefused(n) \/ QueryFails(n)
    <3>1. /\ IsPoll(n) /\ stakeCert[n] = NoCert
          /\ Faulty(n) \/ (~ MaySign(n) /\ Faultless(n))
          /\ \/ Remembers(n, 0, NoCert, FALSE, renewing[n])
             \/ Remembers(n, lastCertTimeTx[n], NoCert, FALSE, renewing[n])
      BY <2>1, RefusedEffect
    <3> QED  BY <3>1 DEF Remembers
  <2>2. CASE PollFails(n) \/ RenewalFails(n) \/ Restarts(n)
    <3>1. /\ Faulty(n) \/ (nominator[n] = None /\ Faultless(n))
          /\ \/ Remembers(n, lastCertTimeTx[n], stakeCert[n], FALSE, renewing[n])
             \/ Remembers(n, lastCertTimeTx[n], stakeCert[n], isReadyToJoin[n], FALSE)
             \/ Restarts(n) /\ Remembers(n, 0, NoCert, FALSE, FALSE)
      BY <2>2, FaultEffect
    <3>2. ASSUME Restarts(n) PROVE Faulty(n)
      BY <3>2, <1>t DEF Restarts, IsFault, Disturbs, Faulty, JoinTypeOK
    <3> QED  BY <3>1, <3>2 DEF Remembers
  <2> QED  BY <2>1, <2>2
<1>3. OwesRenewal(n)' => OwesRenewal(n)
  BY <1>1, <1>2 DEF OwesRenewal, Fresh, Enough
<1>4. CASE Faulty(n)
  <2>1. deposits'[n] \in Nat /\ faults'[n] \in Nat
        /\ deposits'[n] + faults'[n] >= deposits[n] + faults[n] + 1
    BY <1>1, <1>4, <1>t DEF Faulty
  <2> QED  BY <1>1, <1>3, <2>1, ChargeAllowed
<1>5. CASE /\ Faultless(n)
           /\ \/ nominator[n] = None /\ lastCertTimeTx'[n] = lastCertTimeTx[n]
              \/ ~ MaySign(n) /\ IsPoll(n)
  <2>1. OwesForgotten(n)' => OwesForgotten(n)
    <3>1. CASE nominator[n] = None /\ lastCertTimeTx'[n] = lastCertTimeTx[n]
      BY <1>1, <3>1 DEF OwesForgotten, Enough
    <3>2. CASE ~ MaySign(n) /\ IsPoll(n)
      <4> SUFFICES ASSUME OwesForgotten(n)' PROVE FALSE
        OBVIOUS
      <4>1. RenewalsOf(n) = {}
        BY <3>2, <1>t DEF IsPoll, MemoryOf
      <4>2. Enough(n) /\ Fresh(u) /\ u \in Users
        BY <1>1, <4>1, <1>t DEF OwesForgotten, Enough, Fresh
      <4>3. certExp[u] \in Nat /\ certExp[u] >= now
        BY <4>2, <1>t DEF Fresh
      <4> QED  BY <3>2, <4>2, <4>3, <1>t DEF MaySign, Enough
    <3> QED  BY <1>5, <3>1, <3>2
  <2> QED  BY <1>1, <1>3, <1>5, <2>1, ChargeKept DEF Faultless
<1> QED  BY <1>2, <1>4, <1>5

LEMMA NextCharge ==
    ASSUME PairedInv, ExpiryIsNear, JoinTypeOK, JoinTypeOK', MemoryInv, NEW n \in Nodes,
           ChargeOf(n), [JoinNext]_joinVars
    PROVE  ChargeOf(n)'
<1>1. MemoryOf(n) /\ DueOf(n)
  BY DEF MemoryInv
<1>2. \/ Aside(n) \/ Deposited(n) \/ Weakened(n) \/ Renewed(n)
      \/ OwnPoll(n) \/ JoinTick
  BY StepSeen
<1>3. CASE OwnPoll(n)
  <2>1. CASE Renews(n) \/ RenewsQueried(n)
    BY <1>1, <2>1, RenewsCharge
  <2>2. CASE QuerySucceeds(n) \/ HasNoNominator(n) \/ Holds(n)
    BY <1>1, <2>2, QueryCharge
  <2>3. CASE \/ QueryRefused(n) \/ QueryFails(n)
             \/ PollFails(n) \/ RenewalFails(n) \/ Restarts(n)
    BY <1>1, <2>3, ForgetsCharge
  <2>4. CASE AnswerLost(n)
    BY <1>1, <2>4, AnswerLostCharge
  <2> QED  BY <1>3, <2>1, <2>2, <2>3, <2>4 DEF OwnPoll
<1> QED  BY <1>1, <1>2, <1>3, AsideCharge, DepositedCharge, WeakenedCharge, RenewedCharge,
            TickCharge

LEMMA MemoryAlways == JoinSpec => []MemoryInv
<1>1. PairedInv /\ JoinTypeOK /\ MemoryInv /\ [JoinNext]_joinVars => MemoryInv'
  BY NextMemory
<1> QED  BY InitMemory, <1>1, JoinTyped, JoinImplementsStaking, PairedAlways, PTL DEF JoinSpec

\* The nominators of a node pay for its renewals at most once for each deposit on it
\* and each fault of it (set_cert_time.ts charges a renewal that comes in the first
\* half of a certificate's time): neither the polls of a node that waits for years
\* nor a nominator who moves between nodes adds a charge.
THEOREM JoinRenewalsFree == JoinSpec => []RenewalsAreFree
<1> DEFINE Charged == \A n \in Nodes : ChargeOf(n)
<1>1. /\ PairedInv /\ ExpiryIsNear /\ JoinTypeOK /\ JoinTypeOK' /\ MemoryInv
      /\ Charged /\ [JoinNext]_joinVars
      => Charged'
  BY NextCharge
<1>2. JoinTypeOK /\ Charged => RenewalsAreFree
  <2> SUFFICES ASSUME JoinTypeOK, Charged, NEW n \in Nodes
               PROVE  charges[n] <= deposits[n] + faults[n]
    BY DEF RenewalsAreFree
  <2>1. charges[n] \in Nat /\ deposits[n] \in Nat /\ faults[n] \in Nat
    BY DEF JoinTypeOK
  <2> QED  BY <2>1 DEF ChargeOf, Ones
<1>3. JoinInit => Charged
  BY InitCharge
<1>4. BackedInv => ExpiryIsNear
  BY DEF BackedInv
<1> HIDE DEF Charged
<1> QED  BY <1>1, <1>2, <1>3, <1>4, MemoryAlways, JoinTyped, JoinImplementsStaking,
            PairedAlways, BackedAlways, PTL DEF JoinSpec

-----------------------------------------------------------------------------
(* Readiness.  Since the last disturbance a staked node has either renewed *)
(* its certificate, from where the polls go on by themselves, or it waits  *)
(* for an earlier renewal, and it has not waited for long.                 *)

Since(n) == now - disturbed[n]

OnTime(n) ==
    LET u    == nominator[n]
        last == lastCertTimeTx[n]
    IN  \/ isReadyToJoin[n]
        \/ /\ last = now /\ polled[n] = now
           /\ stakeCert[n] = NoCert
           /\ RenewalFor(n, u) \in RenewalsOf(n) \/ certExp[u] > now
        \/ /\ last = now - 1 /\ last # 0 /\ polled[n] < now
           /\ stakeCert[n] = NoCert
           /\ certExp[u] >= now
        \/ renewing[n] /\ (last = now - 1 \/ Since(n) <= 4)

Waits(n) ==
    \/ /\ lastCertTimeTx[n] = 0
       /\ Since(n) <= 5
       /\ polled[n] = now => Since(n) <= 4
    \/ /\ lastCertTimeTx[n] # 0
       /\ lastCertTimeTx[n] <= disturbed[n]
       /\ Since(n) <= 4
       /\ polled[n] = now => Since(n) <= 3

ReadyOf(n) ==
    status[n] = "out" /\ Enough(n) /\ now > disturbed[n] => OnTime(n) \/ Waits(n)

LEMMA InitReady == JoinInit => \A n \in Nodes : ReadyOf(n)
  BY DEF JoinInit, Init, ReadyOf, Enough

\* A disturbance, or a node that nobody stakes enough on.
LEMMA DisturbedReady ==
    ASSUME NEW n \in Nodes, now' \in Nat, ~ Enough(n)' \/ disturbed'[n] = now'
    PROVE  ReadyOf(n)'
  BY DEF ReadyOf

LEMMA AsideReady ==
    ASSUME PairedInv, JoinTypeOK, NEW n \in Nodes, ReadyOf(n), Aside(n)
    PROVE  ReadyOf(n)'
<1>t. /\ now \in Nat /\ CertLife \in Nat \ {0}
      /\ certExp \in [Users -> Nat]
      /\ nominator \in [Nodes -> Users \cup {None}]
  BY SeenTypes
<1> SUFFICES ASSUME status'[n] = "out", Enough(n)', now' > disturbed'[n]
             PROVE  OnTime(n)' \/ Waits(n)'
  BY DEF ReadyOf
<1> DEFINE u == nominator[n]
<1>1. /\ now' = now /\ nominator'[n] = u
      /\ SameMemory(n) /\ SameCounts(n)
      /\ Enough(n)
      /\ RenewalFor(n, u) \in RenewalsOf(n) => RenewalFor(n, u) \in RenewalsOf(n)'
  BY DEF Aside, StakeIsSame, Enough
<1>2. OnTime(n) \/ Waits(n)
  BY <1>1 DEF ReadyOf, Aside, SameCounts
<1>3. Since(n)' = Since(n)
  BY <1>1 DEF Since, SameCounts
<1>4. certExp'[u] = certExp[u] \/ certExp'[u] = now + CertLife
  BY <1>1 DEF Aside, ExpiryIsSame, ExpiryIsNew, Enough
<1>5. ASSUME OnTime(n) PROVE OnTime(n)'
  BY <1>1, <1>3, <1>4, <1>5, <1>t DEF OnTime, SameMemory, RenewalFor
<1>6. ASSUME Waits(n) PROVE Waits(n)'
  BY <1>1, <1>3, <1>6 DEF Waits, SameMemory, SameCounts
<1> QED  BY <1>2, <1>5, <1>6

LEMMA RenewedReady ==
    ASSUME PairedInv, JoinTypeOK, NEW n \in Nodes, ReadyOf(n), Renewed(n)
    PROVE  ReadyOf(n)'
<1>t. now \in Nat /\ CertLife \in Nat \ {0}
  BY SeenTypes
<1> SUFFICES ASSUME status'[n] = "out", now' > disturbed'[n]
             PROVE  OnTime(n)' \/ Waits(n)'
  BY DEF ReadyOf
<1> DEFINE u == nominator[n]
<1>1. /\ now' = now /\ nominator'[n] = u /\ status'[n] = status[n]
      /\ SameMemory(n) /\ disturbed'[n] = disturbed[n]
      /\ Enough(n)
      /\ certExp'[u] = now + CertLife
  BY DEF Renewed, StakeIsSame
<1>2. OnTime(n) \/ Waits(n)
  BY <1>1 DEF ReadyOf
<1>3. Since(n)' = Since(n)
  BY <1>1 DEF Since
<1>5. ASSUME OnTime(n) PROVE OnTime(n)'
  BY <1>1, <1>3, <1>5, <1>t DEF OnTime, SameMemory
<1>6. ASSUME Waits(n) PROVE Waits(n)'
  BY <1>1, <1>3, <1>6 DEF Waits, SameMemory
<1> QED  BY <1>2, <1>5, <1>6

\* A new cycle: the node has polled, and what it injected was executed.
LEMMA TickReady ==
    ASSUME PairedInv, JoinTypeOK, NEW n \in Nodes, MemoryOf(n), ReadyOf(n), JoinTick
    PROVE  ReadyOf(n)'
<1>t. /\ now \in Nat
      /\ certExp \in [Users -> Nat]
      /\ nominator \in [Nodes -> Users \cup {None}]
      /\ lastCertTimeTx[n] \in Nat /\ polled[n] \in Nat /\ disturbed[n] \in Nat
  BY SeenTypes DEF JoinTypeOK
<1> SUFFICES ASSUME status'[n] = "out", Enough(n)', now' > disturbed'[n]
             PROVE  OnTime(n)' \/ Waits(n)'
  BY DEF ReadyOf
<1>1. /\ now' = now + 1 /\ RenewalsOf(n) = {}
      /\ UNCHANGED <<nominator, stake, certExp, status>>
      /\ lastCertTimeTx'[n] = lastCertTimeTx[n] /\ stakeCert'[n] = stakeCert[n]
      /\ isReadyToJoin'[n] = isReadyToJoin[n] /\ polled'[n] = polled[n]
      /\ disturbed'[n] = disturbed[n]
  BY DEF JoinTick, Tick, userVars, nodeVars, lockVars, netVars, pollVars, countVars, RenewalsOf
<1>2. polled[n] = now /\ ~ renewing[n]
  BY <1>1 DEF JoinTick
<1>3. Since(n)' = Since(n) + 1 /\ Since(n) \in Int
  BY <1>1, <1>t DEF Since
<1>4. CASE now > disturbed[n]
  <2>1. Enough(n) /\ nominator[n] \in Users
    BY <1>1, <1>t DEF Enough
  <2>2. OnTime(n) \/ Waits(n)
    BY <1>1, <1>4, <2>1 DEF ReadyOf
  <2>3. ASSUME Waits(n) PROVE Waits(n)'
    BY <1>1, <1>2, <1>3, <1>t, <2>3 DEF Waits
  <2>4. ASSUME OnTime(n) PROVE OnTime(n)'
    <3>1. \/ isReadyToJoin[n]
          \/ /\ lastCertTimeTx[n] = now
             /\ stakeCert[n] = NoCert
             /\ certExp[nominator[n]] > now
      BY <1>1, <1>2, <1>t, <2>4 DEF OnTime
    <3>2. certExp[nominator[n]] \in Nat
      BY <1>t, <2>1
    <3> QED  BY <1>1, <1>2, <1>4, <1>t, <3>1, <3>2 DEF OnTime
  <2> QED  BY <2>2, <2>3, <2>4
<1>5. CASE ~ (now > disturbed[n])
  <2>1. Since(n)' <= 1
    BY <1>1, <1>5, <1>t DEF Since
  <2>2. lastCertTimeTx'[n] <= disturbed'[n] /\ polled'[n] # now'
    BY <1>1, <1>2, <1>5, <1>t DEF MemoryOf
  <2>3. Since(n)' \in Int
    BY <1>3
  <2> QED  BY <2>1, <2>2, <2>3 DEF Waits
<1> QED  BY <1>4, <1>5

LEMMA PollReady ==
    ASSUME PairedInv, JoinTypeOK, JoinTypeOK', HeldInv, NEW n \in Nodes, MemoryOf(n), ReadyOf(n),
           OwnPoll(n)
    PROVE  ReadyOf(n)'
<1>t. /\ now \in Nat /\ now' \in Nat
      /\ certExp \in [Users -> Nat]
      /\ nominator \in [Nodes -> Users \cup {None}]
      /\ nominee \in [Users -> Nodes \cup {None}]
      /\ \A v \in Users, k \in Nodes : nominee[v] = k <=> nominator[k] = v
      /\ lastCertTimeTx[n] \in Nat /\ polled[n] \in Nat /\ disturbed[n] \in Nat
  BY SeenTypes DEF JoinTypeOK, TypeOK
<1> DEFINE u == nominator[n]
<1>a. UNCHANGED <<now, nominator, nominee, stake, certExp, status>>
  BY PollAccounts
<1>e. Enough(n)' <=> Enough(n)
  BY <1>a DEF Enough
<1>1. CASE Renews(n) \/ RenewsQueried(n)
  <2>1. RenewalFor(n, u) \in RenewalsOf(n)'
    BY <1>1, PollAccounts
  <2>2. lastCertTimeTx'[n] = now /\ stakeCert'[n] = NoCert /\ polled'[n] = now
    <3>1. CASE Renews(n)
      <4>1. IsPoll(n) /\ Remembers(n, now, NoCert, FALSE, renewing[n])
        BY <3>1, RenewsEffect
      <4> QED  BY <4>1 DEF IsPoll, Remembers
    <3>2. CASE RenewsQueried(n)
      <4>1. /\ renewing[n] /\ polled'[n] = polled[n]
            /\ Remembers(n, now, stakeCert[n], isReadyToJoin[n], FALSE)
        BY <3>2, RenewsQueriedEffect
      <4> QED  BY <4>1 DEF MemoryOf, Remembers
    <3> QED  BY <1>1, <3>1, <3>2
  <2>3. OnTime(n)'
    BY <1>a, <2>1, <2>2 DEF OnTime, RenewalFor
  <2> QED  BY <2>3 DEF ReadyOf
<1>2. CASE HasNoNominator(n) \/ Holds(n)
  <2>1. nominator[n] = None \/ isReadyToJoin'[n] = TRUE
    BY <1>2, HoldsEffect
  <2> QED  BY <1>a, <2>1 DEF ReadyOf, Enough, OnTime
<1>3. ASSUME IsPoll(n), Enough(n), now > disturbed[n],
             ~ MustRenew(n), stakeCert[n] = NoCert
      PROVE  /\ lastCertTimeTx[n] # 0
             /\ \/ lastCertTimeTx[n] = now - 1 /\ certExp[u] >= now
                \/ lastCertTimeTx[n] <= disturbed[n] /\ Since(n) <= 4
  <2>1. status[n] = "out" /\ polled[n] < now /\ lastCertTimeTx[n] # 0
    BY <1>3 DEF IsPoll, MustRenew, FirstTime
  <2>2. ~ isReadyToJoin[n] /\ ~ renewing[n]
    BY <1>3, <1>t, <2>1 DEF HeldInv, ReadyWhenFresh, MemoryOf
  <2>3. OnTime(n) \/ Waits(n)
    BY <1>3, <2>1 DEF ReadyOf
  <2> QED  BY <2>1, <2>2, <2>3, <1>t DEF OnTime, Waits
<1>4. CASE QuerySucceeds(n)
  <2> SUFFICES ASSUME Enough(n), now > disturbed[n] PROVE OnTime(n)'
    BY <1>4, <1>a, <1>e, QueryEffect DEF ReadyOf, Faultless
  <2>1. /\ IsPoll(n) /\ ~ MustRenew(n) /\ stakeCert[n] = NoCert
        /\ disturbed'[n] = disturbed[n]
        /\ \/ Remembers(n, lastCertTimeTx[n], NoCert, FALSE, TRUE)
           \/ Remembers(n, lastCertTimeTx[n], Queried(n), TRUE, renewing[n])
    BY <1>4, QueryEffect DEF Faultless
  <2>2. lastCertTimeTx[n] = now - 1 \/ Since(n) <= 4
    BY <1>3, <2>1
  <2>3. Since(n)' = Since(n)
    BY <1>a, <2>1 DEF Since
  <2> HIDE DEF Queried
  <2> QED  BY <1>a, <2>1, <2>2, <2>3 DEF OnTime, Remembers
<1>5. CASE QueryRefused(n) \/ QueryFails(n)
  <2>1. /\ IsPoll(n) /\ ~ MustRenew(n) /\ stakeCert[n] = NoCert
        /\ Faulty(n) \/ (~ MaySign(n) /\ Faultless(n))
        /\ \/ /\ now - lastCertTimeTx[n] >= 3
              /\ Remembers(n, 0, NoCert, FALSE, renewing[n])
           \/ /\ now - lastCertTimeTx[n] <= 3
              /\ Remembers(n, lastCertTimeTx[n], NoCert, FALSE, renewing[n])
    BY <1>5, RefusedEffect
  <2>2. CASE Faulty(n)
    BY <1>a, <1>t, <2>2, DisturbedReady DEF Faulty
  <2>3. CASE ~ MaySign(n) /\ Faultless(n)
    <3> SUFFICES ASSUME Enough(n), now > disturbed[n] PROVE Waits(n)'
      BY <1>a, <1>e, <2>3 DEF ReadyOf, Faultless
    <3>1. u \in Users /\ nominee[u] = n /\ stake[u] >= MinStake /\ u # None
      BY <1>t DEF Enough
    <3>2. ~ (certExp[u] >= now)
      BY <2>3, <3>1 DEF MaySign
    <3>3. lastCertTimeTx[n] # 0 /\ lastCertTimeTx[n] <= disturbed[n] /\ Since(n) <= 4
      BY <1>3, <2>1, <3>2
    <3>4. Since(n)' = Since(n) /\ disturbed'[n] = disturbed[n] /\ Since(n) = now - disturbed[n]
      BY <1>a, <2>3 DEF Since, Faultless
    <3>5. \/ lastCertTimeTx'[n] = 0
          \/ lastCertTimeTx'[n] = lastCertTimeTx[n] /\ now - lastCertTimeTx[n] <= 3
      BY <2>1 DEF Remembers
    <3>6. \/ lastCertTimeTx'[n] = 0
          \/ /\ lastCertTimeTx'[n] = lastCertTimeTx[n]
             /\ Since(n) <= 3
      BY <3>3, <3>4, <3>5, <1>t
    <3>7. Since(n) <= 5
      BY <3>3, <3>4, <1>t
    <3> QED  BY <3>3, <3>4, <3>6, <3>7 DEF Waits
  <2> QED  BY <2>1, <2>2, <2>3
<1>6. CASE PollFails(n) \/ AnswerLost(n) \/ RenewalFails(n) \/ Restarts(n)
  <2>1. Faulty(n) \/ nominator[n] = None
    BY <1>6, FaultEffect, AnswerLostEffect
  <2>2. ~ Enough(n)' \/ disturbed'[n] = now'
    BY <1>a, <2>1 DEF Faulty, Enough
  <2> QED  BY <1>t, <2>2, DisturbedReady
<1> QED  BY <1>1, <1>2, <1>4, <1>5, <1>6 DEF OwnPoll

LEMMA NextReady ==
    ASSUME PairedInv, JoinTypeOK, JoinTypeOK', HeldInv, MemoryInv, NEW n \in Nodes,
           ReadyOf(n), [JoinNext]_joinVars
    PROVE  ReadyOf(n)'
<1>1. MemoryOf(n) /\ now' \in Nat
  BY DEF MemoryInv, JoinTypeOK, TypeOK
<1>2. \/ Aside(n) \/ Deposited(n) \/ Weakened(n) \/ Renewed(n)
      \/ OwnPoll(n) \/ JoinTick
  BY StepSeen
<1>3. CASE Deposited(n) \/ Weakened(n)
  BY <1>1, <1>3, DisturbedReady DEF Deposited, Weakened
<1> QED  BY <1>1, <1>2, <1>3, AsideReady, RenewedReady, TickReady, PollReady

\* Whatever was lost, refused or forgotten (the module-level variables of index.ts
\* start anew with the process), a staked node that waits to join is ready again six
\* cycles after its last disturbance, and from then on it is not ready only in the
\* cycle of a renewal and the one after it.
THEOREM JoinGetsReady == JoinSpec => []GetsReady
<1> DEFINE Ready == \A n \in Nodes : ReadyOf(n)
<1>1. /\ PairedInv /\ JoinTypeOK /\ JoinTypeOK' /\ HeldInv /\ MemoryInv
      /\ Ready /\ [JoinNext]_joinVars
      => Ready'
  BY NextReady
<1>2. JoinTypeOK /\ Ready => GetsReady
  <2> SUFFICES ASSUME JoinTypeOK, Ready, NEW n \in Nodes,
                      status[n] = "out", Enough(n), now > disturbed[n] + 5
               PROVE  isReadyToJoin[n] \/ now <= lastCertTimeTx[n] + 1
    BY DEF GetsReady, Enough
  <2>1. now \in Nat /\ disturbed[n] \in Nat /\ lastCertTimeTx[n] \in Nat
    BY DEF JoinTypeOK, TypeOK
  <2>2. OnTime(n) \/ Waits(n)
    BY <2>1 DEF ReadyOf
  <2> QED  BY <2>1, <2>2 DEF OnTime, Waits, Since
<1>3. JoinInit => Ready
  BY InitReady
<1> HIDE DEF Ready
<1> QED  BY <1>1, <1>2, <1>3, MemoryAlways, HeldAlways, JoinTyped, JoinImplementsStaking,
            PairedAlways, PTL DEF JoinSpec
=============================================================================
