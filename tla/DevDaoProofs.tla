---------------------------- MODULE DevDaoProofs ----------------------------
(***************************************************************************)
(* Theorems about DevDao, for every value of its constants.                *)
(***************************************************************************)
EXTENDS DevDao, NetworkDaoProofs

MainInv == TypeOK /\ IssuesAreOrdered
DevInv == DevTypeOK /\ IssuesAreOrdered /\ DevMovesOnce

LEMMA DevInitInv == Init /\ DevInit => DevInv
<1> SUFFICES ASSUME Init, DevInit PROVE DevInv
  OBVIOUS
<1> USE DevDaoAssumption
<1>1. MainInv
  BY InitTyped DEF MainInv
<1>2. DevMovesOnce
  BY DEF DevInit, DevMovesOnce, DevIssues
<1> QED  BY <1>1, <1>2 DEF DevInit, DevInv, DevTypeOK, MainInv, NoWindows, DevIssues

\* The transactions of the dev DAO touch no more of the main one than a balance.
LEMMA MainUntouched ==
    ASSUME MainInv, UNCHANGED vars
    PROVE  MainInv'
  BY OtherTyped DEF MainInv

LEMMA DevProposalTyped ==
    ASSUME DevInv, NEW u \in Users, DevProposalTx(u)
    PROVE  DevInv'
<1> USE DevDaoAssumption
<1> DEFINE fee == DevProposalFee[current] + TransactionFee[current]
<1>t. /\ TypeOK
      /\ IssuesAreOrdered
      /\ balance \in [Users -> Nat]
      /\ devIssue \in DevIssues
      /\ devProposalCount \in [DevIssues -> 0 .. MaxDevProposals]
      /\ current \in Params
  BY DEF DevInv, DevTypeOK, TypeOK
<1>a. /\ devProposalCount[devIssue] < MaxDevProposals
      /\ balance[u] >= fee
      /\ balance' = [balance EXCEPT ![u] = @ - fee]
      /\ devProposalCount' = [devProposalCount EXCEPT ![devIssue] = @ + 1]
  BY DEF DevProposalTx, Pays
<1>u. /\ UNCHANGED <<now, networkVars, issueVars, globals, nodeVars>>
      /\ UNCHANGED <<devNetworkVars, devActive, devGlobals, devIntents>>
  BY DEF DevProposalTx
<1>1. fee \in Nat
  BY <1>t, Fees
<1>2. balance' \in [Users -> Nat]
  <2> HIDE DEF fee
  <2> QED  BY <1>t, <1>a, <1>1
<1>3. devProposalCount' \in [DevIssues -> 0 .. MaxDevProposals]
  BY <1>t, <1>a
<1>4. MainInv'
  BY <1>t, <1>u, <1>2 DEF MainInv, TypeOK, IssuesAreOrdered, networkVars, issueVars, nodeVars
<1> QED  BY <1>u, <1>3, <1>4 DEF DevInv, DevTypeOK, DevMovesOnce, MainInv, devNetworkVars

LEMMA DevNodeTyped ==
    ASSUME DevInv, DevIssueTx \/ DevTallyTx
    PROVE  DevInv'
<1> USE DevDaoAssumption
<1>t. /\ MainInv
      /\ now \in Nat
      /\ ApplyDelay \in Nat
      /\ devWindows \in Int
      /\ devIssue \in DevIssues
      /\ devActive \in [DevIssues -> {"absent", "active", "inactive"}]
      /\ devGlobals \subseteq ApplyDevTally \cup ApplyDevParameters
      /\ devIntents \subseteq DevDuty
  BY DaoAssumption DEF DevInv, DevTypeOK, TypeOK, MainInv
<1>u. /\ UNCHANGED <<vars, devNetworkVars, devProposalCount>>
      /\ devIntents' \subseteq DevDuty
  BY <1>t DEF DevIssueTx, DevTallyTx, DevInjects, devIssueVars
<1>1. MainInv'
  BY <1>t, <1>u, MainUntouched
<1>2. CASE DevIssueTx
  <2>1. /\ devActive[devIssue] = "absent"
        /\ devIssue # MaxDevIssue + 1
        /\ devActive' = [devActive EXCEPT ![devIssue] = "active"]
        /\ UNCHANGED devGlobals
    BY <1>2, <1>t DEF DevIssueTx, DevIssueIsValid, DevIssues
  <2>2. devActive' \in [DevIssues -> {"absent", "active", "inactive"}]
    BY <1>t, <2>1
  <2>3. DevMovesOnce'
    BY <1>t, <1>u, <2>1 DEF DevInv, DevMovesOnce, DevIssues, devNetworkVars
  <2> QED  BY <1>1, <1>u, <2>1, <2>2, <2>3
           DEF DevInv, DevTypeOK, MainInv, devNetworkVars
<1>3. CASE DevTallyTx
  <2> DEFINE m == [type |-> "apply_dev_tally", when |-> now + ApplyDelay,
                   nextDevWindows |-> FollowingDevWindows]
  <2>1. devGlobals' = devGlobals \cup {m} /\ UNCHANGED devActive
    BY <1>3 DEF DevTallyTx, devIssueVars
  <2>2. FollowingDevWindows \in Int
    BY <1>t, DaoAssumption DEF FollowingDevWindows, TotalDuration
  <2>3. m \in ApplyDevTally
    BY <1>t, <2>2 DEF ApplyDevTally
  <2>4. m.type # "apply_dev_parameters"
    OBVIOUS
  <2> HIDE DEF m
  <2>5. devGlobals' \subseteq ApplyDevTally \cup ApplyDevParameters
    BY <1>t, <2>1, <2>3
  <2>6. DevMovesOnce'
    BY <1>u, <2>1, <2>4 DEF DevInv, DevMovesOnce, devNetworkVars
  <2> QED  BY <1>1, <1>u, <2>1, <2>5, <2>6 DEF DevInv, DevTypeOK, MainInv, devNetworkVars
<1> QED  BY <1>2, <1>3

\* An issue is closed before anything is under way for it, so that what is sent
\* then is the only message to move on.
LEMMA DevParametersTyped ==
    ASSUME DevInv, DevParametersTx
    PROVE  DevInv'
<1> USE DevDaoAssumption
<1> DEFINE m == [type |-> "apply_dev_parameters", when |-> now + ApplyDelay,
                 devWindows |-> nextDevWindows, devIssue |-> devIssue + 1]
<1>t. /\ MainInv
      /\ now \in Nat
      /\ ApplyDelay \in Nat
      /\ nextDevWindows \in Int
      /\ devIssue \in DevIssues
      /\ devActive \in [DevIssues -> {"absent", "active", "inactive"}]
      /\ devGlobals \subseteq ApplyDevTally \cup ApplyDevParameters
      /\ devIntents \subseteq DevDuty
      /\ DevMovesOnce
  BY DaoAssumption DEF DevInv, DevTypeOK, TypeOK, MainInv
<1>a. /\ devActive[devIssue] = "active"
      /\ devActive' = [devActive EXCEPT ![devIssue] = "inactive"]
      /\ devGlobals' = devGlobals \cup {m}
  BY DEF DevParametersTx, DevParametersIsValid
<1>u. /\ UNCHANGED <<vars, devNetworkVars, devProposalCount>>
      /\ devIntents' \subseteq DevDuty
  BY <1>t DEF DevParametersTx, DevInjects
<1>1. MainInv'
  BY <1>t, <1>u, MainUntouched
<1>2. devIssue # MaxDevIssue + 1
  BY <1>t, <1>a DEF DevMovesOnce
<1>3. devIssue + 1 \in DevIssues
  BY <1>t, <1>2 DEF DevIssues
<1>4. m \in ApplyDevParameters
  BY <1>t, <1>3 DEF ApplyDevParameters
<1>5. \A n \in devGlobals : n.type # "apply_dev_parameters"
  BY <1>t, <1>a DEF DevMovesOnce
<1>6. /\ m.devIssue = devIssue' + 1
      /\ devActive'[devIssue'] = "inactive"
      /\ devActive'[MaxDevIssue + 1] = "absent"
  BY <1>t, <1>a, <1>u, <1>2 DEF DevMovesOnce, DevIssues, devNetworkVars
<1> HIDE DEF m
<1>7. DevMovesOnce'
  BY <1>a, <1>5, <1>6 DEF DevMovesOnce
<1>8. /\ devActive' \in [DevIssues -> {"absent", "active", "inactive"}]
      /\ devGlobals' \subseteq ApplyDevTally \cup ApplyDevParameters
  BY <1>t, <1>a, <1>4
<1> QED  BY <1>1, <1>u, <1>7, <1>8 DEF DevInv, DevTypeOK, MainInv, devNetworkVars

\* A message that is given up or applied leaves the others as they were.
LEMMA DevGlobalTyped ==
    ASSUME DevInv, NEW m \in devGlobals, DevDrop(m),
           \/ UNCHANGED devNetworkVars
           \/ ApplyDevTallyTx(m)
           \/ ApplyDevParametersTx(m)
    PROVE  DevInv'
<1>t. /\ MainInv
      /\ devGlobals \subseteq ApplyDevTally \cup ApplyDevParameters
      /\ DevMovesOnce
  BY DEF DevInv, DevTypeOK, MainInv
<1>u. /\ devGlobals' = devGlobals \ {m}
      /\ UNCHANGED <<vars, devActive, devProposalCount, devIntents>>
  BY DEF DevDrop, devIssueVars
<1>1. MainInv'
  BY <1>t, <1>u, MainUntouched
<1>2. CASE UNCHANGED devNetworkVars
  BY <1>1, <1>2, <1>u DEF DevInv, DevTypeOK, DevMovesOnce, MainInv, devNetworkVars
<1>3. CASE ApplyDevTallyTx(m)
  <2>1. /\ nextDevWindows' = m.nextDevWindows
        /\ UNCHANGED <<devWindows, devIssue>>
        /\ m.type = "apply_dev_tally"
    BY <1>3 DEF ApplyDevTallyTx
  <2>2. m.nextDevWindows \in Int
    BY <1>t, <2>1 DEF ApplyDevTally, ApplyDevParameters
  <2> QED  BY <1>1, <1>u, <2>1, <2>2 DEF DevInv, DevTypeOK, DevMovesOnce, MainInv
<1>4. CASE ApplyDevParametersTx(m)
  <2>1. /\ m.type = "apply_dev_parameters"
        /\ devWindows' = m.devWindows
        /\ nextDevWindows' = NoWindows
        /\ devIssue' = m.devIssue
    BY <1>4 DEF ApplyDevParametersTx
  <2>2. m.devWindows \in Int /\ m.devIssue \in DevIssues /\ NoWindows \in Int
    BY <1>t, <2>1 DEF ApplyDevTally, ApplyDevParameters, NoWindows
  <2>3. \A n \in devGlobals' : n.type # "apply_dev_parameters"
    BY <1>t, <1>u, <2>1 DEF DevMovesOnce
  <2>4. DevMovesOnce'
    BY <1>t, <1>u, <2>3 DEF DevMovesOnce
  <2> QED  BY <1>1, <1>u, <2>1, <2>2, <2>4 DEF DevInv, DevTypeOK, MainInv
<1> QED  BY <1>2, <1>3, <1>4

\* The other steps write nothing of the dev DAO but its windows and its duties.
LEMMA DevOtherTyped ==
    ASSUME DevInv, MainInv',
           UNCHANGED <<nextDevWindows, devIssue, devActive, devProposalCount, devGlobals>>,
           devWindows' \in Int,
           devIntents' \subseteq DevDuty
    PROVE  DevInv'
  BY DEF DevInv, DevTypeOK, DevMovesOnce, MainInv

LEMMA DevStepInv ==
    ASSUME DevInv, [DaoNext]_daoVars
    PROVE  DevInv'
<1>t. /\ MainInv
      /\ TypeOK /\ IssuesAreOrdered
      /\ devIntents \subseteq DevDuty
      /\ devWindows \in Int
  BY DEF DevInv, DevTypeOK, MainInv
<1>1. ASSUME MainInv', UNCHANGED devVars
      PROVE  DevInv'
  BY <1>1, <1>t, DevOtherTyped DEF devVars, devNetworkVars, devIssueVars
<1>2. ASSUME NEW m \in globals, ApplyMainParameters(m)
      PROVE  DevInv'
  <2>1. /\ ApplyParametersTx(m)
        /\ devWindows' \in {devWindows, m.devWindows}
        /\ UNCHANGED <<nextDevWindows, devIssue, devIssueVars, devGlobals, devIntents>>
    BY <1>2 DEF ApplyMainParameters
  <2>2. m.type = "apply_parameters" /\ globals \subseteq ApplyTally \cup ApplyParameters
    BY <1>t, <2>1 DEF ApplyParametersTx, TypeOK
  <2>3. m.devWindows \in Int
    BY <2>2 DEF ApplyTally, ApplyParameters
  <2>4. MainInv'
    BY <1>t, <2>1, OtherTyped DEF MainInv, GlobalTx
  <2> QED  BY <1>t, <2>1, <2>3, <2>4, DevOtherTyped DEF devIssueVars
<1>3. CASE MainStep
  <2>1. CASE UserTx /\ UNCHANGED devVars
    BY <1>t, <1>1, <2>1, UserTyped DEF MainInv
  <2>2. CASE NodeTx /\ UNCHANGED devVars
    BY <1>t, <1>1, <2>2, NodeTyped DEF MainInv
  <2>3. CASE (Fault \/ GlobalTx) /\ UNCHANGED devVars
    BY <1>t, <1>1, <2>3, OtherTyped DEF MainInv
  <2> QED  BY <1>2, <1>3, <2>1, <2>2, <2>3 DEF MainStep, GlobalTx
<1>4. ASSUME NEW duty \in DevDuty, DevRefused(duty) \/ DevNodeStops(duty)
      PROVE  DevInv'
  <2>1. /\ UNCHANGED <<vars, devNetworkVars, devIssueVars, devGlobals>>
        /\ devIntents' \subseteq DevDuty
    BY <1>t, <1>4 DEF DevRefused, DevNodeStops, DevInjects
  <2>2. MainInv'
    BY <1>t, <2>1, MainUntouched
  <2> QED  BY <1>t, <2>1, <2>2, DevOtherTyped DEF devNetworkVars, devIssueVars
<1>5. CASE DevTx
  BY <1>4, <1>5, DevProposalTyped, DevNodeTyped, DevParametersTyped DEF DevTx
<1>6. ASSUME NEW m \in devGlobals,
             \/ ApplyDevTallyTx(m)
             \/ ApplyDevParametersTx(m)
             \/ ApplyDevParametersRejected(m)
             \/ DevGlobalLost(m)
      PROVE  DevInv'
  BY <1>6, DevGlobalTyped
     DEF ApplyDevTallyTx, ApplyDevParametersTx, ApplyDevParametersRejected, DevGlobalLost
<1>7. CASE DevGlobalTx \/ DevFault
  BY <1>4, <1>6, <1>7 DEF DevGlobalTx, DevFault
<1>8. CASE MaintainBoth
  <2>1. /\ Maintain
        /\ devIntents' = devIntents \cup DevDuties
        /\ UNCHANGED <<devNetworkVars, devIssueVars, devGlobals>>
    BY <1>8 DEF MaintainBoth
  <2>2. DevDuties \subseteq DevDuty
    BY DEF DevDuties, DevDuty
  <2>3. MainInv'
    BY <1>t, <2>1, OtherTyped DEF MainInv
  <2> QED  BY <1>t, <2>1, <2>2, <2>3, DevOtherTyped DEF devNetworkVars, devIssueVars
<1>9. CASE TickBoth \/ UNCHANGED daoVars
  <2>1. (Tick \/ UNCHANGED vars) /\ UNCHANGED devVars
    BY <1>9 DEF TickBoth, daoVars
  <2> QED  BY <1>t, <1>1, <2>1, OtherTyped DEF MainInv
<1> QED  BY <1>3, <1>5, <1>7, <1>8, <1>9 DEF DaoNext

THEOREM DevDaoInvariant == DaoSpec => []DevInv
<1>1. DevInv /\ [DaoNext]_daoVars => DevInv'
  BY DevStepInv
<1> QED  BY <1>1, DevInitInv, PTL DEF DaoSpec

\* The variables of both DAOs, run side by side, keep their types: no balance is
\* negative, no count leaves its range, and every message has its fields.
THEOREM DevDaoTyped == DaoSpec => []DevTypeOK
<1>1. DevInv => DevTypeOK
  BY DEF DevInv
<1> QED  BY <1>1, DevDaoInvariant, PTL

\* At most one message that moves the network on is under way, and it names the
\* issue after the one the network is at, which is closed: whatever is lost, late or
\* reset (dev_parameters.ts fixes the number, apply_dev_parameters.ts writes it).
THEOREM DevDaoMovesOnce == DaoSpec => []DevMovesOnce
<1>1. DevInv => DevMovesOnce
  BY DEF DevInv
<1> QED  BY <1>1, DevDaoInvariant, PTL

\* Only an apply_dev_parameters message moves the network to another dev issue.
LEMMA OnlyItMovesOn ==
    ASSUME DevInv, [DaoNext]_daoVars, devIssue' # devIssue
    PROVE  \E m \in devGlobals : ApplyDevParametersTx(m)
<1>1. CASE MainStep
  BY <1>1 DEF MainStep, ApplyMainParameters, devVars, devNetworkVars
<1>2. CASE DevTx
  BY <1>2 DEF DevTx, DevProposalTx, DevIssueTx, DevTallyTx, DevParametersTx, DevRefused,
              DevInjects, devNetworkVars
<1>3. CASE DevGlobalTx
  BY <1>3 DEF DevGlobalTx, ApplyDevTallyTx, ApplyDevParametersRejected, devNetworkVars
<1>4. CASE DevFault
  BY <1>4 DEF DevFault, DevNodeStops, DevInjects, DevGlobalLost, devNetworkVars
<1>5. CASE MaintainBoth \/ TickBoth \/ UNCHANGED daoVars
  BY <1>5 DEF MaintainBoth, TickBoth, daoVars, devVars, devNetworkVars
<1> QED  BY <1>1, <1>2, <1>3, <1>4, <1>5 DEF DaoNext

\* Whatever is missed, lost, late or repeated, and whatever the resets of the main
\* DAO do to the windows, dev rounds are never skipped, repeated or rolled back.
THEOREM DevDaoRoundsInOrder == DaoSpec => DevRoundsInOrder
<1>1. ASSUME DevInv, [DaoNext]_daoVars, devIssue' # devIssue
      PROVE  devIssue' = devIssue + 1 /\ devActive[devIssue] = "inactive"
  <2>1. PICK m \in devGlobals : ApplyDevParametersTx(m)
    BY <1>1, OnlyItMovesOn
  <2> QED  BY <1>1, <2>1 DEF ApplyDevParametersTx, DevInv, DevMovesOnce
<1>2. DevInv /\ [DaoNext]_daoVars =>
        [devIssue' # devIssue =>
           devIssue' = devIssue + 1 /\ devActive[devIssue] = "inactive"]_daoVars
  BY <1>1
<1> QED  BY <1>2, DevDaoInvariant, PTL DEF DaoSpec, DevRoundsInOrder

\* No transaction is accepted for a closed dev issue, so that nothing is sent.
LEMMA ClosedStays ==
    ASSUME [DaoNext]_daoVars, devActive[devIssue] = "inactive"
    PROVE  UNCHANGED devActive /\ devGlobals' \subseteq devGlobals
<1>1. CASE MainStep
  BY <1>1 DEF MainStep, ApplyMainParameters, devVars, devIssueVars
<1>2. CASE DevTx
  <2>1. ~ DevIssueTx /\ ~ DevTallyTx /\ ~ DevParametersTx
    BY DEF DevIssueTx, DevTallyTx, DevParametersTx, DevIssueIsValid, DevTallyIsValid,
           DevParametersIsValid
  <2> QED  BY <1>2, <2>1 DEF DevTx, DevProposalTx, DevRefused, devIssueVars
<1>3. CASE DevGlobalTx \/ DevFault
  BY <1>3 DEF DevGlobalTx, DevFault, ApplyDevTallyTx, ApplyDevParametersTx,
              ApplyDevParametersRejected, DevNodeStops, DevGlobalLost, DevDrop, devIssueVars
<1>4. CASE MaintainBoth \/ TickBoth \/ UNCHANGED daoVars
  BY <1>4 DEF MaintainBoth, TickBoth, daoVars, devVars, devIssueVars
<1> QED  BY <1>1, <1>2, <1>3, <1>4 DEF DaoNext

\* A dev issue that is closed and has no successor on the way is the last one: no
\* later transaction, message or reset of the windows gets the dev DAO going again.
THEOREM DevDaoWedgeIsForever == DaoSpec => DevWedgeIsForever
<1>1. ASSUME DevInv, [DaoNext]_daoVars, DevWedged
      PROVE  DevWedged'
  <2>1. UNCHANGED devActive /\ devGlobals' \subseteq devGlobals
    BY <1>1, ClosedStays DEF DevWedged
  <2>2. ~ \E m \in devGlobals : ApplyDevParametersTx(m)
    BY <1>1 DEF DevInv, DevMovesOnce, DevWedged, DevSuccessorSent, ApplyDevParametersTx
  <2>3. UNCHANGED devIssue
    BY <1>1, <2>2, OnlyItMovesOn
  <2> QED  BY <1>1, <2>1, <2>3 DEF DevWedged, DevSuccessorSent, HasDevContent
<1>2. DevInv /\ [DaoNext]_daoVars => [DevWedged => DevWedged']_daoVars
  BY <1>1
<1> QED  BY <1>2, DevDaoInvariant, PTL DEF DaoSpec, DevWedgeIsForever

-----------------------------------------------------------------------------
(***************************************************************************)
(* The main DAO beside the dev DAO.                                        *)

\* A step of both is a step of the main one, or a dev proposal that a user pays for.
LEMMA MainSteps ==
    ASSUME [DaoNext]_daoVars
    PROVE  [Next]_vars \/ \E u \in Users : DevProposalTx(u)
<1>1. CASE MainStep
  BY <1>1 DEF MainStep, ApplyMainParameters, Next, GlobalTx
<1>2. CASE DevTx
  BY <1>2 DEF DevTx, DevIssueTx, DevTallyTx, DevParametersTx, DevRefused, DevInjects
<1>3. CASE DevGlobalTx \/ DevFault
  BY <1>3 DEF DevGlobalTx, DevFault, ApplyDevTallyTx, ApplyDevParametersTx,
              ApplyDevParametersRejected, DevNodeStops, DevGlobalLost, DevDrop, DevInjects
<1>4. CASE MaintainBoth \/ TickBoth \/ UNCHANGED daoVars
  BY <1>4 DEF MaintainBoth, TickBoth, daoVars, Next
<1> QED  BY <1>1, <1>2, <1>3, <1>4 DEF DaoNext

LEMMA MainRounds ==
    ASSUME DevInv, RoundInv, Timely, [DaoNext]_daoVars
    PROVE  RoundStep
<1>1. CASE [Next]_vars
  BY <1>1, RoundSteps
<1>2. CASE \E u \in Users : DevProposalTx(u)
  <2>1. UNCHANGED <<now, networkVars, issueVars, globals, nodeVars>>
    BY <1>2 DEF DevProposalTx
  <2>2. /\ UNCHANGED <<now, current, next, windows, issue, active, winnerId, parameters>>
        /\ UNCHANGED <<globals, intents>>
    BY <2>1 DEF networkVars, issueVars, nodeVars
  <2>3. TypeOK' /\ IssuesAreOrdered'
    BY DevStepInv DEF DevInv, DevTypeOK
  <2>4. Decision' = Decision
    BY <2>2 DEF Decision
  <2> QED  BY <2>2, <2>3, <2>4, RoundKept DEF RoundInv
<1> QED  BY <1>1, <1>2, MainSteps

\* With the resets and the maintenance loop that both DAOs share, the main one still
\* implements DaoRounds, and a wedged round of it is still the last one.
THEOREM BothImplementRounds ==
    ASSUME Timely
    PROVE  DaoSpec => ImplementsRounds /\ WedgeIsForever
<1>1. DevInv /\ RoundInv /\ [DaoNext]_daoVars =>
        DevInv' /\ RoundInv' /\ [Rounds!Next]_Rounds!roundVars /\ (Wedged => Wedged')
  BY MainRounds, DevStepInv DEF RoundStep
<1>2. Init => Rounds!Init
  BY DaoAssumption DEF Init, Rounds!Init, Stage, Decision, Issues
<1> QED  BY <1>1, <1>2, DevInitInv, RoundInit, PTL
         DEF DaoSpec, ImplementsRounds, Rounds!Spec, WedgeIsForever

\* No transaction of the dev DAO records a winner of the main one: what is recorded
\* is what docs/API.md asks for, also with both side by side.
THEOREM BothFollowTheRule == DaoSpec => TallyFollowsTheRule
<1> DEFINE Ruled == \A i \in Issues : winnerId'[i] # winnerId[i] => RuleOfTheTally(i, winnerId'[i])
<1>1. ASSUME DevInv, [DaoNext]_daoVars PROVE [Ruled]_vars
  <2>1. winnerId' = winnerId \/ \E w \in 1 .. MaxProposals : TallyTx(w)
    BY <1>1, MainSteps, OnlyTallies DEF DevProposalTx, issueVars
  <2> QED  BY <1>1, <2>1, WinnersByTally DEF DevInv, DevTypeOK
<1>2. DevInv /\ [DaoNext]_daoVars => [Ruled]_vars
  BY <1>1
<1> QED  BY <1>2, DevDaoInvariant, PTL DEF DaoSpec, TallyFollowsTheRule

-----------------------------------------------------------------------------
(***************************************************************************)
(* When every cycle is attended and the globals come in time.              *)

\* Each step of both DAOs leaves the main one in its stages.
LEMMA MainStages ==
    ASSUME DevInv, KeepInv, Punctual, [DaoNext]_daoVars
    PROVE  KeepInv'
<1>1. TypeOK' /\ IssuesAreOrdered'
  BY DevStepInv DEF DevInv, DevTypeOK
<1>2. CASE [Next]_vars
  BY <1>2, KeepStep
<1>3. CASE \E u \in Users : DevProposalTx(u)
  <2>1. UNCHANGED stageVars /\ UNCHANGED <<now, maintained>>
    BY <1>3 DEF DevProposalTx, stageVars, issueVars, nodeVars
  <2>2. Stages' /\ NoneAhead'
    BY <2>1, StageUnchanged DEF KeepInv
  <2>3. Clocked'
    BY <2>1 DEF KeepInv, Clocked, Mark
  <2> QED  BY <1>1, <2>2, <2>3 DEF KeepInv
<1> QED  BY <1>2, <1>3, MainSteps

\* A reset of the windows of both DAOs is under way.
CanReset ==
    \/ \E m \in globals : m.type = "apply_parameters" /\ m.devWindows # NoWindows
    \/ "network_windows" \in intents

\* The dev DAO has begun with the windows of the main one.
InStep == CanReset => devIssue = 1 /\ devWindows = windows /\ devGlobals = {}

\* A tally of the last round, due before the windows begin, and one of this round.
LateTally(m) ==
    /\ m.type = "apply_dev_tally" /\ m.nextDevWindows = devWindows
    /\ m.when + MaxLate < devWindows /\ now <= m.when + MaxLate
CurrentTally(m) ==
    /\ m.type = "apply_dev_tally" /\ m.nextDevWindows = devWindows + TotalDuration
    /\ devWindows <= m.when /\ m.when <= devWindows + 3 * WindowLen + ApplyDelay
    /\ now <= m.when + MaxLate

DevStarting ==
    /\ windows = NoWindows /\ devWindows = NoWindows /\ devIssue = 1
    /\ devActive[devIssue] = "absent" /\ devGlobals = {} /\ devIntents = {}

DevWaiting ==
    /\ windows \in Nat /\ devWindows \in Nat /\ devActive[devIssue] = "absent" /\ InStep
    /\ "dev_parameters" \notin devIntents
    /\ \A m \in devGlobals : LateTally(m)
    /\ \/ Mark <= devWindows + MaxLate
       \/ /\ "dev_issue" \in devIntents
          /\ devWindows <= now /\ now <= devWindows + WindowLen

\* The tally is still to be made, or decided upon, or under way, or was applied.
Tallied ==
    \/ Mark <= devWindows + 2 * WindowLen
    \/ /\ "dev_tally" \in devIntents
       /\ devWindows + 2 * WindowLen <= now /\ now < devWindows + 2 * WindowLen + 2 * CycleLen
    \/ \E m \in devGlobals :
          /\ CurrentTally(m)
          /\ m.when < devWindows + 2 * WindowLen + 2 * CycleLen + ApplyDelay
    \/ nextDevWindows = devWindows + TotalDuration /\ devWindows <= now

Closing ==
    \/ "dev_parameters" \notin devIntents /\ Mark <= devWindows + 3 * WindowLen
    \/ /\ "dev_parameters" \in devIntents
       /\ devWindows + 3 * WindowLen <= now /\ now < devWindows + 3 * WindowLen + 2 * CycleLen

DevOpened ==
    /\ windows \in Nat /\ devWindows \in Nat /\ devActive[devIssue] = "active" /\ InStep
    /\ \A m \in devGlobals : LateTally(m) \/ CurrentTally(m)
    /\ Tallied
    /\ Closing

\* The message to move on, of which there is one.
MovesOn(m) ==
    /\ m.type = "apply_dev_parameters" /\ m.devIssue = devIssue + 1
    /\ m.devWindows = devWindows + TotalDuration /\ now <= m.when + MaxLate
    /\ m.when < devWindows + 3 * WindowLen + 2 * CycleLen + ApplyDelay

DevClosed ==
    /\ windows \in Nat /\ devWindows \in Nat /\ devActive[devIssue] = "inactive" /\ ~ CanReset
    /\ "dev_parameters" \notin devIntents
    /\ \A m \in devGlobals : CurrentTally(m) \/ m.type = "apply_dev_parameters"
    /\ \E m \in devGlobals : MovesOn(m)

DevStages == DevStarting \/ DevWaiting \/ DevOpened \/ DevClosed
NoDevProposals == \A i \in DevIssues : devProposalCount[i] = 0
DevNoneAhead == \A i \in DevIssues : i > devIssue => devActive[i] = "absent"

DevKeepInv == DevInv /\ KeepInv /\ DevNoneAhead /\ (NoDevProposals => DevStages)

\* What the steps of a round without proposals start from.
DevRound == DevKeepInv /\ NoDevProposals /\ Punctual

LEMMA DevTimes ==
    ASSUME DevRound
    PROVE  /\ devIssue \in Nat /\ devIssue \in DevIssues
           /\ devActive \in [DevIssues -> {"absent", "active", "inactive"}]
           /\ devProposalCount[devIssue] = 0
           /\ devWindows \in Int /\ nextDevWindows \in Int
           /\ windows \in Nat \/ windows = NoWindows
           /\ WindowLen > 0
           /\ DevInv /\ KeepInv /\ Punctual /\ DevStages
<1>1. DevInv /\ KeepInv /\ Punctual /\ DevStages /\ NoDevProposals
  BY DEF DevRound, DevKeepInv
<1>2. /\ devIssue \in DevIssues /\ devIssue \in Nat /\ devWindows \in Int /\ nextDevWindows \in Int
      /\ devActive \in [DevIssues -> {"absent", "active", "inactive"}]
  BY <1>1, DevDaoAssumption DEF DevInv, DevTypeOK, DevIssues
<1>3. windows \in Nat \/ windows = NoWindows
  BY <1>1 DEF KeepInv, Stages, Starting, Waiting, Opened, Decided, Settled, Closed
<1> QED  BY <1>1, <1>2, <1>3, DaoAssumption DEF NoDevProposals

LEMMA DevMessages ==
    ASSUME DevInv, NEW m \in devGlobals
    PROVE  /\ m.when \in Nat /\ m.type \in {"apply_dev_tally", "apply_dev_parameters"}
           /\ m.type = "apply_dev_tally" => m.nextDevWindows \in Int
           /\ m.type = "apply_dev_parameters" => m.devWindows \in Int /\ m.devIssue \in DevIssues
  BY DEF DevInv, DevTypeOK, ApplyDevTally, ApplyDevParameters

\* Resets are over long before the dev tally.
LEMMA DevResetsEnd ==
    ASSUME KeepInv, Punctual, CanReset, windows \in Nat
    PROVE  /\ now < windows + 2 * WindowLen
           /\ MayReset
<1>1. MayReset
  <2>1. ~ Starting /\ ~ Decided /\ ~ Settled /\ ~ Closed
    BY DEF CanReset, Starting, NoWindows, Decided, Settled, Closed, Only
  <2> QED  BY <2>1 DEF KeepInv, Stages, Waiting, Opened
<1>2. ~ (windows + 2 * WindowLen <= now)
  BY <1>1, ResetsEnd DEF CanReset
<1> QED  BY <1>1, <1>2, Times

\* A reset that is under way was sent before the windows began.
LEMMA NoNewReset ==
    ASSUME KeepInv, Punctual, [Next]_vars, windows \in Nat, CanReset'
    PROVE  CanReset
<1>1. CASE UserTx \/ Tick \/ UNCHANGED vars
  BY <1>1 DEF UserTx, ProposalTx, VoteTx, Tick, vars, nodeVars, CanReset
<1>2. CASE NodeTx
  <2>1. CASE NetworkWindowsTx
    BY <2>1 DEF NetworkWindowsTx, Injects, CanReset
  <2>2. CASE IssueTx \/ \E duty \in Duty : Refused(duty)
    BY <2>2 DEF IssueTx, Refused, Injects, CanReset
  <2>3. ASSUME NEW w \in 1 .. MaxProposals, TallyTx(w) PROVE CanReset
    BY <2>3 DEF TallyTx, Injects, CanReset
  <2>4. CASE ParametersTx
    BY <2>4 DEF ParametersTx, Injects, CanReset
  <2> QED  BY <1>2, <2>1, <2>2, <2>3, <2>4 DEF NodeTx
<1>3. CASE GlobalTx
  BY <1>3 DEF GlobalTx, ApplyTallyTx, ApplyParametersTx, ApplyParametersRejected, Drop, nodeVars,
              CanReset
<1>4. CASE Maintain
  <2>1. WindowsKeepUp
    BY KeepsUp
  <2>2. windows # NoWindows /\ ~ WindowsAreStale
    BY <2>1, Times, DaoAssumption DEF WindowsKeepUp, WindowsAreStale, NoWindows
  <2>3. "network_windows" \notin Duties
    BY <2>2 DEF Duties
  <2> QED  BY <1>4, <2>3 DEF Maintain, CanReset
<1>5. ~ Fault
  BY DEF Punctual, Fault, NodeStops, GlobalLost, SkipMaintenance
<1> QED  BY <1>1, <1>2, <1>3, <1>4, <1>5 DEF Next

\* A step of the main DAO that does not touch the windows.
LEMMA DevMainStage ==
    ASSUME DevRound, [Next]_vars, UNCHANGED <<now, maintained, windows, devVars>>
    PROVE  DevStages'
<1>1. UNCHANGED <<devWindows, nextDevWindows, devIssue, devActive, devGlobals, devIntents>>
  BY DEF devVars, devNetworkVars, devIssueVars
<1>2. Mark' = Mark
  BY DEF Mark
<1>3. windows \in Nat => (CanReset' => CanReset)
  BY NoNewReset, DevTimes
<1>4. \A m : /\ LateTally(m) => LateTally(m)'
             /\ CurrentTally(m) => CurrentTally(m)'
             /\ MovesOn(m) => MovesOn(m)'
  BY <1>1 DEF LateTally, CurrentTally, MovesOn, TotalDuration
<1>5. ASSUME DevStarting PROVE DevStarting'
  BY <1>1, <1>5 DEF DevStarting
<1>6. ASSUME InStep, windows \in Nat PROVE InStep'
  BY <1>1, <1>3, <1>6 DEF InStep
<1>7. ASSUME DevWaiting PROVE DevWaiting'
  BY <1>1, <1>2, <1>4, <1>6, <1>7 DEF DevWaiting
<1>8. ASSUME Tallied, Closing PROVE Tallied' /\ Closing'
  BY <1>1, <1>2, <1>4, <1>8 DEF Tallied, Closing, TotalDuration
<1>9. ASSUME DevOpened PROVE DevOpened'
  BY <1>1, <1>4, <1>6, <1>8, <1>9 DEF DevOpened
<1>10. ASSUME DevClosed PROVE DevClosed'
  BY <1>1, <1>3, <1>4, <1>10 DEF DevClosed
<1> QED  BY <1>5, <1>7, <1>9, <1>10, DevTimes DEF DevStages

\* The end of a reset: the dev DAO begins with the main one, perhaps once more.
LEMMA DevResetStage ==
    ASSUME DevRound, NEW m \in globals, ApplyMainParameters(m)
    PROVE  DevStages'
<1>1. /\ ApplyParametersTx(m) /\ m.type = "apply_parameters"
      /\ windows' = m.windows /\ m.windows # NoWindows
      /\ globals' = globals \ {m}
      /\ devWindows' = IF m.devWindows = NoWindows THEN devWindows ELSE m.devWindows
      /\ UNCHANGED <<now, intents, maintained, nextDevWindows, devIssue, devActive,
                     devProposalCount, devGlobals, devIntents>>
  BY DEF ApplyMainParameters, ApplyParametersTx, HasContent, nodeVars, devIssueVars
<1>2. Mark' = Mark
  BY <1>1 DEF Mark
<1>3. DevInv /\ KeepInv /\ Punctual /\ DevStages /\ (windows \in Nat \/ windows = NoWindows)
  BY DevTimes
<1>4. m.when \in Nat /\ m.windows \in Int /\ m.devWindows \in Int
  BY <1>1, <1>3, Messages DEF KeepInv
<1>5. windows' \in Nat
  <2>1. GlobalTx
    BY <1>1 DEF GlobalTx
  <2>2. KeepInv'
    BY <1>3, <2>1, KeepStep DEF Next
  <2> QED  BY <1>1, <2>2 DEF KeepInv, Stages, Starting, Waiting, Opened, Decided, Settled, Closed
<1>6. CanReset' => CanReset
  BY <1>1 DEF CanReset
<1>7. ASSUME IsReset(m)
      PROVE  /\ devWindows' = windows' /\ Mark' <= devWindows' + MaxLate
  <2>1. m.windows = m.when + ApplyDelay /\ m.devWindows = m.windows /\ now <= m.when + MaxLate
    BY <1>7 DEF IsReset
  <2>2. devWindows' = windows' /\ devWindows' = m.when + ApplyDelay
    BY <1>1, <2>1
  <2>3. Mark <= m.when + ApplyDelay + MaxLate
    BY <1>3, <1>4, <2>1, Times
  <2> QED  BY <1>2, <2>2, <2>3, <1>4, <1>3, Times
<1>8. CASE DevStarting
  <2>1. windows = NoWindows /\ devGlobals = {} /\ devIntents = {} /\ devIssue = 1
        /\ devActive[devIssue] = "absent"
    BY <1>8 DEF DevStarting
  <2>2. IsReset(m)
    BY <1>3, <2>1 DEF KeepInv, Stages, Starting, Waiting, Opened, Decided, Settled, Closed, NoWindows
  <2>3. DevWaiting'
    BY <1>1, <1>5, <1>7, <2>1, <2>2 DEF DevWaiting, InStep
  <2> QED  BY <2>3 DEF DevStages
<1>9. CASE windows \in Nat /\ m.devWindows # NoWindows
  <2>1. CanReset
    BY <1>1, <1>9 DEF CanReset
  <2>2. IsReset(m) /\ now < windows + 2 * WindowLen
    BY <1>3, <1>9, <2>1, DevResetsEnd DEF MayReset
  <2>3. ~ DevStarting /\ ~ DevClosed
    BY <1>9, <2>1 DEF DevStarting, DevClosed, NoWindows
  <2>4. InStep /\ (DevWaiting \/ DevOpened)
    BY <1>3, <2>3 DEF DevStages, DevWaiting, DevOpened
  <2>5. devIssue = 1 /\ devWindows = windows /\ devGlobals = {}
    BY <2>1, <2>4 DEF InStep
  <2>6. InStep'
    BY <1>1, <1>7, <2>2, <2>5 DEF InStep
  <2>7. CASE DevWaiting
    <3>1. DevWaiting'
      BY <1>1, <1>5, <1>7, <2>2, <2>5, <2>6, <2>7 DEF DevWaiting
    <3> QED  BY <3>1 DEF DevStages
  <2>8. CASE DevOpened
    <3>1. "dev_parameters" \notin devIntents
      BY <1>3, <1>9, <2>2, <2>5, <2>8, Times DEF DevOpened, Closing
    <3>2. Mark' <= devWindows' + 2 * WindowLen /\ Mark' <= devWindows' + 3 * WindowLen
      BY <1>2, <1>3, <1>5, <1>7, <2>2, Times
    <3>3. Tallied' /\ Closing'
      BY <1>1, <3>1, <3>2 DEF Tallied, Closing
    <3>4. DevOpened'
      BY <1>1, <1>5, <1>7, <2>2, <2>5, <2>6, <2>8, <3>3 DEF DevOpened
    <3> QED  BY <3>4 DEF DevStages
  <2> QED  BY <2>4, <2>7, <2>8
<1>10. CASE windows \in Nat /\ m.devWindows = NoWindows
  <2>1. UNCHANGED <<devWindows, nextDevWindows, devIssue, devActive, devGlobals, devIntents>>
    BY <1>1, <1>10
  <2>2. ~ CanReset
    <3>1. ~ IsReset(m)
      BY <1>3, <1>4, <1>10, Times DEF IsReset, NoWindows
    <3>2. ~ MayReset
      BY <3>1 DEF MayReset
    <3> QED  BY <1>3, <1>10, <3>2, DevResetsEnd
  <2>3. ~ CanReset' /\ InStep'
    BY <1>6, <2>2 DEF InStep
  <2>4. \A n : /\ LateTally(n) => LateTally(n)'
               /\ CurrentTally(n) => CurrentTally(n)'
               /\ MovesOn(n) => MovesOn(n)'
    BY <1>1, <2>1 DEF LateTally, CurrentTally, MovesOn, TotalDuration
  <2>5. ASSUME DevWaiting PROVE DevWaiting'
    BY <1>1, <1>2, <1>5, <2>1, <2>3, <2>4, <2>5 DEF DevWaiting
  <2>6. ASSUME Tallied, Closing PROVE Tallied' /\ Closing'
    BY <1>1, <1>2, <2>1, <2>4, <2>6 DEF Tallied, Closing, TotalDuration
  <2>7. ASSUME DevOpened PROVE DevOpened'
    BY <1>5, <2>1, <2>3, <2>4, <2>6, <2>7 DEF DevOpened
  <2>8. ASSUME DevClosed PROVE DevClosed'
    BY <1>5, <2>1, <2>3, <2>4, <2>8 DEF DevClosed
  <2> QED  BY <1>3, <1>8, <2>5, <2>7, <2>8 DEF DevStages
<1> QED  BY <1>3, <1>8, <1>9, <1>10 DEF DevStages, DevWaiting, DevOpened, DevClosed

\* The transactions of the lucky node.

LEMMA DevIssueStage ==
    ASSUME DevRound, DevIssueTx
    PROVE  DevStages'
<1>1. /\ "dev_issue" \in devIntents /\ devIntents' = devIntents \ {"dev_issue"}
      /\ devActive[devIssue] = "absent" /\ devActive' = [devActive EXCEPT ![devIssue] = "active"]
      /\ devWindows # NoWindows /\ devWindows + (1 - 1) * WindowLen <= now
      /\ now <= devWindows + 1 * WindowLen
      /\ UNCHANGED <<now, windows, intents, globals, maintained, devWindows, nextDevWindows,
                     devIssue, devGlobals>>
  BY DEF DevIssueTx, DevIssueIsValid, InDevWindow, DevInjects, vars, networkVars, nodeVars,
         devNetworkVars
<1>2. Mark' = Mark /\ CanReset' = CanReset
  BY <1>1 DEF Mark, CanReset
<1>3. DevWaiting
  BY <1>1, DevTimes DEF DevStages, DevStarting, DevOpened, DevClosed
<1>4. /\ windows \in Nat /\ devWindows \in Nat /\ InStep /\ "dev_parameters" \notin devIntents
      /\ \A m \in devGlobals : LateTally(m)
      /\ Mark <= devWindows + MaxLate \/ now <= devWindows + WindowLen
  BY <1>3 DEF DevWaiting
<1>5. Mark' <= devWindows + 2 * WindowLen /\ Mark' <= devWindows + 3 * WindowLen
  BY <1>2, <1>4, DevTimes, Times
<1>6. devActive'[devIssue] = "active"
  BY <1>1, DevTimes
<1>7. Tallied' /\ Closing'
  BY <1>1, <1>4, <1>5 DEF Tallied, Closing
<1>8. \A m : LateTally(m)' = LateTally(m)
  BY <1>1 DEF LateTally
<1>9. InStep'
  BY <1>1, <1>2, <1>4 DEF InStep
<1>10. DevOpened'
  BY <1>1, <1>4, <1>6, <1>7, <1>8, <1>9 DEF DevOpened
<1> QED  BY <1>10 DEF DevStages

LEMMA DevTallyStage ==
    ASSUME DevRound, DevTallyTx
    PROVE  DevStages'
<1> DEFINE m == [type |-> "apply_dev_tally", when |-> now + ApplyDelay,
                 nextDevWindows |-> FollowingDevWindows]
<1>1. /\ "dev_tally" \in devIntents /\ devIntents' = devIntents \ {"dev_tally"}
      /\ devActive[devIssue] = "active" /\ devWindows # NoWindows
      /\ devWindows + (3 - 1) * WindowLen <= now /\ now <= devWindows + 3 * WindowLen
      /\ devGlobals' = devGlobals \cup {m}
      /\ UNCHANGED <<now, windows, intents, globals, maintained, devWindows, nextDevWindows,
                     devIssue, devActive>>
  BY DEF DevTallyTx, DevTallyIsValid, InDevWindow, DevInjects, vars, networkVars, nodeVars,
         devNetworkVars, devIssueVars
<1>2. Mark' = Mark /\ CanReset' = CanReset
  BY <1>1 DEF Mark, CanReset
<1>3. DevOpened
  BY <1>1, DevTimes DEF DevStages, DevStarting, DevWaiting, DevClosed
<1>4. /\ windows \in Nat /\ devWindows \in Nat /\ InStep /\ Tallied /\ Closing
      /\ \A n \in devGlobals : LateTally(n) \/ CurrentTally(n)
  BY <1>3 DEF DevOpened
<1>5. devWindows + 2 * WindowLen <= now
  BY <1>1, <1>4, DevTimes, Times
<1>6. /\ m.type = "apply_dev_tally" /\ m.when = now + ApplyDelay
      /\ m.nextDevWindows = devWindows + TotalDuration
  BY DEF FollowingDevWindows
<1> HIDE DEF m
<1>7. CurrentTally(m)
  <2>1. devWindows <= m.when /\ m.when <= devWindows + 3 * WindowLen + ApplyDelay
        /\ now <= m.when + MaxLate
    BY <1>1, <1>4, <1>5, <1>6, DevTimes, Times
  <2> QED  BY <1>6, <2>1 DEF CurrentTally
<1>8. \A n : LateTally(n)' = LateTally(n) /\ CurrentTally(n)' = CurrentTally(n)
  BY <1>1 DEF LateTally, CurrentTally, TotalDuration
<1>9. ~ CanReset
  <2> SUFFICES ASSUME CanReset PROVE FALSE
    OBVIOUS
  <2>1. devWindows = windows /\ now < windows + 2 * WindowLen
    BY <1>4, DevTimes, DevResetsEnd DEF InStep
  <2> QED  BY <1>4, <1>5, <2>1, DevTimes, Times
<1>10. InStep'
  BY <1>2, <1>9 DEF InStep
<1>11. Tallied'
  <2>1. CASE Mark <= devWindows + 2 * WindowLen
    BY <1>1, <1>2, <2>1 DEF Tallied
  <2>2. CASE now < devWindows + 2 * WindowLen + 2 * CycleLen
    <3>1. m.when < devWindows + 2 * WindowLen + 2 * CycleLen + ApplyDelay
      BY <1>4, <1>6, <2>2, DevTimes, Times
    <3> QED  BY <1>1, <1>7, <1>8, <3>1 DEF Tallied
  <2>3. CASE \E n \in devGlobals :
                /\ CurrentTally(n)
                /\ n.when < devWindows + 2 * WindowLen + 2 * CycleLen + ApplyDelay
    BY <1>1, <1>8, <2>3 DEF Tallied
  <2>4. CASE nextDevWindows = devWindows + TotalDuration /\ devWindows <= now
    BY <1>1, <2>4 DEF Tallied, TotalDuration
  <2> QED  BY <1>4, <2>1, <2>2, <2>3, <2>4 DEF Tallied
<1>12. Closing'
  BY <1>1, <1>2, <1>4 DEF Closing
<1>13. DevOpened'
  BY <1>1, <1>4, <1>7, <1>8, <1>10, <1>11, <1>12 DEF DevOpened
<1> QED  BY <1>13 DEF DevStages

\* When the round is closed its tally was applied, so that the windows that follow it are known.
LEMMA TallyWasApplied ==
    ASSUME DevRound, devWindows \in Nat, Tallied, devWindows + 3 * WindowLen <= now
    PROVE  nextDevWindows = devWindows + TotalDuration
<1>1. ~ (Mark <= devWindows + 2 * WindowLen)
  BY DevTimes, Times
<1>2. ~ (now < devWindows + 2 * WindowLen + 2 * CycleLen)
  BY DevTimes, Times
<1>3. ASSUME NEW m \in devGlobals, CurrentTally(m)
      PROVE  ~ (m.when < devWindows + 2 * WindowLen + 2 * CycleLen + ApplyDelay)
  <2>1. m.when \in Nat /\ now <= m.when + MaxLate
    BY <1>3, DevTimes, DevMessages DEF CurrentTally
  <2> QED  BY <2>1, DevTimes, Times
<1> QED  BY <1>1, <1>2, <1>3 DEF Tallied

LEMMA DevParametersStage ==
    ASSUME DevRound, DevParametersTx
    PROVE  DevStages'
<1> DEFINE m == [type |-> "apply_dev_parameters", when |-> now + ApplyDelay,
                 devWindows |-> nextDevWindows, devIssue |-> devIssue + 1]
<1>1. /\ "dev_parameters" \in devIntents /\ devIntents' = devIntents \ {"dev_parameters"}
      /\ devActive[devIssue] = "active"
      /\ devActive' = [devActive EXCEPT ![devIssue] = "inactive"]
      /\ devGlobals' = devGlobals \cup {m}
      /\ UNCHANGED <<now, windows, intents, globals, maintained, devWindows, nextDevWindows,
                     devIssue>>
  BY DEF DevParametersTx, DevParametersIsValid, DevInjects, vars, networkVars, nodeVars,
         devNetworkVars
<1>2. CanReset' = CanReset
  BY <1>1 DEF CanReset
<1>3. DevOpened
  BY <1>1, DevTimes DEF DevStages, DevStarting, DevWaiting, DevClosed
<1>4. /\ windows \in Nat /\ devWindows \in Nat /\ InStep /\ Tallied
      /\ \A n \in devGlobals : LateTally(n) \/ CurrentTally(n)
      /\ devWindows + 3 * WindowLen <= now /\ now < devWindows + 3 * WindowLen + 2 * CycleLen
  BY <1>1, <1>3 DEF DevOpened, Closing
<1>5. nextDevWindows = devWindows + TotalDuration
  BY <1>4, TallyWasApplied
<1>6. /\ m.type = "apply_dev_parameters" /\ m.when = now + ApplyDelay
      /\ m.devWindows = devWindows + TotalDuration /\ m.devIssue = devIssue + 1
  BY <1>5
<1> HIDE DEF m
<1>7. MovesOn(m)
  <2>1. /\ now <= m.when + MaxLate
        /\ m.when < devWindows + 3 * WindowLen + 2 * CycleLen + ApplyDelay
    BY <1>4, <1>6, DevTimes, Times
  <2> QED  BY <1>6, <2>1 DEF MovesOn
<1>8. \A n \in devGlobals : CurrentTally(n)
  <2> SUFFICES ASSUME NEW n \in devGlobals, LateTally(n) PROVE FALSE
    BY <1>4
  <2>1. n.when \in Nat /\ n.when + MaxLate < devWindows /\ now <= n.when + MaxLate
    BY DevTimes, DevMessages DEF LateTally
  <2> QED  BY <1>4, <2>1, DevTimes, Times
<1>9. \A n : CurrentTally(n)' = CurrentTally(n) /\ MovesOn(n)' = MovesOn(n)
  BY <1>1 DEF CurrentTally, MovesOn, TotalDuration
<1>10. ~ CanReset
  <2> SUFFICES ASSUME CanReset PROVE FALSE
    OBVIOUS
  <2>1. devWindows = windows /\ now < windows + 2 * WindowLen
    BY <1>4, DevTimes, DevResetsEnd DEF InStep
  <2> QED  BY <1>4, <2>1, DevTimes, Times
<1>11. devActive'[devIssue] = "inactive"
  BY <1>1, DevTimes
<1>12. DevClosed'
  BY <1>1, <1>2, <1>4, <1>6, <1>7, <1>8, <1>9, <1>10, <1>11 DEF DevClosed
<1> QED  BY <1>12 DEF DevStages

LEMMA DevRefusedStage ==
    ASSUME DevRound, NEW duty \in DevDuty, DevRefused(duty)
    PROVE  DevStages'
<1>1. /\ duty \in devIntents /\ devIntents' = devIntents \ {duty} /\ ~ DevIsValid(duty)
      /\ UNCHANGED <<now, windows, intents, globals, maintained, devWindows, nextDevWindows,
                     devIssue, devActive, devGlobals>>
  BY DEF DevRefused, DevInjects, vars, networkVars, nodeVars, devNetworkVars, devIssueVars
<1>2. Mark' = Mark /\ CanReset' = CanReset
  BY <1>1 DEF Mark, CanReset
<1>3. \A m : /\ LateTally(m)' = LateTally(m)
             /\ CurrentTally(m)' = CurrentTally(m)
             /\ MovesOn(m)' = MovesOn(m)
  BY <1>1 DEF LateTally, CurrentTally, MovesOn, TotalDuration
<1>4. InStep' = InStep
  BY <1>1, <1>2 DEF InStep
<1>5. ~ DevStarting
  BY <1>1 DEF DevStarting
<1>6. ASSUME DevWaiting PROVE DevWaiting'
  <2>1. devWindows \in Nat /\ devWindows # NoWindows /\ devActive[devIssue] = "absent"
    BY <1>6 DEF DevWaiting, NoWindows
  <2>2. ASSUME duty = "dev_issue", devWindows <= now, now <= devWindows + WindowLen PROVE FALSE
    <3>1. devWindows + (1 - 1) * WindowLen <= now /\ now <= devWindows + 1 * WindowLen
      BY <2>1, <2>2, DevTimes, Times
    <3>2. DevIssueIsValid
      BY <2>1, <3>1 DEF DevIssueIsValid, InDevWindow
    <3> QED  BY <1>1, <2>2, <3>2 DEF DevIsValid
  <2> QED  BY <1>1, <1>2, <1>3, <1>4, <1>6, <2>2 DEF DevWaiting
<1>7. ASSUME DevOpened PROVE DevOpened'
  <2>1. /\ devWindows \in Nat /\ devWindows # NoWindows /\ devActive[devIssue] = "active"
        /\ Tallied /\ Closing
    BY <1>7 DEF DevOpened, NoWindows
  <2>2. ASSUME duty = "dev_tally", devWindows + 2 * WindowLen <= now,
               now < devWindows + 2 * WindowLen + 2 * CycleLen
        PROVE  FALSE
    <3>1. devWindows + (3 - 1) * WindowLen <= now /\ now <= devWindows + 3 * WindowLen
      BY <2>1, <2>2, DevTimes, Times
    <3>2. DevTallyIsValid
      BY <2>1, <3>1, DevTimes DEF DevTallyIsValid, InDevWindow
    <3> QED  BY <1>1, <2>2, <3>2 DEF DevIsValid
  <2>3. Tallied'
    <3>1. CASE \E m \in devGlobals :
                  /\ CurrentTally(m)
                  /\ m.when < devWindows + 2 * WindowLen + 2 * CycleLen + ApplyDelay
      BY <1>1, <1>3, <3>1 DEF Tallied
    <3> QED  BY <1>1, <1>2, <2>1, <2>2, <3>1 DEF Tallied, TotalDuration
  <2>4. ASSUME duty = "dev_parameters", devWindows + 3 * WindowLen <= now,
               now < devWindows + 3 * WindowLen + 2 * CycleLen
        PROVE  FALSE
    <3>1. devWindows + (4 - 1) * WindowLen <= now /\ now <= devWindows + 4 * WindowLen
      BY <2>1, <2>4, DevTimes, Times
    <3>2. DevParametersIsValid
      BY <2>1, <3>1 DEF DevParametersIsValid, InDevWindow
    <3> QED  BY <1>1, <2>4, <3>2 DEF DevIsValid
  <2>5. Closing'
    BY <1>1, <1>2, <2>1, <2>4 DEF Closing
  <2> QED  BY <1>1, <1>3, <1>4, <1>7, <2>3, <2>5 DEF DevOpened
<1>8. ASSUME DevClosed PROVE DevClosed'
  BY <1>1, <1>2, <1>3, <1>8 DEF DevClosed
<1> QED  BY <1>5, <1>6, <1>7, <1>8, DevTimes DEF DevStages

\* The global messages.

LEMMA DevTallyAppliedStage ==
    ASSUME DevRound, NEW m \in devGlobals, ApplyDevTallyTx(m)
    PROVE  DevStages'
<1>1. /\ m.type = "apply_dev_tally" /\ m.when <= now
      /\ nextDevWindows' = m.nextDevWindows /\ devGlobals' = devGlobals \ {m}
      /\ UNCHANGED <<now, windows, intents, globals, maintained, devWindows,
                     devIssue, devActive, devIntents>>
  BY DEF ApplyDevTallyTx, DevDue, DevDrop, vars, networkVars, nodeVars, devIssueVars
<1>2. Mark' = Mark /\ CanReset' = CanReset
  BY <1>1 DEF Mark, CanReset
<1>3. \A n : /\ LateTally(n)' = LateTally(n)
             /\ CurrentTally(n)' = CurrentTally(n)
             /\ MovesOn(n)' = MovesOn(n)
  BY <1>1 DEF LateTally, CurrentTally, MovesOn, TotalDuration
<1>4. InStep => InStep'
  BY <1>1, <1>2 DEF InStep
<1>5. ~ DevStarting
  BY DEF DevStarting
<1>6. ASSUME DevWaiting PROVE DevWaiting'
  BY <1>1, <1>2, <1>3, <1>4, <1>6 DEF DevWaiting
<1>7. ASSUME DevOpened PROVE DevOpened'
  <2>1. devWindows \in Nat /\ Tallied /\ (LateTally(m) \/ CurrentTally(m))
    BY <1>7 DEF DevOpened
  <2>2. m.when \in Nat
    BY DevTimes, DevMessages
  <2>3. CASE CurrentTally(m)
    <3>1. m.nextDevWindows = devWindows + TotalDuration /\ devWindows <= now
      BY <1>1, <2>1, <2>2, <2>3, DevTimes, Times DEF CurrentTally
    <3> QED  BY <1>1, <1>3, <1>4, <1>2, <1>7, <3>1 DEF DevOpened, Tallied, Closing, TotalDuration
  <2>4. CASE LateTally(m)
    <3>1. now < devWindows /\ m.nextDevWindows = devWindows
      BY <2>1, <2>2, <2>4, DevTimes, Times DEF LateTally
    <3>2. ~ CurrentTally(m)
      BY <2>1, <3>1, DevTimes, Times DEF CurrentTally
    <3>3. CASE \E n \in devGlobals :
                  /\ CurrentTally(n)
                  /\ n.when < devWindows + 2 * WindowLen + 2 * CycleLen + ApplyDelay
      <4>1. Tallied'
        BY <1>1, <1>3, <3>2, <3>3 DEF Tallied
      <4> QED  BY <1>1, <1>2, <1>3, <1>4, <1>7, <4>1 DEF DevOpened, Closing
    <3>4. CASE Mark <= devWindows + 2 * WindowLen
      <4>1. Tallied'
        BY <1>1, <1>2, <3>4 DEF Tallied
      <4> QED  BY <1>1, <1>2, <1>3, <1>4, <1>7, <4>1 DEF DevOpened, Closing
    <3>5. ~ (devWindows <= now) /\ ~ (devWindows + 2 * WindowLen <= now)
      BY <2>1, <3>1, DevTimes, Times
    <3> QED  BY <2>1, <3>3, <3>4, <3>5 DEF Tallied
  <2> QED  BY <2>1, <2>3, <2>4
<1>8. ASSUME DevClosed PROVE DevClosed'
  <2>1. ~ MovesOn(m)
    BY <1>1 DEF MovesOn
  <2> QED  BY <1>1, <1>2, <1>3, <1>8, <2>1 DEF DevClosed
<1> QED  BY <1>5, <1>6, <1>7, <1>8, DevTimes DEF DevStages

\* The message that is applied, or refused, is the one that moves on.
LEMMA ItMovesOn ==
    ASSUME DevRound, NEW m \in devGlobals, m.type = "apply_dev_parameters"
    PROVE  DevClosed /\ MovesOn(m) /\ \A n \in devGlobals : n = m \/ CurrentTally(n)
<1>1. DevClosed
  BY DevTimes DEF DevStages, DevStarting, DevWaiting, DevOpened, LateTally, CurrentTally
<1>2. PICK n \in devGlobals : MovesOn(n)
  BY <1>1 DEF DevClosed
<1>3. \A k \in devGlobals : k.type = "apply_dev_parameters" => k = m
  BY DevTimes DEF DevInv, DevMovesOnce
<1>4. n = m
  BY <1>2, <1>3 DEF MovesOn
<1> QED  BY <1>1, <1>2, <1>3, <1>4 DEF DevClosed

LEMMA DevParametersAppliedStage ==
    ASSUME DevRound, NEW m \in devGlobals, ApplyDevParametersTx(m)
    PROVE  DevStages'
<1>1. /\ m.type = "apply_dev_parameters"
      /\ devWindows' = m.devWindows /\ devIssue' = m.devIssue /\ devGlobals' = devGlobals \ {m}
      /\ UNCHANGED <<now, windows, intents, globals, maintained, devActive, devIntents>>
  BY DEF ApplyDevParametersTx, DevDrop, vars, networkVars, nodeVars, devIssueVars
<1>2. Mark' = Mark /\ CanReset' = CanReset
  BY <1>1 DEF Mark, CanReset
<1>3. DevClosed /\ MovesOn(m) /\ \A n \in devGlobals : n = m \/ CurrentTally(n)
  BY <1>1, ItMovesOn
<1>4. /\ windows \in Nat /\ devWindows \in Nat /\ ~ CanReset /\ "dev_parameters" \notin devIntents
      /\ m.devIssue = devIssue + 1 /\ m.devWindows = devWindows + TotalDuration
      /\ now <= m.when + MaxLate
      /\ m.when < devWindows + 3 * WindowLen + 2 * CycleLen + ApplyDelay
      /\ m.when \in Nat /\ m.devIssue \in DevIssues
  BY <1>1, <1>3, DevTimes, DevMessages DEF DevClosed, MovesOn
<1>5. devWindows' = devWindows + 4 * WindowLen /\ devWindows' \in Nat
  BY <1>1, <1>4, DevTimes, Times
<1>6. devActive'[devIssue'] = "absent"
  <2>1. devIssue' \in DevIssues /\ devIssue' > devIssue
    BY <1>1, <1>4, DevTimes
  <2> QED  BY <1>1, <2>1 DEF DevRound, DevKeepInv, DevNoneAhead
<1>7. \A n \in devGlobals' : LateTally(n)'
  <2> SUFFICES ASSUME NEW n \in devGlobals' PROVE LateTally(n)'
    OBVIOUS
  <2>1. n \in devGlobals /\ CurrentTally(n)
    BY <1>1, <1>3
  <2>2. /\ n.when \in Nat /\ n.type = "apply_dev_tally"
        /\ n.nextDevWindows = devWindows + TotalDuration
        /\ n.when <= devWindows + 3 * WindowLen + ApplyDelay /\ now <= n.when + MaxLate
    BY <2>1, DevTimes, DevMessages DEF CurrentTally
  <2>3. n.when + MaxLate < devWindows'
    BY <1>4, <1>5, <2>2, DevTimes, Times
  <2> QED  BY <1>1, <1>4, <2>2, <2>3 DEF LateTally
<1>8. Mark' <= devWindows' + MaxLate
  BY <1>2, <1>4, <1>5, DevTimes, Times
<1>9. DevWaiting'
  BY <1>1, <1>2, <1>4, <1>5, <1>6, <1>7, <1>8 DEF DevWaiting, InStep
<1> QED  BY <1>9 DEF DevStages

LEMMA DevNothingRejected ==
    ASSUME DevRound, NEW m \in devGlobals, ApplyDevParametersRejected(m)
    PROVE  FALSE
<1>1. m.type = "apply_dev_parameters" /\ m.devWindows = NoWindows
  BY DEF ApplyDevParametersRejected, HasDevContent
<1>2. devWindows \in Nat /\ m.devWindows = devWindows + TotalDuration
  BY <1>1, ItMovesOn DEF DevClosed, MovesOn
<1> QED  BY <1>1, <1>2, DevTimes, Times DEF NoWindows

\* The maintenance of a cycle and the clock.

LEMMA DevMaintainStage ==
    ASSUME DevRound, MaintainBoth
    PROVE  DevStages'
<1>1. /\ Maintain /\ devIntents' = devIntents \cup DevDuties
      /\ UNCHANGED <<now, windows, globals, devWindows, nextDevWindows, devIssue, devActive,
                     devGlobals>>
  BY DEF MaintainBoth, Maintain, networkVars, devNetworkVars, devIssueVars
<1>2. DevInv /\ KeepInv /\ Punctual
  BY DevTimes
<1>3. Mark' \in Int /\ Mark' <= now
  BY <1>1, <1>2, ClockMaintained DEF KeepInv
<1>4. windows \in Nat => (CanReset' => CanReset)
  BY <1>1, <1>2, NoNewReset DEF Next
<1>5. \A m : /\ LateTally(m)' = LateTally(m)
             /\ CurrentTally(m)' = CurrentTally(m)
             /\ MovesOn(m)' = MovesOn(m)
  BY <1>1 DEF LateTally, CurrentTally, MovesOn, TotalDuration
<1>6. windows \in Nat /\ InStep => InStep'
  BY <1>1, <1>4 DEF InStep
<1>7. ASSUME windows \in Nat, devWindows \in Nat
      PROVE  /\ "dev_issue" \in DevDuties <=>
                  /\ devWindows <= now /\ now <= devWindows + WindowLen
                  /\ devActive[devIssue] = "absent"
             /\ "dev_tally" \in DevDuties <=>
                  devWindows + 2 * WindowLen <= now /\ now <= devWindows + 3 * WindowLen
             /\ "dev_parameters" \in DevDuties <=>
                  /\ devWindows + 3 * WindowLen <= now /\ now <= devWindows + 4 * WindowLen
                  /\ devActive[devIssue] = "active"
  <2>1. WindowsKeepUp
    BY <1>2, KeepsUp
  <2>2. windows # NoWindows /\ ~ WindowsAreStale /\ devWindows # NoWindows
    BY <1>2, <1>7, <2>1, DevTimes, Times DEF WindowsKeepUp, WindowsAreStale, NoWindows
  <2>3. DevDuties = {duty \in DevDuty :
            \/ duty = "dev_issue" /\ InDevWindow(1) /\ devActive[devIssue] = "absent"
            \/ duty = "dev_tally" /\ InDevWindow(3)
            \/ duty = "dev_parameters" /\ InDevWindow(4) /\ devActive[devIssue] = "active"}
    BY <2>2 DEF DevDuties
  <2>4. InDevWindow(1) <=> devWindows <= now /\ now <= devWindows + WindowLen
    BY <1>2, <1>7, <2>2, Times DEF InDevWindow
  <2>5. InDevWindow(3) <=> devWindows + 2 * WindowLen <= now /\ now <= devWindows + 3 * WindowLen
    BY <1>2, <1>7, <2>2, Times DEF InDevWindow
  <2>6. InDevWindow(4) <=> devWindows + 3 * WindowLen <= now /\ now <= devWindows + 4 * WindowLen
    BY <1>2, <1>7, <2>2, Times DEF InDevWindow
  <2> QED  BY <2>3, <2>4, <2>5, <2>6 DEF DevDuty
<1>8. ASSUME DevStarting PROVE DevStarting'
  BY <1>1, <1>8 DEF DevStarting, DevDuties
<1>9. ASSUME DevWaiting PROVE DevWaiting'
  <2>1. /\ windows \in Nat /\ devWindows \in Nat /\ devActive[devIssue] = "absent" /\ InStep
        /\ "dev_parameters" \notin devIntents /\ \A m \in devGlobals : LateTally(m)
    BY <1>9 DEF DevWaiting
  <2>2. now <= devWindows + WindowLen
    BY <1>2, <1>9, <2>1, DevTimes, Times DEF DevWaiting
  <2>3. "dev_parameters" \notin DevDuties /\ (devWindows <= now => "dev_issue" \in DevDuties)
    BY <1>7, <2>1, <2>2
  <2>4. Mark' <= devWindows' + MaxLate \/ devWindows <= now
    BY <1>1, <1>2, <1>3, <2>1, Times
  <2> QED  BY <1>1, <1>5, <1>6, <2>1, <2>2, <2>3, <2>4 DEF DevWaiting
<1>10. ASSUME DevOpened PROVE DevOpened'
  <2>1. /\ windows \in Nat /\ devWindows \in Nat /\ devActive[devIssue] = "active" /\ InStep
        /\ \A m \in devGlobals : LateTally(m) \/ CurrentTally(m)
        /\ Tallied /\ Closing
    BY <1>10 DEF DevOpened
  <2>2. Tallied'
    <3>1. CASE Mark <= devWindows + 2 * WindowLen
      <4>1. now < devWindows + 2 * WindowLen + 2 * CycleLen /\ now <= devWindows + 3 * WindowLen
        BY <1>2, <2>1, <3>1, Times
      <4>2. CASE devWindows + 2 * WindowLen <= now
        BY <1>1, <1>7, <2>1, <4>1, <4>2 DEF Tallied
      <4>3. CASE ~ (devWindows + 2 * WindowLen <= now)
        <5>1. Mark' <= devWindows + 2 * WindowLen
          BY <1>2, <1>3, <2>1, <4>3, Times
        <5> QED  BY <1>1, <5>1 DEF Tallied
      <4> QED  BY <4>2, <4>3
    <3>2. CASE /\ "dev_tally" \in devIntents /\ devWindows + 2 * WindowLen <= now
               /\ now < devWindows + 2 * WindowLen + 2 * CycleLen
      BY <1>1, <3>2 DEF Tallied
    <3>3. CASE \E m \in devGlobals :
                  /\ CurrentTally(m)
                  /\ m.when < devWindows + 2 * WindowLen + 2 * CycleLen + ApplyDelay
      BY <1>1, <1>5, <3>3 DEF Tallied
    <3>4. CASE nextDevWindows = devWindows + TotalDuration /\ devWindows <= now
      BY <1>1, <3>4 DEF Tallied, TotalDuration
    <3> QED  BY <2>1, <3>1, <3>2, <3>3, <3>4 DEF Tallied
  <2>3. Closing'
    <3>1. now < devWindows + 3 * WindowLen + 2 * CycleLen
      BY <1>2, <2>1, Times DEF Closing
    <3>2. now <= devWindows + 4 * WindowLen
      BY <1>2, <2>1, <3>1, Times
    <3>3. CASE devWindows + 3 * WindowLen <= now
      BY <1>1, <1>7, <2>1, <3>1, <3>2, <3>3 DEF Closing
    <3>4. CASE ~ (devWindows + 3 * WindowLen <= now)
      <4>1. Mark' <= devWindows + 3 * WindowLen
        BY <1>2, <1>3, <2>1, <3>4, Times
      <4>2. "dev_parameters" \notin devIntents'
        BY <1>1, <1>7, <2>1, <3>4 DEF Closing
      <4> QED  BY <1>1, <4>1, <4>2 DEF Closing
    <3> QED  BY <3>3, <3>4
  <2> QED  BY <1>1, <1>5, <1>6, <2>1, <2>2, <2>3 DEF DevOpened
<1>11. ASSUME DevClosed PROVE DevClosed'
  <2>1. windows \in Nat /\ devWindows \in Nat /\ devActive[devIssue] = "inactive"
    BY <1>11 DEF DevClosed
  <2>2. "dev_parameters" \notin DevDuties
    BY <1>7, <2>1
  <2> QED  BY <1>1, <1>4, <1>5, <1>11, <2>2 DEF DevClosed
<1> QED  BY <1>8, <1>9, <1>10, <1>11, DevTimes DEF DevStages

LEMMA DevTickStage ==
    ASSUME DevRound, TickBoth
    PROVE  DevStages'
<1>1. /\ now' = now + 1 /\ \A duty \in devIntents : DevWaits(duty)
      /\ \A m \in devGlobals : now < m.when + MaxLate
      /\ UNCHANGED <<windows, globals, intents, maintained, devWindows, nextDevWindows, devIssue,
                     devActive, devGlobals, devIntents>>
  BY DEF TickBoth, Tick, networkVars, nodeVars, devVars, devNetworkVars, devIssueVars
<1>2. Mark' = Mark /\ CanReset' = CanReset
  BY <1>1 DEF Mark, CanReset
<1>3. devIntents \subseteq {"dev_tally"} /\ (devIntents # {} => devActive[devIssue] = "absent")
  BY <1>1 DEF DevWaits
<1>4. \A m \in devGlobals : /\ LateTally(m) => LateTally(m)'
                            /\ CurrentTally(m) => CurrentTally(m)'
                            /\ MovesOn(m) => MovesOn(m)'
  <2> SUFFICES ASSUME NEW m \in devGlobals
               PROVE  /\ LateTally(m) => LateTally(m)'
                      /\ CurrentTally(m) => CurrentTally(m)'
                      /\ MovesOn(m) => MovesOn(m)'
    OBVIOUS
  <2>1. m.when \in Nat /\ now < m.when + MaxLate
    BY <1>1, DevTimes, DevMessages
  <2>2. now' <= m.when + MaxLate
    BY <1>1, <2>1, DevTimes, Times
  <2> QED  BY <1>1, <2>2 DEF LateTally, CurrentTally, MovesOn, TotalDuration
<1>5. InStep' = InStep
  BY <1>1, <1>2 DEF InStep
<1>6. ASSUME DevStarting PROVE DevStarting'
  BY <1>1, <1>6 DEF DevStarting
<1>7. ASSUME DevWaiting PROVE DevWaiting'
  BY <1>1, <1>2, <1>3, <1>4, <1>5, <1>7 DEF DevWaiting
<1>8. ASSUME DevOpened PROVE DevOpened'
  <2>1. devIntents = {} /\ devWindows \in Nat /\ Tallied /\ Closing
    BY <1>3, <1>8 DEF DevOpened
  <2>2. Tallied'
    <3>1. CASE Mark <= devWindows + 2 * WindowLen
      BY <1>1, <1>2, <3>1 DEF Tallied
    <3>2. CASE \E m \in devGlobals :
                  /\ CurrentTally(m)
                  /\ m.when < devWindows + 2 * WindowLen + 2 * CycleLen + ApplyDelay
      BY <1>1, <1>4, <3>2 DEF Tallied
    <3>3. CASE nextDevWindows = devWindows + TotalDuration /\ devWindows <= now
      <4>1. devWindows <= now'
        BY <1>1, <2>1, <3>3, DevTimes, Times
      <4> QED  BY <1>1, <3>3, <4>1 DEF Tallied, TotalDuration
    <3> QED  BY <2>1, <3>1, <3>2, <3>3 DEF Tallied
  <2>3. Closing'
    BY <1>1, <1>2, <2>1 DEF Closing
  <2> QED  BY <1>1, <1>4, <1>5, <1>8, <2>2, <2>3 DEF DevOpened
<1>9. ASSUME DevClosed PROVE DevClosed'
  BY <1>1, <1>2, <1>4, <1>9 DEF DevClosed
<1> QED  BY <1>6, <1>7, <1>8, <1>9, DevTimes DEF DevStages

LEMMA DevAheadStep ==
    ASSUME DevInv, DevNoneAhead, [DaoNext]_daoVars
    PROVE  DevNoneAhead'
<1>1. /\ devIssue \in DevIssues /\ devIssue \in Nat
      /\ devActive \in [DevIssues -> {"absent", "active", "inactive"}]
  BY DevDaoAssumption DEF DevInv, DevTypeOK, DevIssues
<1>2. ASSUME UNCHANGED <<devIssue, devActive>> PROVE DevNoneAhead'
  BY <1>2 DEF DevNoneAhead
<1>3. CASE MainStep
  BY <1>2, <1>3 DEF MainStep, ApplyMainParameters, devVars, devNetworkVars, devIssueVars
<1>4. CASE DevTx
  <2>1. /\ UNCHANGED devIssue
        /\ \/ UNCHANGED devActive
           \/ \E s : devActive' = [devActive EXCEPT ![devIssue] = s]
    BY <1>4 DEF DevTx, DevProposalTx, DevIssueTx, DevTallyTx, DevParametersTx, DevRefused,
                DevInjects, devNetworkVars, devIssueVars
  <2> QED  BY <1>1, <1>2, <2>1 DEF DevNoneAhead
<1>5. CASE DevGlobalTx
  <2>1. UNCHANGED devActive
    BY <1>5 DEF DevGlobalTx, ApplyDevTallyTx, ApplyDevParametersTx, ApplyDevParametersRejected,
                DevDrop, devIssueVars
  <2>2. devIssue' = devIssue \/ devIssue' = devIssue + 1
    BY <1>5 DEF DevGlobalTx, ApplyDevTallyTx, ApplyDevParametersTx, ApplyDevParametersRejected,
                devNetworkVars, DevInv, DevMovesOnce
  <2>3. \A i \in DevIssues : i > devIssue' => i > devIssue
    BY <1>1, <2>2, DevDaoAssumption DEF DevIssues
  <2> QED  BY <2>1, <2>3 DEF DevNoneAhead
<1>6. CASE DevFault
  BY <1>2, <1>6 DEF DevFault, DevNodeStops, DevInjects, DevGlobalLost, DevDrop, devNetworkVars,
                    devIssueVars
<1>7. CASE MaintainBoth \/ TickBoth \/ UNCHANGED daoVars
  BY <1>2, <1>7 DEF MaintainBoth, TickBoth, daoVars, devVars, devNetworkVars, devIssueVars
<1> QED  BY <1>3, <1>4, <1>5, <1>6, <1>7 DEF DaoNext

\* Only a proposal is counted, and it stays counted.
LEMMA ProposalsStay ==
    ASSUME DevInv, [DaoNext]_daoVars, NoDevProposals'
    PROVE  NoDevProposals /\ ~ \E u \in Users : DevProposalTx(u)
<1>1. /\ devIssue \in DevIssues
      /\ devProposalCount \in [DevIssues -> 0 .. MaxDevProposals]
      /\ MaxDevProposals \in Nat
  BY DevDaoAssumption DEF DevInv, DevTypeOK
<1>2. ASSUME NEW u \in Users, DevProposalTx(u) PROVE FALSE
  <2>1. devProposalCount'[devIssue] = devProposalCount[devIssue] + 1
    BY <1>1, <1>2 DEF DevProposalTx
  <2> QED  BY <1>1, <2>1 DEF NoDevProposals
<1>3. UNCHANGED devProposalCount
  <2>1. CASE MainStep
    BY <2>1 DEF MainStep, ApplyMainParameters, devVars, devIssueVars
  <2>2. CASE DevTx
    BY <1>2, <2>2 DEF DevTx, DevIssueTx, DevTallyTx, DevParametersTx, DevRefused, devIssueVars
  <2>3. CASE DevGlobalTx \/ DevFault
    BY <2>3 DEF DevGlobalTx, ApplyDevTallyTx, ApplyDevParametersTx, ApplyDevParametersRejected,
                DevFault, DevNodeStops, DevGlobalLost, DevDrop, devIssueVars
  <2>4. CASE MaintainBoth \/ TickBoth \/ UNCHANGED daoVars
    BY <2>4 DEF MaintainBoth, TickBoth, daoVars, devVars, devIssueVars
  <2> QED  BY <2>1, <2>2, <2>3, <2>4 DEF DaoNext
<1> QED  BY <1>2, <1>3 DEF NoDevProposals

LEMMA DevStageStep ==
    ASSUME DevRound, [DaoNext]_daoVars, NoDevProposals'
    PROVE  DevStages'
<1>1. DevInv /\ KeepInv /\ Punctual
  BY DevTimes
<1>2. ~ \E u \in Users : DevProposalTx(u)
  BY <1>1, ProposalsStay
<1>3. CASE MainStep
  <2>1. ASSUME UserTx \/ NodeTx \/ (\E m \in globals : ApplyTallyTx(m) \/ ApplyParametersRejected(m)),
               UNCHANGED devVars
        PROVE  DevStages'
    <3>1. Next
      BY <2>1 DEF Next, GlobalTx
    <3>2. UNCHANGED <<now, maintained, windows>>
      BY <2>1 DEF UserTx, ProposalTx, VoteTx, NodeTx, NetworkWindowsTx, IssueTx, TallyTx,
                  ParametersTx, Refused, Injects, ApplyTallyTx, ApplyParametersRejected, Drop,
                  networkVars, nodeVars
    <3> QED  BY <2>1, <3>1, <3>2, DevMainStage
  <2>2. ~ Fault
    BY <1>1 DEF Punctual, Fault, NodeStops, GlobalLost, SkipMaintenance
  <2> QED  BY <1>3, <2>1, <2>2, DevResetStage DEF MainStep
<1>4. CASE DevTx
  BY <1>2, <1>4, DevIssueStage, DevTallyStage, DevParametersStage, DevRefusedStage DEF DevTx
<1>5. CASE DevGlobalTx
  BY <1>5, DevTallyAppliedStage, DevParametersAppliedStage, DevNothingRejected DEF DevGlobalTx
<1>6. ~ DevFault
  <2>1. ASSUME NEW d \in intents, Waits(d) PROVE FALSE
    BY <1>1, <2>1, DutyStages DEF Waits, Opened
  <2> QED  BY <1>1, <2>1 DEF Punctual, DevFault, DevNodeStops, DevGlobalLost
<1>7. CASE MaintainBoth \/ TickBoth
  BY <1>7, DevMaintainStage, DevTickStage
<1>8. CASE UNCHANGED daoVars
  <2>1. UNCHANGED vars /\ UNCHANGED devVars
    BY <1>8 DEF daoVars
  <2>2. UNCHANGED <<now, maintained, windows>>
    BY <2>1 DEF vars, networkVars, nodeVars
  <2> QED  BY <2>1, <2>2, DevMainStage
<1> QED  BY <1>3, <1>4, <1>5, <1>6, <1>7, <1>8 DEF DaoNext

LEMMA DevKeepInit == Init /\ DevInit => DevKeepInv
<1> SUFFICES ASSUME Init, DevInit PROVE DevKeepInv
  OBVIOUS
<1>1. DevInv /\ KeepInv
  BY DevInitInv, KeepInit
<1>2. DevNoneAhead
  BY DEF DevInit, DevNoneAhead
<1>3. DevStarting
  BY DevDaoAssumption DEF Init, DevInit, DevStarting, DevIssues
<1> QED  BY <1>1, <1>2, <1>3 DEF DevKeepInv, DevStages

LEMMA DevKeepStep ==
    ASSUME DevKeepInv, Punctual, [DaoNext]_daoVars
    PROVE  DevKeepInv'
<1>1. DevInv' /\ KeepInv'
  BY DevStepInv, MainStages DEF DevKeepInv
<1>2. DevNoneAhead'
  BY DevAheadStep DEF DevKeepInv
<1>3. ASSUME NoDevProposals' PROVE DevStages'
  <2>1. NoDevProposals
    BY <1>3, ProposalsStay DEF DevKeepInv
  <2> QED  BY <1>3, <2>1, DevStageStep DEF DevRound
<1> QED  BY <1>1, <1>2, <1>3 DEF DevKeepInv

LEMMA DevKeepsUp ==
    ASSUME DevKeepInv, Punctual
    PROVE  DevKeepsUpWithoutProposals
<1> SUFFICES ASSUME NoDevProposals
             PROVE  /\ DevClosedIssueHasSuccessor
                    /\ devWindows # NoWindows =>
                         now <= devWindows + TotalDuration + ApplyDelay + MaxLate
  BY DEF DevKeepsUpWithoutProposals, NoDevProposals
<1>1. DevRound
  BY DEF DevRound
<1>2. CASE DevStarting
  BY <1>2 DEF DevStarting, DevClosedIssueHasSuccessor
<1>3. CASE DevWaiting
  BY <1>1, <1>3, DevTimes, Times DEF DevWaiting, DevClosedIssueHasSuccessor
<1>4. CASE DevOpened
  BY <1>1, <1>4, DevTimes, Times DEF DevOpened, Closing, DevClosedIssueHasSuccessor
<1>5. CASE DevClosed
  <2>1. PICK m \in devGlobals : MovesOn(m)
    BY <1>5 DEF DevClosed
  <2>2. /\ devWindows \in Nat /\ m.when \in Nat /\ m.type = "apply_dev_parameters"
        /\ m.devIssue = devIssue + 1 /\ m.devWindows = devWindows + TotalDuration
        /\ now <= m.when + MaxLate
        /\ m.when < devWindows + 3 * WindowLen + 2 * CycleLen + ApplyDelay
    BY <1>1, <1>5, <2>1, DevTimes, DevMessages DEF DevClosed, MovesOn
  <2>3. m.devWindows # NoWindows /\ now <= devWindows + TotalDuration + ApplyDelay + MaxLate
    BY <1>1, <2>2, DevTimes, Times DEF NoWindows
  <2> QED  BY <2>2, <2>3 DEF DevClosedIssueHasSuccessor, DevSuccessorSent, HasDevContent
<1> QED  BY <1>1, <1>2, <1>3, <1>4, <1>5, DevTimes DEF DevStages

\* With the dev DAO in the same loop, too, the network never sits in windows that are
\* over, and a closed issue has its successor on the way: the duties and the globals of
\* the dev DAO delay nothing of the main one.
THEOREM BothKeepUp ==
    ASSUME Punctual
    PROVE  DaoSpec => [](WindowsKeepUp /\ ClosedIssueHasSuccessor)
<1>1. DevKeepInv /\ [DaoNext]_daoVars => DevKeepInv'
  BY DevKeepStep
<1>2. DevKeepInv => WindowsKeepUp /\ ClosedIssueHasSuccessor
  BY KeepsUp DEF DevKeepInv
<1> QED  BY <1>1, <1>2, DevKeepInit, PTL DEF DaoSpec

\* As long as nobody makes a dev proposal, no dev round wedges and the dev windows are
\* replaced in time, under the same conditions as for the main DAO and through its resets.
THEOREM DevDaoKeepsUp ==
    ASSUME Punctual
    PROVE  DaoSpec => []DevKeepsUpWithoutProposals
<1>1. DevKeepInv /\ [DaoNext]_daoVars => DevKeepInv'
  BY DevKeepStep
<1>2. DevKeepInv => DevKeepsUpWithoutProposals
  BY DevKeepsUp
<1> QED  BY <1>1, <1>2, DevKeepInit, PTL DEF DaoSpec
=============================================================================
