------------------------------- MODULE DevDao -------------------------------
(***************************************************************************)
(* The governance of the developer fund ("dev DAO"), beside that of the    *)
(* network parameters.                                                     *)
(*                                                                         *)
(* It has its own windows, issue and transactions (dev_issue, dev_proposal,*)
(* dev_tally, dev_parameters and two globals), and shares with NetworkDao  *)
(* the clock, the maintenance loop with its lucky node, and the reset of   *)
(* the windows, whose apply_parameters carries new windows for both.       *)
(*                                                                         *)
(* As the code is, dev_vote is always refused (its amount must be a number *)
(* and a bigint), and dev_tally throws for every proposal (BigInt(0.15)).  *)
(* So no proposal ever wins, the fund stays empty and there is no payment  *)
(* to release: winners and fund have no variables here.                    *)
(***************************************************************************)
EXTENDS NetworkDao

CONSTANTS
    DevProposalFee,     \* [Params -> Nat]
    MaxDevProposals,    \* bound on the proposals of a dev issue
    MaxDevIssue         \* bound on the dev issues opened

ASSUME DevDaoAssumption ==
    /\ DevProposalFee \in [Params -> Nat]
    /\ MaxDevProposals \in Nat
    /\ MaxDevIssue \in Nat \ {0}

VARIABLES
    devWindows,         \* start of network.devWindows, NoWindows when null
    nextDevWindows,     \* start of network.nextDevWindows, NoWindows when {}
    devIssue,           \* network.devIssue
    devActive,          \* of a dev issue: "absent", "active", "inactive"
    devProposalCount,   \* of a dev issue
    devGlobals,         \* global messages of the dev DAO not yet applied
    devIntents          \* dev transactions the lucky node decided to inject

devNetworkVars == <<devWindows, nextDevWindows, devIssue>>
devIssueVars   == <<devActive, devProposalCount>>
devVars == <<devNetworkVars, devIssueVars, devGlobals, devIntents>>
daoVars == <<vars, devVars>>

DevIssues == 1 .. MaxDevIssue + 1
DevDuty == {"dev_issue", "dev_tally", "dev_parameters"}

ApplyDevTally == [type : {"apply_dev_tally"}, when : Nat, nextDevWindows : Int]
ApplyDevParameters == [type : {"apply_dev_parameters"}, when : Nat,
                       devWindows : Int, devIssue : DevIssues]

DevTypeOK ==
    /\ TypeOK
    /\ devWindows \in Int
    /\ nextDevWindows \in Int
    /\ devIssue \in DevIssues
    /\ devActive \in [DevIssues -> {"absent", "active", "inactive"}]
    /\ devProposalCount \in [DevIssues -> 0 .. MaxDevProposals]
    /\ devGlobals \subseteq ApplyDevTally \cup ApplyDevParameters
    /\ devIntents \subseteq DevDuty

DevInit ==
    /\ devWindows = NoWindows
    /\ nextDevWindows = NoWindows
    /\ devIssue = 1
    /\ devActive = [i \in DevIssues |-> "absent"]
    /\ devProposalCount = [i \in DevIssues |-> 0]
    /\ devGlobals = {}
    /\ devIntents = {}

\* The windows of the dev DAO are as long as those of the main one.
InDevWindow(k) ==
    /\ devWindows # NoWindows
    /\ devWindows + (k - 1) * WindowLen <= now
    /\ now <= devWindows + k * WindowLen

-----------------------------------------------------------------------------
(* Transactions.                                                           *)

DevProposalTx(u) ==
    /\ devActive[devIssue] = "active"
    /\ devProposalCount[devIssue] < MaxDevProposals
    /\ InDevWindow(1)
    /\ Pays(u, DevProposalFee[current] + TransactionFee[current])
    /\ devProposalCount' = [devProposalCount EXCEPT ![devIssue] = @ + 1]
    /\ UNCHANGED <<now, networkVars, issueVars, globals, nodeVars, devNetworkVars,
                   devActive, devGlobals, devIntents>>

DevInjects(duty) ==
    /\ duty \in devIntents
    /\ devIntents' = devIntents \ {duty}
    /\ UNCHANGED <<vars, devNetworkVars>>

DevIssueIsValid ==
    /\ devActive[devIssue] = "absent"
    /\ InDevWindow(1)

DevIssueTx ==
    /\ DevInjects("dev_issue")
    /\ DevIssueIsValid
    /\ devIssue <= MaxDevIssue
    /\ devActive' = [devActive EXCEPT ![devIssue] = "active"]
    /\ UNCHANGED <<devProposalCount, devGlobals>>

\* apply throws when there is a proposal to look at: the transaction fails.
DevTallyIsValid ==
    /\ devActive[devIssue] = "active"
    /\ InDevWindow(3)
    /\ devProposalCount[devIssue] = 0

FollowingDevWindows == devWindows + TotalDuration

\* Nothing marks the issue as tallied when there is no winner: it is tallied
\* again in every cycle of the window.
DevTallyTx ==
    /\ DevInjects("dev_tally")
    /\ DevTallyIsValid
    /\ devGlobals' = devGlobals \cup
         {[type |-> "apply_dev_tally", when |-> now + ApplyDelay,
           nextDevWindows |-> FollowingDevWindows]}
    /\ UNCHANGED devIssueVars

DevParametersIsValid ==
    /\ devActive[devIssue] = "active"
    /\ InDevWindow(4)

\* Mutant: the issue stays open.
DevParametersLeavesOpen ==
    /\ DevInjects("dev_parameters")
    /\ DevParametersIsValid
    /\ devGlobals' = devGlobals \cup
         {[type |-> "apply_dev_parameters", when |-> now + ApplyDelay,
           devWindows |-> nextDevWindows, devIssue |-> devIssue + 1]}
    /\ UNCHANGED devIssueVars

DevParametersTx ==
    /\ DevInjects("dev_parameters")
    /\ DevParametersIsValid
    /\ devActive' = [devActive EXCEPT ![devIssue] = "inactive"]
    /\ devGlobals' = devGlobals \cup
         {[type |-> "apply_dev_parameters", when |-> now + ApplyDelay,
           devWindows |-> nextDevWindows, devIssue |-> devIssue + 1]}
    /\ UNCHANGED devProposalCount

DevIsValid(duty) ==
    CASE duty = "dev_issue"      -> DevIssueIsValid
      [] duty = "dev_tally"      -> DevTallyIsValid
      [] duty = "dev_parameters" -> DevParametersIsValid

\* tallyDevVotes waits for the dev issue account.
DevWaits(duty) == duty = "dev_tally" /\ devActive[devIssue] = "absent"

DevRefused(duty) ==
    /\ DevInjects(duty)
    /\ ~ DevIsValid(duty)
    /\ ~ DevWaits(duty)
    /\ UNCHANGED <<devIssueVars, devGlobals>>

\* The node stops, or its main tally, awaited before the dev duties, waits.
DevNodeStops(duty) ==
    /\ ~ Attended \/ \E d \in intents : Waits(d)
    /\ DevInjects(duty)
    /\ UNCHANGED <<devIssueVars, devGlobals>>

-----------------------------------------------------------------------------
(* Global messages.                                                        *)

DevDue(m) == m \in devGlobals /\ m.when <= now

DevDrop(m) ==
    /\ devGlobals' = devGlobals \ {m}
    /\ UNCHANGED <<vars, devIssueVars, devIntents>>

ApplyDevTallyTx(m) ==
    /\ DevDue(m)
    /\ m.type = "apply_dev_tally"
    /\ nextDevWindows' = m.nextDevWindows
    /\ DevDrop(m)
    /\ UNCHANGED <<devWindows, devIssue>>

HasDevContent(m) == m.devWindows # NoWindows

ApplyDevParametersTx(m) ==
    /\ DevDue(m)
    /\ m.type = "apply_dev_parameters"
    /\ HasDevContent(m)
    /\ devWindows' = m.devWindows
    /\ nextDevWindows' = NoWindows
    /\ devIssue' = m.devIssue
    /\ DevDrop(m)

ApplyDevParametersRejected(m) ==
    /\ DevDue(m)
    /\ m.type = "apply_dev_parameters"
    /\ ~ HasDevContent(m)
    /\ DevDrop(m)
    /\ UNCHANGED devNetworkVars

DevGlobalLost(m) ==
    /\ ~ Attended
    /\ m \in devGlobals
    /\ DevDrop(m)
    /\ UNCHANGED devNetworkVars

\* Mutant: the reset moves on to the next dev issue.
ApplyMainSkips(m) ==
    /\ ApplyParametersTx(m)
    /\ devWindows' = IF m.devWindows = NoWindows THEN devWindows ELSE m.devWindows
    /\ devIssue' = IF m.devWindows # NoWindows /\ devIssue <= MaxDevIssue
                   THEN devIssue + 1
                   ELSE devIssue
    /\ UNCHANGED <<nextDevWindows, devIssueVars, devGlobals, devIntents>>

\* apply_parameters of the main DAO: that of a reset has windows for both.
\* It leaves nextDevWindows alone.
ApplyMainParameters(m) ==
    /\ ApplyParametersTx(m)
    /\ devWindows' = IF m.devWindows = NoWindows THEN devWindows ELSE m.devWindows
    /\ UNCHANGED <<nextDevWindows, devIssue, devIssueVars, devGlobals, devIntents>>

-----------------------------------------------------------------------------
(* The maintenance loop, the clock and both DAOs together.                 *)

\* Mutant: a round without proposals is not tallied.
TallyWithProposals ==
    IF windows = NoWindows \/ WindowsAreStale
    THEN {}
    ELSE {duty \in DevDuty :
            \/ duty = "dev_issue" /\ InDevWindow(1) /\ devActive[devIssue] = "absent"
            \/ duty = "dev_tally" /\ InDevWindow(3) /\ devProposalCount[devIssue] > 0
            \/ duty = "dev_parameters" /\ InDevWindow(4) /\ devActive[devIssue] = "active"}

\* A maintenance that starts or resets the windows does nothing else.
DevDuties ==
    IF windows = NoWindows \/ WindowsAreStale
    THEN {}
    ELSE {duty \in DevDuty :
            \/ duty = "dev_issue" /\ InDevWindow(1) /\ devActive[devIssue] = "absent"
            \/ duty = "dev_tally" /\ InDevWindow(3)
            \/ duty = "dev_parameters" /\ InDevWindow(4) /\ devActive[devIssue] = "active"}

MaintainBoth ==
    /\ Maintain
    /\ devIntents' = devIntents \cup DevDuties
    /\ UNCHANGED <<devNetworkVars, devIssueVars, devGlobals>>

TickBoth ==
    /\ Tick
    /\ \A duty \in devIntents : DevWaits(duty)
    /\ \A m \in devGlobals : now < m.when + MaxLate
    /\ UNCHANGED devVars

MainStep ==
    \/ /\ UserTx \/ NodeTx \/ Fault
       /\ UNCHANGED devVars
    \/ \E m \in globals :
         \/ ApplyMainParameters(m)
         \/ /\ ApplyTallyTx(m) \/ ApplyParametersRejected(m)
            /\ UNCHANGED devVars

DevTx ==
    \/ \E u \in Users : DevProposalTx(u)
    \/ DevIssueTx
    \/ DevTallyTx
    \/ DevParametersTx
    \/ \E duty \in DevDuty : DevRefused(duty)

DevGlobalTx ==
    \E m \in devGlobals :
        ApplyDevTallyTx(m) \/ ApplyDevParametersTx(m) \/ ApplyDevParametersRejected(m)

DevFault ==
    \/ \E duty \in DevDuty : DevNodeStops(duty)
    \/ \E m \in devGlobals : DevGlobalLost(m)

DaoNext == MainStep \/ DevTx \/ DevGlobalTx \/ DevFault \/ MaintainBoth \/ TickBoth

DaoSpec == Init /\ DevInit /\ [][DaoNext]_daoVars

\* The node's timers and Shardus' processing of what was sent go on, for both DAOs: no
\* transaction of the one waits for the other's.  Users and faults are free.
DaoFairness ==
    /\ WF_daoVars(NodeTx /\ UNCHANGED devVars)
    /\ WF_daoVars(\E m \in globals :
         \/ ApplyMainParameters(m)
         \/ /\ ApplyTallyTx(m) \/ ApplyParametersRejected(m)
            /\ UNCHANGED devVars)
    /\ WF_daoVars(DevIssueTx \/ DevTallyTx \/ DevParametersTx
                   \/ \E duty \in DevDuty : DevRefused(duty))
    /\ WF_daoVars(DevGlobalTx)
    /\ WF_daoVars(MaintainBoth)
    /\ WF_daoVars(TickBoth)

FairDaoSpec == DaoSpec /\ DaoFairness
-----------------------------------------------------------------------------
(* What the dev DAO is for.                                                *)

\* Dev rounds follow each other: the network moves to the next dev issue only from
\* a closed one, and only by one, however late or repeated the messages are.
DevRoundsInOrder ==
    [][devIssue' # devIssue =>
         /\ devIssue' = devIssue + 1
         /\ devActive[devIssue] = "inactive"]_daoVars

\* Why they do: at most one message to move on is under way, sent for the issue
\* that the network is still at and that is closed already.  dev_parameters fixes the
\* number in the message, apply_dev_parameters writes it without looking at the issue
\* the network has reached, and resets of the windows come in between.
DevMovesOnce ==
    /\ devActive[MaxDevIssue + 1] = "absent"
    /\ \A m \in devGlobals : m.type = "apply_dev_parameters" =>
         /\ m.devIssue = devIssue + 1
         /\ devActive[devIssue] = "inactive"
    /\ \A m, n \in devGlobals :
         m.type = "apply_dev_parameters" /\ n.type = "apply_dev_parameters" => m = n

DevSuccessorSent ==
    \E m \in devGlobals : /\ m.type = "apply_dev_parameters"
                          /\ HasDevContent(m)
                          /\ m.devIssue = devIssue + 1

\* A closed dev issue has its successor on the way.
DevClosedIssueHasSuccessor == devActive[devIssue] = "inactive" => DevSuccessorSent

\* Without proposals it has, and the dev DAO never sits in windows that are over:
\* the duties of both DAOs, done in one pass of the same loop, do not starve it.
DevKeepsUpWithoutProposals ==
    (\A i \in DevIssues : devProposalCount[i] = 0) =>
        /\ DevClosedIssueHasSuccessor
        /\ devWindows # NoWindows =>
             now <= devWindows + TotalDuration + ApplyDelay + MaxLate

\* Without proposals every dev round comes to its end, whatever happens in the rounds
\* of the main DAO (a reset of the windows included).
DevRoundsComplete ==
    [](\A i \in DevIssues : devProposalCount[i] = 0) => <>(devIssue = MaxDevIssue + 1)

DevWedged == devActive[devIssue] = "inactive" /\ ~ DevSuccessorSent

\* A dev round that closed without a successor is never recovered, not even by a
\* reset of the windows.
DevWedgeIsForever == [][DevWedged => DevWedged']_daoVars

\* New dev windows begin after the ones they replace.
DevWindowsMoveForward ==
    [][devWindows # NoWindows => devWindows' >= devWindows]_daoVars
=============================================================================
