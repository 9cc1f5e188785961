----------------------------- MODULE NetworkDao -----------------------------
(***************************************************************************)
(* The governance of the network parameters ("main DAO").                  *)
(*                                                                         *)
(* A round is: network_windows opens four consecutive time windows; issue  *)
(* creates the round's issue with a default proposal; users submit         *)
(* proposals and vote with tokens; tally picks the winner and parameters   *)
(* closes the issue.  tally and parameters do not write the network        *)
(* account themselves: each sends a global message that is applied to it   *)
(* some time later (apply_tally, apply_parameters).  The node-side part is *)
(* networkMaintenance: once a cycle the lucky node reads the network       *)
(* account, decides what is due, and only then injects it.                 *)
(*                                                                         *)
(* A user transaction is one step at its timestamp: Shardus executes the   *)
(* transactions on an account in timestamp order.  The four windows of a   *)
(* round have one length and are represented by the start of the first.    *)
(*                                                                         *)
(* Nodes are honest: a duty is injected by networkMaintenance only.  The   *)
(* handlers check neither sender nor signature of these transactions, so   *)
(* what is said of the DAO here is said of a network of such nodes.        *)
(***************************************************************************)
EXTENDS Integers, FiniteSets

CONSTANTS
    Users,              \* user accounts
    Params,             \* complete sets of network parameters
    Permitted,          \* those within the bounds `proposal` enforces
    InitialParams,      \* INITIAL_PARAMETERS
    NoParams,           \* the empty object in network.next
    ProposalFee,        \* [Params -> Nat]
    TransactionFee,     \* [Params -> Nat]
    InitialBalance,     \* balance of each user account
    VoteAmounts,        \* the amounts users vote with
    WindowLen,          \* TIME_FOR_PROPOSALS = ... = TIME_FOR_APPLY
    CycleLen,           \* cycleDuration
    ApplyDelay,         \* the 10 seconds between a transaction and its global
    MaxLate,            \* how much later than `when` a global may be applied
    Attended,           \* TRUE: every cycle has a working lucky node, and
                        \* no global message is lost
    MaxProposals,       \* bound on the proposals of an issue
    MaxIssue,           \* bound on the issues opened
    MaxTime             \* bound on the clock

ASSUME DaoAssumption ==
    /\ Permitted \subseteq Params
    /\ InitialParams \in Params
    /\ NoParams \notin Params
    /\ ProposalFee \in [Params -> Nat]
    /\ TransactionFee \in [Params -> Nat]
    /\ InitialBalance \in Nat
    /\ VoteAmounts \subseteq Nat \ {0}
    /\ WindowLen \in Nat \ {0}
    /\ CycleLen \in Nat \ {0}
    /\ ApplyDelay \in Nat
    /\ MaxLate \in Nat
    /\ Attended \in BOOLEAN
    /\ MaxProposals \in Nat \ {0}
    /\ MaxIssue \in Nat \ {0}
    /\ MaxTime \in Nat

VARIABLES
    now,            \* the clock
    current,        \* network.current
    next,           \* network.next, NoParams when {}
    windows,        \* start of network.windows, NoWindows when null
    nextWindows,    \* start of network.nextWindows, NoWindows when {}
    issue,          \* network.issue
    active,         \* of an issue account: "absent", "active", "inactive"
    winnerId,       \* of an issue account: number of the winner, 0 when null
    proposalCount,  \* of an issue account
    parameters,     \* of the proposal accounts of each issue
    power,          \* of the proposal accounts of each issue
    balance,        \* of the user accounts
    globals,        \* global messages sent and not yet applied
    intents,        \* transactions the lucky node decided to inject
    maintained      \* lastMaintainedCycle

networkVars == <<current, next, windows, nextWindows, issue>>
issueVars   == <<active, winnerId, proposalCount, parameters, power>>
nodeVars    == <<intents, maintained>>
vars == <<now, networkVars, issueVars, balance, globals, nodeVars>>

NoWindows == -1
TotalDuration == 4 * WindowLen          \* TOTAL_DAO_DURATION
Issues == 1 .. MaxIssue + 1
Duty == {"network_windows", "issue", "tally", "parameters"}

ApplyTally == [type : {"apply_tally"}, when : Nat,
               next : Params, nextWindows : Int]
ApplyParameters == [type : {"apply_parameters"}, when : Nat,
                    current : Params \cup {NoParams}, windows : Int,
                    devWindows : Int, issue : Issues]

TypeOK ==
    /\ now \in Nat
    /\ current \in Params
    /\ next \in Params \cup {NoParams}
    /\ windows \in Int
    /\ nextWindows \in Int
    /\ issue \in Issues
    /\ active \in [Issues -> {"absent", "active", "inactive"}]
    /\ proposalCount \in [Issues -> 0 .. MaxProposals]
    /\ winnerId \in [Issues -> 0 .. MaxProposals]
    /\ parameters \in [Issues -> [1 .. MaxProposals -> Params]]
    /\ power \in [Issues -> [1 .. MaxProposals -> Nat]]
    /\ balance \in [Users -> Nat]
    /\ globals \subseteq ApplyTally \cup ApplyParameters
    /\ intents \subseteq Duty
    /\ maintained \in Int

Init ==
    /\ now = 0
    /\ current = InitialParams
    /\ next = NoParams
    /\ windows = NoWindows
    /\ nextWindows = NoWindows
    /\ issue = 1
    /\ active = [i \in Issues |-> "absent"]
    /\ proposalCount = [i \in Issues |-> 0]
    /\ winnerId = [i \in Issues |-> 0]
    /\ parameters = [i \in Issues |-> [p \in 1 .. MaxProposals |-> InitialParams]]
    /\ power = [i \in Issues |-> [p \in 1 .. MaxProposals |-> 0]]
    /\ balance = [u \in Users |-> InitialBalance]
    /\ globals = {}
    /\ intents = {}
    /\ maintained = -1

-----------------------------------------------------------------------------
(* The windows.  Both ends of a window belong to it.                       *)

InWindow(k) ==
    /\ windows # NoWindows
    /\ windows + (k - 1) * WindowLen <= now
    /\ now <= windows + k * WindowLen

InProposalWindow == InWindow(1)
InVotingWindow   == InWindow(2)

\* Mutant: the tally is made in the apply window.
GraceWindowOffByOne == InWindow(4)
InGraceWindow    == InWindow(3)
InApplyWindow    == InWindow(4)

\* The reset condition of networkMaintenance.
WindowsAreStale ==
    /\ windows # NoWindows
    /\ now > windows
    /\ now - windows > 3 * TotalDuration

-----------------------------------------------------------------------------
(* Transactions of users.                                                  *)

\* Mutant: the balance is not checked.
PaysUnchecked(u, amount) == balance' = [balance EXCEPT ![u] = @ - amount]

Pays(u, amount) ==
    /\ balance[u] >= amount
    /\ balance' = [balance EXCEPT ![u] = @ - amount]

ProposalTx(u, q) ==
    LET n == proposalCount[issue] + 1
    IN  /\ active[issue] = "active"
        /\ n <= MaxProposals
        /\ q \in Permitted
        /\ InProposalWindow
        /\ Pays(u, ProposalFee[current] + TransactionFee[current])
        /\ proposalCount' = [proposalCount EXCEPT ![issue] = n]
        /\ parameters' = [parameters EXCEPT ![issue][n] = q]
        /\ UNCHANGED <<now, networkVars, active, winnerId, power, globals, nodeVars>>

\* The issue must be the current one; the proposal may be of any issue.
VoteTx(u, i, p, amount) ==
    /\ active[issue] = "active"
    /\ p <= proposalCount[i]
    /\ InVotingWindow
    /\ Pays(u, amount + TransactionFee[current])
    /\ power' = [power EXCEPT ![i][p] = @ + amount]
    /\ UNCHANGED <<now, networkVars, active, winnerId, proposalCount,
                   parameters, globals, nodeVars>>

-----------------------------------------------------------------------------
(* Transactions the lucky node injects.                                    *)

Injects(duty) ==
    /\ duty \in intents
    /\ intents' = intents \ {duty}
    /\ UNCHANGED <<now, networkVars, balance, maintained>>

\* Mutant: the reset of the windows moves on to the next issue.
NetworkWindowsSkipsTx ==
    /\ Injects("network_windows")
    /\ globals' = globals \cup
         {[type |-> "apply_parameters", when |-> now + ApplyDelay,
           current |-> current, windows |-> now + 2 * ApplyDelay,
           devWindows |-> now + 2 * ApplyDelay,
           issue |-> IF issue <= MaxIssue THEN issue + 1 ELSE issue]}
    /\ UNCHANGED issueVars

\* The global carries the parameters and the issue of this moment, and windows
\* that start one more delay after it; those of the dev DAO are the same.
NetworkWindowsTx ==
    /\ Injects("network_windows")
    /\ globals' = globals \cup
         {[type |-> "apply_parameters", when |-> now + ApplyDelay,
           current |-> current, windows |-> now + 2 * ApplyDelay,
           devWindows |-> now + 2 * ApplyDelay, issue |-> issue]}
    /\ UNCHANGED issueVars

\* Mutant: the issue is accepted in the window after its own.
IssueInVotingWindow ==
    /\ active[issue] = "absent"
    /\ InVotingWindow

IssueIsValid ==
    /\ active[issue] = "absent"
    /\ InProposalWindow

IssueTx ==
    /\ Injects("issue")
    /\ IssueIsValid
    /\ issue <= MaxIssue
    /\ active' = [active EXCEPT ![issue] = "active"]
    /\ parameters' = [parameters EXCEPT ![issue][1] = current]
    /\ proposalCount' = [proposalCount EXCEPT ![issue] = 1]
    /\ UNCHANGED <<winnerId, power, globals>>

\* The place of p in sortedProposals: by falling power, ties in order of submission.
Before(pow, p, q) == pow[p] > pow[q] \/ (pow[p] = pow[q] /\ p < q)
Place(pow, n, p) == 1 + Cardinality({q \in 1 .. n : Before(pow, q, p)})

\* Mutant: no margin is asked of the first.
HasNoMargin(pow, n, p, q) == pow[p] >= pow[q]

\* firstPlace.power >= secondPlace.power * (1 + 1 / (2 * (n + 1))), in integers.
HasMargin(pow, n, p, q) == 2 * (n + 1) * pow[p] >= (2 * (n + 1) + 1) * pow[q]

ClearWinner(pow, n, p) ==
    \E q \in 1 .. n : /\ Place(pow, n, p) = 1
                     /\ Place(pow, n, q) = 2
                     /\ HasMargin(pow, n, p, q)

\* The default proposal wins when there is no clear winner.
IsWinner(pow, n, w) ==
    \/ ClearWinner(pow, n, w)
    \/ w = 1 /\ ~ \E p \in 1 .. n : ClearWinner(pow, n, p)

TallyIsValid ==
    /\ active[issue] = "active"
    /\ winnerId[issue] = 0
    /\ InGraceWindow

\* Mutant: the last proposal is taken for the winner.
LastParameters(w) == parameters[issue][proposalCount[issue]]

WinnerParameters(w) == parameters[issue][w]

\* Mutant: the windows of this round are sent again.
SameWindows == windows

FollowingWindows == windows + TotalDuration

TallyTx(w) ==
    /\ Injects("tally")
    /\ TallyIsValid
    /\ w <= proposalCount[issue]
    /\ IsWinner(power[issue], proposalCount[issue], w)
    /\ winnerId' = [winnerId EXCEPT ![issue] = w]
    /\ globals' = globals \cup
         {[type |-> "apply_tally", when |-> now + ApplyDelay,
           next |-> WinnerParameters(w), nextWindows |-> FollowingWindows]}
    /\ UNCHANGED <<active, proposalCount, parameters, power>>

\* Neither the winner nor network.next is looked at.
ParametersIsValid ==
    /\ active[issue] = "active"
    /\ InApplyWindow

ParametersTx ==
    /\ Injects("parameters")
    /\ ParametersIsValid
    /\ active' = [active EXCEPT ![issue] = "inactive"]
    /\ globals' = globals \cup
         {[type |-> "apply_parameters", when |-> now + ApplyDelay,
           current |-> next, windows |-> nextWindows,
           devWindows |-> NoWindows, issue |-> issue + 1]}
    /\ UNCHANGED <<winnerId, proposalCount, parameters, power>>

IsValid(duty) ==
    CASE duty = "network_windows" -> TRUE
      [] duty = "issue"           -> IssueIsValid
      [] duty = "tally"           -> TallyIsValid
      [] duty = "parameters"      -> ParametersIsValid

\* tallyVotes waits for the issue account before it sends anything.
Waits(duty) == duty = "tally" /\ active[issue] = "absent"

\* validate refuses the injected transaction: nothing changes.
Refused(duty) ==
    /\ Injects(duty)
    /\ ~ IsValid(duty)
    /\ ~ Waits(duty)
    /\ UNCHANGED <<issueVars, globals>>

\* The node stops between its decision and the injection.
NodeStops(duty) ==
    /\ ~ Attended
    /\ Injects(duty)
    /\ UNCHANGED <<issueVars, globals>>

-----------------------------------------------------------------------------
(* Global messages.                                                        *)

Due(m) == m \in globals /\ m.when <= now

ApplyTallyTx(m) ==
    /\ Due(m)
    /\ m.type = "apply_tally"
    /\ next' = m.next
    /\ nextWindows' = m.nextWindows
    /\ globals' = globals \ {m}
    /\ UNCHANGED <<now, current, windows, issue, issueVars, balance, nodeVars>>

\* Mutant: the fields are not validated.
AnyContent(m) == m.type = "apply_parameters"

\* validate_fields: "current" and "windows" must be non empty objects.
HasContent(m) == m.current # NoParams /\ m.windows # NoWindows

ApplyParametersTx(m) ==
    /\ Due(m)
    /\ m.type = "apply_parameters"
    /\ HasContent(m)
    /\ current' = m.current
    /\ next' = NoParams
    /\ windows' = m.windows
    /\ nextWindows' = NoWindows
    /\ issue' = m.issue
    /\ globals' = globals \ {m}
    /\ UNCHANGED <<now, issueVars, balance, nodeVars>>

Drop(m) ==
    /\ globals' = globals \ {m}
    /\ UNCHANGED <<now, networkVars, issueVars, balance, nodeVars>>

ApplyParametersRejected(m) ==
    /\ Due(m)
    /\ m.type = "apply_parameters"
    /\ ~ HasContent(m)
    /\ Drop(m)

GlobalLost(m) == ~ Attended /\ m \in globals /\ Drop(m)

-----------------------------------------------------------------------------
(* networkMaintenance and the clock.                                       *)

Cycle == now \div CycleLen

\* What is due, read from the network account and the issue account.
Duties ==
    IF windows = NoWindows \/ WindowsAreStale
    THEN {"network_windows"}
    ELSE {duty \in Duty :
            \/ duty = "issue" /\ InProposalWindow /\ active[issue] = "absent"
            \/ duty = "tally" /\ InGraceWindow /\ winnerId[issue] = 0
            \/ duty = "parameters" /\ InApplyWindow /\ active[issue] = "active"}

Maintain ==
    /\ maintained < Cycle
    /\ maintained' = Cycle
    /\ intents' = intents \cup Duties
    /\ UNCHANGED <<now, networkVars, issueVars, balance, globals>>

\* No processing mode in this cycle, or its lucky node is not at work.
SkipMaintenance ==
    /\ ~ Attended
    /\ maintained < Cycle
    /\ maintained' = Cycle
    /\ UNCHANGED <<now, networkVars, issueVars, balance, globals, intents>>

\* An injection takes less than a tick; a global is at most MaxLate late; a
\* cycle is maintained, or skipped, before it ends.
Tick ==
    /\ now < MaxTime
    /\ \A duty \in intents : Waits(duty)
    /\ \A m \in globals : now < m.when + MaxLate
    /\ (now + 1) \div CycleLen > Cycle => maintained = Cycle
    /\ now' = now + 1
    /\ UNCHANGED <<networkVars, issueVars, balance, globals, nodeVars>>

UserTx ==
    \/ \E u \in Users, q \in Params : ProposalTx(u, q)
    \/ \E u \in Users, i \in Issues, p \in 1 .. MaxProposals, a \in VoteAmounts :
         VoteTx(u, i, p, a)

NodeTx ==
    \/ NetworkWindowsTx
    \/ IssueTx
    \/ \E w \in 1 .. MaxProposals : TallyTx(w)
    \/ ParametersTx
    \/ \E duty \in Duty : Refused(duty)

GlobalTx ==
    \E m \in globals :
        ApplyTallyTx(m) \/ ApplyParametersTx(m) \/ ApplyParametersRejected(m)

Fault ==
    \/ \E duty \in Duty : NodeStops(duty)
    \/ \E m \in globals : GlobalLost(m)
    \/ SkipMaintenance

Next == UserTx \/ NodeTx \/ GlobalTx \/ Maintain \/ Tick \/ Fault

Spec == Init /\ [][Next]_vars
-----------------------------------------------------------------------------
(* What governance is for.                                                 *)

\* What the tally of some issue recorded as its winner, and the initial parameters.
Chosen ==
    {InitialParams} \cup
    {parameters[i][winnerId[i]] : i \in {j \in Issues : winnerId[j] # 0}}

\* The parameters in force are the initial ones or those of a proposal that won
\* a tally.  Between a tally and network.current stand two global messages and
\* network.next, each of which copies the parameters.
CurrentWasChosen == current \in Chosen

\* Why it holds: whatever is under way towards network.current was chosen, and
\* what was chosen is not rewritten, since proposals are only added behind it.
InFlightWasChosen ==
    /\ next \in Chosen \cup {NoParams}
    /\ \A m \in globals : /\ m.type = "apply_tally" => m.next \in Chosen
                          /\ m.type = "apply_parameters" =>
                               m.current \in Chosen \cup {NoParams}

IssuesAreOrdered ==
    /\ active[MaxIssue + 1] = "absent"
    /\ \A i \in Issues : /\ active[i] = "absent" => winnerId[i] = 0
                        /\ winnerId[i] <= proposalCount[i]

ChosenInv == TypeOK /\ CurrentWasChosen /\ InFlightWasChosen /\ IssuesAreOrdered

\* The issue and proposal accounts seen as the state of the current round.
Stage ==
    CASE active[issue] = "absent" -> "waiting"
      [] active[issue] # "absent" /\ winnerId[issue] = 0 -> "open"
      [] active[issue] # "absent" /\ winnerId[issue] # 0 -> "decided"

Decision ==
    IF winnerId[issue] = 0 THEN NoParams ELSE parameters[issue][winnerId[issue]]

Rounds == INSTANCE DaoRounds WITH
    Initial <- InitialParams, Undecided <- NoParams,
    round <- issue, stage <- Stage, decision <- Decision, inForce <- current

\* Governance implements DaoRounds whatever is skipped, lost or late: parameters
\* change only by a step to the next issue, that step puts in force exactly what
\* the tally of the issue it leaves decided, and no reset, late global or
\* repeated maintenance skips, repeats or rolls back a round.
ImplementsRounds == Rounds!Spec

\* The proposal leads the other by the margin.
Leads(i, p, q) ==
    LET n == 2 * (proposalCount[i] + 1) IN n * power[i][p] >= (n + 1) * power[i][q]

RuleOfTheTally(i, w) ==
    LET others(p) == (1 .. proposalCount[i]) \ {p}
    IN  /\ winnerId[i] = 0
        /\ w # 1 => \A q \in others(w) : Leads(i, w, q) /\ power[i][w] > 0
        /\ w = 1 => \A p \in others(1) :
             \E q \in others(p) : ~ Leads(i, p, q) \/ power[i][p] = power[i][q]

\* The rule of docs/API.md for tally, on sets: a proposal other than the default
\* one wins only if it leads every other by the margin, the default one only if
\* no other leads strictly; and the winner, once recorded, stays.
TallyFollowsTheRule ==
    [][\A i \in Issues : winnerId'[i] # winnerId[i] => RuleOfTheTally(i, winnerId'[i])]_vars

\* A closed issue that is still the network's issue has its successor on the
\* way: an apply_parameters message that will be accepted.  Otherwise no
\* transaction can ever move network.issue again.
SuccessorSent ==
    \E m \in globals : /\ m.type = "apply_parameters"
                       /\ HasContent(m)
                       /\ m.issue = issue + 1

ClosedIssueHasSuccessor == active[issue] = "inactive" => SuccessorSent

Wedged == active[issue] = "inactive" /\ ~ SuccessorSent

\* A round closed without a successor is never recovered: the reset of the
\* windows by networkMaintenance restarts the clock of an issue that no
\* transaction accepts any more.
WedgeIsForever == [][Wedged => Wedged']_vars

\* The network never sits in windows that are over: when the apply window has
\* ended and its last global is due, the next round's windows are in force.
WindowsKeepUp ==
    windows # NoWindows =>
        now <= windows + TotalDuration + ApplyDelay + MaxLate

\* Every round that begins is completed and makes way for the next.
RoundsComplete ==
    \A i \in 1 .. MaxIssue : (issue = i) ~> (issue = i + 1)
=============================================================================
