-------------------------- MODULE NetworkDaoProofs --------------------------
(***************************************************************************)
(* Theorems about NetworkDao, for every value of its constants.            *)
(***************************************************************************)
EXTENDS NetworkDao, FiniteSetTheorems, WellFoundedInduction, TLAPS

\* The state after a step is typed and ordered: one lemma per group of actions.

LEMMA InitTyped == Init => TypeOK /\ IssuesAreOrdered
  BY DaoAssumption DEF Init, TypeOK, IssuesAreOrdered, Issues, NoWindows, Duty

LEMMA Fees ==
    ASSUME TypeOK
    PROVE  /\ ProposalFee[current] \in Nat
           /\ TransactionFee[current] \in Nat
  BY DaoAssumption DEF TypeOK

LEMMA UserTyped ==
    ASSUME TypeOK, IssuesAreOrdered, UserTx
    PROVE  TypeOK' /\ IssuesAreOrdered'
<1>1. ASSUME NEW u \in Users, NEW q \in Params, ProposalTx(u, q)
      PROVE  TypeOK' /\ IssuesAreOrdered'
  <2> DEFINE n   == proposalCount[issue] + 1
             fee == ProposalFee[current] + TransactionFee[current]
  <2>0. /\ issue \in Issues
        /\ proposalCount \in [Issues -> 0 .. MaxProposals]
        /\ winnerId \in [Issues -> 0 .. MaxProposals]
        /\ parameters \in [Issues -> [1 .. MaxProposals -> Params]]
        /\ balance \in [Users -> Nat]
        /\ MaxProposals \in Nat
    BY DaoAssumption DEF TypeOK
  <2>a. /\ n <= MaxProposals
        /\ balance[u] >= fee
        /\ balance' = [balance EXCEPT ![u] = @ - fee]
        /\ proposalCount' = [proposalCount EXCEPT ![issue] = n]
        /\ parameters' = [parameters EXCEPT ![issue][n] = q]
    BY <1>1 DEF ProposalTx, Pays
  <2>1. n \in 1 .. MaxProposals
    BY <2>0, <2>a
  <2>b. fee \in Nat
    BY Fees
  <2>2. balance' \in [Users -> Nat]
    BY <2>0, <2>a, <2>b
  <2>3. /\ proposalCount' \in [Issues -> 0 .. MaxProposals]
        /\ parameters' \in [Issues -> [1 .. MaxProposals -> Params]]
    <3> HIDE DEF n
    <3> QED  BY <2>0, <2>a, <2>1
  <2>4. UNCHANGED <<now, networkVars, active, winnerId, power, globals, nodeVars>>
    BY <1>1 DEF ProposalTx
  <2>5. TypeOK'
    BY <2>2, <2>3, <2>4 DEF TypeOK, networkVars, nodeVars
  <2>6. \A i \in Issues : proposalCount[i] <= proposalCount'[i]
    BY <2>0, <2>a
  <2>7. ASSUME NEW i \in Issues
        PROVE  winnerId[i] <= proposalCount'[i]
    <3>1. winnerId[i] <= proposalCount[i]
      BY DEF IssuesAreOrdered
    <3> QED  BY <2>0, <2>3, <2>6, <3>1
  <2> QED  BY <2>4, <2>5, <2>7 DEF IssuesAreOrdered
<1>2. ASSUME NEW u \in Users, NEW i \in Issues, NEW p \in 1 .. MaxProposals,
             NEW a \in VoteAmounts, VoteTx(u, i, p, a)
      PROVE  TypeOK' /\ IssuesAreOrdered'
  <2>0. /\ balance \in [Users -> Nat]
        /\ power \in [Issues -> [1 .. MaxProposals -> Nat]]
    BY DEF TypeOK
  <2>a. /\ balance[u] >= a + TransactionFee[current]
        /\ balance' = [balance EXCEPT ![u] = @ - (a + TransactionFee[current])]
        /\ power' = [power EXCEPT ![i][p] = @ + a]
    BY <1>2 DEF VoteTx, Pays
  <2>1. a \in Nat
    BY DaoAssumption
  <2>2. balance' \in [Users -> Nat]
    BY <2>0, <2>a, <2>1, Fees
  <2>b. power[i] \in [1 .. MaxProposals -> Nat]
    BY <2>0
  <2>c. power[i][p] + a \in Nat
    <3>1. power[i][p] \in Nat
      BY <2>b
    <3> QED  BY <3>1, <2>1
  <2>3. power' \in [Issues -> [1 .. MaxProposals -> Nat]]
    BY <2>0, <2>a, <2>c
  <2>4. UNCHANGED <<now, networkVars, active, winnerId, proposalCount,
                    parameters, globals, nodeVars>>
    BY <1>2 DEF VoteTx
  <2> QED  BY <2>2, <2>3, <2>4 DEF TypeOK, IssuesAreOrdered, networkVars, nodeVars
<1> QED  BY <1>1, <1>2 DEF UserTx

LEMMA NodeTyped ==
    ASSUME TypeOK, IssuesAreOrdered, NodeTx
    PROVE  TypeOK' /\ IssuesAreOrdered'
<1> USE DaoAssumption
<1>1. CASE NetworkWindowsTx
  <2>1. globals' \subseteq ApplyTally \cup ApplyParameters
    BY <1>1 DEF NetworkWindowsTx, TypeOK, ApplyParameters
  <2> QED  BY <1>1, <2>1 DEF NetworkWindowsTx, Injects, TypeOK, IssuesAreOrdered,
                             networkVars, issueVars
<1>2. CASE IssueTx
  <2>1. /\ active' \in [Issues -> {"absent", "active", "inactive"}]
        /\ proposalCount' \in [Issues -> 0 .. MaxProposals]
        /\ parameters' \in [Issues -> [1 .. MaxProposals -> Params]]
    BY <1>2 DEF IssueTx, TypeOK
  <2>2. /\ UNCHANGED <<winnerId, power, globals, now, balance, maintained>>
        /\ UNCHANGED networkVars
        /\ intents' \subseteq Duty
    BY <1>2 DEF IssueTx, Injects, TypeOK
  <2>3. TypeOK'
    BY <2>1, <2>2 DEF TypeOK, networkVars
  <2>4. /\ active[issue] = "absent"
        /\ issue \in Issues
        /\ issue # MaxIssue + 1
        /\ active' = [active EXCEPT ![issue] = "active"]
        /\ proposalCount' = [proposalCount EXCEPT ![issue] = 1]
    BY <1>2 DEF IssueTx, IssueIsValid, TypeOK, Issues
  <2>5. active'[MaxIssue + 1] = "absent"
    BY <2>4 DEF TypeOK, IssuesAreOrdered, Issues
  <2>6. ASSUME NEW i \in Issues
        PROVE  /\ active'[i] = "absent" => winnerId'[i] = 0
               /\ winnerId'[i] <= proposalCount'[i]
    BY <2>2, <2>4 DEF TypeOK, IssuesAreOrdered
  <2> QED  BY <2>3, <2>5, <2>6 DEF IssuesAreOrdered
<1>3. ASSUME NEW w \in 1 .. MaxProposals, TallyTx(w)
      PROVE  TypeOK' /\ IssuesAreOrdered'
  <2>1. /\ winnerId' \in [Issues -> 0 .. MaxProposals]
        /\ winnerId' = [winnerId EXCEPT ![issue] = w]
        /\ w <= proposalCount[issue]
        /\ active[issue] = "active"
    BY <1>3 DEF TallyTx, TallyIsValid, TypeOK
  <2>2. globals' \subseteq ApplyTally \cup ApplyParameters
    <3>1. /\ parameters[issue] \in [1 .. MaxProposals -> Params]
          /\ now + ApplyDelay \in Nat
          /\ windows + TotalDuration \in Int
      BY DEF TypeOK, TotalDuration
    <3>2. parameters[issue][w] \in Params
      BY <3>1
    <3>3. globals' = globals \cup
            {[type |-> "apply_tally", when |-> now + ApplyDelay,
              next |-> parameters[issue][w],
              nextWindows |-> windows + TotalDuration]}
      BY <1>3 DEF TallyTx, WinnerParameters, FollowingWindows
    <3>4. [type |-> "apply_tally", when |-> now + ApplyDelay,
           next |-> parameters[issue][w], nextWindows |-> windows + TotalDuration]
            \in ApplyTally
      BY <3>1, <3>2 DEF ApplyTally
    <3>5. globals \subseteq ApplyTally \cup ApplyParameters
      BY DEF TypeOK
    <3> QED  BY <3>3, <3>4, <3>5
  <2>3. /\ UNCHANGED <<active, proposalCount, parameters, power>>
        /\ UNCHANGED <<now, networkVars, balance, maintained>>
        /\ intents' \subseteq Duty
    BY <1>3 DEF TallyTx, Injects, TypeOK
  <2>4. TypeOK'
    BY <2>1, <2>2, <2>3 DEF TypeOK, networkVars
  <2> QED  BY <2>1, <2>3, <2>4 DEF TypeOK, IssuesAreOrdered
<1>4. CASE ParametersTx
  <2>1. /\ active[issue] = "active"
        /\ active' = [active EXCEPT ![issue] = "inactive"]
        /\ active' \in [Issues -> {"absent", "active", "inactive"}]
    BY <1>4 DEF ParametersTx, ParametersIsValid, TypeOK
  <2>2. issue + 1 \in Issues
    <3>1. issue \in Issues /\ MaxIssue \in Nat
      BY DEF TypeOK
    <3>2. issue # MaxIssue + 1
      BY <2>1 DEF IssuesAreOrdered
    <3> QED  BY <3>1, <3>2 DEF Issues
  <2>3. globals' \subseteq ApplyTally \cup ApplyParameters
    <3>1. /\ now + ApplyDelay \in Nat
          /\ next \in Params \cup {NoParams}
          /\ nextWindows \in Int
      BY DEF TypeOK
    <3>2. globals' = globals \cup
            {[type |-> "apply_parameters", when |-> now + ApplyDelay,
              current |-> next, windows |-> nextWindows,
              devWindows |-> NoWindows, issue |-> issue + 1]}
      BY <1>4 DEF ParametersTx
    <3>3. [type |-> "apply_parameters", when |-> now + ApplyDelay,
           current |-> next, windows |-> nextWindows,
           devWindows |-> NoWindows, issue |-> issue + 1]
            \in ApplyParameters
      BY <2>2, <3>1 DEF ApplyParameters, NoWindows
    <3> QED  BY <3>2, <3>3 DEF TypeOK
  <2>4. /\ UNCHANGED <<winnerId, proposalCount, parameters, power>>
        /\ UNCHANGED <<now, networkVars, balance, maintained>>
        /\ intents' \subseteq Duty
    BY <1>4 DEF ParametersTx, Injects, TypeOK
  <2>5. TypeOK'
    BY <2>1, <2>3, <2>4 DEF TypeOK, networkVars
  <2>6. MaxIssue + 1 # issue
    BY <2>1 DEF IssuesAreOrdered
  <2>7. active'[MaxIssue + 1] = "absent"
    BY <2>1, <2>6 DEF TypeOK, IssuesAreOrdered, Issues
  <2>8. ASSUME NEW i \in Issues
        PROVE  /\ active'[i] = "absent" => winnerId'[i] = 0
               /\ winnerId'[i] <= proposalCount'[i]
    BY <2>1, <2>4 DEF TypeOK, IssuesAreOrdered
  <2> QED  BY <2>5, <2>7, <2>8 DEF IssuesAreOrdered
<1>5. ASSUME NEW duty \in Duty, Refused(duty)
      PROVE  TypeOK' /\ IssuesAreOrdered'
  BY <1>5 DEF Refused, Injects, TypeOK, IssuesAreOrdered, networkVars, issueVars
<1> QED  BY <1>1, <1>2, <1>3, <1>4, <1>5 DEF NodeTx

LEMMA OtherTyped ==
    ASSUME TypeOK, IssuesAreOrdered,
           GlobalTx \/ Maintain \/ Tick \/ Fault \/ UNCHANGED vars
    PROVE  TypeOK' /\ IssuesAreOrdered'
<1> USE DaoAssumption
<1>1. ASSUME NEW m \in globals, ApplyTallyTx(m)
      PROVE  TypeOK' /\ IssuesAreOrdered'
  <2>1. m.next \in Params /\ m.nextWindows \in Int
    BY <1>1 DEF ApplyTallyTx, TypeOK, ApplyTally, ApplyParameters
  <2> QED  BY <1>1, <2>1 DEF ApplyTallyTx, TypeOK, IssuesAreOrdered, issueVars, nodeVars
<1>2. ASSUME NEW m \in globals, ApplyParametersTx(m)
      PROVE  TypeOK' /\ IssuesAreOrdered'
  <2>1. m.current \in Params /\ m.windows \in Int /\ m.issue \in Issues
    BY <1>2 DEF ApplyParametersTx, HasContent, TypeOK, ApplyTally, ApplyParameters
  <2>2. NoWindows \in Int
    BY DEF NoWindows
  <2> QED  BY <1>2, <2>1, <2>2 DEF ApplyParametersTx, TypeOK, IssuesAreOrdered,
                                   issueVars, nodeVars
<1>3. ASSUME NEW m, Drop(m)
      PROVE  TypeOK' /\ IssuesAreOrdered'
  BY <1>3 DEF Drop, TypeOK, IssuesAreOrdered, networkVars, issueVars, nodeVars
<1>4. ASSUME Cycle \in Int, Maintain
      PROVE  TypeOK' /\ IssuesAreOrdered'
  <2>1. Duties \subseteq Duty
    BY DEF Duties, Duty
  <2> QED  BY <1>4, <2>1 DEF Maintain, TypeOK, IssuesAreOrdered, networkVars, issueVars
<1>5. Cycle \in Int
  <2>1. now \in Nat /\ CycleLen \in Nat /\ CycleLen > 0
    BY DEF TypeOK
  <2> QED  BY <2>1, SMT DEF Cycle
<1>6. CASE Tick
  <2>1. /\ now' = now + 1
        /\ UNCHANGED <<networkVars, issueVars, balance, globals, nodeVars>>
    BY <1>6 DEF Tick
  <2>2. now' \in Nat
    BY <2>1 DEF TypeOK
  <2> QED  BY <2>1, <2>2 DEF TypeOK, IssuesAreOrdered, networkVars, issueVars, nodeVars
<1>7. ASSUME NEW duty \in Duty, NodeStops(duty)
      PROVE  TypeOK' /\ IssuesAreOrdered'
  BY <1>7 DEF NodeStops, Injects, TypeOK, IssuesAreOrdered, networkVars, issueVars
<1>8. CASE SkipMaintenance
  BY <1>5, <1>8 DEF SkipMaintenance, TypeOK, IssuesAreOrdered, networkVars, issueVars
<1>9. CASE UNCHANGED vars
  BY <1>9 DEF vars, TypeOK, IssuesAreOrdered, networkVars, issueVars, nodeVars
<1>10. CASE GlobalTx
  BY <1>1, <1>2, <1>3, <1>10 DEF GlobalTx, ApplyParametersRejected
<1>11. CASE Fault
  BY <1>3, <1>7, <1>8, <1>11 DEF Fault, GlobalLost
<1> QED  BY <1>4, <1>5, <1>6, <1>9, <1>10, <1>11

LEMMA StepTyped ==
    TypeOK /\ IssuesAreOrdered /\ [Next]_vars => TypeOK' /\ IssuesAreOrdered'
  BY UserTyped, NodeTyped, OtherTyped DEF Next

\* Every state of governance is well formed, a round's winner is one of its
\* proposals and only an issue that was opened has one.
THEOREM DaoTyped == Spec => [](TypeOK /\ IssuesAreOrdered)
<1>1. Init => TypeOK /\ IssuesAreOrdered
  BY InitTyped
<1>2. (TypeOK /\ IssuesAreOrdered) /\ [Next]_vars => (TypeOK /\ IssuesAreOrdered)'
  BY StepTyped
<1> QED  BY <1>1, <1>2, PTL DEF Spec

\* A recorded winner stays, and so do its parameters: a proposal is written
\* behind those that exist, and the default one only into an issue without any.
LEMMA WinnerStays ==
    ASSUME TypeOK, IssuesAreOrdered, [Next]_vars, NEW i \in Issues, winnerId[i] # 0
    PROVE  /\ winnerId'[i] = winnerId[i]
           /\ parameters'[i][winnerId[i]] = parameters[i][winnerId[i]]
<1> DEFINE Stays(j) == /\ winnerId'[j] = winnerId[j]
                       /\ parameters'[j][winnerId[j]] = parameters[j][winnerId[j]]
<1>1. SUFFICES Stays(i)
  OBVIOUS
<1>2. winnerId[i] # 0
  OBVIOUS
<1>3. /\ parameters \in [Issues -> [1 .. MaxProposals -> Params]]
      /\ winnerId \in [Issues -> 0 .. MaxProposals]
      /\ proposalCount \in [Issues -> 0 .. MaxProposals]
      /\ issue \in Issues
      /\ MaxProposals \in Nat
  BY DaoAssumption DEF TypeOK
<1>4. /\ active[i] # "absent"
      /\ winnerId[i] <= proposalCount[i]
  BY <1>2 DEF IssuesAreOrdered
<1>5. ASSUME NEW u \in Users, NEW q \in Params, ProposalTx(u, q)
      PROVE  Stays(i)
  <2>1. /\ parameters' = [parameters EXCEPT ![issue][proposalCount[issue] + 1] = q]
        /\ winnerId' = winnerId
    BY <1>5 DEF ProposalTx
  <2>2. winnerId[i] # proposalCount[i] + 1
    BY <1>3, <1>4
  <2>3. parameters'[i][winnerId[i]] = parameters[i][winnerId[i]]
    BY <1>3, <2>1, <2>2
  <2> QED  BY <2>1, <2>3
<1>6. CASE IssueTx
  <2>1. /\ parameters' = [parameters EXCEPT ![issue][1] = current]
        /\ winnerId' = winnerId
        /\ issue # i
    BY <1>4, <1>6 DEF IssueTx, IssueIsValid
  <2> QED  BY <1>3, <2>1
<1>7. ASSUME NEW w \in 1 .. MaxProposals, TallyTx(w)
      PROVE  Stays(i)
  <2>1. /\ winnerId' = [winnerId EXCEPT ![issue] = w]
        /\ parameters' = parameters
        /\ winnerId[issue] = 0
    BY <1>7 DEF TallyTx, TallyIsValid
  <2> QED  BY <1>2, <1>3, <2>1
<1>8. ASSUME UNCHANGED <<winnerId, parameters>>
      PROVE  Stays(i)
  BY <1>8
<1>9. CASE UserTx
  BY <1>5, <1>8, <1>9 DEF UserTx, VoteTx
<1>10. CASE NodeTx
  BY <1>6, <1>7, <1>8, <1>10
     DEF NodeTx, NetworkWindowsTx, ParametersTx, Refused, issueVars
<1>11. CASE GlobalTx
  BY <1>8, <1>11 DEF GlobalTx, ApplyTallyTx, ApplyParametersTx,
                     ApplyParametersRejected, Drop, issueVars
<1>12. CASE Fault
  BY <1>8, <1>12 DEF Fault, NodeStops, GlobalLost, SkipMaintenance, Drop, issueVars
<1>13. CASE Maintain \/ Tick \/ UNCHANGED vars
  BY <1>8, <1>13 DEF Maintain, Tick, vars, issueVars
<1> QED  BY <1>9, <1>10, <1>11, <1>12, <1>13 DEF Next

LEMMA ChosenStays ==
    ASSUME TypeOK, IssuesAreOrdered, [Next]_vars
    PROVE  Chosen \subseteq Chosen'
  BY WinnerStays DEF Chosen

\* Each hand on the way to network.current passes on what was chosen.
LEMMA ChosenStep ==
    ASSUME TypeOK, IssuesAreOrdered, CurrentWasChosen, InFlightWasChosen, [Next]_vars
    PROVE  CurrentWasChosen' /\ InFlightWasChosen'
<1>1. Chosen \subseteq Chosen'
  BY ChosenStays
<1>2. ASSUME UNCHANGED <<current, next>>, globals' \subseteq globals
      PROVE  CurrentWasChosen' /\ InFlightWasChosen'
  BY <1>1, <1>2 DEF CurrentWasChosen, InFlightWasChosen
<1>3. CASE NetworkWindowsTx
  <2>1. PICK m : /\ m.type = "apply_parameters"
                 /\ m.current = current
                 /\ globals' = globals \cup {m}
                 /\ UNCHANGED <<current, next>>
    BY <1>3 DEF NetworkWindowsTx, Injects, networkVars
  <2> QED  BY <1>1, <2>1 DEF CurrentWasChosen, InFlightWasChosen
<1>4. ASSUME NEW w \in 1 .. MaxProposals, TallyTx(w)
      PROVE  CurrentWasChosen' /\ InFlightWasChosen'
  <2>1. PICK m : /\ m.type = "apply_tally"
                 /\ m.next = parameters[issue][w]
                 /\ globals' = globals \cup {m}
                 /\ UNCHANGED <<current, next>>
    BY <1>4 DEF TallyTx, Injects, WinnerParameters, networkVars
  <2>2. /\ winnerId' = [winnerId EXCEPT ![issue] = w]
        /\ parameters' = parameters
        /\ issue \in Issues
        /\ winnerId \in [Issues -> 0 .. MaxProposals]
    BY <1>4 DEF TallyTx, TypeOK
  <2>3. m.next \in Chosen'
    <3>1. winnerId'[issue] = w /\ w # 0
      BY <2>2
    <3> QED  BY <2>1, <2>2, <3>1 DEF Chosen
  <2> QED  BY <1>1, <2>1, <2>3 DEF CurrentWasChosen, InFlightWasChosen
<1>5. CASE ParametersTx
  <2>1. PICK m : /\ m.type = "apply_parameters"
                 /\ m.current = next
                 /\ globals' = globals \cup {m}
                 /\ UNCHANGED <<current, next>>
    BY <1>5 DEF ParametersTx, Injects, networkVars
  <2> QED  BY <1>1, <2>1 DEF CurrentWasChosen, InFlightWasChosen
<1>6. ASSUME NEW m \in globals, ApplyTallyTx(m)
      PROVE  CurrentWasChosen' /\ InFlightWasChosen'
  <2>1. /\ m.type = "apply_tally"
        /\ next' = m.next
        /\ current' = current
        /\ globals' = globals \ {m}
    BY <1>6 DEF ApplyTallyTx
  <2> QED  BY <1>1, <2>1 DEF CurrentWasChosen, InFlightWasChosen
<1>7. ASSUME NEW m \in globals, ApplyParametersTx(m)
      PROVE  CurrentWasChosen' /\ InFlightWasChosen'
  <2>1. /\ m.type = "apply_parameters"
        /\ m.current # NoParams
        /\ current' = m.current
        /\ next' = NoParams
        /\ globals' = globals \ {m}
    BY <1>7 DEF ApplyParametersTx, HasContent
  <2> QED  BY <1>1, <2>1 DEF CurrentWasChosen, InFlightWasChosen
<1>8. CASE UserTx
  BY <1>2, <1>8 DEF UserTx, ProposalTx, VoteTx, networkVars
<1>9. CASE NodeTx
  BY <1>2, <1>3, <1>4, <1>5, <1>9 DEF NodeTx, IssueTx, Refused, Injects, networkVars
<1>10. CASE GlobalTx
  BY <1>2, <1>6, <1>7, <1>10 DEF GlobalTx, ApplyParametersRejected, Drop, networkVars
<1>11. CASE Fault
  BY <1>2, <1>11 DEF Fault, NodeStops, GlobalLost, SkipMaintenance, Drop, Injects, networkVars
<1>12. CASE Maintain \/ Tick \/ UNCHANGED vars
  BY <1>2, <1>12 DEF Maintain, Tick, vars, networkVars
<1> QED  BY <1>8, <1>9, <1>10, <1>11, <1>12 DEF Next

\* Whatever is skipped, lost, late or repeated, the parameters in force are the
\* initial ones or a proposal's that a tally recorded as the winner.
THEOREM DaoChosen == Spec => []CurrentWasChosen
<1> DEFINE Inv == TypeOK /\ IssuesAreOrdered /\ CurrentWasChosen /\ InFlightWasChosen
<1>1. Init => Inv
  BY InitTyped DEF Init, CurrentWasChosen, InFlightWasChosen, Chosen
<1>2. Inv /\ [Next]_vars => Inv'
  BY StepTyped, ChosenStep
<1>3. Inv => CurrentWasChosen
  OBVIOUS
<1> QED  BY <1>1, <1>2, <1>3, PTL DEF Spec

-----------------------------------------------------------------------------
(***************************************************************************)
(* When every cycle is attended and the globals come in time.              *)

\* Two cycles and the way of a global message fit in a window.
Punctual ==
    /\ Attended = TRUE
    /\ 2 * CycleLen + ApplyDelay + MaxLate <= WindowLen

\* The start of the cycle that was maintained last, less than two cycles ago.
Mark == maintained * CycleLen
Clocked == Mark <= now /\ now < Mark + 2 * CycleLen

\* A message of the first start of the windows: others may have been sent before it
\* was applied.
IsReset(m) ==
    /\ m.type = "apply_parameters" /\ m.current \in Params /\ m.issue = 1
    /\ m.windows = m.when + ApplyDelay /\ m.devWindows = m.windows
    /\ m.when <= now + ApplyDelay /\ now <= m.when + MaxLate

Starting ==
    /\ windows = NoWindows /\ issue = 1 /\ active[issue] = "absent"
    /\ \A m \in globals : IsReset(m)
    /\ intents \subseteq {"network_windows"}

\* The windows may still be reset, to others that start about the same time.
MayReset ==
    /\ \A m \in globals : /\ IsReset(m) /\ issue = 1
                          /\ m.windows <= windows + ApplyDelay + MaxLate
    /\ "network_windows" \in intents => issue = 1 /\ now + ApplyDelay <= windows + MaxLate

Waiting ==
    /\ windows \in Nat /\ active[issue] = "absent" /\ MayReset
    /\ "tally" \notin intents /\ "parameters" \notin intents
    /\ \/ Mark <= windows + MaxLate
       \/ "issue" \in intents /\ windows <= now /\ now <= windows + WindowLen

Opened ==
    /\ windows \in Nat /\ active[issue] = "active" /\ winnerId[issue] = 0 /\ MayReset
    /\ "parameters" \notin intents
    /\ \/ "tally" \notin intents /\ Mark <= windows + 2 * WindowLen
       \/ /\ "tally" \in intents
          /\ windows + 2 * WindowLen <= now /\ now < windows + 2 * WindowLen + 2 * CycleLen

\* There is nothing but the message m, which is in time.
Only(m) == globals = {m} /\ now <= m.when + MaxLate

Decided ==
    /\ windows \in Nat /\ active[issue] = "active" /\ winnerId[issue] # 0
    /\ intents \subseteq {"issue"}
    /\ \E m \in globals :
          /\ Only(m) /\ m.type = "apply_tally" /\ m.next \in Params /\ m.nextWindows = windows + TotalDuration
          /\ m.when < windows + 2 * WindowLen + 2 * CycleLen + ApplyDelay

Settled ==
    /\ windows \in Nat /\ active[issue] = "active" /\ winnerId[issue] # 0
    /\ next \in Params /\ nextWindows = windows + TotalDuration /\ globals = {}
    /\ \/ intents \subseteq {"issue"} /\ Mark <= windows + 3 * WindowLen
       \/ /\ intents \subseteq {"issue", "parameters"} /\ "parameters" \in intents
          /\ windows + 3 * WindowLen <= now /\ now < windows + 3 * WindowLen + 2 * CycleLen

Closed ==
    /\ windows \in Nat /\ active[issue] = "inactive" /\ winnerId[issue] # 0
    /\ intents \subseteq {"issue"}
    /\ \E m \in globals :
          /\ Only(m) /\ m.type = "apply_parameters" /\ m.current \in Params
          /\ m.windows = windows + TotalDuration
          /\ m.devWindows = NoWindows /\ m.issue = issue + 1
          /\ m.when < windows + 3 * WindowLen + 2 * CycleLen + ApplyDelay

Stages == Starting \/ Waiting \/ Opened \/ Decided \/ Settled \/ Closed
NoneAhead == \A i \in Issues : i > issue => active[i] = "absent"

KeepInv == TypeOK /\ IssuesAreOrdered /\ Clocked /\ NoneAhead /\ Stages

\* Whole cycles: what the clock has of them, and that the next one starts later.
LEMMA WholeCycles ==
    ASSUME NEW n \in Nat, NEW c \in Nat \ {0}
    PROVE  /\ n \div c \in Int
           /\ (n \div c) * c <= n
           /\ n < (n \div c) * c + c
  OBVIOUS

LEMMA CyclesInOrder ==
    ASSUME NEW a \in Int, NEW b \in Int, NEW c \in Nat \ {0}
    PROVE  a < b <=> a * c + c <= b * c
<1>1. ASSUME a < b PROVE a * c + c <= b * c
  <2> DEFINE d == b - a - 1
  <2>1. d \in Nat /\ b = (a + 1) + d
    BY <1>1
  <2> HIDE DEF d
  <2>2. d * c \in Nat /\ b * c = (a * c + c) + d * c
    BY <2>1
  <2> QED  BY <2>2
<1>2. ASSUME b <= a PROVE b * c <= a * c
  <2> DEFINE d == a - b
  <2>1. d \in Nat /\ a = b + d
    BY <1>2
  <2> HIDE DEF d
  <2>2. d * c \in Nat /\ a * c = b * c + d * c
    BY <2>1
  <2> QED  BY <2>2
<1>3. a * c \in Int /\ b * c \in Int /\ c > 0
  OBVIOUS
<1> QED  BY <1>1, <1>2, <1>3

LEMMA ClockInit == Init => Clocked
<1> SUFFICES ASSUME Init PROVE Clocked
  OBVIOUS
<1>1. now = 0 /\ maintained = -1 /\ CycleLen \in Nat /\ CycleLen > 0
  BY DaoAssumption DEF Init
<1>2. Mark = 0 - CycleLen
  BY <1>1 DEF Mark
<1> QED  BY <1>1, <1>2 DEF Clocked

LEMMA ClockTicks ==
    ASSUME TypeOK, Clocked, Tick
    PROVE  Clocked'
<1> DEFINE q == now \div CycleLen
           r == (now + 1) \div CycleLen
<1>1. /\ now \in Nat /\ maintained \in Int /\ CycleLen \in Nat \ {0}
      /\ now' = now + 1 /\ maintained' = maintained
      /\ r > q => maintained = q
  BY DaoAssumption DEF TypeOK, Tick, nodeVars, Cycle
<1>2. q \in Int /\ q * CycleLen <= now /\ now < q * CycleLen + CycleLen
  BY <1>1, WholeCycles
<1>3. r \in Int /\ r * CycleLen <= now + 1 /\ now + 1 < r * CycleLen + CycleLen
  BY <1>1, WholeCycles
<1> HIDE DEF q, r
<1>4. /\ maintained * CycleLen \in Int /\ q * CycleLen \in Int /\ r * CycleLen \in Int
      /\ Mark = maintained * CycleLen /\ Mark' = Mark
  BY <1>1, <1>2, <1>3 DEF Mark
<1>5. Mark <= now /\ now < Mark + 2 * CycleLen
  BY DEF Clocked
<1>6. now + 1 < Mark + 2 * CycleLen
  <2>1. CASE r > q
    <3>1. Mark = q * CycleLen
      BY <1>1, <1>4, <2>1
    <3> QED  BY <1>1, <1>2, <1>4, <3>1
  <2>2. CASE ~ (r > q)
    <3>1. q * CycleLen < Mark + 2 * CycleLen
      BY <1>1, <1>2, <1>4, <1>5
    <3>2. maintained + 1 \in Int /\ (maintained + 1) * CycleLen = Mark + CycleLen
      BY <1>1, <1>4
    <3>3. ~ (maintained + 1 < q)
      BY <1>1, <1>2, <1>4, <3>1, <3>2, CyclesInOrder
    <3>4. ~ (maintained + 1 < r)
      BY <1>1, <1>2, <1>3, <2>2, <3>3
    <3>5. r * CycleLen <= Mark + CycleLen
      <4>1. r < maintained + 1 \/ r = maintained + 1
        BY <1>1, <1>3, <3>4
      <4>2. CASE r < maintained + 1
        BY <1>1, <1>3, <1>4, <3>2, <4>2, CyclesInOrder
      <4>3. CASE r = maintained + 1
        BY <1>1, <1>4, <3>2, <4>3
      <4> QED  BY <4>1, <4>2, <4>3
    <3> QED  BY <1>1, <1>3, <1>4, <3>5
  <2> QED  BY <2>1, <2>2
<1> QED  BY <1>1, <1>4, <1>5, <1>6 DEF Clocked

LEMMA ClockMaintained ==
    ASSUME TypeOK, Maintain
    PROVE  Mark' <= now /\ now < Mark' + CycleLen /\ Mark' \in Int
<1>1. /\ now \in Nat /\ CycleLen \in Nat \ {0} /\ now' = now
      /\ maintained' = now \div CycleLen
  BY DaoAssumption DEF TypeOK, Maintain, Cycle
<1>2. Mark' = (now \div CycleLen) * CycleLen
  BY <1>1 DEF Mark
<1> QED  BY <1>1, <1>2, WholeCycles

LEMMA Times ==
    ASSUME KeepInv, Punctual
    PROVE  /\ now \in Nat /\ Mark \in Int /\ issue \in Nat /\ issue \in Issues
           /\ CycleLen \in Nat /\ CycleLen > 0
           /\ WindowLen \in Nat /\ ApplyDelay \in Nat /\ MaxLate \in Nat
           /\ 2 * CycleLen + ApplyDelay + MaxLate <= WindowLen
           /\ TotalDuration = 4 * WindowLen
           /\ Mark <= now /\ now < Mark + 2 * CycleLen
           /\ active[issue] \in {"absent", "active", "inactive"}
           /\ active[issue] = "absent" => winnerId[issue] = 0
           /\ MaxProposals \in Nat /\ intents \subseteq Duty
           /\ NoParams \notin Params /\ current \in Params
<1>1. TypeOK /\ IssuesAreOrdered /\ Clocked
  BY DEF KeepInv
<1>2. now \in Nat /\ maintained \in Int /\ issue \in Issues /\ issue \in Nat
      /\ intents \subseteq Duty /\ current \in Params
  BY <1>1, DaoAssumption DEF TypeOK, Issues
<1>3. /\ CycleLen \in Nat /\ CycleLen > 0 /\ WindowLen \in Nat /\ ApplyDelay \in Nat
      /\ MaxLate \in Nat /\ MaxProposals \in Nat /\ NoParams \notin Params
  BY DaoAssumption
<1>4. Mark \in Int
  BY <1>2, <1>3 DEF Mark
<1>5. /\ active[issue] \in {"absent", "active", "inactive"}
      /\ active[issue] = "absent" => winnerId[issue] = 0
  BY <1>1, <1>2 DEF TypeOK, IssuesAreOrdered
<1> QED  BY <1>1, <1>2, <1>3, <1>4, <1>5 DEF Clocked, Punctual, TotalDuration

LEMMA Messages ==
    ASSUME TypeOK, NEW m \in globals
    PROVE  /\ m.when \in Nat /\ m.type \in {"apply_tally", "apply_parameters"}
           /\ m.type = "apply_tally" => m.next \in Params /\ m.nextWindows \in Int
           /\ m.type = "apply_parameters" =>
                m.windows \in Int /\ m.devWindows \in Int /\ m.issue \in Issues
  BY DEF TypeOK, ApplyTally, ApplyParameters

\* What the stages read.
stageVars == <<now, networkVars, active, winnerId, globals, nodeVars>>

LEMMA StageUnchanged ==
    ASSUME Stages, NoneAhead, UNCHANGED stageVars
    PROVE  Stages' /\ NoneAhead'
<1>1. UNCHANGED <<now, current, next, windows, nextWindows, issue, active, winnerId,
                  globals, intents, maintained>>
  BY DEF stageVars, networkVars, nodeVars
<1>2. Mark' = Mark
  BY <1>1 DEF Mark
<1>3. NoneAhead'
  BY <1>1 DEF NoneAhead
<1>4. ASSUME Starting PROVE Starting'
  BY <1>1, <1>4 DEF Starting, IsReset
<1>5. ASSUME MayReset PROVE MayReset'
  BY <1>1, <1>5 DEF MayReset, IsReset
<1>6. ASSUME Waiting PROVE Waiting'
  BY <1>1, <1>2, <1>5, <1>6 DEF Waiting
<1>7. ASSUME Opened PROVE Opened'
  BY <1>1, <1>2, <1>5, <1>7 DEF Opened
<1>8. ASSUME Decided PROVE Decided'
  BY <1>1, <1>8 DEF Decided, Only, TotalDuration
<1>9. ASSUME Settled PROVE Settled'
  BY <1>1, <1>2, <1>9 DEF Settled, TotalDuration
<1>10. ASSUME Closed PROVE Closed'
  BY <1>1, <1>10 DEF Closed, Only, TotalDuration
<1> QED  BY <1>3, <1>4, <1>6, <1>7, <1>8, <1>9, <1>10 DEF Stages

\* Resets are over long before the tally.
LEMMA ResetsEnd ==
    ASSUME KeepInv, Punctual, windows \in Nat, MayReset, windows + 2 * WindowLen <= now
    PROVE  globals = {} /\ "network_windows" \notin intents
<1>1. ASSUME NEW m \in globals PROVE FALSE
  <2>1. m.when \in Nat /\ m.windows = m.when + ApplyDelay /\ now <= m.when + MaxLate
        /\ m.windows <= windows + ApplyDelay + MaxLate
    BY <1>1, Messages DEF KeepInv, MayReset, IsReset
  <2> QED  BY <2>1, Times
<1>2. ASSUME "network_windows" \in intents PROVE FALSE
  BY <1>2, Times DEF MayReset
<1> QED  BY <1>1, <1>2

\* A duty is decided in the stage that it belongs to.
LEMMA DutyStages ==
    ASSUME KeepInv, Punctual
    PROVE  /\ "network_windows" \in intents =>
                \/ Starting
                \/ /\ Waiting \/ Opened
                   /\ issue = 1 /\ now + ApplyDelay <= windows + MaxLate
           /\ "tally" \in intents =>
                /\ Opened /\ globals = {} /\ intents \subseteq {"issue", "tally"}
                /\ windows + 2 * WindowLen <= now
                /\ now < windows + 2 * WindowLen + 2 * CycleLen
           /\ "parameters" \in intents =>
                /\ Settled /\ intents \subseteq {"issue", "parameters"}
                /\ windows + 3 * WindowLen <= now
                /\ now < windows + 3 * WindowLen + 2 * CycleLen
<1>1. Stages
  BY DEF KeepInv
<1>2. ASSUME "network_windows" \in intents
      PROVE  \/ Starting
             \/ /\ Waiting \/ Opened
                /\ issue = 1 /\ now + ApplyDelay <= windows + MaxLate
  BY <1>1, <1>2 DEF Stages, Waiting, Opened, MayReset, Decided, Settled, Closed
<1>3. ASSUME "tally" \in intents
      PROVE  /\ Opened /\ globals = {} /\ intents \subseteq {"issue", "tally"}
             /\ windows + 2 * WindowLen <= now
             /\ now < windows + 2 * WindowLen + 2 * CycleLen
  <2>1. Opened
    BY <1>1, <1>3 DEF Stages, Starting, Waiting, Decided, Settled, Closed
  <2>2. /\ windows \in Nat /\ MayReset /\ "parameters" \notin intents
        /\ windows + 2 * WindowLen <= now
        /\ now < windows + 2 * WindowLen + 2 * CycleLen
    BY <1>3, <2>1 DEF Opened
  <2>3. globals = {} /\ "network_windows" \notin intents
    BY <2>2, ResetsEnd
  <2>4. intents \subseteq Duty
    BY Times
  <2> QED  BY <2>1, <2>2, <2>3, <2>4 DEF Duty
<1>4. ASSUME "parameters" \in intents
      PROVE  /\ Settled /\ intents \subseteq {"issue", "parameters"}
             /\ windows + 3 * WindowLen <= now
             /\ now < windows + 3 * WindowLen + 2 * CycleLen
  <2>1. Settled
    BY <1>1, <1>4 DEF Stages, Starting, Waiting, Opened, Decided, Closed
  <2> QED  BY <1>4, <2>1 DEF Settled
<1> QED  BY <1>2, <1>3, <1>4

\* The transactions of the lucky node, one by one.

LEMMA WindowsStage ==
    ASSUME KeepInv, Punctual, NetworkWindowsTx
    PROVE  Stages' /\ NoneAhead'
<1> DEFINE r == [type |-> "apply_parameters", when |-> now + ApplyDelay,
                 current |-> current, windows |-> now + 2 * ApplyDelay,
                 devWindows |-> now + 2 * ApplyDelay, issue |-> issue]
<1>1. /\ "network_windows" \in intents /\ intents' = intents \ {"network_windows"}
      /\ globals' = globals \cup {r}
      /\ UNCHANGED <<now, current, next, windows, nextWindows, issue, active, winnerId, maintained>>
  BY DEF NetworkWindowsTx, Injects, networkVars, issueVars
<1>2. Mark' = Mark /\ NoneAhead'
  BY <1>1 DEF Mark, NoneAhead, KeepInv
<1>3. \A m : IsReset(m)' <=> IsReset(m)
  BY <1>1 DEF IsReset
<1>4. issue = 1 => IsReset(r)
  BY Times DEF IsReset
<1>5. r.windows = now + 2 * ApplyDelay
  OBVIOUS
<1> HIDE DEF r
<1>6. CASE Starting
  <2>1. \A m \in globals' : IsReset(m)'
    BY <1>1, <1>3, <1>4, <1>6 DEF Starting
  <2>2. Starting'
    BY <1>1, <1>6, <2>1 DEF Starting
  <2> QED  BY <1>2, <2>2 DEF Stages
<1>7. CASE (Waiting \/ Opened) /\ issue = 1 /\ now + ApplyDelay <= windows + MaxLate
  <2>1. windows \in Nat /\ MayReset
    BY <1>7 DEF Waiting, Opened
  <2>2. r.windows <= windows + ApplyDelay + MaxLate
    BY <1>5, <1>7, <2>1, Times
  <2>3. MayReset'
    BY <1>1, <1>3, <1>4, <1>7, <2>1, <2>2 DEF MayReset
  <2>4. Waiting => Waiting'
    BY <1>1, <1>2, <2>3 DEF Waiting
  <2>5. Opened => Opened'
    BY <1>1, <1>2, <2>3 DEF Opened
  <2> QED  BY <1>2, <1>7, <2>4, <2>5 DEF Stages
<1> QED  BY <1>1, <1>6, <1>7, DutyStages

LEMMA IssueStage ==
    ASSUME KeepInv, Punctual, IssueTx
    PROVE  Stages' /\ NoneAhead'
<1>1. /\ "issue" \in intents /\ intents' = intents \ {"issue"}
      /\ active[issue] = "absent" /\ active' = [active EXCEPT ![issue] = "active"]
      /\ windows # NoWindows /\ windows <= now /\ now <= windows + WindowLen
      /\ UNCHANGED <<now, current, next, windows, nextWindows, issue, globals, winnerId, maintained>>
  <2>1. windows \in Int
    BY DEF KeepInv, TypeOK
  <2>2. windows + (1 - 1) * WindowLen = windows /\ 1 * WindowLen = WindowLen
    BY <2>1, Times
  <2> QED  BY <2>1, <2>2 DEF IssueTx, IssueIsValid, InProposalWindow, InWindow, Injects, networkVars
<1>2. Mark' = Mark
  BY <1>1 DEF Mark
<1>3. active \in [Issues -> {"absent", "active", "inactive"}] /\ issue \in Issues /\ issue \in Nat
  BY Times DEF KeepInv, TypeOK
<1>4. NoneAhead'
  BY <1>1, <1>3 DEF NoneAhead, KeepInv
<1>5. Waiting
  BY <1>1 DEF KeepInv, Stages, Starting, Opened, Decided, Settled, Closed
<1>6. /\ windows \in Nat /\ MayReset /\ "tally" \notin intents /\ "parameters" \notin intents
      /\ Mark <= windows + MaxLate \/ (windows <= now /\ now <= windows + WindowLen)
  BY <1>5 DEF Waiting
<1>7. MayReset'
  BY <1>1, <1>6 DEF MayReset, IsReset
<1>8. Mark <= windows + 2 * WindowLen
  BY <1>6, Times
<1>9. active'[issue] = "active" /\ winnerId[issue] = 0
  BY <1>1, <1>3, Times
<1>10. Opened'
  BY <1>1, <1>2, <1>6, <1>7, <1>8, <1>9 DEF Opened
<1> QED  BY <1>4, <1>10 DEF Stages

LEMMA TallyStage ==
    ASSUME KeepInv, Punctual, NEW w \in 1 .. MaxProposals, TallyTx(w)
    PROVE  Stages' /\ NoneAhead'
<1> DEFINE m == [type |-> "apply_tally", when |-> now + ApplyDelay,
                 next |-> WinnerParameters(w), nextWindows |-> FollowingWindows]
<1>1. /\ "tally" \in intents /\ intents' = intents \ {"tally"}
      /\ winnerId' = [winnerId EXCEPT ![issue] = w] /\ globals' = globals \cup {m}
      /\ UNCHANGED <<now, current, next, windows, nextWindows, issue, active, maintained>>
  BY DEF TallyTx, Injects, networkVars
<1>2. /\ winnerId \in [Issues -> 0 .. MaxProposals] /\ w # 0 /\ issue \in Issues
      /\ parameters \in [Issues -> [1 .. MaxProposals -> Params]]
  BY Times DEF KeepInv, TypeOK
<1>3. winnerId'[issue] # 0
  BY <1>1, <1>2
<1>4. /\ Opened /\ globals = {} /\ intents \subseteq {"issue", "tally"}
      /\ windows + 2 * WindowLen <= now /\ now < windows + 2 * WindowLen + 2 * CycleLen
  BY <1>1, DutyStages
<1>5. windows \in Nat /\ active[issue] = "active"
  BY <1>4 DEF Opened
<1>6. /\ m.type = "apply_tally" /\ m.next \in Params
      /\ m.nextWindows = windows + TotalDuration /\ m.when = now + ApplyDelay
  BY <1>2 DEF WinnerParameters, FollowingWindows
<1> HIDE DEF m
<1>7. now <= m.when + MaxLate /\ m.when < windows + 2 * WindowLen + 2 * CycleLen + ApplyDelay
  BY <1>4, <1>5, <1>6, Times
<1>8. globals' = {m} /\ intents' \subseteq {"issue"}
  BY <1>1, <1>4
<1>9. Decided'
  BY <1>1, <1>3, <1>5, <1>6, <1>7, <1>8 DEF Decided, Only, TotalDuration
<1>10. NoneAhead'
  BY <1>1 DEF NoneAhead, KeepInv
<1> QED  BY <1>9, <1>10 DEF Stages

LEMMA ParametersStage ==
    ASSUME KeepInv, Punctual, ParametersTx
    PROVE  Stages' /\ NoneAhead'
<1> DEFINE m == [type |-> "apply_parameters", when |-> now + ApplyDelay,
                 current |-> next, windows |-> nextWindows,
                 devWindows |-> NoWindows, issue |-> issue + 1]
<1>1. /\ "parameters" \in intents /\ intents' = intents \ {"parameters"}
      /\ active' = [active EXCEPT ![issue] = "inactive"] /\ globals' = globals \cup {m}
      /\ UNCHANGED <<now, current, next, windows, nextWindows, issue, winnerId, maintained>>
  BY DEF ParametersTx, Injects, networkVars
<1>2. active \in [Issues -> {"absent", "active", "inactive"}] /\ issue \in Issues /\ issue \in Nat
  BY Times DEF KeepInv, TypeOK
<1>3. /\ Settled /\ intents \subseteq {"issue", "parameters"}
      /\ windows + 3 * WindowLen <= now /\ now < windows + 3 * WindowLen + 2 * CycleLen
  BY <1>1, DutyStages
<1>4. /\ windows \in Nat /\ next \in Params /\ nextWindows = windows + TotalDuration
      /\ globals = {} /\ winnerId[issue] # 0
  BY <1>3 DEF Settled
<1>5. /\ m.type = "apply_parameters" /\ m.current \in Params
      /\ m.windows = windows + TotalDuration /\ m.when = now + ApplyDelay
      /\ m.devWindows = NoWindows /\ m.issue = issue + 1
  BY <1>4
<1> HIDE DEF m
<1>6. now <= m.when + MaxLate /\ m.when < windows + 3 * WindowLen + 2 * CycleLen + ApplyDelay
  BY <1>3, <1>4, <1>5, Times
<1>7. globals' = {m} /\ intents' \subseteq {"issue"} /\ active'[issue] = "inactive"
  BY <1>1, <1>2, <1>3, <1>4
<1>8. Closed'
  BY <1>1, <1>4, <1>5, <1>6, <1>7 DEF Closed, Only, TotalDuration
<1>9. NoneAhead'
  BY <1>1, <1>2 DEF NoneAhead, KeepInv
<1> QED  BY <1>8, <1>9 DEF Stages

LEMMA RefusedStage ==
    ASSUME KeepInv, Punctual, NEW duty \in Duty, Refused(duty)
    PROVE  Stages' /\ NoneAhead'
<1>1. /\ duty \in intents /\ intents' = intents \ {duty} /\ ~ IsValid(duty)
      /\ UNCHANGED <<now, current, next, windows, nextWindows, issue, globals, active,
                     winnerId, maintained>>
  BY DEF Refused, Injects, networkVars, issueVars
<1>2. Mark' = Mark /\ NoneAhead'
  BY <1>1 DEF Mark, NoneAhead, KeepInv
<1>3. windows \in Int /\ (windows \in Nat => windows # NoWindows)
  BY DEF KeepInv, TypeOK, NoWindows
<1>4. duty # "network_windows"
  BY <1>1 DEF IsValid
<1>5. duty # "tally"
  <2> SUFFICES ASSUME duty = "tally" PROVE FALSE
    OBVIOUS
  <2>1. /\ Opened /\ windows + 2 * WindowLen <= now
        /\ now < windows + 2 * WindowLen + 2 * CycleLen
    BY <1>1, DutyStages
  <2>2. active[issue] = "active" /\ winnerId[issue] = 0 /\ windows \in Nat
    BY <2>1 DEF Opened
  <2>3. windows + (3 - 1) * WindowLen <= now /\ now <= windows + 3 * WindowLen
    BY <2>1, <2>2, Times
  <2>4. TallyIsValid
    BY <1>3, <2>2, <2>3 DEF TallyIsValid, InGraceWindow, InWindow
  <2> QED  BY <1>1, <2>4 DEF IsValid
<1>6. duty # "parameters"
  <2> SUFFICES ASSUME duty = "parameters" PROVE FALSE
    OBVIOUS
  <2>1. /\ Settled /\ windows + 3 * WindowLen <= now
        /\ now < windows + 3 * WindowLen + 2 * CycleLen
    BY <1>1, DutyStages
  <2>2. active[issue] = "active" /\ windows \in Nat
    BY <2>1 DEF Settled
  <2>3. windows + (4 - 1) * WindowLen <= now /\ now <= windows + 4 * WindowLen
    BY <2>1, <2>2, Times
  <2>4. ParametersIsValid
    BY <1>3, <2>2, <2>3 DEF ParametersIsValid, InApplyWindow, InWindow
  <2> QED  BY <1>1, <2>4 DEF IsValid
<1>7. duty = "issue"
  BY <1>4, <1>5, <1>6 DEF Duty
<1>8. ASSUME MayReset PROVE MayReset'
  BY <1>1, <1>7, <1>8 DEF MayReset, IsReset
<1>9. ASSUME Starting PROVE Starting'
  BY <1>1, <1>9 DEF Starting, IsReset
<1>10. ASSUME Waiting PROVE Waiting'
  <2>1. ~ (windows <= now /\ now <= windows + WindowLen)
    <3> SUFFICES ASSUME windows <= now, now <= windows + WindowLen PROVE FALSE
      OBVIOUS
    <3>1. windows \in Nat /\ active[issue] = "absent"
      BY <1>10 DEF Waiting
    <3>2. windows + (1 - 1) * WindowLen <= now /\ now <= windows + 1 * WindowLen
      BY <3>1, Times
    <3>3. IssueIsValid
      BY <1>3, <3>1, <3>2 DEF IssueIsValid, InProposalWindow, InWindow
    <3> QED  BY <1>1, <1>7, <3>3 DEF IsValid
  <2> QED  BY <1>1, <1>2, <1>7, <1>8, <1>10, <2>1 DEF Waiting
<1>11. ASSUME Opened PROVE Opened'
  BY <1>1, <1>2, <1>7, <1>8, <1>11 DEF Opened
<1>12. ASSUME Decided PROVE Decided'
  BY <1>1, <1>7, <1>12 DEF Decided, Only, TotalDuration
<1>13. ASSUME Settled PROVE Settled'
  BY <1>1, <1>2, <1>7, <1>13 DEF Settled, TotalDuration
<1>14. ASSUME Closed PROVE Closed'
  BY <1>1, <1>7, <1>14 DEF Closed, Only, TotalDuration
<1> QED  BY <1>2, <1>9, <1>10, <1>11, <1>12, <1>13, <1>14 DEF KeepInv, Stages

\* The global messages.

LEMMA TallyAppliedStage ==
    ASSUME KeepInv, Punctual, NEW m \in globals, ApplyTallyTx(m)
    PROVE  Stages' /\ NoneAhead'
<1>1. /\ m.type = "apply_tally" /\ next' = m.next /\ nextWindows' = m.nextWindows
      /\ globals' = globals \ {m}
      /\ UNCHANGED <<now, windows, issue, active, winnerId, intents, maintained>>
  BY DEF ApplyTallyTx, issueVars, nodeVars
<1>2. Mark' = Mark /\ NoneAhead'
  BY <1>1 DEF Mark, NoneAhead, KeepInv
<1>3. Decided
  BY <1>1 DEF KeepInv, Stages, Starting, Waiting, Opened, MayReset, IsReset, Settled, Closed, Only
<1>4. /\ windows \in Nat /\ active[issue] = "active" /\ winnerId[issue] # 0
      /\ intents \subseteq {"issue"}
      /\ globals = {m} /\ now <= m.when + MaxLate
      /\ m.next \in Params /\ m.nextWindows = windows + TotalDuration
      /\ m.when < windows + 2 * WindowLen + 2 * CycleLen + ApplyDelay
  BY <1>3 DEF Decided, Only
<1>5. m.when \in Nat
  BY Messages DEF KeepInv
<1>6. Mark <= windows + 3 * WindowLen
  BY <1>4, <1>5, Times
<1>7. Settled'
  BY <1>1, <1>2, <1>4, <1>6 DEF Settled, TotalDuration
<1> QED  BY <1>2, <1>7 DEF Stages

LEMMA ParametersAppliedStage ==
    ASSUME KeepInv, Punctual, NEW m \in globals, ApplyParametersTx(m)
    PROVE  Stages' /\ NoneAhead'
<1>1. /\ m.type = "apply_parameters" /\ globals' = globals \ {m}
      /\ windows' = m.windows /\ issue' = m.issue /\ m.windows # NoWindows
      /\ UNCHANGED <<now, active, winnerId, intents, maintained>>
  BY DEF ApplyParametersTx, HasContent, issueVars, nodeVars
<1>2. Mark' = Mark
  BY <1>1 DEF Mark
<1>3. m.when \in Nat /\ m.windows \in Int /\ m.issue \in Issues
  BY <1>1, Messages DEF KeepInv
<1>4. ASSUME IsReset(m), issue = 1, \A n \in globals : IsReset(n)
      PROVE  /\ MayReset' /\ issue' = issue /\ windows' \in Nat
             /\ now <= windows' + MaxLate /\ Mark' <= windows' + MaxLate
  <2>1. m.windows = m.when + ApplyDelay /\ m.issue = 1 /\ now <= m.when + MaxLate
    BY <1>4 DEF IsReset
  <2>2. windows' \in Nat /\ now + ApplyDelay <= windows' + MaxLate
    BY <1>1, <1>3, <2>1, Times
  <2>3. ASSUME NEW n \in globals
        PROVE  IsReset(n)' /\ n.windows <= windows' + ApplyDelay + MaxLate
    <3>1. IsReset(n)'
      BY <1>1, <1>4 DEF IsReset
    <3>2. n.when \in Nat /\ n.windows = n.when + ApplyDelay /\ n.when <= now + ApplyDelay
      BY <1>4, Messages DEF KeepInv, IsReset
    <3> QED  BY <2>2, <3>1, <3>2, Times
  <2>4. MayReset'
    BY <1>1, <1>4, <2>1, <2>2, <2>3 DEF MayReset
  <2> QED  BY <1>1, <1>2, <1>4, <2>1, <2>2, <2>4, Times
<1>5. CASE Starting
  <2>1. IsReset(m) /\ issue = 1 /\ \A n \in globals : IsReset(n)
    BY <1>5 DEF Starting
  <2>2. Waiting'
    BY <1>1, <1>4, <1>5, <2>1 DEF Starting, Waiting
  <2>3. NoneAhead'
    BY <1>1, <1>4, <2>1 DEF NoneAhead, KeepInv
  <2> QED  BY <2>2, <2>3 DEF Stages
<1>6. CASE Waiting
  <2>1. IsReset(m) /\ issue = 1 /\ \A n \in globals : IsReset(n)
    BY <1>6 DEF Waiting, MayReset
  <2>2. Waiting'
    BY <1>1, <1>4, <1>6, <2>1 DEF Waiting
  <2>3. NoneAhead'
    BY <1>1, <1>4, <2>1 DEF NoneAhead, KeepInv
  <2> QED  BY <2>2, <2>3 DEF Stages
<1>7. CASE Opened
  <2>1. IsReset(m) /\ issue = 1 /\ \A n \in globals : IsReset(n)
    BY <1>7 DEF Opened, MayReset
  <2>2. "tally" \notin intents
    BY DutyStages
  <2>3. Mark' <= windows' + 2 * WindowLen
    BY <1>2, <1>4, <2>1, Times
  <2>4. Opened'
    BY <1>1, <1>4, <1>7, <2>1, <2>2, <2>3 DEF Opened
  <2>5. NoneAhead'
    BY <1>1, <1>4, <2>1 DEF NoneAhead, KeepInv
  <2> QED  BY <2>4, <2>5 DEF Stages
<1>8. CASE Closed
  <2>1. /\ windows \in Nat /\ intents \subseteq {"issue"}
        /\ globals = {m} /\ now <= m.when + MaxLate
        /\ m.windows = windows + TotalDuration /\ m.issue = issue + 1
        /\ m.when < windows + 3 * WindowLen + 2 * CycleLen + ApplyDelay
    BY <1>8 DEF Closed, Only
  <2>2. issue' \in Issues /\ issue' > issue /\ \A i \in Issues : i > issue' => i > issue
    BY <1>1, <1>3, <2>1, Times, DaoAssumption DEF Issues
  <2>3. active'[issue'] = "absent" /\ NoneAhead'
    BY <1>1, <2>2 DEF NoneAhead, KeepInv
  <2>4. windows' \in Nat /\ Mark' <= windows' + MaxLate
    BY <1>1, <1>2, <1>3, <2>1, Times
  <2>5. MayReset'
    BY <1>1, <2>1 DEF MayReset
  <2>6. Waiting'
    BY <1>1, <2>1, <2>3, <2>4, <2>5 DEF Waiting
  <2> QED  BY <2>3, <2>6 DEF Stages
<1>9. ~ Decided /\ ~ Settled
  BY <1>1 DEF Decided, Only, Settled
<1> QED  BY <1>5, <1>6, <1>7, <1>8, <1>9 DEF KeepInv, Stages

\* No message is refused.
LEMMA NothingRejected ==
    ASSUME KeepInv, Punctual, NEW m \in globals, ApplyParametersRejected(m)
    PROVE  FALSE
<1>1. m.type = "apply_parameters" /\ (m.current = NoParams \/ m.windows = NoWindows)
  BY DEF ApplyParametersRejected, HasContent
<1>2. m.when \in Nat /\ m.windows \in Int
  BY <1>1, Messages DEF KeepInv
<1>3. CASE IsReset(m)
  BY <1>1, <1>2, <1>3, Times DEF IsReset, NoWindows
<1>4. CASE Closed
  BY <1>1, <1>2, <1>4, Times DEF Closed, Only, NoWindows
<1> QED  BY <1>1, <1>3, <1>4 DEF KeepInv, Stages, Starting, Waiting, Opened, MayReset, Decided, Only, Settled

\* The maintenance of a cycle and the clock.

LEMMA MaintainStage ==
    ASSUME KeepInv, Punctual, Maintain
    PROVE  Stages' /\ NoneAhead'
<1>1. /\ intents' = intents \cup Duties
      /\ UNCHANGED <<now, current, next, windows, nextWindows, issue, active, winnerId, globals>>
  BY DEF Maintain, networkVars, issueVars
<1>2. Mark' \in Int /\ Mark' <= now
  BY ClockMaintained DEF KeepInv
<1>3. NoneAhead'
  BY <1>1 DEF NoneAhead, KeepInv
<1>4. ASSUME windows \in Nat, now <= windows + 4 * WindowLen
      PROVE  /\ Duties \subseteq {"issue", "tally", "parameters"}
             /\ "issue" \in Duties <=>
                  /\ windows <= now /\ now <= windows + WindowLen
                  /\ active[issue] = "absent"
             /\ "tally" \in Duties <=>
                  /\ windows + 2 * WindowLen <= now /\ now <= windows + 3 * WindowLen
                  /\ winnerId[issue] = 0
             /\ "parameters" \in Duties <=>
                  /\ windows + 3 * WindowLen <= now /\ active[issue] = "active"
  <2>1. windows # NoWindows /\ ~ WindowsAreStale
    BY <1>4, Times DEF WindowsAreStale, NoWindows
  <2>2. Duties = {duty \in Duty :
                    \/ duty = "issue" /\ InProposalWindow /\ active[issue] = "absent"
                    \/ duty = "tally" /\ InGraceWindow /\ winnerId[issue] = 0
                    \/ duty = "parameters" /\ InApplyWindow /\ active[issue] = "active"}
    BY <2>1 DEF Duties
  <2>3. InProposalWindow <=> windows <= now /\ now <= windows + WindowLen
    BY <1>4, <2>1, Times DEF InProposalWindow, InWindow
  <2>4. InGraceWindow <=> windows + 2 * WindowLen <= now /\ now <= windows + 3 * WindowLen
    BY <1>4, <2>1, Times DEF InGraceWindow, InWindow
  <2>5. InApplyWindow <=> windows + 3 * WindowLen <= now
    BY <1>4, <2>1, Times DEF InApplyWindow, InWindow
  <2> QED  BY <2>2, <2>3, <2>4, <2>5 DEF Duty
<1>5. ASSUME MayReset, windows \in Nat, "network_windows" \notin Duties PROVE MayReset'
  BY <1>1, <1>5 DEF MayReset, IsReset
<1>6. CASE Starting
  <2>1. Duties = {"network_windows"}
    BY <1>6 DEF Starting, Duties
  <2> QED  BY <1>1, <1>3, <1>6, <2>1 DEF Starting, IsReset, Stages
<1>7. CASE Waiting
  <2>1. /\ windows \in Nat /\ MayReset /\ active[issue] = "absent"
        /\ "tally" \notin intents /\ "parameters" \notin intents
    BY <1>7 DEF Waiting
  <2>2. now <= windows + WindowLen
    BY <1>7, <2>1, Times DEF Waiting
  <2>3. now < windows + 2 * WindowLen /\ now < windows + 3 * WindowLen /\ now <= windows + 4 * WindowLen
    BY <2>1, <2>2, Times
  <2>4. /\ Duties \subseteq {"issue"} /\ "network_windows" \notin Duties
        /\ windows <= now => "issue" \in Duties
    BY <1>4, <2>1, <2>2, <2>3, Times
  <2>5. MayReset'
    BY <1>5, <2>1, <2>4
  <2>6. Mark' <= windows + MaxLate \/ windows <= now
    BY <1>2, <2>1, Times
  <2>7. Waiting'
    BY <1>1, <2>1, <2>2, <2>4, <2>5, <2>6 DEF Waiting
  <2> QED  BY <1>3, <2>7 DEF Stages
<1>8. CASE Opened
  <2>1. /\ windows \in Nat /\ MayReset /\ active[issue] = "active" /\ winnerId[issue] = 0
        /\ "parameters" \notin intents
    BY <1>8 DEF Opened
  <2>2. now < windows + 2 * WindowLen + 2 * CycleLen
    BY <1>8, <2>1, Times DEF Opened
  <2>3. now < windows + 3 * WindowLen /\ now <= windows + 4 * WindowLen
    BY <2>1, <2>2, Times
  <2>4. /\ "parameters" \notin Duties /\ "network_windows" \notin Duties
        /\ "tally" \in Duties <=> windows + 2 * WindowLen <= now
    BY <1>4, <2>1, <2>3, Times
  <2>5. MayReset'
    BY <1>5, <2>1, <2>4
  <2>6. ASSUME windows + 2 * WindowLen <= now PROVE Opened'
    <3>1. "tally" \in intents' /\ "parameters" \notin intents'
      BY <1>1, <2>1, <2>4, <2>6
    <3> QED  BY <1>1, <2>1, <2>2, <2>5, <2>6, <3>1 DEF Opened
  <2>7. ASSUME ~ (windows + 2 * WindowLen <= now) PROVE Opened'
    <3>1. "tally" \notin intents
      BY <1>8, <2>7 DEF Opened
    <3>2. "tally" \notin intents' /\ "parameters" \notin intents'
      BY <1>1, <2>1, <2>4, <2>7, <3>1
    <3>3. Mark' <= windows + 2 * WindowLen
      BY <1>2, <2>1, <2>7, Times
    <3> QED  BY <1>1, <2>1, <2>5, <3>2, <3>3 DEF Opened
  <2> QED  BY <1>3, <2>6, <2>7 DEF Stages
<1>9. CASE Decided
  <2>1. PICK m \in globals :
           /\ Only(m) /\ m.type = "apply_tally" /\ m.next \in Params
           /\ m.nextWindows = windows + TotalDuration
           /\ m.when < windows + 2 * WindowLen + 2 * CycleLen + ApplyDelay
    BY <1>9 DEF Decided
  <2>2. /\ windows \in Nat /\ active[issue] = "active" /\ winnerId[issue] # 0
        /\ intents \subseteq {"issue"} /\ m.when \in Nat /\ now <= m.when + MaxLate
    BY <1>9, <2>1, Messages DEF Decided, KeepInv, Only
  <2>3. now < windows + 3 * WindowLen /\ now <= windows + 4 * WindowLen
    BY <2>1, <2>2, Times
  <2>4. Duties = {}
    BY <1>4, <2>2, <2>3, Times
  <2>5. Decided'
    BY <1>1, <1>9, <2>4 DEF Decided, Only, TotalDuration
  <2> QED  BY <1>3, <2>5 DEF Stages
<1>10. CASE Settled
  <2>1. /\ windows \in Nat /\ active[issue] = "active" /\ winnerId[issue] # 0
        /\ intents \subseteq {"issue", "parameters"}
        /\ next \in Params /\ nextWindows = windows + TotalDuration /\ globals = {}
    BY <1>10 DEF Settled
  <2>2. now < windows + 3 * WindowLen + 2 * CycleLen
    BY <1>10, <2>1, Times DEF Settled
  <2>3. now <= windows + 4 * WindowLen
    BY <2>1, <2>2, Times
  <2>4. /\ Duties \subseteq {"parameters"}
        /\ "parameters" \in Duties <=> windows + 3 * WindowLen <= now
    BY <1>4, <2>1, <2>3, Times
  <2>5. ASSUME windows + 3 * WindowLen <= now PROVE Settled'
    <3>1. intents' \subseteq {"issue", "parameters"} /\ "parameters" \in intents'
      BY <1>1, <2>1, <2>4, <2>5
    <3> QED  BY <1>1, <2>1, <2>2, <2>5, <3>1 DEF Settled, TotalDuration
  <2>6. ASSUME ~ (windows + 3 * WindowLen <= now) PROVE Settled'
    <3>1. intents \subseteq {"issue"}
      BY <1>10, <2>6 DEF Settled
    <3>2. intents' \subseteq {"issue"}
      BY <1>1, <2>4, <2>6, <3>1
    <3>3. Mark' <= windows + 3 * WindowLen
      BY <1>2, <2>1, <2>6, Times
    <3> QED  BY <1>1, <2>1, <3>2, <3>3 DEF Settled, TotalDuration
  <2> QED  BY <1>3, <2>5, <2>6 DEF Stages
<1>11. CASE Closed
  <2>1. PICK m \in globals :
           /\ Only(m) /\ m.type = "apply_parameters" /\ m.current \in Params
           /\ m.windows = windows + TotalDuration
           /\ m.devWindows = NoWindows /\ m.issue = issue + 1
           /\ m.when < windows + 3 * WindowLen + 2 * CycleLen + ApplyDelay
    BY <1>11 DEF Closed
  <2>2. /\ windows \in Nat /\ active[issue] = "inactive" /\ winnerId[issue] # 0
        /\ intents \subseteq {"issue"} /\ m.when \in Nat /\ now <= m.when + MaxLate
    BY <1>11, <2>1, Messages DEF Closed, KeepInv, Only
  <2>3. now <= windows + 4 * WindowLen
    BY <2>1, <2>2, Times
  <2>4. Duties = {}
    BY <1>4, <2>2, <2>3, Times
  <2>5. Closed'
    BY <1>1, <1>11, <2>4 DEF Closed, Only, TotalDuration
  <2> QED  BY <1>3, <2>5 DEF Stages
<1> QED  BY <1>6, <1>7, <1>8, <1>9, <1>10, <1>11 DEF KeepInv, Stages

LEMMA TickStage ==
    ASSUME KeepInv, Punctual, Tick
    PROVE  Stages' /\ NoneAhead'
<1>1. /\ now' = now + 1 /\ \A duty \in intents : Waits(duty)
      /\ \A m \in globals : now < m.when + MaxLate
      /\ UNCHANGED <<current, next, windows, nextWindows, issue, active, winnerId, globals,
                     intents, maintained>>
  BY DEF Tick, networkVars, issueVars, nodeVars
<1>2. Mark' = Mark /\ NoneAhead'
  BY <1>1 DEF Mark, NoneAhead, KeepInv
<1>3. intents = {}
  <2> SUFFICES ASSUME NEW duty \in intents PROVE FALSE
    OBVIOUS
  <2>1. duty = "tally" /\ active[issue] = "absent"
    BY <1>1 DEF Waits
  <2>2. Opened
    BY <2>1, DutyStages
  <2> QED  BY <2>1, <2>2 DEF Opened
<1>4. \A m \in globals : now' <= m.when + MaxLate /\ (IsReset(m) => IsReset(m)')
  <2> SUFFICES ASSUME NEW m \in globals
               PROVE  now' <= m.when + MaxLate /\ (IsReset(m) => IsReset(m)')
    OBVIOUS
  <2>1. m.when \in Nat /\ now < m.when + MaxLate
    BY <1>1, Messages DEF KeepInv
  <2>2. now' <= m.when + MaxLate
    BY <1>1, <2>1, Times
  <2>3. m.when <= now + ApplyDelay => m.when <= now' + ApplyDelay
    BY <1>1, <2>1, Times
  <2> QED  BY <1>1, <2>2, <2>3 DEF IsReset
<1>5. ASSUME Starting PROVE Starting'
  BY <1>1, <1>4, <1>5 DEF Starting
<1>6. ASSUME MayReset PROVE MayReset'
  BY <1>1, <1>3, <1>4, <1>6 DEF MayReset
<1>7. ASSUME Waiting PROVE Waiting'
  BY <1>1, <1>2, <1>3, <1>6, <1>7 DEF Waiting
<1>8. ASSUME Opened PROVE Opened'
  BY <1>1, <1>2, <1>3, <1>6, <1>8 DEF Opened
<1>9. \A m \in globals : Only(m) => Only(m)'
  BY <1>1, <1>4 DEF Only
<1>10. ASSUME Decided PROVE Decided'
  BY <1>1, <1>9, <1>10 DEF Decided, TotalDuration
<1>11. ASSUME Settled PROVE Settled'
  BY <1>1, <1>2, <1>3, <1>11 DEF Settled, TotalDuration
<1>12. ASSUME Closed PROVE Closed'
  BY <1>1, <1>9, <1>12 DEF Closed, TotalDuration
<1> QED  BY <1>2, <1>5, <1>7, <1>8, <1>10, <1>11, <1>12 DEF KeepInv, Stages

LEMMA KeepInit == Init => KeepInv
<1> SUFFICES ASSUME Init PROVE KeepInv
  OBVIOUS
<1>1. TypeOK /\ IssuesAreOrdered /\ Clocked
  BY InitTyped, ClockInit
<1>2. NoneAhead
  BY DEF Init, NoneAhead
<1>3. Starting
  BY DaoAssumption DEF Init, Starting, Issues
<1> QED  BY <1>1, <1>2, <1>3 DEF KeepInv, Stages

LEMMA KeepStep ==
    ASSUME KeepInv, Punctual, [Next]_vars
    PROVE  KeepInv'
<1>1. TypeOK' /\ IssuesAreOrdered'
  BY StepTyped DEF KeepInv
<1>2. ASSUME UNCHANGED <<now, maintained>> PROVE Clocked'
  BY <1>2 DEF KeepInv, Clocked, Mark
<1>3. ASSUME UNCHANGED stageVars PROVE KeepInv'
  <2>1. UNCHANGED <<now, maintained>>
    BY <1>3 DEF stageVars, nodeVars
  <2> QED  BY <1>1, <1>2, <1>3, <2>1, StageUnchanged DEF KeepInv
<1>4. CASE UNCHANGED vars
  BY <1>3, <1>4 DEF vars, stageVars, issueVars
<1>5. CASE UserTx
  <2>1. UNCHANGED stageVars
    BY <1>5 DEF UserTx, ProposalTx, VoteTx, stageVars
  <2> QED  BY <1>3, <2>1
<1>6. CASE NodeTx
  <2>1. UNCHANGED <<now, maintained>>
    BY <1>6 DEF NodeTx, NetworkWindowsTx, IssueTx, TallyTx, ParametersTx, Refused, Injects
  <2>2. Stages' /\ NoneAhead'
    BY <1>6, WindowsStage, IssueStage, TallyStage, ParametersStage, RefusedStage DEF NodeTx
  <2> QED  BY <1>1, <1>2, <2>1, <2>2 DEF KeepInv
<1>7. CASE GlobalTx
  <2>1. PICK m \in globals : ApplyTallyTx(m) \/ ApplyParametersTx(m)
    BY <1>7, NothingRejected DEF GlobalTx
  <2>2. UNCHANGED <<now, maintained>>
    BY <2>1 DEF ApplyTallyTx, ApplyParametersTx, nodeVars
  <2>3. Stages' /\ NoneAhead'
    BY <2>1, TallyAppliedStage, ParametersAppliedStage
  <2> QED  BY <1>1, <1>2, <2>2, <2>3 DEF KeepInv
<1>8. CASE Maintain
  <2>1. Clocked'
    <3>1. Mark' <= now /\ now < Mark' + CycleLen /\ Mark' \in Int /\ now' = now
      BY <1>8, ClockMaintained DEF KeepInv, Maintain
    <3>2. now < Mark' + 2 * CycleLen
      BY <3>1, Times
    <3> QED  BY <3>1, <3>2 DEF Clocked
  <2> QED  BY <1>1, <1>8, <2>1, MaintainStage DEF KeepInv
<1>9. CASE Tick
  BY <1>1, <1>9, TickStage, ClockTicks DEF KeepInv
<1>10. ~ Fault
  BY DEF Punctual, Fault, NodeStops, GlobalLost, SkipMaintenance
<1> QED  BY <1>4, <1>5, <1>6, <1>7, <1>8, <1>9, <1>10 DEF Next

LEMMA KeepsUp ==
    ASSUME KeepInv, Punctual
    PROVE  WindowsKeepUp /\ ClosedIssueHasSuccessor
<1>1. CASE Starting
  BY <1>1 DEF Starting, WindowsKeepUp, ClosedIssueHasSuccessor
<1>2. CASE Waiting
  BY <1>2, Times DEF Waiting, WindowsKeepUp, ClosedIssueHasSuccessor
<1>3. CASE Opened
  BY <1>3, Times DEF Opened, WindowsKeepUp, ClosedIssueHasSuccessor
<1>4. CASE Decided
  <2>1. PICK m \in globals :
           Only(m) /\ m.when < windows + 2 * WindowLen + 2 * CycleLen + ApplyDelay
    BY <1>4 DEF Decided
  <2>2. windows \in Nat /\ active[issue] = "active" /\ m.when \in Nat /\ now <= m.when + MaxLate
    BY <1>4, <2>1, Messages DEF Decided, Only, KeepInv
  <2> QED  BY <2>1, <2>2, Times DEF WindowsKeepUp, ClosedIssueHasSuccessor
<1>5. CASE Settled
  BY <1>5, Times DEF Settled, WindowsKeepUp, ClosedIssueHasSuccessor
<1>6. CASE Closed
  <2>1. PICK m \in globals :
           /\ Only(m) /\ m.type = "apply_parameters" /\ m.current \in Params
           /\ m.windows = windows + TotalDuration /\ m.issue = issue + 1
           /\ m.when < windows + 3 * WindowLen + 2 * CycleLen + ApplyDelay
    BY <1>6 DEF Closed
  <2>2. windows \in Nat /\ m.when \in Nat /\ now <= m.when + MaxLate
    BY <1>6, <2>1, Messages DEF Closed, Only, KeepInv
  <2>3. WindowsKeepUp
    BY <2>1, <2>2, Times DEF WindowsKeepUp
  <2>4. m.windows # NoWindows /\ m.current # NoParams
    BY <2>1, <2>2, Times DEF NoWindows
  <2> QED  BY <2>1, <2>3, <2>4 DEF ClosedIssueHasSuccessor, SuccessorSent, HasContent
<1> QED  BY <1>1, <1>2, <1>3, <1>4, <1>5, <1>6 DEF KeepInv, Stages

\* The network never sits in windows that are over: where every cycle has a working
\* lucky node, no global is lost and two cycles and the way of a global fit in a window
\* (2.5 cycles long in src/src/config/index.ts), the next windows are always in force
\* when the last global of a round is due, whatever users submit and vote.
THEOREM DaoKeepsUp ==
    ASSUME Punctual
    PROVE  Spec => []WindowsKeepUp
<1>1. KeepInv /\ [Next]_vars => KeepInv'
  BY KeepStep
<1>2. KeepInv => WindowsKeepUp
  BY KeepsUp
<1> QED  BY <1>1, <1>2, KeepInit, PTL DEF Spec

\* Under the same conditions an issue that is closed and still the network's has an
\* apply_parameters on the way that will be accepted: no round ever wedges.
THEOREM DaoNeverWedges ==
    ASSUME Punctual
    PROVE  Spec => []ClosedIssueHasSuccessor
<1>1. KeepInv /\ [Next]_vars => KeepInv'
  BY KeepStep
<1>2. KeepInv => ClosedIssueHasSuccessor
  BY KeepsUp
<1> QED  BY <1>1, <1>2, KeepInit, PTL DEF Spec
-----------------------------------------------------------------------------
(***************************************************************************)
(* The rounds, whatever is skipped or lost.  A message that moves the      *)
(* network on and one that restarts its windows are never under way        *)
(* together; what is under way or in `next` is the decision of the round.  *)

\* A global is applied before the first windows after a restart come to their last,
\* and before the windows that it was sent in are stale.
Timely ==
    /\ 2 * MaxLate < 3 * WindowLen
    /\ ApplyDelay + MaxLate <= 2 * TotalDuration

WindowsPassed == windows = NoWindows \/ now > windows + 3 * TotalDuration

OnItsWay(m) == m.when <= now + ApplyDelay /\ now <= m.when + MaxLate

\* The windows are started or restarted; others may have been, shortly before.
IsRestart(m) ==
    /\ m.issue = issue /\ m.current = current /\ m.windows = m.when + ApplyDelay
    /\ WindowsPassed \/ m.when <= windows + MaxLate

\* The round is closed, and the network moves on, if there was a decision.
IsSuccessor(m) ==
    /\ m.issue = issue + 1 /\ active[issue] = "inactive"
    /\ m.current \in {NoParams, Decision} /\ (m.current # NoParams => globals = {m})
    /\ \A k \in globals : k.type = "apply_parameters" => k = m
    /\ windows # NoWindows /\ m.when <= windows + TotalDuration + ApplyDelay
    /\ "network_windows" \notin intents

\* The decision of the round is not yet in `next`.
IsDecision(m) ==
    /\ m.next = Decision /\ next = NoParams
    /\ \A k \in globals : k.type = "apply_tally" => k = m

Fits(m) ==
    /\ OnItsWay(m)
    /\ m.type = "apply_tally" => IsDecision(m)
    /\ m.type = "apply_parameters" => IsRestart(m) \/ IsSuccessor(m)

RestartIsDue ==
    "network_windows" \in intents =>
        WindowsPassed \/ now + ApplyDelay <= windows + MaxLate

RoundInv ==
    /\ TypeOK /\ IssuesAreOrdered /\ NoneAhead
    /\ next \in {NoParams, Decision}
    /\ \A m \in globals : Fits(m)
    /\ RestartIsDue

\* What a step does to the rounds and to a wedge.
RoundStep == RoundInv' /\ [Rounds!Next]_Rounds!roundVars /\ (Wedged => Wedged')

LEMMA RoundTypes ==
    ASSUME RoundInv
    PROVE  /\ now \in Nat /\ windows \in Int /\ issue \in Nat /\ issue \in Issues
           /\ WindowLen \in Nat /\ WindowLen > 0 /\ ApplyDelay \in Nat /\ MaxLate \in Nat
           /\ TotalDuration = 4 * WindowLen
           /\ active \in [Issues -> {"absent", "active", "inactive"}]
           /\ winnerId \in [Issues -> 0 .. MaxProposals]
           /\ parameters \in [Issues -> [1 .. MaxProposals -> Params]]
           /\ current \in Params /\ NoParams \notin Params
           /\ active[issue] = "absent" => winnerId[issue] = 0
           /\ Decision = NoParams <=> winnerId[issue] = 0
           /\ NoWindows = -1
<1>1. /\ now \in Nat /\ windows \in Int /\ issue \in Issues /\ current \in Params
      /\ active \in [Issues -> {"absent", "active", "inactive"}]
      /\ winnerId \in [Issues -> 0 .. MaxProposals]
      /\ parameters \in [Issues -> [1 .. MaxProposals -> Params]]
  BY DEF RoundInv, TypeOK
<1>2. issue \in Nat
  BY <1>1, DaoAssumption DEF Issues
<1>3. active[issue] = "absent" => winnerId[issue] = 0
  BY <1>1 DEF RoundInv, IssuesAreOrdered
<1>4. Decision = NoParams <=> winnerId[issue] = 0
  <2>1. winnerId[issue] \in 0 .. MaxProposals /\ MaxProposals \in Nat
    BY <1>1, DaoAssumption
  <2>2. winnerId[issue] # 0 => parameters[issue][winnerId[issue]] \in Params
    BY <1>1, <2>1
  <2> QED  BY <2>2, DaoAssumption DEF Decision
<1> QED  BY <1>1, <1>2, <1>3, <1>4, DaoAssumption DEF TotalDuration, NoWindows

LEMMA RoundMessages ==
    ASSUME RoundInv, NEW m \in globals
    PROVE  /\ Fits(m) /\ m.when \in Nat /\ m.type \in {"apply_tally", "apply_parameters"}
           /\ m.type = "apply_tally" => m.next \in Params
           /\ m.type = "apply_parameters" =>
                m.windows \in Int /\ m.issue \in Issues /\ m.current \in Params \cup {NoParams}
  BY DEF RoundInv, TypeOK, ApplyTally, ApplyParameters

\* The accounts of the round are left alone, and no message that moves on is sent.
LEMMA RoundUnchanged ==
    ASSUME RoundInv, RoundInv',
           current' = current, issue' = issue, winnerId' = winnerId, Decision' = Decision,
           active'[issue] = active[issue]
             \/ (active[issue] = "active" /\ active'[issue] = "inactive"),
           active[issue] = "inactive" =>
             \A m \in globals' : m.type = "apply_parameters" /\ m.issue = issue + 1 => m \in globals
    PROVE  RoundStep
<1>1. active[issue] \in {"absent", "active", "inactive"}
  BY RoundTypes
<1>2. Stage' = Stage
  BY <1>1 DEF Stage
<1>3. UNCHANGED Rounds!roundVars
  BY <1>2 DEF Rounds!roundVars
<1>4. Wedged => Wedged'
  BY DEF Wedged, SuccessorSent, HasContent
<1> QED  BY <1>3, <1>4 DEF RoundStep

\* Only messages go, and a restart that was not due does not become so.
LEMMA RoundKept ==
    ASSUME RoundInv, TypeOK', IssuesAreOrdered', globals' \subseteq globals,
           UNCHANGED <<now, current, windows, issue, active, winnerId>>, Decision' = Decision,
           next' = next \/ next = NoParams,
           next' \in {NoParams, Decision},
           next' # next => \A m \in globals' : m.type # "apply_tally",
           "network_windows" \in intents' =>
              \/ "network_windows" \in intents
              \/ WindowsPassed /\ \A m \in globals : m.type = "apply_parameters" => ~ IsSuccessor(m)
    PROVE  RoundStep
<1>1. NoneAhead' /\ RestartIsDue'
  BY DEF RoundInv, NoneAhead, RestartIsDue, WindowsPassed
<1>2. ASSUME NEW m \in globals' PROVE Fits(m)'
  <2>1. m \in globals /\ Fits(m)
    BY <1>2 DEF RoundInv
  <2>2. OnItsWay(m)'
    BY <2>1 DEF Fits, OnItsWay
  <2>3. ASSUME m.type = "apply_tally" PROVE IsDecision(m)'
    <3>1. IsDecision(m) /\ next' = next
      BY <1>2, <2>1, <2>3 DEF Fits
    <3> QED  BY <3>1 DEF IsDecision
  <2>4. ASSUME m.type = "apply_parameters", IsRestart(m) PROVE IsRestart(m)'
    BY <2>4 DEF IsRestart, WindowsPassed
  <2>5. ASSUME m.type = "apply_parameters", IsSuccessor(m) PROVE IsSuccessor(m)'
    <3>1. "network_windows" \notin intents'
      BY <2>1, <2>5 DEF IsSuccessor
    <3>2. m.current # NoParams => globals' = {m}
      BY <1>2, <2>5 DEF IsSuccessor
    <3> QED  BY <2>5, <3>1, <3>2 DEF IsSuccessor
  <2> QED  BY <2>1, <2>2, <2>3, <2>4, <2>5 DEF Fits
<1>3. RoundInv'
  BY <1>1, <1>2 DEF RoundInv
<1>4. /\ current' = current /\ issue' = issue /\ winnerId' = winnerId /\ Decision' = Decision
      /\ active'[issue] = active[issue]
      /\ \A m \in globals' : m.type = "apply_parameters" /\ m.issue = issue + 1 => m \in globals
  OBVIOUS
<1> QED  BY <1>3, <1>4, RoundUnchanged

\* A decision, once recorded, stays; and only a tally records one.
LEMMA DecisionStays ==
    ASSUME RoundInv, [Next]_vars, issue' = issue,
           winnerId[issue] # 0 \/ winnerId'[issue] = 0
    PROVE  Decision' = Decision
<1>1. CASE winnerId[issue] # 0
  <2>1. /\ winnerId'[issue] = winnerId[issue]
        /\ parameters'[issue][winnerId[issue]] = parameters[issue][winnerId[issue]]
    BY <1>1, WinnerStays, RoundTypes DEF RoundInv
  <2> QED  BY <2>1 DEF Decision
<1>2. CASE winnerId[issue] = 0 /\ winnerId'[issue] = 0
  BY <1>2 DEF Decision
<1> QED  BY <1>1, <1>2

\* Transactions of users, and steps that only change what nodes are about to do.
LEMMA RoundUsers ==
    ASSUME RoundInv, UserTx
    PROVE  RoundStep
<1>1. TypeOK' /\ IssuesAreOrdered' /\ [Next]_vars
  BY StepTyped DEF RoundInv, Next
<1>2. /\ globals' = globals /\ next' = next /\ intents' = intents
      /\ UNCHANGED <<now, current, windows, issue, active, winnerId>>
  BY DEF UserTx, ProposalTx, VoteTx, networkVars, nodeVars
<1>3. Decision' = Decision
  BY <1>1, <1>2, DecisionStays
<1>4. next' \in {NoParams, Decision}
  BY <1>2 DEF RoundInv
<1> QED  BY <1>1, <1>2, <1>3, <1>4, RoundKept

LEMMA RoundDropped ==
    ASSUME RoundInv, [Next]_vars, UNCHANGED <<now, networkVars, issueVars>>,
           globals' \subseteq globals, intents' \subseteq intents
    PROVE  RoundStep
<1>1. TypeOK' /\ IssuesAreOrdered'
  BY StepTyped DEF RoundInv
<1>2. /\ next' = next
      /\ UNCHANGED <<now, current, windows, issue, active, winnerId>>
  BY DEF networkVars, issueVars
<1>3. Decision' = Decision
  BY <1>2 DEF issueVars, Decision
<1>4. next' \in {NoParams, Decision}
  BY <1>2 DEF RoundInv
<1> QED  BY <1>1, <1>2, <1>3, <1>4, RoundKept

\* While the windows are to be restarted, no message that moves on is under way.
LEMMA RoundWindows ==
    ASSUME RoundInv, Timely, NetworkWindowsTx
    PROVE  RoundStep
<1>5. PICK r :
        /\ r.type = "apply_parameters" /\ r.when = now + ApplyDelay /\ r.current = current
        /\ r.windows = now + 2 * ApplyDelay /\ r.issue = issue
        /\ globals' = globals \cup {r}
  BY DEF NetworkWindowsTx
<1>1. /\ "network_windows" \in intents /\ intents' = intents \ {"network_windows"}
      /\ UNCHANGED <<now, current, next, windows, issue, active, winnerId, parameters>>
  BY DEF NetworkWindowsTx, Injects, networkVars, issueVars
<1>2. TypeOK' /\ IssuesAreOrdered'
  BY StepTyped DEF RoundInv, Next, NodeTx
<1>3. Decision' = Decision /\ WindowsPassed' = WindowsPassed
  BY <1>1 DEF Decision, WindowsPassed
<1>4. WindowsPassed \/ now + ApplyDelay <= windows + MaxLate
  BY <1>1 DEF RoundInv, RestartIsDue
<1>6. Fits(r)'
  <2>1. OnItsWay(r)'
    BY <1>1, <1>5, RoundTypes DEF OnItsWay
  <2>2. r.windows = r.when + ApplyDelay /\ (WindowsPassed \/ r.when <= windows + MaxLate)
    BY <1>4, <1>5, RoundTypes
  <2>3. IsRestart(r)'
    BY <1>1, <1>3, <1>5, <2>2 DEF IsRestart
  <2> QED  BY <1>5, <2>1, <2>3 DEF Fits
<1>7. ASSUME NEW m \in globals PROVE Fits(m)'
  <2>1. Fits(m)
    BY DEF RoundInv
  <2>2. OnItsWay(m)'
    BY <1>1, <2>1 DEF Fits, OnItsWay
  <2>3. m.type = "apply_parameters" => IsRestart(m)
    BY <1>1, <2>1 DEF Fits, IsSuccessor
  <2>4. m.type = "apply_parameters" => IsRestart(m)'
    BY <1>1, <1>3, <2>3 DEF IsRestart
  <2>5. m.type = "apply_tally" => IsDecision(m)'
    BY <1>1, <1>3, <1>5, <2>1 DEF Fits, IsDecision
  <2> QED  BY <2>2, <2>4, <2>5 DEF Fits
<1>8. NoneAhead' /\ RestartIsDue' /\ next' \in {NoParams, Decision'}
  BY <1>1, <1>3 DEF RoundInv, NoneAhead, RestartIsDue
<1>9. RoundInv'
  BY <1>1, <1>2, <1>5, <1>6, <1>7, <1>8 DEF RoundInv
<1>10. \A m \in globals' : m.type = "apply_parameters" /\ m.issue = issue + 1 => m \in globals
  BY <1>1, <1>5, RoundTypes
<1> QED  BY <1>1, <1>3, <1>9, <1>10, RoundUnchanged

LEMMA RoundIssue ==
    ASSUME RoundInv, IssueTx
    PROVE  RoundStep
<1>1. /\ active[issue] = "absent" /\ active' = [active EXCEPT ![issue] = "active"]
      /\ UNCHANGED <<now, current, next, windows, issue, winnerId, globals>>
      /\ intents' = intents \ {"issue"}
  BY DEF IssueTx, IssueIsValid, Injects, networkVars
<1>2. TypeOK' /\ IssuesAreOrdered' /\ [Next]_vars
  BY StepTyped DEF RoundInv, Next, NodeTx
<1>3. winnerId[issue] = 0 /\ Decision = NoParams
  BY <1>1, RoundTypes
<1>4. Decision' = Decision /\ active'[issue] = "active"
  BY <1>1, <1>2, <1>3, DecisionStays, RoundTypes
<1>5. NoneAhead' /\ RestartIsDue' /\ next' \in {NoParams, Decision'}
  BY <1>1, <1>4, RoundTypes DEF RoundInv, NoneAhead, RestartIsDue, WindowsPassed
<1>6. ASSUME NEW m \in globals PROVE Fits(m)'
  <2>1. Fits(m)
    BY DEF RoundInv
  <2>2. OnItsWay(m)'
    BY <1>1, <2>1 DEF Fits, OnItsWay
  <2>3. m.type = "apply_parameters" => IsRestart(m)'
    BY <1>1, <2>1 DEF Fits, IsSuccessor, IsRestart, WindowsPassed
  <2>4. m.type = "apply_tally" => IsDecision(m)'
    BY <1>1, <1>4, <2>1 DEF Fits, IsDecision
  <2> QED  BY <2>2, <2>3, <2>4 DEF Fits
<1>7. RoundInv'
  BY <1>1, <1>2, <1>5, <1>6 DEF RoundInv
<1>8. Stage = "waiting" /\ Stage' = "open"
  BY <1>1, <1>3, <1>4 DEF Stage
<1>9. Rounds!Open
  BY <1>1, <1>4, <1>8 DEF Rounds!Open
<1>10. ~ Wedged
  BY <1>1 DEF Wedged
<1> QED  BY <1>7, <1>9, <1>10 DEF RoundStep, Rounds!Next

LEMMA RoundTally ==
    ASSUME RoundInv, NEW w \in 1 .. MaxProposals, TallyTx(w)
    PROVE  RoundStep
<1>7. PICK t :
        /\ t.type = "apply_tally" /\ t.when = now + ApplyDelay /\ t.next = parameters[issue][w]
        /\ globals' = globals \cup {t}
  BY DEF TallyTx, WinnerParameters
<1>1. /\ active[issue] = "active" /\ winnerId[issue] = 0
      /\ winnerId' = [winnerId EXCEPT ![issue] = w]
      /\ intents' = intents \ {"tally"}
      /\ UNCHANGED <<now, current, next, windows, issue, active, parameters>>
  BY DEF TallyTx, TallyIsValid, Injects, networkVars
<1>2. TypeOK' /\ IssuesAreOrdered'
  BY StepTyped DEF RoundInv, Next, NodeTx
<1>3. Decision = NoParams /\ next = NoParams
  BY <1>1, RoundTypes DEF RoundInv
<1>4. w # 0 /\ winnerId'[issue] = w
  BY <1>1, RoundTypes, DaoAssumption
<1>5. Decision' = parameters[issue][w]
  BY <1>1, <1>4 DEF Decision
<1>6. parameters[issue][w] \in Params
  BY RoundTypes
<1>8. ASSUME NEW m \in globals PROVE m.type = "apply_parameters" /\ IsRestart(m) /\ OnItsWay(m)
  <2>1. m.type # "apply_tally"
    BY <1>3, RoundMessages, RoundTypes DEF Fits, IsDecision
  <2> QED  BY <1>1, <2>1, RoundMessages DEF Fits, IsSuccessor
<1>9. ASSUME NEW m \in globals PROVE Fits(m)'
  BY <1>1, <1>8 DEF Fits, IsRestart, OnItsWay, WindowsPassed
<1>10. Fits(t)'
  <2>1. OnItsWay(t)'
    BY <1>1, <1>7, RoundTypes DEF OnItsWay
  <2>2. IsDecision(t)'
    BY <1>1, <1>3, <1>5, <1>7, <1>8 DEF IsDecision
  <2> QED  BY <1>7, <2>1, <2>2 DEF Fits
<1>11. NoneAhead' /\ RestartIsDue' /\ next' = NoParams
  BY <1>1, <1>3 DEF RoundInv, NoneAhead, RestartIsDue, WindowsPassed
<1>12. RoundInv'
  BY <1>1, <1>2, <1>7, <1>9, <1>10, <1>11 DEF RoundInv
<1>13. Stage = "open" /\ Stage' = "decided"
  BY <1>1, <1>4 DEF Stage
<1>14. Rounds!Decide(parameters[issue][w])
  BY <1>1, <1>5, <1>13 DEF Rounds!Decide
<1>15. ~ Wedged
  BY <1>1 DEF Wedged
<1> QED  BY <1>6, <1>12, <1>14, <1>15 DEF RoundStep, Rounds!Next

\* In the apply window no restart is under way any more.
LEMMA RoundParameters ==
    ASSUME RoundInv, Timely, ParametersTx
    PROVE  RoundStep
<1>7. PICK s :
        /\ s.type = "apply_parameters" /\ s.when = now + ApplyDelay
        /\ s.current = next /\ s.issue = issue + 1
        /\ globals' = globals \cup {s}
  BY DEF ParametersTx
<1>1. /\ active[issue] = "active" /\ active' = [active EXCEPT ![issue] = "inactive"]
      /\ intents' = intents \ {"parameters"}
      /\ UNCHANGED <<now, current, next, windows, issue, winnerId, parameters>>
  BY DEF ParametersTx, ParametersIsValid, Injects, networkVars
<1>2. TypeOK' /\ IssuesAreOrdered' /\ [Next]_vars
  BY StepTyped DEF RoundInv, Next, NodeTx
<1>3. windows # NoWindows /\ windows + 3 * WindowLen <= now /\ now <= windows + 4 * WindowLen
  BY RoundTypes DEF ParametersTx, ParametersIsValid, InApplyWindow, InWindow
<1>4. ~ WindowsPassed
  BY <1>3, RoundTypes DEF WindowsPassed
<1>5. "network_windows" \notin intents
  BY SMTT(30), <1>3, <1>4, RoundTypes DEF RoundInv, RestartIsDue, Timely
<1>6. Decision' = Decision /\ active'[issue] = "inactive"
  BY <1>1, <1>2, RoundTypes DEF Decision
<1>8. ASSUME NEW m \in globals PROVE m.type = "apply_tally" /\ IsDecision(m) /\ OnItsWay(m)
  <2>1. m.type # "apply_parameters"
    <3>1. SUFFICES ASSUME m.type = "apply_parameters" PROVE FALSE
      OBVIOUS
    <3>2. IsRestart(m) /\ OnItsWay(m) /\ m.when \in Nat
      BY <1>1, <3>1, RoundMessages DEF Fits, IsSuccessor
    <3>3. m.when <= windows + MaxLate /\ now <= m.when + MaxLate
      BY <1>4, <3>2 DEF IsRestart, OnItsWay
    <3> QED  BY SMTT(30), <1>3, <3>2, <3>3, RoundTypes DEF Timely
  <2> QED  BY <2>1, RoundMessages DEF Fits
<1>9. ASSUME NEW m \in globals PROVE Fits(m)'
  BY <1>1, <1>6, <1>7, <1>8 DEF Fits, IsDecision, OnItsWay
<1>10. Fits(s)'
  <2>1. OnItsWay(s)'
    BY <1>1, <1>7, RoundTypes DEF OnItsWay
  <2>2. s.current \in {NoParams, Decision'}
    BY <1>6, <1>7 DEF RoundInv
  <2>3. s.current # NoParams => globals' = {s}
    BY <1>1, <1>7, <1>8 DEF IsDecision
  <2>4. \A k \in globals' : k.type = "apply_parameters" => k = s
    BY <1>1, <1>7, <1>8
  <2>5. s.when <= windows + TotalDuration + ApplyDelay
    BY <1>3, <1>7, RoundTypes
  <2>6. IsSuccessor(s)'
    BY <1>1, <1>3, <1>5, <1>6, <1>7, <2>2, <2>3, <2>4, <2>5 DEF IsSuccessor, TotalDuration
  <2> QED  BY <1>7, <2>1, <2>6 DEF Fits
<1>11. NoneAhead' /\ RestartIsDue' /\ next' \in {NoParams, Decision'}
  BY <1>1, <1>5, <1>6, RoundTypes DEF RoundInv, NoneAhead, RestartIsDue
<1>12. RoundInv'
  BY <1>1, <1>2, <1>7, <1>9, <1>10, <1>11 DEF RoundInv
<1> QED  BY <1>1, <1>6, <1>12, RoundUnchanged

\* The messages are applied.
LEMMA RoundTallyApplied ==
    ASSUME RoundInv, NEW m \in globals, ApplyTallyTx(m)
    PROVE  RoundStep
<1>1. /\ m.type = "apply_tally" /\ next' = m.next /\ globals' = globals \ {m}
      /\ intents' = intents
      /\ UNCHANGED <<now, current, windows, issue, active, winnerId, parameters>>
  BY DEF ApplyTallyTx, issueVars, nodeVars
<1>2. TypeOK' /\ IssuesAreOrdered'
  BY StepTyped DEF RoundInv, Next, GlobalTx
<1>3. Decision' = Decision
  BY <1>1 DEF Decision
<1>4. IsDecision(m)
  BY <1>1, RoundMessages DEF Fits
<1>5. next = NoParams /\ next' = Decision /\ \A k \in globals' : k.type # "apply_tally"
  BY <1>1, <1>4 DEF IsDecision
<1> QED  BY <1>1, <1>2, <1>3, <1>5, RoundKept

\* The windows are restarted: messages to restart them once more were sent before.
LEMMA RoundRestarted ==
    ASSUME RoundInv, Timely, NEW m \in globals, ApplyParametersTx(m), IsRestart(m)
    PROVE  RoundStep
<1>1. /\ m.type = "apply_parameters" /\ next' = NoParams /\ globals' = globals \ {m}
      /\ current' = m.current /\ windows' = m.windows /\ issue' = m.issue
      /\ intents' = intents
      /\ UNCHANGED <<now, active, winnerId, parameters>>
  BY DEF ApplyParametersTx, issueVars, nodeVars
<1>2. TypeOK' /\ IssuesAreOrdered'
  BY StepTyped DEF RoundInv, Next, GlobalTx
<1>3. current' = current /\ issue' = issue /\ windows' = m.when + ApplyDelay
  BY <1>1 DEF IsRestart
<1>4. Decision' = Decision
  BY <1>1, <1>3 DEF Decision
<1>5. OnItsWay(m) /\ m.when \in Nat
  BY RoundMessages DEF Fits
<1>6. ASSUME NEW k \in globals' PROVE Fits(k)'
  <2>1. k \in globals /\ k # m /\ Fits(k) /\ k.when \in Nat
    BY <1>1, <1>6, RoundMessages
  <2>2. OnItsWay(k)'
    BY <1>1, <2>1 DEF Fits, OnItsWay
  <2>3. ASSUME k.type = "apply_tally" PROVE IsDecision(k)'
    BY <1>1, <1>4, <2>1, <2>3 DEF Fits, IsDecision
  <2>4. ASSUME k.type = "apply_parameters" PROVE IsRestart(k)'
    <3>1. IsRestart(k) /\ OnItsWay(k)
      BY <1>1, <2>1, <2>4 DEF Fits, IsSuccessor
    <3>2. k.when <= m.when + ApplyDelay + MaxLate
      BY SMTT(30), <1>5, <2>1, <3>1, RoundTypes DEF OnItsWay
    <3>3. k.when <= windows' + MaxLate
      BY <1>3, <1>5, <2>1, <3>2, RoundTypes
    <3> QED  BY <1>3, <3>1, <3>3 DEF IsRestart
  <2> QED  BY <2>1, <2>2, <2>3, <2>4 DEF Fits
<1>7. now + ApplyDelay <= windows' + MaxLate
  BY <1>3, <1>5, RoundTypes DEF OnItsWay
<1>8. NoneAhead' /\ RestartIsDue' /\ next' = NoParams
  BY <1>1, <1>3, <1>7 DEF RoundInv, NoneAhead, RestartIsDue
<1>9. RoundInv'
  BY <1>2, <1>6, <1>8 DEF RoundInv
<1>10. active'[issue] = active[issue] /\ \A k \in globals' : k \in globals
  BY <1>1
<1> QED  BY <1>1, <1>3, <1>4, <1>9, <1>10, RoundUnchanged

\* The network moves on, by one round, and what was decided is in force.
LEMMA RoundMovedOn ==
    ASSUME RoundInv, NEW m \in globals, ApplyParametersTx(m), IsSuccessor(m)
    PROVE  RoundStep
<1>1. /\ m.type = "apply_parameters" /\ m.current # NoParams /\ m.windows # NoWindows
      /\ next' = NoParams /\ globals' = globals \ {m}
      /\ current' = m.current /\ issue' = m.issue /\ intents' = intents
      /\ UNCHANGED <<now, active, winnerId, parameters>>
  BY DEF ApplyParametersTx, HasContent, issueVars, nodeVars
<1>2. TypeOK' /\ IssuesAreOrdered'
  BY StepTyped DEF RoundInv, Next, GlobalTx
<1>3. /\ m.issue = issue + 1 /\ active[issue] = "inactive" /\ m.current = Decision
      /\ globals = {m} /\ "network_windows" \notin intents
  BY <1>1 DEF IsSuccessor
<1>4. issue' = issue + 1 /\ issue' \in Issues
  BY <1>1, <1>3, RoundMessages
<1>5. active[issue'] = "absent" /\ winnerId[issue'] = 0
  BY <1>4, RoundTypes DEF RoundInv, NoneAhead, IssuesAreOrdered
<1>6. Decision' = NoParams
  BY <1>1, <1>5 DEF Decision
<1>7. NoneAhead' /\ RestartIsDue' /\ globals' = {}
  BY <1>1, <1>3, <1>4, RoundTypes DEF RoundInv, NoneAhead, RestartIsDue, Issues
<1>8. RoundInv'
  BY <1>1, <1>2, <1>7 DEF RoundInv
<1>9. winnerId[issue] # 0
  BY <1>1, <1>3, RoundTypes
<1>10. Stage = "decided" /\ Stage' = "waiting"
  BY <1>1, <1>3, <1>5, <1>9 DEF Stage
<1>11. Rounds!TakeEffect
  BY <1>1, <1>3, <1>4, <1>6, <1>10 DEF Rounds!TakeEffect
<1>12. ~ Wedged
  BY <1>1, <1>3 DEF Wedged, SuccessorSent, HasContent
<1> QED  BY <1>8, <1>11, <1>12 DEF RoundStep, Rounds!Next

\* A maintenance finds the windows stale only when nothing is under way that moves on.
LEMMA RoundMaintain ==
    ASSUME RoundInv, Timely, Maintain
    PROVE  RoundStep
<1>1. /\ globals' = globals /\ next' = next /\ intents' = intents \cup Duties
      /\ UNCHANGED <<now, current, windows, issue, active, winnerId, parameters>>
  BY DEF Maintain, networkVars, issueVars
<1>2. TypeOK' /\ IssuesAreOrdered'
  BY StepTyped DEF RoundInv, Next
<1>3. Decision' = Decision /\ next' \in {NoParams, Decision}
  BY <1>1 DEF RoundInv, Decision
<1>4. ASSUME "network_windows" \in Duties
      PROVE  /\ WindowsPassed
             /\ \A m \in globals : m.type = "apply_parameters" => ~ IsSuccessor(m)
  <2>1. windows = NoWindows \/ WindowsAreStale
    BY <1>4 DEF Duties
  <2>2. WindowsPassed
    BY <2>1, RoundTypes DEF WindowsPassed, WindowsAreStale
  <2>3. ASSUME NEW m \in globals, IsSuccessor(m) PROVE FALSE
    <3>1. OnItsWay(m) /\ m.when \in Nat /\ windows # NoWindows
          /\ m.when <= windows + TotalDuration + ApplyDelay
      BY <2>3, RoundMessages DEF Fits, IsSuccessor
    <3>2. /\ now \in Nat /\ windows \in Int /\ ApplyDelay \in Nat /\ MaxLate \in Nat
          /\ TotalDuration \in Int
      BY RoundTypes
    <3>3. now > windows + 3 * TotalDuration /\ now <= m.when + MaxLate
      BY <2>2, <3>1 DEF WindowsPassed, OnItsWay
    <3> QED  BY <3>1, <3>2, <3>3 DEF Timely
  <2> QED  BY <2>2, <2>3
<1>5. \/ "network_windows" \in intents' => "network_windows" \in intents
      \/ WindowsPassed /\ \A m \in globals : m.type = "apply_parameters" => ~ IsSuccessor(m)
  BY <1>1, <1>4
<1> QED  BY <1>1, <1>2, <1>3, <1>5, RoundKept

LEMMA RoundTick ==
    ASSUME RoundInv, Tick
    PROVE  RoundStep
<1>1. /\ now' = now + 1 /\ globals' = globals /\ next' = next /\ intents' = intents
      /\ UNCHANGED <<current, windows, issue, active, winnerId, parameters>>
      /\ \A m \in globals : now < m.when + MaxLate
      /\ "network_windows" \notin intents
  BY DEF Tick, Waits, networkVars, issueVars, nodeVars
<1>2. TypeOK' /\ IssuesAreOrdered'
  BY StepTyped DEF RoundInv, Next
<1>3. Decision' = Decision /\ (WindowsPassed => WindowsPassed')
  BY <1>1, RoundTypes DEF Decision, WindowsPassed
<1>4. ASSUME NEW m \in globals PROVE Fits(m)'
  <2>1. Fits(m) /\ m.when \in Nat
    BY RoundMessages
  <2>2. OnItsWay(m)'
    BY <1>1, <2>1, RoundTypes DEF Fits, OnItsWay
  <2>3. IsRestart(m) => IsRestart(m)'
    BY <1>1, <1>3 DEF IsRestart
  <2>4. IsSuccessor(m) => IsSuccessor(m)'
    BY <1>1, <1>3 DEF IsSuccessor
  <2>5. IsDecision(m) => IsDecision(m)'
    BY <1>1, <1>3 DEF IsDecision
  <2> QED  BY <2>1, <2>2, <2>3, <2>4, <2>5 DEF Fits
<1>5. NoneAhead' /\ RestartIsDue' /\ next' \in {NoParams, Decision'}
  BY <1>1, <1>3 DEF RoundInv, NoneAhead, RestartIsDue
<1>6. RoundInv'
  BY <1>1, <1>2, <1>4, <1>5 DEF RoundInv
<1>7. active'[issue] = active[issue] /\ \A m \in globals' : m \in globals
  BY <1>1
<1> QED  BY <1>1, <1>3, <1>6, <1>7, RoundUnchanged

LEMMA RoundInit == Init => RoundInv
<1> SUFFICES ASSUME Init PROVE RoundInv
  OBVIOUS
<1>1. TypeOK /\ IssuesAreOrdered
  BY InitTyped
<1>2. NoneAhead /\ RestartIsDue /\ next = NoParams /\ globals = {}
  BY DEF Init, NoneAhead, RestartIsDue
<1> QED  BY <1>1, <1>2 DEF RoundInv

LEMMA RoundSteps ==
    ASSUME RoundInv, Timely, [Next]_vars
    PROVE  RoundStep
<1>1. ASSUME NEW m \in globals, ApplyParametersTx(m) PROVE RoundStep
  <2>1. IsRestart(m) \/ IsSuccessor(m)
    BY <1>1, RoundMessages DEF ApplyParametersTx, Fits
  <2> QED  BY <1>1, <2>1, RoundRestarted, RoundMovedOn
<1>2. ASSUME NEW m \in globals, Drop(m) PROVE RoundStep
  BY <1>2, RoundDropped DEF Drop, nodeVars
<1>3. CASE GlobalTx
  BY <1>1, <1>2, <1>3, RoundTallyApplied DEF GlobalTx, ApplyParametersRejected
<1>4. ASSUME NEW duty \in Duty, Injects(duty), UNCHANGED <<issueVars, globals>>
      PROVE  RoundStep
  BY <1>4, RoundDropped DEF Injects
<1>5. CASE NodeTx
  BY <1>4, <1>5, RoundWindows, RoundIssue, RoundTally, RoundParameters DEF NodeTx, Refused
<1>6. CASE SkipMaintenance
  BY <1>6, RoundDropped DEF SkipMaintenance
<1>7. CASE Fault
  BY <1>2, <1>4, <1>6, <1>7 DEF Fault, NodeStops, GlobalLost
<1>8. CASE UNCHANGED vars
  BY <1>8, RoundDropped DEF vars, nodeVars
<1> QED  BY <1>3, <1>5, <1>7, <1>8, RoundUsers, RoundMaintain, RoundTick DEF Next

\* Whatever is skipped, lost or repeated, governance implements DaoRounds: a round is
\* opened, decided at most once, and takes effect once, by the step to the next round.
\* A global must not be later than a window and a half (225 seconds, index.ts applies
\* them after ten): a restart of the windows that comes later undoes a round.
THEOREM DaoImplementsRounds ==
    ASSUME Timely
    PROVE  Spec => ImplementsRounds
<1>1. RoundInv /\ [Next]_vars => RoundInv' /\ [Rounds!Next]_Rounds!roundVars
  BY RoundSteps DEF RoundStep
<1>2. Init => Rounds!Init
  BY DaoAssumption DEF Init, Rounds!Init, Stage, Decision, Issues
<1> QED  BY <1>1, <1>2, RoundInit, PTL DEF Spec, ImplementsRounds, Rounds!Spec

\* A round that closed without a successor on the way is the last one: no restart of
\* the windows by networkMaintenance gets governance going again.
THEOREM DaoWedgeIsForever ==
    ASSUME Timely
    PROVE  Spec => WedgeIsForever
<1>1. RoundInv /\ [Next]_vars => RoundInv' /\ (Wedged => Wedged')
  BY RoundSteps DEF RoundStep
<1> QED  BY <1>1, RoundInit, PTL DEF Spec, WedgeIsForever
-----------------------------------------------------------------------------
(***************************************************************************)
(* The tally.  The places that its sort gives are those of the powers: the *)
(* second is the strongest of the others, so that the margin over it is a  *)
(* margin over all of them.                                                *)

AreBefore(pow, n, p) == {q \in 1 .. n : Before(pow, q, p)}

LEMMA PlaceCounts ==
    ASSUME NEW n \in Nat, NEW pow, NEW p
    PROVE  /\ IsFiniteSet(AreBefore(pow, n, p))
           /\ Cardinality(AreBefore(pow, n, p)) \in Nat
           /\ Place(pow, n, p) = 1 + Cardinality(AreBefore(pow, n, p))
<1>1. IsFiniteSet(1 .. n)
  BY FS_Interval
<1>2. IsFiniteSet(AreBefore(pow, n, p))
  BY <1>1, FS_Subset DEF AreBefore
<1> QED  BY <1>2, FS_CardinalityType DEF Place, AreBefore

\* The first is before all others, and the second before all but the first.
LEMMA FirstPlace ==
    ASSUME NEW n \in Nat, NEW pow, NEW p
    PROVE  Place(pow, n, p) = 1 <=> \A q \in 1 .. n : ~ Before(pow, q, p)
<1>1. Place(pow, n, p) = 1 <=> AreBefore(pow, n, p) = {}
  BY PlaceCounts, FS_EmptySet
<1> QED  BY <1>1 DEF AreBefore

LEMMA SecondPlace ==
    ASSUME NEW n \in Nat, NEW pow, \A i \in 1 .. n : pow[i] \in Nat, NEW p \in 1 .. n, NEW q \in 1 .. n,
           Place(pow, n, p) = 1
    PROVE  Place(pow, n, q) = 2 <=> q # p /\ \A r \in (1 .. n) \ {p} : ~ Before(pow, r, q)
<1>1. ~ Before(pow, q, p)
  BY FirstPlace
<1>2. q # p => Before(pow, p, q)
  <2>1. pow[p] \in Nat /\ pow[q] \in Nat /\ p \in Int /\ q \in Int
    OBVIOUS
  <2> QED  BY <1>1, <2>1 DEF Before
<1>3. Place(pow, n, q) = 2 <=> \E x : AreBefore(pow, n, q) = {x}
  <2>1. Place(pow, n, q) = 2 <=> Cardinality(AreBefore(pow, n, q)) = 1
    BY PlaceCounts
  <2> QED  BY <2>1, PlaceCounts, FS_Singleton
<1>4. ASSUME Place(pow, n, q) = 2 PROVE q # p /\ AreBefore(pow, n, q) = {p}
  <2>1. q # p
    BY <1>4
  <2> QED  BY <1>2, <1>3, <1>4, <2>1 DEF AreBefore
<1>5. ASSUME q # p, \A r \in (1 .. n) \ {p} : ~ Before(pow, r, q)
      PROVE  AreBefore(pow, n, q) = {p}
  BY <1>2, <1>5 DEF AreBefore
<1>6. AreBefore(pow, n, q) = {p} => \A r \in (1 .. n) \ {p} : ~ Before(pow, r, q)
  BY DEF AreBefore
<1> QED  BY <1>3, <1>4, <1>5, <1>6

\* Whoever is not the first is not alone: somebody has the second place.
LEMMA SecondExists ==
    ASSUME NEW n \in Nat, NEW pow, \A i \in 1 .. n : pow[i] \in Nat, NEW p \in 1 .. n, n # 1,
           Place(pow, n, p) = 1
    PROVE  \E q \in 1 .. n : Place(pow, n, q) = 2
<1> DEFINE Others == (1 .. n) \ {p}
           Heads  == {AreBefore(pow, n, q) : q \in Others}
<1>1. Heads # {} /\ Heads \subseteq SUBSET (1 .. n)
  <2>1. 1 \in 1 .. n /\ 2 \in 1 .. n
    OBVIOUS
  <2>2. PICK q \in 1 .. n : q # p
    BY <2>1
  <2>3. AreBefore(pow, n, q) \in Heads
    BY <2>2
  <2> QED  BY <2>3 DEF AreBefore
<1>2. IsWellFoundedOn(StrictSubsetOrdering(1 .. n), SUBSET (1 .. n))
  <2>1. IsFiniteSet(1 .. n)
    BY FS_Interval
  <2> QED  BY <2>1, FS_StrictSubsetOrderingWellFounded, FS_FiniteSubsetsOfFinite
<1>3. PICK h \in Heads : \A g \in Heads : <<g, h>> \notin StrictSubsetOrdering(1 .. n)
  <2> HIDE DEF Heads
  <2> QED  BY <1>1, <1>2, WFMin
<1>4. PICK q \in Others : h = AreBefore(pow, n, q)
  BY <1>3
<1>5. ASSUME NEW r \in Others, Before(pow, r, q) PROVE FALSE
  <2>1. AreBefore(pow, n, r) \subseteq AreBefore(pow, n, q)
    <3>1. SUFFICES ASSUME NEW s \in 1 .. n, Before(pow, s, r) PROVE Before(pow, s, q)
      BY DEF AreBefore
    <3>2. pow[s] \in Nat /\ pow[r] \in Nat /\ pow[q] \in Nat /\ s \in Int /\ r \in Int /\ q \in Int
      BY <1>4
    <3> QED  BY <1>5, <3>1, <3>2 DEF Before
  <2>2. r \in AreBefore(pow, n, q) /\ r \notin AreBefore(pow, n, r)
    <3>1. pow[r] \in Nat /\ r \in Int
      OBVIOUS
    <3> QED  BY <1>5, <3>1 DEF AreBefore, Before
  <2>3. <<AreBefore(pow, n, r), h>> \in StrictSubsetOrdering(1 .. n)
    BY <1>4, <2>1, <2>2 DEF StrictSubsetOrdering, AreBefore
  <2> QED  BY <1>3, <1>5, <2>3
<1>6. Place(pow, n, q) = 2
  BY <1>4, <1>5, SecondPlace
<1> QED  BY <1>4, <1>6

LEMMA MarginIsMonotone ==
    ASSUME NEW k \in Nat, NEW a \in Nat, NEW b \in Nat, NEW c \in Nat, c <= b,
           k * a >= (k + 1) * b
    PROVE  k * a >= (k + 1) * c
<1> DEFINE d == b - c
<1>1. d \in Nat /\ b = c + d
  OBVIOUS
<1> HIDE DEF d
<1>2. (k + 1) * b = (k + 1) * c + (k + 1) * d
  BY <1>1
<1>3. (k + 1) * d \in Nat /\ (k + 1) * c \in Nat /\ k * a \in Nat
  BY <1>1
<1> QED  BY <1>2, <1>3

\* Who leads one who is not weaker has nothing, like him.
LEMMA MarginNeedsPower ==
    ASSUME NEW k \in Nat, NEW a \in Nat, NEW b \in Nat, a <= b, k * a >= (k + 1) * b
    PROVE  a = 0 /\ b = 0
<1>1. k * a >= (k + 1) * a
  BY MarginIsMonotone
<1>2. (k + 1) * a = k * a + a /\ k * a \in Nat
  OBVIOUS
<1>3. a = 0
  BY <1>1, <1>2
<1>4. (k + 1) * b = k * b + b /\ k * b \in Nat /\ k * a = 0
  BY <1>3
<1> QED  BY <1>3, <1>4

LEMMA TallyObeys ==
    ASSUME TypeOK, IssuesAreOrdered, NEW w \in 1 .. MaxProposals, TallyTx(w)
    PROVE  RuleOfTheTally(issue, w)
<1> DEFINE n   == proposalCount[issue]
           pow == power[issue]
           k   == 2 * (n + 1)
<1>1. /\ n \in Nat /\ n <= MaxProposals /\ MaxProposals \in Nat /\ pow \in [1 .. MaxProposals -> Nat]
      /\ w \in 1 .. n /\ winnerId[issue] = 0 /\ IsWinner(pow, n, w)
  BY SMTT(30), DaoAssumption DEF TypeOK, TallyTx, TallyIsValid
<1>2. \A p \in 1 .. n : pow[p] \in Nat
  BY <1>1
<1>3. k \in Nat
  BY <1>1
<1>4. \A p, q : Leads(issue, p, q) <=> k * pow[p] >= (k + 1) * pow[q]
  BY DEF Leads
<1>5. \A p, q : HasMargin(pow, n, p, q) <=> k * pow[p] >= (k + 1) * pow[q]
  BY DEF HasMargin
<1> HIDE DEF n, pow, k
<1>6. ASSUME NEW p \in 1 .. n, Place(pow, n, p) = 1, NEW q \in 1 .. n
      PROVE  pow[p] >= pow[q] /\ (pow[p] = pow[q] => p <= q)
  <2>1. ~ Before(pow, q, p)
    BY <1>1, <1>6, FirstPlace
  <2> QED  BY <1>2, <2>1 DEF Before
<1>7. ASSUME NEW p \in 1 .. n, ClearWinner(pow, n, p), NEW q \in (1 .. n) \ {p}
      PROVE  Leads(issue, p, q)
  <2>1. PICK r \in 1 .. n : Place(pow, n, p) = 1 /\ Place(pow, n, r) = 2 /\ HasMargin(pow, n, p, r)
    BY <1>7 DEF ClearWinner
  <2>2. ~ Before(pow, q, r)
    BY <1>1, <1>2, <2>1, SecondPlace
  <2>3. pow[q] <= pow[r] /\ pow[q] \in Nat /\ pow[r] \in Nat /\ pow[p] \in Nat
    BY <1>2, <2>2 DEF Before
  <2>4. k * pow[p] >= (k + 1) * pow[r]
    BY <1>5, <2>1
  <2>5. k * pow[p] >= (k + 1) * pow[q]
    BY <1>3, <2>3, <2>4, MarginIsMonotone
  <2> QED  BY <1>4, <2>5
<1>8. ASSUME w # 1, NEW q \in (1 .. n) \ {w}
      PROVE  Leads(issue, w, q) /\ pow[w] > 0
  <2>1. ClearWinner(pow, n, w)
    BY <1>1, <1>8 DEF IsWinner
  <2>2. 1 \in 1 .. n /\ Place(pow, n, w) = 1
    BY <1>1, <2>1 DEF ClearWinner
  <2>3. pow[w] >= pow[1] /\ (pow[w] = pow[1] => w <= 1)
    BY <1>1, <1>6, <2>2
  <2>4. pow[w] > 0
    BY <1>1, <1>2, <1>8, <2>2, <2>3
  <2> QED  BY <1>1, <1>7, <2>1, <2>4
<1>9. ASSUME w = 1, NEW p \in (1 .. n) \ {1},
             \A q \in (1 .. n) \ {p} : Leads(issue, p, q) /\ pow[p] # pow[q]
      PROVE  FALSE
  <2>1. ASSUME NEW q \in (1 .. n) \ {p} PROVE pow[p] > pow[q]
    <3>1. k * pow[p] >= (k + 1) * pow[q] /\ pow[p] # pow[q]
      BY <1>4, <1>9, <2>1
    <3>2. pow[p] \in Nat /\ pow[q] \in Nat
      BY <1>2
    <3> QED  BY <1>3, <3>1, <3>2, MarginNeedsPower
  <2>2. Place(pow, n, p) = 1
    <3>1. ASSUME NEW q \in 1 .. n PROVE ~ Before(pow, q, p)
      BY <1>2, <2>1, <3>1 DEF Before
    <3> QED  BY <1>1, <3>1, FirstPlace
  <2>3. PICK q \in 1 .. n : Place(pow, n, q) = 2
    <3>1. n # 1
      BY <1>9
    <3> QED  BY <1>1, <1>2, <2>2, <3>1, SecondExists
  <2>4. q # p
    BY <2>2, <2>3
  <2>5. ClearWinner(pow, n, p)
    BY <1>4, <1>5, <1>9, <2>2, <2>3, <2>4 DEF ClearWinner
  <2>6. ClearWinner(pow, n, 1)
    BY <1>1, <1>9, <2>5 DEF IsWinner
  <2>7. 1 \in 1 .. n /\ pow[1] >= pow[p]
    BY <1>1, <1>6, <1>9, <2>6 DEF ClearWinner
  <2> QED  BY <1>2, <2>1, <2>7
<1>10. /\ w # 1 => \A q \in (1 .. n) \ {w} : Leads(issue, w, q) /\ pow[w] > 0
       /\ w = 1 => \A p \in (1 .. n) \ {1} :
            \E q \in (1 .. n) \ {p} : ~ Leads(issue, p, q) \/ pow[p] = pow[q]
  BY <1>8, <1>9
<1> QED  BY <1>1, <1>10 DEF RuleOfTheTally, n, pow

\* Nothing but a tally records a winner.
LEMMA WinnersByTally ==
    ASSUME TypeOK, IssuesAreOrdered,
           \/ winnerId' = winnerId
           \/ \E w \in 1 .. MaxProposals : TallyTx(w),
           NEW i \in Issues, winnerId'[i] # winnerId[i]
    PROVE  RuleOfTheTally(i, winnerId'[i])
<1>1. PICK w \in 1 .. MaxProposals : TallyTx(w)
  OBVIOUS
<1>2. winnerId' = [winnerId EXCEPT ![issue] = w] /\ winnerId \in [Issues -> 0 .. MaxProposals]
  BY <1>1 DEF TallyTx, TypeOK
<1>3. i = issue /\ winnerId'[i] = w
  BY <1>2
<1> QED  BY <1>1, <1>3, TallyObeys

LEMMA OnlyTallies ==
    ASSUME [Next]_vars
    PROVE  winnerId' = winnerId \/ \E w \in 1 .. MaxProposals : TallyTx(w)
<1>1. CASE UserTx
  BY <1>1 DEF UserTx, ProposalTx, VoteTx
<1>2. CASE NodeTx
  BY <1>2 DEF NodeTx, NetworkWindowsTx, IssueTx, ParametersTx, Refused, issueVars
<1>3. CASE GlobalTx
  BY <1>3 DEF GlobalTx, ApplyTallyTx, ApplyParametersTx, ApplyParametersRejected, Drop, issueVars
<1>4. CASE Fault
  BY <1>4 DEF Fault, NodeStops, GlobalLost, SkipMaintenance, Drop, issueVars
<1>5. CASE Maintain \/ Tick \/ UNCHANGED vars
  BY <1>5 DEF Maintain, Tick, vars, issueVars
<1> QED  BY <1>1, <1>2, <1>3, <1>4, <1>5 DEF Next

\* For any number of proposals and any votes, on whatever issue, the sort of tally.ts
\* records the winner that docs/API.md asks for, once for each issue.
THEOREM DaoTallyFollowsTheRule == Spec => TallyFollowsTheRule
<1> DEFINE Ruled == \A i \in Issues : winnerId'[i] # winnerId[i] => RuleOfTheTally(i, winnerId'[i])
<1>1. TypeOK /\ IssuesAreOrdered /\ [Next]_vars => [Ruled]_vars
  BY OnlyTallies, WinnersByTally
<1> QED  BY <1>1, DaoTyped, PTL DEF Spec, TallyFollowsTheRule
=============================================================================
