# A TLA+ model of the Liberdus validator

Liberdus is a messaging and payment network.  This repository is its validator: an
application on top of the Shardus framework, which orders the transactions on each
account, has them executed by several nodes, and calls the application back
(`src/src/index.ts`, `dapp.setup`).  The modules here model the parts of the application
whose correctness depends on several transactions, nodes and messages: the governance of
the network parameters and of the developer fund, the staking of the nodes, how a
node gets the certificate it joins with, and the accounts of the users with the fees, chats,
aliases, legacy stakes and configuration changes that their transactions write.  Shardus is not in the
repository; what is assumed of it is named in *External* below.

## 1. Inventory

| Component | State | Operations | Interacts with | Modelled |
|---|---|---|---|---|
| Network parameter governance ("main DAO") | network account (`current`, `next`, `windows`, `nextWindows`, `issue`), issue and proposal accounts, `lastMaintainedCycle` of a node | `network_windows`, `issue`, `proposal`, `vote`, `tally`, `apply_tally`, `parameters`, `apply_parameters`; `networkMaintenance` | global messages; the fees of every other transaction | `NetworkDao`, `DaoRounds` |
| Node staking, certificates, rewards, penalties | `operatorAccountInfo` of user accounts, node accounts, network-transaction queue of Shardus, signed certificates | `deposit_stake`, `withdraw_stake`, `set_cert_time`, `init_reward`, `claim_reward`, `apply_penalty`, `query_certificate`, `signAppData`, `validateJoinRequest`, `eventNotify`, the two verifiers | Shardus events and node list; amounts from the network account | `NodeStaking` |
| Developer fund governance ("dev DAO") | `devWindows`, `devIssue`, `developerFund`, dev issue and dev proposal accounts | `dev_issue`, `dev_proposal`, `dev_vote`, `dev_tally`, `apply_dev_tally`, `dev_parameters`, `apply_dev_parameters`, `developer_payment`, `apply_developer_payment` | the same maintenance loop, clock and window reset | `DevDao` |
| Join state machine of a node | `lastCertTimeTxTimestamp`, `lastCertTimeTxCycle`, `stakeCert`, `adminCert` | `isReadyToJoin`, `getJoinData`, the retries of `query_certificate` and `set_cert_time` | staking, one poll per cycle by Shardus | `JoinCertificate` (without the admin certificate) |
| User ledger | user, chat and alias accounts, `snapshot` | `create`, `register`, `transfer`, `message`, `toll`, `friend`, `remove_friend`, `distribute`, `email`, `gossip_email_hash`, `verify`, `snapshot`, `snapshot_claim`; `apply`, `updateAccountFull`, `maintenanceAmount` | fees from the network account; the mail server and the gossip of a node | `UserAccounts` |
| Legacy staking | `stake` and `remove_stake_request` of user accounts, balance and `nodeRewardTime` of node accounts | `stake`, `remove_stake_request`, `remove_stake`, `node_reward` | user accounts; the requirement set by the DAO; the node list | `LegacyStaking` |
| Network change queue | `listOfChanges` | `change_config`, `apply_change_config`, `pruneNetworkChangeQueue` (also `updateNetworkChangeQueue`, version comparison) | every node's config; cycles | `ConfigChanges` (without the two in brackets) |
| Account storage | account table, cached network account | `AccountsStorage`, storage | all | no |
| Transaction injection | - | `InjectTxToConsensor`, `raceForSuccess` | joining nodes | no |
| HTTP endpoints, hashing and signatures, client, SQL layer | - | read-only, pure, or input and output | - | no |

What makes the correctness of these parts hard:

* **The duties of a round are driven by a timer on whichever node is "lucky"** in a
  cycle.  The node reads the network account, awaits, decides what is due and only then
  injects.  A duty is possible only in its own time window; a window whose cycles are all
  missed is gone.
* **Two-step writes.**  `tally` and `parameters` do not write the network account.  Each
  copies values into a global message that is applied ten seconds later, once, or not
  at all.  Between the copy and the application a reset of the windows may happen.
* **Reads before writes in staking.**  `set_cert_time`, `init_reward`, `claim_reward` and
  `apply_penalty` are injected by nodes that read the accounts first; the nominator may
  unstake, or another one may stake, before they are executed.
* **Retries until seen.**  A network transaction (reward) is tried in each cycle until a
  verifier sees its effect in the account, and withdrawals and penalties reset the very
  fields it looks at.
* **Copies that go stale.**  A signed certificate carries the stake and the expiry of
  the moment; joining looks at the certificate only, and the node keeps it in memory.
* **Not knowing.**  A node that renews its certificate knows that it sent the transaction,
  not that it was executed, and forgets even that when it restarts.
* **Stored only when stamped.**  A handler changes copies of accounts; what is stored are the
  copies whose timestamp equals the transaction's.  Two handlers do not set it.
* **One fact in several accounts.**  A chat is recorded by both users, an alias by the user
  and by the alias account that the client names, a transfer of tokens in two balances or more.

What makes them correct is listed with each module below; the exposed lines are the
`hazards` of `PROJECT.json`.

## 2. Plan

1. `DaoRounds` (abstract), `NetworkDao` (implements it), `NetworkDaoProofs` - done.
2. `NodeStaking`, `NodeStakingProofs`, and `Totals` with `TotalsProofs` (the sum of a function on a finite
   set, for the books) - done.
3. `DevDao` (composes the dev DAO with `NetworkDao`), `DevDaoProofs` - done.
4. `JoinCertificate` (composes the polls of a joining node with `NodeStaking`),
   `JoinCertificateProofs` - done, without the admin certificate.
5. `UserAccounts`, `LegacyStaking` (on the same accounts), `ConfigChanges`, and `AccountLedger`, which
   composes the three over one clock; `AccountsProofs`, `ConfigChangesProofs` (lemmas),
   `AccountLedgerProofs` (theorems) - done.
6. Left: the cached network account of the storage with the restarts that empty it, the race of
   `raceForSuccess`, `updateNetworkChangeQueue` and the version comparison.

Every invariant and action property that a passing run checks, and the refinement of `DaoRounds`, is also
a theorem (section 9).  Theorems worth proving next belong to the components of point 6.

## 3. `NetworkDao`: the governance of the network parameters

**Correspondence.**  The variables are fields of the network account (`current`, `next`,
`windows`, `nextWindows`, `issue`), of the issue and proposal accounts (indexed by
the number of the issue), balances, the global messages under way (`globals`), what the
lucky node has decided to inject (`intents`), and the cycle it last maintained.
One action is one transaction handler with everything it changes (`ProposalTx`, `VoteTx`,
`NetworkWindowsTx`, `IssueTx`, `TallyTx`, `ParametersTx`, `ApplyTallyTx`,
`ApplyParametersTx`) or one pass of the maintenance loop (`Maintain`); a refusal by
`validate` is `Refused` or `ApplyParametersRejected`; `NodeStops`, `GlobalLost` and
`SkipMaintenance` are the faults.

**Abstraction.**  A complete set of parameters is one model value; `Permitted` are those
within the bounds `proposal` enforces.  The four windows of a round have one length and
are given by the start of the first.  The voting power is the amount; the tally's
margin, floating-point in the code, is the same inequality in integers.  The maintenance
fee is left out (the initial parameters set it to zero).  A transaction is one step at
its timestamp, since Shardus executes those on an account in that order.

**Properties.**
`TypeOK` includes that balances never go below zero.
`CurrentWasChosen`: the parameters in force are the initial ones or a recorded winner's,
whatever is lost, late or reset.  `ImplementsRounds`: governance implements `DaoRounds`,
where a round is opened, decided at most once, and takes effect once, with exactly
what was decided.  The refinement mapping takes `issue` for the round, the issue account
for its stage, the winner's parameters for the decision, and `current` for what is in
force.  `TallyFollowsTheRule` states the rule of the docs on sets, independent of
the sort in the code.  `ClosedIssueHasSuccessor` and `WindowsKeepUp`: when every
cycle is attended, no round closes without its successor on the way, and the network
never sits in windows that are over.  `WedgeIsForever`: when not attended, a round that
closed without a successor is never recovered.  `RoundsComplete` (liveness): every round makes way for the next.

**Runs** (module `MCNetworkDao`; `attended` runs both DAOs together and is in section 5).

| Run | Setting | Result |
|---|---|---|
| `faults` | missed cycles, stopped nodes, lost and late globals, window resets | no error |
| `wedge` | `ClosedIssueHasSuccessor` with missed cycles | violated |

`wedge` shows a bug: `parameters` is accepted for an issue that has no winner.
It closes the issue and sends `current = {}`, which `apply_parameters` refuses; nothing
moves `network.issue` afterwards, and the reset of the windows restarts the clock of an
issue that no transaction accepts any more.
A vote names an issue and a proposal separately, and only the issue must be the active
one, so the proposals of closed issues still take votes and tokens (the docs ask that the
issue be active); `VoteTx` allows it, and `CurrentWasChosen` and
`TallyFollowsTheRule` show that it changes no decision.

**Bounds.**  `WindowLen` is 5 with a cycle of 2 and a delay of 1 where rounds must
complete: a window holds at least two whole cycles, as in the code, where it holds many.
With faults it is 2, so that a window may pass between two maintenances; `MaxTime`
then lets the windows go stale (three times their total) and be reset.  `MaxIssue` 2
gives two complete rounds and the beginning of a third.  Two proposals are the least with
a contest; `attended` has three, so that the margin depends on the count and the order of the
losers matters.  There is one user: a vote is an amount on a proposal, and nothing in the
handlers depends on who casts it but the balance, which one user may run out of.  The clock is bounded, so the model stops at `MaxTime`:
this is why `CHECK_DEADLOCK` is off in every run.

**Fairness.**  `WF` of the lucky node's injections, of the application of globals, of
`Maintain` and of the clock: a timer that is re-armed on every pass
(`src/src/index.ts:1959-1970`) and Shardus' processing of what was sent.  Users and faults
are free.  `DaoFairness` of `DevDao` says the same of both DAOs, and `attended` checks
`RoundsComplete` and `DevRoundsComplete` under it.  They hold only with `Attended`, i.e. if every cycle has a
working lucky node; without it the run `wedge` is the counterexample.

## 4. `NodeStaking`: stakes, certificates, rewards and penalties

**Correspondence.**  Each user has `balance`, `nominee`, `stake`, `certExp` and two
totals of `operatorAccountInfo`; each node has the fields of its node account under their
names, a status in the network, and its queue of network transactions.  `pending` holds
what a node has injected, with what it had read: `InjectX` is the injecting function, `XTx` the handler.
`Refused` is a failing `validate`; `Lost` a transaction that is never executed (also one
Shardus drops because an account is newer than it).  `Verified` is the
apply verifier which takes a network transaction off the queue.  `SignCertificate` is
`query_certificate` with the checks of the signers in `signAppData`, and `Join` is
`validateJoinRequest`, which looks at the certificate and at nothing else.  `Activate`, `Leave`, `Refute`
and `SyncTimeout` are the events of `eventNotify`.  `Shutdown` is the end of the network and its
next start: the shutdown handlers queue the reward of every active node (and the start of those activated
in that very cycle), and all nodes are out.

**Abstraction.**  A tick is one cycle: what is injected is executed, or lost, in its cycle.
`isNodeActiveByPubKey` and `isOnStandbyList` are taken by their names, so
that a syncing node is neither active nor on standby and its stake may be withdrawn.  Histories kept for display are left
out; so are the admin certificate and the version checks of join requests.
`set_cert_time` is injected whenever a node is out of the network; when exactly
`isReadyToJoin` does so is in `JoinCertificate`.  A percentage above 100 is clamped, as in the code.

**Properties.**
`StakeIsPaired`: nominator and node agree on who stakes on whom and on how much, through
late penalties, top-ups and withdrawals.
`BooksBalance`: tokens are neither made nor lost: balances, locks, burnt fees and
penalties are what there was, and paid rewards; no reward is paid twice.
`NoUnearnedReward`: a node is never rewarded for more time than it was active, however
reward transactions are lost, retried or outlive a change of nominator.
`LiveCertificateIsBacked`: the nominator and the node of a certificate that has not expired still belong
together, with at least that expiry - unless the nominator deposited again after it was signed.  It is about the
pair, not about the amount: a penalty after the signing takes tokens of the stake that the certificate names, and
`validateJoinRequest` does not see it.  How much of that stake is left is `HeldStakeIsAccounted` in section 6.
`WithdrawnCertificateExpired`: what the docs say of `withdraw_stake`.

**Runs** (module `MCNodeStaking`).

| Run | Setting | Result |
|---|---|---|
| `stake` | two users, two nodes, five cycles, top-ups and negative deposits, slashing for sync timeouts; no node becomes active | no error |
| `rewards` | one user, one node, five cycles, activity, both kinds of leaving, shutdowns of the network, two kinds of slashing | no error |
| `topup` | a deposit on an existing stake with a live certificate | violated |

A deposit may be zero or negative: `deposit_stake.ts:20` refuses an amount that is not a bigint *and* not positive,
where it means *or*.  Such a deposit hands back a part of the stake as long as what stays is enough,
with no look at the certificate, the node or the period, and it resets `certExp` like every deposit.
`Deposits` are any integers, and `stake` has one of -1: pairing, types and books survive it (the theorems say so for every
integer), while a certificate that was signed before names more than there is.

`topup` shows that a second deposit resets `certExp` although a certificate with the
old expiry is in the hands of the node: the stake can be withdrawn at once, and the node
joins with the certificate.  The docs ask that the certificate be expired.

**Bounds.**  In `stake`, two users and two nodes are the least for a wrong pairing;
`MaxQueue = 0` keeps nodes from becoming active, so that the run is about stake and
certificates; five cycles hold a stake, a certificate of two cycles, its expiry, a
withdrawal and a second stake.  In `rewards` there is one pair; the second stay of the
node, and a second stake after a withdrawal, bring back the
interference that another nominator would.  The fee is 0 in both, for the size of `rewards`; it is 1 in `joining`
(section 6), which checks `BooksBalance` too.  In `topup` certificates last three cycles.
`MaxCerts`, `MaxPending` and `MaxQueue` bound what is signed, injected and queued.
As before, the clock is bounded and `CHECK_DEADLOCK` is off.

**Fairness.**  None: no liveness is stated for staking.  A reward transaction is retried,
but nothing obliges the nominator not to unstake before it is executed.

## 5. `DevDao`: the governance of the developer fund

**Correspondence.**  The module extends `NetworkDao` and runs both DAOs side by side
(`DaoSpec`).  Its own variables are `devWindows`, `nextDevWindows` and `devIssue` of the
network account, the dev issue accounts, and its messages and duties (`devGlobals`,
`devIntents`).  What the two share is composed: `TickBoth` moves the one clock only
when neither has something due, `MaintainBoth` is the one pass of `networkMaintenance` that decides
the duties of both (none but `network_windows` when it starts or resets the windows), and
`ApplyMainParameters` is `apply_parameters` with what it writes of the dev DAO: the
windows of a reset are for both.  `DevNodeStops` covers a node that stops and one whose main tally, awaited before the dev
duties, does not return.

**Abstraction.**  As the code is, `dev_vote` refuses every amount (it must be a number in
one function and a bigint in another) and `dev_tally` throws for every proposal
(`BigInt(0.15)`): it succeeds only for an issue without any.  No proposal can win, so the
fund is empty and `developer_payment` is never sent; winners, fund and payments have no
variables.  They would be the first to add if the tally were mended.

**Properties.**
`DevMovesOnce`: of the messages under way at most one moves the dev DAO on, it is for the issue after the present
one, and the present one is closed.
`DevRoundsInOrder`: dev rounds are not skipped, repeated or rolled back, although the number of
the next one is fixed when a message is sent and written when it is applied.
`DevKeepsUpWithoutProposals`: driven from one loop with the main DAO, and with windows of its
own, the dev DAO does not lapse.
`DevRoundsComplete` (liveness): every dev round makes way for the next, as long as nobody makes a
dev proposal.
`DevClosedIssueHasSuccessor` and `DevWindowsMoveForward` are the two that fail.
`DevWedgeIsForever`: what the first failure costs.

**Runs** (module `MCDevDao`; all but `attended` with one parameter set and no votes in the main DAO).

| Run | Setting | Result |
|---|---|---|
| `attended` | every cycle attended, with fairness; both DAOs with proposals, votes in the main one; three parameter sets (one not permitted, one with higher fees); two complete rounds | no error |
| `devfaults` | missed cycles, stopped nodes, lost and late globals of both, window resets | no error |
| `devtally` | attended, `DevClosedIssueHasSuccessor` | violated |
| `devreset` | `DevWindowsMoveForward` with faults, no message late | violated |

`devtally` shows that one dev proposal stops the dev DAO for good in a network that misses
nothing: the tally throws in every cycle of its window, `nextDevWindows` stays empty, and
`dev_parameters` closes the issue and sends a message that is refused.
`devreset` shows a stale field: a reset renews `devWindows` but not `nextDevWindows`, so
what a tally of the abandoned round put there is still there in the new round; if that
round's tally is missed, its `dev_parameters` puts windows in force that are over.

**Bounds.**  As for `NetworkDao`: windows of 5 where rounds must complete, of 2 with
faults, and a clock long enough for a reset and the round after it.
`devreset` has `MaxLate` 0 to leave out two resets overtaking each other,
which would move the windows back in a less interesting way.

**Fairness.**  `FairDaoSpec`, as in section 3, in `attended`; none in the other runs.

## 6. `JoinCertificate`: how a node gets its certificate

**Correspondence.**  The module extends `NodeStaking` and adds the memory of a node:
`lastCertTimeTx` is `lastCertTimeTxCycle`, or 0 when `lastCertTimeTxTimestamp` is 0
(they are always set together, and only the timestamp is reset, after which the cycle is
not read), `stakeCert` is the certificate of `query_certificate.ts`, and `isReadyToJoin`
what the last poll returned.  Each path through the function `isReadyToJoin` is an action of its own:
`Renews` (first time, expired, or 70% over), `Holds`, `QuerySucceeds`, `QueryRefused`,
and `RenewsQueried` for a certificate that is queried when it is nearly over.  Each path that fails is a
fault: `QueryFails`, `PollFails`, `RenewalFails`; `AnswerLost` is an injection that is accepted although the node is told
that it failed, or nothing; `HasNoNominator` is the failure that the accounts decide.  `Restarts` empties the memory.  `JoinRequest` sends
what `getJoinData` sends, the certificate in memory, instead of any signed one.
Every node that is out of the network polls once between two ticks.

**Abstraction.**  The refusals at the beginning of `isReadyToJoin` (version, admin certificate,
mode) are one failed poll; staking is enabled.  "More than three cycles ago" is an *or* of a cycle count and
of milliseconds: at exactly three cycles either may be the outcome.  The 70% is an
inequality in integers.  The life of a certificate is the same in
`set_cert_time` and in the test of its age, as it is while `certCycleDuration` is not
changed by governance.

**Properties.**
`ReadyMayJoin`: the rule by which a node renews (a share of the certificate's life) and
the rule by which it is let in (a number of cycles) are far apart in the code; a node
that says it is ready is not refused in this cycle or the next.
`HeldStakeIsAccounted`: the node never looks at the accounts again, and penalties take from the stake that its
certificate names, so that it may join with less.  But only they do: what is locked and what its nominator was punished
with since the query (`signedPenalty` remembers his total then) are exactly the stake of the certificate until it expires -
with the exception of deposits that `topup` shows.
`BooksBalance` of `NodeStaking` is checked here with a transaction fee.
`GetsReady`: a staked node is ready within six cycles of the last disturbance (stake, status, or
fault), and from then on never longer than a cycle not: liveness with a bound, stated as an invariant.
`RenewalsAreFree`: `set_cert_time` takes no fee in the second half of a certificate's
life, and the state machine renews so that the nominators of a node pay for it once for each deposit on it
and each fault of it at most.  Deposits, faults, charges and disturbances are counted for each node.  What is
not counted is the charge of a nominator who has left the node since (`IsCharged`): `set_cert_time`
looks at his stake, not at the node that injected it, so that a renewal of the old node that is still
under way when he moves to another in the same cycle is executed and charged, on top of the
deposit's own.

**Runs** (module `MCJoinCertificate`).

| Run | Setting | Result |
|---|---|---|
| `joining` | one nominator, one node, eleven cycles, two faults of any kind, top-ups, withdrawals, slashing of half a stake, a fee | no error |

**Bounds.**  Certificates last seven cycles and the join margin is two, as in the code: the
least life of which 30% is more than the margin, so that `ReadyMayJoin` is checked at its edge.  Eleven cycles hold a
stake, two faults, the whole way back, and the renewal of a certificate.  The
six cycles of `GetsReady` are the longest way back: three failed queries until the reset of the
memory, the next poll that injects, the one that queries, and the cycle under way.
One node and one nominator are what TLC reaches for so many cycles; that nominators who move between nodes
disturb none of the properties is shown by the theorems, which are for any number of either.
The rewards are left out (`MaxQueue` 0, as in `stake`).

**Fairness.**  None: a tick waits for the poll and for what was injected, which is how
Shardus calls `isReadyToJoin`, and the bound is in cycles.

## 7. `AccountLedger`: accounts, legacy staking and configuration changes

**Correspondence.**  `UserAccounts` keeps what is stored: `account` (the fields of a user account
under their names; an address can also hold a node account, or nothing), `aliasAccount` (`inbox`, which is an alias, and `address`), `chat` (who
wrote to whom in each chat account) and `snapshot` of the network account.  One action is one
transaction handler.  Each changes a copy of the accounts and ends in `Commit`, which is `apply` in
`src/src/index.ts` with `updateAccountFull`: of the copies, those with the timestamp
of the transaction are stored.  Handlers stamp their copies with `Stamped`; `DistributeTx` and
`RemoveStakeRequestTx` do not, as in the code.  `Present` is the account that
`createRelevantAccount` makes when there is none.
`email` stores nothing and has no action: the node closest to the address mails a code and sends
a `gossip_email_hash`.  That transaction is unsigned and validates nothing, so `GossipEmailHashTx` puts any code on any
account at any time.  `RegisterTx` takes an alias and a hash that the client chooses independently: `register.ts` does
not compare them.

`LegacyStaking` adds the four transactions of the older staking scheme on the same accounts, the node
accounts, and `required`, which the DAO changes (`StakeRequirementChanges`).  `clock` is
`Date.now()` of an executing node, up to `Lag` after the timestamp.  `NodeRotates` is a node that becomes active or
leaves.  A reward is for any node account (`from`) on account of any active node (`nodeId`): `node_reward` is unsigned and
nothing ties the two.  `ConfigChanges` adds `listOfChanges`: `change_config` schedules a global message, the message
appends, and `pruneNetworkChangeQueue` drops.  `AccountLedger` composes the
three: one transaction of any of them at a time, at a timestamp not before the last one.

**Abstraction.**  Amounts are naturals.  The maintenance fee is a bigint (`src/src/@types/index.ts:482`) of which `proposal.ts:138-145`
permits only 0; the model has 1 too, the other value for which the fee is a whole number, so that the code of the
maintenance is exercised.  The cycle of a change is an integer; the code takes any number.  A transaction for an account that does not exist, or is of the wrong kind, throws and
changes nothing, so it is no step.  A verification code stands for its hash.  A change of the configuration is the set
of paths it names, with its cycle; the values do not matter to the pruning.  Timestamps rise: Shardus drops
a transaction for an account that is newer.

**Properties.**
`NoDebt`: no balance goes below zero, although `message` and `distribute` take tokens in several
parts, and parts of a `distribute` may not be stored.
`TokensConserved`: balances, stakes and unpaid rewards are what was issued and not taken
as fee or maintenance.  A `distribute` that is stored in part breaks it (run `torn`); `OnlyTornOnesLose`
says that nothing else does: every other step, with its several accounts, fee and maintenance,
leaves in hand what it found, plus what it issues, less what it burns.
`AliasAccountIsTrue` and `ChatIsShared`: facts kept in two accounts agree.  Who looks up an alias account finds a user who has
just the alias that it holds, also when clients send wrong hashes and overwrite alias accounts.  That an alias has one user is *not*
true: with another hash a client registers an alias that is taken, although the docs (`src/docs/API.md:449`) ask that it "must not be already taken".
Nor is it true that the faucet pays a user once: a code that arrives after the verification is put over
`verified: true` and can be redeemed again, although the docs (`src/docs/API.md:574`) ask that the account "must not be already
verified".  `accounts` explores both.
`RewardsAreTimed`: k rewards of a node take k intervals, across its stays in the network.
`UnstakeAfterSilence`: a stake is removed two intervals after the request, and only if no reward came
in between.
`NothingPrinted`: what is returned is never more than what was staked, although `remove_stake` returns the
requirement of the present.
`LatestChangesKept` and `PruneLeavesNoSurplus`: both directions of pruning, against definitions that
do not count: the latest `Keep` changes of every path survive any number of prunings, in order, and nothing else that is old does.
The code prunes by the order of arrival.  A change that is in force may therefore be dropped when
`Keep` later ones wait for their cycles; nothing in the repository promises otherwise.

**Runs** (module `MCAccountLedger`).

| Run | Setting | Result |
|---|---|---|
| `accounts` | two users, two aliases and alias accounts, two chats, one node, two paths; seven mixes | no error |
| `torn` | the mix of payments, `TokensConserved` | violated |

`torn` shows that `distribute` sets no timestamp: `Commit` stores of it only the accounts that another transaction of the same
millisecond has stamped.  In the counterexample that is the sender, who pays, while the recipient gets nothing; without such
a transaction nothing happens at all.  The docs (`src/docs/API.md:611-617`) say that it deducts, credits and updates "timestamps for all affected
accounts".
`remove_stake_request` has the same flaw: the request is not stored, although the docs (`src/docs/API.md:869-870`) say that the account is
marked, and `remove_stake` refuses for ever after.  Only a transaction
of the same millisecond makes the request stick, and it is through those that
`accounts` reaches the rest of the scheme.  No run is spent on showing it: it is one line of `RemoveStakeRequestTx`.

**Bounds.**  A behaviour takes its transactions from one of the `Mixes`, which
put together what meets: payments with `distribute`, messages with tolls, messages with friends, registrations with snapshots, codes with verifications,
staking with its rewards, and changes of the configuration.  Three timestamps, with repetition,
give transactions of the same millisecond before, at and after the maintenance is due (an
interval of 2), and a stake with its request and removal (an interval of 1).  `MaxMinted` 6 bounds the tokens
up to which `create` and `verify` issue more; two codes let a second one replace a redeemed one; `torn` bounds the distributes that
are stored in part (one).  There is one node, so that a reward of one account for another node is covered by the
theorem `RewardsTimed` only.  Two aliases with two alias accounts are the least in which hashes are
swapped.  Four changes of two paths with `Keep` 2 are the least in which a change
with two paths outlives a younger one; their cycles are -2, so that some are older than the three cycles of `MaxAge` at once, or three cycles ahead (-1).  The
clock is bounded, so `CHECK_DEADLOCK` is off.

**Fairness.**  None: nobody need send anything.

## 8. External

Shardus orders transactions per account and executes each at most once (`Executes`,
`Lost`); it applies a global message not before its `when` (`Due`, `GlobalLost`); it
keeps the list of standby, syncing and active nodes (`Moves`, `Select`, `LeaveStandby`)
and the cycles (`Tick`), in each of which it asks a node that wants to join whether it is ready
(`JoinTick`).  These are modelled by how `src/src/index.ts` and the
transactions use them.

**Who sends.**  The transactions of users are signed, and the model lets only their owners send them.  Those of nodes are not: `network_windows`,
`issue`, `tally`, `parameters` and their dev counterparts, `gossip_email_hash`, `node_reward` and `change_config` are accepted
from whoever posts them to `/inject` (`src/src/api/inject.ts`), and `networkWindows.ts:11-22`, for one, validates neither
sender nor time.  `NetworkDao` and `DevDao` assume honest nodes: a duty is created by `networkMaintenance` only, in the window that it
checked.  Their properties, the refinement and both kinds of permanent wedge included, are about such a
network; a `network_windows` from elsewhere would break them.  Likewise `NodeStaking` creates rewards and penalties
in `eventNotify` and the shutdown handlers only: of a reward `validate` checks that it is signed, not by whom, and of a penalty that the executing node has
recorded the same one.  `AccountLedger` assumes less: codes,
rewards and configuration changes come at any time, from any account.

## 9. Proofs

`NetworkDaoProofs` proves, for every value of the constants that satisfies
`DaoAssumption`:

* `DaoTyped`: `Spec => [](TypeOK /\ IssuesAreOrdered)`.  Types alone are not inductive: that
  `winnerId` names a proposal and that the issue after the last is absent is needed for the
  tally's step and for `issue + 1`.
* `DaoChosen`: `Spec => []CurrentWasChosen`.  `current` is written from a message that was
  filled from `next`, which was written from another message: the property says nothing of
  those.  The inductive invariant `ChosenInv` adds `InFlightWasChosen`
  (`next` and every message under way carry chosen parameters only) and
  `IssuesAreOrdered` (a winner is one of the proposals that exist, so that a new proposal, put
  behind them, cannot rewrite what was chosen).  The lemma that the set `Chosen` only grows
  carries the step.
* `DaoKeepsUp` and `DaoNeverWedges`: `Spec => []WindowsKeepUp` and `Spec => []ClosedIssueHasSuccessor`, for
  every number of rounds, assuming `Punctual`: every cycle is attended, and two cycles, the delay of a
  global and its lateness fit in a window.  In the code a cycle is 60 seconds, a window 2.5 cycles
  (`src/src/config/index.ts:21-34`) and the delay 10 seconds, which leaves 20 for the lateness.  The invariant `KeepInv` says where in the
  round the network is: `Starting`, `Waiting` for the first windows, `Opened`, `Decided`, `Settled` or `Closed`.  Each stage says
  which global may be under way, what it carries, and between which times it is due;
  `Clocked` (the last maintenance was less than two cycles ago) turns "the lucky node looks once a cycle" into
  bounds on those times: no stage can be left too late, because the clock would have to pass a
  maintenance at which the duty was due.
* `DaoImplementsRounds` and `DaoWedgeIsForever`: `Spec` implies `ImplementsRounds` and `WedgeIsForever`, for
  every number of faults, assuming `Timely`: a global is applied less than a window and a half late (225
  seconds in the code).  Both `networkWindows` and `parameters` send an `apply_parameters`
  that writes `issue`, so a restart of the windows that is applied after the round moved on would roll it
  back; nothing in the handlers compares the two.  What keeps them apart is time, and `RoundInv` says
  how: the windows are restarted only when they have been over for two whole rounds
  (`WindowsPassed`), or by a message sent shortly after another restart; a successor is sent in the apply window,
  three windows after any restart.  So a message under way is
  a restart of the present round (`IsRestart`), or the only successor of it, with no restart under way or
  about to be sent (`IsSuccessor`), or the decision of its tally (`IsDecision`), which is the only one and is
  not yet in `next`.  Each step is shown to keep
  `RoundInv`, to be a step of `DaoRounds` or a stutter, and to leave a wedge one (`RoundStep`).  `Timely` is needed: with
  globals that are two windows and a half late TLC finds a restart that undoes a round.
* `DaoTallyFollowsTheRule`: `Spec => TallyFollowsTheRule`, for any number of proposals and any votes.  `Place` counts who is
  before a proposal in the sort; with more than one proposal somebody is second (`SecondExists`: a
  proposal with the fewest others before it, which exists since strict inclusion of finite sets is well-founded), and
  is the strongest of the others, so that a margin over it is one over all (`MarginIsMonotone`).  The edge
  is a tie of nothing: who leads a proposal that is not weaker has no power (`MarginNeedsPower`).

`NodeStakingProofs` proves, for every value of the constants that satisfies
`StakingAssumption`:

* `StakingTyped` and `StakingPaired`: `Spec => []TypeOK` and `Spec => []StakeIsPaired`.  They
  need each other (`PairedInv`): a penalty takes its share of the node's `stakeLock` from the
  nominator's `stake`, which stays a natural number only because the two books agree, and
  they keep agreeing only because the penalty names the present nominator.
  `ActiveInThePast` (an activation is not in the future) keeps the time served natural.
* `StakingBacked`: `Spec => []LiveCertificateIsBacked`.  The invariant adds
  `ExpiryIsNear` (no expiry is further ahead than one certificate's life): without
  it a renewal could bring the expiry of the account below that of a certificate already signed.
* `StakingBooksBalance`: `Spec => []BooksBalance`.  The totals are sums over all users and nodes;
  `TotalsProofs` proves how a sum changes when one entry does, by induction on the size
  of a finite set, and each step is then a transfer between two entries.
* `StakingRewardsEarned`: `Spec => []NoUnearnedReward`.  The invariant `RewardInv` reads a node's queue as
  its stays in the network, in the order of time (`InOrder`).  What each of them would be granted if it were
  first (`Width`) together with what was granted is at most the time served (`Funds`): so the
  first stay may be worth the time since the period began, but only at the expense of
  what the ones behind it can still claim.  What is injected is for the first of the queue or would
  grant nothing (`ClaimsInOrder`, `StartIsFirst`), and this is what a repeated, lost or late reward
  transaction, a penalty for leaving early, a change of nominator and a shutdown preserve.

`DevDaoProofs` proves, for every value of the constants that satisfies `DaoAssumption`
and `DevDaoAssumption`:

* `DevDaoMovesOnce`, `DevDaoRoundsInOrder`, `DevDaoWedgeIsForever`: `DaoSpec` implies `[]DevMovesOnce`,
  `DevRoundsInOrder` and `DevWedgeIsForever`.  All three rest on `DevInv`, which is
  `DevMovesOnce` with the types of both DAOs (`DevDaoTyped`): at most one message that moves the network on is
  under way, and it was sent for the issue the network is still at, closed when it was sent.
  It is inductive because an issue is closed in the transaction that sends the message, so that no
  second one can be.  The main DAO has no such invariant: its resets write `issue` as well.
  The lemmas `UserTyped`, `NodeTyped` and `OtherTyped` of `NetworkDaoProofs` are used for the
  steps of the main DAO.
* `BothKeepUp` and `DevDaoKeepsUp`: `DaoSpec` implies `[](WindowsKeepUp /\ ClosedIssueHasSuccessor)`
  and `[]DevKeepsUpWithoutProposals`, assuming `Punctual`.  `DevKeepInv` is `KeepInv` with the stages of
  the dev DAO (`DevStarting`, `DevWaiting`, `DevOpened`, `DevClosed`), which hold while there is no dev proposal.
  The two are tied by the first start of the windows, which one global message of the main DAO does for
  both.  That one maintenance decides the duties of both is why neither can starve the other.
* `BothImplementRounds` and `BothFollowTheRule`: the refinement, `WedgeIsForever` (with `Timely`) and
  `TallyFollowsTheRule` for `DaoSpec`.  A step of both DAOs is a step of the main one or a dev proposal, which
  takes from a balance only (`MainSteps`).

`JoinCertificateProofs` proves, for every value of the constants that satisfies
`StakingAssumption` and `JoinAssumption`:

* `JoinImplementsStaking`: `JoinSpec => Spec` of `NodeStaking`.  Each step is one of its steps or leaves
  its variables alone, so its theorems hold for `JoinSpec`.
* `JoinTyped`: `JoinSpec => []JoinTypeOK`.
* `JoinReady`: `JoinSpec => []ReadyMayJoin`, for every life of certificates with
  `3 * CertLife >= 10 * JoinMargin` (30 cycles and 2 by default).  The invariant
  `HeldInv` says of the memory that a certificate in it was signed for this
  node (`HeldIsSigned`) and that a ready node polled when less than 70% was over (`ReadyWhenFresh`).
* `JoinHeldAccounted`: `JoinSpec => []HeldStakeIsAccounted`.  A certificate comes into the memory by a query only
  (`CertComes`), and then names what is locked (`PairedInv`).  While it lives and no deposit undercuts it,
  `LiveCertificateIsBacked`, before and after a step, keeps its pair together, so the step is no withdrawal of it, and a
  penalty moves from the lock to the total what it takes (`LockedIsKept`).  Nothing un-undercuts a
  certificate (`UndercutKept`).
* `JoinRenewalsFree`: `JoinSpec => []RenewalsAreFree`.  Every step is seen from one node (`StepSeen`): it is
  about others (`Aside`), a deposit on the node, a loss of stake or place (`Weakened`), its own renewal
  executed, its own poll, or a tick.  `MemoryInv` ties what the node remembers to what is under way (`MemoryOf`: a node
  with a certificate has no renewal under way) and to the accounts (`DueOf`: a certificate that is renewed at
  once is an old one, or another node renewed it; `LateRenewals`: a renewal for a
  nominator who has left comes in the cycle in which he left).  `ChargeOf` then counts: charges, and one more
  if the next renewal would be charged (`OwesRenewal`), and one if the node forgot a renewal and would
  repeat it (`OwesForgotten`), are at most deposits and faults.
* `JoinGetsReady`: `JoinSpec => []GetsReady`.  `ReadyOf` says that since the last disturbance the node has
  either renewed, and then goes on by itself from cycle to cycle (`OnTime`), or waits for an earlier renewal, and
  has not waited long (`Waits`): the reset after three cycles of failed queries ends the wait.

`AccountLedgerProofs` proves, for every value of the constants that satisfies the assumptions of
`UserAccounts`, `LegacyStaking` and `ConfigChanges` (the sums ask for finitely many users and nodes):

* `UsersTypes`, `LegacyTypes`, `NeverInDebt`, `AliasAccountsAreTrue`, `ChatsAreShared`,
  `RewardsTimed`, and the action properties `UnstakesAfterSilence` and
  `NothingIsPrinted`.  All rest on one invariant `IInv`.  It adds to the properties: `Fine` (balances are natural, only a
  stake has a request, an address without an account has an empty one),
  `Timed` (the rewards up to the last reward time fit in the time before it),
  `Quiet` (who was paid since his last request has none), and `Named` (an alias account that names a user holds an
  alias: a user without one is named by none, which is what his first registration needs).  The argument is that every action is of one of a
  few kinds (`Kinds`): plain ones, which leave aliases, chats and stakes as they are; registrations;
  messages; and the steps of staking.  A kind changes one of these facts and keeps
  the others, so each conjunct is shown once for each kind and not for each
  action.  `AccountsProofs` holds a lemma for each action that says
  what it keeps.  The key lemma about `Commit` is that each account is afterwards the old one or
  the copy.
* `OnlyTornDistributesLose`: `Spec => OnlyTornOnesLose`.  Each action is shown to give to one account, issue or
  burn what it takes from another, with the lemmas of `TotalsProofs`, unless it is a `distribute` that is stored in part.
  That the reward credited to a node is unpaid until its staker gets it (`Unpaid`) is in the sum.
* `ConfigTypes`, `LatestChangesAreKept` and the action property `PruningIsThorough`: the walk of
  `pruneNetworkChangeQueue` from the newest change to the oldest is a recursive function on positions, and the lemma
  `WalkCounts` says what it has counted at each: the number of later changes of the path, up to the quota.
  So a pruned queue is the part of the queue that `Stays` picks (`PrunedPart`).  The invariant
  `QueueInv` says that the queue is a part of all the changes, in their order, of which only changes are
  missing that have, on each of their paths, as many later ones as the quota; a change that is added
  later can only overtake more.

The induction on finite sets in `TotalsProofs` and the one on the positions of a list in
`ConfigChangesProofs` are done with a least counterexample (a set of naturals has a least element), since
the induction theorems of the library take an operator as a parameter.

Model-checked only: liveness (`RoundsComplete`, `DevRoundsComplete`), which is out of the prover's reach.

## 10. Not modelled

The components marked *no* in section 1.  Of the modelled ones: the maintenance fee in the DAOs, the admin
certificate and `canStayOnStandby`, the
display histories, the throw of
`BigInt` for percentages that are not whole hundredths, and the wait of `tallyVotes`
blocking its node's later maintenances (the wait itself is in the model as `Waits`); shutdowns of the network in `JoinCertificate`;
payments of the dev DAO, which its
empty fund rules out; `updateNetworkChangeQueue`, which patches the configuration of the Shardus
module.  The account storage is a table keyed by address whose SQL is input and output, and `Commit` is
what it does for a transaction.
