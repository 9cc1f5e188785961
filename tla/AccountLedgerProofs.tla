------------------------- MODULE AccountLedgerProofs -------------------------
(* Theorems about AccountLedger.  Every step is one of four kinds: it touches *)
(* the aliases, the chats, the stakes, or none of the three; so each          *)
(* invariant is disturbed by the steps of one kind only.                      *)
EXTENDS AccountLedger, AccountsProofs, ConfigChangesProofs

AliasKept == aliasAccount' = aliasAccount /\ \A u \in Users : account'[u].alias = account[u].alias
ChatKept == chat' = chat /\ \A u \in Users : account'[u].chats = account[u].chats
StakeFieldsKept ==
    \A u \in Users : account'[u].stake = account[u].stake /\ account'[u].request = account[u].request
StakeKept == UNCHANGED legacyVars /\ StakeFieldsKept

Registers ==
    \E u \in Users, n \in Names, h \in AliasHashes :
        /\ account[u].alias = None
        /\ aliasAccount' = [aliasAccount EXCEPT ![h] = [inbox |-> n, address |-> u]]
        /\ \A v \in Users : account'[v].alias = IF v = u THEN n ELSE account[v].alias

Messages ==
    \E u, v \in Users, c \in ChatIds :
        /\ chat' = [chat EXCEPT ![c] = @ \cup {<<u, v>>}]
        /\ ChatsSet(u, v, c)

Stakes ==
    /\ UNCHANGED legacyVars
    /\ \E u \in Users, x \in {required, 0} :
          /\ x = 0 => account[u].request # 0
                      /\ account[u].request + 2 * RewardInterval <= now' + Lag
          /\ \A v \in Users :
                /\ account'[v].stake = IF v = u THEN x ELSE account[v].stake
                /\ account'[v].request = account[v].request \/ account'[v].request = 0
Requests ==
    /\ UNCHANGED <<required, node, rewards>> /\ paidSince' \subseteq paidSince
    /\ \A u \in Users : /\ account'[u].stake = account[u].stake
                        /\ account'[u].request = account[u].request \/ u \notin paidSince'
Rewards ==
    /\ required' = required
    /\ \E n, m \in Nodes, b \in Nat :
          /\ RewardDue(n, m, now')
          /\ node' = [node EXCEPT ![n].balance = b, ![n].rewardTime = now']
          /\ rewards' = [rewards EXCEPT ![n] = @ + 1]
    /\ paidSince' \subseteq Users
    /\ \A u \in Users :
          /\ account'[u].stake = account[u].stake
          /\ account'[u].request = account[u].request \/ account'[u].request = 0
          /\ u \in paidSince' => u \in paidSince \/ account'[u].request = 0
Rotates ==
    /\ StakeFieldsKept /\ UNCHANGED <<rewards, paidSince>>
    /\ \/ required' = required
          /\ \E n \in Nodes, active \in Nat : node' = [node EXCEPT ![n].active = active]
       \/ required' \in StakeLevels /\ node' = node
StakeSteps == Stakes \/ Requests \/ Rewards \/ Rotates

Plain == AliasKept /\ ChatKept /\ StakeKept

Kinds ==
    \/ Plain
    \/ Registers /\ ChatKept /\ StakeKept
    \/ Messages /\ AliasKept /\ StakeKept
    \/ StakeSteps /\ AliasKept /\ ChatKept

\* The rest of the state.
Books(s, m, b, o) == s \in [Users -> Nat] /\ m \in Int /\ b \in Int /\ o \in BOOLEAN

-------------------------------------------------------------------------------
\* The intervals of all rewards of a node fit in the time up to its last one.
Timed ==
    \A n \in Nodes :
        /\ node[n].rewardTime <= now
        /\ node[n].rewardTime = 0 => rewards[n] = 0
        /\ node[n].rewardTime > 0 => rewards[n] * RewardInterval <= node[n].rewardTime - 1
\* Who was paid since his last request has none.
Quiet == \A u \in paidSince : account[u].request = 0
\* Who is named in an alias account is named there with an alias.
Named == \A h \in AliasHashes : aliasAccount[h].address # None => aliasAccount[h].inbox # None

\* The inductive invariant.
IInv == /\ UsersTypeOK /\ LegacyTypeOK /\ Fine(account, now)
        /\ AliasAccountIsTrue /\ Named /\ ChatIsShared
        /\ Timed /\ Quiet

-------------------------------------------------------------------------------
LEMMA SameKept ==
    ASSUME Same(account', account), UNCHANGED <<socialVars, legacyVars>>
    PROVE  Plain
BY DEF Same, Plain, AliasKept, ChatKept, StakeKept, StakeFieldsKept, socialVars

LEMMA UnchangedKept ==
    ASSUME account' = account, UNCHANGED <<socialVars, legacyVars>>
    PROVE  Plain
BY DEF Plain, AliasKept, ChatKept, StakeKept, StakeFieldsKept, socialVars

\* The transactions of users.
LEMMA UserTxKinds ==
    ASSUME IInv, NEW t \in Nat, now <= t, UserTx(t), UNCHANGED legacyVars
    PROVE  /\ Fine(account', t) /\ burnt' >= burnt /\ Kinds
           /\ Books(snapshot', minted', burnt', torn')
<1>1. /\ Fine(account, t) /\ burnt \in Int /\ minted \in Int /\ torn \in BOOLEAN
      /\ snapshot \in [Users -> Nat]
      /\ now \in Nat
    BY LaterFine DEF IInv, UsersTypeOK
<1>2. burnt >= burnt
    BY <1>1
<1>3. ASSUME NEW u \in Users, NEW x \in Amounts, CreateTx(u, x, t)
      PROVE  /\ Fine(account', t) /\ burnt' >= burnt /\ Kinds
             /\ Books(snapshot', minted', burnt', torn')
    <2>1. Fine(account', t) /\ Same(account', account)
        BY <1>1, <1>3, CreateKeeps
    <2>2. UNCHANGED <<snapshot, socialVars, burnt, torn>>
        BY <1>3 DEF CreateTx
    <2>3. minted' \in Int
        <3>1. x \in Nat /\ FirstBalance \in Nat
            BY AmountsAssumption
        <3>2. Issued(u) \in Nat
            BY <3>1 DEF Issued
        <3>. QED  BY <1>1, <1>3, <3>1, <3>2 DEF CreateTx
    <2>4. Plain
        BY <2>1, <2>2, SameKept
    <2>. QED  BY <1>1, <1>2, <2>1, <2>2, <2>3, <2>4 DEF Kinds, Books
<1>4. ASSUME NEW u \in Users, NEW n \in Names, NEW h \in AliasHashes, RegisterTx(u, n, h, t)
      PROVE  /\ Fine(account', t) /\ burnt' >= burnt /\ Kinds
             /\ Books(snapshot', minted', burnt', torn')
    <2>1. /\ Fine(account', t)
          /\ \A v \in Users : /\ account'[v].alias = IF v = u THEN n ELSE account[v].alias
                              /\ account'[v].chats = account[v].chats
                              /\ account'[v].stake = account[v].stake
                              /\ account'[v].request = account[v].request
                              /\ account'[v].verified = account[v].verified
        BY <1>1, <1>4, RegisterKeeps
    <2>2. /\ UNCHANGED <<snapshot, chat, burnt, torn>>
          /\ account[u].alias = None
          /\ aliasAccount' = [aliasAccount EXCEPT ![h] = [inbox |-> n, address |-> u]]
        BY <1>4 DEF RegisterTx, HasNoAlias, Entry
    <2>3. minted' \in Int
        <3>1. Issued(u) \in Nat
            BY AmountsAssumption DEF Issued
        <3>. QED  BY <1>1, <1>4, <3>1 DEF RegisterTx
    <2>4. Registers
        BY <2>1, <2>2 DEF Registers
    <2>5. ChatKept /\ StakeKept
        BY <2>1, <2>2 DEF ChatKept, StakeKept, StakeFieldsKept
    <2>. QED  BY <1>1, <1>2, <2>1, <2>2, <2>3, <2>4, <2>5 DEF Kinds, Books
<1>5. ASSUME NEW u \in Users, NEW v \in Users, NEW x \in Amounts, TransferTx(u, v, x, t)
      PROVE  /\ Fine(account', t) /\ burnt' >= burnt /\ Kinds
             /\ Books(snapshot', minted', burnt', torn')
    <2>1. Fine(account', t) /\ Same(account', account) /\ burnt' \in Int /\ burnt' >= burnt
        BY <1>1, <1>5, TransferKeeps
    <2>2. UNCHANGED <<snapshot, socialVars, minted, torn>>
        BY <1>5 DEF TransferTx
    <2>3. Plain
        BY <2>1, <2>2, SameKept
    <2>. QED  BY <1>1, <2>1, <2>2, <2>3 DEF Kinds, Books
<1>6. ASSUME NEW u \in Users, NEW v \in Users, NEW c \in ChatIds, MessageTx(u, v, c, t)
      PROVE  /\ Fine(account', t) /\ burnt' >= burnt /\ Kinds
             /\ Books(snapshot', minted', burnt', torn')
    <2>1. /\ Fine(account', t) /\ burnt' \in Int /\ burnt' >= burnt
          /\ \A w \in Users : /\ account'[w].alias = account[w].alias
                              /\ account'[w].stake = account[w].stake
                              /\ account'[w].request = account[w].request
                              /\ account'[w].verified = account[w].verified
          /\ ChatsSet(u, v, c)
        BY <1>1, <1>6, MessageKeeps
    <2>2. /\ UNCHANGED <<snapshot, aliasAccount, minted, torn>>
          /\ chat' = [chat EXCEPT ![c] = @ \cup {<<u, v>>}]
        BY <1>6 DEF MessageTx
    <2>3. Messages
        BY <2>1, <2>2 DEF Messages
    <2>4. AliasKept /\ StakeKept
        BY <2>1, <2>2 DEF AliasKept, StakeKept, StakeFieldsKept
    <2>. QED  BY <1>1, <2>1, <2>2, <2>3, <2>4 DEF Kinds, Books
<1>7. ASSUME NEW u \in Users, NEW x \in Tolls, TollTx(u, x, t)
      PROVE  /\ Fine(account', t) /\ burnt' >= burnt /\ Kinds
             /\ Books(snapshot', minted', burnt', torn')
    <2>1. Fine(account', t) /\ Same(account', account) /\ burnt' \in Int /\ burnt' >= burnt
        BY <1>1, <1>7, TollKeeps
    <2>2. UNCHANGED <<snapshot, socialVars, minted, torn>>
        BY <1>7 DEF TollTx
    <2>3. Plain
        BY <2>1, <2>2, SameKept
    <2>. QED  BY <1>1, <2>1, <2>2, <2>3 DEF Kinds, Books
<1>8. ASSUME NEW u \in Users, NEW v \in Users, NEW blank \in BOOLEAN, FriendTx(u, v, blank, t)
      PROVE  /\ Fine(account', t) /\ burnt' >= burnt /\ Kinds
             /\ Books(snapshot', minted', burnt', torn')
    <2>1. Fine(account', t) /\ Same(account', account) /\ burnt' \in Int /\ burnt' >= burnt
        BY <1>1, <1>8, FriendKeeps
    <2>2. UNCHANGED <<snapshot, socialVars, minted, torn>>
        BY <1>8 DEF FriendTx
    <2>3. Plain
        BY <2>1, <2>2, SameKept
    <2>. QED  BY <1>1, <2>1, <2>2, <2>3 DEF Kinds, Books
<1>9. ASSUME NEW u \in Users, NEW v \in Users, RemoveFriendTx(u, v, t)
      PROVE  /\ Fine(account', t) /\ burnt' >= burnt /\ Kinds
             /\ Books(snapshot', minted', burnt', torn')
    <2>1. Fine(account', t) /\ Same(account', account)
        BY <1>1, <1>9, RemoveFriendKeeps
    <2>2. UNCHANGED <<snapshot, socialVars, minted, burnt, torn>>
        BY <1>9 DEF RemoveFriendTx, bookVars
    <2>3. Plain
        BY <2>1, <2>2, SameKept
    <2>. QED  BY <1>1, <1>2, <2>1, <2>2, <2>3 DEF Kinds, Books
<1>10. ASSUME NEW u \in Users, NEW to \in SUBSET Users, NEW x \in Amounts,
              DistributeTx(u, to, x, t)
       PROVE  /\ Fine(account', t) /\ burnt' >= burnt /\ Kinds
              /\ Books(snapshot', minted', burnt', torn')
    <2>1. Fine(account', t) /\ Same(account', account) /\ burnt' \in Int /\ burnt' >= burnt
        BY <1>1, <1>10, DistributeKeeps
    <2>2. UNCHANGED <<snapshot, socialVars, minted>>
        BY <1>10 DEF DistributeTx
    <2>3. torn' \in BOOLEAN
        BY <1>10 DEF DistributeTx
    <2>4. Plain
        BY <2>1, <2>2, SameKept
    <2>. QED  BY <1>1, <2>1, <2>2, <2>3, <2>4 DEF Kinds, Books
<1>11. ASSUME NEW u \in Users, NEW code \in Codes, GossipEmailHashTx(u, code, t)
       PROVE  /\ Fine(account', t) /\ burnt' >= burnt /\ Kinds
              /\ Books(snapshot', minted', burnt', torn')
    <2>1. /\ Fine(account', t)
          /\ \A v \in Users : /\ account'[v].alias = account[v].alias
                              /\ account'[v].chats = account[v].chats
                              /\ account'[v].stake = account[v].stake
                              /\ account'[v].request = account[v].request
        BY <1>1, <1>11, GossipKeeps
    <2>2. UNCHANGED <<snapshot, aliasAccount, chat, minted, burnt, torn>>
        BY <1>11 DEF GossipEmailHashTx, socialVars, bookVars
    <2>3. Plain
        BY <2>1, <2>2 DEF Plain, AliasKept, ChatKept, StakeKept, StakeFieldsKept
    <2>. QED  BY <1>1, <1>2, <2>1, <2>2, <2>3 DEF Kinds, Books
<1>12. ASSUME NEW u \in Users, NEW code \in Codes, VerifyTx(u, code, t)
       PROVE  /\ Fine(account', t) /\ burnt' >= burnt /\ Kinds
              /\ Books(snapshot', minted', burnt', torn')
    <2>1. /\ Fine(account', t)
          /\ \A v \in Users : /\ account'[v].alias = account[v].alias
                              /\ account'[v].chats = account[v].chats
                              /\ account'[v].stake = account[v].stake
                              /\ account'[v].request = account[v].request
        BY <1>1, <1>12, VerifyKeeps
    <2>2. /\ UNCHANGED <<snapshot, aliasAccount, chat, burnt, torn>>
          /\ minted' = minted + Faucet
        BY <1>12 DEF VerifyTx, socialVars
    <2>3. minted' \in Int
        BY <1>1, <2>2, AmountsAssumption
    <2>4. Plain
        BY <2>1, <2>2 DEF Plain, AliasKept, ChatKept, StakeKept, StakeFieldsKept
    <2>. QED  BY <1>1, <1>2, <2>1, <2>2, <2>3, <2>4 DEF Kinds, Books
<1>13. ASSUME NEW u \in Users, NEW h \in Holdings, SnapshotTx(u, h, t)
       PROVE  /\ Fine(account', t) /\ burnt' >= burnt /\ Kinds
              /\ Books(snapshot', minted', burnt', torn')
    <2>1. UNCHANGED <<account, socialVars, minted, burnt, torn>> /\ snapshot' = h
        BY <1>13 DEF SnapshotTx, bookVars
    <2>2. h \in [Users -> Nat]
        BY AmountsAssumption
    <2>3. Plain
        BY <2>1, UnchangedKept
    <2>. QED  BY <1>1, <1>2, <2>1, <2>2, <2>3 DEF Kinds, Books
<1>14. ASSUME NEW u \in Users, SnapshotClaimTx(u, t)
       PROVE  /\ Fine(account', t) /\ burnt' >= burnt /\ Kinds
              /\ Books(snapshot', minted', burnt', torn')
    <2>1. Fine(account', t) /\ Same(account', account)
        BY <1>1, <1>14, SnapshotClaimKeeps
    <2>2. /\ UNCHANGED <<socialVars, burnt, torn>>
          /\ snapshot' = [snapshot EXCEPT ![u] = 0] /\ minted' = minted + snapshot[u]
        BY <1>14 DEF SnapshotClaimTx
    <2>3. snapshot' \in [Users -> Nat] /\ minted' \in Int
        BY <1>1, <2>2
    <2>4. Plain
        BY <2>1, <2>2, SameKept
    <2>. QED  BY <1>1, <1>2, <2>1, <2>2, <2>3, <2>4 DEF Kinds, Books
<1>. QED  BY <1>3, <1>4, <1>5, <1>6, <1>7, <1>8, <1>9, <1>10, <1>11, <1>12, <1>13,
             <1>14 DEF UserTx

\* The transactions of legacy staking.
LEMMA LegacyTxKinds ==
    ASSUME IInv, NEW t \in Nat, now <= t, now' = t, LegacyTx(t)
    PROVE  /\ Fine(account', t) /\ burnt' >= burnt /\ Kinds
           /\ Books(snapshot', minted', burnt', torn')
<1>1. /\ Fine(account, t) /\ burnt \in Int /\ minted \in Int /\ torn \in BOOLEAN
      /\ snapshot \in [Users -> Nat] /\ required \in StakeLevels /\ now \in Nat
      /\ node \in [Nodes -> [balance : Nat, rewardTime : Nat, active : Nat]]
      /\ paidSince \subseteq Users
    BY LaterFine DEF IInv, UsersTypeOK, LegacyTypeOK
<1>2. burnt >= burnt /\ Lag \in Nat /\ RewardInterval \in Nat /\ required \in Nat \ {0}
    BY <1>1, LegacyAssumption
<1>3. ASSUME NEW u \in Users, StakeTx(u, t)
      PROVE  /\ Fine(account', t) /\ burnt' >= burnt /\ Kinds
             /\ Books(snapshot', minted', burnt', torn')
    <2>1. /\ Fine(account', t) /\ SameButStake(account', account)
          /\ burnt' \in Int /\ burnt' >= burnt
          /\ \A v \in Users :
                /\ account'[v].request = account[v].request
                /\ account'[v].stake = IF v = u THEN required ELSE account[v].stake
        BY <1>1, <1>3, StakeKeeps
    <2>2. UNCHANGED <<snapshot, aliasAccount, chat, minted, torn, legacyVars>>
        BY <1>3 DEF StakeTx, socialVars
    <2>3. Stakes
        BY <1>2, <2>1, <2>2 DEF Stakes
    <2>4. AliasKept /\ ChatKept
        BY <2>1, <2>2 DEF AliasKept, ChatKept, SameButStake
    <2>. QED  BY <1>1, <2>1, <2>2, <2>3, <2>4 DEF Kinds, Books, StakeSteps
<1>4. ASSUME NEW u \in Users, NEW clock \in t .. t + Lag, RemoveStakeRequestTx(u, clock, t)
      PROVE  /\ Fine(account', t) /\ burnt' >= burnt /\ Kinds
             /\ Books(snapshot', minted', burnt', torn')
    <2>0. clock \in Nat
        BY <1>2
    <2>1. /\ Fine(account', t) /\ SameButStake(account', account)
          /\ \A v \in Users :
                /\ account'[v].stake = account[v].stake
                /\ account'[v].request = account[v].request \/ (v = u /\ u \notin paidSince')
          /\ paidSince' \subseteq paidSince
        BY <1>1, <1>4, <2>0, RemoveStakeRequestKeeps
    <2>2. UNCHANGED <<snapshot, aliasAccount, chat, minted, burnt, torn, required, node, rewards>>
        BY <1>4 DEF RemoveStakeRequestTx, socialVars, bookVars
    <2>3. Requests
        BY <2>1, <2>2 DEF Requests
    <2>4. AliasKept /\ ChatKept
        BY <2>1, <2>2 DEF AliasKept, ChatKept, SameButStake
    <2>. QED  BY <1>1, <1>2, <2>1, <2>2, <2>3, <2>4 DEF Kinds, Books, StakeSteps
<1>5. ASSUME NEW u \in Users, NEW clock \in t .. t + Lag, RemoveStakeTx(u, clock, t)
      PROVE  /\ Fine(account', t) /\ burnt' >= burnt /\ Kinds
             /\ Books(snapshot', minted', burnt', torn')
    <2>0. clock \in Nat /\ clock <= t + Lag
        BY <1>2
    <2>1. /\ Fine(account', t) /\ SameButStake(account', account)
          /\ burnt' \in Int /\ burnt' >= burnt
          /\ \A v \in Users :
                /\ account'[v].request = IF v = u THEN 0 ELSE account[v].request
                /\ account'[v].stake = IF v = u THEN 0 ELSE account[v].stake
        BY <1>1, <1>5, <2>0, RemoveStakeKeeps
    <2>2. /\ UNCHANGED <<snapshot, aliasAccount, chat, minted, torn, legacyVars>>
          /\ account[u].request # 0 /\ account[u].request + 2 * RewardInterval <= clock
        BY <1>5 DEF RemoveStakeTx, socialVars
    <2>3. account[u].request \in Nat
        BY <1>1 DEF Fine, Account
    <2>4. account[u].request + 2 * RewardInterval <= now' + Lag
        BY <1>2, <2>0, <2>2, <2>3
    <2>5. Stakes
        BY <2>1, <2>2, <2>4 DEF Stakes
    <2>6. AliasKept /\ ChatKept
        BY <2>1, <2>2 DEF AliasKept, ChatKept, SameButStake
    <2>. QED  BY <1>1, <2>1, <2>2, <2>5, <2>6 DEF Kinds, Books, StakeSteps
<1>6. ASSUME NEW n \in Nodes, NEW m \in Nodes, NodeKeepsReward(n, m, t)
      PROVE  /\ Fine(account', t) /\ burnt' >= burnt /\ Kinds
             /\ Books(snapshot', minted', burnt', torn')
    <2>1. /\ UNCHANGED <<account, snapshot, aliasAccount, chat, burnt, torn, required, paidSince>>
          /\ RewardDue(n, m, t) /\ minted' = minted + RewardAmount
          /\ rewards' = [rewards EXCEPT ![n] = @ + 1]
          /\ node' = [node EXCEPT ![n].balance = @ + RewardAmount, ![n].rewardTime = t]
        BY <1>6 DEF NodeKeepsReward, socialVars
    <2>2. RewardAmount \in Nat /\ node[n].balance + RewardAmount \in Nat
        BY <1>1, LegacyAssumption
    <2>3. node' = [node EXCEPT ![n].balance = node[n].balance + RewardAmount, ![n].rewardTime = t]
        BY <1>1, <2>1
    <2>4. Rewards
        BY <1>1, <2>1, <2>2, <2>3 DEF Rewards
    <2>5. AliasKept /\ ChatKept
        BY <2>1 DEF AliasKept, ChatKept
    <2>. QED  BY <1>1, <1>2, <2>1, <2>2, <2>4, <2>5 DEF Kinds, Books, StakeSteps
<1>7. ASSUME NEW n \in Nodes, NEW m \in Nodes, NEW u \in Users, NodePaysStaker(n, m, u, t)
      PROVE  /\ Fine(account', t) /\ burnt' >= burnt /\ Kinds
             /\ Books(snapshot', minted', burnt', torn')
    <2>1. /\ Fine(account', t) /\ SameButStake(account', account)
          /\ \A v \in Users :
                /\ account'[v].request = IF v = u THEN 0 ELSE account[v].request
                /\ account'[v].stake = account[v].stake
        BY <1>1, <1>7, NodePaysStakerKeeps
    <2>2. /\ UNCHANGED <<snapshot, aliasAccount, chat, burnt, torn, required>>
          /\ RewardDue(n, m, t) /\ minted' = minted + RewardAmount
          /\ rewards' = [rewards EXCEPT ![n] = @ + 1]
          /\ node' = [node EXCEPT ![n].balance = 0, ![n].rewardTime = t]
          /\ paidSince' = paidSince \cup {u}
        BY <1>7 DEF NodePaysStaker, socialVars
    <2>3. RewardAmount \in Nat
        BY LegacyAssumption
    <2>4. Rewards
        BY <1>1, <2>1, <2>2 DEF Rewards
    <2>5. AliasKept /\ ChatKept
        BY <2>1, <2>2 DEF AliasKept, ChatKept, SameButStake
    <2>. QED  BY <1>1, <1>2, <2>1, <2>2, <2>3, <2>4, <2>5 DEF Kinds, Books, StakeSteps
<1>8. ASSUME NEW n \in Nodes, NEW active \in {0, t}, NodeRotates(n, active)
      PROVE  /\ Fine(account', t) /\ burnt' >= burnt /\ Kinds
             /\ Books(snapshot', minted', burnt', torn')
    <2>1. /\ UNCHANGED <<account, snapshot, aliasAccount, chat, minted, burnt, torn, required,
                         rewards, paidSince>>
          /\ node' = [node EXCEPT ![n].active = active]
        BY <1>8 DEF NodeRotates, socialVars, bookVars
    <2>2. Rotates
        BY <2>1 DEF Rotates, StakeFieldsKept
    <2>3. AliasKept /\ ChatKept
        BY <2>1 DEF AliasKept, ChatKept
    <2>. QED  BY <1>1, <1>2, <2>1, <2>2, <2>3 DEF Kinds, Books, StakeSteps
<1>9. ASSUME NEW level \in StakeLevels, StakeRequirementChanges(level)
      PROVE  /\ Fine(account', t) /\ burnt' >= burnt /\ Kinds
             /\ Books(snapshot', minted', burnt', torn')
    <2>1. /\ UNCHANGED <<account, snapshot, aliasAccount, chat, minted, burnt, torn, node,
                         rewards, paidSince>>
          /\ required' = level
        BY <1>9 DEF StakeRequirementChanges, socialVars, bookVars
    <2>2. Rotates
        BY <2>1 DEF Rotates, StakeFieldsKept
    <2>3. AliasKept /\ ChatKept
        BY <2>1 DEF AliasKept, ChatKept
    <2>. QED  BY <1>1, <1>2, <2>1, <2>2, <2>3 DEF Kinds, Books, StakeSteps
<1>. QED  BY <1>3, <1>4, <1>5, <1>6, <1>7, <1>8, <1>9 DEF LegacyTx

\* The changes of the configuration touch accounts only to create one for the sender.
LEMMA ConfigTxKinds ==
    ASSUME IInv, NEW t \in Nat, now <= t, ConfigTx(t), UNCHANGED legacyVars
    PROVE  /\ Fine(account', t) /\ burnt' >= burnt /\ Kinds
           /\ Books(snapshot', minted', burnt', torn')
<1>1. /\ Fine(account, t) /\ burnt \in Int /\ minted \in Int /\ torn \in BOOLEAN
      /\ snapshot \in [Users -> Nat] /\ burnt >= burnt
    BY LaterFine DEF IInv, UsersTypeOK
<1>2. UNCHANGED <<snapshot, socialVars, minted, burnt, torn>>
    BY DEF ConfigTx, ChangeConfigTx, ApplyChangeConfigTx, PruneNetworkChangeQueue, NextCycle,
           bookVars
<1>3. CASE account' = account
    BY <1>1, <1>2, <1>3, UnchangedKept DEF Kinds, Books
<1>4. ASSUME NEW u \in Users, NEW c \in Cycles, NEW paths \in SUBSET Paths \ {{}},
             ChangeConfigTx(u, c, paths, t)
      PROVE  Fine(account', t) /\ Same(account', account)
    <2>. DEFINE here == IF account[u].kind = "none"
                        THEN [account EXCEPT ![u] = NewNode] ELSE account
    <2>1. Commit(Stamped(here, {u}, t), t)
        BY <1>4 DEF ChangeConfigTx
    <2>2. Fine(here, t) /\ Same(here, account) /\ here[u].kind # "none"
        BY <1>1, NewNodeFine
    <2>. HIDE DEF here
    <2>3. {u} \in SUBSET Users /\ \A w \in {u} : here[w].kind # "none"
        BY <2>2
    <2>4. Fine(here, t) /\ Same(here, account)
        BY <2>2
    <2>. QED  BY <1>1, <2>1, <2>3, <2>4, StoreFine
<1>5. CASE Fine(account', t) /\ Same(account', account)
    BY <1>1, <1>2, <1>5, SameKept DEF Kinds, Books
<1>. QED  BY <1>3, <1>4, <1>5 DEF ConfigTx, ApplyChangeConfigTx, PruneNetworkChangeQueue, NextCycle

\* What is common to all steps.
LEMMA NextKinds ==
    ASSUME IInv, Next
    PROVE  /\ now' \in Nat /\ now <= now' /\ mix' = mix
           /\ Fine(account', now') /\ burnt' >= burnt /\ Kinds
           /\ Books(snapshot', minted', burnt', torn')
<1>1. PICK t \in now .. now + MaxStep :
          /\ At(t)
          /\ \/ UserTx(t) /\ UNCHANGED <<legacyVars, configVars>>
             \/ LegacyTx(t) /\ UNCHANGED configVars
             \/ ConfigTx(t) /\ UNCHANGED legacyVars
    BY DEF Next
<1>2. now \in Nat /\ MaxStep \in Nat
    BY BoundsAssumption DEF IInv, UsersTypeOK
<1>3. t \in Nat /\ now <= t /\ now' = t /\ mix' = mix
    BY <1>1, <1>2 DEF At
<1>4. CASE UserTx(t) /\ UNCHANGED legacyVars  BY <1>3, <1>4, UserTxKinds
<1>5. CASE LegacyTx(t)  BY <1>3, <1>5, LegacyTxKinds
<1>6. CASE ConfigTx(t) /\ UNCHANGED legacyVars  BY <1>3, <1>6, ConfigTxKinds
<1>. QED  BY <1>1, <1>4, <1>5, <1>6

-------------------------------------------------------------------------------
(* The parts of the invariant, one after the other.                            *)

LEMMA InitIInv == Init => IInv
<1>. SUFFICES ASSUME Init PROVE IInv
    OBVIOUS
<1>. USE DEF Init, UserInit, LegacyInit
<1>1. /\ NoAccount \in Account /\ NoAccount.stamp = 0 /\ NoAccount.balance = 0
      /\ NoAccount.request = 0 /\ NoAccount.alias = None /\ NoAccount.verified = 0
      /\ \A v \in Users : NoAccount.chats[v] = None
    BY NoneAssumption DEF NoAccount, Account, Codes, Unverified
<1>2. Fine(account, now)
    BY <1>1 DEF Fine
<1>3. UsersTypeOK
    <2>1. account \in [Users -> Account] /\ \A u \in Users : account[u].stamp \in 0 .. now
        BY <1>2 DEF Fine
    <2>2. /\ now \in Nat \ {0} /\ mix \in Mixes /\ minted \in Int /\ burnt \in Int
          /\ torn \in BOOLEAN
        <3>1. torn = FALSE
            OBVIOUS
        <3>2. torn \in BOOLEAN
            BY <3>1, Zenon
        <3>. QED  BY <3>2
    <2>3. /\ aliasAccount \in [AliasHashes -> [inbox : Names \cup {None},
                                               address : Users \cup {None}]]
          /\ chat \in [ChatIds -> SUBSET (Users \X Users)]
          /\ snapshot \in [Users -> Nat]
        OBVIOUS
    <2>. QED  BY <2>1, <2>2, <2>3 DEF UsersTypeOK
<1>4. LegacyTypeOK
    BY <1>2 DEF LegacyTypeOK, Fine
<1>5. AliasAccountIsTrue /\ Named
    BY <1>1 DEF AliasAccountIsTrue, Named
<1>6. ChatIsShared
    BY <1>1 DEF ChatIsShared
<1>7. Timed
    BY DEF Timed
<1>8. Quiet
    BY DEF Quiet
<1>. QED  BY <1>2, <1>3, <1>4, <1>5, <1>6, <1>7, <1>8 DEF IInv

\* Who registers has no alias: no alias account names him yet.
LEMMA AliasStep ==
    ASSUME AliasAccountIsTrue, Named, UsersTypeOK, AliasKept \/ Registers
    PROVE  AliasAccountIsTrue' /\ Named'
<1>0. aliasAccount \in [AliasHashes -> [inbox : Names \cup {None}, address : Users \cup {None}]]
    BY DEF UsersTypeOK
<1>1. CASE AliasKept
    BY <1>0, <1>1 DEF AliasAccountIsTrue, Named, AliasKept
<1>2. CASE Registers
    <2>1. PICK u \in Users, n \in Names, h \in AliasHashes :
              /\ account[u].alias = None
              /\ aliasAccount' = [aliasAccount EXCEPT ![h] = [inbox |-> n, address |-> u]]
              /\ \A v \in Users : account'[v].alias = IF v = u THEN n ELSE account[v].alias
        BY <1>2 DEF Registers
    <2>2. ASSUME NEW g \in AliasHashes, aliasAccount'[g].address # None
          PROVE  /\ aliasAccount'[g].inbox # None
                 /\ account'[aliasAccount'[g].address].alias = aliasAccount'[g].inbox
        <3>1. CASE g = h
            <4>1. aliasAccount'[g] = [inbox |-> n, address |-> u]
                BY <1>0, <2>1, <3>1
            <4>. QED  BY <2>1, <4>1, NoneAssumption
        <3>2. CASE g # h
            <4>1. aliasAccount'[g] = aliasAccount[g]
                BY <1>0, <2>1, <3>2
            <4>2. /\ aliasAccount[g].address \in Users /\ aliasAccount[g].inbox # None
                  /\ account[aliasAccount[g].address].alias = aliasAccount[g].inbox
                BY <1>0, <2>2, <4>1 DEF AliasAccountIsTrue, Named
            <4>3. aliasAccount[g].address # u
                BY <2>1, <4>2
            <4>. QED  BY <2>1, <4>1, <4>2, <4>3
        <3>. QED  BY <3>1, <3>2
    <2>. QED  BY <2>2 DEF AliasAccountIsTrue, Named
<1>. QED  BY <1>1, <1>2

LEMMA ChatStep ==
    ASSUME ChatIsShared, UsersTypeOK, ChatKept \/ Messages
    PROVE  ChatIsShared' /\ chat' \in [ChatIds -> SUBSET (Users \X Users)]
<1>1. CASE ChatKept
    BY <1>1 DEF ChatIsShared, ChatKept, UsersTypeOK
<1>2. CASE Messages
    <2>1. PICK u \in Users, v \in Users, c \in ChatIds :
              chat' = [chat EXCEPT ![c] = @ \cup {<<u, v>>}] /\ ChatsSet(u, v, c)
        BY <1>2 DEF Messages
    <2>2. /\ chat \in [ChatIds -> SUBSET (Users \X Users)]
          /\ chat' \in [ChatIds -> SUBSET (Users \X Users)]
          /\ <<u, v>> \in chat'[c] /\ \A d \in ChatIds : chat[d] \subseteq chat'[d]
        BY <2>1 DEF UsersTypeOK
    <2>3. ASSUME NEW w \in Users, NEW z \in Users
          PROVE  LET d == account'[w].chats[z]
                 IN  /\ d = account'[z].chats[w]
                     /\ d # None => (<<w, z>> \in chat'[d] \/ <<z, w>> \in chat'[d])
        <3>1. /\ account[w].chats[z] = account[z].chats[w]
              /\ account[w].chats[z] # None =>
                    \/ <<w, z>> \in chat[account[w].chats[z]]
                    \/ <<z, w>> \in chat[account[w].chats[z]]
            BY DEF ChatIsShared
        <3>2. account[w].chats[z] \in ChatIds \cup {None}
            BY DEF UsersTypeOK, Account
        <3>3. /\ account'[w].chats[z] =
                    IF {w, z} = {u, v} /\ account[w].chats[z] = None THEN c
                                                                     ELSE account[w].chats[z]
              /\ account'[z].chats[w] =
                    IF {z, w} = {u, v} /\ account[z].chats[w] = None THEN c
                                                                     ELSE account[z].chats[w]
            BY <2>1 DEF ChatsSet
        <3>4. account'[w].chats[z] = account'[z].chats[w]
            BY <3>1, <3>3
        <3>5. CASE {w, z} = {u, v} /\ account[w].chats[z] = None
            <4>1. account'[w].chats[z] = c
                BY <3>3, <3>5
            <4>2. (w = u /\ z = v) \/ (w = v /\ z = u)
                BY <3>5
            <4>. QED  BY <2>2, <3>4, <4>1, <4>2
        <3>6. CASE ~({w, z} = {u, v} /\ account[w].chats[z] = None)
            <4>1. account'[w].chats[z] = account[w].chats[z]
                BY <3>3, <3>6
            <4>. QED  BY <2>2, <3>1, <3>2, <3>4, <4>1
        <3>. QED  BY <3>5, <3>6
    <2>. QED  BY <2>2, <2>3 DEF ChatIsShared
<1>. QED  BY <1>1, <1>2

LEMMA OneMore ==
    ASSUME NEW k \in Nat, NEW interval \in Nat, NEW first \in Nat, NEW last \in Nat, NEW t \in Nat,
           first > 0, t - first >= interval, last = 0 \/ t - last >= interval,
           last = 0 => k = 0, last > 0 => k * interval <= last - 1
    PROVE  (k + 1) * interval <= t - 1
<1>1. k * interval \in Nat /\ (k + 1) * interval = k * interval + interval
    OBVIOUS
<1>2. CASE last = 0
    <2>1. k * interval = 0
        BY <1>2
    <2>. QED  BY <1>1, <1>2, <2>1
<1>3. CASE last > 0
    <2>. DEFINE p == k * interval
    <2>1. p \in Nat /\ p <= last - 1
        BY <1>1, <1>3
    <2>. HIDE DEF p
    <2>2. p + interval <= t - 1
        BY <1>3, <2>1
    <2>. QED  BY <1>1, <2>2 DEF p
<1>. QED  BY <1>2, <1>3

\* A reward that is due comes an interval after the last one, or after the node's
\* first activity.
LEMMA TimedStep ==
    ASSUME Timed, LegacyTypeOK, now \in Nat \ {0}, now' \in Nat, now <= now', Kinds
    PROVE  /\ Timed'
           /\ node' \in [Nodes -> [balance : Nat, rewardTime : Nat, active : Nat]]
           /\ rewards' \in [Nodes -> Nat] /\ required' \in StakeLevels
<1>1. /\ node \in [Nodes -> [balance : Nat, rewardTime : Nat, active : Nat]]
      /\ rewards \in [Nodes -> Nat] /\ required \in StakeLevels
      /\ RewardInterval \in Nat
    BY LegacyAssumption DEF LegacyTypeOK
<1>2. CASE UNCHANGED <<required, node, rewards>>
    BY <1>1, <1>2 DEF Timed
<1>3. CASE Rotates
    <2>1. UNCHANGED rewards
        BY <1>3 DEF Rotates
    <2>2. CASE node' = node /\ required' \in StakeLevels
        BY <1>1, <2>1, <2>2 DEF Timed
    <2>3. ASSUME NEW n \in Nodes, NEW active \in Nat, required' = required,
                 node' = [node EXCEPT ![n].active = active]
          PROVE  /\ Timed' /\ required' \in StakeLevels
                 /\ node' \in [Nodes -> [balance : Nat, rewardTime : Nat, active : Nat]]
        <3>1. node' \in [Nodes -> [balance : Nat, rewardTime : Nat, active : Nat]]
            BY <1>1, <2>3
        <3>2. \A m \in Nodes : node'[m].rewardTime = node[m].rewardTime
            BY <1>1, <2>3
        <3>. QED  BY <1>1, <2>1, <2>3, <3>1, <3>2 DEF Timed
    <2>. QED  BY <1>1, <1>3, <2>1, <2>2, <2>3 DEF Rotates
<1>4. CASE Rewards
    <2>1. PICK n \in Nodes, l \in Nodes, b \in Nat :
              /\ RewardDue(n, l, now')
              /\ node' = [node EXCEPT ![n].balance = b, ![n].rewardTime = now']
              /\ rewards' = [rewards EXCEPT ![n] = @ + 1]
        BY <1>4 DEF Rewards
    <2>2. required' = required
        BY <1>4 DEF Rewards
    <2>3. /\ node' \in [Nodes -> [balance : Nat, rewardTime : Nat, active : Nat]]
          /\ rewards' \in [Nodes -> Nat]
        <3>. DEFINE r == [node[n] EXCEPT !.balance = b, !.rewardTime = now']
        <3>1. r \in [balance : Nat, rewardTime : Nat, active : Nat]
            BY <1>1
        <3>2. node' = [node EXCEPT ![n] = r]
            BY <2>1
        <3>. HIDE DEF r
        <3>3. node' \in [Nodes -> [balance : Nat, rewardTime : Nat, active : Nat]]
            BY <1>1, <3>1, <3>2
        <3>. QED  BY <1>1, <2>1, <3>3
    <2>4. \A m \in Nodes \ {n} : node'[m] = node[m] /\ rewards'[m] = rewards[m]
        BY <1>1, <2>1
    <2>5. node'[n].rewardTime = now' /\ rewards'[n] = rewards[n] + 1
        BY <1>1, <2>1
    <2>6. rewards'[n] * RewardInterval <= now' - 1
        <3>. DEFINE k == rewards[n]
                    last == node[n].rewardTime
                    since == node[l].active
        <3>1. /\ k \in Nat /\ last \in Nat /\ since \in Nat
              /\ since > 0 /\ now' - since >= RewardInterval
              /\ now' \in Nat /\ RewardInterval \in Nat
              /\ last = 0 \/ now' - last >= RewardInterval
              /\ last = 0 => k = 0
              /\ last > 0 => k * RewardInterval <= last - 1
            BY <1>1, <2>1 DEF RewardDue, Timed
        <3>. HIDE DEF k, last, since
        <3>2. (k + 1) * RewardInterval <= now' - 1
            BY <3>1, OneMore
        <3>. QED  BY <2>5, <3>2 DEF k
    <2>7. now' > 0
        OBVIOUS
    <2>8. \A m \in Nodes : /\ node'[m].rewardTime <= now'
                           /\ node'[m].rewardTime = 0 => rewards'[m] = 0
                           /\ node'[m].rewardTime > 0 =>
                                 rewards'[m] * RewardInterval <= node'[m].rewardTime - 1
        <3>1. \A m \in Nodes \ {n} :
                  /\ node'[m].rewardTime <= now'
                  /\ node'[m].rewardTime = 0 => rewards'[m] = 0
                  /\ node'[m].rewardTime > 0 =>
                        rewards'[m] * RewardInterval <= node'[m].rewardTime - 1
            BY <1>1, <2>4 DEF Timed
        <3>. QED  BY <2>5, <2>6, <2>7, <3>1
    <2>. QED  BY <1>1, <2>2, <2>3, <2>8 DEF Timed
<1>5. Kinds => UNCHANGED <<required, node, rewards>> \/ Rewards \/ Rotates
    BY DEF Kinds, Plain, StakeKept, StakeSteps, Stakes, Requests, legacyVars
<1>. QED  BY <1>2, <1>3, <1>4, <1>5

LEMMA QuietStep ==
    ASSUME Quiet, paidSince \subseteq Users, Kinds
    PROVE  Quiet' /\ paidSince' \subseteq Users
<1>1. CASE StakeKept
    BY <1>1 DEF Quiet, StakeKept, StakeFieldsKept, legacyVars
<1>2. CASE Stakes
    <2>1. \A u \in Users : account'[u].request = account[u].request \/ account'[u].request = 0
        BY <1>2 DEF Stakes
    <2>2. paidSince' = paidSince
        BY <1>2 DEF Stakes, legacyVars
    <2>. QED  BY <2>1, <2>2 DEF Quiet
<1>3. CASE Requests
    BY <1>3 DEF Quiet, Requests
<1>4. CASE Rewards
    BY <1>4 DEF Quiet, Rewards
<1>5. CASE Rotates
    BY <1>5 DEF Quiet, Rotates, StakeFieldsKept
<1>. QED  BY <1>1, <1>2, <1>3, <1>4, <1>5 DEF Kinds, Plain, StakeSteps

LEMMA TypesStep ==
    ASSUME IInv, Next
    PROVE  UsersTypeOK'
<1>1. /\ now' \in Nat /\ now <= now' /\ mix' = mix /\ Fine(account', now') /\ Kinds
      /\ Books(snapshot', minted', burnt', torn')
    BY NextKinds
<1>2. now' \in Nat \ {0} /\ mix' \in Mixes
    BY <1>1 DEF IInv, UsersTypeOK
<1>3. account' \in [Users -> Account] /\ \A u \in Users : account'[u].stamp \in 0 .. now'
    BY <1>1 DEF Fine
<1>4. snapshot' \in [Users -> Nat] /\ minted' \in Int /\ burnt' \in Int /\ torn' \in BOOLEAN
    BY <1>1 DEF Books
<1>5. aliasAccount' \in [AliasHashes -> [inbox : Names \cup {None}, address : Users \cup {None}]]
    <2>1. aliasAccount \in [AliasHashes -> [inbox : Names \cup {None}, address : Users \cup {None}]]
        BY DEF IInv, UsersTypeOK
    <2>2. CASE AliasKept  BY <2>1, <2>2 DEF AliasKept
    <2>3. CASE Registers  BY <2>1, <2>3 DEF Registers
    <2>. QED  BY <1>1, <2>2, <2>3 DEF Kinds, Plain
<1>6. chat' \in [ChatIds -> SUBSET (Users \X Users)]
    BY <1>1, ChatStep DEF IInv, Kinds, Plain
<1>. QED  BY <1>2, <1>3, <1>4, <1>5, <1>6 DEF UsersTypeOK

\* The invariant is inductive.
LEMMA StepIInv == IInv /\ [Next]_allVars => IInv'
<1>. SUFFICES ASSUME IInv, [Next]_allVars PROVE IInv'
    OBVIOUS
<1>1. CASE Next
    <2>1. /\ now' \in Nat /\ now <= now' /\ Fine(account', now') /\ Kinds
        BY <1>1, NextKinds
    <2>2. UsersTypeOK'
        BY <1>1, TypesStep
    <2>3. AliasAccountIsTrue' /\ Named' /\ ChatIsShared'
        BY <2>1, AliasStep, ChatStep DEF IInv, Kinds, Plain
    <2>4. now \in Nat \ {0} /\ Timed /\ Quiet /\ LegacyTypeOK /\ paidSince \subseteq Users
        BY DEF IInv, UsersTypeOK, LegacyTypeOK
    <2>5. /\ Timed' /\ rewards' \in [Nodes -> Nat] /\ required' \in StakeLevels
          /\ node' \in [Nodes -> [balance : Nat, rewardTime : Nat, active : Nat]]
        BY <2>1, <2>4, TimedStep
    <2>6. Quiet' /\ paidSince' \subseteq Users
        BY <2>1, <2>4, QuietStep
    <2>7. LegacyTypeOK'
        BY <2>1, <2>5, <2>6 DEF LegacyTypeOK, Fine
    <2>. QED  BY <2>1, <2>2, <2>3, <2>5, <2>6, <2>7 DEF IInv
<1>2. CASE UNCHANGED allVars
    <2>1. UNCHANGED <<now, mix, account, snapshot, aliasAccount, chat,
                      minted, burnt, torn, required, node, rewards, paidSince>>
        BY <1>2 DEF allVars, ledgerVars, userVars, socialVars, bookVars, legacyVars
    <2>2. UsersTypeOK' /\ LegacyTypeOK' /\ Fine(account', now')
        BY <2>1 DEF IInv, UsersTypeOK, LegacyTypeOK, Fine
    <2>3. AliasAccountIsTrue' /\ Named' /\ ChatIsShared' /\ Timed' /\ Quiet'
        BY <2>1 DEF IInv, AliasAccountIsTrue, Named, ChatIsShared, Timed, Quiet
    <2>. QED  BY <2>2, <2>3 DEF IInv
<1>. QED  BY <1>1, <1>2

LEMMA IInvHolds == Spec => []IInv
BY InitIInv, StepIInv, PTL DEF Spec

-------------------------------------------------------------------------------
(* The books.  No step but a distribute that is stored in part takes tokens   *)
(* from an account that it neither gives to another nor burns.                *)

Unpaid == Total([n \in Nodes |-> node[n].balance], Nodes)
Gained == minted' - minted
Spent == burnt' - burnt

LEMMA UnpaidChanges ==
    ASSUME LegacyTypeOK, NEW n \in Nodes,
           node' \in [Nodes -> [balance : Nat, rewardTime : Nat, active : Nat]],
           \A m \in Nodes \ {n} : node'[m].balance = node[m].balance
    PROVE  Unpaid \in Int /\ Unpaid' = Unpaid + (node'[n].balance - node[n].balance)
<1>. DEFINE f == [m \in Nodes |-> node[m].balance]
            g == [m \in Nodes |-> node'[m].balance]
<1>1. /\ \A m \in Nodes : f[m] \in Int /\ g[m] \in Int
      /\ \A m \in Nodes \ {n} : f[m] = g[m]
      /\ f[n] = node[n].balance /\ g[n] = node'[n].balance
    BY DEF LegacyTypeOK
<1>2. Unpaid = Total(f, Nodes) /\ Unpaid' = Total(g, Nodes)
    BY DEF Unpaid
<1>. HIDE DEF f, g
<1>3. Total(g, Nodes) = Total(f, Nodes) + (g[n] - f[n]) /\ Total(f, Nodes) \in Int
    BY <1>1, LegacyAssumption, TotalChanges, TotalInt
<1>. QED  BY <1>1, <1>2, <1>3

\* What a transaction of a user does to the tokens on the accounts.
LEMMA UserTxBalance ==
    ASSUME IInv, NEW t \in Nat, now <= t, UserTx(t), torn' = torn
    PROVE  Held(account') = Held(account) + Gained - Spent
<1>1. /\ Fine(account, t) /\ burnt \in Int /\ minted \in Int /\ Held(account) \in Int
      /\ snapshot \in [Users -> Nat] /\ now \in Nat
    BY LaterFine, HeldChanges DEF IInv, UsersTypeOK
<1>2. Fee \in Int /\ FirstBalance \in Int /\ Faucet \in Int
    BY AmountsAssumption
<1>. USE DEF Gained, Spent
<1>3. ASSUME NEW u \in Users, NEW x \in Amounts, CreateTx(u, x, t)
      PROVE  Held(account') = Held(account) + Gained - Spent
    <2>1. x \in Int /\ Issued(u) \in Int
        BY <1>2, AmountsAssumption DEF Issued
    <2>2. Held(account') = Held(account) + Issued(u) + x
        BY <1>1, <1>3, CreateKeeps
    <2>3. minted' = minted + Issued(u) + x /\ burnt' = burnt /\ torn' = torn
        BY <1>3 DEF CreateTx
    <2>. QED  BY <1>1, <2>1, <2>2, <2>3
<1>4. ASSUME NEW u \in Users, NEW n \in Names, NEW h \in AliasHashes, RegisterTx(u, n, h, t)
      PROVE  Held(account') = Held(account) + Gained - Spent
    <2>1. Issued(u) \in Int
        BY <1>2 DEF Issued
    <2>2. Held(account') = Held(account) + Issued(u)
        BY <1>1, <1>4, RegisterKeeps
    <2>3. minted' = minted + Issued(u) /\ burnt' = burnt /\ torn' = torn
        BY <1>4 DEF RegisterTx
    <2>. QED  BY <1>1, <2>1, <2>2, <2>3
<1>5. ASSUME NEW u \in Users, NEW v \in Users, NEW x \in Amounts, TransferTx(u, v, x, t)
      PROVE  Held(account') = Held(account) + Gained - Spent
    <2>1. Held(account') = Held(account) - (burnt' - burnt) /\ burnt' \in Int
        BY <1>1, <1>5, TransferKeeps
    <2>2. minted' = minted /\ torn' = torn
        BY <1>5 DEF TransferTx
    <2>. QED  BY <1>1, <2>1, <2>2
<1>6. ASSUME NEW u \in Users, NEW v \in Users, NEW c \in ChatIds, MessageTx(u, v, c, t)
      PROVE  Held(account') = Held(account) + Gained - Spent
    <2>1. Held(account') = Held(account) - (burnt' - burnt) /\ burnt' \in Int
        BY <1>1, <1>6, MessageKeeps
    <2>2. minted' = minted /\ torn' = torn
        BY <1>6 DEF MessageTx
    <2>. QED  BY <1>1, <2>1, <2>2
<1>7. ASSUME NEW u \in Users, NEW x \in Tolls, TollTx(u, x, t)
      PROVE  Held(account') = Held(account) + Gained - Spent
    <2>1. Held(account') = Held(account) - (burnt' - burnt) /\ burnt' \in Int
        BY <1>1, <1>7, TollKeeps
    <2>2. minted' = minted /\ torn' = torn
        BY <1>7 DEF TollTx
    <2>. QED  BY <1>1, <2>1, <2>2
<1>8. ASSUME NEW u \in Users, NEW v \in Users, NEW blank \in BOOLEAN, FriendTx(u, v, blank, t)
      PROVE  Held(account') = Held(account) + Gained - Spent
    <2>1. Held(account') = Held(account) - (burnt' - burnt) /\ burnt' \in Int
        BY <1>1, <1>8, FriendKeeps
    <2>2. minted' = minted /\ torn' = torn
        BY <1>8 DEF FriendTx
    <2>. QED  BY <1>1, <2>1, <2>2
<1>9. ASSUME NEW u \in Users, NEW v \in Users, RemoveFriendTx(u, v, t)
      PROVE  Held(account') = Held(account) + Gained - Spent
    <2>1. Held(account') = Held(account)
        BY <1>1, <1>9, RemoveFriendKeeps
    <2>2. minted' = minted /\ burnt' = burnt /\ torn' = torn
        BY <1>9 DEF RemoveFriendTx, bookVars
    <2>. QED  BY <1>1, <2>1, <2>2
<1>10. ASSUME NEW u \in Users, NEW to \in SUBSET Users, NEW x \in Amounts,
              DistributeTx(u, to, x, t)
       PROVE  Held(account') = Held(account) + Gained - Spent
    <2>1. ~torn'
        BY <1>10 DEF DistributeTx
    <2>1a. Held(account') = Held(account) - (burnt' - burnt) /\ burnt' \in Int
        BY <1>1, <1>10, <2>1, DistributeKeeps
    <2>2. minted' = minted
        BY <1>10 DEF DistributeTx
    <2>. QED  BY <1>1, <2>1a, <2>2
<1>11. CASE account' = account /\ UNCHANGED bookVars
    BY <1>1, <1>11 DEF bookVars
<1>12. ASSUME NEW u \in Users, NEW code \in Codes, GossipEmailHashTx(u, code, t)
       PROVE  Held(account') = Held(account) + Gained - Spent
    <2>1. Held(account') = Held(account)
        BY <1>1, <1>12, GossipKeeps
    <2>2. minted' = minted /\ burnt' = burnt
        BY <1>12 DEF GossipEmailHashTx, bookVars
    <2>. QED  BY <1>1, <2>1, <2>2
<1>13. ASSUME NEW u \in Users, NEW code \in Codes, VerifyTx(u, code, t)
       PROVE  Held(account') = Held(account) + Gained - Spent
    <2>1. Held(account') = Held(account) + Faucet
        BY <1>1, <1>13, VerifyKeeps
    <2>2. minted' = minted + Faucet /\ burnt' = burnt /\ torn' = torn
        BY <1>13 DEF VerifyTx
    <2>. QED  BY <1>1, <1>2, <2>1, <2>2
<1>14. ASSUME NEW u \in Users, SnapshotClaimTx(u, t)
       PROVE  Held(account') = Held(account) + Gained - Spent
    <2>1. Held(account') = Held(account) + snapshot[u]
        BY <1>1, <1>14, SnapshotClaimKeeps
    <2>2. minted' = minted + snapshot[u] /\ burnt' = burnt /\ torn' = torn
        BY <1>14 DEF SnapshotClaimTx
    <2>3. snapshot[u] \in Int
        BY <1>1
    <2>. QED  BY <1>1, <2>1, <2>2, <2>3
<1>. QED  BY <1>3, <1>4, <1>5, <1>6, <1>7, <1>8, <1>9, <1>10, <1>11, <1>12, <1>13, <1>14
          DEF UserTx, SnapshotTx

\* A stake stays the staker's, and a reward is issued when the node is credited.
LEMMA LegacyTxBalance ==
    ASSUME IInv, NEW t \in Nat, now <= t, LegacyTx(t), torn' = torn
    PROVE  Held(account') + Unpaid' = Held(account) + Unpaid + Gained - Spent
<1>1. /\ Fine(account, t) /\ burnt \in Int /\ minted \in Int /\ Held(account) \in Int
      /\ required \in StakeLevels /\ now \in Nat /\ LegacyTypeOK
      /\ node \in [Nodes -> [balance : Nat, rewardTime : Nat, active : Nat]]
    BY LaterFine, HeldChanges DEF IInv, UsersTypeOK, LegacyTypeOK
<1>2. Lag \in Nat /\ RewardAmount \in Nat /\ Unpaid \in Int
    <2>. DEFINE f == [n \in Nodes |-> node[n].balance]
    <2>1. \A n \in Nodes : f[n] \in Int
        BY <1>1
    <2>2. Unpaid = Total(f, Nodes)
        BY DEF Unpaid
    <2>. HIDE DEF f
    <2>. QED  BY <2>1, <2>2, TotalInt, LegacyAssumption
<1>. USE DEF Gained, Spent
<1>3. ASSUME NEW u \in Users, StakeTx(u, t)
      PROVE  Held(account') + Unpaid' = Held(account) + Unpaid + Gained - Spent
    <2>1. Held(account') = Held(account) - (burnt' - burnt) /\ burnt' \in Int
        BY <1>1, <1>3, StakeKeeps
    <2>2. minted' = minted /\ torn' = torn /\ node' = node
        BY <1>3 DEF StakeTx, legacyVars
    <2>3. Unpaid' = Unpaid
        BY <2>2 DEF Unpaid
    <2>. QED  BY <1>1, <1>2, <2>1, <2>2, <2>3
<1>4. ASSUME NEW u \in Users, NEW clock \in t .. t + Lag, RemoveStakeRequestTx(u, clock, t)
      PROVE  Held(account') + Unpaid' = Held(account) + Unpaid + Gained - Spent
    <2>0. clock \in Nat
        BY <1>2
    <2>1. Held(account') = Held(account)
        BY <1>1, <1>4, <2>0, RemoveStakeRequestKeeps
    <2>2. minted' = minted /\ burnt' = burnt /\ torn' = torn /\ node' = node
        BY <1>4 DEF RemoveStakeRequestTx, bookVars
    <2>3. Unpaid' = Unpaid
        BY <2>2 DEF Unpaid
    <2>. QED  BY <1>1, <1>2, <2>1, <2>2, <2>3
<1>5. ASSUME NEW u \in Users, NEW clock \in t .. t + Lag, RemoveStakeTx(u, clock, t)
      PROVE  Held(account') + Unpaid' = Held(account) + Unpaid + Gained - Spent
    <2>0. clock \in Nat
        BY <1>2
    <2>1. Held(account') = Held(account) - (burnt' - burnt) /\ burnt' \in Int
        BY <1>1, <1>5, <2>0, RemoveStakeKeeps
    <2>2. minted' = minted /\ torn' = torn /\ node' = node
        BY <1>5 DEF RemoveStakeTx, legacyVars
    <2>3. Unpaid' = Unpaid
        BY <2>2 DEF Unpaid
    <2>. QED  BY <1>1, <1>2, <2>1, <2>2, <2>3
<1>6. ASSUME NEW n \in Nodes, NEW m \in Nodes, NodeKeepsReward(n, m, t)
      PROVE  Held(account') + Unpaid' = Held(account) + Unpaid + Gained - Spent
    <2>1. /\ UNCHANGED <<account, burnt, torn>> /\ minted' = minted + RewardAmount
          /\ node' = [node EXCEPT ![n].balance = @ + RewardAmount, ![n].rewardTime = t]
        BY <1>6 DEF NodeKeepsReward
    <2>2. /\ node' \in [Nodes -> [balance : Nat, rewardTime : Nat, active : Nat]]
          /\ node'[n].balance = node[n].balance + RewardAmount
          /\ \A l \in Nodes \ {n} : node'[l].balance = node[l].balance
          /\ node[n].balance \in Int
        <3>. DEFINE b == node[n].balance + RewardAmount
        <3>1. b \in Nat /\ node[n].balance \in Int
            BY <1>1, <1>2
        <3>2. node' = [node EXCEPT ![n].balance = b, ![n].rewardTime = t]
            BY <1>1, <2>1
        <3>3. b = node[n].balance + RewardAmount
            OBVIOUS
        <3>. HIDE DEF b
        <3>. QED  BY <1>1, <3>1, <3>2, <3>3
    <2>3. Unpaid' = Unpaid + (node'[n].balance - node[n].balance)
        BY <1>1, <2>2, UnpaidChanges
    <2>. QED  BY <1>1, <1>2, <2>1, <2>2, <2>3
<1>7. ASSUME NEW n \in Nodes, NEW m \in Nodes, NEW u \in Users, NodePaysStaker(n, m, u, t)
      PROVE  Held(account') + Unpaid' = Held(account) + Unpaid + Gained - Spent
    <2>1. /\ UNCHANGED <<burnt, torn>> /\ minted' = minted + RewardAmount
          /\ node' = [node EXCEPT ![n].balance = 0, ![n].rewardTime = t]
        BY <1>7 DEF NodePaysStaker
    <2>2. /\ node' \in [Nodes -> [balance : Nat, rewardTime : Nat, active : Nat]]
          /\ node'[n].balance = 0
          /\ \A l \in Nodes \ {n} : node'[l].balance = node[l].balance
          /\ node[n].balance \in Nat
        BY <1>1, <1>2, <2>1
    <2>3. Unpaid' = Unpaid + (node'[n].balance - node[n].balance)
        BY <1>1, <2>2, UnpaidChanges
    <2>4. Held(account') = Held(account) + (node[n].balance + RewardAmount)
        BY <1>1, <1>7, <2>2, NodePaysStakerKeeps
    <2>. QED  BY <1>1, <1>2, <2>1, <2>2, <2>3, <2>4
<1>8. ASSUME NEW n \in Nodes, NEW active \in {0, t}, NodeRotates(n, active)
      PROVE  Held(account') + Unpaid' = Held(account) + Unpaid + Gained - Spent
    <2>1. /\ UNCHANGED <<account, minted, burnt, torn>>
          /\ node' = [node EXCEPT ![n].active = active]
        BY <1>8 DEF NodeRotates, bookVars
    <2>2. /\ node' \in [Nodes -> [balance : Nat, rewardTime : Nat, active : Nat]]
          /\ node'[n].balance = node[n].balance
          /\ \A m \in Nodes \ {n} : node'[m].balance = node[m].balance
          /\ node[n].balance \in Int
        BY <1>1, <2>1
    <2>3. Unpaid' = Unpaid + (node'[n].balance - node[n].balance)
        BY <1>1, <2>2, UnpaidChanges
    <2>. QED  BY <1>1, <1>2, <2>1, <2>2, <2>3
<1>9. ASSUME NEW level \in StakeLevels, StakeRequirementChanges(level)
      PROVE  Held(account') + Unpaid' = Held(account) + Unpaid + Gained - Spent
    <2>1. UNCHANGED <<account, minted, burnt, torn, node>>
        BY <1>9 DEF StakeRequirementChanges, bookVars
    <2>2. Unpaid' = Unpaid
        BY <2>1 DEF Unpaid
    <2>. QED  BY <1>1, <1>2, <2>1, <2>2
<1>. QED  BY <1>3, <1>4, <1>5, <1>6, <1>7, <1>8, <1>9 DEF LegacyTx

\* An account that change_config creates for its sender holds nothing.
LEMMA ConfigTxBalance ==
    ASSUME IInv, NEW t \in Nat, now <= t, ConfigTx(t)
    PROVE  Held(account') = Held(account) /\ UNCHANGED <<minted, burnt, torn>>
<1>1. Fine(account, t)
    BY LaterFine DEF IInv, UsersTypeOK
<1>2. UNCHANGED <<minted, burnt, torn>>
    BY DEF ConfigTx, ChangeConfigTx, ApplyChangeConfigTx, PruneNetworkChangeQueue, NextCycle,
           bookVars
<1>3. ASSUME NEW u \in Users, NEW c \in Cycles, NEW paths \in SUBSET Paths \ {{}},
             ChangeConfigTx(u, c, paths, t)
      PROVE  Held(account') = Held(account)
    <2>. DEFINE here == IF account[u].kind = "none"
                        THEN [account EXCEPT ![u] = NewNode] ELSE account
    <2>1. Commit(Stamped(here, {u}, t), t)
        BY <1>3 DEF ChangeConfigTx
    <2>2. /\ Fine(here, t) /\ Same(here, account) /\ here[u].kind # "none"
          /\ Held(here) = Held(account) /\ \A v \in Users \ {u} : here[v] = account[v]
        BY <1>1, NewNodeFine
    <2>. HIDE DEF here
    <2>3. {u} \in SUBSET Users /\ \A w \in {u} : here[w].kind # "none"
        BY <2>2
    <2>4. Fine(here, t) /\ Same(here, account)
        BY <2>2
    <2>. QED  BY <1>1, <2>1, <2>2, <2>3, <2>4, StoreFine
<1>. QED  BY <1>2, <1>3 DEF ConfigTx, ApplyChangeConfigTx, PruneNetworkChangeQueue, NextCycle

\* The books of a step that tears no distribute.
LEMMA BalanceStep ==
    ASSUME IInv, Next, torn' = torn
    PROVE  InHand' - minted' + burnt' = InHand - minted + burnt
<1>1. PICK t \in now .. now + MaxStep :
          /\ At(t)
          /\ \/ UserTx(t) /\ UNCHANGED <<legacyVars, configVars>>
             \/ LegacyTx(t) /\ UNCHANGED configVars
             \/ ConfigTx(t) /\ UNCHANGED legacyVars
    BY DEF Next
<1>2. /\ now \in Nat /\ MaxStep \in Nat /\ minted \in Int /\ burnt \in Int
      /\ Fine(account, now) /\ LegacyTypeOK
    BY BoundsAssumption DEF IInv, UsersTypeOK
<1>3. t \in Nat /\ now <= t
    BY <1>1, <1>2
<1>4. minted' \in Int /\ burnt' \in Int
    BY NextKinds DEF Books
<1>5. Held(account) \in Int
    BY <1>2, HeldChanges
<1>6. Unpaid \in Int
    <2>. DEFINE f == [n \in Nodes |-> node[n].balance]
    <2>1. \A n \in Nodes : f[n] \in Int
        BY <1>2 DEF LegacyTypeOK
    <2>2. Unpaid = Total(f, Nodes)
        BY DEF Unpaid
    <2>. HIDE DEF f
    <2>. QED  BY <2>1, <2>2, TotalInt, LegacyAssumption
<1>7. Held(account') + Unpaid' = Held(account) + Unpaid + Gained - Spent
    <2>1. CASE UserTx(t) /\ UNCHANGED legacyVars
        <3>1. Held(account') = Held(account) + Gained - Spent
            BY <1>3, <2>1, UserTxBalance
        <3>2. Unpaid' = Unpaid
            BY <2>1 DEF Unpaid, legacyVars
        <3>. QED  BY <1>2, <1>4, <1>5, <1>6, <3>1, <3>2 DEF Gained, Spent
    <2>2. CASE LegacyTx(t)
        BY <1>3, <2>2, LegacyTxBalance
    <2>3. CASE ConfigTx(t) /\ UNCHANGED legacyVars
        <3>1. Held(account') = Held(account) /\ UNCHANGED <<minted, burnt, torn>>
            BY <1>3, <2>3, ConfigTxBalance
        <3>2. Unpaid' = Unpaid
            BY <2>3 DEF Unpaid, legacyVars
        <3>. QED  BY <1>2, <1>5, <1>6, <3>1, <3>2 DEF Gained, Spent
    <2>. QED  BY <1>1, <2>1, <2>2, <2>3
<1>8. InHand = Held(account) + Unpaid /\ InHand' = Held(account') + Unpaid'
    BY DEF InHand, Unpaid, Held
<1>9. Held(account') + Unpaid' \in Int
    BY <1>2, <1>4, <1>5, <1>6, <1>7 DEF Gained, Spent
<1>. QED  BY <1>2, <1>4, <1>5, <1>6, <1>7, <1>8, <1>9 DEF Gained, Spent

-------------------------------------------------------------------------------
\* The accounts, alias accounts, chats and books are well typed, and no account is from the future.
THEOREM UsersTypes == Spec => []UsersTypeOK
<1>1. IInv => UsersTypeOK  BY DEF IInv
<1>. QED  BY <1>1, IInvHolds, PTL

\* The state of legacy staking is well typed, and who asked for a stake has one.
THEOREM LegacyTypes == Spec => []LegacyTypeOK
<1>1. IInv => LegacyTypeOK  BY DEF IInv
<1>. QED  BY <1>1, IInvHolds, PTL

\* No transaction drives a balance below zero: transfers, messages, distributes and
\* stakes check the sum of what they take in several parts.
THEOREM NeverInDebt == Spec => []NoDebt
<1>1. IInv => NoDebt  BY DEF IInv, Fine, NoDebt
<1>. QED  BY <1>1, IInvHolds, PTL

\* Whatever hashes clients send to register.ts, and however often an alias account is
\* overwritten, the user that it names has the alias that it names, and no other.
THEOREM AliasAccountsAreTrue == Spec => []AliasAccountIsTrue
<1>1. IInv => AliasAccountIsTrue  BY DEF IInv
<1>. QED  BY <1>1, IInvHolds, PTL

\* message.ts keeps the two ends of a chat the same.
THEOREM ChatsAreShared == Spec => []ChatIsShared
<1>1. IInv => ChatIsShared  BY DEF IInv
<1>. QED  BY <1>1, IInvHolds, PTL

\* node_reward.ts pays a node at most once in an interval, however it rotates.
THEOREM RewardsTimed == Spec => []RewardsAreTimed
<1>1. ASSUME IInv PROVE RewardsAreTimed
    <2>. SUFFICES ASSUME NEW n \in Nodes PROVE rewards[n] * RewardInterval <= now - 1
        BY DEF RewardsAreTimed
    <2>1. /\ now \in Nat \ {0} /\ rewards[n] \in Nat /\ RewardInterval \in Nat
          /\ node[n].rewardTime \in Nat /\ node[n].rewardTime <= now
          /\ node[n].rewardTime = 0 => rewards[n] = 0
          /\ node[n].rewardTime > 0 => rewards[n] * RewardInterval <= node[n].rewardTime - 1
        BY <1>1, LegacyAssumption DEF IInv, UsersTypeOK, LegacyTypeOK, Timed
    <2>. DEFINE k == rewards[n]
                last == node[n].rewardTime
                p == k * RewardInterval
    <2>2. p \in Nat /\ (k = 0 => p = 0)
        BY <2>1
    <2>3. last \in Nat /\ last <= now /\ (last = 0 => p = 0) /\ (last > 0 => p <= last - 1)
        BY <2>1, <2>2
    <2>. HIDE DEF last, p
    <2>. QED  BY <2>1, <2>2, <2>3 DEF p
<1>. QED  BY <1>1, IInvHolds, PTL

\* remove_stake.ts returns a stake only to a user who was paid no reward since he
\* asked for it two intervals ago.
THEOREM UnstakesAfterSilence == Spec => UnstakeAfterSilence
<1>1. ASSUME IInv, [Next]_allVars
      PROVE  [\A u \in Users : account[u].stake > 0 /\ account'[u].stake = 0 =>
                 /\ u \notin paidSince
                 /\ now' + Lag >= account[u].request + 2 * RewardInterval]_ledgerVars
    <2>1. CASE UNCHANGED allVars
        BY <2>1 DEF allVars
    <2>2. CASE Next
        <3>1. Kinds /\ now' \in Nat
            BY <1>1, <2>2, NextKinds
        <3>2. /\ required \in Nat \ {0} /\ Quiet /\ Lag \in Nat /\ RewardInterval \in Nat
              /\ \A u \in Users : account[u].request \in Nat
            BY <1>1, LegacyAssumption DEF IInv, LegacyTypeOK, Fine, Account
        <3>3. CASE StakeFieldsKept
            BY <3>3 DEF StakeFieldsKept
        <3>4. CASE Stakes
            <4>1. PICK u \in Users, x \in {required, 0} :
                      /\ x = 0 => account[u].request # 0
                                  /\ account[u].request + 2 * RewardInterval <= now' + Lag
                      /\ \A v \in Users : account'[v].stake = IF v = u THEN x ELSE account[v].stake
                BY <3>4 DEF Stakes
            <4>2. ASSUME NEW v \in Users, account[v].stake > 0, account'[v].stake = 0
                  PROVE  /\ v \notin paidSince
                         /\ now' + Lag >= account[v].request + 2 * RewardInterval
                <5>1. v = u /\ x = 0
                    BY <3>2, <4>1, <4>2
                <5>. QED  BY <3>1, <3>2, <4>1, <5>1 DEF Quiet
            <4>. QED  BY <4>2
        <3>5. CASE Requests \/ Rewards
            BY <3>5 DEF Requests, Rewards
        <3>. QED  BY <3>1, <3>3, <3>4, <3>5 DEF Kinds, Plain, StakeKept, StakeSteps, Rotates
    <2>. QED  BY <1>1, <2>1, <2>2
<1>. QED  BY <1>1, IInvHolds, PTL DEF Spec, UnstakeAfterSilence

\* No transaction makes tokens or loses them, on balances, in stakes and in rewards
\* that no staker was paid yet, but a distribute that is stored for some of its accounts
\* and not for the others: there can be no other leak, for any fees, amounts and users.
THEOREM OnlyTornDistributesLose == Spec => OnlyTornOnesLose
<1>1. ASSUME IInv, [Next]_allVars
      PROVE  [torn' = torn => InHand' - minted' + burnt' = InHand - minted + burnt]_ledgerVars
    <2>1. CASE UNCHANGED allVars
        BY <2>1 DEF allVars
    <2>2. CASE Next
        BY <1>1, <2>2, BalanceStep
    <2>. QED  BY <1>1, <2>1, <2>2
<1>. QED  BY <1>1, IInvHolds, PTL DEF Spec, OnlyTornOnesLose

\* No transaction takes back what was burnt: stakes are returned out of stakes.
THEOREM NothingIsPrinted == Spec => NothingPrinted
<1>1. ASSUME IInv, [Next]_allVars PROVE [burnt' >= burnt]_ledgerVars
    <2>1. CASE UNCHANGED allVars
        BY <2>1 DEF allVars
    <2>2. CASE Next
        BY <1>1, <2>2, NextKinds
    <2>. QED  BY <1>1, <2>1, <2>2
<1>. QED  BY <1>1, IInvHolds, PTL DEF Spec, NothingPrinted

-------------------------------------------------------------------------------
(* The queue of configuration changes.                                        *)

LEMMA QueueNext ==
    ASSUME IInv, QueueInv, [Next]_allVars
    PROVE  QueueInv'
<1>1. CASE UNCHANGED allVars
    BY <1>1, QueueUnchanged DEF allVars
<1>2. CASE Next
    <2>1. PICK t \in now .. now + MaxStep :
                \/ UNCHANGED configVars
                \/ ConfigTx(t)
        BY <1>2 DEF Next
    <2>2. t \in Nat
        BY <2>1, BoundsAssumption DEF IInv, UsersTypeOK
    <2>. QED  BY <2>1, <2>2, QueueStep, QueueUnchanged
<1>. QED  BY <1>1, <1>2

LEMMA QueueHolds == Spec => []QueueInv
<1>1. Init => QueueInv
    BY QueueInit DEF Init
<1>. QED  BY <1>1, IInvHolds, QueueNext, PTL DEF Spec

\* Every scheduled change has the cycle in which it takes effect (change_config.ts
\* resolves "three from now" when it sends it), and the queue holds nothing else.
THEOREM ConfigTypes == Spec => []ConfigTypeOK
<1>1. QueueInv => ConfigTypeOK  BY DEF QueueInv
<1>. QED  BY <1>1, QueueHolds, PTL

\* However often pruneNetworkChangeQueue runs between the changes, the last Keep changes
\* of every path are the same in the queue as among all the changes ever added.
THEOREM LatestChangesAreKept == Spec => []LatestChangesKept
BY QueueHolds, QueueHasLatest, PTL

\* pruneNetworkChangeQueue leaves no change that is old and overtaken on all its paths.
THEOREM PruningIsThorough == Spec => PruneLeavesNoSurplus
<1>1. ASSUME QueueInv
      PROVE  [PruneNetworkChangeQueue =>
                \A i \in 1 .. Len(listOfChanges') :
                   \/ cycle - listOfChanges'[i].cycle <= MaxAge
                   \/ \E p \in listOfChanges'[i].paths :
                         Later(listOfChanges', i, p) < Quota]_configVars
    BY <1>1, QueuePrunes
<1>. QED  BY <1>1, QueueHolds, PTL DEF PruneLeavesNoSurplus
===============================================================================
