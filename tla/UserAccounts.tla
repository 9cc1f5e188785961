----------------------------- MODULE UserAccounts -----------------------------
(* The transactions of users on user, alias and chat accounts.  What a        *)
(* handler changes in its copies of the accounts is stored only for the       *)
(* copies whose timestamp it has set to that of the transaction (Commit): a   *)
(* handler that forgets to set it has changed nothing.                        *)
EXTENDS Integers, FiniteSets, Totals

CONSTANTS
    Users,                \* addresses of user accounts
    Names,                \* aliases
    AliasHashes,          \* addresses of alias accounts; a client names one of them
    ChatIds,              \* ids of chat accounts
    None,                 \* null
    FirstBalance,         \* balance of an account when it is created
    Fee,                  \* network.current.transactionFee
    MaintenanceFee,       \* network.current.maintenanceFee
    MaintenanceInterval,  \* network.current.maintenanceInterval
    DefaultToll,          \* network.current.defaultToll
    Faucet,               \* network.current.faucetAmount
    Amounts,              \* amounts that clients send
    Tolls,                \* tolls that clients ask for
    Holdings,             \* snapshots that clients send: functions from Users
    Mixes,                \* sets of transaction types: what is sent in one behaviour
    MaxCodes, MaxMinted, MaxStep, MaxTime
                          \* bounds: verification codes, tokens up to which create
                          \* and verify issue more, time between two transactions, time

ASSUME AmountsAssumption ==
    /\ FirstBalance \in Nat /\ Fee \in Nat /\ DefaultToll \in Nat /\ Faucet \in Nat
    /\ Amounts \subseteq Nat \ {0} /\ Tolls \subseteq Nat \ {0}
    /\ Holdings \subseteq [Users -> Nat]
ASSUME MaintenanceAssumption == MaintenanceFee \in {0, 1} /\ MaintenanceInterval \in Nat \ {0}
ASSUME UsersAssumption == IsFiniteSet(Users)
ASSUME NoneAssumption == None \notin Users /\ None \notin Names /\ None \notin ChatIds
ASSUME BoundsAssumption == MaxCodes \in Nat /\ MaxMinted \in Nat /\ MaxStep \in Nat /\ MaxTime \in Nat

VARIABLES
    now,       \* timestamp of the last transaction; several may share it
    mix,       \* the transaction types sent in this behaviour
    account,   \* the stored accounts
    aliasAccount, \* inbox (an alias) and address in each alias account
    chat,      \* sender and receiver of the messages in each chat account
    snapshot,  \* network.snapshot: 0 for an address it does not hold or was claimed
    minted, burnt, \* tokens that were issued, and tokens taken as fees
    torn       \* a distribute was stored for some of its accounts only

socialVars == <<aliasAccount, chat>>
bookVars == <<minted, burnt, torn>>
userVars == <<now, mix, account, snapshot, socialVars, bookVars>>

\* A code stands for its hash too.
Codes == 1 .. MaxCodes
Unverified == 0            \* verified: false
Verified == MaxCodes + 1   \* verified: true

NoAccount == [kind |-> "none", stamp |-> 0, balance |-> 0, lastMaintenance |-> 0,
              toll |-> 0, friends |-> {}, chats |-> [v \in Users |-> None],
              alias |-> None, verified |-> Unverified, claimed |-> FALSE,
              stake |-> 0, request |-> 0]
NewUser(t) == [NoAccount EXCEPT !.kind = "user", !.balance = FirstBalance,
                                !.lastMaintenance = t]
NewNode == [NoAccount EXCEPT !.kind = "node"]

Account == [kind : {"none", "user", "node"}, stamp : Nat, balance : Int,
            lastMaintenance : Nat, toll : Tolls \cup {0}, friends : SUBSET Users,
            chats : [Users -> ChatIds \cup {None}], alias : Names \cup {None},
            verified : Codes \cup {Unverified, Verified}, claimed : BOOLEAN,
            stake : Nat, request : Nat]

\* A user account that a transaction needs is created for it in the copies...
Present(u, t) ==
    IF account[u].kind = "none" THEN [account EXCEPT ![u] = NewUser(t)] ELSE account
Issued(u) == IF account[u].kind = "none" THEN FirstBalance ELSE 0

\* ... and only the copies that carry the transaction's timestamp are stored.
Stamped(a, who, t) ==
    [u \in Users |-> IF u \in who THEN [a[u] EXCEPT !.stamp = t] ELSE a[u]]
Commit(after, t) ==
    account' = [u \in Users |-> IF after[u].stamp = t THEN after[u] ELSE account[u]]

Move(a, u, amount) == [a EXCEPT ![u].balance = @ + amount]

Due(user, t) == t - user.lastMaintenance >= MaintenanceInterval
Maintenance(user, t) == IF Due(user, t) THEN user.balance * MaintenanceFee ELSE 0
Maintained(a, u, t) ==
    [a EXCEPT ![u].balance = @ - Maintenance(a[u], t),
              ![u].lastMaintenance = IF Due(a[u], t) THEN t ELSE @]

\* Mutant: the maintenance is taken before the fee.
MaintainedBeforeFee(a, u, t) == Move(Maintained(a, u, t), u, -Fee)
\* What most transactions take from their sender u after other payments: the fee,
\* then the maintenance of what is left.
Charged(a, u, t) == Maintained(Move(a, u, -Fee), u, t)
Charges(a, u, t) == Fee + Maintenance(Move(a, u, -Fee)[u], t)

IsUser(u) == account[u].kind = "user"
\* Mutant: the balance need not cover the fee.
CanPayWithoutFee(u, amount) == IsUser(u) /\ account[u].balance >= amount - Fee
CanPay(u, amount) == IsUser(u) /\ account[u].balance >= amount

CreateTx(u, x, t) ==
    /\ account[u].kind # "node" /\ minted + Issued(u) + x <= MaxMinted
    /\ Commit(Stamped(Move(Present(u, t), u, x), {u}, t), t)
    /\ minted' = minted + Issued(u) + x
    /\ UNCHANGED <<snapshot, socialVars, burnt, torn>>

\* Mutant: nobody looks whether the user has one.
AliasNotAsked(u) == TRUE
HasNoAlias(u) == account[u].alias = None
\* The alias account at the hash holds another alias, or none.
AliasIsFree(n, h) == aliasAccount[h].inbox # n
\* Mutant: the fields are swapped.
EntryOfAddress(n, u) == [inbox |-> u, address |-> n]
Entry(n, u) == [inbox |-> n, address |-> u]
\* The client names the alias and the hash; nobody checks that one is of the other.
\* An alias account that holds another alias is overwritten.
RegisterTx(u, n, h, t) ==
    /\ account[u].kind # "node" /\ HasNoAlias(u) /\ AliasIsFree(n, h)
    /\ aliasAccount' = [aliasAccount EXCEPT ![h] = Entry(n, u)]
    /\ Commit(Stamped([Present(u, t) EXCEPT ![u].alias = n], {u}, t), t)
    /\ minted' = minted + Issued(u)
    /\ UNCHANGED <<snapshot, chat, burnt, torn>>

TransferTx(u, v, x, t) ==
    /\ CanPay(u, x + Fee) /\ IsUser(v)
    /\ LET paid == Move(account, u, -x)
       IN  /\ Commit(Stamped(Move(Charged(paid, u, t), v, x), {u, v}, t), t)
           /\ burnt' = burnt + Charges(paid, u, t)
    /\ UNCHANGED <<snapshot, socialVars, minted, torn>>

TollFor(u, v) ==
    IF u \in account[v].friends THEN 0
    ELSE IF account[v].toll = 0 THEN DefaultToll ELSE account[v].toll
\* Mutant: who has the other as a friend does not set the chat.
WithChatOfStranger(a, u, v, c) ==
    [a EXCEPT ![u].chats[v] = IF @ = None /\ v \notin a[u].friends THEN c ELSE @]
WithChat(a, u, v, c) == [a EXCEPT ![u].chats[v] = IF @ = None THEN c ELSE @]

\* u and v remember the chat of their first message; every message goes to the
\* chat account that it names.
MessageTx(u, v, c, t) ==
    /\ IsUser(v) /\ CanPay(u, TollFor(u, v) + Fee)
    /\ LET paid  == Move(Move(account, u, -TollFor(u, v)), v, TollFor(u, v))
           chats == WithChat(WithChat(Charged(paid, u, t), u, v, c), v, u, c)
       IN  /\ Commit(Stamped(chats, {u, v}, t), t)
           /\ burnt' = burnt + Charges(paid, u, t)
    /\ chat' = [chat EXCEPT ![c] = @ \cup {<<u, v>>}]
    /\ UNCHANGED <<snapshot, aliasAccount, minted, torn>>

TollTx(u, x, t) ==
    /\ CanPay(u, Fee)
    /\ Commit(Stamped([Charged(account, u, t) EXCEPT ![u].toll = x], {u}, t), t)
    /\ burnt' = burnt + Charges(account, u, t)
    /\ UNCHANGED <<snapshot, socialVars, minted, torn>>

\* A friend is kept under the alias in the transaction: the friend of a blank alias
\* is none (friends[v] is falsy).  v need not exist.
FriendTx(u, v, blank, t) ==
    /\ CanPay(u, Fee)
    /\ Commit(Stamped([Charged(account, u, t) EXCEPT
                          ![u].friends = IF blank THEN @ \ {v} ELSE @ \cup {v}], {u}, t), t)
    /\ burnt' = burnt + Charges(account, u, t)
    /\ UNCHANGED <<snapshot, socialVars, minted, torn>>

RemoveFriendTx(u, v, t) ==
    /\ IsUser(u) /\ account[v].kind # "none"
    /\ Commit(Stamped([account EXCEPT ![u].friends = @ \ {v}], {u}, t), t)
    /\ UNCHANGED <<snapshot, socialVars, bookVars>>

\* The handler sets no timestamp: what is stored are the accounts that an earlier
\* transaction of the same millisecond has stamped: none, all, or (torn) a part.
DistributeTx(u, to, x, t) ==
    /\ ~torn  \* bound: at most one
    /\ CanPay(u, Cardinality(to) * x + Fee) /\ \A v \in to : IsUser(v)
    /\ LET sent   == Move(account, u, -(Fee + Cardinality(to \ {u}) * x))
           shared == [v \in Users |-> IF v \in to \ {u} THEN Move(sent, v, x)[v] ELSE sent[v]]
           stored == {v \in to \cup {u} : account[v].stamp = t}
       IN  /\ Commit(Maintained(shared, u, t), t)
           /\ burnt' = IF u \in stored THEN burnt + Fee + Maintenance(shared[u], t) ELSE burnt
           /\ torn' = (torn \/ stored \notin {{}, to \cup {u}})
    /\ UNCHANGED <<snapshot, socialVars, minted>>

\* email itself stores nothing: the node closest to the address mails a code and sends
\* its hash in a gossip_email_hash, which arrives at any time or never.  That
\* transaction is unsigned and validates nothing, so it may also come from elsewhere
\* and twice.  An address without an account gets a node account.
GossipEmailHashTx(u, code, t) ==
    /\ LET here == IF account[u].kind = "none" THEN [account EXCEPT ![u] = NewNode] ELSE account
       IN  Commit(Stamped([here EXCEPT ![u].verified = code], {u}, t), t)
    /\ UNCHANGED <<snapshot, socialVars, bookVars>>

VerifyTx(u, code, t) ==
    /\ minted + Faucet <= MaxMinted
    /\ IsUser(u) /\ account[u].verified = code
    /\ Commit(Stamped(Move([account EXCEPT ![u].verified = Verified], u, Faucet), {u}, t), t)
    /\ minted' = minted + Faucet
    /\ UNCHANGED <<snapshot, socialVars, burnt, torn>>

SnapshotTx(u, holding, t) ==
    /\ account[u].kind # "none"
    /\ snapshot' = holding
    /\ UNCHANGED <<account, socialVars, bookVars>>

SnapshotClaimTx(u, t) ==
    /\ IsUser(u) /\ ~account[u].claimed /\ snapshot[u] > 0
    /\ Commit(Stamped(Move([account EXCEPT ![u].claimed = TRUE], u, snapshot[u]), {u}, t), t)
    /\ snapshot' = [snapshot EXCEPT ![u] = 0]
    /\ minted' = minted + snapshot[u]
    /\ UNCHANGED <<socialVars, burnt, torn>>

Sent(type) == type \in mix

UserTx(t) ==
    \/ Sent("create") /\ \E u \in Users, x \in Amounts : CreateTx(u, x, t)
    \/ Sent("register") /\ \E u \in Users, n \in Names, h \in AliasHashes : RegisterTx(u, n, h, t)
    \/ Sent("transfer") /\ \E u, v \in Users, x \in Amounts : TransferTx(u, v, x, t)
    \/ Sent("message") /\ \E u, v \in Users, c \in ChatIds : MessageTx(u, v, c, t)
    \/ Sent("toll") /\ \E u \in Users, x \in Tolls : TollTx(u, x, t)
    \/ Sent("friend") /\ \E u, v \in Users, blank \in BOOLEAN : FriendTx(u, v, blank, t)
    \/ Sent("friend") /\ \E u, v \in Users : RemoveFriendTx(u, v, t)
    \/ Sent("distribute") /\ \E u \in Users, to \in SUBSET Users \ {{}}, x \in Amounts :
                                DistributeTx(u, to, x, t)
    \/ Sent("email") /\ \E u \in Users, code \in Codes :
                           GossipEmailHashTx(u, code, t) \/ VerifyTx(u, code, t)
    \/ Sent("snapshot") /\ \E u \in Users, h \in Holdings : SnapshotTx(u, h, t)
    \/ Sent("snapshot") /\ \E u \in Users : SnapshotClaimTx(u, t)

UserInit ==
    /\ now = 1 /\ mix \in Mixes
    /\ account = [u \in Users |-> NoAccount]
    /\ aliasAccount = [h \in AliasHashes |-> [inbox |-> None, address |-> None]]
    /\ chat = [c \in ChatIds |-> {}]
    /\ snapshot = [u \in Users |-> 0]
    /\ minted = 0 /\ burnt = 0 /\ torn = FALSE

\* Transactions are applied in the order of their timestamps.
At(t) == t <= MaxTime /\ now' = t /\ UNCHANGED mix

-------------------------------------------------------------------------------
\* The tokens on the accounts a, in balances and in stakes.
Held(a) == Total([u \in Users |-> a[u].balance + a[u].stake], Users)

\* The state is well typed, and no account is from the future.
UsersTypeOK ==
    /\ now \in Nat \ {0} /\ mix \in Mixes
    /\ account \in [Users -> Account]
    /\ aliasAccount \in [AliasHashes -> [inbox : Names \cup {None}, address : Users \cup {None}]]
    /\ chat \in [ChatIds -> SUBSET (Users \X Users)]
    /\ snapshot \in [Users -> Nat]
    /\ minted \in Int /\ burnt \in Int /\ torn \in BOOLEAN
    /\ \A u \in Users : account[u].stamp \in 0 .. now

\* No balance is negative: every transaction that takes tokens has made sure of the
\* sum it takes (message.ts and distribute.ts take it in several parts).
NoDebt == \A u \in Users : account[u].balance >= 0

\* Who looks up an alias account finds the address of a user who has just that alias:
\* register changes two accounts, the alias account may be overwritten by others, and no
\* user may take a second alias.  It does not say that an alias has one user only:
\* that needs clients to send the hash of the alias, which register.ts does not check.
AliasAccountIsTrue ==
    \A h \in AliasHashes :
        LET found == aliasAccount[h]
        IN  found.address # None => account[found.address].alias = found.inbox

\* Two users have the same chat on record for each other, and one of them has written
\* into it, whichever chat ids the messages between them named (message.ts:91-92).
ChatIsShared ==
    \A u, v \in Users :
        LET c == account[u].chats[v]
        IN  /\ c = account[v].chats[u]
            /\ c # None => (<<u, v>> \in chat[c] \/ <<v, u>> \in chat[c])
===============================================================================
