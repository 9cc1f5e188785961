---------------------------- MODULE AccountsProofs ----------------------------
(* What the transactions of UserAccounts and LegacyStaking do to the stored   *)
(* accounts: they stay well formed, few of them touch an alias, a chat or a   *)
(* stake, and each moves as many tokens as it says.                           *)
EXTENDS LegacyStaking, TotalsProofs

\* Well-formed accounts at the time t.
Fine(a, t) ==
    /\ a \in [Users -> Account]
    /\ \A u \in Users : /\ a[u].stamp \in 0 .. t
                        /\ a[u].balance >= 0
                        /\ a[u].kind = "none" => a[u] = NoAccount
                        /\ a[u].request > 0 => a[u].stake > 0

\* What most transactions leave alone.
Same(a, b) ==
    \A u \in Users : /\ a[u].alias = b[u].alias /\ a[u].chats = b[u].chats
                     /\ a[u].stake = b[u].stake /\ a[u].request = b[u].request
                     /\ a[u].verified = b[u].verified

Worth(a, u) == a[u].balance + a[u].stake

\* Accounts of the same worth hold the same, and one of another worth as much more.
LEMMA HeldChanges ==
    ASSUME NEW a, NEW b, NEW s, NEW t, Fine(a, s), Fine(b, t)
    PROVE  /\ Held(a) \in Int
           /\ (\A u \in Users : Worth(b, u) = Worth(a, u)) => Held(b) = Held(a)
           /\ \A u \in Users : (\A v \in Users \ {u} : Worth(b, v) = Worth(a, v)) =>
                                   Held(b) = Held(a) + (Worth(b, u) - Worth(a, u))
<1>. DEFINE f == [u \in Users |-> a[u].balance + a[u].stake]
            g == [u \in Users |-> b[u].balance + b[u].stake]
<1>1. \A u \in Users : f[u] = Worth(a, u) /\ g[u] = Worth(b, u)
    BY DEF Worth
<1>2. \A u \in Users : f[u] \in Int /\ g[u] \in Int
    BY DEF Fine, Account
<1>3. IsFiniteSet(Users)
    BY UsersAssumption
<1>4. Held(a) = Total(f, Users) /\ Held(b) = Total(g, Users)
    BY DEF Held
<1>. HIDE DEF f, g
<1>5. Held(a) \in Int
    BY <1>2, <1>3, <1>4, TotalInt
<1>6. ASSUME \A u \in Users : Worth(b, u) = Worth(a, u)
      PROVE  Held(b) = Held(a)
    BY <1>1, <1>3, <1>4, <1>6, TotalOfEquals
<1>7. ASSUME NEW u \in Users, \A v \in Users \ {u} : Worth(b, v) = Worth(a, v)
      PROVE  Held(b) = Held(a) + (Worth(b, u) - Worth(a, u))
    <2>1. \A v \in Users \ {u} : f[v] = g[v]
        BY <1>1, <1>7
    <2>2. Total(g, Users) = Total(f, Users) + (g[u] - f[u])
        BY <1>2, <1>3, <2>1, TotalChanges
    <2>. QED  BY <1>1, <1>4, <2>2
<1>. QED  BY <1>5, <1>6, <1>7

\* The accounts in T are worth v more.
LEMMA HeldRaised ==
    ASSUME NEW a, NEW b, NEW s, NEW t, Fine(a, s), Fine(b, t), NEW T \in SUBSET Users,
           NEW x \in Int, \A u \in T : Worth(b, u) = Worth(a, u) + x,
           \A u \in Users \ T : Worth(b, u) = Worth(a, u)
    PROVE  Held(b) = Held(a) + Cardinality(T) * x
<1>. DEFINE f == [u \in Users |-> a[u].balance + a[u].stake]
            g == [u \in Users |-> b[u].balance + b[u].stake]
<1>1. \A u \in Users : f[u] = Worth(a, u) /\ g[u] = Worth(b, u)
    BY DEF Worth
<1>2. \A u \in Users : f[u] \in Int
    BY DEF Fine, Account
<1>3. IsFiniteSet(Users)
    BY UsersAssumption
<1>4. Held(a) = Total(f, Users) /\ Held(b) = Total(g, Users)
    BY DEF Held
<1>. HIDE DEF f, g
<1>5. /\ \A u \in T : g[u] = f[u] + x
      /\ \A u \in Users \ T : g[u] = f[u]
    BY <1>1
<1>6. Total(g, Users) = Total(f, Users) + Cardinality(T) * x
    BY <1>2, <1>3, <1>5, TotalRaised
<1>. QED  BY <1>4, <1>6

LEMMA LaterFine ==
    ASSUME NEW a, NEW s \in Nat, NEW t \in Nat, s <= t, Fine(a, s)
    PROVE  Fine(a, t)
BY DEF Fine

\* An account is stored as the transaction left it, or not at all.
LEMMA CommitFine ==
    ASSUME NEW after, NEW t \in Nat, Fine(account, t), Fine(after, t), Commit(after, t)
    PROVE  /\ Fine(account', t)
           /\ Same(after, account) => Same(account', account)
           /\ \A u \in Users : account'[u] = IF after[u].stamp = t THEN after[u] ELSE account[u]
           /\ (\A u \in Users : after[u].stamp = t \/ Worth(after, u) = Worth(account, u))
                => Held(account') = Held(after)
<1>1. \A u \in Users : account'[u] = IF after[u].stamp = t THEN after[u] ELSE account[u]
    BY DEF Commit
<1>2. account' \in [Users -> Account]
    BY DEF Commit, Fine
<1>3. Fine(account', t)
    BY <1>1, <1>2 DEF Fine
<1>4. Same(after, account) => Same(account', account)
    BY <1>1 DEF Same
<1>5. ASSUME \A u \in Users : after[u].stamp = t \/ Worth(after, u) = Worth(account, u)
      PROVE  Held(account') = Held(after)
    <2>1. \A u \in Users : Worth(account', u) = Worth(after, u)
        BY <1>1, <1>5 DEF Worth
    <2>. QED  BY <1>3, <2>1, HeldChanges
<1>. QED  BY <1>1, <1>3, <1>4, <1>5

LEMMA StampFields ==
    ASSUME NEW c \in Account, NEW t \in Nat
    PROVE  LET d == [c EXCEPT !.stamp = t]
           IN  /\ d \in Account
               /\ d.alias = c.alias /\ d.chats = c.chats /\ d.stake = c.stake
               /\ d.request = c.request /\ d.verified = c.verified
               /\ d.stamp = t /\ d.balance = c.balance /\ d.kind = c.kind
BY DEF Account

LEMMA StampedFine ==
    ASSUME NEW a, NEW t \in Nat, Fine(a, t), NEW who \in SUBSET Users,
           \A u \in who : a[u].kind # "none"
    PROVE  /\ Fine(Stamped(a, who, t), t)
           /\ Same(Stamped(a, who, t), a)
           /\ \A u \in Users : IF u \in who
                               THEN Stamped(a, who, t)[u] = [a[u] EXCEPT !.stamp = t]
                               ELSE Stamped(a, who, t)[u] = a[u]
           /\ \A u \in who : Stamped(a, who, t)[u].stamp = t
           /\ \A u \in Users \ who : Stamped(a, who, t)[u] = a[u]
           /\ Held(Stamped(a, who, t)) = Held(a)
<1>. DEFINE b == Stamped(a, who, t)
<1>1. \A u \in Users : b[u] = IF u \in who THEN [a[u] EXCEPT !.stamp = t] ELSE a[u]
    BY DEF Stamped
<1>2. a \in [Users -> Account] /\ \A u \in Users : a[u].stamp \in 0 .. t
    BY DEF Fine
<1>3. \A u \in Users : LET d == [a[u] EXCEPT !.stamp = t]
                       IN  /\ d \in Account
                           /\ d.alias = a[u].alias /\ d.chats = a[u].chats
                           /\ d.stake = a[u].stake /\ d.request = a[u].request
                           /\ d.verified = a[u].verified /\ d.stamp = t
                           /\ d.balance = a[u].balance /\ d.kind = a[u].kind
    BY <1>2, StampFields
<1>3a. b \in [Users -> Account]
    <2>1. \A u \in Users : b[u] \in Account
        BY <1>1, <1>2, <1>3
    <2>. QED  BY <2>1 DEF Stamped
<1>4. Same(b, a)
    BY <1>1, <1>3 DEF Same
<1>5. \A u \in Users : /\ b[u].stamp \in 0 .. t /\ b[u].balance = a[u].balance
                       /\ b[u].kind = a[u].kind
                       /\ u \notin who => b[u] = a[u]
    <2>. SUFFICES ASSUME NEW u \in Users
                  PROVE  /\ b[u].stamp \in 0 .. t /\ b[u].balance = a[u].balance
                         /\ b[u].kind = a[u].kind
                         /\ u \notin who => b[u] = a[u]
        OBVIOUS
    <2>. HIDE DEF b
    <2>1. CASE u \in who
        <3>1. b[u] = [a[u] EXCEPT !.stamp = t]
            BY <2>1, <1>1
        <3>2. b[u].stamp = t /\ b[u].balance = a[u].balance /\ b[u].kind = a[u].kind
            BY <3>1, <1>3
        <3>3. t \in 0 .. t
            OBVIOUS
        <3>. QED  BY <2>1, <3>2, <3>3
    <2>2. CASE u \notin who  BY <2>2, <1>1, <1>2
    <2>. QED  BY <2>1, <2>2
<1>. HIDE DEF b
<1>6. Fine(b, t)
    BY <1>3a, <1>4, <1>5 DEF Fine, Same
<1>7. \A u \in who : b[u].stamp = t
    BY <1>1, <1>3
<1>8. Held(b) = Held(a)
    <2>1. \A u \in Users : Worth(b, u) = Worth(a, u)
        BY <1>4, <1>5 DEF Same, Worth
    <2>. QED  BY <1>6, <2>1, HeldChanges
<1>. QED  BY <1>1, <1>4, <1>6, <1>7, <1>8 DEF b

LEMMA MoveFine ==
    ASSUME NEW a, NEW t \in Nat, Fine(a, t), NEW u \in Users, NEW x \in Int,
           a[u].kind # "none", a[u].balance + x >= 0
    PROVE  /\ Fine(Move(a, u, x), t)
           /\ Same(Move(a, u, x), a)
           /\ Move(a, u, x)[u] = [a[u] EXCEPT !.balance = a[u].balance + x]
           /\ \A v \in Users \ {u} : Move(a, u, x)[v] = a[v]
           /\ Held(Move(a, u, x)) = Held(a) + x
<1>. DEFINE b == Move(a, u, x)
<1>1. b[u] = [a[u] EXCEPT !.balance = a[u].balance + x]
    BY DEF Move, Fine
<1>2. \A v \in Users \ {u} : b[v] = a[v]
    BY DEF Move, Fine
<1>3. b \in [Users -> Account]
    <2>1. b[u] \in Account
        <3>1. a[u] \in Account /\ a[u].balance + x \in Int
            BY DEF Fine, Account
        <3>. QED  BY <3>1, <1>1 DEF Account
    <2>. QED  BY <2>1, <1>2 DEF Fine, Move
<1>4. Same(b, a)
    BY <1>1, <1>2 DEF Same, Fine, Account
<1>5. /\ b[u].balance = a[u].balance + x /\ b[u].kind = a[u].kind /\ b[u].stamp = a[u].stamp
    BY <1>1 DEF Fine, Account
<1>. HIDE DEF b
<1>6. Fine(b, t)
    BY <1>2, <1>3, <1>4, <1>5 DEF Fine, Same
<1>7. Held(b) = Held(a) + x
    <2>1. \A v \in Users \ {u} : Worth(b, v) = Worth(a, v)
        BY <1>2 DEF Worth
    <2>2. Held(b) = Held(a) + (Worth(b, u) - Worth(a, u))
        BY <1>6, <2>1, HeldChanges
    <2>3. a[u].balance \in Int /\ a[u].stake \in Int /\ b[u].stake = a[u].stake
        BY <1>4 DEF Fine, Account, Same
    <2>4. Worth(b, u) - Worth(a, u) = x
        BY <1>5, <2>3 DEF Worth
    <2>. QED  BY <2>2, <2>4
<1>. QED  BY <1>1, <1>2, <1>4, <1>6, <1>7 DEF b

\* Maintenance takes all or nothing of a balance.
LEMMA MaintenanceFine ==
    ASSUME NEW user \in Account, NEW t \in Nat, user.balance >= 0
    PROVE  Maintenance(user, t) \in 0 .. user.balance
<1>1. user.balance \in Nat
    BY DEF Account
<1>2. MaintenanceFee = 0 \/ MaintenanceFee = 1
    BY MaintenanceAssumption
<1>. QED  BY <1>1, <1>2 DEF Maintenance

LEMMA MaintainedFine ==
    ASSUME NEW a, NEW t \in Nat, Fine(a, t), NEW u \in Users, a[u].kind # "none"
    PROVE  /\ Fine(Maintained(a, u, t), t)
           /\ Same(Maintained(a, u, t), a)
           /\ Maintained(a, u, t)[u].kind = a[u].kind
           /\ Maintained(a, u, t)[u].stamp = a[u].stamp
           /\ \A v \in Users \ {u} : Maintained(a, u, t)[v] = a[v]
           /\ Held(Maintained(a, u, t)) = Held(a) - Maintenance(a[u], t)
<1>. DEFINE b == Maintained(a, u, t)
            m == Maintenance(a[u], t)
            l == IF Due(a[u], t) THEN t ELSE a[u].lastMaintenance
<1>0. a[u] \in Account /\ a[u].balance >= 0
    BY DEF Fine
<1>1. m \in 0 .. a[u].balance
    BY <1>0, MaintenanceFine
<1>2. a \in [Users -> Account] /\ l \in Nat
    BY <1>0 DEF Fine, Account
<1>3. b[u] = [a[u] EXCEPT !.balance = a[u].balance - m, !.lastMaintenance = l]
    BY <1>2 DEF Maintained
<1>4. \A v \in Users \ {u} : b[v] = a[v]
    BY <1>2 DEF Maintained
<1>5. b \in [Users -> Account]
    <2>. HIDE DEF l, m
    <2>1. b[u] \in Account
        <3>1. a[u].balance - m \in Int
            BY <1>0, <1>1 DEF Account
        <3>. QED  BY <3>1, <1>0, <1>2, <1>3 DEF Account
    <2>. QED  BY <2>1, <1>2, <1>4 DEF Maintained
<1>. HIDE DEF b, l, m
<1>6. Same(b, a)
    BY ZenonT(60), <1>0, <1>3, <1>4 DEF Same, Account
<1>7. b[u].balance = a[u].balance - m /\ b[u].kind = a[u].kind /\ b[u].stamp = a[u].stamp
    BY <1>0, <1>3 DEF Account
<1>8. Fine(b, t)
    BY SMTT(30), <1>0, <1>1, <1>4, <1>5, <1>6, <1>7 DEF Fine, Same, Account
<1>9. Held(b) = Held(a) - m
    <2>1. \A v \in Users \ {u} : Worth(b, v) = Worth(a, v)
        BY <1>4 DEF Worth
    <2>2. Held(b) = Held(a) + (Worth(b, u) - Worth(a, u)) /\ Held(a) \in Int
        BY <1>8, <2>1, HeldChanges
    <2>3. /\ a[u].balance \in Int /\ a[u].stake \in Int /\ b[u].stake = a[u].stake
          /\ m \in Int
        BY <1>0, <1>1, <1>6 DEF Account, Same
    <2>4. Worth(b, u) - Worth(a, u) = -m
        BY <1>7, <2>3 DEF Worth
    <2>. QED  BY <2>2, <2>3, <2>4
<1>. QED  BY <1>4, <1>6, <1>7, <1>8, <1>9 DEF b, m

LEMMA ChargedFine ==
    ASSUME NEW a, NEW t \in Nat, Fine(a, t), NEW u \in Users, a[u].kind # "none",
           a[u].balance >= Fee
    PROVE  /\ Fine(Charged(a, u, t), t)
           /\ Same(Charged(a, u, t), a)
           /\ \A v \in Users : Charged(a, u, t)[v].kind = a[v].kind
           /\ \A v \in Users \ {u} : Charged(a, u, t)[v] = a[v]
           /\ Charges(a, u, t) \in Nat
           /\ Held(Charged(a, u, t)) = Held(a) - Charges(a, u, t)
<1>. DEFINE b == Move(a, u, -Fee)
<1>1. Fee \in Nat /\ -Fee \in Int /\ a[u].balance \in Int /\ a[u].balance + (-Fee) >= 0
    BY AmountsAssumption DEF Fine, Account
<1>2. /\ Fine(b, t) /\ Same(b, a)
      /\ b[u] = [a[u] EXCEPT !.balance = a[u].balance + (-Fee)]
      /\ \A v \in Users \ {u} : b[v] = a[v]
      /\ Held(b) = Held(a) + (-Fee)
    BY <1>1, MoveFine
<1>3. b[u].kind = a[u].kind
    BY <1>2 DEF Fine, Account
<1>. HIDE DEF b
<1>4. /\ Fine(Maintained(b, u, t), t) /\ Same(Maintained(b, u, t), b)
      /\ Maintained(b, u, t)[u].kind = b[u].kind
      /\ \A v \in Users \ {u} : Maintained(b, u, t)[v] = b[v]
      /\ Held(Maintained(b, u, t)) = Held(b) - Maintenance(b[u], t)
    <2>1. Fine(b, t) /\ b[u].kind # "none"
        BY <1>2, <1>3
    <2>. QED  BY <2>1, MaintainedFine
<1>5. b[u] \in Account /\ b[u].balance >= 0
    <2>1. Fine(b, t)
        BY <1>2
    <2>. QED  BY <2>1 DEF Fine
<1>6. Maintenance(b[u], t) \in 0 .. b[u].balance
    BY <1>5, MaintenanceFine
<1>7. Fee + Maintenance(b[u], t) \in Nat
    <2>1. b[u].balance \in Nat
        BY <1>5 DEF Account
    <2>. HIDE DEF Maintenance
    <2>. QED  BY <1>1, <1>6, <2>1
<1>8. Charged(a, u, t) = Maintained(b, u, t) /\ Charges(a, u, t) = Fee + Maintenance(b[u], t)
    BY DEF Charged, Charges, b
<1>9. Same(Maintained(b, u, t), a)
    BY <1>2, <1>4 DEF Same
<1>10. Held(Charged(a, u, t)) = Held(a) - Charges(a, u, t)
    <2>1. Held(a) \in Int
        BY HeldChanges
    <2>2. Maintenance(b[u], t) \in Int
        BY <1>5, <1>6 DEF Account
    <2>. HIDE DEF Maintenance
    <2>. QED  BY <1>1, <1>2, <1>4, <1>8, <2>1, <2>2
<1>. QED  BY <1>2, <1>3, <1>4, <1>7, <1>8, <1>9, <1>10

LEMMA PresentFine ==
    ASSUME NEW t \in Nat, Fine(account, t), NEW u \in Users
    PROVE  /\ Fine(Present(u, t), t)
           /\ Same(Present(u, t), account)
           /\ Present(u, t)[u].kind # "none"
           /\ account[u].kind # "node" => Present(u, t)[u].kind = "user"
           /\ \A v \in Users \ {u} : Present(u, t)[v] = account[v]
           /\ Held(Present(u, t)) = Held(account) + Issued(u)
<1>1. CASE account[u].kind = "none"
    <2>. DEFINE c == NewUser(t)
    <2>1. /\ NoAccount \in Account /\ NoAccount.balance = 0
          /\ NoAccount.stamp = 0 /\ NoAccount.request = 0
        BY NoneAssumption DEF NoAccount, Account, Codes, Unverified
    <2>2. c = [NoAccount EXCEPT !.kind = "user", !.balance = FirstBalance, !.lastMaintenance = t]
        BY DEF NewUser
    <2>3. /\ c \in Account /\ c.stamp = 0 /\ c.request = 0 /\ c.kind = "user"
          /\ c.balance = FirstBalance
          /\ c.alias = NoAccount.alias /\ c.chats = NoAccount.chats
          /\ c.stake = NoAccount.stake /\ c.request = NoAccount.request
          /\ c.verified = NoAccount.verified
        <3>1. FirstBalance \in Int
            BY AmountsAssumption
        <3>. HIDE DEF c
        <3>. QED  BY <2>1, <2>2, <3>1 DEF Account
    <2>. HIDE DEF c
    <2>4. Present(u, t) = [account EXCEPT ![u] = c] /\ account[u] = NoAccount
        BY <1>1 DEF Present, Fine, c
    <2>5. /\ Present(u, t) \in [Users -> Account] /\ Present(u, t)[u] = c
          /\ \A v \in Users \ {u} : Present(u, t)[v] = account[v]
        BY <2>3, <2>4 DEF Fine
    <2>6. FirstBalance >= 0 /\ 0 \in 0 .. t
        BY AmountsAssumption
    <2>7. Fine(Present(u, t), t)
        BY <2>3, <2>5, <2>6 DEF Fine
    <2>8. Same(Present(u, t), account)
        BY <2>3, <2>4, <2>5 DEF Same
    <2>9. Held(Present(u, t)) = Held(account) + Issued(u)
        <3>1. \A v \in Users \ {u} : Worth(Present(u, t), v) = Worth(account, v)
            BY <2>5 DEF Worth
        <3>2. Held(Present(u, t)) =
                  Held(account) + (Worth(Present(u, t), u) - Worth(account, u))
            BY <2>7, <3>1, HeldChanges
        <3>3. NoAccount.stake \in Int /\ FirstBalance \in Int /\ Issued(u) = FirstBalance
            BY <1>1, <2>1, AmountsAssumption DEF Account, Issued
        <3>4. Worth(Present(u, t), u) - Worth(account, u) = FirstBalance
            BY <2>1, <2>3, <2>4, <2>5, <3>3 DEF Worth
        <3>. QED  BY <3>2, <3>3, <3>4
    <2>. QED  BY <2>3, <2>5, <2>7, <2>8, <2>9
<1>2. CASE account[u].kind # "none"
    <2>1. Present(u, t) = account
        BY <1>2 DEF Present
    <2>2. account[u].kind \in {"none", "user", "node"}
        BY DEF Fine, Account
    <2>3. Held(account) \in Int /\ Issued(u) = 0
        BY <1>2, HeldChanges DEF Issued
    <2>. QED  BY <1>2, <2>1, <2>2, <2>3 DEF Same
<1>. QED  BY <1>1, <1>2

\* An address that is new to a transaction between nodes gets a node account.
LEMMA NewNodeFine ==
    ASSUME NEW t \in Nat, Fine(account, t), NEW u \in Users
    PROVE  LET here == IF account[u].kind = "none"
                       THEN [account EXCEPT ![u] = NewNode] ELSE account
           IN  /\ Fine(here, t) /\ Same(here, account) /\ here[u].kind # "none"
               /\ Held(here) = Held(account)
               /\ \A v \in Users \ {u} : here[v] = account[v]
<1>1. CASE account[u].kind = "none"
    <2>. DEFINE c == NewNode
                here == [account EXCEPT ![u] = c]
    <2>1. NoAccount \in Account /\ NoAccount.stamp = 0 /\ NoAccount.balance = 0 /\ NoAccount.request = 0
        BY NoneAssumption DEF NoAccount, Account, Codes, Unverified
    <2>2. c = [NoAccount EXCEPT !.kind = "node"]
        BY DEF NewNode
    <2>3. /\ c \in Account /\ c.stamp = 0 /\ c.request = 0 /\ c.kind = "node" /\ c.balance = 0
          /\ c.alias = NoAccount.alias /\ c.chats = NoAccount.chats
          /\ c.stake = NoAccount.stake /\ c.request = NoAccount.request
          /\ c.verified = NoAccount.verified
        <3>. HIDE DEF c
        <3>. QED  BY <2>1, <2>2 DEF Account
    <2>. HIDE DEF c
    <2>4. account[u] = NoAccount
        BY <1>1 DEF Fine
    <2>5. /\ here \in [Users -> Account] /\ here[u] = c
          /\ \A v \in Users \ {u} : here[v] = account[v]
        BY <2>3 DEF Fine
    <2>6. 0 \in 0 .. t
        OBVIOUS
    <2>7. Fine(here, t)
        BY <2>3, <2>5, <2>6 DEF Fine
    <2>8. Same(here, account)
        BY <2>3, <2>4, <2>5 DEF Same
    <2>9. Held(here) = Held(account)
        <3>1. \A v \in Users : Worth(here, v) = Worth(account, v)
            BY <2>1, <2>3, <2>4, <2>5 DEF Worth
        <3>. QED  BY <2>7, <3>1, HeldChanges
    <2>. QED  BY <1>1, <2>3, <2>5, <2>7, <2>8, <2>9 DEF c
<1>2. CASE account[u].kind # "none"
    BY <1>2 DEF Same
<1>. QED  BY <1>1, <1>2

\* The way of a transaction that leaves aliases, chats and stakes alone.
LEMMA StoreFine ==
    ASSUME NEW t \in Nat, Fine(account, t), NEW a, Fine(a, t), Same(a, account),
           NEW who \in SUBSET Users, \A u \in who : a[u].kind # "none",
           Commit(Stamped(a, who, t), t)
    PROVE  /\ Fine(account', t) /\ Same(account', account)
           /\ (\A u \in Users \ who : a[u] = account[u]) => Held(account') = Held(a)
<1>. DEFINE b == Stamped(a, who, t)
<1>1. /\ Fine(b, t) /\ Same(b, a) /\ Held(b) = Held(a)
      /\ \A u \in who : b[u].stamp = t
      /\ \A u \in Users : u \notin who => b[u] = a[u]
    <2>1. /\ Fine(b, t) /\ Same(b, a) /\ Held(b) = Held(a)
          /\ \A u \in who : b[u].stamp = t
          /\ \A u \in Users : IF u \in who THEN b[u] = [a[u] EXCEPT !.stamp = t]
                                           ELSE b[u] = a[u]
        BY StampedFine
    <2>. HIDE DEF b
    <2>. QED  BY <2>1
<1>. HIDE DEF b
<1>2. Same(b, account)
    BY <1>1 DEF Same
<1>3. /\ Fine(account', t) /\ Same(account', account)
      /\ (\A u \in Users : b[u].stamp = t \/ Worth(b, u) = Worth(account, u))
            => Held(account') = Held(b)
    <2>1. Commit(b, t)
        BY DEF b
    <2>. QED  BY <1>1, <1>2, <2>1, CommitFine
<1>4. ASSUME \A u \in Users \ who : a[u] = account[u]
      PROVE  \A u \in Users : b[u].stamp = t \/ Worth(b, u) = Worth(account, u)
    BY <1>1, <1>4 DEF Worth
<1>. QED  BY <1>1, <1>3, <1>4

\* Changes of other fields than the balance and the stake.
LEMMA FieldFine ==
    ASSUME NEW a, NEW t \in Nat, Fine(a, t), NEW u \in Users, a[u].kind # "none",
           NEW c \in Account, c.kind = a[u].kind, c.stamp = a[u].stamp,
           c.balance = a[u].balance, c.stake = a[u].stake, c.request = a[u].request
    PROVE  /\ Fine([a EXCEPT ![u] = c], t)
           /\ \A v \in Users : [a EXCEPT ![u] = c][v] = IF v = u THEN c ELSE a[v]
           /\ \A v \in Users : [a EXCEPT ![u] = c][v].kind = a[v].kind
           /\ c.alias = a[u].alias /\ c.chats = a[u].chats /\ c.verified = a[u].verified
                => Same([a EXCEPT ![u] = c], a)
           /\ Held([a EXCEPT ![u] = c]) = Held(a)
<1>1. /\ [a EXCEPT ![u] = c] \in [Users -> Account]
      /\ \A v \in Users : [a EXCEPT ![u] = c][v] = IF v = u THEN c ELSE a[v]
    BY DEF Fine
<1>2. \A v \in Users : /\ [a EXCEPT ![u] = c][v].kind = a[v].kind
                       /\ [a EXCEPT ![u] = c][v].stamp = a[v].stamp
                       /\ [a EXCEPT ![u] = c][v].balance = a[v].balance
                       /\ [a EXCEPT ![u] = c][v].stake = a[v].stake
                       /\ [a EXCEPT ![u] = c][v].request = a[v].request
    BY <1>1
<1>3. \A v \in Users : [a EXCEPT ![u] = c][v].kind = "none" => [a EXCEPT ![u] = c][v] = a[v]
    BY <1>1
<1>4. c.alias = a[u].alias /\ c.chats = a[u].chats /\ c.verified = a[u].verified
                => Same([a EXCEPT ![u] = c], a)
    BY <1>1, <1>2 DEF Same
<1>5. Fine([a EXCEPT ![u] = c], t)
    BY <1>1, <1>2, <1>3 DEF Fine
<1>6. Held([a EXCEPT ![u] = c]) = Held(a)
    <2>1. \A v \in Users : Worth([a EXCEPT ![u] = c], v) = Worth(a, v)
        BY <1>2 DEF Worth
    <2>. QED  BY <1>5, <2>1, HeldChanges
<1>. QED  BY <1>1, <1>2, <1>4, <1>5, <1>6

-------------------------------------------------------------------------------
(* One lemma for each transaction.                                             *)

LEMMA CreateKeeps ==
    ASSUME NEW t \in Nat, Fine(account, t), NEW u \in Users, NEW x \in Amounts,
           CreateTx(u, x, t)
    PROVE  /\ Fine(account', t) /\ Same(account', account)
           /\ Held(account') = Held(account) + Issued(u) + x
<1>. DEFINE a == Present(u, t)
<1>1. /\ Fine(a, t) /\ Same(a, account) /\ a[u].kind # "none"
      /\ Held(a) = Held(account) + Issued(u)
      /\ \A v \in Users \ {u} : a[v] = account[v]
    BY PresentFine
<1>2. x \in Nat /\ a[u].balance \in Int /\ a[u].balance >= 0
    BY <1>1, AmountsAssumption DEF Fine, Account
<1>3. Commit(Stamped(Move(a, u, x), {u}, t), t)
    BY DEF CreateTx
<1>. HIDE DEF a
<1>4. /\ Fine(Move(a, u, x), t) /\ Same(Move(a, u, x), a)
      /\ Move(a, u, x)[u] = [a[u] EXCEPT !.balance = a[u].balance + x]
      /\ \A v \in Users \ {u} : Move(a, u, x)[v] = a[v]
      /\ Held(Move(a, u, x)) = Held(a) + x
    BY <1>1, <1>2, MoveFine
<1>5. Move(a, u, x)[u].kind = a[u].kind
    BY <1>1, <1>4 DEF Fine, Account
<1>6. Same(Move(a, u, x), account)
    BY <1>1, <1>4 DEF Same
<1>7. {u} \in SUBSET Users /\ \A w \in {u} : Move(a, u, x)[w].kind # "none"
    BY <1>1, <1>5
<1>8. Fine(Move(a, u, x), t) /\ \A v \in Users \ {u} : Move(a, u, x)[v] = account[v]
    BY <1>1, <1>4
<1>. QED  BY <1>1, <1>3, <1>4, <1>6, <1>7, <1>8, StoreFine

LEMMA TransferKeeps ==
    ASSUME NEW t \in Nat, Fine(account, t), NEW u \in Users, NEW v \in Users,
           NEW x \in Amounts, burnt \in Int, TransferTx(u, v, x, t)
    PROVE  /\ Fine(account', t) /\ Same(account', account) /\ burnt' \in Int /\ burnt' >= burnt
           /\ Held(account') = Held(account) - (burnt' - burnt)
<1>. DEFINE paid == Move(account, u, -x)
            charged == Charged(paid, u, t)
            after == Move(charged, v, x)
<1>1. /\ x \in Nat /\ -x \in Int /\ Fee \in Nat /\ account[u].balance \in Int
      /\ account[u].balance >= x + Fee
      /\ account[u].kind = "user" /\ account[v].kind = "user"
    BY AmountsAssumption DEF TransferTx, CanPay, IsUser, Fine, Account
<1>2. Commit(Stamped(after, {u, v}, t), t) /\ burnt' = burnt + Charges(paid, u, t)
    BY DEF TransferTx
<1>3. /\ Fine(paid, t) /\ Same(paid, account)
      /\ paid[u] = [account[u] EXCEPT !.balance = account[u].balance + (-x)]
      /\ \A w \in Users \ {u} : paid[w] = account[w]
      /\ Held(paid) = Held(account) + (-x)
    BY <1>1, MoveFine
<1>4. paid[u].kind = "user" /\ paid[u].balance >= Fee
    BY <1>1, <1>3 DEF Fine, Account
<1>. HIDE DEF paid
<1>5. /\ Fine(charged, t) /\ Same(charged, paid) /\ Charges(paid, u, t) \in Nat
      /\ \A w \in Users : charged[w].kind = paid[w].kind
      /\ \A w \in Users \ {u} : charged[w] = paid[w]
      /\ Held(charged) = Held(paid) - Charges(paid, u, t)
    <2>1. Fine(paid, t) /\ paid[u].kind # "none" /\ paid[u].balance >= Fee
        BY <1>3, <1>4
    <2>. QED  BY <2>1, ChargedFine
<1>6. charged[v].kind = "user" /\ charged[u].kind = "user"
    BY <1>1, <1>3, <1>4, <1>5
<1>7. charged[v].balance \in Int /\ charged[v].balance + x >= 0
    BY <1>1, <1>5 DEF Fine, Account
<1>. HIDE DEF charged
<1>8. /\ Fine(after, t) /\ Same(after, charged)
      /\ after[v] = [charged[v] EXCEPT !.balance = charged[v].balance + x]
      /\ \A w \in Users \ {v} : after[w] = charged[w]
      /\ Held(after) = Held(charged) + x
    BY <1>1, <1>5, <1>6, <1>7, MoveFine
<1>9. after[v].kind = "user" /\ after[u].kind = "user"
    <2>1. charged[v] \in Account
        BY <1>5 DEF Fine
    <2>2. after[v].kind = "user"
        BY <1>6, <1>8, <2>1 DEF Account
    <2>3. CASE u = v  BY <2>2, <2>3
    <2>4. CASE u # v  BY <1>6, <1>8, <2>2, <2>4
    <2>. QED  BY <2>3, <2>4
<1>10. Same(after, account)
    BY <1>3, <1>5, <1>8 DEF Same
<1>. HIDE DEF after
<1>11. Fine(account', t) /\ Same(account', account) /\ Held(account') = Held(after)
    <2>1. {u, v} \in SUBSET Users /\ \A w \in {u, v} : after[w].kind # "none"
        BY <1>9
    <2>2. Fine(after, t) /\ Commit(Stamped(after, {u, v}, t), t)
        BY <1>2, <1>8
    <2>3. \A w \in Users \ {u, v} : after[w] = account[w]
        BY <1>3, <1>5, <1>8
    <2>. QED  BY <1>10, <2>1, <2>2, <2>3, StoreFine
<1>12. Held(account') = Held(account) - (burnt' - burnt)
    <2>1. Held(account) \in Int
        BY HeldChanges
    <2>. QED  BY <1>1, <1>2, <1>3, <1>5, <1>8, <1>11, <2>1
<1>. QED  BY <1>2, <1>5, <1>11, <1>12

LEMMA TollKeeps ==
    ASSUME NEW t \in Nat, Fine(account, t), NEW u \in Users, NEW x \in Tolls,
           burnt \in Int, TollTx(u, x, t)
    PROVE  /\ Fine(account', t) /\ Same(account', account) /\ burnt' \in Int /\ burnt' >= burnt
           /\ Held(account') = Held(account) - (burnt' - burnt)
<1>. DEFINE charged == Charged(account, u, t)
            c == [charged[u] EXCEPT !.toll = x]
            after == [charged EXCEPT ![u] = c]
<1>1. account[u].kind = "user" /\ account[u].balance >= Fee
    BY DEF TollTx, CanPay, IsUser
<1>2. /\ Fine(charged, t) /\ Same(charged, account) /\ Charges(account, u, t) \in Nat
      /\ charged[u].kind = "user" /\ Held(charged) = Held(account) - Charges(account, u, t)
      /\ \A w \in Users \ {u} : charged[w] = account[w]
    BY <1>1, ChargedFine
<1>3. [charged EXCEPT ![u].toll = x] = after
    OBVIOUS
<1>4. Commit(Stamped(after, {u}, t), t) /\ burnt' = burnt + Charges(account, u, t)
    BY <1>3 DEF TollTx
<1>. HIDE DEF charged
<1>5. charged[u] \in Account
    BY <1>2 DEF Fine
<1>6. /\ c \in Account /\ c.kind = charged[u].kind /\ c.stamp = charged[u].stamp
      /\ c.balance = charged[u].balance /\ c.stake = charged[u].stake
      /\ c.request = charged[u].request /\ c.alias = charged[u].alias
      /\ c.chats = charged[u].chats /\ c.verified = charged[u].verified
    BY <1>5 DEF Account
<1>. HIDE DEF c
<1>7. /\ Fine(after, t) /\ Same(after, charged) /\ after[u].kind # "none"
      /\ Held(after) = Held(charged) /\ \A w \in Users \ {u} : after[w] = charged[w]
    BY <1>2, <1>6, FieldFine
<1>. HIDE DEF after
<1>8. Same(after, account) /\ \A w \in Users \ {u} : after[w] = account[w]
    BY <1>2, <1>7 DEF Same
<1>9. Fine(account', t) /\ Same(account', account) /\ Held(account') = Held(after)
    BY <1>4, <1>7, <1>8, StoreFine
<1>10. Held(account') = Held(account) - (burnt' - burnt)
    <2>1. Held(account) \in Int
        BY HeldChanges
    <2>. QED  BY <1>2, <1>4, <1>7, <1>9, <2>1
<1>. QED  BY <1>2, <1>4, <1>9, <1>10

LEMMA FriendKeeps ==
    ASSUME NEW t \in Nat, Fine(account, t), NEW u \in Users, NEW v \in Users,
           NEW blank \in BOOLEAN, burnt \in Int, FriendTx(u, v, blank, t)
    PROVE  /\ Fine(account', t) /\ Same(account', account) /\ burnt' \in Int /\ burnt' >= burnt
           /\ Held(account') = Held(account) - (burnt' - burnt)
<1>. DEFINE charged == Charged(account, u, t)
            f == IF blank THEN charged[u].friends \ {v} ELSE charged[u].friends \cup {v}
            c == [charged[u] EXCEPT !.friends = f]
            after == [charged EXCEPT ![u] = c]
<1>1. account[u].kind = "user" /\ account[u].balance >= Fee
    BY DEF FriendTx, CanPay, IsUser
<1>2. /\ Fine(charged, t) /\ Same(charged, account) /\ Charges(account, u, t) \in Nat
      /\ charged[u].kind = "user" /\ Held(charged) = Held(account) - Charges(account, u, t)
      /\ \A w \in Users \ {u} : charged[w] = account[w]
    BY <1>1, ChargedFine
<1>4. Commit(Stamped(after, {u}, t), t) /\ burnt' = burnt + Charges(account, u, t)
    BY DEF FriendTx
<1>. HIDE DEF charged
<1>5. charged[u] \in Account
    BY <1>2 DEF Fine
<1>5a. f \in SUBSET Users
    BY <1>5 DEF Account
<1>. HIDE DEF f
<1>6. /\ c \in Account /\ c.kind = charged[u].kind /\ c.stamp = charged[u].stamp
      /\ c.balance = charged[u].balance /\ c.stake = charged[u].stake
      /\ c.request = charged[u].request /\ c.alias = charged[u].alias
      /\ c.chats = charged[u].chats /\ c.verified = charged[u].verified
    BY <1>5, <1>5a DEF Account
<1>. HIDE DEF c
<1>7. /\ Fine(after, t) /\ Same(after, charged) /\ after[u].kind # "none"
      /\ Held(after) = Held(charged) /\ \A w \in Users \ {u} : after[w] = charged[w]
    BY <1>2, <1>6, FieldFine
<1>. HIDE DEF after
<1>8. Same(after, account) /\ \A w \in Users \ {u} : after[w] = account[w]
    BY <1>2, <1>7 DEF Same
<1>9. Fine(account', t) /\ Same(account', account) /\ Held(account') = Held(after)
    BY <1>4, <1>7, <1>8, StoreFine
<1>10. Held(account') = Held(account) - (burnt' - burnt)
    <2>1. Held(account) \in Int
        BY HeldChanges
    <2>. QED  BY <1>2, <1>4, <1>7, <1>9, <2>1
<1>. QED  BY <1>2, <1>4, <1>9, <1>10

LEMMA RemoveFriendKeeps ==
    ASSUME NEW t \in Nat, Fine(account, t), NEW u \in Users, NEW v \in Users,
           RemoveFriendTx(u, v, t)
    PROVE  Fine(account', t) /\ Same(account', account) /\ Held(account') = Held(account)
<1>. DEFINE c == [account[u] EXCEPT !.friends = account[u].friends \ {v}]
            after == [account EXCEPT ![u] = c]
<1>1. account[u] \in Account /\ account[u].kind = "user"
    BY DEF RemoveFriendTx, IsUser, Fine
<1>2. Commit(Stamped(after, {u}, t), t)
    BY DEF RemoveFriendTx
<1>3. /\ c \in Account /\ c.kind = account[u].kind /\ c.stamp = account[u].stamp
      /\ c.balance = account[u].balance /\ c.stake = account[u].stake
      /\ c.request = account[u].request /\ c.alias = account[u].alias
      /\ c.chats = account[u].chats /\ c.verified = account[u].verified
    BY <1>1 DEF Account
<1>. HIDE DEF c
<1>4. /\ Fine(after, t) /\ Same(after, account) /\ after[u].kind # "none"
      /\ Held(after) = Held(account) /\ \A w \in Users \ {u} : after[w] = account[w]
    BY <1>1, <1>3, FieldFine
<1>. HIDE DEF after
<1>. QED  BY <1>2, <1>4, StoreFine

LEMMA SnapshotClaimKeeps ==
    ASSUME NEW t \in Nat, Fine(account, t), NEW u \in Users, snapshot \in [Users -> Nat],
           SnapshotClaimTx(u, t)
    PROVE  /\ Fine(account', t) /\ Same(account', account)
           /\ Held(account') = Held(account) + snapshot[u]
<1>. DEFINE c == [account[u] EXCEPT !.claimed = TRUE]
            a == [account EXCEPT ![u] = c]
            x == snapshot[u]
            after == Move(a, u, x)
<1>1. account[u] \in Account /\ account[u].kind = "user" /\ x \in Nat
    BY DEF SnapshotClaimTx, IsUser, Fine
<1>2. Commit(Stamped(after, {u}, t), t)
    BY DEF SnapshotClaimTx
<1>3. /\ c \in Account /\ c.kind = account[u].kind /\ c.stamp = account[u].stamp
      /\ c.balance = account[u].balance /\ c.stake = account[u].stake
      /\ c.request = account[u].request /\ c.alias = account[u].alias
      /\ c.chats = account[u].chats /\ c.verified = account[u].verified
    BY <1>1 DEF Account
<1>. HIDE DEF c, x
<1>4. /\ Fine(a, t) /\ Same(a, account) /\ a[u].kind = "user"
      /\ Held(a) = Held(account) /\ \A w \in Users \ {u} : a[w] = account[w]
    BY <1>1, <1>3, FieldFine
<1>. HIDE DEF a
<1>5. a[u] \in Account /\ x \in Int /\ a[u].balance + x >= 0
    BY <1>1, <1>4 DEF Fine, Account
<1>6. /\ Fine(after, t) /\ Same(after, a)
      /\ after[u] = [a[u] EXCEPT !.balance = a[u].balance + x]
      /\ Held(after) = Held(a) + x /\ \A w \in Users \ {u} : after[w] = a[w]
    BY <1>4, <1>5, MoveFine
<1>7. after[u].kind # "none"
    BY <1>4, <1>5, <1>6 DEF Account
<1>8. Same(after, account)
    BY <1>4, <1>6 DEF Same
<1>9. Fine(after, t) /\ \A w \in Users \ {u} : after[w] = account[w]
    BY <1>4, <1>6
<1>10. Held(after) = Held(account) + snapshot[u]
    BY <1>4, <1>6 DEF x
<1>. HIDE DEF after
<1>. QED  BY <1>2, <1>7, <1>8, <1>9, <1>10, StoreFine

\* Only "verified" of the user changes, and not to a code.
LEMMA VerifyKeeps ==
    ASSUME NEW t \in Nat, Fine(account, t), NEW u \in Users, NEW code, VerifyTx(u, code, t)
    PROVE  /\ Fine(account', t)
           /\ \A v \in Users : /\ account'[v].alias = account[v].alias
                               /\ account'[v].chats = account[v].chats
                               /\ account'[v].stake = account[v].stake
                               /\ account'[v].request = account[v].request
                               /\ account'[v].verified =
                                     IF v = u THEN Verified ELSE account[v].verified
           /\ Held(account') = Held(account) + Faucet
<1>. DEFINE c == [account[u] EXCEPT !.verified = Verified]
            a == [account EXCEPT ![u] = c]
            after == Move(a, u, Faucet)
            final == Stamped(after, {u}, t)
<1>1. account[u] \in Account /\ account[u].kind = "user" /\ Faucet \in Nat
    BY AmountsAssumption DEF VerifyTx, IsUser, Fine
<1>2. Commit(final, t)
    BY DEF VerifyTx
<1>3. /\ c \in Account /\ c.kind = account[u].kind /\ c.stamp = account[u].stamp
      /\ c.balance = account[u].balance /\ c.stake = account[u].stake
      /\ c.request = account[u].request /\ c.alias = account[u].alias
      /\ c.chats = account[u].chats /\ c.verified = Verified
    BY <1>1 DEF Account
<1>. HIDE DEF c
<1>4. /\ Fine(a, t) /\ a[u].kind = "user" /\ Held(a) = Held(account)
      /\ \A v \in Users : a[v] = IF v = u THEN c ELSE account[v]
    BY <1>1, <1>3, FieldFine
<1>. HIDE DEF a
<1>5. a[u] \in Account /\ Faucet \in Int /\ a[u].balance + Faucet >= 0
    BY <1>1, <1>4 DEF Fine, Account
<1>6. /\ Fine(after, t) /\ Same(after, a)
      /\ after[u] = [a[u] EXCEPT !.balance = a[u].balance + Faucet]
      /\ Held(after) = Held(a) + Faucet /\ \A v \in Users \ {u} : after[v] = a[v]
    BY <1>4, <1>5, MoveFine
<1>7. after[u].kind # "none"
    BY <1>4, <1>5, <1>6 DEF Account
<1>8. Fine(after, t)
    BY <1>6
<1>. HIDE DEF after
<1>9. /\ Fine(final, t) /\ Same(final, after)
      /\ final[u] = [after[u] EXCEPT !.stamp = t]
      /\ Held(final) = Held(after) /\ \A v \in Users \ {u} : final[v] = after[v]
    BY <1>7, <1>8, StampedFine
<1>10. after[u] \in Account
    BY <1>8 DEF Fine
<1>11. final[u].stamp = t
    BY <1>9, <1>10 DEF Account
<1>. HIDE DEF final
<1>12. /\ Fine(account', t) /\ Held(account') = Held(final)
       /\ \A v \in Users : account'[v] = IF final[v].stamp = t THEN final[v] ELSE account[v]
    <2>1. \A v \in Users : final[v].stamp = t \/ Worth(final, v) = Worth(account, v)
        BY <1>4, <1>6, <1>9, <1>11 DEF Worth
    <2>. QED  BY <1>2, <1>9, <2>1, CommitFine
<1>13. Same(final, a)
    BY <1>6, <1>9 DEF Same
<1>14. \A v \in Users : /\ final[v].alias = account[v].alias
                        /\ final[v].chats = account[v].chats
                        /\ final[v].stake = account[v].stake
                        /\ final[v].request = account[v].request
                        /\ final[v].verified = IF v = u THEN Verified ELSE account[v].verified
    BY <1>3, <1>4, <1>13 DEF Same
<1>. QED  BY ZenonT(60), <1>4, <1>6, <1>9, <1>11, <1>12, <1>14

\* Only "verified" of the receiver changes.
LEMMA GossipKeeps ==
    ASSUME NEW t \in Nat, Fine(account, t), NEW u \in Users, NEW code \in Codes,
           GossipEmailHashTx(u, code, t)
    PROVE  /\ Fine(account', t)
           /\ \A v \in Users : /\ account'[v].alias = account[v].alias
                               /\ account'[v].chats = account[v].chats
                               /\ account'[v].stake = account[v].stake
                               /\ account'[v].request = account[v].request
                               /\ account'[v].verified =
                                     IF v = u THEN code ELSE account[v].verified
           /\ Held(account') = Held(account)
<1>. DEFINE here == IF account[u].kind = "none" THEN [account EXCEPT ![u] = NewNode] ELSE account
            c == [here[u] EXCEPT !.verified = code]
            after == [here EXCEPT ![u] = c]
            final == Stamped(after, {u}, t)
<1>1. Commit(final, t)
    BY DEF GossipEmailHashTx
<1>2. /\ Fine(here, t) /\ here[u].kind # "none" /\ Same(here, account)
      /\ Held(here) = Held(account) /\ \A v \in Users \ {u} : here[v] = account[v]
    BY NewNodeFine
<1>. HIDE DEF here
<1>3. here[u] \in Account
    BY <1>2 DEF Fine
<1>4. /\ c \in Account /\ c.kind = here[u].kind /\ c.stamp = here[u].stamp
      /\ c.balance = here[u].balance /\ c.stake = here[u].stake
      /\ c.request = here[u].request /\ c.alias = here[u].alias
      /\ c.chats = here[u].chats /\ c.verified = code
    BY <1>3 DEF Account
<1>. HIDE DEF c
<1>5. /\ Fine(after, t) /\ after[u].kind # "none" /\ Held(after) = Held(here)
      /\ \A v \in Users : after[v] = IF v = u THEN c ELSE here[v]
    BY <1>2, <1>4, FieldFine
<1>6. after[u] \in Account
    BY <1>5 DEF Fine
<1>. HIDE DEF after
<1>7. /\ Fine(final, t) /\ Same(final, after)
      /\ final[u] = [after[u] EXCEPT !.stamp = t]
      /\ Held(final) = Held(after) /\ \A v \in Users \ {u} : final[v] = after[v]
    BY <1>5, StampedFine
<1>8. final[u].stamp = t
    BY <1>6, <1>7 DEF Account
<1>. HIDE DEF final
<1>9. /\ Fine(account', t) /\ Held(account') = Held(final)
      /\ \A v \in Users : account'[v] = IF final[v].stamp = t THEN final[v] ELSE account[v]
    <2>1. \A v \in Users : final[v].stamp = t \/ Worth(final, v) = Worth(account, v)
        BY <1>2, <1>5, <1>7, <1>8 DEF Worth
    <2>. QED  BY <1>1, <1>7, <2>1, CommitFine
<1>10. \A v \in Users : /\ final[v].alias = account[v].alias
                        /\ final[v].chats = account[v].chats
                        /\ final[v].stake = account[v].stake
                        /\ final[v].request = account[v].request
                        /\ final[v].verified = IF v = u THEN code ELSE account[v].verified
    BY <1>2, <1>4, <1>5, <1>7 DEF Same
<1>. QED  BY ZenonT(60), <1>2, <1>5, <1>7, <1>8, <1>9, <1>10

\* Register sets the alias of its sender.
LEMMA RegisterKeeps ==
    ASSUME NEW t \in Nat, Fine(account, t), NEW u \in Users, NEW n \in Names,
           NEW h \in AliasHashes, RegisterTx(u, n, h, t)
    PROVE  /\ Fine(account', t)
           /\ \A v \in Users : /\ account'[v].alias = IF v = u THEN n ELSE account[v].alias
                               /\ account'[v].chats = account[v].chats
                               /\ account'[v].stake = account[v].stake
                               /\ account'[v].request = account[v].request
                               /\ account'[v].verified = account[v].verified
           /\ Held(account') = Held(account) + Issued(u)
<1>. DEFINE here == Present(u, t)
            c == [here[u] EXCEPT !.alias = n]
            after == [here EXCEPT ![u] = c]
            final == Stamped(after, {u}, t)
<1>1. Commit(final, t)
    BY DEF RegisterTx
<1>2. /\ Fine(here, t) /\ here[u].kind # "none" /\ Same(here, account)
      /\ Held(here) = Held(account) + Issued(u)
      /\ \A v \in Users \ {u} : here[v] = account[v]
    BY PresentFine
<1>. HIDE DEF here
<1>3. here[u] \in Account
    BY <1>2 DEF Fine
<1>4. /\ c \in Account /\ c.kind = here[u].kind /\ c.stamp = here[u].stamp
      /\ c.balance = here[u].balance /\ c.stake = here[u].stake
      /\ c.request = here[u].request /\ c.alias = n
      /\ c.chats = here[u].chats /\ c.verified = here[u].verified
    BY <1>3 DEF Account
<1>. HIDE DEF c
<1>5. /\ Fine(after, t) /\ after[u].kind # "none" /\ Held(after) = Held(here)
      /\ \A v \in Users : after[v] = IF v = u THEN c ELSE here[v]
    BY <1>2, <1>4, FieldFine
<1>6. after[u] \in Account
    BY <1>5 DEF Fine
<1>. HIDE DEF after
<1>7. /\ Fine(final, t) /\ Same(final, after)
      /\ final[u] = [after[u] EXCEPT !.stamp = t]
      /\ Held(final) = Held(after) /\ \A v \in Users \ {u} : final[v] = after[v]
    BY <1>5, StampedFine
<1>8. final[u].stamp = t
    BY <1>6, <1>7 DEF Account
<1>. HIDE DEF final
<1>9. /\ Fine(account', t) /\ Held(account') = Held(final)
      /\ \A v \in Users : account'[v] = IF final[v].stamp = t THEN final[v] ELSE account[v]
    <2>1. \A v \in Users : final[v].stamp = t \/ Worth(final, v) = Worth(account, v)
        BY <1>2, <1>5, <1>7, <1>8 DEF Worth
    <2>. QED  BY <1>1, <1>7, <2>1, CommitFine
<1>10. \A v \in Users : /\ final[v].alias = IF v = u THEN n ELSE account[v].alias
                        /\ final[v].chats = account[v].chats
                        /\ final[v].stake = account[v].stake
                        /\ final[v].request = account[v].request
                        /\ final[v].verified = account[v].verified
    BY <1>2, <1>4, <1>5, <1>7 DEF Same
<1>. QED  BY ZenonT(60), <1>2, <1>5, <1>7, <1>8, <1>9, <1>10

LEMMA WithChatFine ==
    ASSUME NEW a, NEW t \in Nat, Fine(a, t), NEW u \in Users, NEW v \in Users,
           NEW c \in ChatIds, a[u].kind # "none"
    PROVE  /\ Fine(WithChat(a, u, v, c), t)
           /\ \A w \in Users : /\ WithChat(a, u, v, c)[w].kind = a[w].kind
                               /\ WithChat(a, u, v, c)[w].alias = a[w].alias
                               /\ WithChat(a, u, v, c)[w].stake = a[w].stake
                               /\ WithChat(a, u, v, c)[w].request = a[w].request
                               /\ WithChat(a, u, v, c)[w].verified = a[w].verified
           /\ \A w, z \in Users : WithChat(a, u, v, c)[w].chats[z] =
                  IF w = u /\ z = v /\ a[u].chats[v] = None THEN c ELSE a[w].chats[z]
           /\ Held(WithChat(a, u, v, c)) = Held(a)
           /\ \A w \in Users \ {u} : WithChat(a, u, v, c)[w] = a[w]
<1>. DEFINE d == IF a[u].chats[v] = None THEN c ELSE a[u].chats[v]
            e == [a[u].chats EXCEPT ![v] = d]
            f == [a[u] EXCEPT !.chats = e]
            b == [a EXCEPT ![u] = f]
<1>1. a[u] \in Account /\ a \in [Users -> Account]
    BY DEF Fine
<1>2. WithChat(a, u, v, c) = b
    BY <1>1 DEF WithChat
<1>3. a[u].chats \in [Users -> ChatIds \cup {None}] /\ d \in ChatIds \cup {None}
    BY <1>1 DEF Account
<1>4. /\ e \in [Users -> ChatIds \cup {None}]
      /\ \A z \in Users : e[z] = IF z = v THEN d ELSE a[u].chats[z]
    BY <1>3
<1>. HIDE DEF e
<1>5. /\ f \in Account /\ f.kind = a[u].kind /\ f.stamp = a[u].stamp
      /\ f.balance = a[u].balance /\ f.stake = a[u].stake
      /\ f.request = a[u].request /\ f.alias = a[u].alias
      /\ f.chats = e /\ f.verified = a[u].verified
    BY <1>1, <1>4 DEF Account
<1>. HIDE DEF f
<1>6. /\ Fine(b, t) /\ \A w \in Users : b[w] = IF w = u THEN f ELSE a[w]
      /\ Held(b) = Held(a)
    BY <1>5, FieldFine
<1>. HIDE DEF b
<1>7. \A w \in Users : /\ b[w].kind = a[w].kind /\ b[w].alias = a[w].alias
                       /\ b[w].stake = a[w].stake /\ b[w].request = a[w].request
                       /\ b[w].verified = a[w].verified
    BY <1>5, <1>6
<1>8. \A w, z \in Users : b[w].chats[z] = IF w = u THEN e[z] ELSE a[w].chats[z]
    BY <1>5, <1>6
<1>9. \A w, z \in Users : b[w].chats[z] =
                  IF w = u /\ z = v /\ a[u].chats[v] = None THEN c ELSE a[w].chats[z]
    BY <1>4, <1>8
<1>. QED  BY <1>2, <1>6, <1>7, <1>9

\* The chats after a message from u to v that names c.
ChatsSet(u, v, c) ==
    \A w, z \in Users : account'[w].chats[z] =
        IF {w, z} = {u, v} /\ account[w].chats[z] = None THEN c ELSE account[w].chats[z]

\* A message sets the two entries for the chat between its sender and receiver, in
\* both or in none when both were the same.
LEMMA MessageKeeps ==
    ASSUME NEW t \in Nat, Fine(account, t), NEW u \in Users, NEW v \in Users,
           NEW c \in ChatIds, burnt \in Int, MessageTx(u, v, c, t)
    PROVE  /\ Fine(account', t) /\ burnt' \in Int /\ burnt' >= burnt
           /\ \A w \in Users : /\ account'[w].alias = account[w].alias
                               /\ account'[w].stake = account[w].stake
                               /\ account'[w].request = account[w].request
                               /\ account'[w].verified = account[w].verified
           /\ ChatsSet(u, v, c)
           /\ Held(account') = Held(account) - (burnt' - burnt)
<1>. DEFINE toll == TollFor(u, v)
            sent == Move(account, u, -toll)
            paid == Move(sent, v, toll)
            charged == Charged(paid, u, t)
            one == WithChat(charged, u, v, c)
            two == WithChat(one, v, u, c)
            final == Stamped(two, {u, v}, t)
<1>1. Commit(final, t) /\ burnt' = burnt + Charges(paid, u, t)
    BY DEF MessageTx
<1>2. /\ account[u].kind = "user" /\ account[v].kind = "user"
      /\ account[u].balance >= toll + Fee
    BY DEF MessageTx, CanPay, IsUser
<1>3. toll \in Nat /\ -toll \in Int /\ Fee \in Nat
    <2>1. account[v] \in Account
        BY DEF Fine
    <2>2. account[v].toll \in Nat /\ DefaultToll \in Nat /\ Fee \in Nat
        <3>1. account[v].toll \in Tolls \cup {0}
            BY <2>1 DEF Account
        <3>2. \A x \in Tolls : x \in Nat
            BY AmountsAssumption
        <3>3. DefaultToll \in Nat /\ Fee \in Nat
            BY AmountsAssumption
        <3>4. account[v].toll \in Nat
            <4>. DEFINE x == account[v].toll
            <4>1. CASE x = 0  BY <4>1
            <4>2. CASE x \in Tolls  BY <4>2, <3>2
            <4>. QED  BY <3>1, <4>1, <4>2
        <3>. QED  BY <3>3, <3>4
    <2>3. TollFor(u, v) \in Nat
        BY <2>2 DEF TollFor
    <2>. QED  BY <2>2, <2>3
<1>. HIDE DEF toll
<1>4. account[u].balance \in Int /\ account[u].balance + (-toll) >= 0
    BY <1>2, <1>3 DEF Fine, Account
<1>5. /\ Fine(sent, t) /\ Same(sent, account)
      /\ sent[u] = [account[u] EXCEPT !.balance = account[u].balance + (-toll)]
      /\ \A w \in Users \ {u} : sent[w] = account[w]
      /\ Held(sent) = Held(account) + (-toll)
    BY <1>2, <1>3, <1>4, MoveFine
<1>6. sent[u].kind = "user" /\ sent[u].balance >= Fee /\ sent[v].kind = "user"
    <2>1. account[u] \in Account
        BY DEF Fine
    <2>2. sent[u].kind = "user" /\ sent[u].balance = account[u].balance + (-toll)
        BY <1>2, <1>5, <2>1 DEF Account
    <2>3. sent[v].kind = "user"
        BY <1>2, <1>5, <2>2
    <2>. QED  BY <1>2, <1>3, <1>4, <2>2, <2>3
<1>. HIDE DEF sent
<1>7. sent[v] \in Account /\ sent[v].balance \in Int /\ sent[v].balance >= 0
    BY <1>5 DEF Fine, Account
<1>8. /\ Fine(paid, t) /\ Same(paid, sent)
      /\ paid[v] = [sent[v] EXCEPT !.balance = sent[v].balance + toll]
      /\ \A w \in Users \ {v} : paid[w] = sent[w]
      /\ Held(paid) = Held(sent) + toll
    <2>1. toll \in Int /\ sent[v].balance + toll >= 0 /\ sent[v].kind # "none"
        BY <1>3, <1>6, <1>7
    <2>2. Fine(sent, t)
        BY <1>5
    <2>. QED  BY <2>1, <2>2, MoveFine
<1>9. /\ paid[u].kind = "user" /\ paid[v].kind = "user" /\ paid[u].balance >= Fee
    <2>1. paid[v].kind = "user" /\ paid[v].balance = sent[v].balance + toll
        BY <1>6, <1>7, <1>8 DEF Account
    <2>2. CASE u = v  BY <1>3, <1>6, <1>7, <2>1, <2>2
    <2>3. CASE u # v  BY <1>6, <1>8, <2>1, <2>3
    <2>. QED  BY <2>2, <2>3
<1>. HIDE DEF paid
<1>10. /\ Fine(charged, t) /\ Same(charged, paid) /\ Charges(paid, u, t) \in Nat
       /\ charged[u].kind = "user" /\ charged[v].kind = "user"
       /\ Held(charged) = Held(paid) - Charges(paid, u, t)
       /\ \A w \in Users \ {u} : charged[w] = paid[w]
    <2>1. Fine(paid, t) /\ paid[u].kind # "none" /\ paid[u].balance >= Fee
        BY <1>8, <1>9
    <2>2. /\ Fine(charged, t) /\ Same(charged, paid) /\ Charges(paid, u, t) \in Nat
          /\ \A w \in Users : charged[w].kind = paid[w].kind
          /\ Held(charged) = Held(paid) - Charges(paid, u, t)
          /\ \A w \in Users \ {u} : charged[w] = paid[w]
        BY <2>1, ChargedFine
    <2>. QED  BY <1>9, <2>2
<1>. HIDE DEF charged
<1>11. /\ Fine(one, t) /\ Held(one) = Held(charged)
       /\ \A w \in Users \ {u} : one[w] = charged[w]
       /\ one[u].kind = "user" /\ one[v].kind = "user"
       /\ \A w \in Users : /\ one[w].alias = charged[w].alias
                           /\ one[w].stake = charged[w].stake
                           /\ one[w].request = charged[w].request
                           /\ one[w].verified = charged[w].verified
       /\ \A w, z \in Users : one[w].chats[z] =
              IF w = u /\ z = v /\ charged[u].chats[v] = None THEN c ELSE charged[w].chats[z]
    BY <1>10, WithChatFine
<1>. HIDE DEF one
<1>12. /\ Fine(two, t) /\ Held(two) = Held(one)
       /\ \A w \in Users \ {v} : two[w] = one[w]
       /\ two[u].kind = "user" /\ two[v].kind = "user"
       /\ \A w \in Users : /\ two[w].alias = one[w].alias
                           /\ two[w].stake = one[w].stake
                           /\ two[w].request = one[w].request
                           /\ two[w].verified = one[w].verified
       /\ \A w, z \in Users : two[w].chats[z] =
              IF w = v /\ z = u /\ one[v].chats[u] = None THEN c ELSE one[w].chats[z]
    BY <1>11, WithChatFine
<1>. HIDE DEF two
<1>13. /\ Fine(final, t) /\ Same(final, two) /\ Held(final) = Held(two)
       /\ \A w \in {u, v} : final[w] = [two[w] EXCEPT !.stamp = t]
       /\ \A w \in Users \ {u, v} : final[w] = two[w]
    <2>1. {u, v} \in SUBSET Users /\ \A w \in {u, v} : two[w].kind # "none"
        BY <1>12
    <2>2. Fine(two, t)
        BY <1>12
    <2>3. /\ Fine(final, t) /\ Same(final, two) /\ Held(final) = Held(two)
          /\ \A w \in Users : IF w \in {u, v} THEN final[w] = [two[w] EXCEPT !.stamp = t]
                                                ELSE final[w] = two[w]
        BY <2>1, <2>2, StampedFine
    <2>. HIDE DEF final
    <2>. QED  BY <2>3
<1>14. final[u].stamp = t /\ final[v].stamp = t
    <2>1. two[u] \in Account /\ two[v] \in Account
        BY <1>12 DEF Fine
    <2>. QED  BY <1>13, <2>1 DEF Account
<1>. HIDE DEF final
<1>15. /\ Fine(account', t) /\ Held(account') = Held(final)
       /\ \A w \in Users : account'[w] = IF final[w].stamp = t THEN final[w] ELSE account[w]
    <2>1. \A w \in Users \ {u, v} : final[w] = account[w]
        BY <1>5, <1>8, <1>10, <1>11, <1>12, <1>13
    <2>2. \A w \in Users : final[w].stamp = t \/ Worth(final, w) = Worth(account, w)
        BY <1>14, <2>1 DEF Worth
    <2>. QED  BY <1>1, <1>13, <2>2, CommitFine
<1>16. \A w \in Users : /\ final[w].alias = account[w].alias
                        /\ final[w].stake = account[w].stake
                        /\ final[w].request = account[w].request
                        /\ final[w].verified = account[w].verified
    BY <1>5, <1>8, <1>10, <1>11, <1>12, <1>13 DEF Same
<1>17. \A w \in Users : charged[w].chats = account[w].chats /\ final[w].chats = two[w].chats
    BY <1>5, <1>8, <1>10, <1>13 DEF Same
<1>18. \A w, z \in Users : final[w].chats[z] =
                  IF {w, z} = {u, v} /\ account[w].chats[z] = None
                  THEN c ELSE account[w].chats[z]
    <2>. SUFFICES ASSUME NEW w \in Users, NEW z \in Users
                  PROVE  final[w].chats[z] =
                            IF {w, z} = {u, v} /\ account[w].chats[z] = None
                            THEN c ELSE account[w].chats[z]
        OBVIOUS
    <2>1. {w, z} = {u, v} <=> (w = u /\ z = v) \/ (w = v /\ z = u)
        OBVIOUS
    <2>2. one[w].chats[z] =
              IF w = u /\ z = v /\ account[u].chats[v] = None THEN c ELSE account[w].chats[z]
        BY <1>11, <1>17
    <2>3. one[v].chats[u] =
              IF v = u /\ account[u].chats[v] = None THEN c ELSE account[v].chats[u]
        BY <1>11, <1>17
    <2>4. final[w].chats[z] =
              IF w = v /\ z = u /\ one[v].chats[u] = None THEN c ELSE one[w].chats[z]
        BY <1>12, <1>17
    <2>5. c # None
        BY NoneAssumption
    <2>. QED  BY <2>1, <2>2, <2>3, <2>4, <2>5
<1>19. \A w \in Users : final[w].stamp # t => w # u /\ w # v
    BY <1>14
<1>20. \A w \in Users : /\ account'[w].alias = account[w].alias
                        /\ account'[w].stake = account[w].stake
                        /\ account'[w].request = account[w].request
                        /\ account'[w].verified = account[w].verified
    BY <1>15, <1>16
<1>21. ChatsSet(u, v, c)
    <2>. SUFFICES ASSUME NEW w \in Users, NEW z \in Users
                  PROVE  account'[w].chats[z] =
                            IF {w, z} = {u, v} /\ account[w].chats[z] = None
                            THEN c ELSE account[w].chats[z]
        BY DEF ChatsSet
    <2>1. CASE final[w].stamp = t
        BY ZenonT(60), <2>1, <1>15, <1>18
    <2>2. CASE final[w].stamp # t
        <3>1. {w, z} # {u, v}
            BY <2>2, <1>19
        <3>. QED  BY <2>2, <3>1, <1>15
    <2>. QED  BY <2>1, <2>2
<1>22. burnt' \in Int /\ burnt' >= burnt
    BY <1>1, <1>10
<1>23. Held(account') = Held(account) - (burnt' - burnt)
    <2>1. Held(account) \in Int
        BY HeldChanges
    <2>. QED  BY <1>1, <1>3, <1>5, <1>8, <1>10, <1>11, <1>12, <1>13, <1>15, <2>1
<1>. QED  BY <1>15, <1>20, <1>21, <1>22, <1>23

\* A distribute is stored for some of its accounts, and each is well formed.
LEMMA DistributeKeeps ==
    ASSUME NEW t \in Nat, Fine(account, t), NEW u \in Users, NEW to \in SUBSET Users,
           NEW x \in Amounts, burnt \in Int, DistributeTx(u, to, x, t)
    PROVE  /\ Fine(account', t) /\ Same(account', account) /\ burnt' \in Int /\ burnt' >= burnt
           /\ ~torn' => ~torn /\ Held(account') = Held(account) - (burnt' - burnt)
<1>. DEFINE k == Cardinality(to \ {u})
            cost == Fee + k * x
            sent == Move(account, u, -cost)
            shared == [v \in Users |-> IF v \in to \ {u} THEN Move(sent, v, x)[v] ELSE sent[v]]
            after == Maintained(shared, u, t)
            m == Maintenance(shared[u], t)
            stored == {v \in to \cup {u} : account[v].stamp = t}
<1>0. /\ burnt' = IF u \in stored THEN burnt + Fee + m ELSE burnt
      /\ ~torn' => ~torn /\ stored \in {{}, to \cup {u}}
    <2>1. burnt' = IF u \in stored THEN burnt + Fee + m ELSE burnt
        BY DEF DistributeTx
    <2>2. torn' = (torn \/ stored \notin {{}, to \cup {u}})
        BY DEF DistributeTx
    <2>. HIDE DEF m, stored
    <2>. QED  BY <2>1, <2>2
<1>1. /\ account[u].kind = "user" /\ \A v \in to : account[v].kind = "user"
      /\ account[u].balance >= Cardinality(to) * x + Fee
      /\ Commit(after, t)
      /\ burnt' = burnt \/ burnt' = burnt + Fee + m
    <2>1. /\ account[u].kind = "user" /\ \A v \in to : account[v].kind = "user"
          /\ account[u].balance >= Cardinality(to) * x + Fee
        BY DEF DistributeTx, CanPay, IsUser
    <2>2. Commit(after, t)
        BY DEF DistributeTx
    <2>3. burnt' = burnt \/ burnt' = burnt + Fee + m
        BY DEF DistributeTx
    <2>. HIDE DEF after, m
    <2>. QED  BY <2>1, <2>2, <2>3
<1>2. cost \in Nat /\ -cost \in Int /\ x \in Nat /\ Fee \in Nat /\ account[u].balance \in Int
      /\ account[u].balance + (-cost) >= 0 /\ k * x \in Nat /\ cost = Fee + k * x
    <2>1. x \in Nat /\ Fee \in Nat /\ account[u].balance \in Int
        BY AmountsAssumption DEF Fine, Account
    <2>2. IsFiniteSet(to) /\ IsFiniteSet(to \ {u})
        BY UsersAssumption, FS_Subset
    <2>3. k \in Nat /\ Cardinality(to) \in Nat /\ k <= Cardinality(to)
        BY <2>2, FS_Subset, FS_CardinalityType
    <2>. HIDE DEF k
    <2>4. \A i, j, y \in Nat : i <= j => /\ i * y \in Nat /\ j * y \in Nat
                                         /\ i * y <= j * y
        OBVIOUS
    <2>5. k * x \in Nat /\ Cardinality(to) * x \in Nat /\ k * x <= Cardinality(to) * x
        BY <2>1, <2>3, <2>4
    <2>6. cost \in Nat /\ -cost \in Int /\ account[u].balance + (-cost) >= 0
        BY <1>1, <2>1, <2>5
    <2>7. cost = Fee + k * x
        OBVIOUS
    <2>. HIDE DEF cost
    <2>. QED  BY <2>1, <2>5, <2>6, <2>7
<1>. HIDE DEF cost
<1>3. /\ Fine(sent, t) /\ Same(sent, account)
      /\ sent[u] = [account[u] EXCEPT !.balance = account[u].balance + (-cost)]
      /\ \A w \in Users \ {u} : sent[w] = account[w]
      /\ Held(sent) = Held(account) + (-cost)
    <2>1. account[u].kind # "none" /\ -cost \in Int /\ account[u].balance + (-cost) >= 0
        BY <1>1, <1>2
    <2>. QED  BY <2>1, MoveFine
<1>4. account[u] \in Account
    BY DEF Fine
<1>5. /\ sent[u].kind = "user" /\ \A v \in to : sent[v].kind = "user"
      /\ sent[u].stamp = account[u].stamp
    BY <1>1, <1>3, <1>4 DEF Account
<1>. HIDE DEF sent
<1>6. \A v \in to \ {u} : /\ Fine(Move(sent, v, x), t)
                          /\ Same(Move(sent, v, x), sent)
                          /\ Move(sent, v, x)[v] = [sent[v] EXCEPT !.balance = sent[v].balance + x]
    <2>. SUFFICES ASSUME NEW v \in to \ {u}
                  PROVE  /\ Fine(Move(sent, v, x), t)
                         /\ Same(Move(sent, v, x), sent)
                         /\ Move(sent, v, x)[v] = [sent[v] EXCEPT !.balance = sent[v].balance + x]
        OBVIOUS
    <2>1. v \in Users /\ x \in Int /\ sent[v].balance \in Int /\ sent[v].balance + x >= 0
        BY <1>2, <1>3 DEF Fine, Account
    <2>2. Fine(sent, t) /\ sent[v].kind # "none"
        BY <1>3, <1>5
    <2>. QED  BY <2>1, <2>2, MoveFine
<1>7. /\ Fine(shared, t) /\ Same(shared, sent) /\ shared[u].kind = "user"
      /\ \A v \in to \ {u} : Worth(shared, v) = Worth(sent, v) + x
      /\ \A v \in Users \ (to \ {u}) : shared[v] = sent[v]
      /\ \A v \in Users : shared[v].stamp = sent[v].stamp
    <2>1. \A v \in Users : shared[v] = IF v \in to \ {u} THEN Move(sent, v, x)[v] ELSE sent[v]
        OBVIOUS
    <2>2. \A v \in Users : shared[v] \in Account
        BY <1>3, <1>6, <2>1 DEF Fine
    <2>3. shared \in [Users -> Account]
        BY <2>2
    <2>4. shared[u].kind = "user"
        BY <1>5, <2>1
    <2>5. Same(shared, sent)
        BY <1>6, <2>1 DEF Same
    <2>7. \A v \in to \ {u} : /\ Worth(shared, v) = Worth(sent, v) + x
                            /\ shared[v].stamp = sent[v].stamp
        <3>. SUFFICES ASSUME NEW v \in to \ {u}
                      PROVE  /\ Worth(shared, v) = Worth(sent, v) + x
                             /\ shared[v].stamp = sent[v].stamp
            OBVIOUS
        <3>1. shared[v] = [sent[v] EXCEPT !.balance = sent[v].balance + x]
            BY <1>6, <2>1
        <3>. HIDE DEF shared
        <3>2. sent[v] \in Account /\ x \in Int
            BY <1>2, <1>3 DEF Fine
        <3>3. /\ shared[v].balance = sent[v].balance + x /\ shared[v].stake = sent[v].stake
              /\ shared[v].stamp = sent[v].stamp
              /\ sent[v].balance \in Int /\ sent[v].stake \in Int
            BY <3>1, <3>2 DEF Account
        <3>. QED  BY <3>2, <3>3 DEF Worth
    <2>8. \A v \in Users \ (to \ {u}) : shared[v] = sent[v]
        BY <2>1
    <2>. HIDE DEF shared
    <2>6. \A v \in Users : /\ shared[v].stamp \in 0 .. t /\ shared[v].balance >= 0
                           /\ shared[v].kind = "none" => shared[v] = NoAccount
                           /\ shared[v].request > 0 => shared[v].stake > 0
        <3>. SUFFICES ASSUME NEW v \in Users
                      PROVE  /\ shared[v].stamp \in 0 .. t /\ shared[v].balance >= 0
                             /\ shared[v].kind = "none" => shared[v] = NoAccount
                             /\ shared[v].request > 0 => shared[v].stake > 0
            OBVIOUS
        <3>1. CASE v \in to \ {u}
            <4>1. shared[v] = Move(sent, v, x)[v] /\ Fine(Move(sent, v, x), t)
                BY <3>1, <1>6, <2>1
            <4>. QED  BY <4>1 DEF Fine
        <3>2. CASE v \notin to \ {u}
            BY <3>2, <1>3, <2>1 DEF Fine
        <3>. QED  BY <3>1, <3>2
    <2>9. \A v \in Users : shared[v].stamp = sent[v].stamp
        BY <2>7, <2>8
    <2>. QED  BY <2>3, <2>4, <2>5, <2>6, <2>7, <2>8, <2>9 DEF Fine
<1>. HIDE DEF shared
<1>8. /\ Fine(after, t) /\ Same(after, shared) /\ Held(after) = Held(shared) - m
      /\ after[u].stamp = shared[u].stamp
      /\ \A v \in Users \ {u} : after[v] = shared[v]
    BY <1>7, MaintainedFine
<1>9. m \in Nat
    <2>1. shared[u] \in Account /\ shared[u].balance >= 0
        BY <1>7 DEF Fine
    <2>2. m \in 0 .. shared[u].balance
        BY <2>1, MaintenanceFine
    <2>3. shared[u].balance \in Int
        BY <2>1 DEF Account
    <2>. HIDE DEF m
    <2>. QED  BY <2>2, <2>3
<1>. HIDE DEF m
<1>10. burnt' \in Int /\ burnt' >= burnt
    BY <1>1, <1>2, <1>9
<1>11. Same(after, account)
    BY <1>3, <1>7, <1>8 DEF Same
<1>12. /\ \A v \in Users : after[v].stamp = account[v].stamp
       /\ \A v \in Users \ (to \cup {u}) : after[v] = account[v]
    BY <1>3, <1>5, <1>7, <1>8
<1>13. Held(after) = Held(account) - (Fee + m) /\ Held(account) \in Int
    <2>1. \A v \in Users \ (to \ {u}) : Worth(shared, v) = Worth(sent, v)
        BY <1>7 DEF Worth
    <2>2. Held(shared) = Held(sent) + k * x
        <3>. DEFINE T == to \ {u}
        <3>1. T \in SUBSET Users /\ x \in Int
            BY <1>2
        <3>2. /\ \A v \in T : Worth(shared, v) = Worth(sent, v) + x
              /\ \A v \in Users \ T : Worth(shared, v) = Worth(sent, v)
            BY <1>7, <2>1
        <3>. HIDE DEF T
        <3>3. Held(shared) = Held(sent) + Cardinality(T) * x
            BY <1>3, <1>7, <3>1, <3>2, HeldRaised
        <3>. QED  BY <3>3 DEF T
    <2>3. Held(account) \in Int
        BY HeldChanges
    <2>. HIDE DEF k
    <2>. QED  BY <1>2, <1>3, <1>8, <1>9, <2>2, <2>3
<1>. HIDE DEF after
<1>14. /\ Fine(account', t) /\ Same(account', account)
       /\ \A v \in Users : account'[v] = IF after[v].stamp = t THEN after[v] ELSE account[v]
    BY <1>1, <1>8, <1>11, CommitFine
<1>15. ASSUME ~torn'
       PROVE  ~torn /\ Held(account') = Held(account) - (burnt' - burnt)
    <2>1. ~torn /\ (stored = {} \/ stored = to \cup {u})
        BY <1>0, <1>15
    <2>2. CASE stored = {}
        <3>1. \A v \in Users : account'[v] = account[v]
            BY <1>12, <1>14, <2>2
        <3>2. Held(account') = Held(account)
            BY <1>14, <3>1, HeldChanges DEF Worth
        <3>3. burnt' = burnt
            BY <1>0, <2>2
        <3>. QED  BY <1>13, <2>1, <3>2, <3>3
    <2>3. CASE stored = to \cup {u}
        <3>1. \A v \in to \cup {u} : account[v].stamp = t
            BY <2>3
        <3>2. \A v \in Users : after[v].stamp = t \/ Worth(after, v) = Worth(account, v)
            BY <1>12, <3>1 DEF Worth
        <3>3. Held(account') = Held(after)
            BY <1>1, <1>8, <3>2, CommitFine
        <3>4. burnt' = burnt + Fee + m
            BY <1>0, <2>3
        <3>. HIDE DEF stored
        <3>. QED  BY <1>2, <1>9, <1>13, <2>1, <3>3, <3>4
    <2>. QED  BY <2>1, <2>2, <2>3
<1>. QED  BY <1>10, <1>14, <1>15

-------------------------------------------------------------------------------
(* Legacy staking.                                                          *)

\* What legacy staking leaves alone.
SameButStake(a, b) ==
    \A u \in Users : /\ a[u].alias = b[u].alias /\ a[u].chats = b[u].chats
                     /\ a[u].verified = b[u].verified

\* Changes of the stake and of the request to remove it.
LEMMA StakeFieldFine ==
    ASSUME NEW a, NEW t \in Nat, Fine(a, t), NEW u \in Users, a[u].kind # "none",
           NEW c \in Account, c.kind = a[u].kind, c.stamp = a[u].stamp,
           c.balance = a[u].balance, c.request > 0 => c.stake > 0,
           c.alias = a[u].alias, c.chats = a[u].chats, c.verified = a[u].verified
    PROVE  /\ Fine([a EXCEPT ![u] = c], t)
           /\ \A v \in Users : [a EXCEPT ![u] = c][v] = IF v = u THEN c ELSE a[v]
           /\ SameButStake([a EXCEPT ![u] = c], a)
           /\ Held([a EXCEPT ![u] = c]) = Held(a) + (c.stake - a[u].stake)
<1>. DEFINE b == [a EXCEPT ![u] = c]
<1>1. b \in [Users -> Account] /\ \A v \in Users : b[v] = IF v = u THEN c ELSE a[v]
    BY DEF Fine
<1>. HIDE DEF b
<1>2. SameButStake(b, a)
    BY <1>1 DEF SameButStake
<1>3. \A v \in Users : /\ b[v].stamp \in 0 .. t /\ b[v].balance >= 0
                       /\ b[v].kind = "none" => b[v] = NoAccount
                       /\ b[v].request > 0 => b[v].stake > 0
    BY <1>1 DEF Fine
<1>4. Fine(b, t)
    BY <1>1, <1>3 DEF Fine
<1>5. Held(b) = Held(a) + (c.stake - a[u].stake)
    <2>1. \A v \in Users \ {u} : Worth(b, v) = Worth(a, v)
        BY <1>1 DEF Worth
    <2>2. Held(b) = Held(a) + (Worth(b, u) - Worth(a, u))
        BY <1>4, <2>1, HeldChanges
    <2>3. a[u].balance \in Int /\ a[u].stake \in Int /\ c.stake \in Int
        BY DEF Fine, Account
    <2>4. Worth(b, u) - Worth(a, u) = c.stake - a[u].stake
        BY <1>1, <2>3 DEF Worth
    <2>. QED  BY <2>2, <2>4
<1>. QED  BY <1>1, <1>2, <1>4, <1>5 DEF b

\* The user's stake becomes what is required, and what he paid for it is staked.
LEMMA StakeKeeps ==
    ASSUME NEW t \in Nat, Fine(account, t), NEW u \in Users, required \in StakeLevels,
           burnt \in Int, StakeTx(u, t)
    PROVE  /\ Fine(account', t) /\ SameButStake(account', account) /\ burnt' \in Int /\ burnt' >= burnt
           /\ \A v \in Users :
                 /\ account'[v].request = account[v].request
                 /\ account'[v].stake = IF v = u THEN required ELSE account[v].stake
           /\ Held(account') = Held(account) - (burnt' - burnt)
<1>. DEFINE paid == Move(account, u, -required)
            kept == Maintained(paid, u, t)
            c == [kept[u] EXCEPT !.stake = required]
            after == [kept EXCEPT ![u] = c]
            final == Stamped(after, {u}, t)
            m == Maintenance(paid[u], t)
<1>1. Commit(final, t)
    BY DEF StakeTx
<1>2. burnt' = burnt + account[u].stake + m
    BY DEF StakeTx
<1>3. UNCHANGED legacyVars
    BY DEF StakeTx
<1>4. account[u].kind = "user" /\ account[u].balance >= required
    BY DEF StakeTx, CanPay, IsUser
<1>5. required \in Nat \ {0} /\ -required \in Int
    BY LegacyAssumption
<1>6. account[u] \in Account /\ account[u].balance \in Int /\ account[u].balance + (-required) >= 0
      /\ account[u].stake \in Nat
    BY <1>4, <1>5 DEF Fine, Account
<1>7. /\ Fine(paid, t) /\ Same(paid, account)
      /\ paid[u] = [account[u] EXCEPT !.balance = account[u].balance + (-required)]
      /\ Held(paid) = Held(account) + (-required)
      /\ \A v \in Users \ {u} : paid[v] = account[v]
    BY <1>4, <1>5, <1>6, MoveFine
<1>8. paid[u].kind = "user"
    BY <1>4, <1>6, <1>7 DEF Account
<1>. HIDE DEF paid
<1>9. paid[u] \in Account /\ paid[u].balance >= 0
    BY <1>7 DEF Fine
<1>10. m \in Nat
    <2>1. m \in 0 .. paid[u].balance /\ paid[u].balance \in Int
        BY <1>9, MaintenanceFine DEF Account
    <2>. HIDE DEF m
    <2>. QED  BY <2>1
<1>. HIDE DEF m
<1>11. /\ Fine(kept, t) /\ Same(kept, paid) /\ kept[u].kind = "user"
       /\ Held(kept) = Held(paid) - m
       /\ \A v \in Users \ {u} : kept[v] = paid[v]
    <2>1. Fine(paid, t) /\ paid[u].kind # "none"
        BY <1>7, <1>8
    <2>. QED  BY <1>8, <2>1, MaintainedFine DEF m
<1>. HIDE DEF kept
<1>12. kept[u] \in Account
    BY <1>11 DEF Fine
<1>13. /\ c \in Account /\ c.kind = kept[u].kind /\ c.stamp = kept[u].stamp
       /\ c.balance = kept[u].balance /\ c.stake = required
       /\ c.request = kept[u].request /\ c.alias = kept[u].alias
       /\ c.chats = kept[u].chats /\ c.verified = kept[u].verified
    BY <1>5, <1>12 DEF Account
<1>. HIDE DEF c
<1>14. /\ Fine(after, t) /\ SameButStake(after, kept)
       /\ Held(after) = Held(kept) + (c.stake - kept[u].stake)
       /\ \A v \in Users : after[v] = IF v = u THEN c ELSE kept[v]
    <2>1. c.request > 0 => c.stake > 0
        BY <1>5, <1>13
    <2>. QED  BY <1>11, <1>13, <2>1, StakeFieldFine
<1>15. after[u] \in Account /\ after[u].kind # "none"
    BY <1>11, <1>13, <1>14
<1>. HIDE DEF after
<1>16. /\ Fine(final, t) /\ Same(final, after) /\ final[u] = [after[u] EXCEPT !.stamp = t]
       /\ Held(final) = Held(after) /\ \A v \in Users \ {u} : final[v] = after[v]
    BY <1>14, <1>15, StampedFine
<1>17. final[u].stamp = t
    BY <1>15, <1>16 DEF Account
<1>. HIDE DEF final
<1>18. /\ Fine(account', t) /\ Held(account') = Held(final)
       /\ \A v \in Users : account'[v] = IF final[v].stamp = t THEN final[v] ELSE account[v]
    <2>1. \A v \in Users \ {u} : final[v] = account[v]
        BY <1>7, <1>11, <1>14, <1>16
    <2>2. \A v \in Users : final[v].stamp = t \/ Worth(final, v) = Worth(account, v)
        BY <1>17, <2>1 DEF Worth
    <2>. QED  BY <1>1, <1>16, <2>2, CommitFine
<1>19. \A v \in Users : /\ final[v].alias = account[v].alias
                        /\ final[v].chats = account[v].chats
                        /\ final[v].verified = account[v].verified
                        /\ final[v].request = account[v].request
                        /\ final[v].stake = IF v = u THEN required ELSE account[v].stake
    BY <1>7, <1>11, <1>13, <1>14, <1>16 DEF Same, SameButStake
<1>20. \A v \in Users : /\ account'[v].alias = account[v].alias
                        /\ account'[v].chats = account[v].chats
                        /\ account'[v].verified = account[v].verified
                        /\ account'[v].request = account[v].request
                        /\ account'[v].stake = IF v = u THEN required ELSE account[v].stake
    BY <1>17, <1>18, <1>19
<1>21. Held(account') = Held(account) - (burnt' - burnt)
    <2>1. Held(account) \in Int
        BY HeldChanges
    <2>2. kept[u].stake = account[u].stake
        BY <1>7, <1>11 DEF Same
    <2>. QED  BY <1>2, <1>5, <1>6, <1>7, <1>10, <1>11, <1>13, <1>14, <1>16, <1>18, <2>1, <2>2
<1>. QED  BY <1>2, <1>3, <1>6, <1>10, <1>18, <1>20, <1>21 DEF SameButStake

\* The request is stored only with an account of the same timestamp; then the user
\* is no longer one who was paid since.
LEMMA RemoveStakeRequestKeeps ==
    ASSUME NEW t \in Nat, Fine(account, t), NEW u \in Users, required \in StakeLevels,
           NEW clock \in Nat, RemoveStakeRequestTx(u, clock, t)
    PROVE  /\ Fine(account', t) /\ SameButStake(account', account)
           /\ \A v \in Users :
                 /\ account'[v].stake = account[v].stake
                 /\ account'[v].request = account[v].request \/ (v = u /\ u \notin paidSince')
           /\ paidSince' \subseteq paidSince
           /\ Held(account') = Held(account)
<1>. DEFINE c == [account[u] EXCEPT !.request = clock]
            after == [account EXCEPT ![u] = c]
<1>1. Commit(after, t)
    BY DEF RemoveStakeRequestTx
<1>2. /\ account[u].kind = "user" /\ account[u].stake >= required
      /\ paidSince' = IF account[u].stamp = t THEN paidSince \ {u} ELSE paidSince
    BY DEF RemoveStakeRequestTx, HasStake, IsUser
<1>3. required \in Nat \ {0} /\ account[u] \in Account
    BY LegacyAssumption DEF Fine
<1>4. /\ c \in Account /\ c.kind = account[u].kind /\ c.stamp = account[u].stamp
      /\ c.balance = account[u].balance /\ c.stake = account[u].stake
      /\ c.alias = account[u].alias
      /\ c.chats = account[u].chats /\ c.verified = account[u].verified
    BY <1>3 DEF Account
<1>. HIDE DEF c
<1>5. account[u].stake > 0
    BY <1>2, <1>3 DEF Account
<1>6. /\ Fine(after, t) /\ SameButStake(after, account)
      /\ Held(after) = Held(account) + (c.stake - account[u].stake)
      /\ \A v \in Users : after[v] = IF v = u THEN c ELSE account[v]
    BY <1>2, <1>4, <1>5, StakeFieldFine
<1>. HIDE DEF after
<1>7. /\ Fine(account', t) /\ Held(account') = Held(after)
      /\ \A v \in Users : account'[v] = IF after[v].stamp = t THEN after[v] ELSE account[v]
    <2>1. \A v \in Users : Worth(after, v) = Worth(account, v)
        BY <1>4, <1>6 DEF Worth
    <2>. QED  BY <1>1, <1>6, <2>1, CommitFine
<1>8. \A v \in Users : after[v].stake = account[v].stake
    BY <1>4, <1>6
<1>9. SameButStake(account', account)
    BY <1>6, <1>7 DEF SameButStake
<1>10. \A v \in Users : /\ account'[v].stake = account[v].stake
                        /\ account'[v].request = account[v].request \/ (v = u /\ u \notin paidSince')
    BY <1>2, <1>4, <1>6, <1>7, <1>8
<1>11. Held(account') = Held(account)
    <2>1. Held(account) \in Int /\ account[u].stake \in Int
        BY <1>3, HeldChanges DEF Account
    <2>. QED  BY <1>4, <1>6, <1>7, <2>1
<1>. QED  BY <1>2, <1>7, <1>9, <1>10, <1>11

\* The stake and the request are gone.
LEMMA RemoveStakeKeeps ==
    ASSUME NEW t \in Nat, Fine(account, t), NEW u \in Users, required \in StakeLevels,
           burnt \in Int, NEW clock \in Nat, RemoveStakeTx(u, clock, t)
    PROVE  /\ Fine(account', t) /\ SameButStake(account', account) /\ burnt' \in Int /\ burnt' >= burnt
           /\ \A v \in Users :
                 /\ account'[v].request = IF v = u THEN 0 ELSE account[v].request
                 /\ account'[v].stake = IF v = u THEN 0 ELSE account[v].stake
           /\ Held(account') = Held(account) - (burnt' - burnt)
<1>. DEFINE back == Move(account, u, required)
            c == [back[u] EXCEPT !.stake = 0, !.request = 0]
            after == [back EXCEPT ![u] = c]
            final == Stamped(after, {u}, t)
<1>1. account[u] \in Account /\ back \in [Users -> Account]
    <2>1. account[u] \in Account /\ account[u].kind # "none" /\ required \in Int
          /\ account[u].balance \in Int /\ account[u].balance + required >= 0
        <3>1. account[u] \in Account /\ account[u].balance >= 0
            BY DEF Fine
        <3>2. account[u].kind = "user"
            BY DEF RemoveStakeTx, HasStake, IsUser
        <3>3. required \in Nat
            BY LegacyAssumption
        <3>4. account[u].balance \in Int
            BY <3>1 DEF Account
        <3>. QED  BY <3>1, <3>2, <3>3, <3>4
    <2>2. Fine(back, t)
        BY <2>1, MoveFine
    <2>. QED  BY <2>1, <2>2 DEF Fine
<1>2. Returned(u) = after
    <2>. HIDE DEF back
    <2>1. Returned(u) = [back EXCEPT ![u].stake = 0, ![u].request = 0]
        BY DEF Returned, back
    <2>. QED  BY <1>1, <2>1
<1>3. Commit(final, t) /\ burnt' = burnt + (account[u].stake - required)
    BY <1>2 DEF RemoveStakeTx
<1>4. account[u].kind = "user" /\ account[u].stake >= required
    BY DEF RemoveStakeTx, HasStake, IsUser
<1>5. required \in Nat \ {0}
    BY LegacyAssumption
<1>6. account[u].balance \in Int /\ account[u].balance + required >= 0
      /\ account[u].stake \in Nat
    BY <1>1, <1>5 DEF Fine, Account
<1>7. /\ Fine(back, t) /\ Same(back, account)
      /\ back[u] = [account[u] EXCEPT !.balance = account[u].balance + required]
      /\ Held(back) = Held(account) + required
      /\ \A v \in Users \ {u} : back[v] = account[v]
    BY <1>4, <1>5, <1>6, MoveFine
<1>8. back[u].kind = "user"
    BY <1>1, <1>4, <1>7 DEF Account
<1>. HIDE DEF back
<1>12. back[u] \in Account
    BY <1>7 DEF Fine
<1>13. /\ c \in Account /\ c.kind = back[u].kind /\ c.stamp = back[u].stamp
       /\ c.balance = back[u].balance /\ c.stake = 0
       /\ c.request = 0 /\ c.alias = back[u].alias
       /\ c.chats = back[u].chats /\ c.verified = back[u].verified
    BY <1>12 DEF Account
<1>. HIDE DEF c
<1>14. /\ Fine(after, t) /\ SameButStake(after, back)
       /\ Held(after) = Held(back) + (c.stake - back[u].stake)
       /\ \A v \in Users : after[v] = IF v = u THEN c ELSE back[v]
    <2>1. Fine(back, t) /\ back[u].kind # "none" /\ (c.request > 0 => c.stake > 0)
        BY <1>7, <1>8, <1>13
    <2>. QED  BY <1>13, <2>1, StakeFieldFine
<1>15. after[u] \in Account /\ after[u].kind # "none"
    BY <1>8, <1>13, <1>14
<1>. HIDE DEF after
<1>16. /\ Fine(final, t) /\ Same(final, after) /\ final[u] = [after[u] EXCEPT !.stamp = t]
       /\ Held(final) = Held(after) /\ \A v \in Users \ {u} : final[v] = after[v]
    BY <1>14, <1>15, StampedFine
<1>17. final[u].stamp = t
    BY <1>15, <1>16 DEF Account
<1>. HIDE DEF final
<1>18. /\ Fine(account', t) /\ Held(account') = Held(final)
       /\ \A v \in Users : account'[v] = IF final[v].stamp = t THEN final[v] ELSE account[v]
    <2>1. \A v \in Users \ {u} : final[v] = account[v]
        BY <1>7, <1>14, <1>16
    <2>2. \A v \in Users : final[v].stamp = t \/ Worth(final, v) = Worth(account, v)
        BY <1>17, <2>1 DEF Worth
    <2>. QED  BY <1>3, <1>16, <2>2, CommitFine
<1>19. \A v \in Users : /\ final[v].alias = account[v].alias
                        /\ final[v].chats = account[v].chats
                        /\ final[v].verified = account[v].verified
                        /\ final[v].request = IF v = u THEN 0 ELSE account[v].request
                        /\ final[v].stake = IF v = u THEN 0 ELSE account[v].stake
    BY <1>7, <1>13, <1>14, <1>16 DEF Same, SameButStake
<1>20. \A v \in Users : /\ account'[v].alias = account[v].alias
                        /\ account'[v].chats = account[v].chats
                        /\ account'[v].verified = account[v].verified
                        /\ account'[v].request = IF v = u THEN 0 ELSE account[v].request
                        /\ account'[v].stake = IF v = u THEN 0 ELSE account[v].stake
    BY <1>17, <1>18, <1>19
<1>21. Held(account') = Held(account) - (burnt' - burnt)
    <2>1. Held(account) \in Int
        BY HeldChanges
    <2>2. back[u].stake = account[u].stake
        BY <1>7 DEF Same
    <2>. QED  BY <1>3, <1>5, <1>6, <1>7, <1>13, <1>14, <1>16, <1>18, <2>1, <2>2
<1>. QED  BY <1>3, <1>4, <1>5, <1>6, <1>18, <1>20, <1>21 DEF SameButStake

\* A reward drops the request of the staker it is paid to.
LEMMA NodePaysStakerKeeps ==
    ASSUME NEW t \in Nat, Fine(account, t), NEW u \in Users, NEW n \in Nodes,
           NEW m \in Nodes, node[n].balance \in Nat, NodePaysStaker(n, m, u, t)
    PROVE  /\ Fine(account', t) /\ SameButStake(account', account)
           /\ \A v \in Users :
                 /\ account'[v].request = IF v = u THEN 0 ELSE account[v].request
                 /\ account'[v].stake = account[v].stake
           /\ Held(account') = Held(account) + (node[n].balance + RewardAmount)
<1>. DEFINE x == node[n].balance + RewardAmount
            back == Move(account, u, x)
            c == [back[u] EXCEPT !.request = 0]
            after == [back EXCEPT ![u] = c]
            final == Stamped(after, {u}, t)
<1>1. Commit(final, t) /\ account[u].kind = "user"
    BY DEF NodePaysStaker, Paid, HasStake, IsUser
<1>2. x \in Nat /\ account[u] \in Account
    BY LegacyAssumption DEF Fine
<1>. HIDE DEF x
<1>3. account[u].balance \in Int /\ account[u].balance + x >= 0 /\ x \in Int
    BY <1>2 DEF Fine, Account
<1>7. /\ Fine(back, t) /\ Same(back, account)
      /\ back[u] = [account[u] EXCEPT !.balance = account[u].balance + x]
      /\ Held(back) = Held(account) + x
      /\ \A v \in Users \ {u} : back[v] = account[v]
    BY <1>1, <1>3, MoveFine
<1>8. back[u].kind = "user"
    BY <1>1, <1>2, <1>7 DEF Account
<1>. HIDE DEF back
<1>12. back[u] \in Account
    BY <1>7 DEF Fine
<1>13. /\ c \in Account /\ c.kind = back[u].kind /\ c.stamp = back[u].stamp
       /\ c.balance = back[u].balance /\ c.stake = back[u].stake
       /\ c.request = 0 /\ c.alias = back[u].alias
       /\ c.chats = back[u].chats /\ c.verified = back[u].verified
    BY <1>12 DEF Account
<1>. HIDE DEF c
<1>14. /\ Fine(after, t) /\ SameButStake(after, back)
       /\ Held(after) = Held(back) + (c.stake - back[u].stake)
       /\ \A v \in Users : after[v] = IF v = u THEN c ELSE back[v]
    <2>1. Fine(back, t) /\ back[u].kind # "none" /\ (c.request > 0 => c.stake > 0)
        BY <1>7, <1>8, <1>13
    <2>. QED  BY <1>13, <2>1, StakeFieldFine
<1>15. after[u] \in Account /\ after[u].kind # "none"
    BY <1>8, <1>13, <1>14
<1>. HIDE DEF after
<1>16. /\ Fine(final, t) /\ Same(final, after) /\ final[u] = [after[u] EXCEPT !.stamp = t]
       /\ Held(final) = Held(after) /\ \A v \in Users \ {u} : final[v] = after[v]
    BY <1>14, <1>15, StampedFine
<1>17. final[u].stamp = t
    BY <1>15, <1>16 DEF Account
<1>. HIDE DEF final
<1>18. /\ Fine(account', t) /\ Held(account') = Held(final)
       /\ \A v \in Users : account'[v] = IF final[v].stamp = t THEN final[v] ELSE account[v]
    <2>1. \A v \in Users \ {u} : final[v] = account[v]
        BY <1>7, <1>14, <1>16
    <2>2. \A v \in Users : final[v].stamp = t \/ Worth(final, v) = Worth(account, v)
        BY <1>17, <2>1 DEF Worth
    <2>. QED  BY <1>1, <1>16, <2>2, CommitFine
<1>19. \A v \in Users : /\ final[v].alias = account[v].alias
                        /\ final[v].chats = account[v].chats
                        /\ final[v].verified = account[v].verified
                        /\ final[v].request = IF v = u THEN 0 ELSE account[v].request
                        /\ final[v].stake = account[v].stake
    BY <1>7, <1>13, <1>14, <1>16 DEF Same, SameButStake
<1>20. \A v \in Users : /\ account'[v].alias = account[v].alias
                        /\ account'[v].chats = account[v].chats
                        /\ account'[v].verified = account[v].verified
                        /\ account'[v].request = IF v = u THEN 0 ELSE account[v].request
                        /\ account'[v].stake = account[v].stake
    BY <1>17, <1>18, <1>19
<1>21. Held(account') = Held(account) + (node[n].balance + RewardAmount)
    <2>1. Held(account) \in Int /\ back[u].stake \in Int
        BY <1>12, HeldChanges DEF Account
    <2>2. Held(account') = Held(account) + x
        BY <1>2, <1>7, <1>13, <1>14, <1>16, <1>18, <2>1
    <2>. QED  BY <2>2 DEF x
<1>. QED  BY <1>18, <1>20, <1>21 DEF SameButStake
===============================================================================
