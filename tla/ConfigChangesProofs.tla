------------------------- MODULE ConfigChangesProofs -------------------------
(* What AccountLedger needs to know of the queue of configuration changes.    *)
(*                                                                            *)
(* What a walk over the queue has counted of a path is the number of the      *)
(* later changes that name it, up to the quota (WalkCounts).  So a pruned     *)
(* queue is the part of the queue that Stays picks (PrunedPart).  The         *)
(* invariant QueueInv says that the queue is a part of all the changes, and   *)
(* that none is missing that has, for one of its paths, fewer later changes   *)
(* than the quota; whatever is missing later changes can only overtake.       *)
EXTENDS ConfigChanges, TotalsProofs

\* Downward induction over the positions of a list.
LEMMA Downward ==
    ASSUME NEW n \in Nat, NEW G, n + 1 \in G, \A i \in 1 .. n : i + 1 \in G => i \in G
    PROVE  \A i \in 1 .. n + 1 : i \in G
<1>. DEFINE B == {k \in Nat : k <= n /\ n + 1 - k \notin G}
<1>1. ASSUME B # {} PROVE FALSE
    <2>1. PICK k \in B : \A j \in B : <<j, k>> \notin OpToRel(<, Nat)
        <3>1. B \subseteq Nat
            OBVIOUS
        <3>. HIDE DEF B
        <3>. QED  BY <1>1, <3>1, NatLessThanWellFounded, WFMin
    <2>2. k \in Nat /\ k <= n /\ n + 1 - k \notin G /\ k # 0
        OBVIOUS
    <2>3. k - 1 \in Nat
        BY <2>2
    <2>4. k - 1 \notin B
        <3>1. <<k - 1, k>> \in OpToRel(<, Nat)
            BY <2>2 DEF OpToRel
        <3>. QED  BY <2>1, <3>1
    <2>5. n + 1 - (k - 1) \in G
        BY <2>2, <2>3, <2>4
    <2>6. n + 1 - k \in 1 .. n /\ n + 1 - (k - 1) = (n + 1 - k) + 1
        BY <2>2
    <2>. QED  BY <2>2, <2>5, <2>6
<1>2. ASSUME NEW i \in 1 .. n + 1 PROVE i \in G
    <2>1. n + 1 - i \in Nat /\ n + 1 - i <= n /\ n + 1 - (n + 1 - i) = i
        OBVIOUS
    <2>. QED  BY <1>1, <2>1
<1>. QED  BY <1>2

LEMMA QuotaValue ==
    /\ Quota \in Nat \ {0}
    /\ \A k \in Nat : k = 0 \/ k < Keep <=> k < Quota
<1>1. Keep \in Nat
    BY ConfigAssumption
<1>2. Quota \in {1, Keep} /\ \A y \in {1, Keep} : Quota >= y
    <2>1. \E x \in {1, Keep} : \A y \in {1, Keep} : x >= y
        <3>1. CASE Keep >= 1  BY <1>1, <3>1
        <3>2. CASE ~(Keep >= 1)  BY <1>1, <3>2
        <3>. QED  BY <3>1, <3>2
    <2>. QED  BY <2>1 DEF Quota, Max
<1>. QED  BY <1>1, <1>2

-----------------------------------------------------------------------------
(* The later changes of a path.                                             *)

After(list, i, p) == {j \in i + 1 .. Len(list) : p \in list[j].paths}

\* Counting down, each change that names the path adds one.
LEMMA LaterFacts ==
    ASSUME NEW list \in Seq(Change), NEW p
    PROVE  /\ \A i \in Nat : /\ IsFiniteSet(After(list, i, p))
                             /\ Later(list, i, p) = Cardinality(After(list, i, p))
                             /\ Later(list, i, p) \in Nat
           /\ Later(list, Len(list), p) = 0
           /\ \A i \in 1 .. Len(list) :
                 Later(list, i - 1, p) = IF p \in list[i].paths THEN Later(list, i, p) + 1
                                         ELSE Later(list, i, p)
           /\ \A i, j \in Nat : i <= j => Later(list, j, p) <= Later(list, i, p)
<1>1. Len(list) \in Nat
    OBVIOUS
<1>2. ASSUME NEW i \in Nat
      PROVE  /\ IsFiniteSet(After(list, i, p))
             /\ Later(list, i, p) = Cardinality(After(list, i, p))
             /\ Later(list, i, p) \in Nat
    <2>1. IsFiniteSet(i + 1 .. Len(list))
        BY <1>1, FS_Interval
    <2>2. After(list, i, p) \subseteq i + 1 .. Len(list)
        BY DEF After
    <2>3. IsFiniteSet(After(list, i, p))
        BY <2>1, <2>2, FS_Subset
    <2>4. Later(list, i, p) = Cardinality(After(list, i, p))
        BY DEF Later, After
    <2>. QED  BY <2>3, <2>4, FS_CardinalityType
<1>3. Later(list, Len(list), p) = 0
    <2>1. After(list, Len(list), p) = {}
        BY <1>1 DEF After
    <2>. QED  BY <1>1, <1>2, <2>1, FS_EmptySet
<1>4. ASSUME NEW i \in 1 .. Len(list)
      PROVE  Later(list, i - 1, p) = IF p \in list[i].paths THEN Later(list, i, p) + 1
                                     ELSE Later(list, i, p)
    <2>1. i \in Nat /\ i - 1 \in Nat /\ i \notin After(list, i, p)
        BY <1>1 DEF After
    <2>2. CASE p \in list[i].paths
        <3>1. After(list, i - 1, p) = After(list, i, p) \cup {i}
            BY <1>1, <2>2 DEF After
        <3>2. IsFiniteSet(After(list, i, p))
            BY <1>2, <2>1
        <3>3. Cardinality(After(list, i, p) \cup {i}) = Cardinality(After(list, i, p)) + 1
            BY <2>1, <3>2, FS_AddElement
        <3>. QED  BY <1>2, <2>1, <2>2, <3>1, <3>3
    <2>3. CASE p \notin list[i].paths
        <3>1. After(list, i - 1, p) = After(list, i, p)
            BY <1>1, <2>3 DEF After
        <3>. QED  BY <1>2, <2>1, <2>3, <3>1
    <2>. QED  BY <2>2, <2>3
<1>5. ASSUME NEW i \in Nat, NEW j \in Nat, i <= j
      PROVE  Later(list, j, p) <= Later(list, i, p)
    <2>1. After(list, j, p) \subseteq After(list, i, p)
        BY <1>1, <1>5 DEF After
    <2>. QED  BY <1>2, <2>1, FS_Subset
<1>. QED  BY <1>2, <1>3, <1>4, <1>5

\* A list that gets longer has no fewer later changes.
LEMMA LaterAppended ==
    ASSUME NEW list \in Seq(Change), NEW c \in Change, NEW p, NEW i \in Nat
    PROVE  Later(list, i, p) <= Later(Append(list, c), i, p)
<1>. DEFINE more == Append(list, c)
<1>1. more \in Seq(Change) /\ Len(more) = Len(list) + 1 /\ Len(list) \in Nat
      /\ \A j \in 1 .. Len(list) : more[j] = list[j]
    OBVIOUS
<1>. HIDE DEF more
<1>2. After(list, i, p) \subseteq After(more, i, p)
    BY <1>1 DEF After
<1>3. /\ IsFiniteSet(After(more, i, p)) /\ Later(more, i, p) = Cardinality(After(more, i, p))
      /\ Later(list, i, p) = Cardinality(After(list, i, p))
    BY <1>1, LaterFacts
<1>4. Later(list, i, p) <= Later(more, i, p)
    BY <1>2, <1>3, FS_Subset
<1>. QED  BY <1>4 DEF more

-----------------------------------------------------------------------------
(* Parts of a list.                                                         *)

\* The list one is the part of the list other that e picks, in its order.
Picks(e, one, other) ==
    /\ e \in [1 .. Len(one) -> 1 .. Len(other)]
    /\ \A a, b \in 1 .. Len(one) : a < b => e[a] < e[b]
    /\ \A a \in 1 .. Len(one) : one[a] = other[e[a]]
Picked(e, one, j) == \E a \in 1 .. Len(one) : e[a] = j

\* A change of the part has no more later changes there than in the whole list, and
\* as many if all of those are picked.
LEMMA LaterPicked ==
    ASSUME NEW one \in Seq(Change), NEW other \in Seq(Change), NEW e, Picks(e, one, other),
           NEW a \in 1 .. Len(one), NEW p
    PROVE  /\ Later(one, a, p) <= Later(other, e[a], p)
           /\ (\A j \in After(other, e[a], p) : Picked(e, one, j)) =>
                 Later(one, a, p) = Later(other, e[a], p)
<1>. DEFINE S == After(one, a, p)
            T == After(other, e[a], p)
            h == [b \in S |-> e[b]]
<1>1. Len(one) \in Nat /\ Len(other) \in Nat /\ a \in Nat /\ e[a] \in Nat
      /\ \A b \in 1 .. Len(one) : e[b] \in 1 .. Len(other) /\ one[b] = other[e[b]]
    BY DEF Picks
<1>2. \A b \in S : b \in 1 .. Len(one) /\ a < b /\ p \in one[b].paths
    BY <1>1 DEF After
<1>3. \A b \in S : e[b] \in T
    <2>. SUFFICES ASSUME NEW b \in S PROVE e[b] \in T
        OBVIOUS
    <2>1. e[a] < e[b] /\ e[b] \in 1 .. Len(other) /\ p \in other[e[b]].paths
        BY <1>1, <1>2 DEF Picks
    <2>. QED  BY <1>1, <2>1 DEF After
<1>4. \A b, d \in S : e[b] = e[d] => b = d
    <2>. SUFFICES ASSUME NEW b \in S, NEW d \in S, b # d PROVE e[b] # e[d]
        OBVIOUS
    <2>1. b \in Nat /\ d \in Nat /\ e[b] \in Nat /\ e[d] \in Nat
        BY <1>1, <1>2
    <2>2. CASE b < d
        BY <1>2, <2>1, <2>2 DEF Picks
    <2>3. CASE d < b
        BY <1>2, <2>1, <2>3 DEF Picks
    <2>. QED  BY <2>1, <2>2, <2>3
<1>5. /\ IsFiniteSet(S) /\ Later(one, a, p) = Cardinality(S) /\ Later(one, a, p) \in Nat
      /\ IsFiniteSet(T) /\ Later(other, e[a], p) = Cardinality(T) /\ Later(other, e[a], p) \in Nat
    BY <1>1, LaterFacts
<1>6. h \in Injection(S, T)
    <2>. HIDE DEF S, T
    <2>1. h \in [S -> T] /\ \A b, d \in S : h[b] = h[d] => b = d
        BY <1>3, <1>4
    <2>. HIDE DEF h
    <2>. QED  BY <2>1 DEF Injection, IsInjective
<1>7. Cardinality(S) <= Cardinality(T)
    <2>. HIDE DEF S, T, h
    <2>. QED  BY <1>5, <1>6, FS_Injection
<1>8. ASSUME \A j \in T : Picked(e, one, j) PROVE Cardinality(S) = Cardinality(T)
    <2>1. \A j \in T : \E b \in S : h[b] = j
        <3>. SUFFICES ASSUME NEW j \in T PROVE \E b \in S : e[b] = j
            OBVIOUS
        <3>1. PICK b \in 1 .. Len(one) : e[b] = j
            BY <1>8 DEF Picked
        <3>2. e[a] < e[b] /\ p \in one[b].paths /\ e[b] \in Nat
            BY <1>1, <3>1 DEF After
        <3>3. ~(b < a) /\ b # a
            BY <1>1, <3>2 DEF Picks
        <3>4. b \in S
            BY <1>1, <3>2, <3>3 DEF After
        <3>. QED  BY <3>1, <3>4
    <2>2. h \in Surjection(S, T)
        <3>. HIDE DEF S, T
        <3>1. h \in [S -> T]
            BY <1>3
        <3>. QED  BY <2>1, <3>1 DEF Surjection
    <2>. HIDE DEF S, T, h
    <2>. QED  BY <1>5, <1>6, <2>2, FS_Injection
<1>. QED  BY <1>5, <1>7, <1>8

-----------------------------------------------------------------------------
(* The walk of the pruning over the queue.                                  *)

WalksFrom(list, w, i) ==
    w = [j \in i .. Len(list) + 1 |->
           IF j > Len(list) THEN Unvisited ELSE Visited(list[j], w[j + 1])]
Walk(list) == CHOOSE w : WalksFrom(list, w, 1)

LEMMA PrunedIsWalked ==
    ASSUME NEW list
    PROVE  Pruned(list) = Walk(list)[1].kept
BY DEF Pruned, Walk, WalksFrom

LEMMA WalkSteps ==
    ASSUME NEW list \in Seq(Change)
    PROVE  /\ Walk(list)[Len(list) + 1] = Unvisited
           /\ \A i \in 1 .. Len(list) : Walk(list)[i] = Visited(list[i], Walk(list)[i + 1])
<1>. DEFINE n == Len(list)
            G == {i \in 1 .. n + 1 : \E w : WalksFrom(list, w, i)}
<1>1. n \in Nat
    OBVIOUS
<1>2. n + 1 \in G
    <2>. DEFINE w == [j \in n + 1 .. n + 1 |-> Unvisited]
    <2>1. w = [j \in n + 1 .. n + 1 |->
                 IF j > n THEN Unvisited ELSE Visited(list[j], w[j + 1])]
        BY <1>1
    <2>2. WalksFrom(list, w, n + 1)
        BY <2>1 DEF WalksFrom
    <2>. QED  BY <1>1, <2>2
<1>3. ASSUME NEW i \in 1 .. n, i + 1 \in G PROVE i \in G
    <2>1. PICK w : WalksFrom(list, w, i + 1)
        BY <1>3
    <2>. DEFINE one(v, j) == IF j > n THEN Unvisited ELSE Visited(list[j], v[j + 1])
                v == [j \in i .. n + 1 |-> one(w, j)]
    <2>2. w = [j \in i + 1 .. n + 1 |-> one(w, j)]
        BY <2>1 DEF WalksFrom
    <2>3. \A j \in i + 1 .. n + 1 : v[j] = w[j]
        <3>. SUFFICES ASSUME NEW j \in i + 1 .. n + 1 PROVE v[j] = w[j]
            OBVIOUS
        <3>1. j \in i .. n + 1
            BY <1>1
        <3>. HIDE DEF one
        <3>2. v[j] = one(w, j)
            BY <3>1
        <3>3. w[j] = one(w, j)
            BY <2>2
        <3>. QED  BY <3>2, <3>3
    <2>4. \A j \in i .. n + 1 : one(v, j) = one(w, j)
        <3>. SUFFICES ASSUME NEW j \in i .. n + 1, ~(j > n)
                      PROVE  Visited(list[j], v[j + 1]) = Visited(list[j], w[j + 1])
            OBVIOUS
        <3>1. j + 1 \in i + 1 .. n + 1
            BY <1>1
        <3>2. v[j + 1] = w[j + 1]
            BY <2>3, <3>1
        <3>. QED  BY <3>2
    <2>5. v = [j \in i .. n + 1 |-> one(v, j)]
        <3>1. v = [j \in i .. n + 1 |-> one(w, j)]
            OBVIOUS
        <3>. HIDE DEF v, one
        <3>. QED  BY <2>4, <3>1
    <2>6. WalksFrom(list, v, i)
        <3>. HIDE DEF v
        <3>. QED  BY <2>5 DEF WalksFrom
    <2>. QED  BY <1>1, <2>6
<1>4. 1 \in G
    <2>1. \A i \in 1 .. n + 1 : i \in G
        <3>. HIDE DEF G, n
        <3>. QED  BY <1>1, <1>2, <1>3, Downward
    <2>. QED  BY <1>1, <2>1
<1>5. WalksFrom(list, Walk(list), 1)
    <2>1. \E w : WalksFrom(list, w, 1)
        BY <1>4
    <2>. QED  BY <2>1 DEF Walk
<1>. DEFINE w == Walk(list)
<1>6. w = [j \in 1 .. n + 1 |-> IF j > n THEN Unvisited ELSE Visited(list[j], w[j + 1])]
    BY <1>5 DEF WalksFrom
<1>. HIDE DEF w
<1>7. w[n + 1] = Unvisited /\ \A i \in 1 .. n : w[i] = Visited(list[i], w[i + 1])
    BY <1>1, <1>6
<1>. QED  BY <1>7 DEF w

\* What was counted of a path is the number of the later changes that name it.
LEMMA WalkCounts ==
    ASSUME NEW list \in Seq(Change)
    PROVE  \A i \in 1 .. Len(list) + 1 :
              /\ Walk(list)[i].count \in [Paths -> Nat]
              /\ \A p \in Paths :
                    Walk(list)[i].count[p] = IF Later(list, i - 1, p) < Quota
                                             THEN Later(list, i - 1, p) ELSE Quota
<1>. DEFINE n == Len(list)
            upTo(k) == IF k < Quota THEN k ELSE Quota
            G == {i \in 1 .. n + 1 :
                    /\ Walk(list)[i].count \in [Paths -> Nat]
                    /\ \A p \in Paths : Walk(list)[i].count[p] = upTo(Later(list, i - 1, p))}
<1>1. n \in Nat
    OBVIOUS
<1>2. n + 1 \in G
    <2>1. Walk(list)[n + 1].count = [p \in Paths |-> 0]
        BY WalkSteps DEF Unvisited
    <2>2. \A p \in Paths : Later(list, n + 1 - 1, p) = 0
        <3>1. \A p \in Paths : Later(list, n, p) = 0
            BY LaterFacts
        <3>. QED  BY <1>1, <3>1
    <2>. HIDE DEF n
    <2>3. \A p \in Paths : upTo(Later(list, n + 1 - 1, p)) = 0
        BY <2>2, QuotaValue
    <2>. QED  BY <1>1, <2>1, <2>3
<1>3. ASSUME NEW i \in 1 .. n, i + 1 \in G PROVE i \in G
    <2>. DEFINE newer == Walk(list)[i + 1].count
                counted == Counted(newer, list[i].paths)
                count == [p \in Paths |-> newer[p] + IF p \in counted THEN 1 ELSE 0]
    <2>1. Walk(list)[i].count = count
        <3>1. Walk(list)[i] = Visited(list[i], Walk(list)[i + 1])
            BY WalkSteps
        <3>2. Visited(list[i], Walk(list)[i + 1]).count = count
            BY DEF Visited
        <3>. HIDE DEF count
        <3>. QED  BY <3>1, <3>2
    <2>2. newer \in [Paths -> Nat] /\ \A p \in Paths : newer[p] = upTo(Later(list, i, p))
        <3>1. i + 1 - 1 = i
            BY <1>1
        <3>. QED  BY <1>3, <3>1
    <2>3. ASSUME NEW p \in Paths
          PROVE  count[p] \in Nat /\ count[p] = upTo(Later(list, i - 1, p))
        <3>. DEFINE k == Later(list, i, p)
                    c == newer[p]
        <3>1. k \in Nat /\ Later(list, i - 1, p) = IF p \in list[i].paths THEN k + 1 ELSE k
            <4>1. i \in Nat /\ i \in 1 .. Len(list)
                BY <1>1
            <4>. HIDE DEF n
            <4>. QED  BY <4>1, LaterFacts
        <3>2. c \in Nat /\ c = upTo(k)
            BY <2>2
        <3>3. p \in counted <=> p \in list[i].paths /\ c < Quota
            BY <3>2, QuotaValue DEF Counted
        <3>4. count[p] = IF p \in counted THEN c + 1 ELSE c
            BY <3>2
        <3>. HIDE DEF count, counted, newer, k, c
        <3>. QED  BY <3>1, <3>2, <3>3, <3>4, QuotaValue
    <2>. HIDE DEF counted, newer
    <2>4. count \in [Paths -> Nat]
        BY <2>3
    <2>. HIDE DEF count
    <2>. QED  BY <1>1, <2>1, <2>3, <2>4
<1>4. \A i \in 1 .. n + 1 : i \in G
    <2>. HIDE DEF G, n
    <2>. QED  BY <1>1, <1>2, <1>3, Downward
<1>. QED  BY <1>4

\* A part can be extended by an earlier change.
LEMMA PicksOneMore ==
    ASSUME NEW one \in Seq(Change), NEW other \in Seq(Change), NEW d, Picks(d, one, other),
           NEW i \in 1 .. Len(other), \A a \in 1 .. Len(one) : i < d[a]
    PROVE  \E e : /\ Picks(e, <<other[i]>> \o one, other)
                  /\ \A j \in 1 .. Len(other) :
                        Picked(e, <<other[i]>> \o one, j) <=> j = i \/ Picked(d, one, j)
<1>. DEFINE more == <<other[i]>> \o one
            n == Len(one)
            e == [a \in 1 .. n + 1 |-> IF a = 1 THEN i ELSE d[a - 1]]
<1>1. n \in Nat /\ Len(other) \in Nat /\ other[i] \in Change
    OBVIOUS
<1>2. Len(more) = n + 1 /\ more[1] = other[i] /\ \A a \in 2 .. n + 1 : more[a] = one[a - 1]
    BY <1>1
<1>3. \A a \in 1 .. n : d[a] \in 1 .. Len(other) /\ i < d[a] /\ one[a] = other[d[a]]
    BY DEF Picks
<1>4. e[1] = i /\ \A a \in 2 .. n + 1 : a - 1 \in 1 .. n /\ e[a] = d[a - 1]
    BY <1>1
<1>5. e \in [1 .. n + 1 -> 1 .. Len(other)]
    <2>1. \A a \in 1 .. n + 1 : e[a] \in 1 .. Len(other)
        BY <1>1, <1>3, <1>4
    <2>. QED  BY <2>1
<1>. HIDE DEF more, e
<1>6. ASSUME NEW a \in 1 .. n + 1, NEW b \in 1 .. n + 1, a < b PROVE e[a] < e[b]
    <2>1. b \in 2 .. n + 1 /\ b - 1 \in 1 .. n /\ e[b] = d[b - 1]
        BY <1>1, <1>4, <1>6
    <2>2. CASE a = 1
        BY <1>3, <1>4, <2>1, <2>2
    <2>3. CASE a # 1
        <3>1. a - 1 \in 1 .. n /\ e[a] = d[a - 1] /\ a - 1 < b - 1
            BY <1>1, <1>4, <1>6, <2>3
        <3>. QED  BY <2>1, <3>1 DEF Picks
    <2>. QED  BY <2>2, <2>3
<1>7. ASSUME NEW a \in 1 .. n + 1 PROVE more[a] = other[e[a]]
    <2>1. CASE a = 1
        BY <1>2, <1>4, <2>1
    <2>2. CASE a # 1
        <3>1. a \in 2 .. n + 1
            BY <1>1, <2>2
        <3>. QED  BY <1>2, <1>3, <1>4, <3>1
    <2>. QED  BY <2>1, <2>2
<1>8. Picks(e, more, other)
    BY <1>2, <1>5, <1>6, <1>7 DEF Picks
<1>9. ASSUME NEW j \in 1 .. Len(other)
      PROVE  Picked(e, more, j) <=> j = i \/ Picked(d, one, j)
    <2>1. ASSUME Picked(e, more, j), j # i PROVE Picked(d, one, j)
        <3>1. PICK a \in 1 .. n + 1 : e[a] = j
            BY <1>2, <2>1 DEF Picked
        <3>2. a \in 2 .. n + 1
            BY <1>1, <1>4, <2>1, <3>1
        <3>. QED  BY <1>4, <3>1, <3>2 DEF Picked
    <2>2. ASSUME j = i PROVE Picked(e, more, j)
        <3>1. 1 \in 1 .. n + 1
            BY <1>1
        <3>. QED  BY <1>2, <1>4, <2>2, <3>1 DEF Picked
    <2>3. ASSUME Picked(d, one, j) PROVE Picked(e, more, j)
        <3>1. PICK a \in 1 .. n : d[a] = j
            BY <2>3 DEF Picked
        <3>2. a + 1 \in 2 .. n + 1 /\ a + 1 \in 1 .. n + 1 /\ (a + 1) - 1 = a
            BY <1>1
        <3>3. e[a + 1] = j
            BY <1>4, <3>1, <3>2
        <3>. QED  BY <1>2, <3>2, <3>3 DEF Picked
    <2>. QED  BY <2>1, <2>2, <2>3
<1>. QED  BY <1>8, <1>9 DEF more

\* What a pruning keeps: the young, and those that are among the last of some path.
Stays(list, j) ==
    \/ cycle - list[j].cycle <= MaxAge
    \/ \E p \in list[j].paths : Later(list, j, p) < Quota

LEMMA PrunedPart ==
    ASSUME NEW list \in Seq(Change)
    PROVE  /\ Pruned(list) \in Seq(Change)
           /\ \E d : /\ Picks(d, Pruned(list), list)
                     /\ \A j \in 1 .. Len(list) : Picked(d, Pruned(list), j) <=> Stays(list, j)
<1>. DEFINE n == Len(list)
            IsPart(i, kept) ==
                /\ kept \in Seq(Change)
                /\ \E d : /\ Picks(d, kept, list)
                          /\ \A j \in 1 .. n : Picked(d, kept, j) <=> i <= j /\ Stays(list, j)
            G == {i \in 1 .. n + 1 : IsPart(i, Walk(list)[i].kept)}
<1>1. n \in Nat
    OBVIOUS
<1>2. n + 1 \in G
    <2>. DEFINE d == [a \in 1 .. 0 |-> a]
    <2>1. Walk(list)[n + 1].kept = <<>>
        BY WalkSteps DEF Unvisited
    <2>2. Picks(d, <<>>, list)
        <3>1. Len(<<>>) = 0 /\ 1 .. 0 = {}
            OBVIOUS
        <3>. QED  BY <3>1 DEF Picks
    <2>3. \A j \in 1 .. n : ~Picked(d, <<>>, j) /\ ~(n + 1 <= j)
        BY <1>1 DEF Picked
    <2>4. <<>> \in Seq(Change)
        OBVIOUS
    <2>. HIDE DEF d, n
    <2>5. IsPart(n + 1, <<>>)
        BY <2>2, <2>3, <2>4
    <2>. HIDE DEF IsPart
    <2>. QED  BY <1>1, <2>1, <2>5
<1>3. ASSUME NEW i \in 1 .. n, i + 1 \in G PROVE i \in G
    <2>. DEFINE newer == Walk(list)[i + 1]
                counted == Counted(newer.count, list[i].paths)
                kept == newer.kept
    <2>1. i \in Nat /\ i \in 1 .. Len(list) /\ i + 1 \in 1 .. Len(list) + 1 /\ (i + 1) - 1 = i
          /\ list[i] \in Change
        BY <1>1
    <2>2. Walk(list)[i].kept = IF counted # {} \/ cycle - list[i].cycle <= MaxAge
                               THEN <<list[i]>> \o kept ELSE kept
        <3>1. Walk(list)[i] = Visited(list[i], newer)
            BY <2>1, WalkSteps
        <3>. QED  BY <3>1 DEF Visited
    <2>3. counted # {} <=> \E p \in list[i].paths : Later(list, i, p) < Quota
        <3>1. list[i].paths \subseteq Paths
            BY <2>1 DEF Change
        <3>2. \A p \in Paths : /\ newer.count[p] \in Nat
                               /\ newer.count[p] = IF Later(list, i, p) < Quota
                                                   THEN Later(list, i, p) ELSE Quota
            BY <2>1, WalkCounts
        <3>3. \A p \in list[i].paths : p \in counted <=> newer.count[p] < Quota
            BY <3>1, <3>2, QuotaValue DEF Counted
        <3>4. \A p \in list[i].paths : Later(list, i, p) \in Nat
            BY <2>1, LaterFacts
        <3>5. \A p \in list[i].paths : p \in counted <=> Later(list, i, p) < Quota
            <4>. HIDE DEF counted, newer
            <4>. QED  BY <3>1, <3>2, <3>3, <3>4, QuotaValue
        <3>6. counted \subseteq list[i].paths
            BY DEF Counted
        <3>. QED  BY <3>5, <3>6
    <2>4. Walk(list)[i].kept = IF Stays(list, i) THEN <<list[i]>> \o kept ELSE kept
        <3>. HIDE DEF counted, kept
        <3>. QED  BY <2>2, <2>3 DEF Stays
    <2>5. IsPart(i + 1, kept)
        <3>. HIDE DEF IsPart
        <3>. QED  BY <1>3
    <2>. HIDE DEF kept
    <2>6. PICK d : /\ Picks(d, kept, list)
                   /\ \A j \in 1 .. n : Picked(d, kept, j) <=> i + 1 <= j /\ Stays(list, j)
        BY <2>5
    <2>7. kept \in Seq(Change) /\ <<list[i]>> \o kept \in Seq(Change)
        BY <2>1, <2>5
    <2>8. CASE Stays(list, i)
        <3>1. ASSUME NEW a \in 1 .. Len(kept) PROVE i < d[a]
            <4>1. Picked(d, kept, d[a]) /\ d[a] \in 1 .. n
                BY <2>6 DEF Picks, Picked
            <4>. QED  BY <1>1, <2>1, <2>6, <4>1
        <3>2. PICK e : /\ Picks(e, <<list[i]>> \o kept, list)
                       /\ \A j \in 1 .. n : Picked(e, <<list[i]>> \o kept, j)
                                              <=> j = i \/ Picked(d, kept, j)
            <4>1. kept \in Seq(Change) /\ Picks(d, kept, list) /\ i \in 1 .. Len(list)
                BY <2>1, <2>6, <2>7
            <4>. QED  BY <3>1, <4>1, PicksOneMore
        <3>3. \A j \in 1 .. n : Picked(e, <<list[i]>> \o kept, j) <=> i <= j /\ Stays(list, j)
            BY <1>1, <2>1, <2>6, <2>8, <3>2
        <3>4. IsPart(i, <<list[i]>> \o kept)
            BY <2>7, <3>2, <3>3
        <3>. DEFINE more == <<list[i]>> \o kept
        <3>5. Walk(list)[i].kept = more
            BY <2>4, <2>8
        <3>6. IsPart(i, more)
            BY <3>4
        <3>. HIDE DEF IsPart, more
        <3>. QED  BY <1>1, <3>5, <3>6
    <2>9. CASE ~Stays(list, i)
        <3>1. \A j \in 1 .. n : Picked(d, kept, j) <=> i <= j /\ Stays(list, j)
            BY <1>1, <2>1, <2>6, <2>9
        <3>2. IsPart(i, kept)
            BY <2>6, <2>7, <3>1
        <3>. HIDE DEF IsPart
        <3>. QED  BY <1>1, <2>4, <2>9, <3>2
    <2>. QED  BY <2>8, <2>9
<1>4. \A i \in 1 .. n + 1 : i \in G
    <2>. HIDE DEF G, n
    <2>. QED  BY <1>1, <1>2, <1>3, Downward
<1>5. IsPart(1, Walk(list)[1].kept)
    <2>. HIDE DEF IsPart
    <2>. QED  BY <1>1, <1>4
<1>6. Pruned(list) = Walk(list)[1].kept
    BY PrunedIsWalked
<1>7. IsPart(1, Pruned(list))
    <2>. HIDE DEF IsPart
    <2>. QED  BY <1>5, <1>6
<1>8. \A j \in 1 .. n : 1 <= j
    BY <1>1
<1>. HIDE DEF n
<1>. QED  BY <1>7, <1>8 DEF n

\* What a pruning keeps is what it may keep.
LEMMA PrunedHasNoSurplus ==
    ASSUME NEW list \in Seq(Change)
    PROVE  \A i \in 1 .. Len(Pruned(list)) :
              \/ cycle - Pruned(list)[i].cycle <= MaxAge
              \/ \E p \in Pruned(list)[i].paths : Later(Pruned(list), i, p) < Quota
<1>. DEFINE kept == Pruned(list)
<1>1. PICK d : /\ Picks(d, kept, list)
               /\ \A j \in 1 .. Len(list) : Picked(d, kept, j) <=> Stays(list, j)
    BY PrunedPart
<1>2. kept \in Seq(Change)
    BY PrunedPart
<1>. HIDE DEF kept
<1>3. ASSUME NEW i \in 1 .. Len(kept)
      PROVE  \/ cycle - kept[i].cycle <= MaxAge
             \/ \E p \in kept[i].paths : Later(kept, i, p) < Quota
    <2>1. d[i] \in 1 .. Len(list) /\ kept[i] = list[d[i]] /\ i \in Nat /\ d[i] \in Nat
          /\ Picked(d, kept, d[i])
        BY <1>1, <1>2 DEF Picks, Picked
    <2>2. Stays(list, d[i])
        BY <1>1, <2>1
    <2>3. CASE cycle - list[d[i]].cycle <= MaxAge
        BY <2>1, <2>3
    <2>4. ASSUME NEW p \in list[d[i]].paths, Later(list, d[i], p) < Quota
          PROVE  Later(kept, i, p) < Quota
        <3>1. Later(kept, i, p) <= Later(list, d[i], p)
            BY <1>1, <1>2, LaterPicked
        <3>2. Later(kept, i, p) \in Nat /\ Later(list, d[i], p) \in Nat
            BY <1>2, <2>1, LaterFacts
        <3>. QED  BY <2>4, <3>1, <3>2, QuotaValue
    <2>. QED  BY <2>1, <2>2, <2>3, <2>4 DEF Stays
<1>. QED  BY <1>3 DEF kept

-----------------------------------------------------------------------------
(* The queue and all the changes.                                           *)

\* None of the last changes of a path is missing from the part.
HasLatest(e, one, other) ==
    \A j \in 1 .. Len(other) : \A p \in other[j].paths :
        Later(other, j, p) < Quota => Picked(e, one, j)

QueueInv ==
    /\ ConfigTypeOK
    /\ \E e : Picks(e, listOfChanges, pushed) /\ HasLatest(e, listOfChanges, pushed)

LEMMA QueueInit ==
    ASSUME ConfigInit
    PROVE  QueueInv
<1>. DEFINE e == [a \in 1 .. 0 |-> a]
<1>1. Picks(e, <<>>, <<>>) /\ HasLatest(e, <<>>, <<>>)
    <2>1. Len(<<>>) = 0 /\ 1 .. 0 = {}
        OBVIOUS
    <2>. QED  BY <2>1 DEF Picks, HasLatest
<1>2. ConfigTypeOK
    BY ConfigAssumption DEF ConfigInit, ConfigTypeOK
<1>. HIDE DEF e
<1>. QED  BY <1>1, <1>2 DEF ConfigInit, QueueInv

\* A new change is one of both.
LEMMA LatestAppended ==
    ASSUME NEW one \in Seq(Change), NEW other \in Seq(Change), NEW c \in Change,
           NEW e, Picks(e, one, other), HasLatest(e, one, other)
    PROVE  \E d : /\ Picks(d, Append(one, c), Append(other, c))
                  /\ HasLatest(d, Append(one, c), Append(other, c))
<1>. DEFINE n == Len(one)
            m == Len(other)
            one1 == Append(one, c)
            other1 == Append(other, c)
            d == [a \in 1 .. n + 1 |-> IF a = n + 1 THEN m + 1 ELSE e[a]]
<1>1. n \in Nat /\ m \in Nat
    OBVIOUS
<1>2. /\ one1 \in Seq(Change) /\ Len(one1) = n + 1 /\ one1[n + 1] = c
      /\ other1 \in Seq(Change) /\ Len(other1) = m + 1 /\ other1[m + 1] = c
      /\ \A a \in 1 .. n : one1[a] = one[a]
      /\ \A j \in 1 .. m : other1[j] = other[j]
    OBVIOUS
<1>3. \A a \in 1 .. n : e[a] \in 1 .. m /\ one[a] = other[e[a]]
    BY DEF Picks
<1>4. d[n + 1] = m + 1 /\ \A a \in 1 .. n : d[a] = e[a]
    BY <1>1
<1>5. d \in [1 .. n + 1 -> 1 .. m + 1]
    <2>1. \A a \in 1 .. n + 1 : d[a] \in 1 .. m + 1
        BY <1>1, <1>3
    <2>. QED  BY <2>1
<1>6. \A p, j : j \in Nat => /\ Later(other, j, p) <= Later(other1, j, p)
                             /\ Later(other, j, p) \in Nat /\ Later(other1, j, p) \in Nat
    <2>1. ASSUME NEW p, NEW j \in Nat
          PROVE  /\ Later(other, j, p) <= Later(other1, j, p)
                 /\ Later(other, j, p) \in Nat /\ Later(other1, j, p) \in Nat
        <3>1. Later(other, j, p) <= Later(other1, j, p)
            BY LaterAppended
        <3>2. Later(other, j, p) \in Nat
            BY LaterFacts
        <3>. HIDE DEF other1
        <3>3. Later(other1, j, p) \in Nat
            BY <1>2, LaterFacts
        <3>. QED  BY <3>1, <3>2, <3>3
    <2>. QED  BY <2>1
<1>. HIDE DEF d, one1, other1
<1>7. Picks(d, one1, other1)
    <2>1. ASSUME NEW a \in 1 .. n + 1, NEW b \in 1 .. n + 1, a < b PROVE d[a] < d[b]
        <3>1. a \in 1 .. n /\ d[a] = e[a] /\ e[a] \in 1 .. m
            BY <1>1, <1>3, <1>4, <2>1
        <3>2. CASE b = n + 1
            BY <1>1, <1>4, <3>1, <3>2
        <3>3. CASE b # n + 1
            <4>1. b \in 1 .. n /\ d[b] = e[b]
                BY <1>1, <1>4, <3>3
            <4>. QED  BY <2>1, <3>1, <4>1 DEF Picks
        <3>. QED  BY <3>2, <3>3
    <2>2. ASSUME NEW a \in 1 .. n + 1 PROVE one1[a] = other1[d[a]]
        <3>1. CASE a = n + 1
            BY <1>2, <1>4, <3>1
        <3>2. CASE a # n + 1
            <4>1. a \in 1 .. n
                BY <1>1, <3>2
            <4>. QED  BY <1>2, <1>3, <1>4, <4>1
        <3>. QED  BY <3>1, <3>2
    <2>. QED  BY <1>2, <1>5, <2>1, <2>2 DEF Picks
<1>8. HasLatest(d, one1, other1)
    <2>. SUFFICES ASSUME NEW j \in 1 .. m + 1, NEW p \in other1[j].paths,
                         Later(other1, j, p) < Quota
                  PROVE  Picked(d, one1, j)
        BY <1>2 DEF HasLatest
    <2>1. CASE j = m + 1
        <3>1. n + 1 \in 1 .. n + 1
            BY <1>1
        <3>. QED  BY <1>2, <1>4, <2>1, <3>1 DEF Picked
    <2>2. CASE j # m + 1
        <3>1. j \in 1 .. m /\ j \in Nat
            BY <1>1, <2>2
        <3>2. p \in other[j].paths
            BY <1>2, <3>1
        <3>3. Later(other, j, p) < Quota
            <4>1. /\ Later(other, j, p) <= Later(other1, j, p)
                  /\ Later(other, j, p) \in Nat /\ Later(other1, j, p) \in Nat
                BY <1>6, <3>1
            <4>. QED  BY <4>1, QuotaValue
        <3>4. PICK a \in 1 .. n : e[a] = j
            BY <3>1, <3>2, <3>3 DEF HasLatest, Picked
        <3>5. a \in 1 .. n + 1
            BY <1>1
        <3>. QED  BY <1>2, <1>4, <3>4, <3>5 DEF Picked
    <2>. QED  BY <2>1, <2>2
<1>. QED  BY <1>7, <1>8 DEF one1, other1

\* A pruning drops none of the latest.
LEMMA LatestPruned ==
    ASSUME NEW one \in Seq(Change), NEW other \in Seq(Change),
           NEW e, Picks(e, one, other), HasLatest(e, one, other)
    PROVE  \E f : Picks(f, Pruned(one), other) /\ HasLatest(f, Pruned(one), other)
<1>. DEFINE kept == Pruned(one)
            n == Len(kept)
            f(d) == [a \in 1 .. n |-> e[d[a]]]
<1>1. kept \in Seq(Change)
    BY PrunedPart
<1>2. PICK d : /\ Picks(d, kept, one)
               /\ \A j \in 1 .. Len(one) : Picked(d, kept, j) <=> Stays(one, j)
    BY PrunedPart
<1>. HIDE DEF kept
<1>3. /\ \A a \in 1 .. n : d[a] \in 1 .. Len(one) /\ kept[a] = one[d[a]]
      /\ \A a \in 1 .. Len(one) : e[a] \in 1 .. Len(other) /\ one[a] = other[e[a]]
    BY <1>2 DEF Picks
<1>4. Picks(f(d), kept, other)
    <2>1. f(d) \in [1 .. n -> 1 .. Len(other)]
        BY <1>3
    <2>2. ASSUME NEW a \in 1 .. n, NEW b \in 1 .. n, a < b PROVE e[d[a]] < e[d[b]]
        <3>1. d[a] < d[b]
            BY <1>2, <2>2 DEF Picks
        <3>. QED  BY <1>3, <3>1 DEF Picks
    <2>. QED  BY <1>3, <2>1, <2>2 DEF Picks
<1>5. HasLatest(f(d), kept, other)
    <2>. SUFFICES ASSUME NEW j \in 1 .. Len(other), NEW p \in other[j].paths,
                         Later(other, j, p) < Quota
                  PROVE  Picked(f(d), kept, j)
        BY DEF HasLatest
    <2>1. PICK a \in 1 .. Len(one) : e[a] = j
        BY DEF HasLatest, Picked
    <2>2. a \in Nat /\ j \in Nat /\ p \in one[a].paths
        BY <1>3, <2>1
    <2>3. Later(one, a, p) <= Later(other, j, p)
        BY <2>1, LaterPicked
    <2>4. Later(one, a, p) \in Nat /\ Later(other, j, p) \in Nat
        BY <2>2, LaterFacts
    <2>5. Stays(one, a)
        BY <2>2, <2>3, <2>4, QuotaValue DEF Stays
    <2>6. PICK b \in 1 .. n : d[b] = a
        BY <1>2, <2>5 DEF Picked
    <2>. QED  BY <2>1, <2>6 DEF Picked
<1>. QED  BY <1>4, <1>5 DEF kept

LEMMA QueueStep ==
    ASSUME QueueInv, NEW t \in Nat, ConfigTx(t)
    PROVE  QueueInv'
<1>1. PICK e : Picks(e, listOfChanges, pushed) /\ HasLatest(e, listOfChanges, pushed)
    BY DEF QueueInv
<1>2. /\ cycle \in 1 .. MaxCycle /\ pending \subseteq [when : Nat, change : Change]
      /\ listOfChanges \in Seq(Change) /\ pushed \in Seq(Change)
      /\ MaxCycle \in Nat /\ Delay \in Nat /\ Cycles \subseteq Int
    BY ConfigAssumption DEF QueueInv, ConfigTypeOK
<1>3. ASSUME NEW u \in Users, NEW c \in Cycles, NEW paths \in SUBSET Paths \ {{}},
             ChangeConfigTx(u, c, paths, t)
      PROVE  QueueInv'
    <2>1. Resolved(c) \in Int \ {-1}
        BY <1>2 DEF Resolved
    <2>2. [when |-> t + Delay, change |-> [cycle |-> Resolved(c), paths |-> paths]]
             \in [when : Nat, change : Change]
        BY <1>2, <2>1 DEF Change
    <2>3. pending' \subseteq [when : Nat, change : Change]
        BY <1>2, <1>3, <2>2 DEF ChangeConfigTx
    <2>4. UNCHANGED <<cycle, listOfChanges, pushed>>
        BY <1>3 DEF ChangeConfigTx
    <2>. QED  BY <1>1, <1>2, <2>3, <2>4 DEF QueueInv, ConfigTypeOK
<1>4. ASSUME NEW g \in pending, ApplyChangeConfigTx(g, t)
      PROVE  QueueInv'
    <2>1. /\ listOfChanges' = Append(listOfChanges, g.change) /\ pushed' = Append(pushed, g.change)
          /\ pending' = pending \ {g} /\ cycle' = cycle
        BY <1>4 DEF ApplyChangeConfigTx
    <2>2. g.change \in Change
        BY <1>2
    <2>3. \E d : Picks(d, listOfChanges', pushed') /\ HasLatest(d, listOfChanges', pushed')
        BY <1>1, <1>2, <2>1, <2>2, LatestAppended
    <2>4. ConfigTypeOK'
        BY <1>2, <2>1, <2>2 DEF ConfigTypeOK
    <2>. QED  BY <2>3, <2>4 DEF QueueInv
<1>5. ASSUME PruneNetworkChangeQueue PROVE QueueInv'
    <2>1. listOfChanges' = Pruned(listOfChanges) /\ UNCHANGED <<cycle, pending, pushed>>
        BY <1>5 DEF PruneNetworkChangeQueue
    <2>2. \E f : Picks(f, Pruned(listOfChanges), pushed) /\ HasLatest(f, Pruned(listOfChanges), pushed)
        BY <1>1, <1>2, LatestPruned
    <2>3. Pruned(listOfChanges) \in Seq(Change)
        BY <1>2, PrunedPart
    <2>. QED  BY <1>2, <2>1, <2>2, <2>3 DEF QueueInv, ConfigTypeOK
<1>6. ASSUME NextCycle PROVE QueueInv'
    BY <1>1, <1>2, <1>6 DEF NextCycle, QueueInv, ConfigTypeOK
<1>. QED  BY <1>3, <1>4, <1>5, <1>6 DEF ConfigTx

LEMMA QueueUnchanged ==
    ASSUME QueueInv, UNCHANGED configVars
    PROVE  QueueInv'
BY DEF QueueInv, ConfigTypeOK, configVars

\* The changes of a path after one in the queue include the quota of the latest, or
\* they are all the latest.
LEMMA LatestEnough ==
    ASSUME NEW one \in Seq(Change), NEW other \in Seq(Change),
           NEW e, Picks(e, one, other), HasLatest(e, one, other),
           NEW a \in 1 .. Len(one), NEW p, Later(one, a, p) < Quota
    PROVE  Later(other, e[a], p) = Later(one, a, p)
<1>. DEFINE G == {i \in 1 .. Len(other) + 1 :
                    i > e[a] => Later(other, i - 1, p) < Quota}
            m == Len(other)
<1>1. /\ m \in Nat /\ e[a] \in 1 .. m /\ a \in Nat /\ e[a] \in Nat
      /\ \A b \in 1 .. Len(one) : e[b] \in 1 .. m /\ one[b] = other[e[b]]
      /\ Quota \in Nat \ {0}
    BY QuotaValue DEF Picks
<1>2. ASSUME NEW j \in After(other, e[a], p), Later(other, j, p) < Quota
      PROVE  Picked(e, one, j)
    BY <1>1, <1>2 DEF After, HasLatest
<1>3. m + 1 \in G
    <2>1. (m + 1) - 1 = m /\ Later(other, m, p) = 0
        BY <1>1, LaterFacts
    <2>. QED  BY <1>1, <2>1
<1>4. ASSUME NEW i \in 1 .. m, i + 1 \in G, i > e[a] PROVE Later(other, i - 1, p) < Quota
    <2>1. i \in Nat /\ i + 1 > e[a] /\ (i + 1) - 1 = i
        BY <1>1, <1>4
    <2>2. Later(other, i, p) < Quota /\ Later(other, i, p) \in Nat
        <3>1. Later(other, i, p) < Quota
            BY <1>4, <2>1
        <3>. QED  BY <2>1, <3>1, LaterFacts
    <2>. HIDE DEF G
    <2>3. CASE p \notin other[i].paths
        BY <1>1, <2>2, <2>3, LaterFacts
    <2>4. CASE p \in other[i].paths
        <3>1. PICK b \in 1 .. Len(one) : e[b] = i
            BY <1>1, <2>2, <2>4 DEF HasLatest, Picked
        <3>2. ~(b < a) /\ b # a
            BY <1>1, <1>4, <3>1 DEF Picks
        <3>3. b \in Nat /\ b - 1 \in Nat /\ a <= b - 1 /\ p \in one[b].paths
            BY <1>1, <2>4, <3>1, <3>2
        <3>4. ASSUME NEW j \in After(other, e[b], p) PROVE Picked(e, one, j)
            <4>1. j \in 1 .. m /\ j \in Nat /\ p \in other[j].paths /\ i <= j
                BY <1>1, <2>1, <3>1 DEF After
            <4>2. Later(other, j, p) <= Later(other, i, p) /\ Later(other, j, p) \in Nat
                BY <2>1, <4>1, LaterFacts
            <4>3. Later(other, j, p) < Quota
                BY <1>1, <2>2, <4>2
            <4>. QED  BY <4>1, <4>3 DEF HasLatest
        <3>5. Later(one, b, p) = Later(other, i, p)
            BY <3>1, <3>4, LaterPicked
        <3>6. Later(one, b - 1, p) = Later(one, b, p) + 1
            BY <3>3, LaterFacts
        <3>7. Later(one, b - 1, p) <= Later(one, a, p)
            BY <1>1, <3>3, LaterFacts
        <3>8. Later(other, i - 1, p) = Later(other, i, p) + 1
            BY <2>4, LaterFacts
        <3>9. Later(one, a, p) \in Nat
            BY <1>1, LaterFacts
        <3>. QED  BY <1>1, <2>2, <3>5, <3>6, <3>7, <3>8, <3>9
    <2>. QED  BY <2>3, <2>4
<1>5. \A i \in 1 .. m : i + 1 \in G => i \in G
    BY <1>1, <1>4
<1>6. \A i \in 1 .. m + 1 : i \in G
    <2>. HIDE DEF G, m
    <2>. QED  BY <1>1, <1>3, <1>5, Downward
<1>7. e[a] + 1 \in 1 .. m + 1 /\ e[a] + 1 > e[a] /\ (e[a] + 1) - 1 = e[a]
    BY <1>1
<1>8. Later(other, e[a], p) < Quota
    BY <1>6, <1>7
<1>9. ASSUME NEW j \in After(other, e[a], p) PROVE Picked(e, one, j)
    <2>1. j \in 1 .. m /\ j \in Nat /\ e[a] <= j
        BY <1>1 DEF After
    <2>2. /\ Later(other, j, p) <= Later(other, e[a], p)
          /\ Later(other, j, p) \in Nat /\ Later(other, e[a], p) \in Nat
        BY <1>1, <2>1, LaterFacts
    <2>3. Later(other, j, p) < Quota
        BY <1>1, <1>8, <2>2
    <2>. QED  BY <1>2, <2>3
<1>. QED  BY <1>9, LaterPicked

LEMMA QueueHasLatest ==
    ASSUME QueueInv
    PROVE  LatestChangesKept
<1>1. /\ listOfChanges \in Seq(Change) /\ pushed \in Seq(Change)
      /\ Len(pushed) \in Nat /\ Len(listOfChanges) \in Nat
    BY DEF QueueInv, ConfigTypeOK
<1>2. PICK e : Picks(e, listOfChanges, pushed) /\ HasLatest(e, listOfChanges, pushed)
    BY DEF QueueInv
<1>3. \A a \in 1 .. Len(listOfChanges) :
          e[a] \in 1 .. Len(pushed) /\ listOfChanges[a] = pushed[e[a]]
    BY <1>2 DEF Picks
<1>4. SameLatest(pushed, listOfChanges)
    <2>. SUFFICES ASSUME NEW i \in 1 .. Len(pushed), NEW p \in pushed[i].paths,
                         Later(pushed, i, p) < Quota
                  PROVE  \E a \in 1 .. Len(listOfChanges) :
                            /\ listOfChanges[a] = pushed[i]
                            /\ Later(listOfChanges, a, p) = Later(pushed, i, p)
        BY DEF SameLatest
    <2>1. PICK a \in 1 .. Len(listOfChanges) : e[a] = i
        BY <1>2 DEF HasLatest, Picked
    <2>2. i \in Nat /\ a \in Nat
        BY <1>1
    <2>3. Later(listOfChanges, a, p) <= Later(pushed, i, p)
        BY <1>1, <1>2, <2>1, LaterPicked
    <2>4. Later(listOfChanges, a, p) \in Nat /\ Later(pushed, i, p) \in Nat
        BY <1>1, <2>2, LaterFacts
    <2>5. Later(listOfChanges, a, p) < Quota
        BY <2>3, <2>4, QuotaValue
    <2>6. Later(listOfChanges, a, p) = Later(pushed, i, p)
        BY <1>1, <1>2, <2>1, <2>5, LatestEnough
    <2>. QED  BY <1>3, <2>1, <2>6
<1>5. SameLatest(listOfChanges, pushed)
    <2>. SUFFICES ASSUME NEW a \in 1 .. Len(listOfChanges), NEW p \in listOfChanges[a].paths,
                         Later(listOfChanges, a, p) < Quota
                  PROVE  /\ pushed[e[a]] = listOfChanges[a]
                         /\ Later(pushed, e[a], p) = Later(listOfChanges, a, p)
        BY <1>3 DEF SameLatest
    <2>1. Later(pushed, e[a], p) = Later(listOfChanges, a, p)
        BY <1>1, <1>2, LatestEnough
    <2>. QED  BY <1>3, <2>1
<1>. QED  BY <1>4, <1>5 DEF LatestChangesKept

LEMMA QueuePrunes ==
    ASSUME QueueInv, PruneNetworkChangeQueue
    PROVE  \A i \in 1 .. Len(listOfChanges') :
              \/ cycle - listOfChanges'[i].cycle <= MaxAge
              \/ \E p \in listOfChanges'[i].paths : Later(listOfChanges', i, p) < Quota
<1>1. listOfChanges \in Seq(Change) /\ listOfChanges' = Pruned(listOfChanges)
    BY DEF QueueInv, ConfigTypeOK, PruneNetworkChangeQueue
<1>. QED  BY <1>1, PrunedHasNoSurplus
=============================================================================
