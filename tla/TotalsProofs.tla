---------------------------- MODULE TotalsProofs -----------------------------
(***************************************************************************)
(* What the books need to know of Total, the fold of the community modules *)
(* over a finite set: the choice of the order does not matter, and a step  *)
(* that changes one value changes the total by as much.                    *)
(*                                                                         *)
(* The induction over the set is made by minimal counterexample: among the *)
(* subsets for which a statement fails there would be one (MinimalSubset)  *)
(* that stops being one when any element is taken out of it.               *)
(***************************************************************************)
EXTENDS Totals, FiniteSetTheorems, WellFoundedInduction, TLAPS

\* A nonempty set of finite subsets has a member no smaller one of which, with one
\* element less, is in it.
LEMMA MinimalSubset ==
    ASSUME NEW S, IsFiniteSet(S), NEW B, B \subseteq SUBSET S, B # {}
    PROVE  \E s \in B : \A x \in s : s \ {x} \notin B
<1>1. IsWellFoundedOn(StrictSubsetOrdering(S), SUBSET S)
    BY FS_StrictSubsetOrderingWellFounded, FS_FiniteSubsetsOfFinite
<1>2. PICK s \in B : \A r \in B : <<r, s>> \notin StrictSubsetOrdering(S)
    BY <1>1, WFMin
<1>3. ASSUME NEW x \in s, s \ {x} \in B
      PROVE  FALSE
    <2>1. <<s \ {x}, s>> \in StrictSubsetOrdering(S)
        BY <1>3 DEF StrictSubsetOrdering
    <2>. QED  BY <1>2, <1>3, <2>1
<1>. QED  BY <1>3

-----------------------------------------------------------------------------
(* The function that the fold is defined with.                             *)

First(s) == CHOOSE x \in s : TRUE

\* What the value at s of the function g is to be.
Added(f, g, s) == IF s = {} THEN 0 ELSE f[First(s)] + g[s \ {First(s)}]

Folds(f, g, S) == g = [s \in SUBSET S |-> Added(f, g, s)]

LEMMA FirstIsMember ==
    ASSUME NEW s, s # {}
    PROVE  First(s) \in s
BY DEF First

\* Total is the value at S of such a function.
LEMMA TotalIsChosen ==
    ASSUME NEW f, NEW S
    PROVE  Total(f, S) = (CHOOSE g : Folds(f, g, S))[S]
BY DEF Total, MapThenSumSet, MapThenFoldSet, Folds, Added, First

LEMMA FoldsValue ==
    ASSUME NEW f, NEW g, NEW S, Folds(f, g, S), NEW s \in SUBSET S
    PROVE  /\ s = {} => g[s] = 0
           /\ s # {} => g[s] = f[First(s)] + g[s \ {First(s)}]
BY DEF Folds, Added

\* Two such functions, for different sets, agree where both have a value.
LEMMA FoldsAgree ==
    ASSUME NEW f, NEW g, NEW h, NEW S, NEW T, Folds(f, g, S), Folds(f, h, T),
           NEW s, IsFiniteSet(s), s \subseteq S, s \subseteq T
    PROVE  g[s] = h[s]
<1> DEFINE B == {r \in SUBSET s : g[r] # h[r]}
<1>1. ASSUME B # {}
      PROVE  FALSE
    <2>1. PICK r \in B : \A x \in r : r \ {x} \notin B
        <3>1. B \subseteq SUBSET s
            OBVIOUS
        <3>. QED  BY <1>1, <3>1, MinimalSubset
    <2>2. /\ r \in SUBSET S /\ r \in SUBSET T
          /\ g[r] # h[r]
        BY <2>1
    <2>3. r # {}
        BY <2>2, FoldsValue
    <2>4. First(r) \in r
        BY <2>3, FirstIsMember
    <2>5. g[r \ {First(r)}] = h[r \ {First(r)}]
        BY <2>1, <2>4
    <2>6. /\ g[r] = f[First(r)] + g[r \ {First(r)}]
          /\ h[r] = f[First(r)] + h[r \ {First(r)}]
        BY <2>2, <2>3, FoldsValue
    <2>. QED  BY <2>2, <2>5, <2>6
<1>. QED  BY <1>1

\* There is one for every finite set.
LEMMA FoldsExists ==
    ASSUME NEW f, NEW S, IsFiniteSet(S)
    PROVE  \E g : Folds(f, g, S)
<1> DEFINE B == {T \in SUBSET S : ~ \E g : Folds(f, g, T)}
<1>1. ASSUME B # {}
      PROVE  FALSE
    <2>1. PICK T \in B : \A x \in T : T \ {x} \notin B
        <3>1. B \subseteq SUBSET S
            OBVIOUS
        <3>. QED  BY <1>1, <3>1, MinimalSubset
    <2> DEFINE G(c) == CHOOSE g : Folds(f, g, T \ {c})
    <2> DEFINE h == [s \in SUBSET T |->
                       IF s = {} THEN 0 ELSE f[First(s)] + G(First(s))[s \ {First(s)}]]
    <2>2. ASSUME NEW c \in T
          PROVE  Folds(f, G(c), T \ {c})
        <3>1. \E g : Folds(f, g, T \ {c})
            BY <2>1
        <3>. QED  BY <3>1
    <2>3. ASSUME NEW s \in SUBSET T, s # {}
          PROVE  h[s \ {First(s)}] = G(First(s))[s \ {First(s)}]
        <3> DEFINE c == First(s)
                   r == s \ {c}
                   d == First(r)
        <3>1. c \in T /\ c \in s /\ r \in SUBSET T /\ r \in SUBSET (T \ {c})
            BY <2>3, FirstIsMember
        <3>2. CASE r = {}
            <4>1. G(c)[r] = 0
                BY <2>2, <3>1, <3>2, FoldsValue
            <4>2. h[r] = 0
                BY <3>1, <3>2
            <4>. QED  BY <4>1, <4>2
        <3>3. CASE r # {}
            <4> HIDE DEF c
            <4>1. d \in r /\ d \in T
                BY <3>1, <3>3, FirstIsMember
            <4>2. h[r] = f[d] + G(d)[r \ {d}]
                <5> HIDE DEF r, G
                <5>. QED  BY <3>1, <3>3
            <4>3. G(c)[r] = f[d] + G(c)[r \ {d}]
                <5>1. Folds(f, G(c), T \ {c})
                    BY <2>2, <3>1
                <5> HIDE DEF r, G
                <5>. QED  BY <5>1, <3>1, <3>3, FoldsValue
            <4>4. IsFiniteSet(r \ {d})
                BY <3>1, FS_Subset
            <4>5. r \ {d} \subseteq T \ {c} /\ r \ {d} \subseteq T \ {d}
                BY <3>1
            <4>6. G(d)[r \ {d}] = G(c)[r \ {d}]
                <5> HIDE DEF G, r, d
                <5>1. Folds(f, G(d), T \ {d}) /\ Folds(f, G(c), T \ {c})
                    BY <2>2, <3>1, <4>1
                <5>. QED  BY <5>1, <4>4, <4>5, FoldsAgree
            <4>. QED  BY <4>2, <4>3, <4>6 DEF c
        <3>. QED  BY <3>2, <3>3
    <2>4. Folds(f, h, T)
        <3>1. ASSUME NEW s \in SUBSET T
              PROVE  h[s] = Added(f, h, s)
            <4>1. CASE s = {}
                BY <4>1 DEF Added
            <4>2. CASE s # {}
                <5>1. h[s] = f[First(s)] + G(First(s))[s \ {First(s)}]
                    BY <4>2
                <5> HIDE DEF h, G
                <5>. QED  BY <4>2, <5>1, <2>3 DEF Added
            <4>. QED  BY <4>1, <4>2
        <3>2. h = [s \in SUBSET T |-> h[s]]
            OBVIOUS
        <3> HIDE DEF h
        <3>3. [s \in SUBSET T |-> h[s]] = [s \in SUBSET T |-> Added(f, h, s)]
            BY <3>1
        <3>. QED  BY <3>2, <3>3 DEF Folds
    <2>. QED  BY <2>1, <2>4
<1>. QED  BY <1>1

LEMMA TotalFolds ==
    ASSUME NEW f, NEW g, NEW S, IsFiniteSet(S), Folds(f, g, S), NEW T \in SUBSET S
    PROVE  Total(f, T) = g[T]
<1> DEFINE h == CHOOSE k : Folds(f, k, T)
<1>1. IsFiniteSet(T)
    BY FS_Subset
<1>2. Folds(f, h, T)
    BY <1>1, FoldsExists
<1>3. Total(f, T) = h[T]
    BY TotalIsChosen
<1> HIDE DEF h
<1>. QED  BY <1>1, <1>2, <1>3, FoldsAgree

-----------------------------------------------------------------------------
(* What the other modules use.                                             *)

LEMMA TotalOfNothing ==
    ASSUME NEW f
    PROVE  Total(f, {}) = 0
<1>1. IsFiniteSet({})
    BY FS_EmptySet
<1>2. PICK g : Folds(f, g, {})
    BY <1>1, FoldsExists
<1>3. Total(f, {}) = g[{}]
    BY <1>1, <1>2, TotalFolds
<1>. QED  BY <1>2, <1>3, FoldsValue

LEMMA TotalFirst ==
    ASSUME NEW f, NEW S, IsFiniteSet(S), S # {}
    PROVE  Total(f, S) = f[First(S)] + Total(f, S \ {First(S)})
<1>1. PICK g : Folds(f, g, S)
    BY FoldsExists
<1>2. g[S] = f[First(S)] + g[S \ {First(S)}]
    BY <1>1, FoldsValue
<1>. QED  BY <1>1, <1>2, TotalFolds

\* The total of integers is an integer.
LEMMA TotalInt ==
    ASSUME NEW f, NEW S, IsFiniteSet(S), \A x \in S : f[x] \in Int
    PROVE  Total(f, S) \in Int
<1> DEFINE B == {T \in SUBSET S : Total(f, T) \notin Int}
<1>1. ASSUME B # {}
      PROVE  FALSE
    <2>1. PICK T \in B : \A x \in T : T \ {x} \notin B
        <3>1. B \subseteq SUBSET S
            OBVIOUS
        <3>. QED  BY <1>1, <3>1, MinimalSubset
    <2>2. T # {}
        BY <2>1, TotalOfNothing
    <2>3. First(T) \in T
        BY <2>2, FirstIsMember
    <2>4. Total(f, T \ {First(T)}) \in Int /\ f[First(T)] \in Int
        BY <2>1, <2>3
    <2>5. IsFiniteSet(T)
        BY <2>1, FS_Subset
    <2>6. Total(f, T) = f[First(T)] + Total(f, T \ {First(T)})
        BY <2>2, <2>5, TotalFirst
    <2>7. Total(f, T) \in Int
        BY <2>4, <2>6
    <2>. QED  BY <2>1, <2>7
<1>. QED  BY <1>1

\* Any element may be taken out first.
LEMMA TotalWithout ==
    ASSUME NEW f, NEW S, IsFiniteSet(S), \A x \in S : f[x] \in Int, NEW e \in S
    PROVE  Total(f, S) = f[e] + Total(f, S \ {e})
<1> DEFINE B == {T \in SUBSET S : \E x \in T : Total(f, T) # f[x] + Total(f, T \ {x})}
<1>1. ASSUME B # {}
      PROVE  FALSE
    <2>1. PICK T \in B : \A x \in T : T \ {x} \notin B
        <3>1. B \subseteq SUBSET S
            OBVIOUS
        <3>. QED  BY <1>1, <3>1, MinimalSubset
    <2>2. PICK x \in T : Total(f, T) # f[x] + Total(f, T \ {x})
        BY <2>1
    <2> DEFINE c == First(T)
    <2>3. c \in T
        BY <2>2, FirstIsMember
    <2>4. \A U \in SUBSET T : IsFiniteSet(U)
        BY <2>1, FS_Subset
    <2>5. Total(f, T) = f[c] + Total(f, T \ {c})
        BY <2>2, <2>4, TotalFirst
    <2> HIDE DEF c
    <2>6. x # c
        BY <2>2, <2>5
    <2>7. Total(f, T \ {c}) = f[x] + Total(f, (T \ {c}) \ {x})
        BY <2>1, <2>3, <2>6
    <2>8. Total(f, T \ {x}) = f[c] + Total(f, (T \ {x}) \ {c})
        BY <2>1, <2>3, <2>6
    <2>9. (T \ {c}) \ {x} = (T \ {x}) \ {c}
        OBVIOUS
    <2>10. /\ f[c] \in Int /\ f[x] \in Int
           /\ Total(f, (T \ {x}) \ {c}) \in Int
        <3>1. (T \ {x}) \ {c} \in SUBSET T
            OBVIOUS
        <3>. QED  BY <2>1, <2>3, <2>4, <3>1, TotalInt
    <2>11. Total(f, (T \ {c}) \ {x}) = Total(f, (T \ {x}) \ {c})
        BY <2>9
    <2> HIDE DEF B
    <2>12. Total(f, T) = f[x] + Total(f, T \ {x})
        BY <2>5, <2>7, <2>8, <2>10, <2>11
    <2>. QED  BY <2>2, <2>12
<1>. QED  BY <1>1

\* Only the values on the set matter.
LEMMA TotalOfEquals ==
    ASSUME NEW f, NEW g, NEW S, IsFiniteSet(S), \A x \in S : f[x] = g[x]
    PROVE  Total(f, S) = Total(g, S)
<1> DEFINE B == {T \in SUBSET S : Total(f, T) # Total(g, T)}
<1>1. ASSUME B # {}
      PROVE  FALSE
    <2>1. PICK T \in B : \A x \in T : T \ {x} \notin B
        <3>1. B \subseteq SUBSET S
            OBVIOUS
        <3>. QED  BY <1>1, <3>1, MinimalSubset
    <2>2. T # {}
        BY <2>1, TotalOfNothing
    <2>3. First(T) \in T /\ First(T) \in S
        BY <2>1, <2>2, FirstIsMember
    <2>4. IsFiniteSet(T)
        BY <2>1, FS_Subset
    <2>5. Total(f, T \ {First(T)}) = Total(g, T \ {First(T)})
        BY <2>1, <2>3
    <2>. QED  BY <2>1, <2>2, <2>3, <2>4, <2>5, TotalFirst
<1>. QED  BY <1>1

\* One value changes, and the total by as much.
LEMMA TotalChanges ==
    ASSUME NEW f, NEW g, NEW S, IsFiniteSet(S),
           \A x \in S : f[x] \in Int /\ g[x] \in Int,
           NEW e \in S, \A x \in S \ {e} : f[x] = g[x]
    PROVE  Total(g, S) = Total(f, S) + (g[e] - f[e])
<1>1. IsFiniteSet(S \ {e})
    BY FS_RemoveElement
<1>2. Total(g, S \ {e}) = Total(f, S \ {e})
    BY <1>1, TotalOfEquals
<1>3. Total(f, S \ {e}) \in Int
    BY <1>1, TotalInt
<1>4. Total(f, S) = f[e] + Total(f, S \ {e}) /\ Total(g, S) = g[e] + Total(g, S \ {e})
    BY TotalWithout
<1>5. f[e] \in Int /\ g[e] \in Int
    OBVIOUS
<1>. QED  BY <1>2, <1>3, <1>4, <1>5

\* The total of one value, as often as there are elements.
LEMMA TotalOfConstant ==
    ASSUME NEW f, NEW S, IsFiniteSet(S), NEW v \in Int, \A x \in S : f[x] = v
    PROVE  Total(f, S) = Cardinality(S) * v
<1> DEFINE B == {T \in SUBSET S : Total(f, T) # Cardinality(T) * v}
<1>1. ASSUME B # {}
      PROVE  FALSE
    <2>1. PICK T \in B : \A x \in T : T \ {x} \notin B
        <3>1. B \subseteq SUBSET S
            OBVIOUS
        <3>. QED  BY <1>1, <3>1, MinimalSubset
    <2>2. T # {}
        BY <2>1, TotalOfNothing, FS_EmptySet
    <2>3. First(T) \in T /\ First(T) \in S
        BY <2>1, <2>2, FirstIsMember
    <2>4. IsFiniteSet(T)
        BY <2>1, FS_Subset
    <2>5. Cardinality(T) \in Nat /\ Cardinality(T \ {First(T)}) = Cardinality(T) - 1
        BY <2>3, <2>4, FS_RemoveElement, FS_CardinalityType
    <2>6. Total(f, T \ {First(T)}) = Cardinality(T \ {First(T)}) * v
        BY <2>1, <2>3
    <2>7. Total(f, T) = v + (Cardinality(T) - 1) * v
        BY <2>2, <2>3, <2>4, <2>5, <2>6, TotalFirst
    <2>8. Total(f, T) = Cardinality(T) * v
        BY <2>5, <2>7
    <2>. QED  BY <2>1, <2>8
<1>. QED  BY <1>1

\* As many values as the elements of T are raised by v, and the total by so many v.
LEMMA TotalRaised ==
    ASSUME NEW f, NEW g, NEW S, IsFiniteSet(S), NEW T \in SUBSET S, NEW v \in Int,
           \A x \in S : f[x] \in Int, \A x \in T : g[x] = f[x] + v,
           \A x \in S \ T : g[x] = f[x]
    PROVE  Total(g, S) = Total(f, S) + Cardinality(T) * v
<1>. DEFINE h(s) == [x \in S |-> IF x \in s THEN f[x] + v ELSE f[x]]
            Claim(s) == Total(h(s), S) = Total(f, S) + Cardinality(s) * v
<1>1. Total(f, S) \in Int /\ IsFiniteSet(T)
    BY TotalInt, FS_Subset
<1>2. ASSUME NEW s \in SUBSET T, ~Claim(s), \A x \in s : Claim(s \ {x})
      PROVE  FALSE
    <2>1. CASE s = {}
        <3>1. \A x \in S : h(s)[x] = f[x]
            BY <2>1
        <3>. HIDE DEF h
        <3>2. Total(h(s), S) = Total(f, S)
            BY <3>1, TotalOfEquals
        <3>3. Cardinality(s) = 0
            BY <2>1, FS_EmptySet
        <3>. QED  BY <1>1, <1>2, <3>2, <3>3
    <2>2. CASE s # {}
        <3>1. PICK e : e \in s
            BY <2>2
        <3>. DEFINE less == h(s \ {e})
                    more == h(s)
        <3>2. /\ e \in S /\ less[e] = f[e] /\ more[e] = f[e] + v
              /\ \A x \in S : less[x] \in Int /\ more[x] \in Int
              /\ \A x \in S \ {e} : less[x] = more[x]
            BY <3>1
        <3>3. Claim(s \ {e})
            BY <1>2, <3>1
        <3>4. IsFiniteSet(s) /\ Cardinality(s \ {e}) = Cardinality(s) - 1
              /\ Cardinality(s) \in Int
            BY <1>1, <3>1, FS_Subset, FS_RemoveElement, FS_CardinalityType
        <3>5. Total(less, S) = Total(f, S) + Cardinality(s \ {e}) * v
            BY <3>3
        <3>6. Total(more, S) # Total(f, S) + Cardinality(s) * v
            BY <1>2
        <3>. HIDE DEF less, more
        <3>7. Total(more, S) = Total(less, S) + (more[e] - less[e])
            BY <3>2, TotalChanges
        <3>8. f[e] \in Int
            BY <3>2
        <3>9. more[e] - less[e] = v
            BY <3>2, <3>8
        <3>. DEFINE k == Cardinality(s)
        <3>10. (k - 1) * v + v = k * v
            BY <3>4
        <3>. QED  BY <1>1, <3>4, <3>5, <3>6, <3>7, <3>9, <3>10
    <2>. QED  BY <2>1, <2>2
<1>3. Claim(T)
    <2>. SUFFICES ASSUME ~Claim(T) PROVE FALSE
        OBVIOUS
    <2>. DEFINE B == {s \in SUBSET T : ~Claim(s)}
    <2>1. B \subseteq SUBSET T /\ B # {}
        OBVIOUS
    <2>2. PICK s \in B : \A x \in s : s \ {x} \notin B
        <3>. HIDE DEF B
        <3>. QED  BY <1>1, <2>1, MinimalSubset
    <2>3. s \in SUBSET T /\ ~Claim(s) /\ \A x \in s : Claim(s \ {x})
        <3>. HIDE DEF Claim
        <3>. QED  BY <2>2
    <2>. HIDE DEF Claim
    <2>. QED  BY <1>2, <2>3
<1>4. \A x \in S : h(T)[x] = g[x]
    OBVIOUS
<1>. HIDE DEF h
<1>5. Total(h(T), S) = Total(g, S)
    BY <1>4, TotalOfEquals
<1>. QED  BY <1>3, <1>5 DEF Claim

\* The total of natural numbers is one.
LEMMA TotalNat ==
    ASSUME NEW f, NEW S, IsFiniteSet(S), \A x \in S : f[x] \in Nat
    PROVE  Total(f, S) \in Nat
<1> DEFINE B == {T \in SUBSET S : Total(f, T) \notin Nat}
<1>1. ASSUME B # {}
      PROVE  FALSE
    <2>1. PICK T \in B : \A x \in T : T \ {x} \notin B
        <3>1. B \subseteq SUBSET S
            OBVIOUS
        <3>. QED  BY <1>1, <3>1, MinimalSubset
    <2>2. T # {}
        BY <2>1, TotalOfNothing
    <2>3. First(T) \in T
        BY <2>2, FirstIsMember
    <2>4. Total(f, T \ {First(T)}) \in Nat /\ f[First(T)] \in Nat
        BY <2>1, <2>3
    <2>5. IsFiniteSet(T)
        BY <2>1, FS_Subset
    <2>6. Total(f, T) = f[First(T)] + Total(f, T \ {First(T)})
        BY <2>2, <2>5, TotalFirst
    <2>7. Total(f, T) \in Nat
        BY <2>4, <2>6
    <2>. QED  BY <2>1, <2>7
<1>. QED  BY <1>1
=============================================================================
