---------------------------- MODULE ConfigChanges ----------------------------
(* Changes of the network's configuration: change_config schedules one, a     *)
(* global message adds it to network.listOfChanges on every node, and         *)
(* pruneNetworkChangeQueue drops what is old and overridden.  A change is the *)
(* set of the paths that its JSON gives a value; one that gives none changes  *)
(* nothing and is left out.                                                   *)
EXTENDS UserAccounts, Sequences

CONSTANTS
    Paths,       \* paths in the configuration (generatePathKeys)
    Cycles,      \* cycles that clients name, past ones too; -1 for "three from now"
    Keep,        \* configChangeMaxChangesToKeep
    MaxAge,      \* configChangeMaxCyclesToKeep
    Delay,       \* from change_config to its global message (10 seconds)
    MaxChanges, MaxCycle  \* bounds: changes scheduled, cycles

ASSUME ConfigAssumption ==
    /\ Cycles \subseteq Int
    /\ MaxCycle \in Nat \ {0}
    /\ Keep \in Nat /\ MaxAge \in Nat /\ Delay \in Nat

VARIABLES
    cycle,          \* counter of the latest cycle
    pending,        \* global messages that are due at a later time
    listOfChanges,  \* network.listOfChanges
    pushed          \* all the changes that were ever added to it

configVars == <<cycle, pending, listOfChanges, pushed>>

Change == [cycle : Int \ {-1}, paths : SUBSET Paths \ {{}}]

\* Mutant: the cycle is taken as it is.
Unresolved(c) == c
Resolved(c) == IF c = -1 THEN cycle + 3 ELSE c

\* A sender without an account gets a node account, and it is stored.
ChangeConfigTx(u, c, paths, t) ==
    /\ Len(pushed) + Cardinality(pending) < MaxChanges
    /\ LET here == IF account[u].kind = "none" THEN [account EXCEPT ![u] = NewNode] ELSE account
       IN  Commit(Stamped(here, {u}, t), t)
    /\ pending' = pending \cup
          {[when |-> t + Delay,
            change |-> [cycle |-> Resolved(c), paths |-> paths]]}
    /\ UNCHANGED <<snapshot, socialVars, bookVars, cycle, listOfChanges, pushed>>

ApplyChangeConfigTx(g, t) ==
    /\ g.when <= t
    /\ pending' = pending \ {g}
    /\ listOfChanges' = Append(listOfChanges, g.change)
    /\ pushed' = Append(pushed, g.change)
    /\ UNCHANGED <<account, snapshot, socialVars, bookVars, cycle>>

\* Mutant: one too many.
CountedToKeep(count, paths) ==
    {p \in paths : count[p] = 0 \/ count[p] <= Keep}
\* Mutant: one too few.
CountedBelowKeep(count, paths) ==
    {p \in paths : count[p] = 0 \/ count[p] + 1 < Keep}
\* From the newest change to the oldest, a path is counted up to Keep changes (at
\* least one); a change stays if it is young or one of its paths was counted.
Counted(count, paths) == {p \in paths : count[p] = 0 \/ count[p] < Keep}
\* What the loop has counted and kept, from the newest change to this one.
Visited(change, newer) ==
    LET counted == Counted(newer.count, change.paths)
    IN  [count |-> [p \in Paths |-> newer.count[p] + IF p \in counted THEN 1 ELSE 0],
         kept  |-> IF counted # {} \/ cycle - change.cycle <= MaxAge
                   THEN <<change>> \o newer.kept ELSE newer.kept]
Unvisited == [count |-> [p \in Paths |-> 0], kept |-> <<>>]
Pruned(list) ==
    LET visited[i \in 1 .. Len(list) + 1] ==
            IF i > Len(list) THEN Unvisited ELSE Visited(list[i], visited[i + 1])
    IN  visited[1].kept

PruneNetworkChangeQueue ==
    /\ listOfChanges' = Pruned(listOfChanges)
    /\ UNCHANGED <<account, snapshot, socialVars, bookVars, cycle, pending, pushed>>

NextCycle ==
    /\ cycle < MaxCycle
    /\ cycle' = cycle + 1
    /\ UNCHANGED <<account, snapshot, socialVars, bookVars, pending, listOfChanges, pushed>>

ConfigTx(t) ==
    /\ Sent("config")
    /\ \/ \E u \in Users, c \in Cycles, paths \in SUBSET Paths \ {{}} :
              ChangeConfigTx(u, c, paths, t)
       \/ \E g \in pending : ApplyChangeConfigTx(g, t)
       \/ PruneNetworkChangeQueue
       \/ NextCycle

ConfigInit ==
    /\ cycle = 1 /\ pending = {}
    /\ listOfChanges = <<>> /\ pushed = <<>>

-------------------------------------------------------------------------------
\* The state is well typed: every change has the cycle in which it takes effect.
ConfigTypeOK ==
    /\ cycle \in 1 .. MaxCycle
    /\ pending \subseteq [when : Nat, change : Change]
    /\ listOfChanges \in Seq(Change) /\ pushed \in Seq(Change)

\* How many changes of a list, after the i-th, give the path p a value.
Later(list, i, p) == Cardinality({j \in i + 1 .. Len(list) : p \in list[j].paths})
Quota == Max({1, Keep})

\* The last changes of a path in one list are also those in the other.
SameLatest(one, other) ==
    \A i \in 1 .. Len(one) : \A p \in one[i].paths :
        Later(one, i, p) < Quota =>
            \E j \in 1 .. Len(other) :
                other[j] = one[i] /\ Later(other, j, p) = Later(one, i, p)

\* However often the queue was pruned, the last Keep changes of every path (at least
\* one) are still in it, in the order in which they were added, and no other change is
\* in their place: a node that joins late finds the values that were set last.
LatestChangesKept ==
    SameLatest(pushed, listOfChanges) /\ SameLatest(listOfChanges, pushed)

\* Pruning leaves no change that is old and whose paths all have Keep later changes.
PruneLeavesNoSurplus ==
    [][PruneNetworkChangeQueue =>
         \A i \in 1 .. Len(listOfChanges') :
            \/ cycle - listOfChanges'[i].cycle <= MaxAge
            \/ \E p \in listOfChanges'[i].paths : Later(listOfChanges', i, p) < Quota]_configVars
===============================================================================
