--------------------------- MODULE StructureProofs ---------------------------
(***************************************************************************)
(* Proofs, for every size, key, value and order of calls, that the arrays  *)
(* of the kernel's data structures behave as the structures Kernel.tla     *)
(* uses in their place: the segment tree of the window, the Fenwick tree   *)
(* and the two heaps.                                                      *)
(***************************************************************************)
EXTENDS SegTree, Fenwick, BinaryHeap, WorkTheorems

-----------------------------------------------------------------------------
\* Loops.  A loop whose variant is a natural number that falls in every pass ends
\* with a value, whatever it starts from.
IsRecursion(g, X, Stop, last, prev, step) ==
  \A x \in X : g[x] = IF x \in Stop THEN last[x] ELSE step[x][g[prev[x]]]

Terminates(D, Stop, variant, S, last, prev, step) ==
  /\ variant \in [D -> Nat] /\ last \in [D -> S] /\ prev \in [D -> D]
  /\ step \in [D -> [S -> S]]
  /\ \A x \in D \ Stop : variant[prev[x]] < variant[x]

\* On the part of D where the variant is below a bound, the value is unique.
LEMMA RecursionUnique ==
  ASSUME NEW D, NEW Stop, NEW variant, NEW S, NEW last, NEW prev, NEW step,
         Terminates(D, Stop, variant, S, last, prev, step),
         NEW n \in Nat, NEW m \in Nat, NEW g, NEW h,
         IsRecursion(g, {x \in D : variant[x] < n}, Stop, last, prev, step),
         IsRecursion(h, {x \in D : variant[x] < m}, Stop, last, prev, step),
         NEW z \in D, variant[z] < n, variant[z] < m
  PROVE  g[z] = h[z]
<1> DEFINE T == {k \in Nat : \E y \in D : /\ variant[y] = k /\ k < n /\ k < m
                                          /\ g[y] # h[y]}
<1>0. /\ variant \in [D -> Nat] /\ last \in [D -> S] /\ prev \in [D -> D]
      /\ step \in [D -> [S -> S]]
      /\ \A x \in D \ Stop : variant[prev[x]] < variant[x]
  BY DEF Terminates
<1>1. SUFFICES ASSUME T # {} PROVE FALSE
  BY <1>0
<1>2. PICK k \in T : \A j \in T : k <= j
  BY <1>1, NatMin
<1>3. PICK y \in D : variant[y] = k /\ k < n /\ k < m /\ g[y] # h[y]
  OBVIOUS
<1>4. /\ g[y] = IF y \in Stop THEN last[y] ELSE step[y][g[prev[y]]]
      /\ h[y] = IF y \in Stop THEN last[y] ELSE step[y][h[prev[y]]]
  BY <1>3 DEF IsRecursion
<1>5. y \notin Stop /\ g[prev[y]] # h[prev[y]]
  BY <1>3, <1>4
<1>6. prev[y] \in D /\ variant[prev[y]] < k /\ variant[prev[y]] \in Nat
  BY <1>0, <1>3, <1>5
<1>7. variant[prev[y]] \in T
  BY <1>3, <1>5, <1>6
<1> QED BY <1>2, <1>6, <1>7

LEMMA RecursionBelow ==
  ASSUME NEW D, NEW Stop, NEW variant, NEW S, NEW last, NEW prev, NEW step,
         Terminates(D, Stop, variant, S, last, prev, step),
         NEW n \in Nat
  PROVE  \E g \in [{x \in D : variant[x] < n} -> S] :
           IsRecursion(g, {x \in D : variant[x] < n}, Stop, last, prev, step)
<1> DEFINE Below(k) == {x \in D : variant[x] < k}
           Good(k) == \E g \in [Below(k) -> S] : IsRecursion(g, Below(k), Stop, last, prev, step)
           T == {k \in Nat : ~ Good(k)}
<1>0. /\ variant \in [D -> Nat] /\ last \in [D -> S] /\ prev \in [D -> D]
      /\ step \in [D -> [S -> S]]
      /\ \A x \in D \ Stop : variant[prev[x]] < variant[x]
  BY DEF Terminates
<1>1. SUFFICES ASSUME T # {} PROVE FALSE
  OBVIOUS
<1>2. PICK k \in T : \A j \in T : k <= j
  BY <1>1, NatMin
<1>3. k \in Nat /\ ~ Good(k)
  OBVIOUS
<1>4. k # 0
  <2> SUFFICES ASSUME k = 0 PROVE FALSE
    OBVIOUS
  <2>1. Below(0) = {}
    BY <1>0
  <2> DEFINE e == [x \in {} |-> last[x]]
  <2>2. e \in [{} -> S] /\ IsRecursion(e, {}, Stop, last, prev, step)
    BY DEF IsRecursion
  <2>3. Good(0)
    <3> HIDE DEF e, Below
    <3> QED BY <2>1, <2>2
  <2> HIDE DEF Good
  <2> QED BY <1>3, <2>3
<1>5. k - 1 \in Nat /\ k - 1 \notin T
  <2> HIDE DEF Good
  <2> QED BY <1>2, <1>3, <1>4
<1>6. PICK g \in [Below(k - 1) -> S] : IsRecursion(g, Below(k - 1), Stop, last, prev, step)
  BY <1>5
<1> DEFINE h == [x \in Below(k) |->
                   IF x \in Below(k - 1) THEN g[x]
                   ELSE IF x \in Stop THEN last[x] ELSE step[x][g[prev[x]]]]
<1>7. ASSUME NEW x \in Below(k), x \notin Stop
      PROVE  prev[x] \in Below(k - 1) /\ prev[x] \in Below(k)
  <2>1. prev[x] \in D /\ variant[prev[x]] \in Nat /\ variant[x] \in Nat
        /\ variant[prev[x]] < variant[x] /\ variant[x] < k
    BY <1>0, <1>7
  <2> QED BY <1>3, <2>1
<1>8. \A x \in Below(k - 1) : g[x] = IF x \in Stop THEN last[x] ELSE step[x][g[prev[x]]]
  BY <1>6 DEF IsRecursion
<1>9. \A x \in Below(k) : h[x] = IF x \in Stop THEN last[x] ELSE step[x][g[prev[x]]]
  <2> HIDE DEF Below
  <2> QED BY <1>8
<1>10. \A x \in Below(k) : x \notin Stop => h[prev[x]] = g[prev[x]]
  <2> HIDE DEF Below
  <2> QED BY <1>7
<1>11. h \in [Below(k) -> S]
  <2>1. \A x \in Below(k) : x \in D
    OBVIOUS
  <2>2. ASSUME NEW x \in Below(k) PROVE h[x] \in S
    <3> HIDE DEF h, Below
    <3>1. x \notin Stop => g[prev[x]] \in S
      BY <1>6, <1>7
    <3> QED BY <1>0, <1>9, <2>1, <3>1
  <2> HIDE DEF Below
  <2> QED BY <2>2
<1>12. IsRecursion(h, Below(k), Stop, last, prev, step)
  <2> HIDE DEF h, Below
  <2> QED BY <1>9, <1>10 DEF IsRecursion
<1> HIDE DEF h
<1> QED BY <1>3, <1>11, <1>12

LEMMA RecursionExists ==
  ASSUME NEW D, NEW Stop, NEW variant, NEW S, NEW last, NEW prev, NEW step,
         Terminates(D, Stop, variant, S, last, prev, step)
  PROVE  \E g \in [D -> S] :
           g = [x \in D |-> IF x \in Stop THEN last[x] ELSE step[x][g[prev[x]]]]
<1> DEFINE Below(n) == {x \in D : variant[x] < n}
           Part(g, n) == /\ g \in [Below(n) -> S]
                         /\ IsRecursion(g, Below(n), Stop, last, prev, step)
           part == [n \in Nat |-> CHOOSE g : Part(g, n)]
           whole == [x \in D |-> part[variant[x] + 1][x]]
           Rule(x) == IF x \in Stop THEN last[x] ELSE step[x][whole[prev[x]]]
<1>0. /\ variant \in [D -> Nat] /\ last \in [D -> S] /\ prev \in [D -> D]
      /\ step \in [D -> [S -> S]]
      /\ \A x \in D \ Stop : variant[prev[x]] < variant[x]
  BY DEF Terminates
<1>1. ASSUME NEW n \in Nat PROVE Part(part[n], n)
  <2>1. \E g : Part(g, n)
    BY RecursionBelow, SMTT(30)
  <2> HIDE DEF Part
  <2> QED BY <2>1
<1>2. ASSUME NEW x \in D
      PROVE  /\ variant[x] + 1 \in Nat /\ x \in Below(variant[x] + 1)
             /\ part[variant[x] + 1][x] \in S
             /\ part[variant[x] + 1][x]
                  = IF x \in Stop THEN last[x] ELSE step[x][part[variant[x] + 1][prev[x]]]
  <2>1. variant[x] + 1 \in Nat /\ x \in Below(variant[x] + 1)
    BY <1>0
  <2>2. variant[x] + 1 \in Nat
    BY <2>1
  <2> HIDE DEF part, Below
  <2> QED BY <1>1, <2>1 DEF IsRecursion
<1>3. ASSUME NEW x \in D, x \notin Stop
      PROVE  part[variant[x] + 1][prev[x]] = whole[prev[x]]
  <2> DEFINE n == variant[x] + 1
             m == variant[prev[x]] + 1
             y == prev[x]
  <2>1. /\ n \in Nat /\ m \in Nat /\ y \in D /\ variant[y] < m /\ variant[y] < n
    BY <1>0, <1>3
  <2>2. Part(part[n], n) /\ Part(part[m], m)
    BY <1>1, <2>1
  <2>3. whole[y] = part[m][y]
    BY <2>1
  <2> HIDE DEF part, whole, n, m, y
  <2>4. part[n][y] = part[m][y]
    BY <2>1, <2>2, RecursionUnique
  <2> QED BY <2>3, <2>4 DEF n, y
<1>4. whole \in [D -> S] /\ \A x \in D : whole[x] = Rule(x)
  <2> HIDE DEF part
  <2>1. \A x \in D : whole[x] = part[variant[x] + 1][x]
    OBVIOUS
  <2>2. whole \in [D -> S]
    BY <1>2
  <2> HIDE DEF whole
  <2> QED BY <1>2, <1>3, <2>1, <2>2
<1>5. whole = [x \in D |-> Rule(x)]
  <2> HIDE DEF whole, Rule
  <2> QED BY <1>4
<1> HIDE DEF whole
<1> QED BY <1>4, <1>5

\* The loops whose last pass returns the result.
LoopEnds(D, Stop, variant, S, last, prev) ==
  /\ variant \in [D -> Nat] /\ last \in [D -> S] /\ prev \in [D -> D]
  /\ \A x \in D \ Stop : variant[prev[x]] < variant[x]

LEMMA LoopExists ==
  ASSUME NEW D, NEW Stop, NEW variant, NEW S, NEW last, NEW prev,
         LoopEnds(D, Stop, variant, S, last, prev)
  PROVE  \E g \in [D -> S] : g = [x \in D |-> IF x \in Stop THEN last[x] ELSE g[prev[x]]]
<1> DEFINE step == [x \in D |-> [s \in S |-> s]]
<1>1. step \in [D -> [S -> S]]
  OBVIOUS
<1>2. \A x \in D : \A s \in S : step[x][s] = s
  OBVIOUS
<1> HIDE DEF step
<1>3. PICK g \in [D -> S] :
        g = [x \in D |-> IF x \in Stop THEN last[x] ELSE step[x][g[prev[x]]]]
  <2>1. Terminates(D, Stop, variant, S, last, prev, step)
    BY <1>1 DEF Terminates, LoopEnds
  <2> QED BY <2>1, RecursionExists
<1> DEFINE Rule(x) == IF x \in Stop THEN last[x] ELSE g[prev[x]]
<1>4. \A x \in D : g[x] = Rule(x)
  BY <1>2, <1>3 DEF LoopEnds
<1>5. g = [x \in D |-> Rule(x)]
  <2> HIDE DEF Rule
  <2> QED BY <1>4
<1> QED BY <1>5

-----------------------------------------------------------------------------
\* The Fenwick tree.
FenTypes == tree \in [Node(NRanks) -> Int] /\ total \in Int

\* The last prefix is all the work charged.
LastPrefixIsTotal == NRanks > 0 => Pref(tree, NRanks - 1) = total

LEMMA FenInitial == FenInit => FenTypes /\ LastPrefixIsTotal /\ Sums!Init
<1> SUFFICES ASSUME FenInit PROVE FenTypes /\ LastPrefixIsTotal /\ Sums!Init
  OBVIOUS
<1>1. NoWork(NRanks) \in [Node(NRanks) -> Int]
  BY DEF NoWork
<1>2. [q \in FenRank |-> Pref(tree, q)] = [q \in FenRank |-> 0]
  BY FenwickAssumption, NoWorkIsRead DEF FenInit, FenRank
<1>3. LastPrefixIsTotal
  <2>1. NRanks > 0 => NRanks - 1 \in FenRank
    BY FenwickAssumption DEF FenRank
  <2>2. NRanks > 0 => Pref(tree, NRanks - 1) = 0
    BY <1>2, <2>1
  <2> QED BY <2>2 DEF FenInit, LastPrefixIsTotal
<1> QED BY <1>1, <1>2, <1>3 DEF FenInit, FenTypes, Sums!Init, FenRank, Sums!Rank

LEMMA FenStep ==
  ASSUME FenTypes, LastPrefixIsTotal, [FenNext]_fenVars
  PROVE  FenTypes' /\ LastPrefixIsTotal' /\ [Sums!Next]_(Sums!vars)
<1>1. CASE FenNext
  <2>1. PICK rank \in FenRank, value \in Works : FenAdd(rank, value)
    BY <1>1 DEF FenNext
  <2>2. NRanks \in Nat /\ value \in Int /\ rank \in 0 .. NRanks - 1
    BY FenwickAssumption DEF FenRank
  <2>3. tree' = Added(tree, NRanks, rank, value) /\ total' = total + value
    BY <2>1 DEF FenAdd
  <2>4. tree' \in [Node(NRanks) -> Int]
    BY <2>2, <2>3, AddedCovers DEF FenTypes
  <2> DEFINE sums == [q \in FenRank |-> Pref(tree, q)]
  <2>5. [q \in FenRank |-> Pref(tree', q)] = AddSuffix(sums, rank, value)
        /\ sums \in [FenRank -> Int]
    <3>1. [q \in 0 .. NRanks - 1 |-> Pref(Added(tree, NRanks, rank, value), q)]
            = AddSuffix([q \in 0 .. NRanks - 1 |-> Pref(tree, q)], rank, value)
          /\ [q \in 0 .. NRanks - 1 |-> Pref(tree, q)] \in [0 .. NRanks - 1 -> Int]
      BY <2>2, FenwickAddsToSuffix DEF FenTypes
    <3> QED BY <2>3, <3>1 DEF FenRank
  <2>6. Sums!Next
    <3>1. Sums!Charge(rank, value)
      <4>1. AddSuffix(sums, rank, value) = Sums!AddSuffix(sums, rank, value)
        BY DEF AddSuffix, Sums!AddSuffix
      <4> QED BY <2>1, <2>5, <4>1 DEF FenAdd, Sums!Charge
    <3>2. rank \in Sums!Rank
      BY <2>2 DEF Sums!Rank
    <3> QED BY <3>1, <3>2 DEF Sums!Next
  <2>7. LastPrefixIsTotal'
    <3> SUFFICES ASSUME NRanks > 0 PROVE Pref(tree', NRanks - 1) = total'
      BY DEF LastPrefixIsTotal
    <3> DEFINE z == NRanks - 1
    <3>1. z \in FenRank /\ z >= rank
      BY <2>2 DEF FenRank
    <3>2. sums[z] = total
      BY <3>1 DEF LastPrefixIsTotal
    <3> HIDE DEF z, sums
    <3>3. AddSuffix(sums, rank, value)[z] = sums[z] + value
      BY <2>5, <3>1 DEF AddSuffix
    <3>4. Pref(tree', z) = sums[z] + value
      BY <2>5, <3>1, <3>3
    <3> QED BY <2>3, <3>2, <3>4 DEF z
  <2> QED BY <2>2, <2>3, <2>4, <2>6, <2>7 DEF FenTypes
<1>2. CASE UNCHANGED fenVars
  BY <1>2 DEF fenVars, FenTypes, LastPrefixIsTotal, Sums!vars, FenRank
<1> QED BY <1>1, <1>2

\* However many ranks there are and in whatever order they are charged, what _fen_pref
\* reads off the array that _fen_add keeps is, for every rank, the work charged to the
\* ranks up to it.
THEOREM FenwickRefinesPrefixSums == FenSpec => RefinesPrefixSums
<1>1. FenInit => Sums!Init /\ (FenTypes /\ LastPrefixIsTotal)
  BY FenInitial
<1>2. (FenTypes /\ LastPrefixIsTotal) /\ [FenNext]_fenVars
        => [Sums!Next]_(Sums!vars) /\ (FenTypes /\ LastPrefixIsTotal)'
  BY FenStep
<1> QED BY <1>1, <1>2, PTL DEF FenSpec, RefinesPrefixSums, Sums!Spec

\* The prefix of the last rank is the total kept beside the array: no job is younger than
\* the youngest, so nothing has passed it.
THEOREM FenwickTotal == FenSpec => []LastPrefixIsTotal
<1>1. FenInit => FenTypes /\ LastPrefixIsTotal
  BY FenInitial
<1>2. FenTypes /\ LastPrefixIsTotal /\ [FenNext]_fenVars => (FenTypes /\ LastPrefixIsTotal)'
  BY FenStep
<1> QED BY <1>1, <1>2, PTL DEF FenSpec

-----------------------------------------------------------------------------
\* The heaps.
Entries == Keys \X Ranks
Parent(c) == (c - 1) \div 2
Filled(h, m) == \A c \in 0 .. m - 1 : h[c] \in Entries
Distinct(h, m) == \A c, d \in 0 .. m - 1 : h[c][2] = h[d][2] => c = d
Contents(h, m) == {h[c] : c \in 0 .. m - 1}
InOrder(h, d) == ~ Less(h[d], h[Parent(d)])
IsHeap(h, m) == \A d \in 1 .. m - 1 : InOrder(h, d)

\* g holds what h holds, perhaps elsewhere.
Rearranged(h, g, m) ==
  /\ g \in Arrays /\ Filled(g, m) /\ Contents(g, m) = Contents(h, m)
  /\ Distinct(h, m) => Distinct(g, m)

LEMMA ParentOf ==
  ASSUME NEW c \in Nat \ {0}
  PROVE  /\ Parent(c) \in Nat /\ Parent(c) < c
         /\ \A p \in Nat : Parent(c) = p <=> c = 2 * p + 1 \/ c = 2 * p + 2
  BY DEF Parent

\* An entry is not smaller than one that is smaller than it, and what is not smaller than
\* an entry is not smaller than anything that entry is not smaller than.
LEMMA LessOrders ==
  ASSUME HeapConstants, NEW x \in Entries, NEW y \in Entries
  PROVE  /\ Less(x, y) => ~ Less(y, x)
         /\ ~ Less(x, x)
         /\ \A z \in Entries : ~ Less(x, y) /\ ~ Less(y, z) => ~ Less(x, z)
<1>1. \A z \in Entries : z[1] \in Int /\ z[2] \in Int
  BY DEF Entries, HeapConstants
<1>2. \A z \in Entries : ~ Less(x, y) /\ ~ Less(y, z) => ~ Less(x, z)
  <2> TAKE z \in Entries
  <2> HIDE DEF Entries
  <2> QED BY <1>1 DEF Less
<1> HIDE DEF Entries
<1> QED BY <1>1, <1>2 DEF Less

LEMMA SwapMoves ==
  ASSUME NEW h \in Arrays, NEW a \in Index, NEW b \in Index
  PROVE  /\ Swapped(h, a, b) \in Arrays
         /\ Swapped(h, a, b)[a] = h[b] /\ Swapped(h, a, b)[b] = h[a]
         /\ \A c \in Index \ {a, b} : Swapped(h, a, b)[c] = h[c]
<1> DEFINE E == (Keys \X Ranks) \cup {None}
<1>1. h \in [Index -> E]
  BY DEF Arrays
<1>2. Swapped(h, a, b) \in [Index -> E]
  <2> HIDE DEF E
  <2> QED BY <1>1 DEF Swapped
<1> QED BY <1>1, <1>2 DEF Swapped, Arrays

LEMMA SwapRearranges ==
  ASSUME HeapConstants, NEW h \in Arrays, NEW m \in 0 .. Capacity, Filled(h, m),
         NEW a \in 0 .. m - 1, NEW b \in 0 .. m - 1
  PROVE  Rearranged(h, Swapped(h, a, b), m)
<1> DEFINE g == Swapped(h, a, b)
           From(c) == IF c = a THEN b ELSE IF c = b THEN a ELSE c
<1>1. Capacity \in Nat /\ a \in Index /\ b \in Index /\ \A c \in 0 .. m - 1 : c \in Index
  BY DEF HeapConstants, Index
<1>2. g \in Arrays /\ \A c \in 0 .. m - 1 : g[c] = h[From(c)]
  <2>1. g \in Arrays /\ g[a] = h[b] /\ g[b] = h[a] /\ \A c \in Index \ {a, b} : g[c] = h[c]
    BY <1>1, SwapMoves
  <2> HIDE DEF g
  <2> QED BY <1>1, <2>1
<1>3. \A c \in 0 .. m - 1 : From(c) \in 0 .. m - 1 /\ From(From(c)) = c
  OBVIOUS
<1> HIDE DEF g, From
<1>4. Filled(g, m)
  BY <1>2, <1>3 DEF Filled
<1>5. Contents(g, m) = Contents(h, m)
  <2>1. Contents(g, m) \subseteq Contents(h, m)
    BY <1>2, <1>3 DEF Contents
  <2>2. ASSUME NEW c \in 0 .. m - 1 PROVE h[c] \in Contents(g, m)
    <3>1. From(c) \in 0 .. m - 1 /\ g[From(c)] = h[c]
      BY <1>2, <1>3
    <3> QED BY <3>1 DEF Contents
  <2> QED BY <2>1, <2>2 DEF Contents
<1>6. Distinct(h, m) => Distinct(g, m)
  <2> SUFFICES ASSUME Distinct(h, m), NEW c \in 0 .. m - 1, NEW d \in 0 .. m - 1,
                      g[c][2] = g[d][2]
               PROVE  c = d
    BY DEF Distinct
  <2>1. From(c) = From(d)
    BY <1>2, <1>3 DEF Distinct
  <2> QED BY <1>3, <2>1
<1> QED BY <1>2, <1>4, <1>5, <1>6 DEF Rearranged, g

LEMMA RearrangedAgain ==
  ASSUME NEW m, NEW f, NEW g, NEW h, Rearranged(f, g, m), Rearranged(g, h, m)
  PROVE  Rearranged(f, h, m)
  BY DEF Rearranged

\* The loop of SiftUp.
LEMMA SiftUpRule ==
  ASSUME HeapConstants, NEW h \in Arrays, NEW c \in Index
  PROVE  SiftUp(h, c) = IF c > 0 /\ Less(h[c], h[Parent(c)])
                          THEN SiftUp(Swapped(h, Parent(c), c), Parent(c)) ELSE h
<1> DEFINE D == Arrays \X Index
           Going(s) == s[2] > 0 /\ Less(s[1][s[2]], s[1][Parent(s[2])])
           Passed(s) == <<Swapped(s[1], Parent(s[2]), s[2]), Parent(s[2])>>
           Stop == {s \in D : ~ Going(s)}
           variant == [s \in D |-> s[2]]
           last == [s \in D |-> s[1]]
           prev == [s \in D |-> IF Going(s) THEN Passed(s) ELSE s]
           IsIt(g) == g = [s \in D |-> IF Going(s) THEN g[Passed(s)] ELSE s[1]]
           loop == CHOOSE g : IsIt(g)
<1>1. Capacity \in Nat /\ \A x \in Index : x \in Nat
  BY DEF HeapConstants, Index
<1>2. ASSUME NEW s \in D, Going(s) PROVE Passed(s) \in D /\ Passed(s)[2] < s[2]
  <2>1. s[1] \in Arrays /\ s[2] \in Index /\ s[2] \in Nat \ {0}
    BY <1>1, <1>2
  <2>2. Parent(s[2]) \in Index /\ Parent(s[2]) < s[2]
    BY <1>1, <2>1, ParentOf DEF Index
  <2>3. Swapped(s[1], Parent(s[2]), s[2]) \in Arrays
    BY <2>1, <2>2, SwapMoves
  <2> QED BY <2>2, <2>3
<1>3. \E g : IsIt(g)
  <2>1. variant \in [D -> Nat] /\ last \in [D -> Arrays]
    BY <1>1
  <2>2. \A s \in D : prev[s] = IF Going(s) THEN Passed(s) ELSE s
    OBVIOUS
  <2>3. prev \in [D -> D]
    <3> HIDE DEF Passed, Going, D
    <3> QED BY <1>2
  <2>4. \A s \in D \ Stop : variant[prev[s]] < variant[s]
    <3> HIDE DEF Passed, Going, D, prev
    <3> QED BY <1>2, <2>2, <2>3
  <2>5. \A s \in D : last[s] = s[1]
    OBVIOUS
  <2> HIDE DEF variant, last, prev
  <2>6. PICK g \in [D -> Arrays] : g = [s \in D |-> IF s \in Stop THEN last[s] ELSE g[prev[s]]]
    <3> HIDE DEF D, Stop
    <3>1. LoopEnds(D, Stop, variant, Arrays, last, prev)
      BY <2>1, <2>3, <2>4 DEF LoopEnds
    <3> QED BY <3>1, LoopExists
  <2> DEFINE Rule(s) == IF Going(s) THEN g[Passed(s)] ELSE s[1]
  <2>7. \A s \in D : g[s] = Rule(s)
    <3> HIDE DEF Going, Passed, D
    <3> QED BY <2>2, <2>5, <2>6
  <2>8. g = [s \in D |-> Rule(s)]
    <3> HIDE DEF Rule, D
    <3> QED BY <2>7
  <2> QED BY <2>8
<1>4. \A array, first : SiftUp(array, first) = loop[<<array, first>>]
  BY DEF SiftUp, Parent
<1>5. IsIt(loop)
  <2> HIDE DEF IsIt
  <2> QED BY <1>3
<1> HIDE DEF loop
<1>6. <<h, c>> \in D /\ <<h, c>>[1] = h /\ <<h, c>>[2] = c
  OBVIOUS
<1>7. loop[<<h, c>>] = IF Going(<<h, c>>) THEN loop[Passed(<<h, c>>)] ELSE h
  <2> HIDE DEF Going, Passed, D
  <2> QED BY <1>5, <1>6
<1> QED BY <1>4, <1>6, <1>7

\* The loop of SiftDown.
LEMMA SmallerChildIs ==
  ASSUME NEW h, NEW m \in Nat, NEW c \in Nat, 2 * c + 1 < m
  PROVE  /\ SmallerChild(h, m, c) \in c + 1 .. m - 1
         /\ SmallerChild(h, m, c) \in Nat \ {0} /\ Parent(SmallerChild(h, m, c)) = c
<1>1. SmallerChild(h, m, c) \in {2 * c + 1, 2 * c + 2} /\ SmallerChild(h, m, c) < m
  BY DEF SmallerChild
<1> QED BY <1>1, ParentOf

LEMMA SiftDownRule ==
  ASSUME HeapConstants, NEW h \in Arrays, NEW m \in 0 .. Capacity, NEW c \in Index
  PROVE  SiftDown(h, m, c)
           = IF 2 * c + 1 < m /\ Less(h[SmallerChild(h, m, c)], h[c])
               THEN SiftDown(Swapped(h, c, SmallerChild(h, m, c)), m, SmallerChild(h, m, c))
               ELSE h
<1> DEFINE D == Arrays \X Index
           Child(s) == SmallerChild(s[1], m, s[2])
           Going(s) == 2 * s[2] + 1 < m /\ Less(s[1][Child(s)], s[1][s[2]])
           Passed(s) == <<Swapped(s[1], s[2], Child(s)), Child(s)>>
           Stop == {s \in D : ~ Going(s)}
           variant == [s \in D |-> Capacity - s[2]]
           last == [s \in D |-> s[1]]
           prev == [s \in D |-> IF Going(s) THEN Passed(s) ELSE s]
           IsIt(g) == g = [s \in D |-> IF Going(s) THEN g[Passed(s)] ELSE s[1]]
           loop == CHOOSE g : IsIt(g)
<1>1. Capacity \in Nat /\ m \in Nat /\ m <= Capacity
      /\ \A x \in Index : x \in Nat /\ Capacity - x \in Nat
  BY DEF HeapConstants, Index
<1>2. ASSUME NEW s \in D, Going(s)
      PROVE  Passed(s) \in D /\ Capacity - Passed(s)[2] < Capacity - s[2]
  <2>1. s[1] \in Arrays /\ s[2] \in Index /\ s[2] \in Nat
    BY <1>1
  <2>2. Child(s) \in Index /\ s[2] < Child(s) /\ Child(s) \in Nat
    BY <1>1, <1>2, <2>1, SmallerChildIs DEF Index
  <2>3. Swapped(s[1], s[2], Child(s)) \in Arrays
    BY <2>1, <2>2, SwapMoves
  <2> HIDE DEF Child, Going
  <2> QED BY <1>1, <2>1, <2>2, <2>3
<1>3. \E g : IsIt(g)
  <2>1. variant \in [D -> Nat] /\ last \in [D -> Arrays]
    BY <1>1
  <2>2. \A s \in D : prev[s] = IF Going(s) THEN Passed(s) ELSE s
    OBVIOUS
  <2>3. prev \in [D -> D]
    <3> HIDE DEF Passed, Going, D
    <3> QED BY <1>2
  <2>4. \A s \in D : variant[s] = Capacity - s[2]
    OBVIOUS
  <2>5. \A s \in D \ Stop : variant[prev[s]] < variant[s]
    <3> HIDE DEF Passed, Going, D, prev, variant
    <3> QED BY <1>2, <2>2, <2>3, <2>4
  <2>6. \A s \in D : last[s] = s[1]
    OBVIOUS
  <2> HIDE DEF variant, last, prev
  <2>7. PICK g \in [D -> Arrays] : g = [s \in D |-> IF s \in Stop THEN last[s] ELSE g[prev[s]]]
    <3> HIDE DEF D, Stop
    <3>1. LoopEnds(D, Stop, variant, Arrays, last, prev)
      BY <2>1, <2>3, <2>5 DEF LoopEnds
    <3> QED BY <3>1, LoopExists
  <2> DEFINE Rule(s) == IF Going(s) THEN g[Passed(s)] ELSE s[1]
  <2>8. \A s \in D : g[s] = Rule(s)
    <3> HIDE DEF Going, Passed, D
    <3> QED BY <2>2, <2>6, <2>7
  <2>9. g = [s \in D |-> Rule(s)]
    <3> HIDE DEF Rule, D
    <3> QED BY <2>8
  <2> QED BY <2>9
<1>4. \A array, first : SiftDown(array, m, first) = loop[<<array, first>>]
  BY DEF SiftDown
<1>5. IsIt(loop)
  <2> HIDE DEF IsIt
  <2> QED BY <1>3
<1> HIDE DEF loop
<1>6. <<h, c>> \in D /\ <<h, c>>[1] = h /\ <<h, c>>[2] = c
  OBVIOUS
<1>7. loop[<<h, c>>] = IF Going(<<h, c>>) THEN loop[Passed(<<h, c>>)] ELSE h
  <2> HIDE DEF Going, Passed, D
  <2> QED BY <1>5, <1>6
<1> QED BY <1>4, <1>6, <1>7

-----------------------------------------------------------------------------
\* On the way up only the entry at c may be smaller than its parent, and its children are
\* not smaller than that parent.
UpOrder(h, m, c) ==
  /\ \A d \in 1 .. m - 1 : d # c => InOrder(h, d)
  /\ \A d \in 1 .. m - 1 : Parent(d) = c /\ c > 0 => ~ Less(h[d], h[Parent(c)])

LEMMA UpPass ==
  ASSUME HeapConstants, NEW h \in Arrays, NEW m \in 0 .. Capacity, Filled(h, m),
         NEW c \in 1 .. m - 1, UpOrder(h, m, c), Less(h[c], h[Parent(c)])
  PROVE  UpOrder(Swapped(h, Parent(c), c), m, Parent(c))
<1> DEFINE p == Parent(c)
           g == Swapped(h, p, c)
<1>1. /\ Capacity \in Nat /\ p \in Index /\ c \in Index /\ p < c /\ p \in 0 .. m - 1
      /\ \A d \in 0 .. m - 1 : d \in Index
  BY ParentOf DEF HeapConstants, Index
<1>2. g[p] = h[c] /\ g[c] = h[p] /\ \A d \in 0 .. m - 1 : d # p /\ d # c => g[d] = h[d]
  <2>1. g[p] = h[c] /\ g[c] = h[p] /\ \A d \in Index \ {p, c} : g[d] = h[d]
    BY <1>1, SwapMoves
  <2> HIDE DEF g, p
  <2> QED BY <1>1, <2>1
<1>3. \A d \in 1 .. m - 1 : Parent(d) \in 0 .. m - 1 /\ Parent(d) # d
  BY ParentOf
<1>4. \A d \in 0 .. m - 1 : h[d] \in Entries
  BY DEF Filled
<1> HIDE DEF g
<1>5. ASSUME NEW d \in 1 .. m - 1, d # p PROVE InOrder(g, d)
  <2>1. CASE d = c
    BY <1>1, <1>2, <1>4, <2>1, LessOrders DEF InOrder
  <2>2. CASE d # c /\ Parent(d) = p
    <3>1. ~ Less(h[d], h[p]) /\ ~ Less(h[p], h[c])
      BY <1>1, <1>4, <2>2, LessOrders DEF UpOrder, InOrder
    <3>2. ~ Less(h[d], h[c])
      BY <1>1, <1>4, <3>1, LessOrders
    <3> QED BY <1>2, <1>5, <2>2, <3>2 DEF InOrder
  <2>3. CASE d # c /\ Parent(d) = c
    BY <1>1, <1>2, <1>5, <2>3 DEF UpOrder, InOrder
  <2>4. CASE d # c /\ Parent(d) # p /\ Parent(d) # c
    BY <1>2, <1>3, <1>5, <2>4 DEF UpOrder, InOrder
  <2> QED BY <2>1, <2>2, <2>3, <2>4
<1>6. ASSUME NEW d \in 1 .. m - 1, Parent(d) = p, p > 0 PROVE ~ Less(g[d], g[Parent(p)])
  <2> DEFINE q == Parent(p)
  <2>1. q \in 0 .. m - 1 /\ q # p /\ q # c /\ p \in 1 .. m - 1
    BY <1>1, <1>6, ParentOf
  <2>2. g[q] = h[q] /\ ~ Less(h[p], h[q])
    BY <1>1, <1>2, <2>1 DEF UpOrder, InOrder
  <2>3. CASE d = c
    BY <1>2, <2>2, <2>3
  <2>4. CASE d # c
    <3>1. d # p /\ g[d] = h[d] /\ ~ Less(h[d], h[p])
      BY <1>2, <1>3, <1>6, <2>4 DEF UpOrder, InOrder
    <3>2. h[d] \in Entries /\ h[p] \in Entries /\ h[q] \in Entries
      BY <1>1, <1>4, <2>1
    <3>3. ~ Less(h[d], h[q])
      <4> HIDE DEF q, p
      <4> QED BY <2>2, <3>1, <3>2, LessOrders
    <3> QED BY <2>2, <3>1, <3>3
  <2> QED BY <2>3, <2>4 DEF q
<1> QED BY <1>5, <1>6 DEF UpOrder, g

LEMMA SiftUpOrders ==
  ASSUME HeapConstants, NEW m \in 0 .. Capacity, NEW c \in 0 .. m - 1,
         NEW h \in Arrays, Filled(h, m), UpOrder(h, m, c)
  PROVE  Rearranged(h, SiftUp(h, c), m) /\ IsHeap(SiftUp(h, c), m)
<1> DEFINE Ends(f, x) == Rearranged(f, SiftUp(f, x), m) /\ IsHeap(SiftUp(f, x), m)
           T == {x \in Nat : /\ x \in 0 .. m - 1
                             /\ \E f \in Arrays : Filled(f, m) /\ UpOrder(f, m, x) /\ ~ Ends(f, x)}
<1>1. SUFFICES ASSUME T # {} PROVE FALSE
  OBVIOUS
<1>2. PICK x \in T : \A y \in T : x <= y
  BY <1>1, NatMin
<1>3. x \in 0 .. m - 1 /\ x \in Nat
  OBVIOUS
<1>4. PICK f \in Arrays : Filled(f, m) /\ UpOrder(f, m, x) /\ ~ Ends(f, x)
  OBVIOUS
<1> DEFINE p == Parent(x)
           g == Swapped(f, p, x)
<1>5. Capacity \in Nat /\ \A y \in 0 .. m - 1 : y \in Index
  BY DEF HeapConstants, Index
<1>6. CASE x > 0 /\ Less(f[x], f[p])
  <2>1. p \in 0 .. m - 1 /\ p \in Nat /\ p < x /\ x \in 1 .. m - 1
    BY <1>3, <1>5, <1>6, ParentOf
  <2>2. Rearranged(f, g, m) /\ UpOrder(g, m, p)
    BY <1>4, <1>6, <2>1, SwapRearranges, UpPass
  <2>3. g \in Arrays /\ Filled(g, m)
    BY <2>2 DEF Rearranged
  <2>4. SiftUp(f, x) = SiftUp(g, p)
    BY <1>3, <1>5, <1>6, SiftUpRule
  <2> HIDE DEF g, p
  <2>5. ~ Ends(g, p)
    BY <1>4, <2>2, <2>4, RearrangedAgain
  <2>6. p \in T
    BY <2>1, <2>2, <2>3, <2>5
  <2> HIDE DEF T
  <2> QED BY <1>2, <1>3, <2>1, <2>6
<1>7. CASE ~ (x > 0 /\ Less(f[x], f[p]))
  <2>1. SiftUp(f, x) = f
    BY <1>3, <1>5, <1>7, SiftUpRule
  <2>2. IsHeap(f, m)
    BY <1>4, <1>7 DEF IsHeap, UpOrder, InOrder
  <2>3. Rearranged(f, f, m)
    BY <1>4 DEF Rearranged
  <2> QED BY <1>4, <2>1, <2>2, <2>3
<1> QED BY <1>6, <1>7

\* On the way down only the children of c may be smaller than their parent, and they are
\* not smaller than the parent of c.
DownOrder(h, m, c) ==
  /\ \A d \in 1 .. m - 1 : Parent(d) # c => InOrder(h, d)
  /\ \A d \in 1 .. m - 1 : Parent(d) = c /\ c > 0 => ~ Less(h[d], h[Parent(c)])

\* Neither child of c is smaller than the one SmallerChild finds.
LEMMA SmallestOfChildren ==
  ASSUME HeapConstants, NEW m \in 0 .. Capacity, NEW h, Filled(h, m),
         NEW c \in 0 .. m - 1, NEW d \in 1 .. m - 1, Parent(d) = c
  PROVE  2 * c + 1 < m /\ ~ Less(h[d], h[SmallerChild(h, m, c)])
<1> DEFINE b == SmallerChild(h, m, c)
           left == 2 * c + 1
<1>1. Capacity \in Nat /\ m \in Nat /\ c \in Nat /\ d \in Nat \ {0}
  BY DEF HeapConstants
<1>2. d = left \/ d = left + 1
  BY <1>1, ParentOf
<1>3. left < m /\ left \in 0 .. m - 1
  BY <1>1, <1>2
<1>4. b = IF left + 1 < m /\ Less(h[left + 1], h[left]) THEN left + 1 ELSE left
  BY DEF SmallerChild
<1>5. h[left] \in Entries /\ h[d] \in Entries
  BY <1>1, <1>3 DEF Filled
<1> HIDE DEF b, left
<1>6. ~ Less(h[d], h[b])
  <2>1. CASE d = left
    <3>1. CASE b = left
      BY <1>5, <2>1, <3>1, LessOrders
    <3>2. CASE b # left
      <4>1. left + 1 \in 0 .. m - 1 /\ b = left + 1 /\ Less(h[left + 1], h[left])
        BY <1>1, <1>3, <1>4, <3>2 DEF left
      <4>2. h[left + 1] \in Entries
        BY <4>1 DEF Filled
      <4> QED BY <1>5, <2>1, <4>1, <4>2, LessOrders
    <3> QED BY <3>1, <3>2
  <2>2. CASE d = left + 1
    BY <1>1, <1>4, <1>5, <2>2, LessOrders
  <2> QED BY <1>2, <2>1, <2>2
<1> QED BY <1>3, <1>6 DEF b, left

LEMMA DownPass ==
  ASSUME HeapConstants, NEW h \in Arrays, NEW m \in 0 .. Capacity, Filled(h, m),
         NEW c \in 0 .. m - 1, DownOrder(h, m, c), 2 * c + 1 < m,
         Less(h[SmallerChild(h, m, c)], h[c])
  PROVE  DownOrder(Swapped(h, c, SmallerChild(h, m, c)), m, SmallerChild(h, m, c))
<1> DEFINE b == SmallerChild(h, m, c)
           g == Swapped(h, c, b)
<1>1. /\ Capacity \in Nat /\ b \in 1 .. m - 1 /\ c < b /\ Parent(b) = c
      /\ b \in Index /\ c \in Index
      /\ \A d \in 0 .. m - 1 : d \in Index
  <2>1. Capacity \in Nat /\ m \in Nat /\ c \in Nat
    BY DEF HeapConstants
  <2>2. b \in c + 1 .. m - 1 /\ Parent(b) = c
    BY <2>1, SmallerChildIs
  <2> QED BY <2>1, <2>2 DEF Index
<1>2. g[c] = h[b] /\ g[b] = h[c] /\ \A d \in 0 .. m - 1 : d # b /\ d # c => g[d] = h[d]
  <2>1. g[c] = h[b] /\ g[b] = h[c] /\ \A d \in Index \ {c, b} : g[d] = h[d]
    BY <1>1, SwapMoves, ZenonT(60)
  <2> HIDE DEF g, b
  <2> QED BY <1>1, <2>1
<1>3. \A d \in 1 .. m - 1 : Parent(d) \in 0 .. m - 1 /\ Parent(d) < d
  BY ParentOf
<1>4. \A d \in 0 .. m - 1 : h[d] \in Entries
  BY DEF Filled
<1>5. \A d \in 1 .. m - 1 : Parent(d) = c => ~ Less(h[d], h[b])
  BY SmallestOfChildren
<1>6. ~ Less(h[c], h[b])
  BY <1>1, <1>4, LessOrders
<1> HIDE DEF g, b
<1>7. ASSUME NEW d \in 1 .. m - 1, Parent(d) # b PROVE InOrder(g, d)
  <2>1. CASE d = b
    BY <1>1, <1>2, <1>6, <2>1 DEF InOrder
  <2>2. CASE d # b /\ Parent(d) = c
    BY <1>2, <1>3, <1>5, <2>2 DEF InOrder
  <2>3. CASE d = c
    <3>1. c > 0 /\ c \in 1 .. m - 1 /\ Parent(c) \in 0 .. m - 1 /\ Parent(c) # b /\ Parent(c) # c
      BY <1>1, <1>3, <1>7, <2>3
    <3>2. ~ Less(h[b], h[Parent(c)])
      BY <1>1, <3>1 DEF DownOrder
    <3> QED BY <1>2, <2>3, <3>1, <3>2 DEF InOrder
  <2>4. CASE d # b /\ d # c /\ Parent(d) # c
    BY <1>2, <1>3, <1>7, <2>4 DEF DownOrder, InOrder
  <2> QED BY <2>1, <2>2, <2>3, <2>4
<1>8. ASSUME NEW d \in 1 .. m - 1, Parent(d) = b PROVE ~ Less(g[d], g[Parent(b)])
  <2>1. d # b /\ d # c /\ Parent(d) # c
    BY <1>1, <1>3, <1>8
  <2> QED BY <1>1, <1>2, <1>8, <2>1 DEF DownOrder, InOrder
<1> QED BY <1>7, <1>8 DEF DownOrder, g, b

LEMMA SiftDownOrders ==
  ASSUME HeapConstants, NEW m \in 0 .. Capacity, NEW c \in 0 .. m - 1,
         NEW h \in Arrays, Filled(h, m), DownOrder(h, m, c)
  PROVE  Rearranged(h, SiftDown(h, m, c), m) /\ IsHeap(SiftDown(h, m, c), m)
<1> DEFINE Ends(f, x) == Rearranged(f, SiftDown(f, m, x), m) /\ IsHeap(SiftDown(f, m, x), m)
           Bad(x) == \E f \in Arrays : Filled(f, m) /\ DownOrder(f, m, x) /\ ~ Ends(f, x)
           T == {k \in Nat : \E x \in 0 .. m - 1 : k = m - x /\ Bad(x)}
<1>0. Capacity \in Nat /\ m \in Nat /\ \A y \in 0 .. m - 1 : y \in Index
  BY DEF HeapConstants, Index
<1>1. SUFFICES ASSUME T # {} PROVE FALSE
  <2>1. m - c \in Nat
    BY <1>0
  <2>2. m - c \notin T
    BY <1>1, Zenon
  <2>3. ~ Bad(c)
    <3> HIDE DEF Bad
    <3> QED BY <2>1, <2>2
  <2> QED BY <2>3
<1>2. PICK k \in T : \A j \in T : k <= j
  BY <1>1, NatMin
<1>3. PICK x \in 0 .. m - 1 : k = m - x /\ Bad(x)
  OBVIOUS
<1>4. PICK f \in Arrays : Filled(f, m) /\ DownOrder(f, m, x) /\ ~ Ends(f, x)
  BY <1>3
<1> DEFINE b == SmallerChild(f, m, x)
           g == Swapped(f, x, b)
<1>5. CASE 2 * x + 1 < m /\ Less(f[b], f[x])
  <2>1. b \in 0 .. m - 1 /\ x < b
    BY <1>0, <1>5, SmallerChildIs
  <2>2. Rearranged(f, g, m) /\ DownOrder(g, m, b)
    BY <1>4, <1>5, <2>1, SwapRearranges, DownPass
  <2>3. g \in Arrays /\ Filled(g, m)
    BY <2>2 DEF Rearranged
  <2>4. SiftDown(f, m, x) = SiftDown(g, m, b)
    BY <1>0, <1>5, SiftDownRule
  <2> HIDE DEF g, b
  <2>5. ~ Ends(g, b)
    BY <1>4, <2>2, <2>4, RearrangedAgain
  <2>6. Bad(b)
    BY <2>2, <2>3, <2>5
  <2> HIDE DEF Bad
  <2>7. m - b \in T /\ m - b < k /\ k \in Int
    BY <1>0, <1>3, <2>1, <2>6
  <2> HIDE DEF T
  <2> QED BY <1>0, <1>2, <2>1, <2>7
<1>6. CASE ~ (2 * x + 1 < m /\ Less(f[b], f[x]))
  <2>1. SiftDown(f, m, x) = f
    BY <1>0, <1>6, SiftDownRule
  <2>2. ASSUME NEW d \in 1 .. m - 1 PROVE InOrder(f, d)
    <3>1. CASE Parent(d) # x
      BY <1>4, <3>1 DEF DownOrder
    <3>2. CASE Parent(d) = x
      <4>1. 2 * x + 1 < m /\ ~ Less(f[d], f[b])
        BY <1>4, <3>2, SmallestOfChildren
      <4>2. ~ Less(f[b], f[x]) /\ b \in 0 .. m - 1
        BY <1>0, <1>6, <4>1, SmallerChildIs
      <4>3. f[d] \in Entries /\ f[b] \in Entries /\ f[x] \in Entries
        BY <1>4, <4>2 DEF Filled
      <4> HIDE DEF b
      <4> QED BY <3>2, <4>1, <4>2, <4>3, LessOrders DEF InOrder
    <3> QED BY <3>1, <3>2
  <2>3. IsHeap(f, m) /\ Rearranged(f, f, m)
    BY <1>4, <2>2 DEF IsHeap, Rearranged
  <2> QED BY <1>4, <2>1, <2>3
<1> QED BY <1>5, <1>6

-----------------------------------------------------------------------------
\* No entry of a heap is smaller than its root.
LEMMA RootIsLeast ==
  ASSUME HeapConstants, NEW m \in 0 .. Capacity, NEW h, Filled(h, m), IsHeap(h, m),
         NEW c \in 0 .. m - 1
  PROVE  ~ Less(h[c], h[0])
<1> DEFINE T == {x \in Nat : x < m /\ Less(h[x], h[0])}
<1>0. Capacity \in Nat /\ m \in Nat
  BY DEF HeapConstants
<1>1. SUFFICES ASSUME T # {} PROVE FALSE
  BY <1>0
<1>2. PICK x \in T : \A y \in T : x <= y
  BY <1>1, NatMin
<1>3. x \in 0 .. m - 1 /\ Less(h[x], h[0]) /\ 0 \in 0 .. m - 1
  BY <1>0
<1>4. \A y \in 0 .. m - 1 : h[y] \in Entries
  BY DEF Filled
<1>5. x # 0
  BY <1>3, <1>4, LessOrders
<1>6. Parent(x) \in 0 .. m - 1 /\ Parent(x) \in Nat /\ Parent(x) < x /\ x \in 1 .. m - 1
  BY <1>0, <1>3, <1>5, ParentOf
<1>7. ~ Less(h[x], h[Parent(x)])
  BY <1>6 DEF IsHeap, InOrder
<1>8. Less(h[Parent(x)], h[0])
  BY <1>3, <1>4, <1>6, <1>7, LessOrders
<1>9. Parent(x) \in T
  BY <1>0, <1>6, <1>8
<1> HIDE DEF T
<1> QED BY <1>2, <1>3, <1>6, <1>9

LEMMA ContentsCount ==
  ASSUME NEW m \in Nat, NEW h, Filled(h, m), Distinct(h, m)
  PROVE  IsFiniteSet(Contents(h, m)) /\ Cardinality(Contents(h, m)) = m
<1> DEFINE I == 0 .. m - 1
           f == [c \in I |-> h[c]]
<1>1. \A c, d \in I : f[c] = f[d] => c = d
  BY DEF Distinct
<1>2. f \in [I -> Contents(h, m)] /\ \A e \in Contents(h, m) : \E c \in I : f[c] = e
  BY DEF Contents
<1>3. IsFiniteSet(I) /\ Cardinality(I) = m
  BY FS_Interval
<1> HIDE DEF f, I
<1>4. f \in Bijection(I, Contents(h, m))
  BY <1>1, <1>2 DEF Bijection, Injection, Surjection, IsInjective
<1> QED BY <1>3, <1>4, FS_Bijection DEF ExistsBijection

-----------------------------------------------------------------------------
\* The heap between two calls.
HeapTypes ==
  /\ slot \in Arrays /\ size \in 0 .. Capacity /\ pushed \subseteq Ranks
  /\ Filled(slot, size) /\ \A c \in 0 .. size - 1 : slot[c][2] \in pushed

\* Every rank is in one slot at most, and no entry is smaller than its parent.
HeapOrdered == Distinct(slot, size) /\ IsHeap(slot, size)

HeapInv == HeapTypes /\ HeapOrdered

LEMMA HeapInitial == ASSUME HeapConstants, HeapInit PROVE HeapInv /\ Queue!Init
<1>1. Capacity \in Nat /\ size = 0
  BY DEF HeapConstants, HeapInit
<1>2. slot \in Arrays
  BY DEF HeapInit, Arrays
<1>3. 0 .. size - 1 = {} /\ 1 .. size - 1 = {}
  BY <1>1
<1>4. HeapTypes
  BY <1>1, <1>2, <1>3 DEF HeapInit, HeapTypes, Filled
<1>5. HeapOrdered
  BY <1>3 DEF HeapOrdered, Distinct, IsHeap
<1>6. Queue!Init
  BY <1>3 DEF HeapInit, Queue!Init, None, Queue!None
<1> QED BY <1>4, <1>5, <1>6 DEF HeapInv

LEMMA HeapPush ==
  ASSUME HeapConstants, HeapInv, NEW key \in Keys, NEW rank \in Ranks, Push(key, rank)
  PROVE  HeapInv' /\ Contents(slot', size') = Contents(slot, size) \cup {<<key, rank>>}
<1> DEFINE e == <<key, rank>>
           h == [slot EXCEPT ![size] = e]
           m == size + 1
<1>1. /\ Capacity \in Nat /\ size \in Nat /\ size < Capacity /\ m \in 0 .. Capacity
      /\ size \in Index /\ e \in Entries /\ rank \notin pushed
  BY DEF HeapConstants, HeapInv, HeapTypes, Index, Entries, Push
<1>2. slot \in [Index -> (Keys \X Ranks) \cup {None}] /\ e \in Keys \X Ranks
  BY DEF HeapInv, HeapTypes, Arrays
<1>3. h \in Arrays
  BY <1>2 DEF Arrays
<1>4. h[size] = e /\ \A c \in 0 .. size - 1 : h[c] = slot[c] /\ slot[c] \in Entries
                                              /\ slot[c][2] \in pushed
  <2>1. \A c \in 0 .. size - 1 : c \in Index /\ c # size
    BY <1>1 DEF Index
  <2>2. h[size] = e /\ \A c \in 0 .. size - 1 : h[c] = slot[c]
    BY <1>1, <1>2, <2>1
  <2> QED BY <2>2 DEF HeapInv, HeapTypes, Filled
<1>5. slot' = SiftUp(h, size) /\ size' = m /\ pushed' = pushed \cup {rank}
  BY DEF Push
<1> HIDE DEF h
<1>6. Filled(h, m)
  BY <1>1, <1>4 DEF Filled
<1>7. UpOrder(h, m, size)
  <2>1. ASSUME NEW d \in 1 .. m - 1, d # size PROVE InOrder(h, d)
    <3>1. d \in 1 .. size - 1 /\ d \in 0 .. size - 1 /\ Parent(d) \in 0 .. size - 1
      BY <1>1, <2>1, ParentOf
    <3> QED BY <1>4, <3>1 DEF HeapInv, HeapOrdered, IsHeap, InOrder
  <2>2. ASSUME NEW d \in 1 .. m - 1 PROVE Parent(d) # size
    BY <1>1, ParentOf
  <2> QED BY <2>1, <2>2 DEF UpOrder
<1>8. Rearranged(h, slot', m) /\ IsHeap(slot', m)
  BY <1>1, <1>3, <1>5, <1>6, <1>7, SiftUpOrders
<1>9. Distinct(h, m)
  <2> SUFFICES ASSUME NEW c \in 0 .. m - 1, NEW d \in 0 .. m - 1, h[c][2] = h[d][2]
               PROVE  c = d
    BY DEF Distinct
  <2>1. e[2] = rank
    OBVIOUS
  <2> HIDE DEF e
  <2>2. CASE c = size /\ d # size
    BY <1>1, <1>4, <2>1, <2>2
  <2>3. CASE c # size /\ d = size
    BY <1>1, <1>4, <2>1, <2>3
  <2>4. CASE c # size /\ d # size
    <3>1. c \in 0 .. size - 1 /\ d \in 0 .. size - 1
      BY <1>1, <2>4
    <3> QED BY <1>4, <3>1 DEF HeapInv, HeapOrdered, Distinct
  <2> QED BY <2>2, <2>3, <2>4
<1>10. Contents(h, m) = Contents(slot, size) \cup {e}
  <2>1. \A c \in 0 .. m - 1 : c = size \/ c \in 0 .. size - 1
    BY <1>1
  <2>2. 0 .. size - 1 \subseteq 0 .. m - 1 /\ size \in 0 .. m - 1
    BY <1>1
  <2> HIDE DEF e, m
  <2> QED BY <1>4, <2>1, <2>2 DEF Contents
<1>11. \A c \in 0 .. m - 1 : slot'[c][2] \in pushed'
  <2> SUFFICES ASSUME NEW c \in 0 .. m - 1 PROVE slot'[c][2] \in pushed'
    OBVIOUS
  <2>1. slot'[c] \in Contents(slot, size) \cup {e}
    BY <1>8, <1>10 DEF Rearranged, Contents
  <2>2. e[2] \in pushed'
    BY <1>5
  <2> HIDE DEF e
  <2>3. \A x \in Contents(slot, size) : x[2] \in pushed'
    BY <1>5 DEF HeapInv, HeapTypes, Contents
  <2> QED BY <2>1, <2>2, <2>3
<1>12. HeapTypes'
  BY <1>1, <1>5, <1>8, <1>11 DEF HeapInv, HeapTypes, Rearranged
<1>13. HeapOrdered'
  BY <1>5, <1>8, <1>9 DEF HeapOrdered, Rearranged
<1> QED BY <1>5, <1>8, <1>10, <1>12, <1>13 DEF HeapInv, Rearranged

LEMMA HeapPop ==
  ASSUME HeapConstants, HeapInv, Pop
  PROVE  /\ HeapInv' /\ slot[0] \in Contents(slot, size)
         /\ Contents(slot', size') = Contents(slot, size) \ {slot[0]}
         /\ \A x \in Contents(slot, size) : ~ Less(x, slot[0])
<1> DEFINE m == size - 1
           h == [slot EXCEPT ![0] = slot[m]]
<1>1. /\ Capacity \in Nat /\ size \in Nat /\ size > 0 /\ size <= Capacity
      /\ m \in 0 .. Capacity /\ m \in 0 .. size - 1 /\ 0 \in 0 .. size - 1
      /\ \A c \in 0 .. size - 1 : c \in Index
  BY DEF HeapConstants, HeapInv, HeapTypes, Index, Pop
<1>2. slot \in [Index -> (Keys \X Ranks) \cup {None}]
  BY DEF HeapInv, HeapTypes, Arrays
<1>3. h \in Arrays
  BY <1>1, <1>2 DEF Arrays
<1>4. h[0] = slot[m] /\ \A c \in 1 .. m : h[c] = slot[c]
  BY <1>1, <1>2
<1>5. slot' = SiftDown(h, m, 0) /\ size' = m /\ pushed' = pushed
  BY DEF Pop
<1>6. \A c \in 0 .. size - 1 : slot[c] \in Entries /\ slot[c][2] \in pushed
  BY DEF HeapInv, HeapTypes, Filled
<1> HIDE DEF h
<1>7. \A c \in 0 .. m - 1 : h[c] = slot[IF c = 0 THEN m ELSE c]
  BY <1>1, <1>4
<1>8. Filled(h, m)
  BY <1>1, <1>6, <1>7 DEF Filled
<1>9. \A c, d \in 0 .. size - 1 : slot[c] = slot[d] => c = d
  BY DEF HeapInv, HeapOrdered, Distinct
<1>10. Distinct(h, m)
  <2> SUFFICES ASSUME NEW c \in 0 .. m - 1, NEW d \in 0 .. m - 1, h[c][2] = h[d][2]
               PROVE  c = d
    BY DEF Distinct
  <2> DEFINE From(x) == IF x = 0 THEN m ELSE x
  <2>1. From(c) \in 0 .. size - 1 /\ From(d) \in 0 .. size - 1
    BY <1>1
  <2>2. slot[From(c)][2] = slot[From(d)][2]
    BY <1>7
  <2>3. From(c) = From(d)
    <3> HIDE DEF From
    <3> QED BY <2>1, <2>2 DEF HeapInv, HeapOrdered, Distinct
  <2> QED BY <1>1, <2>3
<1>11. Contents(h, m) = Contents(slot, size) \ {slot[0]}
  <2>1. ASSUME NEW x \in Contents(h, m) PROVE x \in Contents(slot, size) \ {slot[0]}
    <3>1. PICK c \in 0 .. m - 1 : x = h[c]
      BY DEF Contents
    <3> DEFINE d == IF c = 0 THEN m ELSE c
    <3>2. d \in 0 .. size - 1 /\ d # 0
      BY <1>1
    <3>3. x = slot[d]
      BY <1>7, <3>1
    <3> HIDE DEF d
    <3> QED BY <1>1, <1>9, <3>2, <3>3 DEF Contents
  <2>2. ASSUME NEW x \in Contents(slot, size) \ {slot[0]} PROVE x \in Contents(h, m)
    <3>1. PICK d \in 0 .. size - 1 : x = slot[d] /\ d # 0
      BY DEF Contents
    <3> DEFINE c == IF d = m THEN 0 ELSE d
    <3>2. c \in 0 .. m - 1 /\ (IF c = 0 THEN m ELSE c) = d
      BY <1>1, <3>1
    <3>3. h[c] = x
      BY <1>7, <3>1, <3>2
    <3> HIDE DEF c
    <3> QED BY <3>2, <3>3 DEF Contents
  <2> QED BY <2>1, <2>2
<1>12. Rearranged(h, slot', m) /\ IsHeap(slot', m)
  <2>1. CASE m > 0
    <3>1. 0 \in 0 .. m - 1
      BY <1>1, <2>1
    <3>2. ASSUME NEW d \in 1 .. m - 1, Parent(d) # 0 PROVE InOrder(h, d)
      <4>1. Parent(d) \in 1 .. m - 1 /\ d \in 1 .. size - 1 /\ d \in 1 .. m
            /\ Parent(d) \in 1 .. m
        BY <1>1, <3>2, ParentOf
      <4> QED BY <1>4, <4>1 DEF HeapInv, HeapOrdered, IsHeap, InOrder
    <3>3. DownOrder(h, m, 0)
      BY <3>2 DEF DownOrder
    <3> QED BY <1>1, <1>3, <1>5, <1>8, <3>1, <3>3, SiftDownOrders
  <2>2. CASE m = 0
    <3>1. 0 \in Index
      BY <1>1
    <3>2. slot' = h
      BY <1>1, <1>3, <1>5, <2>2, <3>1, SiftDownRule
    <3>3. 1 .. m - 1 = {}
      BY <2>2
    <3> HIDE DEF m
    <3> QED BY <1>3, <1>8, <3>2, <3>3 DEF Rearranged, IsHeap
  <2> QED BY <1>1, <2>1, <2>2
<1>13. \A c \in 0 .. m - 1 : slot'[c][2] \in pushed'
  <2> SUFFICES ASSUME NEW c \in 0 .. m - 1 PROVE slot'[c][2] \in pushed'
    OBVIOUS
  <2>1. slot'[c] \in Contents(slot, size)
    BY <1>11, <1>12 DEF Rearranged, Contents
  <2>2. \A x \in Contents(slot, size) : x[2] \in pushed
    BY <1>6 DEF Contents
  <2> QED BY <1>5, <2>1, <2>2
<1>14. HeapTypes'
  BY <1>1, <1>5, <1>12, <1>13 DEF HeapInv, HeapTypes, Rearranged
<1>15. HeapOrdered'
  BY <1>5, <1>10, <1>12 DEF HeapOrdered, Rearranged
<1>16. ASSUME NEW x \in Contents(slot, size) PROVE ~ Less(x, slot[0])
  <2>1. size \in 0 .. Capacity /\ Filled(slot, size) /\ IsHeap(slot, size)
    BY DEF HeapInv, HeapTypes, HeapOrdered
  <2> QED BY <2>1, RootIsLeast DEF Contents
<1>17. slot[0] \in Contents(slot, size)
  BY <1>1 DEF Contents
<1> QED BY <1>5, <1>11, <1>12, <1>14, <1>15, <1>16, <1>17 DEF HeapInv, Rearranged

LEMMA HeapStep ==
  ASSUME HeapConstants, HeapInv, [HeapNext]_heapVars
  PROVE  HeapInv' /\ [Queue!Next]_(Queue!vars)
<1> DEFINE entries == Contents(slot, size)
<1>0. Queue!Cardinality(entries) = Cardinality(entries)
  BY DEF Queue!Cardinality, Queue!IsFiniteSet, Cardinality, IsFiniteSet
<1>1. /\ Cardinality(entries) = size /\ \A x \in entries : x \in Keys \X Ranks
  <2>1. size \in Nat /\ Filled(slot, size) /\ Distinct(slot, size)
    BY DEF HeapConstants, HeapInv, HeapTypes, HeapOrdered
  <2> QED BY <2>1, ContentsCount DEF Contents, Filled, Entries
<1>2. ASSUME NEW key \in Keys, NEW rank \in Ranks, Push(key, rank)
      PROVE  HeapInv' /\ Queue!Push(key, rank)
  <2>1. HeapInv' /\ Contents(slot', size') = entries \cup {<<key, rank>>}
    BY <1>2, HeapPush
  <2> QED BY <1>0, <1>1, <1>2, <2>1 DEF Push, Queue!Push, Contents
<1>3. ASSUME Pop PROVE HeapInv' /\ \E e \in Keys \X Ranks : Queue!Pop(e)
  <2>1. /\ HeapInv' /\ slot[0] \in entries
        /\ Contents(slot', size') = entries \ {slot[0]}
        /\ \A x \in entries : ~ Less(x, slot[0])
    BY <1>3, HeapPop
  <2>2. PICK e \in Keys \X Ranks : e = slot[0]
    BY <1>1, <2>1
  <2>3. \A x, y : Queue!Less(x, y) <=> Less(x, y)
    BY Zenon DEF Less, Queue!Less
  <2>4. popped' = e /\ UNCHANGED pushed
    BY <1>3, <2>2 DEF Pop
  <2>5. \A x \in entries : ~ Queue!Less(x, e)
    BY <2>1, <2>2, <2>3
  <2>6. Queue!Pop(e)
    BY <2>1, <2>2, <2>4, <2>5 DEF Queue!Pop, Contents
  <2> QED BY <2>1, <2>6
<1>4. ASSUME UNCHANGED heapVars PROVE HeapInv' /\ UNCHANGED Queue!vars
  BY <1>4 DEF heapVars, Queue!vars, HeapInv, HeapTypes, HeapOrdered
<1>5. CASE HeapNext
  BY <1>2, <1>3, <1>5 DEF HeapNext, Queue!Next
<1> QED BY <1>4, <1>5

\* For any keys, ranks and capacity, what _score_pop and _run_pop take out of the array is
\* a smallest of the entries that are in it, and those are the entries that were pushed and
\* not taken out: the swaps lose, double or invent none.
THEOREM HeapRefinesQueue ==
  ASSUME HeapConstants
  PROVE  HeapSpec => RefinesEntryQueue
<1>1. HeapInit => HeapInv /\ Queue!Init
  BY HeapInitial
<1>2. HeapInv /\ [HeapNext]_heapVars => HeapInv' /\ [Queue!Next]_(Queue!vars)
  BY HeapStep
<1> QED BY <1>1, <1>2, PTL DEF HeapSpec, RefinesEntryQueue, Queue!Spec

-----------------------------------------------------------------------------
\* The segment tree: the way up.
LEMMA SizeType == Size \in Nat \ {0}
  BY SizeAssumption

LEMMA Halving ==
  ASSUME NEW x \in Nat \ {0}
  PROVE  x \div 2 \in Nat /\ x \div 2 < x /\ (x = 2 * (x \div 2) \/ x = 2 * (x \div 2) + 1)
  OBVIOUS

LEMMA PathUpRule ==
  /\ PathUp(0) = {}
  /\ \A node \in 1 .. 2 * Size - 1 : PathUp(node) = {node} \cup PathUp(node \div 2)
<1> DEFINE D == 0 .. 2 * Size - 1
           Stop == {0}
           S == SUBSET Nat
           variant == [x \in D |-> x]
           last == [x \in D |-> {}]
           prev == [x \in D |-> x \div 2]
           step == [x \in D |-> [s \in S |-> {x} \cup s]]
           IsIt(g) == g = [x \in D |-> IF x = 0 THEN {} ELSE {x} \cup g[x \div 2]]
           up == CHOOSE g : IsIt(g)
<1>1. \A x \in D : x \in Nat /\ x \div 2 \in D /\ (x # 0 => x \div 2 < x)
  BY SizeType, Halving
<1>2. Terminates(D, Stop, variant, S, last, prev, step)
  <2>1. variant \in [D -> Nat] /\ last \in [D -> S] /\ prev \in [D -> D]
    BY <1>1
  <2>2. \A x \in D : [s \in S |-> {x} \cup s] \in [S -> S]
    BY <1>1
  <2>3. step \in [D -> [S -> S]]
    <3> HIDE DEF D, S
    <3> QED BY <2>2
  <2>4. \A x \in D \ Stop : variant[prev[x]] < variant[x]
    BY <1>1
  <2> HIDE DEF D, Stop, variant, S, last, prev, step
  <2> QED BY <2>1, <2>3, <2>4 DEF Terminates
<1>3. PICK g \in [D -> S] : g = [x \in D |-> IF x \in Stop THEN last[x] ELSE step[x][g[prev[x]]]]
  <2> HIDE DEF D, Stop, variant, S, last, prev, step
  <2> QED BY <1>2, RecursionExists
<1>4. IsIt(g)
  <2> DEFINE Rule(x) == IF x = 0 THEN {} ELSE {x} \cup g[x \div 2]
  <2>1. \A x \in D : g[x] = Rule(x)
    <3> TAKE x \in D
    <3>1. g[x] = IF x \in Stop THEN last[x] ELSE step[x][g[prev[x]]]
      BY <1>3
    <3>2. prev[x] = x \div 2 /\ last[x] = {} /\ g[x \div 2] \in S
      BY <1>1
    <3>3. \A s \in S : step[x][s] = {x} \cup s
      OBVIOUS
    <3> HIDE DEF step, last, prev, D, S
    <3> QED BY <3>1, <3>2, <3>3
  <2>2. g = [x \in D |-> Rule(x)]
    <3> HIDE DEF Rule, D
    <3> QED BY <2>1
  <2> QED BY <2>2
<1>5. IsIt(up)
  <2> HIDE DEF IsIt
  <2> QED BY <1>4
<1>6. \A node : PathUp(node) = up[node]
  BY DEF PathUp
<1> HIDE DEF up
<1>7. \A x \in D : up[x] = IF x = 0 THEN {} ELSE {x} \cup up[x \div 2]
  BY <1>5
<1>8. 0 \in D /\ \A node \in 1 .. 2 * Size - 1 : node \in D /\ node # 0
  BY SizeType
<1> HIDE DEF D
<1> QED BY <1>6, <1>7, <1>8

\* Every node on the way up is no larger than where it starts, and all that is above it is
\* on the way too.
LEMMA PathUpBelow ==
  ASSUME NEW node \in 0 .. 2 * Size - 1
  PROVE  /\ PathUp(node) \subseteq 1 .. node
         /\ node # 0 => node \in PathUp(node)
         /\ PathUp(node \div 2) \subseteq PathUp(node)
         /\ \A x \in PathUp(node) : PathUp(x) \subseteq PathUp(node)
         /\ \A x \in PathUp(node) : x # 1 => x \div 2 \in PathUp(node)
<1> DEFINE Good(y) == /\ PathUp(y) \subseteq 1 .. y
                      /\ \A x \in PathUp(y) : PathUp(x) \subseteq PathUp(y)
                      /\ \A x \in PathUp(y) : x # 1 => x \div 2 \in PathUp(y)
           T == {y \in 0 .. 2 * Size - 1 : ~ Good(y)}
<1>1. T = {}
  <2> SUFFICES ASSUME T # {} PROVE FALSE
    OBVIOUS
  <2>1. T \in SUBSET Nat
    BY SizeType
  <2>2. PICK y \in T : \A x \in T : y <= x
    BY <2>1, NatMin
  <2>3. y \in 0 .. 2 * Size - 1 /\ ~ Good(y)
    OBVIOUS
  <2>4. y # 0
    BY <2>3, PathUpRule
  <2> DEFINE z == y \div 2
  <2>5. y \in Nat \ {0} /\ z \in 0 .. 2 * Size - 1 /\ z < y
    BY <2>3, <2>4, SizeType, Halving
  <2>6. PathUp(y) = {y} \cup PathUp(z)
    BY <2>3, <2>4, <2>5, PathUpRule
  <2>7. Good(z)
    <3> HIDE DEF Good, z
    <3>1. z \notin T
      BY <2>2, <2>3, <2>5
    <3> QED BY <2>5, <3>1
  <2>8. z # 0 => z \in PathUp(z)
    BY <2>5, PathUpRule
  <2>9. y # 1 => z # 0
    BY <2>5, Halving
  <2> QED BY <2>3, <2>5, <2>6, <2>7, <2>8, <2>9
<1>2. Good(node)
  BY <1>1
<1>3. node # 0 => PathUp(node) = {node} \cup PathUp(node \div 2)
  BY PathUpRule, SizeType
<1>4. node = 0 => node \div 2 = 0
  OBVIOUS
<1> QED BY <1>2, <1>3, <1>4

LEMMA TagsAboveRule ==
  ASSUME NEW tag \in [Internal -> Int]
  PROVE  /\ \A node \in Nodes : TagsAbove(tag, node) \in Int
         /\ TagsAbove(tag, 1) = 0
         /\ \A node \in Nodes \ {1} :
              TagsAbove(tag, node) = tag[node \div 2] + TagsAbove(tag, node \div 2)
<1> DEFINE Stop == {1}
           variant == [x \in Nodes |-> x]
           last == [x \in Nodes |-> 0]
           prev == [x \in Nodes |-> IF x = 1 THEN 1 ELSE x \div 2]
           step == [x \in Nodes |-> [s \in Int |-> IF x = 1 THEN s ELSE tag[x \div 2] + s]]
           IsIt(g) == g = [x \in Nodes |-> IF x = 1 THEN 0 ELSE tag[x \div 2] + g[x \div 2]]
           above == CHOOSE g : IsIt(g)
<1>1. /\ 1 \in Nodes
      /\ \A x \in Nodes : x \in Nat
      /\ \A x \in Nodes : x # 1 => /\ x \div 2 \in Nodes /\ x \div 2 < x
                                   /\ tag[x \div 2] \in Int
  <2> SUFFICES ASSUME NEW x \in Nodes, x # 1
               PROVE  x \div 2 \in Nodes /\ x \div 2 < x /\ x \div 2 \in Internal
    BY SizeType DEF Nodes
  <2> QED BY SizeType, Halving DEF Nodes, Internal
<1>2. Terminates(Nodes, Stop, variant, Int, last, prev, step)
  <2>1. variant \in [Nodes -> Nat] /\ last \in [Nodes -> Int] /\ prev \in [Nodes -> Nodes]
    BY <1>1
  <2>2. \A x \in Nodes : [s \in Int |-> IF x = 1 THEN s ELSE tag[x \div 2] + s] \in [Int -> Int]
    BY <1>1
  <2>3. step \in [Nodes -> [Int -> Int]]
    BY <2>2
  <2>4. \A x \in Nodes \ Stop : variant[prev[x]] < variant[x]
    BY <1>1
  <2> HIDE DEF Stop, variant, last, prev, step
  <2> QED BY <2>1, <2>3, <2>4 DEF Terminates
<1>3. PICK g \in [Nodes -> Int] :
        g = [x \in Nodes |-> IF x \in Stop THEN last[x] ELSE step[x][g[prev[x]]]]
  <2> HIDE DEF Stop, variant, last, prev, step
  <2> QED BY <1>2, RecursionExists
<1>4. IsIt(g)
  <2> DEFINE Rule(x) == IF x = 1 THEN 0 ELSE tag[x \div 2] + g[x \div 2]
  <2>1. \A x \in Nodes : g[x] = Rule(x)
    <3> TAKE x \in Nodes
    <3>1. g[x] = IF x \in Stop THEN last[x] ELSE step[x][g[prev[x]]]
      BY <1>3
    <3>2. last[x] = 0 /\ (x # 1 => prev[x] = x \div 2 /\ g[x \div 2] \in Int)
      BY <1>1
    <3>3. x # 1 => \A s \in Int : step[x][s] = tag[x \div 2] + s
      OBVIOUS
    <3> HIDE DEF step, last, prev
    <3> QED BY <3>1, <3>2, <3>3
  <2>2. g = [x \in Nodes |-> Rule(x)]
    <3> HIDE DEF Rule
    <3> QED BY <2>1
  <2> QED BY <2>2
<1>5. IsIt(above)
  <2> HIDE DEF IsIt
  <2> QED BY <1>4
<1>6. \A node : TagsAbove(tag, node) = above[node]
  BY DEF TagsAbove
<1> HIDE DEF above
<1>7. \A x \in Nodes : above[x] = IF x = 1 THEN 0 ELSE tag[x \div 2] + above[x \div 2]
  BY <1>5
<1>8. \A x \in Nodes : above[x] \in Int
  <2> DEFINE T == {x \in Nodes : above[x] \notin Int}
  <2> SUFFICES ASSUME T # {} PROVE FALSE
    OBVIOUS
  <2>1. PICK x \in T : \A y \in T : x <= y
    BY <1>1, NatMin
  <2>2. x \in Nodes /\ above[x] \notin Int
    OBVIOUS
  <2>3. x # 1
    BY <1>7, <2>2
  <2>4. x \div 2 \in T
    BY <1>1, <1>7, <2>2, <2>3
  <2> QED BY <1>1, <2>1, <2>2, <2>3, <2>4
<1> QED BY <1>1, <1>6, <1>7, <1>8

\* One pass of _st_pull.
Recomputed(h, tag, x) == [h EXCEPT ![x] = Maximum(h[2 * x], h[2 * x + 1]) + tag[x]]

LEMMA Children ==
  ASSUME NEW x \in Internal
  PROVE  /\ x \in Nodes /\ 2 * x \in Nodes /\ 2 * x + 1 \in Nodes
         /\ x < 2 * x /\ (2 * x) \div 2 = x /\ (2 * x + 1) \div 2 = x
         /\ x \div 2 \in 0 .. Size - 1 /\ x \div 2 < x
         /\ x # 0 /\ 2 * x # 1 /\ 2 * x + 1 # 1
  BY SizeType DEF Internal, Nodes

LEMMA RecomputedType ==
  ASSUME NEW h \in [Nodes -> Int], NEW tag \in [Internal -> Int], NEW x \in Internal
  PROVE  /\ Recomputed(h, tag, x) \in [Nodes -> Int]
         /\ Recomputed(h, tag, x)[x] = Maximum(h[2 * x], h[2 * x + 1]) + tag[x]
         /\ \A y \in Nodes \ {x} : Recomputed(h, tag, x)[y] = h[y]
  BY Children DEF Recomputed, Maximum

LEMMA PullRule ==
  ASSUME NEW h \in [Nodes -> Int], NEW tag \in [Internal -> Int], NEW x \in 0 .. Size - 1
  PROVE  Pull(h, tag, x) = IF x = 0 THEN h ELSE Pull(Recomputed(h, tag, x), tag, x \div 2)
<1> DEFINE A == [Nodes -> Int]
           D == A \X (0 .. Size - 1)
           Passed(s) == <<Recomputed(s[1], tag, s[2]), s[2] \div 2>>
           Stop == {s \in D : s[2] = 0}
           variant == [s \in D |-> s[2]]
           last == [s \in D |-> s[1]]
           prev == [s \in D |-> IF s[2] = 0 THEN s ELSE Passed(s)]
           IsIt(g) == g = [s \in D |-> IF s[2] = 0 THEN s[1] ELSE g[Passed(s)]]
           loop == CHOOSE g : IsIt(g)
<1>1. \A s \in D : s[1] \in A /\ s[2] \in 0 .. Size - 1 /\ s[2] \in Nat
  BY SizeType
<1>2. ASSUME NEW s \in D, s[2] # 0 PROVE Passed(s) \in D /\ Passed(s)[2] < s[2]
  <2>1. s[2] \in Internal
    BY <1>1, <1>2 DEF Internal
  <2>2. Recomputed(s[1], tag, s[2]) \in A
    BY <1>1, <2>1, RecomputedType
  <2>3. s[2] \div 2 \in 0 .. Size - 1 /\ s[2] \div 2 < s[2]
    BY <2>1, Children
  <2> HIDE DEF A
  <2> QED BY <2>2, <2>3
<1>3. \E g : IsIt(g)
  <2>1. variant \in [D -> Nat] /\ last \in [D -> A]
    BY <1>1
  <2>2. \A s \in D : prev[s] = IF s[2] = 0 THEN s ELSE Passed(s)
    OBVIOUS
  <2>3. prev \in [D -> D]
    <3> HIDE DEF Passed, D
    <3> QED BY <1>2
  <2>4. \A s \in D \ Stop : variant[prev[s]] < variant[s]
    <3> HIDE DEF Passed, D, prev
    <3> QED BY <1>2, <2>2, <2>3
  <2>5. \A s \in D : last[s] = s[1]
    OBVIOUS
  <2> HIDE DEF variant, last, prev
  <2>6. PICK g \in [D -> A] : g = [s \in D |-> IF s \in Stop THEN last[s] ELSE g[prev[s]]]
    <3> HIDE DEF D, Stop, A
    <3>1. LoopEnds(D, Stop, variant, A, last, prev)
      BY <2>1, <2>3, <2>4 DEF LoopEnds
    <3> QED BY <3>1, LoopExists
  <2> DEFINE Rule(s) == IF s[2] = 0 THEN s[1] ELSE g[Passed(s)]
  <2>7. \A s \in D : g[s] = Rule(s)
    <3> HIDE DEF Passed, D
    <3> QED BY <2>2, <2>5, <2>6
  <2>8. g = [s \in D |-> Rule(s)]
    <3> HIDE DEF Rule, D
    <3> QED BY <2>7
  <2> QED BY <2>8
<1>4. \A tr, node : Pull(tr, tag, node) = loop[<<tr, node>>]
  BY DEF Pull, Recomputed
<1>5. IsIt(loop)
  <2> HIDE DEF IsIt
  <2> QED BY <1>3
<1> HIDE DEF loop
<1>6. <<h, x>> \in D /\ <<h, x>>[1] = h /\ <<h, x>>[2] = x
  OBVIOUS
<1>7. loop[<<h, x>>] = IF x = 0 THEN h ELSE loop[Passed(<<h, x>>)]
  <2> HIDE DEF Passed, D
  <2> QED BY <1>5, <1>6
<1> QED BY <1>4, <1>6, <1>7

\* _st_pull touches the nodes on the way up and nothing else, and leaves each of them the
\* greater of its children plus its own tag.
LEMMA PullRecomputes ==
  ASSUME NEW h \in [Nodes -> Int], NEW tag \in [Internal -> Int], NEW node \in 0 .. Size - 1
  PROVE  /\ Pull(h, tag, node) \in [Nodes -> Int]
         /\ \A x \in Nodes \ PathUp(node) : Pull(h, tag, node)[x] = h[x]
         /\ \A x \in PathUp(node) :
              Pull(h, tag, node)[x]
                = Maximum(Pull(h, tag, node)[2 * x], Pull(h, tag, node)[2 * x + 1]) + tag[x]
<1> DEFINE Good(f, g, y) ==
             /\ g \in [Nodes -> Int]
             /\ \A x \in Nodes \ PathUp(y) : g[x] = f[x]
             /\ \A x \in PathUp(y) : g[x] = Maximum(g[2 * x], g[2 * x + 1]) + tag[x]
           T == {y \in 0 .. Size - 1 : \E f \in [Nodes -> Int] : ~ Good(f, Pull(f, tag, y), y)}
<1>1. T = {}
  <2> SUFFICES ASSUME T # {} PROVE FALSE
    OBVIOUS
  <2>1. T \in SUBSET Nat
    BY SizeType
  <2>2. PICK y \in T : \A z \in T : y <= z
    BY <2>1, NatMin
  <2>3. y \in 0 .. Size - 1
    OBVIOUS
  <2>4. PICK f \in [Nodes -> Int] : ~ Good(f, Pull(f, tag, y), y)
    OBVIOUS
  <2>5. CASE y = 0
    <3>1. Pull(f, tag, y) = f /\ PathUp(y) = {}
      BY <2>3, <2>5, PullRule, PathUpRule
    <3> QED BY <2>4, <3>1
  <2>6. CASE y # 0
    <3> DEFINE z == y \div 2
               f1 == Recomputed(f, tag, y)
               g == Pull(f1, tag, z)
    <3>1. y \in Internal /\ y \in 1 .. 2 * Size - 1 /\ y \in Nodes /\ y \in Nat
      BY <2>3, <2>6, SizeType DEF Internal, Nodes
    <3>2. z \in 0 .. Size - 1 /\ z < y /\ 2 * y \in Nodes /\ 2 * y + 1 \in Nodes
      BY <3>1, Children
    <3>3. f1 \in [Nodes -> Int] /\ f1[y] = Maximum(f[2 * y], f[2 * y + 1]) + tag[y]
          /\ \A x \in Nodes \ {y} : f1[x] = f[x]
      BY <3>1, RecomputedType
    <3>4. Pull(f, tag, y) = g
      BY <2>3, <2>6, PullRule
    <3>5. PathUp(y) = {y} \cup PathUp(z)
      BY <3>1, PathUpRule
    <3>6. PathUp(z) \subseteq 1 .. z
      BY <3>2, SizeType, PathUpBelow
    <3>7. z \notin T
      <4> HIDE DEF z, T
      <4> QED BY <2>2, <2>3, <3>2
    <3>8. Good(f1, g, z)
      <4> HIDE DEF z, f1, Good
      <4> QED BY <3>2, <3>3, <3>7
    <3> HIDE DEF z, f1, g
    <3>9. y \notin PathUp(z) /\ 2 * y \notin PathUp(z) /\ 2 * y + 1 \notin PathUp(z)
      BY <3>1, <3>2, <3>6
    <3>10. g[y] = Maximum(g[2 * y], g[2 * y + 1]) + tag[y]
      <4>1. 2 * y # y /\ 2 * y + 1 # y
        BY <3>1
      <4>2. g[y] = f1[y] /\ g[2 * y] = f[2 * y] /\ g[2 * y + 1] = f[2 * y + 1]
        BY <3>1, <3>2, <3>3, <3>8, <3>9, <4>1
      <4> QED BY <3>3, <4>2
    <3>11. \A x \in Nodes \ PathUp(y) : g[x] = f[x]
      BY <3>3, <3>5, <3>8
    <3>12. \A x \in PathUp(y) : g[x] = Maximum(g[2 * x], g[2 * x + 1]) + tag[x]
      BY <3>5, <3>8, <3>10
    <3>13. g \in [Nodes -> Int]
      BY <3>8
    <3> QED BY <2>4, <3>4, <3>11, <3>12, <3>13
  <2> QED BY <2>5, <2>6
<1> HIDE DEF Good
<1>2. Good(h, Pull(h, tag, node), node)
  BY <1>1
<1> QED BY <1>2 DEF Good

-----------------------------------------------------------------------------
\* The nodes that a suffix add reaches.
Odd(n) == n % 2 = 1
HalfUp(n) == (n + (n % 2)) \div 2

LEMMA CoverRule ==
  ASSUME NEW left \in 0 .. 2 * Size, NEW right \in 0 .. 2 * Size
  PROVE  /\ left >= right => Cover(left, right) = {}
         /\ left < right => Cover(left, right)
                              = (IF Odd(left) THEN {left} ELSE {})
                                \cup (IF Odd(right) THEN {right - 1} ELSE {})
                                \cup Cover(HalfUp(left), (right - (right % 2)) \div 2)
<1> DEFINE N == 0 .. 2 * Size
           D == N \X N
           S == SUBSET Int
           Own(s) == (IF Odd(s[1]) THEN {s[1]} ELSE {}) \cup (IF Odd(s[2]) THEN {s[2] - 1} ELSE {})
           Passed(s) == <<HalfUp(s[1]), (s[2] - (s[2] % 2)) \div 2>>
           Stop == {s \in D : s[1] >= s[2]}
           variant == [s \in D |-> s[2]]
           last == [s \in D |-> {}]
           prev == [s \in D |-> IF s[1] >= s[2] THEN s ELSE Passed(s)]
           step == [s \in D |-> [t \in S |-> Own(s) \cup t]]
           IsIt(g) == g = [s \in D |-> IF s[1] >= s[2] THEN {} ELSE Own(s) \cup g[Passed(s)]]
           loop == CHOOSE g : IsIt(g)
<1>1. \A s \in D : s[1] \in N /\ s[2] \in N /\ s[1] \in Nat /\ s[2] \in Nat
  BY SizeType
<1>2. ASSUME NEW s \in D, ~ (s[1] >= s[2]) PROVE Passed(s) \in D /\ Passed(s)[2] < s[2]
  <2>1. ASSUME NEW x \in N PROVE HalfUp(x) \in N /\ (x - (x % 2)) \div 2 \in N
    BY SizeType DEF HalfUp
  <2>2. ASSUME NEW x \in Nat, x > 0 PROVE (x - (x % 2)) \div 2 < x
    BY <2>2
  <2>3. s[2] \in Nat /\ s[2] > 0
    BY <1>1, <1>2
  <2> HIDE DEF N
  <2> QED BY <1>1, <2>1, <2>2, <2>3
<1>3. Terminates(D, Stop, variant, S, last, prev, step)
  <2>1. variant \in [D -> Nat] /\ last \in [D -> S]
    BY <1>1
  <2>2. prev \in [D -> D]
    <3> HIDE DEF D, Passed
    <3> QED BY <1>2
  <2>3. \A s \in D : Own(s) \in S
    BY <1>1
  <2>4. step \in [D -> [S -> S]]
    <3> HIDE DEF D, Own
    <3> QED BY <2>3
  <2>5. \A s \in D \ Stop : variant[prev[s]] < variant[s]
    <3>1. \A s \in D \ Stop : prev[s] = Passed(s)
      OBVIOUS
    <3> HIDE DEF D, prev, Passed
    <3> QED BY <1>2, <2>2, <3>1
  <2> HIDE DEF D, Stop, variant, S, last, prev, step
  <2> QED BY <2>1, <2>2, <2>4, <2>5 DEF Terminates
<1>4. PICK g \in [D -> S] : g = [s \in D |-> IF s \in Stop THEN last[s] ELSE step[s][g[prev[s]]]]
  <2> HIDE DEF D, Stop, variant, S, last, prev, step
  <2> QED BY <1>3, RecursionExists
<1>5. IsIt(g)
  <2> DEFINE Rule(s) == IF s[1] >= s[2] THEN {} ELSE Own(s) \cup g[Passed(s)]
  <2>1. \A s \in D : g[s] = Rule(s)
    <3> TAKE s \in D
    <3>1. g[s] = IF s \in Stop THEN last[s] ELSE step[s][g[prev[s]]]
      BY <1>4
    <3>2. last[s] = {} /\ (~ (s[1] >= s[2]) => prev[s] = Passed(s) /\ g[Passed(s)] \in S)
      <4> HIDE DEF Passed, D, S
      <4> QED BY <1>2
    <3>3. \A t \in S : step[s][t] = Own(s) \cup t
      <4> HIDE DEF D, S, Own
      <4> QED OBVIOUS
    <3> HIDE DEF step, last, prev, D, S, Own, Passed
    <3> QED BY <3>1, <3>2, <3>3
  <2>2. g = [s \in D |-> Rule(s)]
    <3> HIDE DEF Rule, D
    <3> QED BY <2>1
  <2> QED BY <2>2
<1>6. IsIt(loop)
  <2> HIDE DEF IsIt
  <2> QED BY <1>5
<1>7. \A l, r : Cover(l, r) = loop[<<l, r>>]
  BY DEF Cover, Odd, HalfUp
<1> HIDE DEF loop
<1>8. <<left, right>> \in D /\ <<left, right>>[1] = left /\ <<left, right>>[2] = right
  OBVIOUS
<1>9. loop[<<left, right>>]
        = IF left >= right THEN {} ELSE Own(<<left, right>>) \cup loop[Passed(<<left, right>>)]
  <2> HIDE DEF Own, Passed, D
  <2> QED BY <1>6, <1>8
<1>10. left < right <=> ~ (left >= right)
  BY SizeType
<1> QED BY <1>7, <1>8, <1>9, <1>10

\* The first node of each level: size, halved again and again.
LEMMA Levels ==
  ASSUME NEW p \in PathUp(Size)
  PROVE  /\ p \in 1 .. Size
         /\ p # 1 => p = 2 * (p \div 2) /\ p \div 2 \in PathUp(Size) /\ p \div 2 \in 1 .. p - 1
<1>1. Size \in 0 .. 2 * Size - 1
  BY SizeType
<1>2. p \in 1 .. Size /\ (p # 1 => p \div 2 \in PathUp(Size))
  BY <1>1, PathUpBelow
<1>3. p # 1 => p % 2 = 0
  BY SizeAssumption
<1> QED BY <1>2, <1>3, SizeType

LEMMA LevelsType == PathUp(Size) \in SUBSET Nat
  BY Levels, SizeType

\* What the loop of _st_add_suffix does at a level: the right end is never odd above the root.
LEMMA CoverAtLevel ==
  ASSUME NEW p \in PathUp(Size), NEW l \in p .. 2 * p
  PROVE  /\ p = 1 => Cover(l, 2 * p) = IF l = 1 THEN {1} ELSE {}
         /\ p # 1 => /\ HalfUp(l) \in p \div 2 .. 2 * (p \div 2)
                     /\ Cover(l, 2 * p) = (IF Odd(l) THEN {l} ELSE {})
                                            \cup Cover(HalfUp(l), 2 * (p \div 2))
<1>1. p \in 1 .. Size /\ (p # 1 => p = 2 * (p \div 2) /\ p \div 2 \in 1 .. p - 1)
  BY Levels
<1>2. l \in 0 .. 2 * Size /\ 2 * p \in 0 .. 2 * Size /\ p \in 0 .. 2 * Size /\ p \in Nat
  BY <1>1, SizeType
<1>3. ~ Odd(2 * p) /\ (2 * p - ((2 * p) % 2)) \div 2 = p
  BY <1>2 DEF Odd
<1>4. l < 2 * p => Cover(l, 2 * p) = (IF Odd(l) THEN {l} ELSE {}) \cup Cover(HalfUp(l), p)
  BY <1>2, <1>3, CoverRule
<1>5. l >= 2 * p => Cover(l, 2 * p) = {}
  BY <1>2, CoverRule
<1>6. CASE p = 1
  <2>1. l = 1 \/ l = 2
    BY <1>6
  <2>2. HalfUp(1) = 1 /\ Odd(1) /\ 1 \in 0 .. 2 * Size
    BY <1>2, <1>6 DEF HalfUp, Odd
  <2>3. Cover(1, 1) = {}
    BY <2>2, CoverRule
  <2> QED BY <1>4, <1>5, <1>6, <2>1, <2>2, <2>3
<1>7. CASE p # 1
  <2> DEFINE q == p \div 2
  <2>1. p = 2 * q /\ q \in Nat \ {0}
    BY <1>1, <1>7
  <2> HIDE DEF q
  <2>2. HalfUp(l) \in q .. 2 * q
    BY <2>1 DEF HalfUp
  <2>3. l = 2 * p => HalfUp(l) = p /\ ~ Odd(l)
    BY <1>2 DEF HalfUp, Odd
  <2>4. Cover(p, p) = {}
    BY <1>2, CoverRule
  <2>5. Cover(l, 2 * p) = (IF Odd(l) THEN {l} ELSE {}) \cup Cover(HalfUp(l), p)
    <3>1. CASE l < 2 * p
      BY <1>4, <3>1
    <3>2. CASE l = 2 * p
      BY <1>2, <1>5, <2>3, <2>4, <3>2
    <3> QED BY <1>2, <3>1, <3>2
  <2> QED BY <1>7, <2>1, <2>2, <2>5 DEF q
<1> QED BY <1>6, <1>7

\* Below a level the loop reaches no node, and the parent of every node it reaches is on
\* the way up from its first leaf, and from the leaf before that.
LEMMA CoverBelow ==
  ASSUME NEW p \in PathUp(Size), NEW l \in p .. 2 * p
  PROVE  /\ Cover(l, 2 * p) \subseteq 1 .. 2 * p - 1
         /\ \A x \in Cover(l, 2 * p) : x # 1 => /\ x \div 2 \in PathUp(l \div 2)
                                                /\ x \div 2 \in PathUp((l - 1) \div 2)
<1> DEFINE Good(q, k) == /\ Cover(k, 2 * q) \subseteq 1 .. 2 * q - 1
                         /\ \A x \in Cover(k, 2 * q) :
                              x # 1 =>
                                x \div 2 \in PathUp(k \div 2) /\ x \div 2 \in PathUp((k - 1) \div 2)
           T == {q \in PathUp(Size) : \E k \in q .. 2 * q : ~ Good(q, k)}
<1>1. T = {}
  <2> SUFFICES ASSUME T # {} PROVE FALSE
    OBVIOUS
  <2>1. PathUp(Size) \in SUBSET Nat /\ T \in SUBSET PathUp(Size)
    <3> HIDE DEF Good
    <3> QED BY LevelsType
  <2>2. PICK q \in T : \A r \in T : q <= r
    <3> HIDE DEF T
    <3> QED BY <2>1, NatMin
  <2>3. PICK k \in q .. 2 * q : ~ Good(q, k)
    OBVIOUS
  <2>4. q \in PathUp(Size) /\ q \in 1 .. Size
    BY Levels
  <2>5. CASE q = 1
    <3>1. Cover(k, 2 * q) \subseteq {1}
      BY <2>4, <2>5, CoverAtLevel
    <3> QED BY <2>3, <2>5, <3>1
  <2>6. CASE q # 1
    <3> DEFINE r == q \div 2
               j == HalfUp(k)
    <3>1. q = 2 * r /\ r \in PathUp(Size) /\ r \in 1 .. q - 1 /\ q \in Nat /\ k \in Nat
      BY <2>4, <2>6, Levels
    <3>2. /\ j \in r .. 2 * r
          /\ Cover(k, 2 * q) = (IF Odd(k) THEN {k} ELSE {}) \cup Cover(j, 2 * r)
      BY <2>4, <2>6, CoverAtLevel
    <3>3. r \notin T
      <4> HIDE DEF T, r
      <4> QED BY <2>2, <3>1
    <3>4. Good(r, j)
      <4> HIDE DEF Good, r, j
      <4> QED BY <3>1, <3>2, <3>3
    <3>5. Odd(k) => k \in 1 .. 2 * q - 1 /\ k \div 2 = (k - 1) \div 2 /\ k \div 2 # 0
      BY <3>1, <2>6 DEF Odd
    <3>6. k \div 2 \in 0 .. 2 * Size - 1 /\ (k - 1) \div 2 \in 0 .. 2 * Size - 1
      BY <2>4, <3>1, SizeType
    <3>7. Odd(k) => k \div 2 \in PathUp(k \div 2) /\ k \div 2 \in PathUp((k - 1) \div 2)
      BY <3>5, <3>6, PathUpBelow
    <3>8. ASSUME NEW x \in Cover(j, 2 * r), x # 1
          PROVE  x \div 2 \in PathUp(k \div 2) /\ x \div 2 \in PathUp((k - 1) \div 2)
      <4>1. x \div 2 \in PathUp(j \div 2) /\ x \div 2 \in PathUp((j - 1) \div 2)
        BY <3>4, <3>8
      <4>2. k \div 2 \in {j, j - 1} /\ (k - 1) \div 2 = j - 1
        BY <3>1 DEF HalfUp
      <4>3. j \in 0 .. 2 * Size - 1 /\ j - 1 \in 0 .. 2 * Size - 1
        BY <2>4, <3>1, <3>2, SizeType
      <4> HIDE DEF j
      <4>4. PathUp(j \div 2) \subseteq PathUp(j) /\ PathUp((j - 1) \div 2) \subseteq PathUp(j - 1)
        BY <4>3, PathUpBelow
      <4> QED BY <4>1, <4>2, <4>4
    <3>9. Cover(k, 2 * q) \subseteq 1 .. 2 * q - 1
      BY <3>1, <3>2, <3>4, <3>5
    <3> HIDE DEF r, j
    <3> QED BY <2>3, <3>2, <3>7, <3>8, <3>9
  <2> QED BY <2>5, <2>6
<1> HIDE DEF Good
<1>2. Good(p, l)
  BY <1>1
<1> QED BY <1>2 DEF Good

-----------------------------------------------------------------------------
\* Of a leaf and its ancestors, the nodes that a suffix add reaches carry its value exactly
\* once when the leaf is in the suffix, and never when it is not.
Share(cover, x, val) == IF x \in cover THEN val ELSE 0

LEMMA CoverMeets ==
  ASSUME NEW p \in PathUp(Size), NEW l \in p .. 2 * p, NEW val \in Int,
         NEW t \in [Internal -> Int], NEW t2 \in [Internal -> Int],
         \A x \in 1 .. p - 1 : t2[x] = t[x] + Share(Cover(l, 2 * p), x, val),
         NEW y \in p .. 2 * p - 1
  PROVE  TagsAbove(t2, y) + Share(Cover(l, 2 * p), y, val)
           = TagsAbove(t, y) + IF l <= y THEN val ELSE 0
<1> DEFINE Agree(q, k) == \A x \in 1 .. q - 1 : t2[x] = t[x] + Share(Cover(k, 2 * q), x, val)
           Meets(q, k) == \A z \in q .. 2 * q - 1 :
                            TagsAbove(t2, z) + Share(Cover(k, 2 * q), z, val)
                              = TagsAbove(t, z) + IF k <= z THEN val ELSE 0
           T == {q \in PathUp(Size) : \E k \in q .. 2 * q : Agree(q, k) /\ ~ Meets(q, k)}
<1>1. T = {}
  <2> SUFFICES ASSUME T # {} PROVE FALSE
    OBVIOUS
  <2>1. PathUp(Size) \in SUBSET Nat /\ T \in SUBSET PathUp(Size)
    <3> HIDE DEF Agree, Meets
    <3> QED BY LevelsType
  <2>2. PICK q \in T : \A r \in T : q <= r
    <3> HIDE DEF T
    <3> QED BY <2>1, NatMin
  <2>3. PICK k \in q .. 2 * q : Agree(q, k) /\ ~ Meets(q, k)
    <3> HIDE DEF Agree, Meets
    <3> QED OBVIOUS
  <2>4. q \in PathUp(Size) /\ q \in 1 .. Size /\ q \in Nat
    BY <2>1, Levels, SizeType
  <2>5. PICK z \in q .. 2 * q - 1 :
          TagsAbove(t2, z) + Share(Cover(k, 2 * q), z, val)
            # TagsAbove(t, z) + IF k <= z THEN val ELSE 0
    BY <2>3
  <2>6. CASE q = 1
    <3>1. Cover(k, 2 * q) = IF k = 1 THEN {1} ELSE {}
      BY <2>4, <2>6, CoverAtLevel
    <3>2. z = 1 /\ (k = 1 \/ k = 2)
      BY <2>6
    <3>3. TagsAbove(t2, 1) = 0 /\ TagsAbove(t, 1) = 0
      BY TagsAboveRule
    <3> QED BY <2>5, <3>1, <3>2, <3>3 DEF Share
  <2>7. CASE q # 1
    <3> DEFINE r == q \div 2
               j == HalfUp(k)
               w == z \div 2
               C == Cover(j, 2 * r)
    <3>1. q = 2 * r /\ r \in PathUp(Size) /\ r \in 1 .. q - 1 /\ k \in Nat /\ z \in Nat
      BY <2>4, <2>7, Levels
    <3>2. /\ j \in r .. 2 * r
          /\ Cover(k, 2 * q) = (IF Odd(k) THEN {k} ELSE {}) \cup C
      BY <2>4, <2>7, CoverAtLevel
    <3>3. C \subseteq 1 .. q - 1
      BY <3>1, <3>2, CoverBelow
    <3>4. r \notin T
      <4> HIDE DEF T, r
      <4> QED BY <2>2, <3>1
    <3>5. Agree(r, j)
      <4> SUFFICES ASSUME NEW x \in 1 .. r - 1 PROVE t2[x] = t[x] + Share(C, x, val)
        OBVIOUS
      <4>1. x \in 1 .. q - 1 /\ x # k
        BY <3>1
      <4>2. x \in Cover(k, 2 * q) <=> x \in C
        BY <3>2, <4>1
      <4> QED BY <2>3, <4>1, <4>2 DEF Share
    <3>6. Meets(r, j)
      <4> HIDE DEF Agree, Meets, r, j
      <4> QED BY <3>1, <3>2, <3>4, <3>5
    <3>7. w \in r .. 2 * r - 1 /\ w \in 1 .. q - 1
      BY <3>1
    <3>8. z \in Nodes \ {1} /\ w \in Internal
      BY <2>4, <3>1, <3>7, SizeType DEF Nodes, Internal
    <3>9. TagsAbove(t2, w) + Share(C, w, val) = TagsAbove(t, w) + IF j <= w THEN val ELSE 0
      BY <3>6, <3>7
    <3>10. t2[w] = t[w] + Share(C, w, val)
      <4>1. w # k
        BY <3>1, <3>7
      <4>2. w \in Cover(k, 2 * q) <=> w \in C
        BY <3>2, <4>1
      <4> QED BY <2>3, <3>7, <4>2 DEF Share
    <3>11. /\ TagsAbove(t2, z) = t2[w] + TagsAbove(t2, w)
           /\ TagsAbove(t, z) = t[w] + TagsAbove(t, w)
      BY <3>8, TagsAboveRule
    <3>12. z \in Cover(k, 2 * q) <=> Odd(k) /\ z = k
      BY <3>1, <3>2, <3>3
    <3>13. k <= z <=> j <= w \/ (Odd(k) /\ z = k)
      BY <3>1 DEF HalfUp, Odd
    <3>14. Odd(k) /\ z = k => ~ (j <= w)
      BY <3>1 DEF HalfUp, Odd
    <3>15. /\ t2[w] \in Int /\ t[w] \in Int
           /\ TagsAbove(t2, w) \in Int /\ TagsAbove(t, w) \in Int
      <4> HIDE DEF w
      <4>1. w \in Nodes
        BY <3>8, Children
      <4> QED BY <3>8, <4>1, TagsAboveRule
    <3>16. Share(C, w, val) \in Int
      BY DEF Share
    <3>17. TagsAbove(t2, z)
             = TagsAbove(t, z) + (IF j <= w THEN val ELSE 0)
      <4> HIDE DEF w, j, C
      <4>1. TagsAbove(t2, z) = t[w] + Share(C, w, val) + TagsAbove(t2, w)
        BY <3>10, <3>11
      <4> QED BY <3>9, <3>11, <3>15, <3>16, <4>1
    <3>18. TagsAbove(t2, z) + Share(Cover(k, 2 * q), z, val)
             = TagsAbove(t, z) + IF k <= z THEN val ELSE 0
      <4> HIDE DEF w, j, C
      <4>1. TagsAbove(t, z) \in Int
        BY <3>11, <3>15
      <4> QED BY <3>12, <3>13, <3>14, <3>17, <4>1 DEF Share
    <3> QED BY <2>5, <3>18
  <2> QED BY <2>6, <2>7
<1> HIDE DEF Agree, Meets
<1>2. Agree(p, l)
  BY DEF Agree
<1>3. Meets(p, l)
  BY <1>1, <1>2
<1> QED BY <1>3 DEF Meets

-----------------------------------------------------------------------------
\* Every inner node holds the greater of its children plus its own tag.
Sound(tr, tag) == \A x \in Internal : tr[x] = Maximum(tr[2 * x], tr[2 * x + 1]) + tag[x]

Leaves == Size .. 2 * Size - 1

LEMMA LeafPath ==
  ASSUME NEW x \in Leaves
  PROVE  /\ x \in Nodes /\ x \notin Internal
         /\ x \div 2 \in 0 .. Size - 1
         /\ PathUp(x \div 2) \subseteq Internal
         /\ \A y \in Internal \ PathUp(x \div 2) :
              2 * y \notin PathUp(x \div 2) /\ 2 * y + 1 \notin PathUp(x \div 2)
         /\ \A y \in Internal : y = x \div 2 /\ y # 0 => y \in PathUp(x \div 2)
<1> DEFINE z == x \div 2
<1>1. x \in Nodes /\ x \notin Internal /\ z \in 0 .. Size - 1 /\ z \in 0 .. 2 * Size - 1
  BY SizeType DEF Leaves, Nodes, Internal
<1> HIDE DEF z
<1>2. PathUp(z) \subseteq 1 .. z
  BY <1>1, PathUpBelow
<1>3. 1 .. z \subseteq Internal
  BY <1>1, SizeType DEF Internal
<1>4. ASSUME NEW y \in Internal, NEW c \in {2 * y, 2 * y + 1}, c \in PathUp(z)
      PROVE  y \in PathUp(z)
  <2>1. c # 1 /\ c \div 2 = y
    BY Children
  <2> QED BY <1>1, <1>4, <2>1, PathUpBelow
<1>5. z # 0 => z \in PathUp(z)
  BY <1>1, PathUpBelow
<1> QED BY <1>1, <1>2, <1>3, <1>4, <1>5 DEF z

LEMMA StoreLeafKeeps ==
  ASSUME NEW h \in [Nodes -> Int], NEW tag \in [Internal -> Int], Sound(h, tag),
         NEW leaf \in Leaves, NEW v \in Int,
         NEW h1 \in [Nodes -> Int],
         h1[leaf] = v, \A y \in Nodes \ {leaf} : h1[y] = h[y]
  PROVE  LET g == Pull(h1, tag, leaf \div 2)
         IN  /\ g \in [Nodes -> Int] /\ Sound(g, tag)
             /\ g[leaf] = v
             /\ \A y \in Leaves \ {leaf} : g[y] = h[y]
<1> DEFINE z == leaf \div 2
           g == Pull(h1, tag, z)
           P == PathUp(z)
<1>1. /\ leaf \in Nodes /\ leaf \notin Internal /\ z \in 0 .. Size - 1 /\ P \subseteq Internal
      /\ \A y \in Internal \ P : 2 * y \notin P /\ 2 * y + 1 \notin P
      /\ \A y \in Internal : y = z /\ y # 0 => y \in P
  BY LeafPath
<1>2. h1 \in [Nodes -> Int] /\ h1[leaf] = v /\ \A y \in Nodes \ {leaf} : h1[y] = h[y]
  OBVIOUS
<1>3. /\ g \in [Nodes -> Int]
      /\ \A x \in Nodes \ P : g[x] = h1[x]
      /\ \A x \in P : g[x] = Maximum(g[2 * x], g[2 * x + 1]) + tag[x]
  <2> HIDE DEF z
  <2> QED BY <1>1, <1>2, PullRecomputes
<1>4. \A y \in Leaves : y \in Nodes /\ y \notin P
  BY <1>1, LeafPath
<1>5. ASSUME NEW x \in Internal
      PROVE  g[x] = Maximum(g[2 * x], g[2 * x + 1]) + tag[x]
  <2>1. CASE x \in P
    BY <1>3, <2>1
  <2>2. CASE x \notin P
    <3>1. /\ x \in Nodes /\ 2 * x \in Nodes /\ 2 * x + 1 \in Nodes
          /\ (2 * x) \div 2 = x /\ (2 * x + 1) \div 2 = x /\ x # 0
      BY Children
    <3>2. x # z
      BY <1>1, <2>2, <3>1
    <3>3. leaf # x /\ leaf # 2 * x /\ leaf # 2 * x + 1
      BY <1>1, <3>1, <3>2
    <3>4. 2 * x \notin P /\ 2 * x + 1 \notin P
      BY <1>1, <2>2
    <3> HIDE DEF g, P, z
    <3>5. g[x] = h[x] /\ g[2 * x] = h[2 * x] /\ g[2 * x + 1] = h[2 * x + 1]
      BY <1>2, <1>3, <2>2, <3>1, <3>3, <3>4
    <3>6. h[x] = Maximum(h[2 * x], h[2 * x + 1]) + tag[x]
      BY DEF Sound
    <3> QED BY <3>5, <3>6
  <2> QED BY <2>1, <2>2
<1>6. leaf \in Leaves
  OBVIOUS
<1> HIDE DEF g, P, z
<1>7. g[leaf] = v /\ \A y \in Leaves \ {leaf} : g[y] = h[y]
  BY <1>2, <1>3, <1>4, <1>6
<1>8. Sound(g, tag)
  BY <1>5 DEF Sound
<1>9. g \in [Nodes -> Int] /\ Sound(g, tag) /\ g[leaf] = v
      /\ \A y \in Leaves \ {leaf} : g[y] = h[y]
  BY <1>3, <1>7, <1>8
<1> QED BY <1>9 DEF g, z

LEMMA SuffixAddKeeps ==
  ASSUME NEW h \in [Nodes -> Int], NEW tag \in [Internal -> Int], Sound(h, tag),
         NEW left \in Leaves, NEW val \in Int,
         NEW cover, cover = Cover(left, 2 * Size),
         NEW tag2, tag2 = [x \in Internal |-> tag[x] + Share(cover, x, val)],
         NEW h2, h2 = [x \in Nodes |-> h[x] + Share(cover, x, val)]
  PROVE  LET g == Pull(Pull(h2, tag2, left \div 2), tag2, (2 * Size - 1) \div 2)
         IN  /\ g \in [Nodes -> Int] /\ tag2 \in [Internal -> Int] /\ Sound(g, tag2)
             /\ \A y \in Leaves :
                  g[y] + TagsAbove(tag2, y)
                    = h[y] + TagsAbove(tag, y) + IF left <= y THEN val ELSE 0
<1> DEFINE right == 2 * Size - 1
           z1 == left \div 2
           z2 == right \div 2
           g1 == Pull(h2, tag2, z1)
           g == Pull(g1, tag2, z2)
           P1 == PathUp(z1)
           P2 == PathUp(z2)
<1>1. right \in Leaves
  BY SizeType DEF Leaves
<1>2. \A x : Share(cover, x, val) \in Int
  BY DEF Share
<1>3. h2 \in [Nodes -> Int] /\ tag2 \in [Internal -> Int]
  BY <1>2
<1>4. /\ z1 \in 0 .. Size - 1 /\ P1 \subseteq Internal
      /\ \A y \in Internal \ P1 : 2 * y \notin P1 /\ 2 * y + 1 \notin P1
  BY LeafPath
<1>5. /\ z2 \in 0 .. Size - 1 /\ P2 \subseteq Internal
      /\ \A y \in Internal \ P2 : 2 * y \notin P2 /\ 2 * y + 1 \notin P2
  <2> HIDE DEF right
  <2> QED BY <1>1, LeafPath
<1>6. \A y \in Leaves : y \in Nodes /\ y \notin P1 /\ y \notin P2
  BY <1>4, <1>5, LeafPath
<1> HIDE DEF z1, z2
<1>7. /\ g1 \in [Nodes -> Int]
      /\ \A x \in Nodes \ P1 : g1[x] = h2[x]
      /\ \A x \in P1 : g1[x] = Maximum(g1[2 * x], g1[2 * x + 1]) + tag2[x]
  BY <1>3, <1>4, PullRecomputes, ZenonT(60)
<1> HIDE DEF g1
<1>8. /\ g \in [Nodes -> Int]
      /\ \A x \in Nodes \ P2 : g[x] = g1[x]
      /\ \A x \in P2 : g[x] = Maximum(g[2 * x], g[2 * x + 1]) + tag2[x]
  <2>1. g1 \in [Nodes -> Int] /\ z2 \in 0 .. Size - 1
    BY <1>5, <1>7
  <2> QED BY <1>3, <2>1, PullRecomputes
<1> HIDE DEF g, P2
<1>9. Size \in PathUp(Size) /\ left \in Size .. 2 * Size
  BY SizeType, PathUpBelow DEF Leaves
<1>10. \A c \in cover : c # 1 => c \div 2 \in P1
  BY <1>9, CoverBelow DEF z1
<1> HIDE DEF P1
<1>11. ASSUME NEW x \in Internal
       PROVE  g[x] = Maximum(g[2 * x], g[2 * x + 1]) + tag2[x]
  <2>1. /\ x \in Nodes /\ 2 * x \in Nodes /\ 2 * x + 1 \in Nodes
        /\ (2 * x) \div 2 = x /\ (2 * x + 1) \div 2 = x /\ 2 * x # 1 /\ 2 * x + 1 # 1
    BY Children
  <2>2. CASE x \in P2
    BY <1>8, <2>2
  <2>3. CASE x \notin P2
    <3>1. g[x] = g1[x] /\ g[2 * x] = g1[2 * x] /\ g[2 * x + 1] = g1[2 * x + 1]
      BY <1>5, <1>8, <2>1, <2>3
    <3>2. CASE x \in P1
      BY <1>7, <3>1, <3>2
    <3>3. CASE x \notin P1
      <4>1. 2 * x \notin cover /\ 2 * x + 1 \notin cover
        BY <1>10, <2>1, <3>3
      <4>2. g1[x] = h2[x] /\ g1[2 * x] = h2[2 * x] /\ g1[2 * x + 1] = h2[2 * x + 1]
        BY <1>4, <1>7, <2>1, <3>3
      <4>3. h2[2 * x] = h[2 * x] /\ h2[2 * x + 1] = h[2 * x + 1]
        BY <2>1, <4>1 DEF Share
      <4>4. h2[x] = h[x] + Share(cover, x, val) /\ tag2[x] = tag[x] + Share(cover, x, val)
        BY <2>1
      <4>5. h[x] = Maximum(h[2 * x], h[2 * x + 1]) + tag[x]
        BY DEF Sound
      <4>6. Maximum(h[2 * x], h[2 * x + 1]) \in Int /\ tag[x] \in Int
        BY <2>1 DEF Maximum
      <4>7. h2[x] = Maximum(h[2 * x], h[2 * x + 1]) + tag2[x]
        BY <1>2, <4>4, <4>5, <4>6
      <4> QED BY <3>1, <4>2, <4>3, <4>7
    <3> QED BY <3>2, <3>3
  <2> QED BY <2>2, <2>3
<1>12. Sound(g, tag2)
  BY <1>11 DEF Sound
<1>13. ASSUME NEW y \in Leaves
       PROVE  g[y] + TagsAbove(tag2, y)
                = h[y] + TagsAbove(tag, y) + IF left <= y THEN val ELSE 0
  <2>1. g[y] = h2[y]
    BY <1>6, <1>7, <1>8
  <2>2. h2[y] = h[y] + Share(cover, y, val) /\ h[y] \in Int
    BY <1>6
  <2>3. TagsAbove(tag2, y) + Share(cover, y, val)
          = TagsAbove(tag, y) + IF left <= y THEN val ELSE 0
    <3>1. \A x \in 1 .. Size - 1 : tag2[x] = tag[x] + Share(Cover(left, 2 * Size), x, val)
      BY DEF Internal
    <3>2. y \in Size .. 2 * Size - 1
      BY DEF Leaves
    <3> QED BY <1>3, <1>9, <3>1, <3>2, CoverMeets
  <2>4. TagsAbove(tag2, y) \in Int /\ TagsAbove(tag, y) \in Int
    BY <1>3, <1>6, TagsAboveRule
  <2> DEFINE share == Share(cover, y, val)
             gain == IF left <= y THEN val ELSE 0
  <2>5. share \in Int /\ gain \in Int
    BY <1>2
  <2> HIDE DEF share, gain
  <2>6. g[y] = h[y] + share /\ TagsAbove(tag2, y) + share = TagsAbove(tag, y) + gain
    BY <2>1, <2>2, <2>3 DEF share, gain
  <2>7. g[y] + TagsAbove(tag2, y) = h[y] + TagsAbove(tag, y) + gain
    <3>1. ASSUME NEW a \in Int, NEW b \in Int, NEW b2 \in Int, NEW c \in Int, NEW d \in Int,
                 b2 + c = b + d
          PROVE  (a + c) + b2 = a + b + d
      BY <3>1
    <3>2. h[y] \in Int
      BY <2>2
    <3> QED BY <2>4, <2>5, <2>6, <3>1, <3>2
  <2> QED BY <2>7 DEF gain
<1> QED BY <1>3, <1>8, <1>12, <1>13 DEF g, g1, z1, z2

-----------------------------------------------------------------------------
\* A position that holds a job is worth the value it was given less the work charged
\* since, so that no suffix add ever takes it down to NEG.
TreeTypes ==
  /\ tre \in [Nodes -> Int]
  /\ lz \in [Internal -> Int]
  /\ drift \in 0 .. MaxDrift
Worthy == \A pos \in Held : \E v \in Values : Value(pos) >= v - drift
TreeInv == TreeTypes /\ Sound(tre, lz) /\ Worthy

LEMMA PositionsAreLeaves ==
  /\ \A pos \in Positions : Size + pos \in Leaves /\ Size + pos \in Nodes
  /\ \A pos, pos2 \in Positions : Size + pos = Size + pos2 => pos = pos2
  BY SizeType DEF Positions, Leaves, Nodes

LEMMA ValueType ==
  ASSUME TreeTypes, NEW pos \in Positions
  PROVE  Value(pos) \in Int
  BY PositionsAreLeaves, TagsAboveRule DEF TreeTypes, Value

LEMMA Bounds ==
  ASSUME NEW v \in Values, NEW d \in 0 .. MaxDrift
  PROVE  v \in Int /\ NEG \in Int /\ v - d > NEG
  BY NegIsBelowEveryValue, WorkAssumption

LEMMA Empty ==
  ASSUME tre = NoValues, lz = NoTags
  PROVE  /\ tre \in [Nodes -> Int] /\ lz \in [Internal -> Int]
         /\ Sound(tre, lz) /\ \A pos \in Positions : Value(pos) = NEG
<1>1. NEG \in Int
  BY NegIsBelowEveryValue
<1>2. tre \in [Nodes -> Int] /\ lz \in [Internal -> Int]
  BY <1>1 DEF NoValues, NoTags
<1>3. Sound(tre, lz)
  BY <1>1, Children DEF Sound, NoValues, NoTags, Maximum
<1>4. \A x \in Nodes : TagsAbove(lz, x) = 0
  <2> DEFINE T == {x \in Nodes : TagsAbove(lz, x) # 0}
  <2> SUFFICES ASSUME T # {} PROVE FALSE
    OBVIOUS
  <2>1. T \in SUBSET Nat
    BY SizeType DEF Nodes
  <2>2. PICK x \in T : \A y \in T : x <= y
    BY <2>1, NatMin
  <2>3. x \in Nodes /\ TagsAbove(lz, x) # 0
    OBVIOUS
  <2>4. x # 1
    BY <1>2, <2>3, TagsAboveRule
  <2>5. x \div 2 \in Internal /\ x \div 2 \in Nodes /\ ~ (x <= x \div 2)
    BY <2>3, <2>4, SizeType, Halving DEF Internal, Nodes
  <2>6. TagsAbove(lz, x) = lz[x \div 2] + TagsAbove(lz, x \div 2)
    BY <1>2, <2>3, <2>4, TagsAboveRule
  <2>7. TagsAbove(lz, x \div 2) = 0
    BY <2>2, <2>5
  <2>8. lz[x \div 2] = 0
    BY <2>5 DEF NoTags
  <2> QED BY <2>3, <2>6, <2>7, <2>8
<1>5. \A pos \in Positions : Value(pos) = NEG
  BY <1>1, <1>4, PositionsAreLeaves DEF Value, NoValues
<1> QED BY <1>2, <1>3, <1>5

LEMMA StoreLeafStep ==
  ASSUME TreeInv, NEW pos \in Positions, NEW v \in Int, StoreLeaf(pos, v)
  PROVE  /\ tre' \in [Nodes -> Int] /\ lz' \in [Internal -> Int] /\ Sound(tre', lz')
         /\ Value(pos)' = v
         /\ \A p \in Positions \ {pos} : Value(p)' = Value(p)
<1> DEFINE x == Size + pos
           w == v - TagsAbove(lz, x)
<1>1. x \in Leaves /\ x \in Nodes
  BY PositionsAreLeaves
<1>2. tre \in [Nodes -> Int] /\ lz \in [Internal -> Int] /\ Sound(tre, lz)
  BY DEF TreeInv, TreeTypes
<1>3. TagsAbove(lz, x) \in Int /\ w \in Int
  <2>1. TagsAbove(lz, x) \in Int
    <3> HIDE DEF x
    <3> QED BY <1>1, <1>2, TagsAboveRule
  <2> QED BY <2>1
<1>4. tre' = Pull([tre EXCEPT ![x] = w], lz, x \div 2) /\ lz' = lz
  BY DEF StoreLeaf
<1>5. /\ tre' \in [Nodes -> Int] /\ Sound(tre', lz)
      /\ tre'[x] = w
      /\ \A y \in Leaves \ {x} : tre'[y] = tre[y]
  <2> DEFINE h1 == [tre EXCEPT ![x] = w]
             g == Pull(h1, lz, x \div 2)
  <2>1. h1 \in [Nodes -> Int] /\ h1[x] = w /\ \A y \in Nodes \ {x} : h1[y] = tre[y]
    <3> HIDE DEF x, w
    <3> QED BY <1>1, <1>2, <1>3
  <2>2. /\ g \in [Nodes -> Int] /\ Sound(g, lz)
        /\ g[x] = w
        /\ \A y \in Leaves \ {x} : g[y] = tre[y]
    <3> HIDE DEF x, w, h1
    <3> QED BY <1>1, <1>2, <1>3, <2>1, StoreLeafKeeps
  <2> HIDE DEF g
  <2> QED BY <1>4, <2>2 DEF g, h1
<1>6. Value(pos)' = v
  <2>1. Value(pos)' = w + TagsAbove(lz, x)
    BY <1>4, <1>5 DEF Value
  <2> QED BY <1>3, <2>1
<1>7. ASSUME NEW p \in Positions \ {pos} PROVE Value(p)' = Value(p)
  <2>1. Size + p \in Leaves \ {x}
    BY PositionsAreLeaves
  <2> QED BY <1>4, <1>5, <2>1 DEF Value
<1> QED BY <1>2, <1>4, <1>5, <1>6, <1>7

LEMMA SuffixAddStep ==
  ASSUME TreeInv, NEW lo \in -1 .. Size - 1, NEW val \in Int, AddFrom(lo, val)
  PROVE  /\ tre' \in [Nodes -> Int] /\ lz' \in [Internal -> Int] /\ Sound(tre', lz')
         /\ \A p \in Positions : Value(p)' = IF p >= lo THEN Value(p) + val ELSE Value(p)
<1> DEFINE left == First(lo) + Size
           cover == Cover(left, 2 * Size)
           tag2 == [x \in Internal |-> lz[x] + Share(cover, x, val)]
           h2 == [x \in Nodes |-> tre[x] + Share(cover, x, val)]
<1>1. First(lo) \in Positions /\ ~ (First(lo) >= Size) /\ left \in Leaves
  BY SizeType DEF First, Positions, Leaves
<1>2. tre \in [Nodes -> Int] /\ lz \in [Internal -> Int] /\ Sound(tre, lz)
  BY DEF TreeInv, TreeTypes
<1>3. tag2 = [x \in Internal |-> IF x \in cover THEN lz[x] + val ELSE lz[x]]
  <2>1. \A x \in Internal :
          lz[x] + Share(cover, x, val)
            = IF x \in cover THEN lz[x] + val ELSE lz[x]
    BY <1>2 DEF Share
  <2> HIDE DEF cover
  <2> QED BY <2>1
<1>4. h2 = [x \in Nodes |-> IF x \in cover THEN tre[x] + val ELSE tre[x]]
  <2>1. \A x \in Nodes :
          tre[x] + Share(cover, x, val)
            = IF x \in cover THEN tre[x] + val ELSE tre[x]
    BY <1>2 DEF Share
  <2> HIDE DEF cover
  <2> QED BY <2>1
<1>5. lz' = tag2 /\ tre' = Pull(Pull(h2, tag2, left \div 2), tag2, (2 * Size - 1) \div 2)
  BY <1>1, <1>3, <1>4 DEF AddFrom
<1>6. /\ tre' \in [Nodes -> Int] /\ lz' \in [Internal -> Int] /\ Sound(tre', lz')
      /\ \A y \in Leaves :
           tre'[y] + TagsAbove(lz', y)
             = tre[y] + TagsAbove(lz, y) + IF left <= y THEN val ELSE 0
  <2>1. /\ cover = Cover(left, 2 * Size)
        /\ tag2 = [x \in Internal |-> lz[x] + Share(cover, x, val)]
        /\ h2 = [x \in Nodes |-> tre[x] + Share(cover, x, val)]
    OBVIOUS
  <2> HIDE DEF left, cover, tag2, h2
  <2> QED BY <1>1, <1>2, <1>5, <2>1, SuffixAddKeeps
<1>7. ASSUME NEW p \in Positions
      PROVE  Value(p)' = IF p >= lo THEN Value(p) + val ELSE Value(p)
  <2>1. Size + p \in Leaves
    BY PositionsAreLeaves
  <2>2. Value(p)' = Value(p) + IF left <= Size + p THEN val ELSE 0
    BY <1>6, <2>1 DEF Value
  <2>3. left <= Size + p <=> p >= lo
    BY SizeType DEF First, Positions
  <2>4. Value(p) \in Int
    BY ValueType DEF TreeInv
  <2> HIDE DEF left
  <2> QED BY <2>2, <2>3, <2>4
<1> QED BY <1>6, <1>7

LEMMA TreeInitial == ASSUME Init PROVE TreeInv /\ Window!Init
<1>1. /\ tre \in [Nodes -> Int] /\ lz \in [Internal -> Int]
      /\ Sound(tre, lz) /\ \A pos \in Positions : Value(pos) = NEG
  BY Empty DEF Init
<1>2. Held = {}
  BY <1>1, NegIsBelowEveryValue DEF Held
<1>3. drift = 0 /\ drift \in 0 .. MaxDrift
  BY WorkAssumption DEF Init
<1> QED BY <1>1, <1>2, <1>3 DEF TreeInv, TreeTypes, Worthy, Window!Init

LEMMA TreeClear == ASSUME TreeInv, Clear PROVE TreeInv' /\ Window!Clear
<1>1. tre' = NoValues /\ lz' = NoTags /\ drift' = drift
  BY DEF Clear
<1>2. (tre = NoValues /\ lz = NoTags
         => /\ tre \in [Nodes -> Int] /\ lz \in [Internal -> Int]
            /\ Sound(tre, lz) /\ \A pos \in Positions : Value(pos) = NEG)'
  BY Empty, PTL
<1>3. /\ tre' \in [Nodes -> Int] /\ lz' \in [Internal -> Int]
      /\ Sound(tre', lz') /\ \A pos \in Positions : Value(pos)' = NEG
  BY <1>1, <1>2
<1>4. Held' = {}
  BY <1>3, NegIsBelowEveryValue DEF Held
<1>5. TreeInv'
  BY <1>1, <1>3, <1>4 DEF TreeInv, TreeTypes, Worthy
<1>6. Window!Clear
  BY <1>1, <1>4 DEF Window!Clear
<1> QED BY <1>5, <1>6

LEMMA TreeSetLeaf ==
  ASSUME TreeInv, NEW pos \in Positions, NEW v \in Values, SetLeaf(pos, v)
  PROVE  TreeInv' /\ Window!SetLeaf(pos, v)
<1>1. pos \notin Held /\ StoreLeaf(pos, v) /\ drift' = drift
  BY DEF SetLeaf
<1>2. v \in Int /\ NEG \in Int /\ drift \in 0 .. MaxDrift /\ v - drift > NEG /\ v > NEG
      /\ v >= v - drift
  <2>1. drift \in 0 .. MaxDrift /\ 0 \in 0 .. MaxDrift /\ drift \in Nat
    BY WorkAssumption DEF TreeInv, TreeTypes
  <2>2. v \in Int /\ NEG \in Int /\ v - drift > NEG /\ v - 0 > NEG
    BY <2>1, Bounds
  <2> QED BY <2>1, <2>2
<1>3. /\ tre' \in [Nodes -> Int] /\ lz' \in [Internal -> Int] /\ Sound(tre', lz')
      /\ Value(pos)' = v
      /\ \A p \in Positions \ {pos} : Value(p)' = Value(p)
  BY <1>1, <1>2, StoreLeafStep
<1>4. Held' = Held \cup {pos}
  BY <1>2, <1>3 DEF Held
<1>5. Worthy'
  <2> SUFFICES ASSUME NEW p \in Held'
               PROVE  \E u \in Values : Value(p)' >= u - drift'
    BY DEF Worthy
  <2>1. CASE p = pos
    BY <1>1, <1>2, <1>3, <2>1
  <2>2. CASE p # pos
    <3>1. p \in Held /\ p \in Positions \ {pos}
      BY <1>4, <2>2 DEF Held
    <3>2. PICK u \in Values : Value(p) >= u - drift
      BY <3>1 DEF TreeInv, Worthy
    <3> QED BY <1>1, <1>3, <3>1, <3>2
  <2> QED BY <2>1, <2>2
<1>6. TreeInv'
  BY <1>1, <1>2, <1>3, <1>5 DEF TreeInv, TreeTypes
<1>7. [p \in Held |-> Value(p)]' = Window!Put([p \in Held |-> Value(p)], pos, v)
  <2>1. Window!Put([p \in Held |-> Value(p)], pos, v)
          = [p \in Held \cup {pos} |-> IF p = pos THEN v ELSE Value(p)]
    BY DEF Window!Put
  <2>2. \A p \in Held \cup {pos} : Value(p)' = IF p = pos THEN v ELSE Value(p)
    BY <1>3 DEF Held
  <2>3. [p \in Held |-> Value(p)]' = [p \in Held \cup {pos} |-> Value(p)']
    BY <1>4
  <2> QED BY <2>1, <2>2, <2>3
<1>8. Window!SetLeaf(pos, v)
  BY <1>1, <1>7 DEF Window!SetLeaf
<1> QED BY <1>6, <1>8

LEMMA TreeClearLeaf ==
  ASSUME TreeInv, NEW pos \in Positions, ClearLeaf(pos)
  PROVE  TreeInv' /\ Window!ClearLeaf(pos)
<1>1. pos \in Held /\ StoreLeaf(pos, NEG) /\ drift' = drift /\ NEG \in Int
  BY NegIsBelowEveryValue DEF ClearLeaf
<1>2. /\ tre' \in [Nodes -> Int] /\ lz' \in [Internal -> Int] /\ Sound(tre', lz')
      /\ Value(pos)' = NEG
      /\ \A p \in Positions \ {pos} : Value(p)' = Value(p)
  BY <1>1, StoreLeafStep
<1>3. Held' = Held \ {pos}
  BY <1>1, <1>2 DEF Held
<1>4. Worthy'
  <2> SUFFICES ASSUME NEW p \in Held'
               PROVE  \E u \in Values : Value(p)' >= u - drift'
    BY DEF Worthy
  <2>1. p \in Held /\ p \in Positions \ {pos}
    BY <1>3 DEF Held
  <2>2. PICK u \in Values : Value(p) >= u - drift
    BY <2>1 DEF TreeInv, Worthy
  <2> QED BY <1>1, <1>2, <2>1, <2>2
<1>5. TreeInv'
  BY <1>1, <1>2, <1>4 DEF TreeInv, TreeTypes
<1>6. [p \in Held |-> Value(p)]' = Window!Drop([p \in Held |-> Value(p)], pos)
  <2>1. Window!Drop([p \in Held |-> Value(p)], pos) = [p \in Held \ {pos} |-> Value(p)]
    BY DEF Window!Drop
  <2>2. \A p \in Held \ {pos} : Value(p)' = Value(p)
    BY <1>2 DEF Held
  <2>3. [p \in Held |-> Value(p)]' = [p \in Held \ {pos} |-> Value(p)']
    BY <1>3
  <2> QED BY <2>1, <2>2, <2>3
<1>7. Window!ClearLeaf(pos)
  BY <1>1, <1>6 DEF Window!ClearLeaf
<1> QED BY <1>5, <1>7

LEMMA TreeAdd ==
  ASSUME TreeInv, NEW lo \in -1 .. Size - 1, NEW c \in Charges, Add(lo, c)
  PROVE  TreeInv' /\ Window!Add(lo, c)
<1>1. /\ drift + c <= MaxDrift /\ AddFrom(lo, -c) /\ drift' = drift + c
      /\ c \in Nat /\ -c \in Int /\ drift \in 0 .. MaxDrift /\ drift \in Nat
      /\ drift' \in 0 .. MaxDrift
  BY WorkAssumption DEF Add, TreeInv, TreeTypes
<1>2. /\ tre' \in [Nodes -> Int] /\ lz' \in [Internal -> Int] /\ Sound(tre', lz')
      /\ \A p \in Positions : Value(p)' = IF p >= lo THEN Value(p) + -c ELSE Value(p)
  BY <1>1, SuffixAddStep
<1>3. \A p \in Positions : Value(p) \in Int
  BY ValueType DEF TreeInv
<1>4. NEG \in Int
  BY NegIsBelowEveryValue
<1>5. ASSUME NEW p \in Held
      PROVE  \E u \in Values : Value(p)' >= u - drift' /\ Value(p)' > NEG
  <2>1. p \in Positions
    BY DEF Held
  <2>2. PICK u \in Values : Value(p) >= u - drift
    BY DEF TreeInv, Worthy
  <2>3. u \in Int /\ u - drift' > NEG
    BY <1>1, Bounds
  <2>4. Value(p)' >= u - drift'
    BY <1>1, <1>2, <1>3, <2>1, <2>2, <2>3
  <2>5. Value(p)' \in Int
    BY <1>1, <1>2, <1>3, <2>1
  <2> QED BY <1>1, <1>4, <2>3, <2>4, <2>5
<1>6. Held' = Held
  <2>1. ASSUME NEW p \in Positions, ~ (Value(p) > NEG)
        PROVE  ~ (Value(p)' > NEG)
    BY <1>1, <1>2, <1>3, <1>4, <2>1
  <2> QED BY <1>5, <2>1 DEF Held
<1>7. Worthy'
  BY <1>5, <1>6 DEF Worthy
<1>8. TreeInv'
  BY <1>1, <1>2, <1>7 DEF TreeInv, TreeTypes
<1>9. [p \in Held |-> Value(p)]' = Window!AddSuffix([p \in Held |-> Value(p)], lo, -c)
  <2>1. Window!AddSuffix([p \in Held |-> Value(p)], lo, -c)
          = [p \in Held |-> IF p >= lo THEN Value(p) + -c ELSE Value(p)]
    BY DEF Window!AddSuffix
  <2>2. \A p \in Held : Value(p)' = IF p >= lo THEN Value(p) + -c ELSE Value(p)
    BY <1>2 DEF Held
  <2>3. [p \in Held |-> Value(p)]' = [p \in Held |-> Value(p)']
    BY <1>6
  <2> QED BY <2>1, <2>2, <2>3
<1>10. Window!Add(lo, c)
  BY <1>1, <1>9 DEF Window!Add
<1> QED BY <1>8, <1>10

LEMMA TreeStep ==
  ASSUME TreeInv, [Next]_vars
  PROVE  TreeInv' /\ [Window!Next]_(Window!vars)
<1>1. CASE Clear
  BY <1>1, TreeClear DEF Window!Next
<1>2. ASSUME NEW pos \in Positions, NEW v \in Values, SetLeaf(pos, v)
      PROVE  TreeInv' /\ Window!Next
  BY <1>2, TreeSetLeaf DEF Window!Next, Window!Positions, Positions
<1>3. ASSUME NEW pos \in Positions, ClearLeaf(pos)
      PROVE  TreeInv' /\ Window!Next
  BY <1>3, TreeClearLeaf DEF Window!Next, Window!Positions, Positions
<1>4. ASSUME NEW lo \in -1 .. Size - 1, NEW c \in Charges, Add(lo, c)
      PROVE  TreeInv' /\ Window!Next
  BY <1>4, TreeAdd DEF Window!Next
<1>5. CASE UNCHANGED vars
  <2>1. tre' = tre /\ lz' = lz /\ drift' = drift
    BY <1>5 DEF vars
  <2>2. Held' = Held /\ \A p : Value(p)' = Value(p)
    BY <2>1 DEF Held, Value
  <2>3. [p \in Held |-> Value(p)]' = [p \in Held |-> Value(p)]
    BY <2>2
  <2> QED BY <2>1, <2>2, <2>3 DEF TreeInv, TreeTypes, Worthy, Window!vars
<1> QED BY <1>1, <1>2, <1>3, <1>4, <1>5 DEF Next

\* RefinesWindowMap (SegTree.tla, kernel.py _st_clear, _st_set, _st_add_suffix): through the
\* tree and its tags that are never pushed down, the window is a map from the positions of
\* the waiting jobs to their values, for every window size and every work charged.
THEOREM TreeRefinesWindow == Spec => RefinesWindowMap
<1>1. Init => TreeInv /\ Window!Init
  BY TreeInitial
<1>2. TreeInv /\ [Next]_vars => TreeInv' /\ [Window!Next]_(Window!vars)
  BY TreeStep
<1> QED BY <1>1, <1>2, PTL DEF Spec, RefinesWindowMap, Window!Spec

-----------------------------------------------------------------------------
\* The true maximum below a node: its entry and the tags of its strict ancestors.
Peak(x) == tre[x] + TagsAbove(lz, x)

LEMMA PeakOfChildren ==
  ASSUME TreeInv
  PROVE  /\ \A x \in Nodes : Peak(x) \in Int
         /\ 1 \in Nodes /\ Peak(1) = tre[1]
         /\ \A x \in Internal :
              /\ Peak(x) = Maximum(Peak(2 * x), Peak(2 * x + 1))
              /\ TagsAbove(lz, 2 * x) = TagsAbove(lz, x) + lz[x]
              /\ TagsAbove(lz, 2 * x + 1) = TagsAbove(lz, x) + lz[x]
<1>1. tre \in [Nodes -> Int] /\ lz \in [Internal -> Int] /\ Sound(tre, lz)
  BY DEF TreeInv, TreeTypes
<1>2. \A x \in Nodes : Peak(x) \in Int
  BY <1>1, TagsAboveRule DEF Peak
<1>3. 1 \in Nodes /\ Peak(1) = tre[1]
  <2>1. 1 \in Nodes
    BY SizeType DEF Nodes
  <2>2. tre[1] \in Int /\ TagsAbove(lz, 1) = 0
    BY <1>1, <2>1, TagsAboveRule
  <2> QED BY <2>1, <2>2 DEF Peak
<1>4. ASSUME NEW x \in Internal
      PROVE  /\ Peak(x) = Maximum(Peak(2 * x), Peak(2 * x + 1))
             /\ TagsAbove(lz, 2 * x) = TagsAbove(lz, x) + lz[x]
             /\ TagsAbove(lz, 2 * x + 1) = TagsAbove(lz, x) + lz[x]
  <2>1. /\ x \in Nodes /\ 2 * x \in Nodes \ {1} /\ 2 * x + 1 \in Nodes \ {1}
        /\ (2 * x) \div 2 = x /\ (2 * x + 1) \div 2 = x
    BY Children
  <2>2. /\ TagsAbove(lz, x) \in Int /\ lz[x] \in Int
        /\ tre[2 * x] \in Int /\ tre[2 * x + 1] \in Int
    BY <1>1, <2>1, TagsAboveRule
  <2>3. /\ TagsAbove(lz, 2 * x) = lz[x] + TagsAbove(lz, x)
        /\ TagsAbove(lz, 2 * x + 1) = lz[x] + TagsAbove(lz, x)
    BY <1>1, <2>1, TagsAboveRule
  <2>4. tre[x] = Maximum(tre[2 * x], tre[2 * x + 1]) + lz[x]
    BY <1>1 DEF Sound
  <2>5. Peak(x) = Maximum(Peak(2 * x), Peak(2 * x + 1))
    BY <2>2, <2>3, <2>4 DEF Peak, Maximum
  <2> QED BY <2>2, <2>3, <2>5
<1> QED BY <1>2, <1>3, <1>4

\* One pass of _st_leftmost, which carries the tags above the node it stands on.
LEMMA DescendRule ==
  ASSUME TreeInv, NEW threshold \in Int
  PROVE  \E loop :
           /\ Descend(threshold) = IF tre[1] < threshold THEN -1
                                   ELSE loop[<<1, TagsAbove(lz, 1)>>]
           /\ \A x \in Leaves : loop[<<x, TagsAbove(lz, x)>>] = x - Size
           /\ \A x \in Internal :
                loop[<<x, TagsAbove(lz, x)>>]
                  = IF Peak(2 * x) >= threshold
                      THEN loop[<<2 * x, TagsAbove(lz, 2 * x)>>]
                      ELSE loop[<<2 * x + 1, TagsAbove(lz, 2 * x + 1)>>]
<1> DEFINE D == Nodes \X Int
           Acc(s) == s[2] + lz[s[1]]
           Passed(s) == IF tre[2 * s[1]] + Acc(s) >= threshold THEN <<2 * s[1], Acc(s)>>
                                                               ELSE <<2 * s[1] + 1, Acc(s)>>
           Stop == {s \in D : s[1] >= Size}
           variant == [s \in D |-> 2 * Size - s[1]]
           last == [s \in D |-> s[1] - Size]
           prev == [s \in D |-> IF s[1] >= Size THEN s ELSE Passed(s)]
           IsIt(g) == g = [s \in D |->
                             IF s[1] >= Size THEN s[1] - Size
                             ELSE IF tre[2 * s[1]] + Acc(s) >= threshold
                               THEN g[<<2 * s[1], Acc(s)>>] ELSE g[<<2 * s[1] + 1, Acc(s)>>]]
           loop == CHOOSE g : IsIt(g)
<1>1. tre \in [Nodes -> Int] /\ lz \in [Internal -> Int]
  BY DEF TreeInv, TreeTypes
<1>2. \A s \in D : s[1] \in Nodes /\ s[2] \in Int /\ s[1] \in Nat /\ 2 * Size - s[1] \in Nat
                    /\ s[1] - Size \in Int
  BY SizeType DEF Nodes
<1>3. ASSUME NEW s \in D, ~ (s[1] >= Size)
      PROVE  Passed(s) \in D /\ 2 * Size - Passed(s)[1] < 2 * Size - s[1]
  <2> DEFINE x == s[1]
  <2>1. x \in Internal /\ x \in Nat \ {0}
    BY <1>2, <1>3, SizeType DEF Nodes, Internal
  <2>2. 2 * x \in Nodes /\ 2 * x + 1 \in Nodes
    BY <2>1, Children
  <2>3. Acc(s) \in Int
    BY <1>1, <1>2, <2>1
  <2> HIDE DEF Acc
  <2>4. Passed(s) \in D /\ Passed(s)[1] \in {2 * x, 2 * x + 1}
    BY <2>2, <2>3
  <2> HIDE DEF Passed, D, x
  <2>5. 2 * Size - Passed(s)[1] < 2 * Size - x
    BY <2>1, <2>4, SizeType
  <2> QED BY <2>4, <2>5 DEF x
<1>4. \E g : IsIt(g)
  <2>1. variant \in [D -> Nat] /\ last \in [D -> Int]
    <3> HIDE DEF D
    <3> QED BY <1>2
  <2>2. \A s \in D : prev[s] = IF s[1] >= Size THEN s ELSE Passed(s)
    OBVIOUS
  <2>3. prev \in [D -> D]
    <3> HIDE DEF Passed, D
    <3> QED BY <1>3
  <2>4. \A s \in D \ Stop : variant[prev[s]] < variant[s]
    <3> HIDE DEF Passed, D, prev
    <3> QED BY <1>3, <2>2, <2>3
  <2>5. \A s \in D : last[s] = s[1] - Size
    OBVIOUS
  <2> HIDE DEF variant, last, prev
  <2>6. PICK g \in [D -> Int] : g = [s \in D |-> IF s \in Stop THEN last[s] ELSE g[prev[s]]]
    <3> HIDE DEF D, Stop
    <3>1. LoopEnds(D, Stop, variant, Int, last, prev)
      BY <2>1, <2>3, <2>4 DEF LoopEnds
    <3> QED BY <3>1, LoopExists
  <2> DEFINE Rule(s) == IF s[1] >= Size THEN s[1] - Size
                        ELSE IF tre[2 * s[1]] + Acc(s) >= threshold
                          THEN g[<<2 * s[1], Acc(s)>>] ELSE g[<<2 * s[1] + 1, Acc(s)>>]
  <2>7. \A s \in D : g[s] = Rule(s)
    <3>1. \A s \in D : g[s] = IF s[1] >= Size THEN s[1] - Size ELSE g[Passed(s)]
      <4> HIDE DEF Passed, D
      <4> QED BY <2>2, <2>5, <2>6
    <3> HIDE DEF Acc, D
    <3> QED BY <3>1
  <2>8. g = [s \in D |-> Rule(s)]
    <3> HIDE DEF Rule, D
    <3> QED BY <2>7
  <2> QED BY <2>8
<1>5. IsIt(loop)
  <2> HIDE DEF IsIt
  <2> QED BY <1>4
<1>6. Descend(threshold) = IF tre[1] < threshold THEN -1 ELSE loop[<<1, 0>>]
  BY DEF Descend
<1> HIDE DEF loop
<1>7. TagsAbove(lz, 1) = 0 /\ \A x \in Nodes : TagsAbove(lz, x) \in Int
  BY <1>1, TagsAboveRule
<1>8. ASSUME NEW x \in Leaves PROVE loop[<<x, TagsAbove(lz, x)>>] = x - Size
  <2>1. x \in Nodes /\ x >= Size
    BY LeafPath, SizeType DEF Leaves
  <2> DEFINE s == <<x, TagsAbove(lz, x)>>
  <2>2. s \in D /\ s[1] = x
    BY <1>7, <2>1
  <2> HIDE DEF s, D, Acc
  <2>3. loop[s] = x - Size
    BY <1>5, <2>1, <2>2
  <2> QED BY <2>3 DEF s
<1>9. ASSUME NEW x \in Internal
      PROVE  loop[<<x, TagsAbove(lz, x)>>]
               = IF Peak(2 * x) >= threshold
                   THEN loop[<<2 * x, TagsAbove(lz, 2 * x)>>]
                   ELSE loop[<<2 * x + 1, TagsAbove(lz, 2 * x + 1)>>]
  <2>1. x \in Nodes /\ ~ (x >= Size)
    BY Children, SizeType DEF Internal
  <2> DEFINE s == <<x, TagsAbove(lz, x)>>
  <2>2. s \in D /\ s[1] = x /\ s[2] = TagsAbove(lz, x)
    BY <1>7, <2>1
  <2>3. TagsAbove(lz, 2 * x) = Acc(s) /\ TagsAbove(lz, 2 * x + 1) = Acc(s)
    BY PeakOfChildren
  <2>4. Passed(s) = IF Peak(2 * x) >= threshold
                      THEN <<2 * x, TagsAbove(lz, 2 * x)>>
                      ELSE <<2 * x + 1, TagsAbove(lz, 2 * x + 1)>>
    <3> HIDE DEF s, Acc
    <3> QED BY <2>2, <2>3 DEF Peak
  <2>5. loop[s] = loop[Passed(s)]
    <3> HIDE DEF s, D, Acc
    <3> QED BY <1>5, <2>1, <2>2
  <2> HIDE DEF s, Passed
  <2> QED BY <2>4, <2>5 DEF s
<1> QED BY <1>6, <1>7, <1>8, <1>9

LEMMA RootIsHighest ==
  ASSUME TreeInv, NEW x \in Nodes
  PROVE  Peak(x) <= tre[1]
<1> DEFINE T == {y \in Nodes : ~ (Peak(y) <= tre[1])}
<1>1. T = {}
  <2> SUFFICES ASSUME T # {} PROVE FALSE
    OBVIOUS
  <2>1. T \in SUBSET Nat
    BY SizeType DEF Nodes
  <2>2. PICK y \in T : \A z \in T : y <= z
    <3> HIDE DEF T
    <3> QED BY <2>1, NatMin
  <2>3. y \in Nodes /\ ~ (Peak(y) <= tre[1])
    OBVIOUS
  <2>4. y # 1
    BY <2>3, PeakOfChildren
  <2> DEFINE w == y \div 2
  <2>5. w \in Internal /\ w \in Nodes /\ ~ (y <= w) /\ (y = 2 * w \/ y = 2 * w + 1)
    BY <2>3, <2>4, SizeType, Halving DEF Internal, Nodes
  <2> HIDE DEF w
  <2>6. Peak(w) = Maximum(Peak(2 * w), Peak(2 * w + 1))
        /\ Peak(2 * w) \in Int /\ Peak(2 * w + 1) \in Int
    BY <2>5, Children, PeakOfChildren
  <2>7. Peak(w) <= tre[1]
    <3> HIDE DEF T
    <3>1. w \notin T
      BY <2>2, <2>5
    <3> QED BY <2>5, <3>1 DEF T
  <2>8. tre[1] \in Int
    BY PeakOfChildren
  <2> QED BY <2>3, <2>5, <2>6, <2>7, <2>8 DEF Maximum
<1> QED BY <1>1

\* At every level the search stands on the first node that reaches the threshold.
LEMMA SearchAtLevel ==
  ASSUME TreeInv, NEW threshold \in Int, tre[1] >= threshold, NEW loop,
         \A x \in Internal :
           loop[<<x, TagsAbove(lz, x)>>]
             = IF Peak(2 * x) >= threshold
                 THEN loop[<<2 * x, TagsAbove(lz, 2 * x)>>]
                 ELSE loop[<<2 * x + 1, TagsAbove(lz, 2 * x + 1)>>],
         NEW p \in PathUp(Size)
  PROVE  \E x \in p .. 2 * p - 1 :
           /\ loop[<<1, TagsAbove(lz, 1)>>] = loop[<<x, TagsAbove(lz, x)>>]
           /\ Peak(x) >= threshold
           /\ \A y \in p .. x - 1 : ~ (Peak(y) >= threshold)
<1> DEFINE At(x) == loop[<<x, TagsAbove(lz, x)>>]
           Good(q) == \E x \in q .. 2 * q - 1 :
                        /\ At(1) = At(x)
                        /\ Peak(x) >= threshold
                        /\ \A y \in q .. x - 1 : ~ (Peak(y) >= threshold)
           T == {q \in PathUp(Size) : ~ Good(q)}
<1>0. \A x \in Internal : At(x) = IF Peak(2 * x) >= threshold THEN At(2 * x) ELSE At(2 * x + 1)
  OBVIOUS
<1>1. T = {}
  <2> SUFFICES ASSUME T # {} PROVE FALSE
    OBVIOUS
  <2>1. PathUp(Size) \in SUBSET Nat /\ T \in SUBSET PathUp(Size)
    <3> HIDE DEF Good
    <3> QED BY LevelsType
  <2>2. PICK q \in T : \A r \in T : q <= r
    <3> HIDE DEF T
    <3> QED BY <2>1, NatMin
  <2>3. q \in PathUp(Size) /\ q \in 1 .. Size /\ q \in Nat /\ ~ Good(q)
    <3> HIDE DEF Good
    <3> QED BY <2>1, Levels
  <2> HIDE DEF At
  <2>4. CASE q = 1
    <3>1. 1 \in q .. 2 * q - 1 /\ Peak(1) >= threshold /\ q .. 1 - 1 = {}
      BY <2>4, PeakOfChildren
    <3> QED BY <2>3, <3>1
  <2>5. CASE q # 1
    <3> DEFINE r == q \div 2
    <3>1. q = 2 * r /\ r \in PathUp(Size) /\ r \in 1 .. q - 1
      BY <2>3, <2>5, Levels
    <3> HIDE DEF r
    <3>2. r \notin T
      <4> HIDE DEF T
      <4> QED BY <2>2, <2>3, <3>1
    <3>3. Good(r)
      <4> HIDE DEF Good
      <4> QED BY <3>1, <3>2
    <3>4. PICK x \in r .. 2 * r - 1 :
            /\ At(1) = At(x)
            /\ Peak(x) >= threshold
            /\ \A y \in r .. x - 1 : ~ (Peak(y) >= threshold)
      BY <3>3
    <3>5. \A y \in r .. x : y \in Internal /\ y \in Nat
      BY <2>3, <3>1, SizeType DEF Internal
    <3>6. x \in Internal /\ x \in Nat /\ x \in r .. x
      BY <3>1, <3>5
    <3>7. \A y \in Internal : /\ Peak(2 * y) \in Int /\ Peak(2 * y + 1) \in Int
                              /\ Peak(y) = Maximum(Peak(2 * y), Peak(2 * y + 1))
      BY Children, PeakOfChildren
    <3>8. ASSUME NEW y \in q .. 2 * x - 1 PROVE ~ (Peak(y) >= threshold)
      <4> DEFINE w == y \div 2
      <4>1. w \in r .. x - 1 /\ w \in r .. x /\ (y = 2 * w \/ y = 2 * w + 1)
        BY <3>1, <3>6
      <4> HIDE DEF w
      <4>2. ~ (Maximum(Peak(2 * w), Peak(2 * w + 1)) >= threshold)
        BY <3>4, <3>5, <3>7, <4>1
      <4> QED BY <3>5, <3>7, <4>1, <4>2 DEF Maximum
    <3>9. CASE Peak(2 * x) >= threshold
      <4>1. At(1) = At(2 * x) /\ 2 * x \in q .. 2 * q - 1
        BY <1>0, <3>1, <3>4, <3>6, <3>9
      <4> QED BY <2>3, <3>8, <3>9, <4>1
    <3>10. CASE ~ (Peak(2 * x) >= threshold)
      <4>1. At(1) = At(2 * x + 1) /\ 2 * x + 1 \in q .. 2 * q - 1
        BY <1>0, <3>1, <3>4, <3>6, <3>10
      <4>2. Peak(2 * x + 1) >= threshold
        BY <3>4, <3>6, <3>7, <3>10 DEF Maximum
      <4>3. \A y \in q .. (2 * x + 1) - 1 : y \in q .. 2 * x - 1 \/ y = 2 * x
        BY <3>1, <3>6
      <4>4. \A y \in q .. (2 * x + 1) - 1 : ~ (Peak(y) >= threshold)
        BY <3>8, <3>10, <4>3
      <4> QED BY <2>3, <4>1, <4>2, <4>4
    <3> QED BY <3>9, <3>10
  <2> QED BY <2>4, <2>5
<1> HIDE DEF Good
<1>2. Good(p)
  BY <1>1
<1> QED BY <1>2 DEF Good

LEMMA SearchIsLeftmost == ASSUME TreeInv PROVE SearchFindsLeftmost
<1> DEFINE leaf == [pos \in Held |-> Value(pos)]
<1> SUFFICES ASSUME NEW threshold \in NEG + 1 .. 1 + Maximum(0, tre[1])
             PROVE  LET reached == Window!AtLeast(leaf, threshold)
                        found == Descend(threshold)
                    IN  IF reached = {} THEN found = -1
                        ELSE found \in reached /\ \A p \in reached : found <= p
  BY DEF SearchFindsLeftmost
<1> DEFINE reached == Window!AtLeast(leaf, threshold)
           found == Descend(threshold)
<1>1. threshold \in Int /\ threshold > NEG /\ NEG \in Int
  <2>1. tre[1] \in Int
    BY PeakOfChildren
  <2> QED BY <2>1, NegIsBelowEveryValue DEF Maximum
<1>2. \A pos \in Positions : Value(pos) = Peak(Size + pos) /\ Value(pos) \in Int
  BY ValueType DEF Value, Peak, TreeInv
<1>3. reached = {pos \in Positions : Value(pos) >= threshold}
  <2>1. reached = {pos \in Held : Value(pos) >= threshold}
    BY DEF Window!AtLeast
  <2>2. \A pos \in Positions : Value(pos) >= threshold => Value(pos) > NEG
    BY <1>1, <1>2
  <2> QED BY <2>1, <2>2 DEF Held
<1> HIDE DEF leaf, reached
<1>4. PICK loop :
        /\ Descend(threshold) = IF tre[1] < threshold THEN -1 ELSE loop[<<1, TagsAbove(lz, 1)>>]
        /\ \A x \in Leaves : loop[<<x, TagsAbove(lz, x)>>] = x - Size
        /\ \A x \in Internal :
             loop[<<x, TagsAbove(lz, x)>>]
               = IF Peak(2 * x) >= threshold
                   THEN loop[<<2 * x, TagsAbove(lz, 2 * x)>>]
                   ELSE loop[<<2 * x + 1, TagsAbove(lz, 2 * x + 1)>>]
  BY <1>1, DescendRule
<1>5. tre[1] \in Int
  BY PeakOfChildren
<1>6. CASE tre[1] < threshold
  <2>1. found = -1
    BY <1>4, <1>6
  <2>2. ASSUME NEW pos \in Positions PROVE ~ (Value(pos) >= threshold)
    <3>1. Size + pos \in Nodes
      BY PositionsAreLeaves
    <3>2. Peak(Size + pos) <= tre[1]
      BY <3>1, RootIsHighest
    <3> QED BY <1>1, <1>2, <1>5, <1>6, <3>2
  <2>3. reached = {}
    BY <1>3, <2>2
  <2> QED BY <2>1, <2>3 DEF reached
<1>7. CASE ~ (tre[1] < threshold)
  <2>1. Size \in PathUp(Size) /\ tre[1] >= threshold
    BY <1>1, <1>5, <1>7, SizeType, PathUpBelow
  <2>2. PICK x \in Size .. 2 * Size - 1 :
          /\ loop[<<1, TagsAbove(lz, 1)>>] = loop[<<x, TagsAbove(lz, x)>>]
          /\ Peak(x) >= threshold
          /\ \A y \in Size .. x - 1 : ~ (Peak(y) >= threshold)
    BY <1>1, <1>4, <2>1, SearchAtLevel
  <2>3. found = x - Size
    BY <1>4, <1>7, <2>2 DEF Leaves
  <2>4. found \in Positions /\ Size + found = x
    BY <2>2, <2>3, SizeType DEF Positions
  <2>5. found \in reached
    BY <1>2, <1>3, <2>2, <2>4
  <2>6. ASSUME NEW p \in reached PROVE found <= p
    <3>1. p \in Positions /\ Peak(Size + p) >= threshold
      BY <1>2, <1>3
    <3>2. Size + p \notin Size .. x - 1
      BY <2>2, <3>1
    <3>3. x \in Int /\ p \in Int /\ 0 <= p
      BY <2>2, <3>1, SizeType DEF Positions
    <3>4. ~ (Size + p <= x - 1)
      BY <3>2, <3>3, SizeType
    <3> HIDE DEF found
    <3> QED BY <2>3, <3>3, <3>4, SizeType
  <2> QED BY <2>5, <2>6 DEF reached
<1> QED BY <1>6, <1>7

\* SearchFindsLeftmost (SegTree.tla, kernel.py _st_leftmost): for every threshold above NEG
\* the search returns the smallest position whose value has reached it, and -1 when none has.
THEOREM TreeSearch == Spec => []SearchFindsLeftmost
<1>1. Init => TreeInv
  BY TreeInitial
<1>2. TreeInv /\ [Next]_vars => TreeInv'
  BY TreeStep
<1>3. TreeInv => SearchFindsLeftmost
  BY SearchIsLeftmost
<1> QED BY <1>1, <1>2, <1>3, PTL DEF Spec
=============================================================================
