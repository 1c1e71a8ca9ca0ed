---------------------------- MODULE WorkTheorems ----------------------------
(***************************************************************************)
(* Facts about sets of jobs, their first and their best members and their  *)
(* work, about products and about the Fenwick tree, that the proofs about   *)
(* schedules use.                                                           *)
(***************************************************************************)
EXTENDS WorkOfJobs, RankMaps, FenwickTree, FiniteSetTheorems, WellFoundedInduction, TLAPS

\* Every non-empty set of naturals has a least element.  The library states this
\* through strict inclusion of finite sets.
LEMMA NatMin ==
  ASSUME NEW T \in SUBSET Nat, T # {}
  PROVE  \E x \in T : \A y \in T : x <= y
<1> DEFINE Below(x) == 0 .. x - 1
           C == {Below(x) : x \in T}
<1>1. C \subseteq FiniteSubsetsOf(Nat) /\ C # {}
  <2>1. \A x \in T : Below(x) \in SUBSET Nat /\ IsFiniteSet(Below(x))
    BY FS_Interval
  <2> QED BY <2>1 DEF FiniteSubsetsOf
<1>2. PICK A \in C : \A B \in C : <<B, A>> \notin StrictSubsetOrdering(Nat)
  BY <1>1, FS_StrictSubsetOrderingWellFounded, WFMin
<1>3. PICK x \in T : A = Below(x)
  BY <1>2
<1>4. ASSUME NEW y \in T PROVE x <= y
  <2>1. SUFFICES ASSUME y < x PROVE FALSE
    BY <1>3, <1>4
  <2>2. Below(y) \subseteq Below(x) /\ y \in Below(x) \ Below(y)
    BY <2>1
  <2>3. <<Below(y), Below(x)>> \in StrictSubsetOrdering(Nat)
    BY <2>2 DEF StrictSubsetOrdering
  <2> QED BY <1>2, <1>3, <1>4, <2>3
<1> QED BY <1>4

\* A finite set of jobs has one that no other precedes, by score and then by rank.
LEMMA BestExists ==
  ASSUME NEW S, IsFiniteSet(S), S # {}, S \subseteq Int, NEW value, \A j \in S : value[j] \in Int
  PROVE  \E j \in S : \A i \in S : value[j] < value[i] \/ (value[j] = value[i] /\ j <= i)
<1> DEFINE Ahead(j) == {i \in S : value[i] < value[j] \/ (value[i] = value[j] /\ i < j)}
           T == {Cardinality(Ahead(j)) : j \in S}
<1>1. \A j \in S : IsFiniteSet(Ahead(j)) /\ Cardinality(Ahead(j)) \in Nat
  <2>1. \A j \in S : Ahead(j) \in SUBSET S
    OBVIOUS
  <2> HIDE DEF Ahead
  <2> QED BY <2>1, FS_Subset, FS_CardinalityType
<1>2. PICK j \in S : \A i \in S : Cardinality(Ahead(j)) <= Cardinality(Ahead(i))
  <2> HIDE DEF Ahead
  <2>1. T \in SUBSET Nat /\ T # {}
    BY <1>1
  <2>2. PICK x \in T : \A y \in T : x <= y
    BY <2>1, NatMin
  <2> QED BY <2>2
<1>3. Ahead(j) = {}
  <2> SUFFICES ASSUME NEW i \in Ahead(j) PROVE FALSE
    OBVIOUS
  <2>1. i \in S /\ Ahead(i) \in SUBSET (Ahead(j) \ {i})
    <3>1. i \in S /\ value[i] \in Int /\ value[j] \in Int /\ i \in Int /\ j \in Int
      OBVIOUS
    <3>2. \A k \in Ahead(i) : k \in Ahead(j) /\ k # i
      <4> TAKE k \in Ahead(i)
      <4>1. k \in S /\ value[k] \in Int /\ k \in Int
        OBVIOUS
      <4> QED BY <3>1, <4>1
    <3> HIDE DEF Ahead
    <3> QED BY <3>1, <3>2
  <2> HIDE DEF Ahead
  <2>2. IsFiniteSet(Ahead(j) \ {i}) /\ Cardinality(Ahead(j) \ {i}) = Cardinality(Ahead(j)) - 1
    BY <1>1, FS_RemoveElement
  <2>3. Cardinality(Ahead(i)) <= Cardinality(Ahead(j) \ {i})
    BY <2>1, <2>2, FS_Subset
  <2> QED BY <1>1, <1>2, <2>1, <2>2, <2>3
<1> QED BY <1>3

\* A finite set of integers has a greatest element.
LEMMA IntMax ==
  ASSUME NEW S, IsFiniteSet(S), S # {}, S \subseteq Int
  PROVE  \E x \in S : \A y \in S : x >= y
<1> DEFINE opposite == [x \in S |-> -x]
<1>1. \A x \in S : opposite[x] \in Int /\ opposite[x] = -x
  OBVIOUS
<1> HIDE DEF opposite
<1>2. PICK x \in S : \A y \in S : opposite[x] < opposite[y]
                                   \/ (opposite[x] = opposite[y] /\ x <= y)
  BY <1>1, BestExists
<1> QED BY <1>1, <1>2

---------------------------------------------------------------------------
LEMMA UnitsOf ==
  ASSUME NEW S, NEW cost
  PROVE  \A u : u \in Units(S, cost) <=> \E j \in S : \E k \in 1 .. cost[j] : u = <<j, k>>
  BY DEF Units

LEMMA UnitsOfUnion ==
  ASSUME NEW S, NEW T, NEW cost
  PROVE  Units(S \cup T, cost) = Units(S, cost) \cup Units(T, cost)
  BY UnitsOf

LEMMA UnitsDisjoint ==
  ASSUME NEW S, NEW T, NEW cost, S \cap T = {}
  PROVE  Units(S, cost) \cap Units(T, cost) = {}
<1> SUFFICES ASSUME NEW u \in Units(S, cost), u \in Units(T, cost) PROVE FALSE
  OBVIOUS
<1>1. PICK i \in S : \E k \in 1 .. cost[i] : u = <<i, k>>
  BY UnitsOf
<1>2. PICK j \in T : \E m \in 1 .. cost[j] : u = <<j, m>>
  BY UnitsOf
<1>3. i = j
  BY <1>1, <1>2
<1> QED BY <1>3

\* The units of one job are as many as it costs.
LEMMA UnitsOfOne ==
  ASSUME NEW j, NEW cost, cost[j] \in Nat
  PROVE  IsFiniteSet(Units({j}, cost)) /\ WorkOf({j}, cost) = cost[j]
<1>1. Units({j}, cost) = {j} \X (1 .. cost[j])
  BY UnitsOf
<1>2. IsFiniteSet({j}) /\ Cardinality({j}) = 1
  BY FS_Singleton
<1>3. IsFiniteSet(1 .. cost[j]) /\ Cardinality(1 .. cost[j]) = cost[j]
  BY FS_Interval
<1>4. IsFiniteSet({j} \X (1 .. cost[j])) /\ Cardinality({j} \X (1 .. cost[j])) = 1 * cost[j]
  BY <1>2, <1>3, FS_Product, ZenonT(40)
<1>5. 1 * cost[j] = cost[j]
  OBVIOUS
<1>6. WorkOf({j}, cost) = Cardinality({j} \X (1 .. cost[j]))
  BY <1>1 DEF WorkOf
<1> QED BY <1>1, <1>4, <1>5, <1>6

LEMMA UnitsFinite ==
  ASSUME NEW S, IsFiniteSet(S), NEW cost, \A j \in S : cost[j] \in Nat
  PROVE  IsFiniteSet(Units(S, cost))
<1> DEFINE f == [j \in S |-> {j} \X (1 .. cost[j])]
           T == {f[j] : j \in S}
<1>1. f \in Surjection(S, T)
  BY DEF Surjection
<1>2. IsFiniteSet(T)
  BY <1>1, FS_Surjection
<1>3. \A V \in T : IsFiniteSet(V)
  <2>1. ASSUME NEW j \in S PROVE IsFiniteSet(f[j])
    <3>1. Units({j}, cost) = f[j]
      BY UnitsOf
    <3> QED BY <3>1, UnitsOfOne
  <2> QED BY <2>1
<1>4. Units(S, cost) = UNION T
  BY DEF Units
<1> QED BY <1>2, <1>3, <1>4, FS_UNION

\* Only the costs of the jobs in the set count.
LEMMA WorkOfSameCosts ==
  ASSUME NEW S, NEW cost, NEW other, \A j \in S : cost[j] = other[j]
  PROVE  WorkOf(S, cost) = WorkOf(S, other)
<1>1. Units(S, cost) = Units(S, other)
  BY DEF Units
<1> QED BY <1>1 DEF WorkOf

LEMMA WorkEmpty == ASSUME NEW cost PROVE WorkOf({}, cost) = 0
<1>1. Units({}, cost) = {}
  BY UnitsOf
<1> QED BY <1>1, FS_EmptySet DEF WorkOf

LEMMA WorkType ==
  ASSUME NEW S, IsFiniteSet(S), NEW cost, \A j \in S : cost[j] \in Nat
  PROVE  WorkOf(S, cost) \in Nat
  BY UnitsFinite, FS_CardinalityType DEF WorkOf

\* The work of two groups of jobs with nobody in common is the sum of theirs.
LEMMA WorkSplit ==
  ASSUME NEW S, IsFiniteSet(S), NEW T, IsFiniteSet(T), S \cap T = {},
         NEW cost, \A j \in S \cup T : cost[j] \in Nat
  PROVE  WorkOf(S \cup T, cost) = WorkOf(S, cost) + WorkOf(T, cost)
<1>1. IsFiniteSet(Units(S, cost)) /\ IsFiniteSet(Units(T, cost))
  BY UnitsFinite
<1>2. Cardinality(Units(S, cost) \cup Units(T, cost))
        = Cardinality(Units(S, cost)) + Cardinality(Units(T, cost))
  <2>1. Cardinality(Units(S, cost) \cap Units(T, cost)) = 0
    BY UnitsDisjoint, FS_EmptySet
  <2>2. /\ Cardinality(Units(S, cost)) \in Nat /\ Cardinality(Units(T, cost)) \in Nat
    BY <1>1, FS_CardinalityType
  <2> DEFINE U == Units(S, cost)
             V == Units(T, cost)
  <2>3. Cardinality(U \cup V) = Cardinality(U) + Cardinality(V) - Cardinality(U \cap V)
    BY <1>1, FS_Union
  <2> HIDE DEF U, V
  <2>4. Cardinality(U) + Cardinality(V) - 0 = Cardinality(U) + Cardinality(V)
    BY <2>2 DEF U, V
  <2> QED BY <2>1, <2>3, <2>4 DEF U, V
<1>3. Units(S \cup T, cost) = Units(S, cost) \cup Units(T, cost)
  BY UnitsOfUnion
<1> QED BY <1>2, <1>3 DEF WorkOf

LEMMA WorkAddJob ==
  ASSUME NEW S, IsFiniteSet(S), NEW j, j \notin S,
         NEW cost, \A i \in S \cup {j} : cost[i] \in Nat
  PROVE  WorkOf(S \cup {j}, cost) = WorkOf(S, cost) + cost[j]
<1>1. IsFiniteSet({j}) /\ S \cap {j} = {}
  BY FS_Singleton
<1>2. \A i \in S \cup {j} : cost[i] \in Nat
  OBVIOUS
<1>3. WorkOf(S \cup {j}, cost) = WorkOf(S, cost) + WorkOf({j}, cost)
  BY <1>1, <1>2, WorkSplit
<1>4. WorkOf({j}, cost) = cost[j]
  BY <1>2, UnitsOfOne
<1> QED BY <1>3, <1>4

\* Jobs that cost at most limit each do at most that much work together.
LEMMA WorkLimit ==
  ASSUME NEW S, IsFiniteSet(S), NEW limit \in Nat, NEW cost,
         \A j \in S : cost[j] \in Nat /\ cost[j] <= limit
  PROVE  WorkOf(S, cost) <= Cardinality(S) * limit
<1>1. Units(S, cost) \subseteq S \X (1 .. limit)
  <2> SUFFICES ASSUME NEW u \in Units(S, cost) PROVE u \in S \X (1 .. limit)
    OBVIOUS
  <2>1. PICK j \in S : \E k \in 1 .. cost[j] : u = <<j, k>>
    BY UnitsOf
  <2>2. \A k \in 1 .. cost[j] : k \in 1 .. limit
    OBVIOUS
  <2> QED BY <2>1, <2>2
<1>2. IsFiniteSet(1 .. limit) /\ Cardinality(1 .. limit) = limit
  BY FS_Interval
<1>3. IsFiniteSet(S \X (1 .. limit)) /\ Cardinality(S \X (1 .. limit)) = Cardinality(S) * limit
  BY <1>2, FS_Product
<1> QED BY <1>1, <1>3, FS_Subset DEF WorkOf

\* More jobs, more work.
LEMMA WorkGrows ==
  ASSUME NEW T, IsFiniteSet(T), NEW S \in SUBSET T, NEW cost, \A j \in T : cost[j] \in Nat
  PROVE  WorkOf(S, cost) <= WorkOf(T, cost)
<1>1. Units(S, cost) \subseteq Units(T, cost)
  BY UnitsOf
<1> QED BY <1>1, UnitsFinite, FS_Subset DEF WorkOf

---------------------------------------------------------------------------
(* Products.                                                               *)

LEMMA Distribute ==
  ASSUME NEW x \in Int, NEW y \in Int, NEW z \in Int
  PROVE  x * (y - z) = x * y - x * z
  OBVIOUS

LEMMA ScaleStrictly ==
  ASSUME NEW x \in Nat \ {0}, NEW y \in Int, NEW z \in Int, y < z
  PROVE  x * y < x * z
  OBVIOUS

LEMMA ScaleWeakly ==
  ASSUME NEW x \in Nat, NEW y \in Nat, NEW z \in Nat, x <= y
  PROVE  x * z <= y * z
  OBVIOUS

LEMMA NaturalProduct ==
  ASSUME NEW x \in Nat, NEW y \in Nat
  PROVE  x * y \in Nat
  OBVIOUS

LEMMA DistributeSum ==
  ASSUME NEW x \in Int, NEW y \in Int, NEW z \in Int
  PROVE  x * (y + z) = x * y + x * z
  OBVIOUS

LEMMA ScaleFactor ==
  ASSUME NEW x \in Nat, NEW y \in Nat, NEW z \in Nat, y <= z
  PROVE  x * y <= x * z
<1>1. y * x <= z * x
  BY ScaleWeakly
<1>2. y * x = x * y /\ z * x = x * z
  OBVIOUS
<1> QED BY <1>1, <1>2

---------------------------------------------------------------------------
(* The Fenwick tree.                                                       *)

\* The recursion of LowBit over the first n numbers.
IsLowBit(g, n) == g = [q \in 1 .. n |-> IF q % 2 = 1 THEN 1 ELSE 2 * g[q \div 2]]

LEMMA Halves ==
  ASSUME NEW q \in Nat \ {0}, q % 2 # 1
  PROVE  q \div 2 \in Nat \ {0} /\ q = 2 * (q \div 2) /\ q \div 2 < q
  OBVIOUS

LEMMA LowBitExists ==
  ASSUME NEW n \in Nat
  PROVE  \E g : IsLowBit(g, n)
<1> DEFINE T == {m \in Nat : ~ \E g : IsLowBit(g, m)}
<1>1. SUFFICES ASSUME T # {} PROVE FALSE
  OBVIOUS
<1>2. PICK m \in T : \A k \in T : m <= k
  BY <1>1, NatMin
<1>3. m \in Nat /\ ~ \E g : IsLowBit(g, m)
  OBVIOUS
<1>4. m # 0
  <2> DEFINE g == [q \in 1 .. 0 |-> 0]
  <2>1. g = [q \in 1 .. 0 |-> IF q % 2 = 1 THEN 1 ELSE 2 * g[q \div 2]]
    OBVIOUS
  <2> HIDE DEF g
  <2> QED BY <1>3, <2>1 DEF IsLowBit
<1>5. m - 1 \in Nat /\ m - 1 \notin T
  BY <1>2, <1>3, <1>4
<1>6. PICK g : IsLowBit(g, m - 1)
  BY <1>5
<1> DEFINE h == [q \in 1 .. m |-> IF q < m THEN g[q] ELSE IF q % 2 = 1 THEN 1 ELSE 2 * g[q \div 2]]
           Rule(q) == IF q % 2 = 1 THEN 1 ELSE 2 * h[q \div 2]
<1>7. \A q \in 1 .. m - 1 : g[q] = IF q % 2 = 1 THEN 1 ELSE 2 * g[q \div 2]
  BY <1>6 DEF IsLowBit
<1>8. ASSUME NEW q \in 1 .. m PROVE h[q] = Rule(q)
  <2>1. q \in Nat \ {0}
    OBVIOUS
  <2>2. q % 2 # 1 => q \div 2 \in 1 .. m /\ q \div 2 < m /\ h[q \div 2] = g[q \div 2]
    BY <1>3, <2>1, Halves
  <2>3. CASE q = m
    BY <2>2, <2>3
  <2>4. CASE q # m
    <3>1. q \in 1 .. m - 1 /\ h[q] = g[q]
      BY <1>3, <2>4
    <3> HIDE DEF h
    <3> QED BY <1>7, <2>2, <3>1
  <2> QED BY <2>3, <2>4
<1>9. IsLowBit(h, m)
  <2>1. h = [q \in 1 .. m |-> h[q]]
    OBVIOUS
  <2> HIDE DEF h
  <2>2. h = [q \in 1 .. m |-> Rule(q)]
    <3> HIDE DEF Rule
    <3> QED BY <1>8, <2>1
  <2> QED BY <2>2 DEF IsLowBit
<1> QED BY <1>3, <1>9

\* However many numbers it is computed for, the recursion gives the same.
LEMMA LowBitUnique ==
  ASSUME NEW n \in Nat, NEW g, IsLowBit(g, n), NEW m \in Nat, NEW h, IsLowBit(h, m),
         NEW p \in Nat \ {0}, p <= n, p <= m
  PROVE  g[p] = h[p]
<1> DEFINE T == {q \in Nat : q # 0 /\ q <= n /\ q <= m /\ g[q] # h[q]}
<1>1. SUFFICES ASSUME T # {} PROVE FALSE
  OBVIOUS
<1>2. PICK q \in T : \A k \in T : q <= k
  BY <1>1, NatMin
<1>3. q \in 1 .. n /\ q \in 1 .. m /\ g[q] # h[q] /\ q \in Nat \ {0}
  OBVIOUS
<1>4. /\ g[q] = IF q % 2 = 1 THEN 1 ELSE 2 * g[q \div 2]
      /\ h[q] = IF q % 2 = 1 THEN 1 ELSE 2 * h[q \div 2]
  BY <1>3 DEF IsLowBit
<1>5. q % 2 # 1 /\ g[q \div 2] # h[q \div 2]
  BY <1>3, <1>4
<1>6. q \div 2 \in T /\ q \div 2 < q
  BY <1>3, <1>5, Halves
<1> QED BY <1>2, <1>6

LEMMA LowBitRule ==
  ASSUME NEW p \in Nat \ {0}
  PROVE  LowBit(p) = IF p % 2 = 1 THEN 1 ELSE 2 * LowBit(p \div 2)
<1> DEFINE Bits(n) == CHOOSE g : IsLowBit(g, n)
<1>1. \A n \in Nat : IsLowBit(Bits(n), n)
  BY LowBitExists
<1>2. \A q : LowBit(q) = Bits(q)[q]
  BY DEF LowBit, IsLowBit
<1> HIDE DEF Bits
<1>3. LowBit(p) = IF p % 2 = 1 THEN 1 ELSE 2 * Bits(p)[p \div 2]
  BY <1>1, <1>2 DEF IsLowBit
<1>4. p % 2 # 1 => Bits(p)[p \div 2] = LowBit(p \div 2)
  BY <1>1, <1>2, Halves, LowBitUnique
<1> QED BY <1>3, <1>4

LEMMA LowBitType ==
  ASSUME NEW p \in Nat \ {0}
  PROVE  LowBit(p) \in 1 .. p
<1> DEFINE T == {q \in Nat : q # 0 /\ LowBit(q) \notin 1 .. q}
<1>1. SUFFICES ASSUME T # {} PROVE FALSE
  OBVIOUS
<1>2. PICK q \in T : \A k \in T : q <= k
  BY <1>1, NatMin
<1>3. q \in Nat \ {0} /\ LowBit(q) \notin 1 .. q
  OBVIOUS
<1>4. q % 2 # 1
  BY <1>3, LowBitRule
<1>5. q \div 2 \in Nat \ {0} /\ q = 2 * (q \div 2) /\ q \div 2 < q /\ q \div 2 \notin T
  BY <1>2, <1>3, <1>4, Halves
<1>6. LowBit(q \div 2) \in 1 .. (q \div 2) /\ LowBit(q) = 2 * LowBit(q \div 2)
  BY <1>3, <1>4, <1>5, LowBitRule
<1> QED BY <1>3, <1>5, <1>6

\* The node p covers the ranks (p - LowBit(p), p].  A node a below it is covered exactly
\* when the node that follows a on the walk up is, and is not beyond it.
LEMMA LowBitCovers ==
  ASSUME NEW a \in Nat \ {0}, NEW p \in Nat \ {0}, a < p
  PROVE  p - LowBit(p) < a <=> a + LowBit(a) <= p /\ p - LowBit(p) < a + LowBit(a)
<1> DEFINE Covers(q, b) == q - LowBit(q) < b <=>
                             b + LowBit(b) <= q /\ q - LowBit(q) < b + LowBit(b)
           T == {q \in Nat : \E b \in Nat \ {0} : b < q /\ ~ Covers(q, b)}
<1>1. SUFFICES ASSUME T # {} PROVE FALSE
  OBVIOUS
<1>2. PICK q \in T : \A k \in T : q <= k
  BY <1>1, NatMin
<1>3. PICK b \in Nat \ {0} : b < q /\ ~ Covers(q, b)
  OBVIOUS
<1>4. q \in Nat \ {0} /\ LowBit(q) \in 1 .. q /\ LowBit(b) \in 1 .. b
  BY <1>3, LowBitType
<1> DEFINE c == b \div 2
           r == q \div 2
<1>5. /\ b % 2 = 1 => LowBit(b) = 1
      /\ b % 2 # 1 => /\ c \in Nat \ {0} /\ b = 2 * c
                      /\ LowBit(b) = 2 * LowBit(c) /\ LowBit(c) \in 1 .. c
      /\ q % 2 = 1 => LowBit(q) = 1
      /\ q % 2 # 1 => /\ r \in Nat \ {0} /\ q = 2 * r /\ r < q
                      /\ LowBit(q) = 2 * LowBit(r) /\ LowBit(r) \in 1 .. r
  BY <1>4, Halves, LowBitRule, LowBitType
<1>6. CASE q % 2 = 1
  <2>1. q # b + LowBit(b)
    <3>1. CASE b % 2 = 1
      BY <1>4, <1>5, <1>6, <3>1
    <3>2. CASE b % 2 # 1
      <4>1. PICK x \in Nat : b + LowBit(b) = 2 * x
        <5>1. b + LowBit(b) = 2 * (c + LowBit(c)) /\ c + LowBit(c) \in Nat
          BY <1>5, <3>2
        <5> QED BY <5>1
      <4> QED BY <1>4, <1>6, <4>1
    <3> QED BY <3>1, <3>2
  <2> QED BY <1>3, <1>4, <1>5, <1>6, <2>1
<1>7. CASE q % 2 # 1 /\ b % 2 = 1
  <2>1. PICK x \in Nat : q - LowBit(q) = 2 * x
    <3>1. q - LowBit(q) = 2 * (r - LowBit(r)) /\ r - LowBit(r) \in Nat
      BY <1>5, <1>7
    <3> QED BY <3>1
  <2>2. b # 2 * x
    BY <1>7, <2>1
  <2> QED BY <1>3, <1>4, <1>5, <1>7, <2>1, <2>2
<1>8. CASE q % 2 # 1 /\ b % 2 # 1
  <2>1. r \notin T /\ c < r
    BY <1>2, <1>3, <1>5, <1>8
  <2>2. Covers(r, c)
    BY <1>5, <1>8, <2>1
  <2> HIDE DEF c, r
  <2> QED BY <1>3, <1>4, <1>5, <1>8, <2>2
<1> QED BY <1>6, <1>7, <1>8

\* The nodes that cover the rank of node first.
Covering(n, first) == {p \in 1 .. n : p - LowBit(p) < first /\ first <= p}

\* The recursion of Upward.
IsUpward(g, n) == g = [p \in 1 .. 2 * n |-> IF p > n THEN {} ELSE {p} \cup g[p + LowBit(p)]]

\* The nodes that _fen_add visits are those that cover the rank.
LEMMA UpwardCovers ==
  ASSUME NEW n \in Nat, NEW first \in 1 .. 2 * n
  PROVE  Upward(n, first) = Covering(n, first)
<1> DEFINE g == [p \in 1 .. 2 * n |-> Covering(n, p)]
           up == CHOOSE h : IsUpward(h, n)
<1>1. ASSUME NEW p \in 1 .. 2 * n, p <= n
      PROVE  p + LowBit(p) \in 1 .. 2 * n /\ p < p + LowBit(p)
  BY <1>1, LowBitType
<1>2. ASSUME NEW p \in 1 .. 2 * n, p <= n
      PROVE  Covering(n, p) = {p} \cup Covering(n, p + LowBit(p))
  <2>1. p \in Nat \ {0} /\ p \in 1 .. n /\ LowBit(p) \in 1 .. p
    BY <1>2, LowBitType
  <2>2. ASSUME NEW q \in 1 .. n, q # p
        PROVE  q \in Covering(n, p) <=> q \in Covering(n, p + LowBit(p))
    <3>1. q \in Nat \ {0} /\ LowBit(q) \in 1 .. q
      BY LowBitType
    <3>2. CASE p < q
      BY <2>1, <3>1, <3>2, LowBitCovers DEF Covering
    <3>3. CASE q < p
      BY <2>1, <3>1, <3>3 DEF Covering
    <3> QED BY <2>1, <2>2, <3>1, <3>2, <3>3
  <2>3. p \in Covering(n, p)
    BY <2>1 DEF Covering
  <2>4. Covering(n, p) \subseteq 1 .. n /\ Covering(n, p + LowBit(p)) \subseteq 1 .. n
    BY DEF Covering
  <2> QED BY <2>1, <2>2, <2>3, <2>4
<1>3. \A p \in 1 .. 2 * n : p > n => Covering(n, p) = {}
  BY DEF Covering
<1>4. IsUpward(g, n)
  <2> DEFINE Rule(p) == IF p > n THEN {} ELSE {p} \cup g[p + LowBit(p)]
  <2>1. ASSUME NEW p \in 1 .. 2 * n PROVE g[p] = Rule(p)
    <3>1. CASE p <= n
      <4>1. g[p] = Covering(n, p) /\ g[p + LowBit(p)] = Covering(n, p + LowBit(p))
        BY <1>1, <3>1
      <4> HIDE DEF g
      <4> QED BY <1>2, <3>1, <4>1
    <3>2. CASE p > n
      BY <1>3, <3>2
    <3> QED BY <3>1, <3>2
  <2>2. g = [p \in 1 .. 2 * n |-> g[p]]
    OBVIOUS
  <2> HIDE DEF g
  <2>3. g = [p \in 1 .. 2 * n |-> Rule(p)]
    <3> HIDE DEF Rule
    <3> QED BY <2>1, <2>2
  <2> QED BY <2>3 DEF IsUpward
<1>5. IsUpward(up, n)
  BY <1>4
<1>6. \A p \in 1 .. 2 * n : up[p] = IF p > n THEN {} ELSE {p} \cup up[p + LowBit(p)]
  <2> HIDE DEF up
  <2> QED BY <1>5 DEF IsUpward
<1>7. ASSUME NEW p \in 1 .. 2 * n PROVE up[p] = Covering(n, p)
  <2> DEFINE T == {d \in Nat : \E q \in 1 .. 2 * n : d = 2 * n - q /\ up[q] # Covering(n, q)}
  <2> HIDE DEF up
  <2>1. SUFFICES ASSUME T # {} PROVE FALSE
    <3>1. 2 * n - p \in Nat
      OBVIOUS
    <3> QED BY <2>1, <3>1
  <2>2. PICK d \in T : \A e \in T : d <= e
    BY <2>1, NatMin
  <2>3. PICK q \in 1 .. 2 * n : d = 2 * n - q /\ up[q] # Covering(n, q)
    OBVIOUS
  <2> DEFINE r == q + LowBit(q)
  <2>4. up[q] = IF q > n THEN {} ELSE {q} \cup up[r]
    BY <1>6
  <2>5. q > n => Covering(n, q) = {}
    BY <1>3
  <2>6. q <= n => /\ r \in 1 .. 2 * n /\ q < r
                  /\ Covering(n, q) = {q} \cup Covering(n, r)
    BY <1>1, <1>2
  <2> HIDE DEF r
  <2>7. q <= n /\ up[r] # Covering(n, r)
    BY <2>3, <2>4, <2>5, <2>6
  <2>8. 2 * n - r \in Nat /\ 2 * n - r < d /\ d \in Int
    BY <2>3, <2>6, <2>7
  <2>9. 2 * n - r \in T
    <3>1. \E k \in 1 .. 2 * n : 2 * n - r = 2 * n - k /\ up[k] # Covering(n, k)
      BY <2>6, <2>7, Zenon
    <3> QED BY <2>8, <3>1
  <2> HIDE DEF T
  <2> QED BY <2>2, <2>8, <2>9
<1>8. Upward(n, first) = up[first]
  BY DEF Upward, IsUpward
<1> HIDE DEF up
<1> QED BY <1>7, <1>8

\* The recursion of Pref over an array of n nodes.
IsPref(g, tr, n) == g = [p \in 0 .. n |-> IF p = 0 THEN 0 ELSE tr[p] + g[p - LowBit(p)]]

LEMMA PrefExists ==
  ASSUME NEW n \in Nat, NEW tr
  PROVE  \E g : IsPref(g, tr, n)
<1> DEFINE T == {m \in Nat : ~ \E g : IsPref(g, tr, m)}
<1>1. SUFFICES ASSUME T # {} PROVE FALSE
  OBVIOUS
<1>2. PICK m \in T : \A k \in T : m <= k
  BY <1>1, NatMin
<1>3. m \in Nat /\ ~ \E g : IsPref(g, tr, m)
  OBVIOUS
<1>4. m # 0
  <2> SUFFICES ASSUME m = 0 PROVE FALSE
    OBVIOUS
  <2> DEFINE g == [p \in 0 .. 0 |-> 0]
  <2>1. g = [p \in 0 .. 0 |-> IF p = 0 THEN 0 ELSE tr[p] + g[p - LowBit(p)]]
    OBVIOUS
  <2> HIDE DEF g
  <2> QED BY <1>3, <2>1 DEF IsPref
<1>5. m - 1 \in Nat /\ m - 1 \notin T
  BY <1>2, <1>3, <1>4
<1>6. PICK g : IsPref(g, tr, m - 1)
  BY <1>5
<1> DEFINE h == [p \in 0 .. m |-> IF p < m THEN g[p] ELSE tr[m] + g[m - LowBit(m)]]
           Rule(p) == IF p = 0 THEN 0 ELSE tr[p] + h[p - LowBit(p)]
<1>7. \A p \in 0 .. m - 1 : g[p] = IF p = 0 THEN 0 ELSE tr[p] + g[p - LowBit(p)]
  BY <1>6 DEF IsPref
<1>8. ASSUME NEW p \in 0 .. m PROVE h[p] = Rule(p)
  <2>1. p # 0 => p - LowBit(p) \in 0 .. m /\ p - LowBit(p) < p
                 /\ h[p - LowBit(p)] = g[p - LowBit(p)]
    <3> SUFFICES ASSUME p # 0
                 PROVE  p - LowBit(p) \in 0 .. m /\ p - LowBit(p) < p
                        /\ h[p - LowBit(p)] = g[p - LowBit(p)]
      OBVIOUS
    <3>1. LowBit(p) \in 1 .. p
      BY LowBitType
    <3> DEFINE q == p - LowBit(p)
    <3>2. q \in 0 .. m /\ q < p /\ q < m
      BY <1>3, <3>1
    <3> HIDE DEF q
    <3>3. h[q] = g[q]
      BY <3>2
    <3> QED BY <3>2, <3>3 DEF q
  <2>2. CASE p = m
    BY <1>3, <1>4, <2>1, <2>2
  <2>3. CASE p # m
    <3>1. p \in 0 .. m - 1 /\ h[p] = g[p]
      BY <1>3, <2>3
    <3> HIDE DEF h
    <3> QED BY <1>7, <2>1, <3>1
  <2> QED BY <2>2, <2>3
<1>9. IsPref(h, tr, m)
  <2>1. h = [p \in 0 .. m |-> h[p]]
    OBVIOUS
  <2> HIDE DEF h
  <2>2. h = [p \in 0 .. m |-> Rule(p)]
    <3> HIDE DEF Rule
    <3> QED BY <1>8, <2>1
  <2> QED BY <2>2 DEF IsPref
<1> QED BY <1>3, <1>9

\* The walk down adds a node and goes on where its cover starts.
LEMMA PrefRule ==
  ASSUME NEW n \in Nat, NEW tr, DOMAIN tr = 1 .. n
  PROVE  /\ Pref(tr, -1) = 0
         /\ \A p \in 1 .. n : Pref(tr, p - 1) = tr[p] + Pref(tr, p - LowBit(p) - 1)
<1> DEFINE sum == CHOOSE g : IsPref(g, tr, n)
<1>1. IsPref(sum, tr, n)
  BY PrefExists
<1>2. {0} \cup DOMAIN tr = 0 .. n
  OBVIOUS
<1>3. \A rank : Pref(tr, rank) = sum[rank + 1]
  BY <1>2 DEF Pref, IsPref
<1> HIDE DEF sum
<1>4. \A p \in 0 .. n : sum[p] = IF p = 0 THEN 0 ELSE tr[p] + sum[p - LowBit(p)]
  BY <1>1 DEF IsPref
<1>5. \A p \in Int : Pref(tr, p - 1) = sum[p]
  <2> TAKE p \in Int
  <2>1. (p - 1) + 1 = p
    OBVIOUS
  <2> QED BY <1>3, <2>1
<1>6. Pref(tr, -1) = 0
  <2>1. Pref(tr, 0 - 1) = sum[0]
    BY <1>5
  <2> QED BY <1>4, <2>1
<1>7. ASSUME NEW p \in 1 .. n
      PROVE  Pref(tr, p - 1) = tr[p] + Pref(tr, p - LowBit(p) - 1)
  <2>1. p - LowBit(p) \in Int /\ p \in 0 .. n /\ p # 0 /\ p \in Int
    BY LowBitType
  <2>2. sum[p] = tr[p] + sum[p - LowBit(p)]
    BY <1>4, <2>1
  <2>3. Pref(tr, p - 1) = sum[p] /\ Pref(tr, p - LowBit(p) - 1) = sum[p - LowBit(p)]
    BY <1>5, <2>1
  <2> QED BY <2>2, <2>3
<1> QED BY <1>6, <1>7

LEMMA AddedCovers ==
  ASSUME NEW n \in Nat, NEW tr \in [Node(n) -> Int], NEW rank \in 0 .. n - 1, NEW value \in Int
  PROVE  /\ Added(tr, n, rank, value) \in [Node(n) -> Int]
         /\ \A p \in Node(n) :
              Added(tr, n, rank, value)[p]
                = tr[p] + IF p - LowBit(p) <= rank /\ rank < p THEN value ELSE 0
<1>1. rank + 1 \in 1 .. 2 * n
  OBVIOUS
<1>2. Upward(n, rank + 1) = Covering(n, rank + 1)
  BY <1>1, UpwardCovers
<1>3. Added(tr, n, rank, value) \in [Node(n) -> Int]
  BY DEF Added
<1>4. ASSUME NEW p \in Node(n)
      PROVE  Added(tr, n, rank, value)[p]
               = tr[p] + IF p - LowBit(p) <= rank /\ rank < p THEN value ELSE 0
  <2>1. p \in 1 .. n /\ LowBit(p) \in Int /\ tr[p] \in Int
    BY LowBitType DEF Node
  <2>2. p \in Covering(n, rank + 1) <=> p - LowBit(p) <= rank /\ rank < p
    BY <2>1 DEF Covering
  <2>3. Added(tr, n, rank, value)[p] = IF p \in Covering(n, rank + 1) THEN tr[p] + value ELSE tr[p]
    BY <1>2 DEF Added
  <2> QED BY <2>1, <2>2, <2>3
<1> QED BY <1>3, <1>4

\* Work charged to a rank is read in the prefix of that rank and of every later one, and
\* in no other (_fen_add, _fen_pref): for every number of ranks and every content of the
\* array, it is the AddSuffix by which Kernel.tla describes it.
THEOREM FenwickAddsToSuffix ==
  ASSUME NEW n \in Nat, NEW tr \in [Node(n) -> Int], NEW rank \in 0 .. n - 1, NEW value \in Int
  PROVE  /\ [q \in 0 .. n - 1 |-> Pref(tr, q)] \in [0 .. n - 1 -> Int]
         /\ [q \in 0 .. n - 1 |-> Pref(Added(tr, n, rank, value), q)]
              = AddSuffix([q \in 0 .. n - 1 |-> Pref(tr, q)], rank, value)
<1> DEFINE new == Added(tr, n, rank, value)
           Gain(p) == IF rank < p THEN value ELSE 0
           Good(p) == Pref(tr, p - 1) \in Int /\ Pref(new, p - 1) = Pref(tr, p - 1) + Gain(p)
           T == {p \in 0 .. n : ~ Good(p)}
<1>1. /\ new \in [1 .. n -> Int]
      /\ \A p \in 1 .. n :
           new[p] = tr[p] + IF p - LowBit(p) <= rank /\ rank < p THEN value ELSE 0
  BY AddedCovers DEF Node
<1>2. /\ Pref(tr, -1) = 0 /\ Pref(new, -1) = 0
      /\ \A p \in 1 .. n : /\ Pref(tr, p - 1) = tr[p] + Pref(tr, p - LowBit(p) - 1)
                           /\ Pref(new, p - 1) = new[p] + Pref(new, p - LowBit(p) - 1)
  <2>1. DOMAIN tr = 1 .. n /\ DOMAIN new = 1 .. n
    BY <1>1 DEF Node
  <2> HIDE DEF new
  <2> QED BY <2>1, PrefRule
<1> HIDE DEF new
<1>3. T = {}
  <2> SUFFICES ASSUME T # {} PROVE FALSE
    OBVIOUS
  <2>1. T \in SUBSET Nat
    OBVIOUS
  <2>2. PICK p \in T : \A k \in T : p <= k
    BY <2>1, NatMin
  <2>3. p \in 0 .. n /\ ~ Good(p)
    OBVIOUS
  <2>4. p # 0
    BY <1>2, <2>3
  <2> DEFINE m == p - LowBit(p)
  <2>5. p \in 1 .. n /\ p \in Nat \ {0}
    BY <2>3, <2>4
  <2>6. m \in 0 .. n /\ m < p
    BY <2>5, LowBitType
  <2>7. Good(m)
    BY <2>2, <2>6
  <2>8. /\ Pref(tr, p - 1) = tr[p] + Pref(tr, m - 1)
        /\ Pref(new, p - 1) = new[p] + Pref(new, m - 1)
        /\ tr[p] \in Int /\ new[p] = tr[p] + IF m <= rank /\ rank < p THEN value ELSE 0
    BY <1>1, <1>2, <2>5 DEF Node
  <2> HIDE DEF m, T
  <2>9. Good(p)
    BY <2>5, <2>6, <2>7, <2>8
  <2> QED BY <2>3, <2>9
<1>4. ASSUME NEW q \in 0 .. n - 1
      PROVE  /\ Pref(tr, q) \in Int
             /\ Pref(new, q) = IF q >= rank THEN Pref(tr, q) + value ELSE Pref(tr, q)
  <2>1. q + 1 \in 0 .. n /\ (q + 1) - 1 = q
    OBVIOUS
  <2>2. Good(q + 1)
    BY <1>3, <2>1
  <2> QED BY <2>1, <2>2
<1> QED BY <1>4 DEF new, AddSuffix

\* A tree of zeros holds no work for any rank.
LEMMA NoWorkIsRead ==
  ASSUME NEW n \in Nat, NEW q \in 0 .. n - 1
  PROVE  NoWork(n) \in [Node(n) -> Int] /\ Pref(NoWork(n), q) = 0
<1> DEFINE tr == NoWork(n)
           T == {p \in 0 .. n : Pref(tr, p - 1) # 0}
<1>1. tr \in [Node(n) -> Int] /\ DOMAIN tr = 1 .. n /\ \A p \in 1 .. n : tr[p] = 0
  BY DEF NoWork, Node
<1> HIDE DEF tr
<1>2. /\ Pref(tr, -1) = 0
      /\ \A p \in 1 .. n : Pref(tr, p - 1) = tr[p] + Pref(tr, p - LowBit(p) - 1)
  BY <1>1, PrefRule
<1>3. T = {}
  <2> SUFFICES ASSUME T # {} PROVE FALSE
    OBVIOUS
  <2>1. T \in SUBSET Nat
    OBVIOUS
  <2>2. PICK p \in T : \A k \in T : p <= k
    BY <2>1, NatMin
  <2>3. p \in 0 .. n /\ Pref(tr, p - 1) # 0
    OBVIOUS
  <2> DEFINE m == p - LowBit(p)
  <2>4. p \in 1 .. n /\ p \in Nat \ {0}
    BY <1>2, <2>3
  <2>5. m \in 0 .. n /\ m < p
    BY <2>4, LowBitType
  <2>6. Pref(tr, m - 1) = 0
    BY <2>2, <2>5
  <2>7. Pref(tr, p - 1) = tr[p] + Pref(tr, m - 1) /\ tr[p] = 0
    BY <1>1, <1>2, <2>4
  <2> HIDE DEF m
  <2> QED BY <2>3, <2>6, <2>7
<1>4. q + 1 \in 0 .. n /\ (q + 1) - 1 = q
  OBVIOUS
<1>5. Pref(tr, q) = 0
  BY <1>3, <1>4
<1> QED BY <1>1, <1>5 DEF tr
=============================================================================
