-------------------------- MODULE ScheduleTheorems --------------------------
(***************************************************************************)
(* Facts about schedules of any jobs on any number of servers, whoever     *)
(* made them, against first come first served.  A schedule is a map from   *)
(* the jobs to their starting instants.                                    *)
(*                                                                         *)
(* The work that two schedules have left differs little, but for what a    *)
(* server has not done while it stood idle and a job waited; the wait of a *)
(* job is an account of work.  First come first served is such a schedule, *)
(* and what a job waits more than under it is the work that has passed it, *)
(* with the idle capacity if there was any.  The kernel never leaves a     *)
(* server idle; the physical service does.                                 *)
(***************************************************************************)
EXTENDS ReferenceFcfs, WorkTheorems

CONSTANT L   \* no job needs more service

InputOK ==
  /\ {N, K, L} \subseteq Nat \ {0}
  /\ a_us \in [Rank -> Nat] /\ \A p, q \in Rank : p <= q => a_us[p] <= a_us[q]
  /\ s_us \in [Rank -> 1 .. L]

---------------------------------------------------------------------------
(* The work that a schedule has left, and the capacity it did not use.     *)

\* The jobs of S that hold a server at instant u, when st says who starts when.
Executing(st, S, u) == {j \in S : st[j] <= u /\ u < st[j] + s_us[j]}

\* The units of work of S that are executed at u or later.
Left(st, S, u) == {x \in Units(S, s_us) : st[x[1]] + x[2] > u}

\* Some job has arrived and not started.
SomeWait(st, u) == \E j \in Rank : a_us[j] <= u /\ u < st[j]

\* The instants before u at which some job waited, once for each idle server.
Unused(st, u) ==
  {x \in (0 .. u - 1) \X Servers :
     SomeWait(st, x[1]) /\ Cardinality(Executing(st, Rank, x[1])) < x[2]}

OnServers(st) ==
  /\ st \in [Rank -> Int] /\ \A j \in Rank : a_us[j] <= st[j]
  /\ \A u \in Nat : Cardinality(Executing(st, Rank, u)) <= K

NeverIdle(st) ==
  /\ OnServers(st)
  /\ \A u \in Nat : SomeWait(st, u) => Cardinality(Executing(st, Rank, u)) = K

LEMMA SizeTypes ==
  ASSUME InputOK
  PROVE  /\ N \in Nat /\ N > 0 /\ K \in Nat /\ K > 0 /\ L \in Nat
         /\ Rank \subseteq Nat /\ IsFiniteSet(Rank) /\ Cardinality(Rank) = N
         /\ a_us \in [Rank -> Nat] /\ s_us \in [Rank -> 1 .. L]
         /\ \A S \in SUBSET Rank :
              /\ IsFiniteSet(S) /\ Cardinality(S) \in Nat
              /\ IsFiniteSet(Units(S, s_us)) /\ WorkOf(S, s_us) \in Nat
<1>1. N \in Nat /\ N > 0 /\ K \in Nat /\ K > 0 /\ L \in Nat
  BY DEF InputOK
<1>2. Rank \subseteq Nat /\ IsFiniteSet(Rank) /\ Cardinality(Rank) = N
  BY <1>1, FS_Interval DEF Rank
<1>3. a_us \in [Rank -> Nat] /\ s_us \in [Rank -> 1 .. L]
  BY DEF InputOK
<1>4. ASSUME NEW S \in SUBSET Rank
      PROVE  /\ IsFiniteSet(S) /\ Cardinality(S) \in Nat
             /\ IsFiniteSet(Units(S, s_us)) /\ WorkOf(S, s_us) \in Nat
  <2>1. IsFiniteSet(S) /\ Cardinality(S) \in Nat
    BY <1>2, FS_Subset, FS_CardinalityType
  <2>2. \A j \in S : s_us[j] \in Nat
    BY <1>1, <1>3
  <2> QED BY <2>1, <2>2, UnitsFinite, WorkType
<1> QED BY <1>1, <1>2, <1>3, <1>4

LEMMA LeftTypes ==
  ASSUME InputOK, NEW st \in [Rank -> Int], NEW S \in SUBSET Rank, NEW u \in Int
  PROVE  /\ IsFiniteSet(Left(st, S, u)) /\ Cardinality(Left(st, S, u)) \in Nat
         /\ Left(st, S, u) \subseteq Units(S, s_us)
         /\ \A x : x \in Left(st, S, u) <=>
              \E j \in S : \E k \in 1 .. s_us[j] : x = <<j, k>> /\ st[j] + k > u
<1>1. Left(st, S, u) \in SUBSET Units(S, s_us)
  BY DEF Left
<1>2. IsFiniteSet(Left(st, S, u)) /\ Cardinality(Left(st, S, u)) \in Nat
  BY <1>1, SizeTypes, FS_Subset, FS_CardinalityType
<1> QED BY <1>1, <1>2, UnitsOf DEF Left

\* In one instant, one unit of every executing job is done.
LEMMA LeftStep ==
  ASSUME InputOK, NEW st \in [Rank -> Int], NEW S \in SUBSET Rank, NEW u \in Int
  PROVE  Cardinality(Left(st, S, u))
           = Cardinality(Left(st, S, u + 1)) + Cardinality(Executing(st, S, u))
<1> DEFINE Now == {x \in Left(st, S, u) : st[x[1]] + x[2] = u + 1}
           E   == Executing(st, S, u)
           f   == [j \in E |-> <<j, u + 1 - st[j]>>]
<1>1. /\ S \subseteq Int /\ \A j \in S : st[j] \in Int /\ s_us[j] \in Nat
      /\ E \in SUBSET Rank /\ u + 1 \in Int
  BY SizeTypes DEF Executing
<1>2. /\ Left(st, S, u) = Left(st, S, u + 1) \cup Now
      /\ Left(st, S, u + 1) \cap Now = {}
  <2>1. \A x \in Left(st, S, u) :
          x \in Units(S, s_us) /\ st[x[1]] + x[2] \in Int /\ st[x[1]] + x[2] > u
    <3> TAKE x \in Left(st, S, u)
    <3>1. PICK j \in S : \E k \in 1 .. s_us[j] : x = <<j, k>> /\ st[j] + k > u
      BY LeftTypes
    <3>2. PICK k \in 1 .. s_us[j] : x = <<j, k>> /\ st[j] + k > u
      BY <3>1
    <3>3. x[1] = j /\ x[2] = k /\ k \in Int /\ st[j] \in Int
      BY <1>1, <3>2
    <3> QED BY <3>2, <3>3, LeftTypes
  <2>2. \A x \in Left(st, S, u + 1) : x \in Left(st, S, u) /\ st[x[1]] + x[2] # u + 1
    <3> TAKE x \in Left(st, S, u + 1)
    <3>1. PICK j \in S : \E k \in 1 .. s_us[j] : x = <<j, k>> /\ st[j] + k > u + 1
      BY <1>1, LeftTypes
    <3>2. PICK k \in 1 .. s_us[j] : x = <<j, k>> /\ st[j] + k > u + 1
      BY <3>1
    <3>3. x[1] = j /\ x[2] = k /\ k \in Int /\ st[j] \in Int
      BY <1>1, <3>2
    <3>4. x \in Left(st, S, u)
      BY <3>2, <3>3, LeftTypes
    <3> QED BY <3>2, <3>3, <3>4
  <2>3. \A x \in Left(st, S, u) : x \notin Now => x \in Left(st, S, u + 1)
    BY <2>1 DEF Left
  <2> QED BY <2>2, <2>3
<1>3. f \in Bijection(E, Now)
  <2>1. ASSUME NEW j \in E PROVE f[j] \in Now
    <3> DEFINE k == u + 1 - st[j]
    <3>1. j \in S /\ st[j] <= u /\ u < st[j] + s_us[j] /\ st[j] \in Int /\ s_us[j] \in Nat
      BY <1>1 DEF Executing
    <3>2. k \in 1 .. s_us[j] /\ st[j] + k = u + 1 /\ st[j] + k > u
      BY <3>1
    <3>3. f[j] = <<j, k>> /\ f[j][1] = j /\ f[j][2] = k
      OBVIOUS
    <3> HIDE DEF k, f, E
    <3>4. <<j, k>> \in Left(st, S, u)
      BY <3>1, <3>2, LeftTypes
    <3> QED BY <3>2, <3>3, <3>4
  <2>2. ASSUME NEW x \in Now PROVE \E j \in E : f[j] = x
    <3>1. PICK j \in S : \E k \in 1 .. s_us[j] : x = <<j, k>> /\ st[j] + k > u
      BY LeftTypes
    <3>2. PICK k \in 1 .. s_us[j] : x = <<j, k>> /\ st[j] + k > u
      BY <3>1
    <3>3. st[j] + k = u + 1 /\ k \in 1 .. s_us[j] /\ st[j] \in Int /\ s_us[j] \in Nat
      BY <1>1, <3>2
    <3>4. st[j] <= u /\ u < st[j] + s_us[j] /\ u + 1 - st[j] = k
      BY <3>3
    <3>5. j \in E
      BY <3>4 DEF Executing
    <3> QED BY <3>2, <3>4, <3>5
  <2>3. \A i, j \in E : f[i] = f[j] => i = j
    OBVIOUS
  <2>4. f \in [E -> Now]
    <3> HIDE DEF Now
    <3>1. \A j \in E : <<j, u + 1 - st[j]>> \in Now
      BY <2>1
    <3> QED BY <3>1
  <2> HIDE DEF f, E, Now
  <2> QED BY <2>2, <2>3, <2>4 DEF Bijection, Injection, Surjection, IsInjective
<1>4. IsFiniteSet(E) /\ Cardinality(E) \in Nat
  BY <1>1, SizeTypes
<1>5. IsFiniteSet(Now) /\ Cardinality(Now) = Cardinality(E)
  <2> HIDE DEF f, E, Now
  <2> QED BY <1>3, <1>4, FS_Bijection DEF ExistsBijection
<1> DEFINE A == Left(st, S, u + 1)
<1>6. IsFiniteSet(A) /\ Cardinality(A) \in Nat
  BY <1>1, LeftTypes
<1>7. Cardinality(A \cap Now) = 0
  BY <1>2, FS_EmptySet
<1>8. Cardinality(A \cup Now) = Cardinality(A) + Cardinality(Now) - Cardinality(A \cap Now)
  BY <1>5, <1>6, FS_Union
<1> HIDE DEF A, Now
<1>9. Cardinality(A \cup Now) = Cardinality(A) + Cardinality(E)
  BY <1>4, <1>5, <1>6, <1>7, <1>8
<1> QED BY <1>2, <1>9 DEF A

\* In one instant with a waiting job, one unit of capacity is lost for every idle server.
LEMMA UnusedStep ==
  ASSUME InputOK, NEW st, OnServers(st), NEW u \in Nat
  PROVE  /\ Cardinality(Unused(st, u)) \in Nat /\ Cardinality(Unused(st, u + 1)) \in Nat
         /\ SomeWait(st, u) =>
              Cardinality(Unused(st, u + 1))
                = Cardinality(Unused(st, u)) + K - Cardinality(Executing(st, Rank, u))
         /\ ~SomeWait(st, u) => Unused(st, u + 1) = Unused(st, u)
<1> DEFINE e == Cardinality(Executing(st, Rank, u))
           A == Unused(st, u)
           B == {u} \X (e + 1 .. K)
<1>1. e \in Nat /\ e <= K /\ K \in Nat
  <2>1. Executing(st, Rank, u) \in SUBSET Rank
    BY DEF Executing
  <2> QED BY <2>1, SizeTypes DEF OnServers
<1>2. ASSUME NEW v \in Nat PROVE IsFiniteSet(Unused(st, v)) /\ Cardinality(Unused(st, v)) \in Nat
  <2>1. IsFiniteSet(0 .. v - 1) /\ IsFiniteSet(Servers)
    BY <1>1, FS_Interval DEF Servers
  <2>2. IsFiniteSet((0 .. v - 1) \X Servers)
    BY <2>1, FS_Product
  <2> QED BY <2>2, FS_Subset, FS_CardinalityType DEF Unused
<1>3. u + 1 \in Nat /\ 0 .. u + 1 - 1 = (0 .. u - 1) \cup {u} /\ u \notin 0 .. u - 1
  OBVIOUS
<1>4. ASSUME SomeWait(st, u)
      PROVE  Cardinality(Unused(st, u + 1)) = Cardinality(A) + K - e
  <2>1. IsFiniteSet({u}) /\ Cardinality({u}) = 1
    BY FS_Singleton
  <2>2. IsFiniteSet(e + 1 .. K) /\ Cardinality(e + 1 .. K) = K - e
    <3>1. e + 1 \in Int /\ K \in Int
      BY <1>1
    <3>2. /\ IsFiniteSet(e + 1 .. K)
          /\ Cardinality(e + 1 .. K) = IF e + 1 > K THEN 0 ELSE K - (e + 1) + 1
      BY <3>1, FS_Interval
    <3> HIDE DEF e
    <3> QED BY <1>1, <3>2
  <2>3. IsFiniteSet(B) /\ Cardinality(B) = K - e
    <3>1. IsFiniteSet(B) /\ Cardinality(B) = 1 * (K - e)
      BY <2>1, <2>2, FS_Product, ZenonT(40)
    <3> HIDE DEF B, e
    <3> QED BY <1>1, <3>1
  <2>4. Unused(st, u + 1) = A \cup B
    <3>1. ASSUME NEW s \in Servers PROVE e < s <=> s \in e + 1 .. K
      <4> HIDE DEF e
      <4> QED BY <1>1, <3>1 DEF Servers
    <3>2. e + 1 .. K \subseteq Servers
      <4> HIDE DEF e
      <4> QED BY <1>1 DEF Servers
    <3>3. ASSUME NEW v, NEW s
          PROVE  <<v, s>> \in Unused(st, u + 1) <=> <<v, s>> \in A \cup B
      <4>1. CASE v = u
        <5>1. <<v, s>> \in Unused(st, u + 1) <=> s \in Servers /\ e < s
          BY <1>3, <1>4, <4>1 DEF Unused
        <5>2. <<v, s>> \notin A
          BY <1>3, <4>1 DEF Unused
        <5>3. <<v, s>> \in B <=> s \in e + 1 .. K
          BY <4>1
        <5> HIDE DEF A, B, e
        <5> QED BY <3>1, <3>2, <5>1, <5>2, <5>3
      <4>2. CASE v # u
        BY <1>3, <4>2 DEF Unused
      <4> QED BY <4>1, <4>2
    <3>4. \A x \in Unused(st, u + 1) \cup A \cup B : x = <<x[1], x[2]>>
      BY DEF Unused
    <3> HIDE DEF A, B
    <3> QED BY <3>3, <3>4
  <2>5. A \cap B = {}
    BY <1>3 DEF Unused
  <2>6. IsFiniteSet(A) /\ Cardinality(A) \in Nat
    BY <1>2
  <2> HIDE DEF A, B, e
  <2>7. Cardinality(A \cap B) = 0
    BY <2>5, FS_EmptySet
  <2>8. Cardinality(A \cup B) = Cardinality(A) + Cardinality(B) - Cardinality(A \cap B)
    BY <2>3, <2>6, FS_Union
  <2>9. Cardinality(A \cup B) = Cardinality(A) + (K - e)
    BY <1>1, <2>3, <2>6, <2>7, <2>8
  <2>10. Cardinality(A) + (K - e) = Cardinality(A) + K - e
    BY <1>1, <2>6
  <2> QED BY <2>4, <2>9, <2>10
<1>5. ~SomeWait(st, u) => Unused(st, u + 1) = Unused(st, u)
  BY <1>3 DEF Unused
<1> QED BY <1>2, <1>3, <1>4, <1>5

LEMMA NoneUnused ==
  ASSUME InputOK, NEW st, NeverIdle(st), NEW u \in Nat
  PROVE  Cardinality(Unused(st, u)) = 0
<1>1. ASSUME NEW x \in Unused(st, u) PROVE FALSE
  <2>1. x[1] \in 0 .. u - 1 /\ x[2] \in 1 .. K
        /\ SomeWait(st, x[1]) /\ Cardinality(Executing(st, Rank, x[1])) < x[2]
    BY DEF Unused, Servers
  <2>2. x[1] \in Nat
    BY <2>1
  <2>3. Cardinality(Executing(st, Rank, x[1])) = K
    BY <2>1, <2>2 DEF NeverIdle
  <2> QED BY <2>1, <2>3, SizeTypes
<1>2. Unused(st, u) = {}
  BY <1>1
<1> QED BY <1>2, FS_EmptySet

\* While a job waits and only jobs of S execute, K units are done or lost per instant.
LEMMA BusySpan ==
  ASSUME InputOK, NEW st, OnServers(st), NEW S \in SUBSET Rank, NEW u \in Nat, NEW n \in Nat,
         \A d \in 0 .. n - 1 : /\ SomeWait(st, u + d)
                               /\ Executing(st, Rank, u + d) = Executing(st, S, u + d)
  PROVE  Cardinality(Left(st, S, u)) + Cardinality(Unused(st, u + n))
           = Cardinality(Left(st, S, u + n)) + Cardinality(Unused(st, u)) + K * n
<1> DEFINE At(d) == Cardinality(Left(st, S, u + d))
           Lost(d) == Cardinality(Unused(st, u + d))
           T == {d \in 0 .. n : At(0) + Lost(d) # At(d) + Lost(0) + K * d}
<1>1. ASSUME NEW d \in 0 .. n PROVE At(d) \in Nat /\ Lost(d) \in Nat
  <2>1. u + d \in Int /\ u + d \in Nat /\ st \in [Rank -> Int]
    BY DEF OnServers
  <2> QED BY <2>1, LeftTypes, UnusedStep
<1>2. ASSUME T # {} PROVE FALSE
  <2>1. T \in SUBSET Nat
    OBVIOUS
  <2>2. PICK d \in T : \A e \in T : d <= e
    BY <1>2, <2>1, NatMin
  <2>3. At(0) + Lost(d) # At(d) + Lost(0) + K * d /\ d \in 0 .. n
    OBVIOUS
  <2>4. d # 0
    <3>1. K * 0 = 0 /\ 0 \in 0 .. n
      BY SizeTypes
    <3>2. At(0) \in Nat /\ Lost(0) \in Nat
      BY <1>1, <3>1
    <3> HIDE DEF At, Lost
    <3>3. At(0) + Lost(0) = At(0) + Lost(0) + K * 0
      BY <3>1, <3>2
    <3> QED BY <2>3, <3>3
  <2> DEFINE e == d - 1
  <2>5. e \in 0 .. n - 1 /\ e \in 0 .. n /\ d = e + 1 /\ ~(d <= e)
    BY <2>3, <2>4
  <2>6. e \notin T
    BY <2>2, <2>5
  <2>7. /\ At(e) = At(d) + Cardinality(Executing(st, Rank, u + e))
        /\ Lost(d) = Lost(e) + K - Cardinality(Executing(st, Rank, u + e))
        /\ Cardinality(Executing(st, Rank, u + e)) \in Nat
    <3>1. u + e \in Int /\ u + e \in Nat /\ u + e + 1 = u + d /\ st \in [Rank -> Int]
      BY <2>5 DEF OnServers
    <3>2. SomeWait(st, u + e) /\ Executing(st, Rank, u + e) = Executing(st, S, u + e)
      BY <2>5
    <3>3. Executing(st, Rank, u + e) \in SUBSET Rank
      BY DEF Executing
    <3>4. Cardinality(Executing(st, Rank, u + e)) \in Nat
      BY <3>3, SizeTypes
    <3> HIDE DEF e
    <3>5. At(e) = At(d) + Cardinality(Executing(st, S, u + e))
      BY <3>1, LeftStep
    <3>6. Lost(d) = Lost(e) + K - Cardinality(Executing(st, Rank, u + e))
      BY <3>1, <3>2, UnusedStep
    <3> QED BY <3>2, <3>4, <3>5, <3>6
  <2>8. K * d = K * e + K
    BY <2>5, SizeTypes
  <2>9. At(0) + Lost(e) = At(e) + Lost(0) + K * e
    BY <2>5, <2>6
  <2>10. /\ At(e) \in Nat /\ At(d) \in Nat /\ Lost(e) \in Nat /\ Lost(d) \in Nat
         /\ At(0) \in Nat /\ Lost(0) \in Nat
    BY <1>1, <2>5
  <2>11. K \in Nat /\ K * e \in Int
    BY <2>5, SizeTypes
  <2> HIDE DEF At, Lost, e
  <2> QED BY <2>3, <2>7, <2>8, <2>9, <2>10, <2>11
<1>3. n \in 0 .. n /\ u + 0 = u
  OBVIOUS
<1>4. At(0) + Lost(n) = At(n) + Lost(0) + K * n
  BY <1>2, <1>3
<1> QED BY <1>3, <1>4

\* The jobs that first come first served starts before i.
Ahead(i) == {j \in Rank : j < i}

LEMMA ExecutingTypes ==
  ASSUME InputOK, NEW st \in [Rank -> Int], NEW S \in SUBSET Rank, NEW u \in Int
  PROVE  /\ IsFiniteSet(Executing(st, S, u)) /\ Cardinality(Executing(st, S, u)) \in Nat
         /\ Executing(st, S, u) \in SUBSET S
         /\ Cardinality(Executing(st, S, u)) <= Cardinality(Executing(st, Rank, u))
<1>1. /\ Executing(st, S, u) \in SUBSET S /\ Executing(st, S, u) \in SUBSET Rank
      /\ Executing(st, S, u) \in SUBSET Executing(st, Rank, u)
      /\ Executing(st, Rank, u) \in SUBSET Rank
  BY DEF Executing
<1>2. /\ IsFiniteSet(Executing(st, S, u)) /\ Cardinality(Executing(st, S, u)) \in Nat
      /\ IsFiniteSet(Executing(st, Rank, u))
  BY <1>1, SizeTypes
<1> QED BY <1>1, <1>2, FS_Subset

\* What K - 1 jobs have left is at most (K - 1) L.
LEMMA FewJobsLeft ==
  ASSUME InputOK, NEW E \in SUBSET Rank, Cardinality(E) < K
  PROVE  WorkOf(E, s_us) <= (K - 1) * L /\ (K - 1) * L \in Nat
<1>1. IsFiniteSet(E) /\ Cardinality(E) \in Nat /\ WorkOf(E, s_us) \in Nat
  BY SizeTypes
<1>2. L \in Nat /\ K - 1 \in Nat /\ Cardinality(E) <= K - 1
  BY <1>1, SizeTypes
<1>3. \A j \in E : s_us[j] \in Nat /\ s_us[j] <= L
  BY SizeTypes
<1>4. WorkOf(E, s_us) <= Cardinality(E) * L
  BY <1>1, <1>2, <1>3, WorkLimit
<1>5. Cardinality(E) * L <= (K - 1) * L
  BY <1>1, <1>2, ScaleWeakly
<1>6. (K - 1) * L \in Nat /\ Cardinality(E) * L \in Nat
  BY <1>1, <1>2, NaturalProduct
<1> QED BY <1>1, <1>4, <1>5, <1>6

\* Of two schedules of the same jobs, p has at most (K - 1) L more work left than f, and
\* the capacity that p has lost: with no job waiting and a server idle, what p has left
\* is in hand, and otherwise it works or loses K units in the instant.
LEMMA WorkLeftCompared ==
  ASSUME InputOK, NEW p, OnServers(p), NEW f, OnServers(f), NEW i \in Rank,
         NEW u \in Nat, u <= a_us[i]
  PROVE  Cardinality(Left(p, Ahead(i), u))
           <= Cardinality(Left(f, Ahead(i), u)) + (K - 1) * L + Cardinality(Unused(p, u))
<1> DEFINE S == Ahead(i)
           LP(x) == Cardinality(Left(p, S, x))
           LF(x) == Cardinality(Left(f, S, x))
           Lost(x) == Cardinality(Unused(p, x))
           limit == (K - 1) * L
           T == {x \in 0 .. a_us[i] : ~(LP(x) <= LF(x) + limit + Lost(x))}
<1>1. /\ S \in SUBSET Rank /\ p \in [Rank -> Int] /\ f \in [Rank -> Int] /\ a_us[i] \in Nat
      /\ Rank \subseteq Nat /\ K \in Nat /\ limit \in Nat /\ i \in Nat
      /\ 0 \in Int /\ Nat \subseteq Int /\ \A j : j \in S <=> j \in Rank /\ j < i
  <2>1. K - 1 \in Nat /\ L \in Nat
    BY SizeTypes
  <2>2. limit \in Nat
    BY <2>1, NaturalProduct
  <2> QED BY <2>2, SizeTypes DEF Ahead, OnServers
<1>2. ASSUME NEW x \in Nat PROVE LP(x) \in Nat /\ LF(x) \in Nat /\ Lost(x) \in Nat
  <2>1. x \in Int
    OBVIOUS
  <2> HIDE DEF S
  <2> QED BY <1>1, <2>1, LeftTypes, UnusedStep
<1>3. ASSUME T # {} PROVE FALSE
  <2>1. T \in SUBSET Nat
    BY <1>1
  <2> HIDE DEF LP, LF, Lost, limit, S
  <2>2. PICK x \in T : \A y \in T : x <= y
    BY <1>3, <2>1, NatMin
  <2>3. x \in 0 .. a_us[i] /\ x \in Nat /\ ~(LP(x) <= LF(x) + limit + Lost(x))
    BY <1>1
  <2>4. x # 0
    <3>1. ASSUME NEW st, OnServers(st) PROVE Left(st, S, 0) = Units(S, s_us)
      <4>1. st \in [Rank -> Int] /\ \A j \in S : st[j] \in Int /\ st[j] >= 0
        <5>1. \A j \in S : st[j] \in Int /\ a_us[j] \in Nat /\ a_us[j] <= st[j]
          BY <1>1, <3>1, SizeTypes DEF OnServers
        <5> QED BY <3>1, <5>1 DEF OnServers
      <4>2. ASSUME NEW y \in Units(S, s_us) PROVE y \in Left(st, S, 0)
        <5>1. PICK j \in S : \E k \in 1 .. s_us[j] : y = <<j, k>>
          BY UnitsOf
        <5>2. PICK k \in 1 .. s_us[j] : y = <<j, k>>
          BY <5>1
        <5>3. st[j] + k > 0
          BY <4>1
        <5> QED BY <1>1, <4>1, <5>2, <5>3, LeftTypes
      <4> QED BY <1>1, <4>1, <4>2, LeftTypes
    <3>2. LP(0) = LF(0)
      BY <3>1 DEF LP, LF
    <3> QED BY <1>1, <1>2, <2>3, <3>2
  <2> DEFINE v == x - 1
  <2>5. v \in Nat /\ v < a_us[i] /\ v + 1 = x /\ v \in 0 .. a_us[i] /\ ~(x <= v)
    BY <1>1, <2>3, <2>4
  <2>6. LP(v) <= LF(v) + limit + Lost(v)
    BY <2>2, <2>5
  <2>7. \A st : OnServers(st) => Executing(st, Rank, v) = Executing(st, S, v)
    <3> SUFFICES ASSUME NEW st, OnServers(st), NEW j \in Executing(st, Rank, v)
                 PROVE  j \in Executing(st, S, v)
      BY <1>1 DEF Executing
    <3>1. /\ j \in Rank /\ st[j] <= v /\ a_us[j] <= st[j] /\ st[j] \in Int /\ a_us[j] \in Nat
          /\ j \in Nat /\ v < st[j] + s_us[j]
      BY SizeTypes DEF Executing, OnServers
    <3>2. a_us[j] < a_us[i]
      BY <1>1, <2>5, <3>1
    <3>3. j < i
      BY <1>1, <3>1, <3>2 DEF InputOK
    <3> QED BY <1>1, <3>1, <3>3 DEF Executing
  <2> DEFINE EP == Executing(p, Rank, v)
             EF == Executing(f, Rank, v)
  <2>8. LP(v) = LP(x) + Cardinality(EP) /\ LF(v) = LF(x) + Cardinality(EF)
    BY <1>1, <2>5, <2>7, LeftStep DEF LP, LF
  <2>9. /\ Cardinality(EP) \in Nat /\ Cardinality(EF) \in Nat
        /\ Cardinality(EP) <= K /\ Cardinality(EF) <= K
    <3>1. EP \in SUBSET Rank /\ EF \in SUBSET Rank
      BY DEF Executing
    <3> QED BY <2>5, <3>1, SizeTypes DEF OnServers
  <2>10. CASE SomeWait(p, v) \/ Cardinality(EP) = K
    <3>1. Lost(x) = Lost(v) + K - Cardinality(EP)
      <4>1. /\ SomeWait(p, v) => Lost(x) = Lost(v) + K - Cardinality(EP)
            /\ ~SomeWait(p, v) => Lost(x) = Lost(v)
        BY <2>5, UnusedStep DEF Lost
      <4>2. Lost(v) \in Nat
        BY <1>2, <2>5
      <4> HIDE DEF EP, EF, v
      <4> QED BY <1>1, <2>10, <4>1, <4>2
    <3>2. /\ LP(v) \in Nat /\ LF(v) \in Nat /\ Lost(v) \in Nat
          /\ LP(x) \in Nat /\ LF(x) \in Nat /\ Lost(x) \in Nat
      BY <1>2, <2>3, <2>5
    <3> HIDE DEF EP, EF, v
    <3> QED BY <1>1, <2>3, <2>6, <2>8, <2>9, <3>1, <3>2
  <2>11. CASE ~SomeWait(p, v) /\ Cardinality(EP) # K
    <3>1. Left(p, S, x) \subseteq Left(f, S, x) \cup Units(EP, s_us)
      <4> SUFFICES ASSUME NEW y \in Left(p, S, x)
                   PROVE  y \in Left(f, S, x) \cup Units(EP, s_us)
        OBVIOUS
      <4>1. PICK j \in S : \E k \in 1 .. s_us[j] : y = <<j, k>> /\ p[j] + k > x
        BY <1>1, <2>3, LeftTypes
      <4>2. PICK k \in 1 .. s_us[j] : y = <<j, k>> /\ p[j] + k > x
        BY <4>1
      <4>3. /\ j \in Rank /\ p[j] \in Int /\ f[j] \in Int /\ a_us[j] \in Nat /\ s_us[j] \in Nat
            /\ a_us[j] <= p[j] /\ a_us[j] <= f[j]
        <5>1. j \in Rank
          BY <1>1
        <5> QED BY <1>1, <5>1, SizeTypes DEF OnServers
      <4>4. CASE a_us[j] <= v
        <5>1. ~(v < p[j])
          BY <2>11, <4>3, <4>4 DEF SomeWait
        <5>2. p[j] <= v /\ v < p[j] + s_us[j]
          BY <2>5, <4>2, <4>3, <5>1
        <5>3. j \in EP
          BY <4>3, <5>2 DEF Executing
        <5> QED BY <4>2, <5>3, UnitsOf
      <4>5. CASE ~(a_us[j] <= v)
        <5>1. f[j] + k > x
          BY <2>5, <4>3, <4>5
        <5> QED BY <1>1, <2>3, <4>2, <5>1, LeftTypes
      <4> QED BY <4>4, <4>5
    <3>2. EP \in SUBSET Rank /\ Cardinality(EP) < K
      BY <1>1, <2>9, <2>11 DEF Executing
    <3>3. WorkOf(EP, s_us) <= limit /\ WorkOf(EP, s_us) \in Nat
      BY <3>2, FewJobsLeft, SizeTypes DEF limit
    <3> DEFINE A == Left(f, S, x)
               B == Units(EP, s_us)
    <3>4. IsFiniteSet(A) /\ IsFiniteSet(B) /\ Cardinality(A) \in Nat /\ Cardinality(B) \in Nat
      <4>1. IsFiniteSet(B)
        BY <3>2, SizeTypes
      <4>2. IsFiniteSet(A)
        BY <1>1, <2>3, LeftTypes
      <4> QED BY <4>1, <4>2, FS_CardinalityType
    <3>5. IsFiniteSet(A \cup B) /\ Cardinality(A \cup B) <= Cardinality(A) + Cardinality(B)
      <4> HIDE DEF A, B
      <4>1. /\ IsFiniteSet(A \cup B)
            /\ Cardinality(A \cup B) = Cardinality(A) + Cardinality(B) - Cardinality(A \cap B)
        BY <3>4, FS_Union
      <4>2. A \cap B \in SUBSET A
        OBVIOUS
      <4>3. Cardinality(A \cap B) \in Nat
        BY <3>4, <4>2, FS_Subset, FS_CardinalityType
      <4> QED BY <3>4, <4>1, <4>3
    <3>6. LP(x) <= Cardinality(A \cup B) /\ Cardinality(A \cup B) \in Nat
      BY <3>1, <3>5, FS_Subset, FS_CardinalityType DEF LP
    <3>7. Cardinality(A) = LF(x) /\ Cardinality(B) = WorkOf(EP, s_us)
      BY DEF LF, WorkOf
    <3> HIDE DEF A, B, EP
    <3> QED BY <1>1, <1>2, <2>3, <3>3, <3>4, <3>5, <3>6, <3>7
  <2> QED BY <2>10, <2>11
<1>4. u \in 0 .. a_us[i]
  BY <1>1
<1> QED BY <1>3, <1>4

\* The work left of two groups of jobs, and of jobs that have not started.
LEMMA LeftSplit ==
  ASSUME InputOK, NEW st \in [Rank -> Int], NEW S \in SUBSET Rank, NEW T \in SUBSET Rank,
         S \cap T = {}, NEW u \in Int
  PROVE  Cardinality(Left(st, S \cup T, u))
           = Cardinality(Left(st, S, u)) + Cardinality(Left(st, T, u))
<1> DEFINE A == Left(st, S, u)
           B == Left(st, T, u)
<1>1. Left(st, S \cup T, u) = A \cup B
  BY UnitsOfUnion DEF Left
<1>2. A \cap B = {}
  BY UnitsDisjoint DEF Left
<1>3. IsFiniteSet(A) /\ IsFiniteSet(B) /\ Cardinality(A) \in Nat /\ Cardinality(B) \in Nat
  BY LeftTypes
<1> HIDE DEF A, B
<1>4. Cardinality(A \cap B) = 0
  BY <1>2, FS_EmptySet
<1>5. Cardinality(A \cup B) = Cardinality(A) + Cardinality(B) - Cardinality(A \cap B)
  BY <1>3, FS_Union
<1>6. Cardinality(A \cup B) = Cardinality(A) + Cardinality(B)
  BY <1>3, <1>4, <1>5
<1> QED BY <1>1, <1>6 DEF A, B

LEMMA LeftOfLater ==
  ASSUME InputOK, NEW st \in [Rank -> Int], NEW S \in SUBSET Rank, NEW u \in Int,
         \A j \in S : u <= st[j]
  PROVE  Cardinality(Left(st, S, u)) = WorkOf(S, s_us)
<1>1. ASSUME NEW y \in Units(S, s_us) PROVE y \in Left(st, S, u)
  <2>1. PICK j \in S : \E k \in 1 .. s_us[j] : y = <<j, k>>
    BY UnitsOf
  <2>2. PICK k \in 1 .. s_us[j] : y = <<j, k>>
    BY <2>1
  <2>3. st[j] \in Int /\ k \in Int /\ k > 0
    OBVIOUS
  <2>4. st[j] + k > u
    BY <2>3
  <2> QED BY <2>2, <2>4, LeftTypes
<1>2. Left(st, S, u) = Units(S, s_us)
  BY <1>1, LeftTypes
<1> QED BY <1>2 DEF WorkOf

\* All servers work while job i waits.  So K times its wait is the work that the jobs
\* before it in the queue have left at its arrival, with the work of the jobs that pass
\* it and without that of the jobs it passes, but for what is still running when it starts.
LEMMA WaitAccount ==
  ASSUME InputOK, NEW st, NeverIdle(st), NEW i \in Rank, NEW B \in SUBSET Rank, i \notin B,
         \A j \in B : st[j] <= st[i], \A j \in Rank \ B : st[i] <= st[j]
  PROVE  \E R \in 0 .. (K - 1) * L :
           K * (st[i] - a_us[i]) + R + WorkOf({j \in Rank \ B : j < i}, s_us)
             = Cardinality(Left(st, Ahead(i), a_us[i])) + WorkOf({j \in B : j > i}, s_us)
<1> DEFINE n     == st[i] - a_us[i]
           R     == Cardinality(Left(st, B, st[i]))
           older == {j \in B : j < i}
           newer == {j \in B : j > i}
           kept  == {j \in Rank \ B : j < i}
<1>1. /\ st \in [Rank -> Int] /\ st[i] \in Int /\ a_us[i] \in Nat /\ a_us[i] \in Int
      /\ a_us[i] <= st[i] /\ n \in Nat /\ K \in Nat /\ K > 0
      /\ \A j \in Rank : a_us[j] \in Nat /\ st[j] \in Int /\ a_us[j] <= st[j]
  BY SizeTypes DEF NeverIdle, OnServers
<1>2. K * n + R = Cardinality(Left(st, B, a_us[i]))
  <2>1. ASSUME NEW d \in 0 .. n - 1
        PROVE  /\ SomeWait(st, a_us[i] + d)
               /\ Executing(st, Rank, a_us[i] + d) = Executing(st, B, a_us[i] + d)
    <3> DEFINE u == a_us[i] + d
    <3>1. u \in Nat /\ a_us[i] <= u /\ u < st[i]
      BY <1>1
    <3>2. \A j \in Rank : st[j] <= u => j \in B
      BY <1>1, <3>1
    <3>3. Executing(st, Rank, u) = Executing(st, B, u)
      BY <3>2 DEF Executing
    <3> QED BY <3>1, <3>3 DEF SomeWait
  <2>2. Cardinality(Left(st, B, a_us[i])) = Cardinality(Left(st, B, a_us[i] + n)) + K * n
    <3> HIDE DEF n
    <3>1. /\ OnServers(st) /\ a_us[i] + n \in Nat /\ a_us[i] + n \in Int
          /\ Cardinality(Unused(st, a_us[i])) = 0 /\ Cardinality(Unused(st, a_us[i] + n)) = 0
      <4>1. a_us[i] + n \in Nat
        BY <1>1
      <4> QED BY <1>1, <4>1, NoneUnused DEF NeverIdle
    <3>2. Cardinality(Left(st, B, a_us[i])) + Cardinality(Unused(st, a_us[i] + n))
            = Cardinality(Left(st, B, a_us[i] + n)) + Cardinality(Unused(st, a_us[i])) + K * n
      BY <1>1, <2>1, <3>1, BusySpan
    <3>3. /\ Cardinality(Left(st, B, a_us[i])) \in Nat
          /\ Cardinality(Left(st, B, a_us[i] + n)) \in Nat
      BY <1>1, <3>1, LeftTypes
    <3>4. K * n \in Nat
      BY <1>1, NaturalProduct
    <3> QED BY <3>1, <3>2, <3>3, <3>4
  <2>3. a_us[i] + n = st[i]
    BY <1>1
  <2>4. R \in Nat /\ K * n \in Nat
    <3>1. R \in Nat
      BY <1>1, LeftTypes
    <3> HIDE DEF n
    <3> QED BY <1>1, <3>1, NaturalProduct
  <2> HIDE DEF n
  <2> QED BY <2>2, <2>3, <2>4
<1>3. R \in 0 .. (K - 1) * L
  <2> DEFINE E == Executing(st, B, st[i])
             G == Executing(st, Rank, st[i])
  <2>1. E \in SUBSET Rank /\ G \in SUBSET Rank /\ E \in SUBSET (G \ {i}) /\ i \in G
    <3>1. st[i] < st[i] + s_us[i]
      BY <1>1, SizeTypes
    <3> QED BY <1>1, <3>1 DEF Executing
  <2>2. Cardinality(E) < K
    <3>1. Cardinality(G) <= K /\ IsFiniteSet(G) /\ Cardinality(G) \in Nat
      <4>1. st[i] \in Nat
        BY <1>1
      <4> QED BY <2>1, <4>1, SizeTypes DEF NeverIdle, OnServers
    <3>2. IsFiniteSet(G \ {i}) /\ Cardinality(G \ {i}) = Cardinality(G) - 1
      BY <2>1, <3>1, FS_RemoveElement
    <3>3. Cardinality(E) <= Cardinality(G \ {i}) /\ Cardinality(E) \in Nat
      BY <2>1, <3>2, SizeTypes, FS_Subset
    <3> QED BY <1>1, <3>1, <3>2, <3>3
  <2>3. Left(st, B, st[i]) \in SUBSET Units(E, s_us)
    <3> SUFFICES ASSUME NEW y \in Left(st, B, st[i]) PROVE y \in Units(E, s_us)
      OBVIOUS
    <3>1. PICK j \in B : \E k \in 1 .. s_us[j] : y = <<j, k>> /\ st[j] + k > st[i]
      BY <1>1, LeftTypes
    <3>2. PICK k \in 1 .. s_us[j] : y = <<j, k>> /\ st[j] + k > st[i]
      BY <3>1
    <3>3. st[j] <= st[i] /\ st[i] < st[j] + s_us[j]
      <4>1. j \in Rank /\ s_us[j] \in Nat
        BY SizeTypes
      <4> QED BY <1>1, <3>2, <4>1
    <3> QED BY <3>2, <3>3, UnitsOf DEF Executing
  <2>4. R <= WorkOf(E, s_us)
    BY <2>1, <2>3, SizeTypes, FS_Subset DEF WorkOf
  <2>5. WorkOf(E, s_us) <= (K - 1) * L /\ (K - 1) * L \in Nat /\ WorkOf(E, s_us) \in Nat
    BY <2>1, <2>2, FewJobsLeft, SizeTypes
  <2>6. R \in Nat
    BY <1>1, LeftTypes
  <2> HIDE DEF R, E
  <2> QED BY <2>4, <2>5, <2>6
<1>4. /\ older \in SUBSET Rank /\ newer \in SUBSET Rank /\ kept \in SUBSET Rank
      /\ B = older \cup newer /\ older \cap newer = {}
      /\ Ahead(i) = older \cup kept /\ older \cap kept = {}
  <2>1. \A j \in Rank : j \in Nat
    BY SizeTypes
  <2>2. \A j \in B : j < i \/ j > i
    BY <2>1
  <2> QED BY <2>1, <2>2 DEF Ahead
<1>5. Cardinality(Left(st, B, a_us[i])) = Cardinality(Left(st, older, a_us[i])) + WorkOf(newer, s_us)
  <2>1. \A j \in newer : a_us[i] <= st[j]
    <3> TAKE j \in newer
    <3>1. j \in Rank /\ i <= j /\ a_us[i] <= a_us[j]
      BY SizeTypes DEF InputOK
    <3> QED BY <1>1, <3>1
  <2> HIDE DEF older, newer
  <2> QED BY <1>1, <1>4, <2>1, LeftSplit, LeftOfLater
<1>6. Cardinality(Left(st, Ahead(i), a_us[i])) = Cardinality(Left(st, older, a_us[i])) + WorkOf(kept, s_us)
  <2>1. \A j \in kept : a_us[i] <= st[j]
    <3> TAKE j \in kept
    <3>1. j \in Rank /\ st[i] <= st[j]
      OBVIOUS
    <3> QED BY <1>1, <3>1
  <2> HIDE DEF older, kept
  <2> QED BY <1>1, <1>4, <2>1, LeftSplit, LeftOfLater
<1>7. /\ R \in Nat /\ K * n \in Nat /\ WorkOf(kept, s_us) \in Nat /\ WorkOf(newer, s_us) \in Nat
      /\ Cardinality(Left(st, older, a_us[i])) \in Nat
  <2>1. R \in Nat
    BY <1>1, LeftTypes
  <2> HIDE DEF n, kept, newer, older, R
  <2>2. Cardinality(Left(st, older, a_us[i])) \in Nat
    BY <1>1, <1>4, LeftTypes
  <2>3. WorkOf(kept, s_us) \in Nat /\ WorkOf(newer, s_us) \in Nat
    BY <1>4, SizeTypes
  <2> QED BY <1>1, <2>1, <2>2, <2>3, NaturalProduct
<1>8. K * n + R + WorkOf(kept, s_us) = Cardinality(Left(st, Ahead(i), a_us[i])) + WorkOf(newer, s_us)
  <2> HIDE DEF n, R, kept, newer, older
  <2> QED BY <1>2, <1>5, <1>6, <1>7
<1> QED BY <1>3, <1>8

\* Two schedules that never leave a server idle and start jobs in the order of their
\* ranks are one.
LEMMA InOrderIsUnique ==
  ASSUME InputOK, NEW p, NeverIdle(p), NEW f, NeverIdle(f),
         \A i, j \in Rank : i <= j => p[i] <= p[j] /\ f[i] <= f[j]
  PROVE  p = f
<1>1. /\ p \in [Rank -> Int] /\ f \in [Rank -> Int] /\ Rank \subseteq Nat /\ K \in Nat
      /\ \A j \in Rank : /\ p[j] \in Int /\ f[j] \in Int /\ a_us[j] \in Nat
                         /\ a_us[j] <= p[j] /\ a_us[j] <= f[j]
  BY SizeTypes DEF NeverIdle, OnServers
<1>2. ASSUME NEW x, NeverIdle(x), NEW y, NeverIdle(y), NEW i \in Rank, x[i] < y[i],
             \A j \in Rank : j < i => x[j] = y[j],
             \A j \in Rank : i <= j => y[i] <= y[j]
      PROVE  FALSE
  <2>1. /\ x[i] \in Nat /\ a_us[i] <= x[i] /\ y[i] \in Int
        /\ \A j \in Rank : x[j] \in Int /\ y[j] \in Int
    BY <1>1, <1>2 DEF NeverIdle, OnServers
  <2> DEFINE EX == Executing(x, Rank, x[i])
             EY == Executing(y, Rank, x[i])
  <2>2. Cardinality(EY) = K /\ Cardinality(EX) <= K
    <3>1. SomeWait(y, x[i])
      BY <1>2, <2>1 DEF SomeWait
    <3> QED BY <1>2, <2>1, <3>1 DEF NeverIdle, OnServers
  <2>3. EX \in SUBSET Rank /\ EY \in SUBSET Rank /\ i \in EX
    <3>1. x[i] < x[i] + s_us[i]
      BY <2>1, SizeTypes
    <3> QED BY <2>1, <3>1 DEF Executing
  <2>4. EY \in SUBSET (EX \ {i})
    <3> SUFFICES ASSUME NEW j \in EY PROVE j \in EX \ {i}
      OBVIOUS
    <3>1. j \in Rank /\ y[j] <= x[i] /\ x[i] < y[j] + s_us[j] /\ y[j] \in Int /\ j \in Nat
          /\ i \in Nat
      BY <1>1, <2>1 DEF Executing
    <3>2. j < i
      BY <1>2, <2>1, <3>1
    <3>3. x[j] = y[j] /\ j # i
      BY <1>2, <3>1, <3>2
    <3> QED BY <3>1, <3>3 DEF Executing
  <2> HIDE DEF EX, EY
  <2>5. IsFiniteSet(EX) /\ Cardinality(EX) \in Nat
    BY <2>3, SizeTypes
  <2>6. IsFiniteSet(EX \ {i}) /\ Cardinality(EX \ {i}) = Cardinality(EX) - 1
    BY <2>3, <2>5, FS_RemoveElement
  <2>7. Cardinality(EY) <= Cardinality(EX \ {i})
    BY <2>4, <2>6, FS_Subset
  <2> QED BY <1>1, <2>2, <2>5, <2>6, <2>7
<1>3. \A i \in Rank : p[i] = f[i]
  <2> DEFINE T == {j \in Rank : p[j] # f[j]}
  <2>1. SUFFICES ASSUME T # {} PROVE FALSE
    OBVIOUS
  <2>2. T \in SUBSET Nat
    BY <1>1
  <2>3. PICK i \in T : \A j \in T : i <= j
    BY <2>1, <2>2, NatMin
  <2>4. i \in Rank /\ p[i] # f[i] /\ \A j \in Rank : j < i => p[j] = f[j]
    <3> SUFFICES ASSUME NEW j \in Rank, j < i, p[j] # f[j] PROVE FALSE
      OBVIOUS
    <3>1. i <= j /\ i \in Nat /\ j \in Nat
      BY <1>1, <2>3
    <3> QED BY <3>1
  <2>5. CASE p[i] < f[i]
    BY <1>2, <2>4, <2>5
  <2>6. CASE f[i] < p[i]
    BY <1>2, <2>4, <2>6
  <2> QED BY <1>1, <2>4, <2>5, <2>6
<1>4. p = [i \in Rank |-> p[i]] /\ f = [i \in Rank |-> f[i]]
  BY <1>1
<1> QED BY <1>3, <1>4

---------------------------------------------------------------------------
(* The recursions of reference.py.                                         *)

LEMMA FirstFreeIsLeast ==
  ASSUME InputOK, NEW free \in [Servers -> Nat]
  PROVE  FirstFree(free) \in Servers /\ \A u \in Servers : free[FirstFree(free)] <= free[u]
<1>1. K \in Nat /\ K > 0
  BY DEF InputOK
<1>2. IsFiniteSet(Servers) /\ Servers # {} /\ Servers \subseteq Int
  <2>1. IsFiniteSet(1 .. K)
    BY <1>1, FS_Interval
  <2>2. 1 \in 1 .. K
    BY <1>1
  <2> QED BY <2>1, <2>2 DEF Servers
<1>3. \A u \in Servers : free[u] \in Int
  OBVIOUS
<1>4. PICK v \in Servers : \A u \in Servers :
             free[v] < free[u] \/ (free[v] = free[u] /\ v <= u)
  BY <1>2, <1>3, BestExists
<1>5. \A u \in Servers : free[v] <= free[u]
  BY <1>3, <1>4
<1> QED BY <1>5 DEF FirstFree

\* The recursion of FreeAt over the first n jobs.
FreeAfter(j, free) ==
  LET v == FirstFree(free)
  IN  [free EXCEPT ![v] = Larger(a_us[j], free[v]) + s_us[j]]
IsFreeAt(g, n) ==
  g = [i \in 0 .. n |-> IF i = 0 THEN [v \in Servers |-> 0] ELSE FreeAfter(i - 1, g[i - 1])]

LEMMA FreeAtExists ==
  ASSUME NEW n \in Nat
  PROVE  \E g : IsFreeAt(g, n)
<1> DEFINE T == {m \in Nat : ~ \E g : IsFreeAt(g, m)}
<1>1. SUFFICES ASSUME T # {} PROVE FALSE
  OBVIOUS
<1>2. PICK m \in T : \A k \in T : m <= k
  BY <1>1, NatMin
<1>3. m \in Nat /\ ~ \E g : IsFreeAt(g, m)
  OBVIOUS
<1>4. m # 0
  <2> SUFFICES ASSUME m = 0 PROVE FALSE
    OBVIOUS
  <2> DEFINE g == [i \in 0 .. 0 |-> [v \in Servers |-> 0]]
  <2>1. g = [i \in 0 .. 0 |-> IF i = 0 THEN [v \in Servers |-> 0] ELSE FreeAfter(i - 1, g[i - 1])]
    OBVIOUS
  <2> HIDE DEF g
  <2> QED BY <1>3, <2>1 DEF IsFreeAt
<1>5. m - 1 \in Nat /\ m - 1 \notin T
  BY <1>2, <1>3, <1>4
<1>6. PICK g : IsFreeAt(g, m - 1)
  BY <1>5
<1> DEFINE h == [i \in 0 .. m |-> IF i = m THEN FreeAfter(m - 1, g[m - 1]) ELSE g[i]]
           Rule0(i) == IF i = 0 THEN [v \in Servers |-> 0] ELSE FreeAfter(i - 1, h[i - 1])
<1>7. \A i \in 0 .. m - 1 :
        g[i] = IF i = 0 THEN [v \in Servers |-> 0] ELSE FreeAfter(i - 1, g[i - 1])
  BY <1>6 DEF IsFreeAt
<1>8. ASSUME NEW i \in 0 .. m PROVE h[i] = Rule0(i)
  <2>1. i # 0 => h[i - 1] = g[i - 1] /\ i - 1 \in 0 .. m - 1
    BY <1>3
  <2>2. CASE i = m
    BY <1>3, <1>4, <2>1, <2>2
  <2>3. CASE i # m
    <3>1. i \in 0 .. m - 1 /\ h[i] = g[i]
      BY <1>3, <2>3
    <3> HIDE DEF h
    <3> QED BY <1>7, <2>1, <3>1
  <2> QED BY <2>2, <2>3
<1>9. h = [i \in 0 .. m |-> Rule0(i)]
  <2> HIDE DEF Rule0
  <2>1. h = [i \in 0 .. m |-> h[i]]
    OBVIOUS
  <2> HIDE DEF h
  <2> QED BY <1>8, <2>1
<1>10. IsFreeAt(h, m)
  <2> HIDE DEF h
  <2> QED BY <1>9 DEF IsFreeAt
<1> QED BY <1>3, <1>10

LEMMA FreeAtRecursion ==
  ASSUME InputOK
  PROVE  /\ FreeAt[0] = [v \in Servers |-> 0]
         /\ \A i \in Rank : FreeAt[i + 1] = FreeAfter(i, FreeAt[i])
<1>1. N \in Nat
  BY DEF InputOK
<1>2. FreeAt = CHOOSE g : IsFreeAt(g, N)
  BY DEF FreeAt, IsFreeAt, FreeAfter
<1>3. IsFreeAt(FreeAt, N)
  BY <1>1, <1>2, FreeAtExists
<1>4. \A i \in 0 .. N :
        FreeAt[i] = IF i = 0 THEN [v \in Servers |-> 0] ELSE FreeAfter(i - 1, FreeAt[i - 1])
  <2> DEFINE g == FreeAt
  <2>1. IsFreeAt(g, N)
    BY <1>3
  <2> HIDE DEF g
  <2>2. \A i \in 0 .. N :
          g[i] = IF i = 0 THEN [v \in Servers |-> 0] ELSE FreeAfter(i - 1, g[i - 1])
    BY <2>1 DEF IsFreeAt
  <2> QED BY <2>2 DEF g
<1>5. FreeAt[0] = [v \in Servers |-> 0]
  BY <1>1, <1>4
<1>6. ASSUME NEW i \in Rank PROVE FreeAt[i + 1] = FreeAfter(i, FreeAt[i])
  <2> DEFINE m == i + 1
  <2>1. m \in 0 .. N /\ m # 0 /\ m - 1 = i
    BY <1>1 DEF Rank
  <2> HIDE DEF m
  <2>2. FreeAt[m] = FreeAfter(m - 1, FreeAt[m - 1])
    BY <1>4, <2>1
  <2> QED BY <2>1, <2>2 DEF m
<1> QED BY <1>5, <1>6

First(i) == FirstFree(FreeAt[i])

LEMMA FreeAtTypes ==
  ASSUME InputOK, NEW i \in 0 .. N
  PROVE  FreeAt[i] \in [Servers -> Nat]
<1> DEFINE T == {m \in 0 .. N : FreeAt[m] \notin [Servers -> Nat]}
<1>1. SUFFICES ASSUME T # {} PROVE FALSE
  OBVIOUS
<1>2. PICK m \in T : \A k \in T : m <= k
  <2>1. T \in SUBSET Nat
    OBVIOUS
  <2> QED BY <1>1, <2>1, NatMin
<1>3. m \in 0 .. N /\ FreeAt[m] \notin [Servers -> Nat]
  OBVIOUS
<1>4. m # 0
  BY <1>3, FreeAtRecursion
<1> DEFINE j == m - 1
<1>5. j \in Rank /\ j \in 0 .. N /\ ~(m <= j) /\ j + 1 = m
  BY <1>3, <1>4, SizeTypes DEF Rank
<1>6. FreeAt[j] \in [Servers -> Nat]
  BY <1>2, <1>5
<1>7. FreeAt[m] = FreeAfter(j, FreeAt[j])
  BY <1>5, FreeAtRecursion
<1>8. a_us[j] \in Nat /\ s_us[j] \in Nat
  BY <1>5, SizeTypes
<1> HIDE DEF j
<1>9. FreeAfter(j, FreeAt[j]) \in [Servers -> Nat]
  <2>1. FirstFree(FreeAt[j]) \in Servers
    BY <1>6, FirstFreeIsLeast
  <2>2. Larger(a_us[j], FreeAt[j][FirstFree(FreeAt[j])]) + s_us[j] \in Nat
    BY <1>6, <1>8, <2>1 DEF Larger
  <2>3. FreeAfter(j, FreeAt[j])
          = [FreeAt[j] EXCEPT ![FirstFree(FreeAt[j])]
               = Larger(a_us[j], FreeAt[j][FirstFree(FreeAt[j])]) + s_us[j]]
    BY DEF FreeAfter
  <2> QED BY <1>6, <2>1, <2>2, <2>3
<1> QED BY <1>3, <1>7, <1>9

LEMMA FreeAtStep ==
  ASSUME InputOK, NEW i \in Rank
  PROVE  /\ FreeAt[i] \in [Servers -> Nat] /\ FreeAt[i + 1] \in [Servers -> Nat]
         /\ First(i) \in Servers /\ \A v \in Servers : FreeAt[i][First(i)] <= FreeAt[i][v]
         /\ Start(i) \in Nat /\ a_us[i] <= Start(i)
         /\ FreeAt[i][First(i)] <= Start(i)
         /\ Start(i) = a_us[i] \/ Start(i) = FreeAt[i][First(i)]
         /\ FreeAt[i + 1][First(i)] = Start(i) + s_us[i]
         /\ \A v \in Servers \ {First(i)} : FreeAt[i + 1][v] = FreeAt[i][v]
<1>1. i \in 0 .. N /\ i + 1 \in 0 .. N
  BY SizeTypes DEF Rank
<1>2. FreeAt[i] \in [Servers -> Nat] /\ FreeAt[i + 1] \in [Servers -> Nat]
  BY <1>1, FreeAtTypes
<1>3. First(i) \in Servers /\ \A v \in Servers : FreeAt[i][First(i)] <= FreeAt[i][v]
  BY <1>2, FirstFreeIsLeast DEF First
<1>4. a_us[i] \in Nat /\ s_us[i] \in Nat /\ FreeAt[i][First(i)] \in Nat
  BY <1>2, <1>3, SizeTypes
<1>5. Start(i) = Larger(a_us[i], FreeAt[i][First(i)])
  BY DEF Start, First
<1>6. FreeAt[i + 1] = [FreeAt[i] EXCEPT ![First(i)] = Start(i) + s_us[i]]
  BY <1>5, FreeAtRecursion DEF FreeAfter, First
<1> QED BY <1>2, <1>3, <1>4, <1>5, <1>6 DEF Larger

LEMMA FreeAtGrows ==
  ASSUME InputOK, NEW i \in 0 .. N, NEW j \in 0 .. N, i <= j, NEW v \in Servers
  PROVE  FreeAt[i][v] <= FreeAt[j][v]
<1> DEFINE T == {m \in 0 .. N : i <= m /\ ~(FreeAt[i][v] <= FreeAt[m][v])}
<1>1. SUFFICES ASSUME T # {} PROVE FALSE
  OBVIOUS
<1>2. PICK m \in T : \A k \in T : m <= k
  <2>1. T \in SUBSET Nat
    OBVIOUS
  <2> QED BY <1>1, <2>1, NatMin
<1>3. m \in 0 .. N /\ i <= m /\ ~(FreeAt[i][v] <= FreeAt[m][v])
  OBVIOUS
<1>4. FreeAt[i][v] \in Nat /\ FreeAt[m][v] \in Nat
  BY FreeAtTypes
<1> DEFINE k == m - 1
<1>5. k \in Rank /\ k \in 0 .. N /\ ~(m <= k) /\ k + 1 = m /\ i <= k
  BY <1>3, <1>4, SizeTypes DEF Rank
<1>6. FreeAt[i][v] <= FreeAt[k][v]
  BY <1>2, <1>5
<1> HIDE DEF k
<1>7. FreeAt[k][v] <= FreeAt[m][v]
  <2>1. FreeAt[k][v] \in Nat /\ s_us[k] \in Nat /\ Start(k) \in Nat
    BY <1>5, FreeAtStep, SizeTypes
  <2>2. CASE v = First(k)
    BY <1>5, <2>1, <2>2, FreeAtStep
  <2>3. CASE v # First(k)
    BY <1>5, <2>1, <2>3, FreeAtStep
  <2> QED BY <2>2, <2>3
<1>8. FreeAt[k][v] \in Nat
  BY <1>5, FreeAtTypes
<1> QED BY <1>3, <1>4, <1>6, <1>7, <1>8

\* A server that is not free before job i at some instant since the arrival before has
\* one of the earlier jobs in its hands then.
LEMMA ServersBusy ==
  ASSUME InputOK, NEW i \in 0 .. N, NEW v \in Servers, NEW u \in Nat, u < FreeAt[i][v],
         \A j \in Rank : j < i => a_us[j] <= u
  PROVE  \E j \in Rank : j < i /\ First(j) = v /\ Start(j) <= u /\ u < Start(j) + s_us[j]
<1> DEFINE Held(m) == \E j \in Rank : /\ j < m /\ First(j) = v
                                      /\ Start(j) <= u /\ u < Start(j) + s_us[j]
           T == {m \in 0 .. i : u < FreeAt[m][v] /\ ~Held(m)}
<1>1. SUFFICES ASSUME T # {} PROVE FALSE
  OBVIOUS
<1>2. PICK m \in T : \A k \in T : m <= k
  <2> HIDE DEF Held
  <2>1. T \in SUBSET Nat
    OBVIOUS
  <2> QED BY <1>1, <2>1, NatMin
<1> HIDE DEF Held
<1>3. m \in 0 .. i /\ u < FreeAt[m][v] /\ ~Held(m)
  OBVIOUS
<1>4. m # 0
  <2>1. FreeAt[0][v] = 0
    BY FreeAtRecursion
  <2> QED BY <1>3, <2>1
<1> DEFINE k == m - 1
<1>5. k \in Rank /\ k \in Nat /\ k < i /\ k \in 0 .. i /\ ~(m <= k) /\ k + 1 = m /\ k < m
  BY <1>3, <1>4, SizeTypes DEF Rank
<1>6. k \notin T
  BY <1>2, <1>5
<1> HIDE DEF k
<1>7. Held(k) => Held(m)
  <2> SUFFICES ASSUME Held(k) PROVE Held(m)
    OBVIOUS
  <2>1. PICK j \in Rank : /\ j < k /\ First(j) = v
                          /\ Start(j) <= u /\ u < Start(j) + s_us[j]
    BY DEF Held
  <2>2. j < m
    BY <1>5, <2>1, SizeTypes
  <2> QED BY <2>1, <2>2 DEF Held
<1>8. ~(u < FreeAt[k][v])
  BY <1>3, <1>5, <1>6, <1>7
<1>9. v = First(k)
  BY <1>3, <1>5, <1>8, FreeAtStep
<1>10. /\ Start(k) \in Nat /\ s_us[k] \in Nat /\ FreeAt[k][v] \in Nat
       /\ u < Start(k) + s_us[k] /\ a_us[k] <= u
       /\ Start(k) = a_us[k] \/ Start(k) = FreeAt[k][v]
  BY <1>3, <1>5, <1>9, FreeAtStep, SizeTypes
<1>11. Start(k) <= u
  BY <1>8, <1>10
<1> QED BY <1>3, <1>5, <1>9, <1>10, <1>11 DEF Held

Starts == [i \in Rank |-> Start(i)]

LEMMA FcfsInOrder ==
  ASSUME InputOK, NEW i \in Rank, NEW j \in Rank, i <= j
  PROVE  Starts[i] <= Starts[j]
<1>1. i \in 0 .. N /\ j \in 0 .. N
  BY SizeTypes DEF Rank
<1>2. a_us[i] \in Nat /\ a_us[j] \in Nat /\ a_us[i] <= a_us[j] /\ First(j) \in Servers
  BY SizeTypes, FreeAtStep DEF InputOK
<1>3. FreeAt[i][First(i)] <= FreeAt[i][First(j)] /\ FreeAt[i][First(j)] <= FreeAt[j][First(j)]
  BY <1>1, <1>2, FreeAtStep, FreeAtGrows
<1>4. /\ FreeAt[i][First(i)] \in Nat /\ FreeAt[i][First(j)] \in Nat /\ FreeAt[j][First(j)] \in Nat
  BY <1>2, FreeAtStep
<1>5. /\ Start(i) = a_us[i] \/ Start(i) = FreeAt[i][First(i)]
      /\ a_us[j] <= Start(j) /\ FreeAt[j][First(j)] <= Start(j)
      /\ Start(i) \in Nat /\ Start(j) \in Nat
  BY FreeAtStep
<1>6. Start(i) <= Start(j)
  BY <1>2, <1>3, <1>4, <1>5
<1> QED BY <1>6 DEF Starts

\* kiefer_wolfowitz is a schedule on K servers that never leaves one idle.
LEMMA FcfsNeverIdle == ASSUME InputOK PROVE NeverIdle(Starts)
<1>1. Starts \in [Rank -> Int] /\ \A j \in Rank : a_us[j] <= Starts[j] /\ Starts[j] = Start(j)
  BY FreeAtStep DEF Starts
<1> DEFINE E(u) == Executing(Starts, Rank, u)
           hand(u) == [j \in E(u) |-> First(j)]
<1>2. IsFiniteSet(Servers) /\ Cardinality(Servers) = K
  BY SizeTypes, FS_Interval DEF Servers
<1>3. ASSUME NEW u \in Nat PROVE hand(u) \in Injection(E(u), Servers)
  <2>1. ASSUME NEW i \in E(u), NEW j \in E(u), First(i) = First(j), i < j PROVE FALSE
    <3>1. /\ i \in Rank /\ j \in Rank /\ u < Start(i) + s_us[i] /\ Start(j) <= u
      BY <1>1 DEF Executing
    <3>2. i + 1 \in 0 .. N /\ j \in 0 .. N /\ i + 1 <= j
      BY <2>1, <3>1, SizeTypes DEF Rank
    <3>3. FreeAt[i + 1][First(j)] = Start(i) + s_us[i] /\ First(j) \in Servers
      BY <2>1, <3>1, FreeAtStep
    <3>4. FreeAt[i + 1][First(j)] <= FreeAt[j][First(j)]
      BY <3>2, <3>3, FreeAtGrows
    <3>5. FreeAt[j][First(j)] <= Start(j) /\ FreeAt[j][First(j)] \in Nat
      BY <3>1, <3>3, FreeAtStep
    <3>6. Start(i) \in Nat /\ Start(j) \in Nat /\ s_us[i] \in Nat
      BY <3>1, FreeAtStep, SizeTypes
    <3> QED BY <3>1, <3>3, <3>4, <3>5, <3>6
  <2>2. E(u) \in SUBSET Rank
    BY DEF Executing
  <2> HIDE DEF E
  <2>3. \A i, j \in E(u) : First(i) = First(j) => i = j
    <3> SUFFICES ASSUME NEW i \in E(u), NEW j \in E(u), First(i) = First(j), i # j PROVE FALSE
      OBVIOUS
    <3>1. i \in Nat /\ j \in Nat
      BY <2>2, SizeTypes
    <3>2. i < j \/ j < i
      BY <3>1
    <3> QED BY <2>1, <3>2
  <2>4. \A j \in E(u) : First(j) \in Servers
    BY <2>2, FreeAtStep
  <2>5. hand(u) \in [E(u) -> Servers]
    BY <2>4
  <2> QED BY <2>3, <2>5 DEF Injection, IsInjective
<1>4. ASSUME NEW u \in Nat PROVE Cardinality(E(u)) <= K
  <2> HIDE DEF hand, E
  <2> QED BY <1>2, <1>3, FS_Injection
<1>5. ASSUME NEW i \in Rank, NEW u \in Nat, a_us[i] <= u, u < Starts[i]
      PROVE  Cardinality(E(u)) = K
  <2>1. ASSUME NEW v \in Servers PROVE \E j \in E(u) : hand(u)[j] = v
    <3>1. u < FreeAt[i][v]
      <4>1. /\ FreeAt[i][First(i)] <= FreeAt[i][v] /\ FreeAt[i][v] \in Nat /\ Start(i) \in Nat
            /\ FreeAt[i][First(i)] \in Nat /\ a_us[i] \in Nat
            /\ Start(i) = a_us[i] \/ Start(i) = FreeAt[i][First(i)]
        BY FreeAtStep, SizeTypes
      <4>2. Starts[i] = Start(i) /\ a_us[i] <= u /\ u < Starts[i] /\ u \in Nat
        BY <1>1, <1>5
      <4> HIDE DEF E, hand
      <4> QED BY <4>1, <4>2
    <3>2. \A j \in Rank : j < i => a_us[j] <= u
      <4> TAKE j \in Rank
      <4>1. j < i => a_us[j] <= a_us[i]
        BY SizeTypes DEF InputOK
      <4> QED BY <1>5, <4>1, SizeTypes
    <3>3. i \in 0 .. N
      BY SizeTypes DEF Rank
    <3>4. PICK j \in Rank : First(j) = v /\ Start(j) <= u /\ u < Start(j) + s_us[j]
      BY <3>1, <3>2, <3>3, ServersBusy
    <3>5. j \in E(u)
      BY <1>1, <3>4 DEF Executing
    <3> QED BY <3>4, <3>5
  <2> HIDE DEF hand, E
  <2>2. hand(u) \in Surjection(E(u), Servers)
    <3>1. hand(u) \in [E(u) -> Servers]
      BY <1>3 DEF Injection
    <3> QED BY <2>1, <3>1 DEF Surjection
  <2> QED BY <1>2, <1>3, <2>2, FS_Injection
<1> QED BY <1>1, <1>4, <1>5 DEF NeverIdle, OnServers, SomeWait
---------------------------------------------------------------------------
(* The recursion of a single server.                                       *)

\* lindley over the jobs up to n.
LindleyAfter(i, wait) == Larger(0, wait + s_us[i - 1] - (a_us[i] - a_us[i - 1]))
IsLindley(g, n) == g = [i \in 0 .. n |-> IF i = 0 THEN 0 ELSE LindleyAfter(i, g[i - 1])]

LEMMA LindleyExists ==
  ASSUME NEW n \in Nat
  PROVE  \E g : IsLindley(g, n)
<1> DEFINE T == {m \in Nat : ~ \E g : IsLindley(g, m)}
<1>1. SUFFICES ASSUME T # {} PROVE FALSE
  OBVIOUS
<1>2. PICK m \in T : \A k \in T : m <= k
  BY <1>1, NatMin
<1>3. m \in Nat /\ ~ \E g : IsLindley(g, m)
  OBVIOUS
<1>4. m # 0
  <2> SUFFICES ASSUME m = 0 PROVE FALSE
    OBVIOUS
  <2> DEFINE g == [i \in 0 .. 0 |-> 0]
  <2>1. g = [i \in 0 .. 0 |-> IF i = 0 THEN 0 ELSE LindleyAfter(i, g[i - 1])]
    OBVIOUS
  <2> HIDE DEF g
  <2> QED BY <1>3, <2>1 DEF IsLindley
<1>5. m - 1 \in Nat /\ m - 1 \notin T
  BY <1>2, <1>3, <1>4
<1>6. PICK g : IsLindley(g, m - 1)
  BY <1>5
<1> DEFINE h == [i \in 0 .. m |-> IF i = m THEN LindleyAfter(m, g[m - 1]) ELSE g[i]]
           Rule0(i) == IF i = 0 THEN 0 ELSE LindleyAfter(i, h[i - 1])
<1>7. \A i \in 0 .. m - 1 : g[i] = IF i = 0 THEN 0 ELSE LindleyAfter(i, g[i - 1])
  BY <1>6 DEF IsLindley
<1>8. ASSUME NEW i \in 0 .. m PROVE h[i] = Rule0(i)
  <2>1. i # 0 => h[i - 1] = g[i - 1] /\ i - 1 \in 0 .. m - 1
    BY <1>3
  <2>2. CASE i = m
    BY <1>3, <1>4, <2>1, <2>2
  <2>3. CASE i # m
    <3>1. i \in 0 .. m - 1 /\ h[i] = g[i]
      BY <1>3, <2>3
    <3> HIDE DEF h
    <3> QED BY <1>7, <2>1, <3>1
  <2> QED BY <2>2, <2>3
<1>9. h = [i \in 0 .. m |-> Rule0(i)]
  <2> HIDE DEF Rule0
  <2>1. h = [i \in 0 .. m |-> h[i]]
    OBVIOUS
  <2> HIDE DEF h
  <2> QED BY <1>8, <2>1
<1>10. IsLindley(h, m)
  <2> HIDE DEF h
  <2> QED BY <1>9 DEF IsLindley
<1> QED BY <1>3, <1>10

LEMMA LindleyRecursion ==
  ASSUME InputOK
  PROVE  /\ Lindley[0] = 0
         /\ \A i \in Rank \ {0} : Lindley[i] = LindleyAfter(i, Lindley[i - 1])
<1>1. N \in Nat /\ N > 0 /\ N - 1 \in Nat
  BY DEF InputOK
<1>2. Lindley = CHOOSE g : IsLindley(g, N - 1)
  BY DEF Lindley, IsLindley, LindleyAfter, Rank
<1>3. IsLindley(Lindley, N - 1)
  BY <1>1, <1>2, LindleyExists
<1>4. \A i \in Rank : Lindley[i] = IF i = 0 THEN 0 ELSE LindleyAfter(i, Lindley[i - 1])
  <2> DEFINE g == Lindley
  <2>1. IsLindley(g, N - 1)
    BY <1>3
  <2> HIDE DEF g
  <2>2. \A i \in Rank : g[i] = IF i = 0 THEN 0 ELSE LindleyAfter(i, g[i - 1])
    BY <2>1 DEF IsLindley, Rank
  <2> QED BY <2>2 DEF g
<1>5. 0 \in Rank
  BY <1>1 DEF Rank
<1> QED BY <1>4, <1>5

\* On one server, both recursions give the same waits.
LEMMA LindleyIsFcfs ==
  ASSUME InputOK, K = 1, NEW i \in Rank
  PROVE  Wait(i) = Lindley[i]
<1> DEFINE T == {j \in Rank : Wait(j) # Lindley[j]}
<1>1. SUFFICES ASSUME T # {} PROVE FALSE
  OBVIOUS
<1>2. PICK m \in T : \A j \in T : m <= j
  <2>1. T \in SUBSET Nat
    BY SizeTypes
  <2> QED BY <1>1, <2>1, NatMin
<1>3. m \in Rank /\ m \in Nat /\ Wait(m) # Lindley[m]
  BY SizeTypes
<1>4. Servers = {1}
  BY DEF Servers
<1>5. First(m) = 1 /\ Start(m) = Larger(a_us[m], FreeAt[m][1]) /\ a_us[m] \in Nat
  <2>1. First(m) \in Servers
    BY <1>3, FreeAtStep
  <2>2. First(m) = 1
    BY <1>4, <2>1
  <2> QED BY <1>3, <2>2, SizeTypes DEF Start, First
<1>6. CASE m = 0
  <2>1. FreeAt[0][1] = 0
    BY <1>4, FreeAtRecursion
  <2>2. Wait(m) = 0
    BY <1>5, <1>6, <2>1 DEF Wait, Larger
  <2> QED BY <1>3, <1>6, <2>2, LindleyRecursion
<1>7. CASE m # 0
  <2> DEFINE p == m - 1
  <2>1. p \in Rank /\ p + 1 = m /\ ~(m <= p)
    BY <1>3, <1>7, SizeTypes DEF Rank
  <2>2. Wait(p) = Lindley[p]
    BY <1>2, <2>1
  <2>3. Lindley[m] = Larger(0, Lindley[p] + s_us[p] - (a_us[m] - a_us[p]))
    BY <1>3, <1>7, LindleyRecursion DEF LindleyAfter
  <2> HIDE DEF p
  <2>4. First(p) = 1
    <3>1. First(p) \in Servers
      BY <2>1, FreeAtStep
    <3> QED BY <1>4, <3>1
  <2>5. FreeAt[m][1] = Start(p) + s_us[p]
    BY <2>1, <2>4, FreeAtStep
  <2>6. Start(p) \in Nat /\ s_us[p] \in Nat /\ a_us[p] \in Nat
    BY <2>1, FreeAtStep, SizeTypes
  <2>7. Wait(p) = Start(p) - a_us[p]
        /\ Wait(m) = Larger(a_us[m], Start(p) + s_us[p]) - a_us[m]
    BY <1>5, <2>5 DEF Wait
  <2> QED BY <1>3, <1>5, <2>2, <2>3, <2>6, <2>7 DEF Larger
<1> QED BY <1>6, <1>7

---------------------------------------------------------------------------
(* Schedules against first come first served.                              *)

\* Under first come first served, K times the wait of a job is the work that the jobs
\* before it have left at its arrival, but for what is still running when it starts.
LEMMA FcfsAccount ==
  ASSUME InputOK, NEW i \in Rank
  PROVE  /\ Start(i) \in Nat /\ a_us[i] <= Start(i) /\ (K - 1) * L \in Nat
         /\ Cardinality(Left(Starts, Ahead(i), a_us[i])) \in Nat
         /\ \E r \in 0 .. (K - 1) * L :
              K * (Start(i) - a_us[i]) + r = Cardinality(Left(Starts, Ahead(i), a_us[i]))
<1> DEFINE first == Cardinality(Left(Starts, Ahead(i), a_us[i]))
           lag == (K - 1) * L
<1>1. /\ NeverIdle(Starts) /\ Rank \subseteq Nat /\ K \in Nat /\ a_us[i] \in Nat /\ a_us[i] \in Int
      /\ Start(i) \in Nat /\ a_us[i] <= Start(i) /\ Starts[i] = Start(i)
      /\ Starts \in [Rank -> Int] /\ Ahead(i) \in SUBSET Rank
  BY FcfsNeverIdle, FreeAtStep, SizeTypes DEF NeverIdle, OnServers, Starts, Ahead
<1>2. lag \in Nat
  <2>1. K - 1 \in Nat /\ L \in Nat
    BY SizeTypes
  <2> QED BY <2>1, NaturalProduct
<1>3. first \in Nat
  BY <1>1, LeftTypes
<1>4. \E r \in 0 .. lag : K * (Start(i) - a_us[i]) + r = first
  <2>1. \A j \in Rank : j \in Nat /\ i \in Nat
    BY <1>1
  <2>2. i \notin Ahead(i)
    BY <2>1 DEF Ahead
  <2>3. /\ \A j \in Ahead(i) : Starts[j] <= Starts[i]
        /\ \A j \in Rank \ Ahead(i) : Starts[i] <= Starts[j]
    <3>1. \A j \in Rank : (j \in Ahead(i) => j <= i) /\ (j \notin Ahead(i) => i <= j)
      BY <2>1 DEF Ahead
    <3> QED BY <1>1, <3>1, FcfsInOrder
  <2>4. {j \in Rank \ Ahead(i) : j < i} = {} /\ {j \in Ahead(i) : j > i} = {}
    BY <2>1 DEF Ahead
  <2>5. \E d \in 0 .. (K - 1) * L :
           K * (Starts[i] - a_us[i]) + d + WorkOf({j \in Rank \ Ahead(i) : j < i}, s_us)
             = first + WorkOf({j \in Ahead(i) : j > i}, s_us)
    BY <1>1, <2>2, <2>3, WaitAccount
  <2>6. PICK d \in 0 .. lag : K * (Start(i) - a_us[i]) + d + 0 = first + 0
    BY <1>1, <2>4, <2>5, WorkEmpty
  <2>7. d \in Int /\ K * (Start(i) - a_us[i]) \in Int /\ first \in Int
    BY <1>1, <1>2, <1>3
  <2> HIDE DEF first, lag
  <2>8. K * (Start(i) - a_us[i]) + d = first
    BY <2>6, <2>7
  <2> QED BY <2>8
<1> QED BY <1>1, <1>2, <1>3, <1>4

\* In a schedule that never leaves a server idle, K times what a job waits more is the
\* work that passed it without the work it passed, but for at most 2 (K - 1) L.
LEMMA WaitAgainstFcfs ==
  ASSUME InputOK, NEW st, NeverIdle(st), NEW i \in Rank, NEW B \in SUBSET Rank, i \notin B,
         \A j \in B : st[j] <= st[i], \A j \in Rank \ B : st[i] <= st[j]
  PROVE  /\ st[i] - a_us[i] \in Nat /\ Wait(i) \in Nat /\ (K - 1) * L \in Nat
         /\ \E d \in Int : /\ - (2 * ((K - 1) * L)) <= d /\ d <= 2 * ((K - 1) * L)
                           /\ K * (st[i] - a_us[i]) - K * Wait(i)
                                = WorkOf({j \in B : j > i}, s_us)
                                    - WorkOf({j \in Rank \ B : j < i}, s_us) + d
<1> DEFINE lag    == (K - 1) * L
           before == Cardinality(Left(st, Ahead(i), a_us[i]))
           first  == Cardinality(Left(Starts, Ahead(i), a_us[i]))
           in     == WorkOf({j \in B : j > i}, s_us)
           out    == WorkOf({j \in Rank \ B : j < i}, s_us)
<1>1. /\ NeverIdle(Starts) /\ OnServers(st) /\ OnServers(Starts) /\ K \in Nat
      /\ a_us[i] \in Nat /\ st[i] \in Int /\ a_us[i] <= st[i]
      /\ st \in [Rank -> Int] /\ Ahead(i) \in SUBSET Rank
  BY FcfsNeverIdle, SizeTypes DEF NeverIdle, OnServers, Ahead
<1>2. /\ Start(i) \in Nat /\ a_us[i] <= Start(i) /\ lag \in Nat /\ first \in Nat
  BY FcfsAccount
<1>3. before \in Nat /\ in \in Nat /\ out \in Nat
  <2>1. a_us[i] \in Int
    BY <1>1
  <2> QED BY <1>1, <2>1, LeftTypes, SizeTypes
<1>4. PICK r \in 0 .. lag : K * (st[i] - a_us[i]) + r + out = before + in
  BY WaitAccount
<1>5. PICK r0 \in 0 .. lag : K * (Start(i) - a_us[i]) + r0 = first
  BY FcfsAccount
<1>6. before <= first + lag /\ first <= before + lag
  <2>1. a_us[i] <= a_us[i]
    BY <1>1
  <2>2. Cardinality(Unused(st, a_us[i])) = 0 /\ Cardinality(Unused(Starts, a_us[i])) = 0
    BY <1>1, NoneUnused
  <2>3. before <= first + lag + 0 /\ first <= before + lag + 0
    BY <1>1, <2>1, <2>2, WorkLeftCompared
  <2> HIDE DEF before, first, lag
  <2> QED BY <1>2, <1>3, <2>3
<1> DEFINE d == before - first + r0 - r
           w == st[i] - a_us[i]
           f == Wait(i)
<1>7. w \in Nat /\ f \in Nat /\ f = Start(i) - a_us[i]
  BY <1>1, <1>2 DEF Wait
<1>8. K * w \in Int /\ K * f \in Int
  BY <1>1, <1>7
<1>9. d \in Int /\ - (2 * lag) <= d /\ d <= 2 * lag
  <2> HIDE DEF before, first, lag
  <2> QED BY <1>2, <1>3, <1>6
<1>10. K * w - K * f = in - out + d
  <2>1. K * w + r + out = before + in /\ K * f + r0 = first
    BY <1>4, <1>5, <1>7
  <2>2. r \in Int /\ r0 \in Int
    BY <1>2
  <2> HIDE DEF before, first, lag, w, f, in, out
  <2> QED BY <1>2, <1>3, <1>8, <2>1, <2>2
<1> HIDE DEF before, first, d
<1> QED BY <1>2, <1>7, <1>9, <1>10

\* A schedule that never leaves a server idle and starts the jobs in order is first come
\* first served.
LEMMA InOrderIsFcfs ==
  ASSUME InputOK, NEW st, NeverIdle(st), NEW i \in Rank,
         \A p, q \in Rank : p <= q => st[p] <= st[q]
  PROVE  st[i] - a_us[i] = Wait(i) /\ (K = 1 => st[i] - a_us[i] = Lindley[i])
<1>1. st = Starts
  BY FcfsNeverIdle, FcfsInOrder, InOrderIsUnique
<1>2. st[i] - a_us[i] = Wait(i)
  BY <1>1 DEF Wait, Starts
<1> QED BY <1>2, LindleyIsFcfs

\* Servers may stand idle.  K times the delay of a job against first come first served,
\* until an instant at which it has not started, is at most the work of the later jobs
\* that started before that instant, the capacity lost, and 2 (K - 1) L.
LEMMA DelayDespiteIdling ==
  ASSUME InputOK, NEW st, OnServers(st), NEW i \in Rank, NEW now \in Nat,
         a_us[i] <= now, now <= st[i],
         NEW P \in SUBSET Rank, \A j \in Rank : j > i /\ st[j] < now => j \in P
  PROVE  /\ Start(i) \in Nat /\ (K - 1) * L \in Nat /\ Cardinality(Unused(st, now)) \in Nat
         /\ K * (now - Start(i))
              <= WorkOf(P, s_us) + 2 * ((K - 1) * L) + Cardinality(Unused(st, now))
<1> DEFINE lag     == (K - 1) * L
           n       == now - a_us[i]
           B       == {j \in Rank : st[j] < now}
           older   == {j \in B : j < i}
           newer   == {j \in B : j > i}
           lost(u) == Cardinality(Unused(st, u))
           before  == Cardinality(Left(st, Ahead(i), a_us[i]))
           first   == Cardinality(Left(Starts, Ahead(i), a_us[i]))
<1>1. /\ st \in [Rank -> Int] /\ st[i] \in Int /\ a_us[i] \in Nat /\ a_us[i] \in Int /\ K \in Nat
      /\ OnServers(Starts) /\ Ahead(i) \in SUBSET Rank /\ Rank \subseteq Nat
      /\ \A j \in Rank : a_us[j] \in Nat /\ st[j] \in Int /\ a_us[j] <= st[j]
  BY FcfsNeverIdle, SizeTypes DEF NeverIdle, OnServers, Ahead
<1>2. n \in Nat /\ a_us[i] + n = now
  BY <1>1
<1>3. lost(a_us[i]) \in Nat /\ lost(now) \in Nat
  BY <1>1, UnusedStep
<1>4. /\ B \in SUBSET Rank /\ older \in SUBSET Rank /\ newer \in SUBSET Rank
      /\ B = older \cup newer /\ older \cap newer = {}
      /\ older \subseteq Ahead(i) /\ newer \subseteq P
  <2>1. i \notin B
    BY <1>1
  <2>2. \A j \in Rank : j \in Nat /\ i \in Nat
    BY <1>1
  <2>3. \A j \in B : j < i \/ j > i
    BY <2>1, <2>2
  <2> QED BY <2>2, <2>3 DEF Ahead
<1>5. Cardinality(Left(st, B, a_us[i])) + lost(now)
        = Cardinality(Left(st, B, now)) + lost(a_us[i]) + K * n
  <2>1. ASSUME NEW d \in 0 .. n - 1
        PROVE  /\ SomeWait(st, a_us[i] + d)
               /\ Executing(st, Rank, a_us[i] + d) = Executing(st, B, a_us[i] + d)
    <3> DEFINE u == a_us[i] + d
    <3>1. u \in Nat /\ a_us[i] <= u /\ u < now /\ u < st[i]
      BY <1>1
    <3>2. \A j \in Rank : st[j] <= u => j \in B
      BY <1>1, <3>1
    <3>3. Executing(st, Rank, u) = Executing(st, B, u)
      BY <3>2 DEF Executing
    <3> QED BY <3>1, <3>3 DEF SomeWait
  <2>2. B \in SUBSET Rank /\ n \in Nat /\ a_us[i] \in Nat
    BY <1>1, <1>2, <1>4
  <2> HIDE DEF n, B
  <2>3. Cardinality(Left(st, B, a_us[i])) + Cardinality(Unused(st, a_us[i] + n))
          = Cardinality(Left(st, B, a_us[i] + n)) + Cardinality(Unused(st, a_us[i])) + K * n
    BY <2>1, <2>2, BusySpan
  <2> QED BY <1>2, <2>3
<1>6. Cardinality(Left(st, B, a_us[i])) <= before + WorkOf(P, s_us)
      /\ before \in Nat /\ WorkOf(P, s_us) \in Nat
      /\ Cardinality(Left(st, B, a_us[i])) \in Nat /\ Cardinality(Left(st, B, now)) \in Nat
  <2> HIDE DEF older, newer, B
  <2>1. Cardinality(Left(st, B, a_us[i]))
          = Cardinality(Left(st, older, a_us[i])) + Cardinality(Left(st, newer, a_us[i]))
    BY <1>1, <1>4, LeftSplit
  <2>2. /\ IsFiniteSet(Left(st, Ahead(i), a_us[i])) /\ before \in Nat
        /\ Cardinality(Left(st, older, a_us[i])) \in Nat
        /\ Cardinality(Left(st, newer, a_us[i])) \in Nat
        /\ Left(st, newer, a_us[i]) \subseteq Units(newer, s_us)
        /\ Cardinality(Left(st, B, a_us[i])) \in Nat /\ Cardinality(Left(st, B, now)) \in Nat
    <3>1. now \in Int
      OBVIOUS
    <3>2. Left(st, newer, a_us[i]) \subseteq Units(newer, s_us)
      BY <1>1, <1>4, LeftTypes
    <3>3. Cardinality(Left(st, B, a_us[i])) \in Nat /\ Cardinality(Left(st, B, now)) \in Nat
      BY <1>1, <1>4, <3>1, LeftTypes
    <3>4. /\ Cardinality(Left(st, older, a_us[i])) \in Nat
          /\ Cardinality(Left(st, newer, a_us[i])) \in Nat
      BY <1>1, <1>4, LeftTypes
    <3>5. IsFiniteSet(Left(st, Ahead(i), a_us[i])) /\ before \in Nat
      BY <1>1, LeftTypes
    <3> QED BY <3>2, <3>3, <3>4, <3>5
  <2>3. Cardinality(Left(st, older, a_us[i])) <= before
    <3>1. Units(older, s_us) \subseteq Units(Ahead(i), s_us)
      BY <1>4, UnitsOf
    <3>2. Left(st, older, a_us[i]) \subseteq Left(st, Ahead(i), a_us[i])
      BY <3>1 DEF Left
    <3> QED BY <2>2, <3>2, FS_Subset
  <2>4. IsFiniteSet(Units(newer, s_us)) /\ IsFiniteSet(P) /\ WorkOf(newer, s_us) \in Nat
        /\ WorkOf(P, s_us) \in Nat /\ \A j \in P : s_us[j] \in Nat
    BY <1>4, SizeTypes
  <2>5. Cardinality(Left(st, newer, a_us[i])) <= WorkOf(newer, s_us)
    BY <2>2, <2>4, FS_Subset DEF WorkOf
  <2>6. WorkOf(newer, s_us) <= WorkOf(P, s_us)
    BY <1>4, <2>4, WorkGrows
  <2> HIDE DEF before
  <2> QED BY <2>1, <2>2, <2>3, <2>4, <2>5, <2>6
<1>7. before <= first + lag + lost(a_us[i])
  <2>1. a_us[i] <= a_us[i]
    BY <1>1
  <2> QED BY <1>1, <2>1, WorkLeftCompared
<1>8. Start(i) \in Nat /\ lag \in Nat /\ first \in Nat
  BY FcfsAccount
<1>9. PICK r \in 0 .. lag : K * (Start(i) - a_us[i]) + r = first
  BY FcfsAccount
<1> DEFINE f == Start(i) - a_us[i]
<1>10. /\ f \in Int /\ K * n \in Int /\ K * f \in Int
       /\ K * (now - Start(i)) = K * n - K * f
  <2>1. f \in Int /\ n \in Int /\ now - Start(i) = n - f
    BY <1>1, <1>2, <1>8
  <2> HIDE DEF f, n
  <2>2. K * (n - f) = K * n - K * f /\ K * n \in Int /\ K * f \in Int
    BY <1>1, <2>1, Distribute
  <2> QED BY <2>1, <2>2
<1>11. K * n - K * f <= WorkOf(P, s_us) + 2 * lag + lost(now)
  <2>1. K * f + r = first /\ r \in Int /\ r <= lag
    BY <1>8, <1>9
  <2> HIDE DEF f, n, lag, first, before, lost, B
  <2> QED BY <1>3, <1>5, <1>6, <1>7, <1>8, <1>10, <2>1
<1> QED BY <1>3, <1>8, <1>10, <1>11
=============================================================================
