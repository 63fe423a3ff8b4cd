----------------------- MODULE EvalQueuePages_proofs -----------------------
(***************************************************************************)
(* Theorems about what the admin pages read off eval_queue, for any        *)
(* number of rows, rules, modes, samples and days.                         *)
(***************************************************************************)
EXTENDS EvalQueue_proofs, FiniteSetTheorems, FunctionTheorems

-----------------------------------------------------------------------------
(* Counting.                                                               *)

\* A function of a finite set with at most m arguments for each value has at
\* most m times as many arguments as there are values.
LEMMA FibresBound ==
  ASSUME NEW P, NEW K, IsFiniteSet(K), NEW g \in [P -> K], NEW m \in Nat,
         \A k \in K : LET fibre == {x \in P : g[x] = k}
                      IN  IsFiniteSet(fibre) /\ Cardinality(fibre) <= m
  PROVE  /\ IsFiniteSet(P)
         /\ Cardinality(P) <= Cardinality(K) * m
<1> DEFINE Fibre(k) == {x \in P : g[x] = k}
           h == [k \in K |-> CHOOSE b : b \in Injection(Fibre(k), 1 .. m)]
           F == [x \in P |-> <<g[x], h[g[x]][x]>>]
<1>1. ASSUME NEW k \in K
      PROVE  \E b : b \in Injection(Fibre(k), 1 .. m)
  <2>1. PICK S : S = Fibre(k)
    OBVIOUS
  <2>2. IsFiniteSet(S) /\ Cardinality(S) <= m
    BY <1>1, <2>1
  <2>3. Cardinality(S) \in Nat /\ ExistsBijection(S, 1 .. Cardinality(S))
    BY <2>2, FS_CardinalityType, Fun_ExistsBijSymmetric
  <2>4. PICK n \in Nat : n = Cardinality(S) /\ n <= m
    BY <2>2, <2>3
  <2>5. PICK b : b \in Injection(S, 1 .. n)
    BY <2>3, <2>4 DEF ExistsBijection, Bijection
  <2>6. b \in Injection(S, 1 .. m)
    <3>1. \A x \in 1 .. n : x \in 1 .. m
      BY <2>4
    <3> QED
      BY <2>5, <3>1 DEF Injection
  <2> QED
    BY <2>1, <2>6
<1>2. \A k \in K : h[k] \in Injection(Fibre(k), 1 .. m)
  BY <1>1
<1> HIDE DEF h
<1>3. \A x \in P : /\ g[x] \in K /\ h[g[x]][x] \in 1 .. m
                   /\ \A y \in P : g[y] = g[x] /\ h[g[x]][x] = h[g[x]][y] => x = y
  BY <1>2 DEF Injection, IsInjective
<1>4. F \in Injection(P, K \X (1 .. m))
  <2>1. F \in [P -> K \X (1 .. m)]
    BY <1>3
  <2>2. \A x, y \in P : F[x] = F[y] => x = y
    BY <1>3
  <2> QED
    BY <2>1, <2>2, Fun_IsInj
<1>5. IsFiniteSet(1 .. m) /\ Cardinality(1 .. m) = m
  BY FS_Interval
<1>6. /\ IsFiniteSet(K \X (1 .. m))
      /\ Cardinality(K \X (1 .. m)) = Cardinality(K) * m
  BY <1>5, FS_Product
<1> HIDE DEF F
<1> QED
  BY <1>4, <1>6, FS_Injection

\* Among the elements of a finite set that have different ranks, at most n
\* have fewer than n above them.
LEMMA FewAreAbove ==
  ASSUME NEW S, IsFiniteSet(S), NEW f \in [S -> Nat],
         \A x, y \in S : f[x] = f[y] => x = y, NEW n \in Nat
  PROVE  Cardinality({x \in S : Cardinality({y \in S : f[y] > f[x]}) < n}) <= n
<1> DEFINE Above(x) == {y \in S : f[y] > f[x]}
           T == {x \in S : Cardinality(Above(x)) < n}
           rank == [x \in T |-> Cardinality(Above(x))]
<1>1. ASSUME NEW x \in S
      PROVE  IsFiniteSet(Above(x)) /\ Cardinality(Above(x)) \in Nat
  <2>1. Above(x) \in SUBSET S
    OBVIOUS
  <2> QED
    BY <2>1, FS_Subset, FS_CardinalityType
<1>2. ASSUME NEW x \in S, NEW y \in S, f[x] > f[y]
      PROVE  Cardinality(Above(x)) < Cardinality(Above(y))
  <2>1. Above(x) \in SUBSET Above(y) /\ x \in Above(y) /\ x \notin Above(x)
    BY <1>2
  <2>2. Cardinality(Above(x)) <= Cardinality(Above(y))
        /\ Cardinality(Above(x)) # Cardinality(Above(y))
    BY <1>1, <2>1, FS_Subset
  <2> QED
    BY <1>1, <2>2
<1>3. T \in SUBSET S
  OBVIOUS
<1>4. rank \in [T -> 0 .. n - 1]
  BY <1>1
<1>5. ASSUME NEW x \in T, NEW y \in T, rank[x] = rank[y]
      PROVE  x = y
  <2>1. f[x] \in Nat /\ f[y] \in Nat /\ x \in S /\ y \in S
    OBVIOUS
  <2>2. ~(f[x] > f[y]) /\ ~(f[y] > f[x])
    BY <1>1, <1>2, <1>5, <2>1
  <2> QED
    BY <2>1, <2>2
<1> HIDE DEF T, rank
<1>6. rank \in Injection(T, 0 .. n - 1)
  BY <1>4, <1>5, Fun_IsInj
<1>7. IsFiniteSet(0 .. n - 1) /\ Cardinality(0 .. n - 1) = n
  BY FS_Interval
<1>8. Cardinality(T) <= n
  BY <1>6, <1>7, FS_Injection
<1> QED
  BY <1>8 DEF T

LEMMA MinOfTwo ==
  ASSUME NEW a \in Nat, NEW b \in Nat
  PROVE  Min({a, b}) = IF a <= b THEN a ELSE b
<1>1. \E x \in {a, b} : \A y \in {a, b} : x =< y
  OBVIOUS
<1>2. PICK m : m = Min({a, b})
  OBVIOUS
<1>3. m \in {a, b} /\ \A y \in {a, b} : m =< y
  BY <1>1, <1>2 DEF Min
<1> QED
  BY <1>2, <1>3

LEMMA MaxOfTwo ==
  ASSUME NEW a \in Nat, NEW b \in Nat
  PROVE  Max({a, b}) = IF a >= b THEN a ELSE b
<1>1. \E x \in {a, b} : \A y \in {a, b} : x >= y
  OBVIOUS
<1>2. PICK m : m = Max({a, b})
  OBVIOUS
<1>3. m \in {a, b} /\ \A y \in {a, b} : m >= y
  BY <1>1, <1>2 DEF Max
<1> QED
  BY <1>2, <1>3

LEMMA ShareFits ==
  ASSUME NEW a \in Nat, NEW n \in Nat \ {0}
  PROVE  a \div n \in Nat /\ n * (a \div n) <= a
OBVIOUS

LEMMA TimesGrows ==
  ASSUME NEW a \in Nat, NEW b \in Nat, a <= b, NEW c \in Nat
  PROVE  a * c <= b * c
OBVIOUS

-----------------------------------------------------------------------------
(* The samples of a review.                                                *)

LEMMA CountIsNat == Count \in Nat
BY BoundsAssumption

\* Every cluster has traces, the newest of them its own.
LEMMA ClustersHaveTraces ==
  ASSUME TypeOK
  PROVE  /\ Traces \subseteq 1 .. Len(queue) /\ Len(queue) \in Nat
         /\ \A key \in FailingClusters :
              /\ Members(key) \subseteq Traces /\ Members(key) # {}
              /\ Max(Members(key)) \in Members(key)
<1>1. Traces \subseteq 1 .. Len(queue) /\ Len(queue) \in Nat
  BY TypeFacts DEF Traces, Windowed, Since
<1>2. ASSUME NEW key \in FailingClusters
      PROVE  Members(key) \subseteq Traces /\ Members(key) # {}
  BY <1>2 DEF FailingClusters, Members
<1>3. ASSUME NEW key \in FailingClusters
      PROVE  Max(Members(key)) \in Members(key)
  BY <1>1, <1>2, <1>3, MaxOf
<1> QED
  BY <1>1, <1>2, <1>3

\* Finitely many traces, so finitely many clusters; those sampled are at most
\* Count, and all of them if there are no more.
LEMMA ClustersSampled ==
  ASSUME TypeOK
  PROVE  /\ IsFiniteSet(Traces) /\ IsFiniteSet(FailingClusters)
         /\ SampledClusters \in SUBSET FailingClusters
         /\ Cardinality(SampledClusters) <= Count
         /\ Cardinality(FailingClusters) <= Count => SampledClusters = FailingClusters
<1> DEFINE newest == [key \in FailingClusters |-> Max(Members(key))]
           Newer(key) == {other \in FailingClusters : newest[other] > newest[key]}
<1>1. PICK n \in Nat : n = Len(queue) /\ Traces \in SUBSET (1 .. n)
  BY ClustersHaveTraces
<1>2. newest \in [FailingClusters -> 1 .. n]
  BY <1>1, ClustersHaveTraces
<1>3. ASSUME NEW a \in FailingClusters, NEW b \in FailingClusters, newest[a] = newest[b]
      PROVE  a = b
  <2>1. newest[a] \in Members(a) /\ newest[b] \in Members(b)
    BY ClustersHaveTraces
  <2> QED
    BY <1>3, <2>1 DEF Members
<1>4. SampledClusters = {key \in FailingClusters : Cardinality(Newer(key)) < Count}
  BY DEF SampledClusters
<1> HIDE DEF newest
<1>5. newest \in Injection(FailingClusters, 1 .. n)
  BY <1>2, <1>3, Fun_IsInj
<1>6. IsFiniteSet(1 .. n)
  BY FS_Interval
<1>7. IsFiniteSet(FailingClusters) /\ IsFiniteSet(Traces)
  BY <1>1, <1>5, <1>6, FS_Injection, FS_Subset
<1>8. newest \in [FailingClusters -> Nat]
  BY <1>2
<1>9. Cardinality(SampledClusters) <= Count
  BY <1>3, <1>4, <1>7, <1>8, CountIsNat, FewAreAbove
<1>10. ASSUME Cardinality(FailingClusters) <= Count, NEW key \in FailingClusters
       PROVE  Cardinality(Newer(key)) < Count
  <2>1. Newer(key) \in SUBSET FailingClusters /\ key \notin Newer(key)
    BY <1>8
  <2>2. /\ Cardinality(Newer(key)) <= Cardinality(FailingClusters)
        /\ Cardinality(Newer(key)) # Cardinality(FailingClusters)
        /\ Cardinality(Newer(key)) \in Nat /\ Cardinality(FailingClusters) \in Nat
    BY <1>7, <1>10, <2>1, FS_Subset, FS_CardinalityType
  <2> QED
    BY <1>10, <2>2, CountIsNat
<1> QED
  BY <1>4, <1>7, <1>9, <1>10

\* The picks of the clusters fill no more than the whole sample.
LEMMA PicksFit ==
  ASSUME TypeOK, NEW share, share = PerCluster(Cardinality(FailingClusters)),
         NEW P \in SUBSET UNION {Members(key) : key \in SampledClusters},
         \A key \in SampledClusters :
           Cardinality(P \cap Members(key)) = Fewest(Members(key), share)
  PROVE  /\ P \in SUBSET Traces /\ IsFiniteSet(P) /\ Cardinality(P) <= Count
         /\ \A key \in SampledClusters : P \cap Members(key) # {}
<1> DEFINE n == Cardinality(FailingClusters)
<1>1. /\ SampledClusters \subseteq FailingClusters /\ IsFiniteSet(SampledClusters)
      /\ n \in Nat /\ Cardinality(SampledClusters) \in Nat
      /\ Cardinality(SampledClusters) <= n /\ Cardinality(SampledClusters) <= Count
  BY ClustersSampled, FS_Subset, FS_CardinalityType
<1>2. P \in SUBSET Traces /\ IsFiniteSet(P)
  <2>1. \A key \in SampledClusters : Members(key) \subseteq Traces
    BY <1>1, ClustersHaveTraces
  <2>2. P \in SUBSET Traces
    BY <2>1
  <2> QED
    BY <2>2, ClustersSampled, FS_Subset
<1>3. CASE SampledClusters = {}
  <2>1. P = {}
    BY <1>3
  <2> QED
    BY <1>2, <1>3, <2>1, CountIsNat, FS_EmptySet
<1>4. CASE SampledClusters # {}
  <2>1. n > 0
    BY <1>1, <1>4, ClustersSampled, FS_EmptySet
  <2>2. ClusterPicks \in Nat /\ ClusterPicks <= Count
    BY CountIsNat DEF ClusterPicks
  <2>3. ClusterPicks \div n \in Nat /\ n * (ClusterPicks \div n) <= ClusterPicks
    BY <1>1, <2>1, <2>2, ShareFits
  <2>4. share = IF 1 >= ClusterPicks \div n THEN 1 ELSE ClusterPicks \div n
    BY <2>3, MaxOfTwo DEF PerCluster
  <2>5. share \in Nat /\ share >= 1
    BY <2>3, <2>4
  <2>6. Cardinality(SampledClusters) * share <= Count
    <3>1. CASE share = 1
      BY <1>1, <3>1
    <3>2. CASE share = ClusterPicks \div n
      <4>1. Cardinality(SampledClusters) * share <= n * share
        BY <1>1, <2>5, TimesGrows
      <4>2. n * share <= Count
        BY <1>1, <2>2, <2>3, <3>2, CountIsNat
      <4>3. Cardinality(SampledClusters) * share \in Nat /\ n * share \in Nat
        BY <1>1, <2>5
      <4> QED
        BY <4>1, <4>2, <4>3, CountIsNat
    <3> QED
      BY <2>4, <3>1, <3>2
  <2>7. ASSUME NEW key \in SampledClusters
        PROVE  /\ Cardinality(P \cap Members(key)) <= share
               /\ Cardinality(P \cap Members(key)) >= 1
               /\ IsFiniteSet(P \cap Members(key))
    <3>1. Members(key) \in SUBSET Traces /\ Members(key) # {}
      BY <1>1, ClustersHaveTraces
    <3>2. IsFiniteSet(Members(key))
      BY <3>1, ClustersSampled, FS_Subset
    <3>3. Cardinality(Members(key)) \in Nat /\ Cardinality(Members(key)) # 0
      BY <3>1, <3>2, FS_EmptySet, FS_CardinalityType
    <3>4. Fewest(Members(key), share)
            = IF share <= Cardinality(Members(key)) THEN share ELSE Cardinality(Members(key))
      BY <2>5, <3>3, MinOfTwo DEF Fewest
    <3>5. P \cap Members(key) \in SUBSET P
      OBVIOUS
    <3> QED
      BY <1>2, <2>5, <2>7, <3>3, <3>4, <3>5, FS_Subset
  <2>8. Cardinality(P) <= Cardinality(SampledClusters) * share
    <3> DEFINE g == [x \in P |-> Cluster(x)]
    <3>1. \A key \in SampledClusters : \A x \in Members(key) : Cluster(x) = key
      BY DEF Members
    <3>2. g \in [P -> SampledClusters]
      BY <3>1
    <3>3. ASSUME NEW key \in SampledClusters
          PROVE  {x \in P : g[x] = key} = P \cap Members(key)
      BY <1>2 DEF Members
    <3>4. ASSUME NEW key \in SampledClusters
          PROVE  LET fibre == {x \in P : g[x] = key}
                 IN  IsFiniteSet(fibre) /\ Cardinality(fibre) <= share
      BY <2>7, <3>3
    <3> HIDE DEF g
    <3> QED
      BY <1>1, <2>5, <3>2, <3>4, FibresBound
  <2>9. Cardinality(P) <= Count
    <3>1. Cardinality(P) \in Nat /\ Cardinality(SampledClusters) * share \in Nat
      BY <1>1, <1>2, <2>5, FS_CardinalityType
    <3> QED
      BY <2>6, <2>8, <3>1, CountIsNat
  <2>10. \A key \in SampledClusters : P \cap Members(key) # {}
    BY <2>7, FS_EmptySet
  <2> QED
    BY <1>2, <2>9, <2>10
<1> QED
  BY <1>3, <1>4

LEMMA SamplesCover ==
  ASSUME TypeOK
  PROVE  EveryClusterSampled
<1> SUFFICES ASSUME NEW sample \in Samples
             PROVE  /\ Cardinality(sample) <= Count
                    /\ Cardinality(FailingClusters) <= Count =>
                         \A key \in FailingClusters : Members(key) \cap sample # {}
  BY DEF EveryClusterSampled
<1>1. PICK share : share = PerCluster(Cardinality(FailingClusters))
  OBVIOUS
<1> DEFINE room(P) == Min({RandomPicks, Count - Cardinality(P)})
<1>2. PICK P \in SUBSET UNION {Members(key) : key \in SampledClusters} :
        /\ \A key \in SampledClusters :
             Cardinality(P \cap Members(key)) = Fewest(Members(key), share)
        /\ sample \in {P \cup R : R \in kSubset(Fewest(Traces \ P, room(P)), Traces \ P)}
  BY <1>1 DEF Samples
<1>3. PICK R \in SUBSET (Traces \ P) :
        Cardinality(R) = Fewest(Traces \ P, room(P)) /\ sample = P \cup R
  BY <1>2 DEF kSubset
<1>4. /\ P \in SUBSET Traces /\ IsFiniteSet(P) /\ Cardinality(P) <= Count
      /\ \A key \in SampledClusters : P \cap Members(key) # {}
  BY <1>1, <1>2, PicksFit
<1>5. Cardinality(sample) <= Count
  <2>1. IsFiniteSet(R) /\ IsFiniteSet(Traces \ P)
    <3>1. R \in SUBSET Traces /\ Traces \ P \in SUBSET Traces
      OBVIOUS
    <3> QED
      BY <3>1, ClustersSampled, FS_Subset
  <2>2. /\ Cardinality(P) \in Nat /\ Cardinality(R) \in Nat
        /\ Cardinality(Traces \ P) \in Nat
    BY <1>4, <2>1, FS_CardinalityType
  <2>3. RandomPicks \in Nat
    BY CountIsNat DEF RandomPicks, ClusterPicks
  <2>4. Count - Cardinality(P) \in Nat
    BY <1>4, <2>2, CountIsNat
  <2>5. room(P) \in Nat /\ room(P) <= Count - Cardinality(P)
    BY <2>3, <2>4, CountIsNat, MinOfTwo
  <2> HIDE DEF room
  <2>6. Cardinality(R) <= room(P)
    <3>1. Cardinality(R) = Min({room(P), Cardinality(Traces \ P)})
      BY <1>3 DEF Fewest
    <3>2. PICK a \in Nat, b \in Nat : a = room(P) /\ b = Cardinality(Traces \ P)
      BY <2>2, <2>5
    <3>3. Min({a, b}) <= a
      BY MinOfTwo
    <3> QED
      BY <3>1, <3>2, <3>3
  <2>7. Cardinality(sample) <= Cardinality(P) + Cardinality(R)
    <3>1. P \cap R = {}
      BY <1>3
    <3>2. Cardinality(P \cup R) = Cardinality(P) + Cardinality(R) - Cardinality(P \cap R)
      BY <1>4, <2>1, FS_Union
    <3>3. Cardinality(P \cap R) = 0
      BY <3>1, FS_EmptySet
    <3> QED
      BY <1>3, <2>2, <3>2, <3>3
  <2>8. Cardinality(sample) \in Nat
    BY <1>3, <1>4, <2>1, FS_Union, FS_CardinalityType
  <2> QED
    BY <2>2, <2>5, <2>6, <2>7, <2>8, CountIsNat
<1>6. ASSUME Cardinality(FailingClusters) <= Count, NEW key \in FailingClusters
      PROVE  Members(key) \cap sample # {}
  <2>1. key \in SampledClusters
    BY <1>6, ClustersSampled
  <2> QED
    BY <1>3, <1>4, <2>1
<1> QED
  BY <1>5, <1>6

\* Whatever rows the window has and whatever is picked at random, a reviewer
\* who asks for as many samples as there are kinds of failure among the newest
\* TraceLimit traces sees each of these kinds, and no review has more samples than
\* asked for (error_discovery.py:20-30, 132-178).
THEOREM ReviewsSeeEveryCluster == Spec => []EveryClusterSampled
<1>1. RatedInv => EveryClusterSampled
  BY SamplesCover DEF RatedInv
<1> QED
  BY <1>1, RatedInvariant, PTL

-----------------------------------------------------------------------------
(* The convergence page.                                                   *)

\* Finitely many numbers can be listed in increasing order.
LEMMA Enumerates ==
  ASSUME NEW S, IsFiniteSet(S), S \subseteq Nat
  PROVE  \E s \in [1 .. Cardinality(S) -> S] :
           \A m, n \in DOMAIN s : m < n => s[m] < s[n]
<1> DEFINE Below(x) == {y \in S : y <= x}
           size == Cardinality(S)
           rank == [x \in S |-> Cardinality(Below(x))]
<1>1. size \in Nat
  BY FS_CardinalityType
<1>2. ASSUME NEW x \in S
      PROVE  IsFiniteSet(Below(x)) /\ Cardinality(Below(x)) \in 1 .. size
  <2>1. Below(x) \in SUBSET S /\ Below(x) # {}
    OBVIOUS
  <2>2. IsFiniteSet(Below(x)) /\ Cardinality(Below(x)) <= size
    BY <2>1, FS_Subset
  <2> QED
    BY <1>1, <2>1, <2>2, FS_EmptySet, FS_CardinalityType
<1>3. ASSUME NEW x \in S, NEW y \in S, x < y
      PROVE  rank[x] < rank[y]
  <2>1. Below(x) \in SUBSET Below(y) /\ y \in Below(y) /\ y \notin Below(x)
    <3>1. \A z \in S : z \in Nat
      OBVIOUS
    <3>2. \A z \in S : z <= x => z <= y
      BY <1>3, <3>1
    <3>3. y <= y /\ ~(y <= x)
      BY <1>3, <3>1
    <3> QED
      BY <3>2, <3>3
  <2>2. Cardinality(Below(x)) <= Cardinality(Below(y))
        /\ Cardinality(Below(x)) # Cardinality(Below(y))
    BY <1>2, <2>1, FS_Subset
  <2> QED
    BY <1>1, <1>2, <2>2
<1>4. rank \in [S -> 1 .. size]
  BY <1>2
<1> HIDE DEF rank
<1>5. ASSUME NEW x \in S, NEW y \in S, rank[x] = rank[y]
      PROVE  x = y
  <2>1. x \in Nat /\ y \in Nat /\ rank[x] \in Nat /\ rank[y] \in Nat
    BY <1>1, <1>4
  <2>2. ~(x < y) /\ ~(y < x)
    BY <1>3, <1>5, <2>1
  <2> QED
    BY <2>1, <2>2
<1>6. rank \in Injection(S, 1 .. size)
  BY <1>4, <1>5, Fun_IsInj
<1>7. IsFiniteSet(1 .. size) /\ Cardinality(1 .. size) = size
  BY <1>1, FS_Interval
<1>8. rank \in Surjection(S, 1 .. size)
  BY <1>6, <1>7, FS_Injection
<1>9. \A n \in 1 .. size : \E x \in S : rank[x] = n
  BY <1>8 DEF Surjection
<1> DEFINE s == [n \in 1 .. size |-> CHOOSE x \in S : rank[x] = n]
<1>10. \A n \in 1 .. size : s[n] \in S /\ rank[s[n]] = n
  BY <1>9
<1>11. s \in [1 .. size -> S]
  BY <1>10
<1> HIDE DEF s
<1>12. ASSUME NEW m \in 1 .. size, NEW n \in 1 .. size, m < n
       PROVE  s[m] < s[n]
  <2>1. s[m] \in Nat /\ s[n] \in Nat
    BY <1>10
  <2>2. rank[s[m]] = m /\ rank[s[n]] = n /\ s[m] \in S /\ s[n] \in S
    BY <1>10
  <2>3. ~(s[n] < s[m])
    <3>1. s[n] < s[m] => rank[s[n]] < rank[s[m]]
      BY <1>3, <2>2
    <3> QED
      BY <1>1, <1>12, <2>2, <3>1
  <2>4. s[n] # s[m]
    BY <1>12, <2>2
  <2> QED
    BY <2>1, <2>3, <2>4
<1> QED
  BY <1>11, <1>12

\* The rows of a page are finitely many.
LEMMA AnnotationFacts ==
  ASSUME TypeOK
  PROVE  /\ Annotations \subseteq DOMAIN queue /\ IsFiniteSet(Annotations)
         /\ \A i \in Annotations : queue[i].created \in Nat
<1>1. Annotations \subseteq DOMAIN queue /\ DOMAIN queue = 1 .. Len(queue) /\ Len(queue) \in Nat
  BY TypeFacts DEF Annotations, Since
<1>2. IsFiniteSet(Annotations)
  <2>1. IsFiniteSet(1 .. Len(queue))
    BY <1>1, FS_Interval
  <2> QED
    BY <1>1, <2>1, FS_Subset
<1>3. \A i \in DOMAIN queue : queue[i] \in Rows
  BY <1>1, TypeFacts
<1>4. \A row \in Rows : row.created \in Nat
  BY DEF Rows
<1> QED
  BY <1>1, <1>2, <1>3, <1>4

\* The days of the page: each day with an annotation once, in their order.
LEMMA DaysFacts ==
  ASSUME TypeOK
  PROVE  \E N \in Nat :
           /\ AnnotationDays \in [1 .. N -> DaysAnnotated] /\ Len(AnnotationDays) = N
           /\ \A m, n \in 1 .. N : m < n => AnnotationDays[m] < AnnotationDays[n]
           /\ \A i \in Annotations : \E n \in 1 .. N : queue[i].created = AnnotationDays[n]
<1> DEFINE D == DaysAnnotated
           N == Cardinality(D)
           days == AnnotationDays
           day == [i \in Annotations |-> queue[i].created]
<1>1. D \subseteq Nat /\ D = {queue[i].created : i \in Annotations}
  BY AnnotationFacts DEF DaysAnnotated
<1>2. IsFiniteSet(D)
  <2>1. day \in Surjection(Annotations, D)
    BY <1>1 DEF Surjection
  <2> QED
    BY <2>1, AnnotationFacts, FS_Surjection
<1>3. N \in Nat
  BY <1>2, FS_CardinalityType
<1>4. days \in [1 .. N -> D] /\ \A m, n \in 1 .. N : m < n => days[m] < days[n]
  <2>1. \E s \in [1 .. N -> D] : \A m, n \in DOMAIN s : m < n => s[m] < s[n]
    BY <1>1, <1>2, Enumerates
  <2>2. days \in [1 .. N -> D] /\ \A m, n \in DOMAIN days : m < n => days[m] < days[n]
    BY <2>1 DEF AnnotationDays
  <2> QED
    BY <2>2
<1> HIDE DEF D, days
<1>5. Len(days) = N
  BY <1>3, <1>4
<1>6. ASSUME NEW m \in 1 .. N, NEW n \in 1 .. N, days[m] = days[n]
      PROVE  m = n
  <2>1. days[m] \in Nat /\ days[n] \in Nat
    BY <1>1, <1>4
  <2>2. ~(m < n) /\ ~(n < m)
    BY <1>4, <1>6, <2>1
  <2> QED
    BY <1>3, <2>2
<1>7. days \in Injection(1 .. N, D)
  BY <1>4, <1>6, Fun_IsInj
<1>8. Cardinality(1 .. N) = N
  BY <1>3, FS_Interval
<1>9. days \in Surjection(1 .. N, D)
  BY <1>2, <1>7, <1>8, FS_Injection
<1>10. \A d \in D : \E n \in 1 .. N : days[n] = d
  BY <1>9 DEF Surjection
<1>11. \A i \in Annotations : \E n \in 1 .. N : queue[i].created = days[n]
  BY <1>1, <1>10
<1> QED
  BY <1>3, <1>4, <1>5, <1>11 DEF D, days

\* Of some sets of places, one of the smallest is not among them without its last
\* place.
LEMMA SmallestPlaces ==
  ASSUME NEW n \in Nat, NEW Q, Q \subseteq SUBSET (1 .. n), Q # {}
  PROVE  \E s \in Q : s # {} => Max(s) \in s /\ s \ {Max(s)} \notin Q
<1> DEFINE sizes == {Cardinality(s) : s \in Q}
<1>1. \A s \in Q : IsFiniteSet(s) /\ Cardinality(s) \in Nat
  <2>1. IsFiniteSet(1 .. n)
    BY FS_Interval
  <2> QED
    BY <2>1, FS_Subset, FS_CardinalityType
<1>2. sizes \subseteq Nat /\ sizes # {}
  BY <1>1
<1>3. PICK s \in Q : \A t \in Q : Cardinality(t) >= Cardinality(s)
  <2>1. \E m \in sizes : \A t \in sizes : t >= m
    <3> HIDE DEF sizes
    <3> QED
      BY <1>2, LeastOf
  <2> QED
    BY <2>1
<1> SUFFICES ASSUME s # {}
             PROVE  Max(s) \in s /\ s \ {Max(s)} \notin Q
  OBVIOUS
<1>4. Max(s) \in s
  BY MaxOf
<1>5. Cardinality(s \ {Max(s)}) = Cardinality(s) - 1
  BY <1>1, <1>4, FS_RemoveElement
<1> QED
  BY <1>1, <1>3, <1>4, <1>5

\* The modes that the page counts up to the nth day.
LEMMA CumulativeCounts ==
  ASSUME TypeOK, NEW N \in Nat,
         AnnotationDays \in [1 .. N -> Nat], Len(AnnotationDays) = N,
         \A m, n \in 1 .. N : m < n => AnnotationDays[m] < AnnotationDays[n]
  PROVE  Timeline = [n \in 1 .. N |->
           [date        |-> AnnotationDays[n],
            annotations |-> Cardinality({i \in Annotations :
                                           queue[i].created = AnnotationDays[n]}),
            cumulative  |-> Cardinality({mode \in ModesSeen :
                              \E k \in 1 .. n : FirstSeen(mode) = AnnotationDays[k]})]]
<1> DEFINE days == AnnotationDays
           seen(n) == {mode \in ModesSeen : \E k \in 1 .. n : FirstSeen(mode) = days[k]}
           new(n)  == {mode \in ModesSeen : FirstSeen(mode) = days[n]}
           g == [n \in 0 .. N |-> Cardinality(seen(n))]
<1>1. IsFiniteSet(ModesSeen)
  <2> DEFINE modeOf == [i \in Annotations |-> queue[i].mode]
  <2>1. modeOf \in Surjection(Annotations, ModesSeen)
    BY DEF Surjection, ModesSeen
  <2> QED
    BY <2>1, AnnotationFacts, FS_Surjection
<1>2. ASSUME NEW n \in Nat
      PROVE  /\ IsFiniteSet(seen(n)) /\ Cardinality(seen(n)) \in Nat
             /\ IsFiniteSet(new(n)) /\ Cardinality(new(n)) \in Nat
  <2>1. seen(n) \in SUBSET ModesSeen /\ new(n) \in SUBSET ModesSeen
    OBVIOUS
  <2> QED
    BY <1>1, <2>1, FS_Subset, FS_CardinalityType
<1>3. Cardinality(seen(0)) = 0
  <2>1. seen(0) = {}
    OBVIOUS
  <2> QED
    BY <2>1, FS_EmptySet
<1>4. ASSUME NEW n \in 1 .. N
      PROVE  Cardinality(seen(n)) = Cardinality(seen(n - 1)) + NewModes(days[n])
  <2>1. n - 1 \in Nat /\ 1 .. n = (1 .. n - 1) \cup {n} /\ n \in Nat
    OBVIOUS
  <2>2. seen(n) = seen(n - 1) \cup new(n)
    BY <2>1
  <2>3. \A k \in 1 .. n - 1 : days[k] # days[n]
    <3>1. \A k \in 1 .. n - 1 : k \in 1 .. N /\ k < n
      OBVIOUS
    <3>2. \A k \in 1 .. n - 1 : days[k] < days[n] /\ days[k] \in Nat
      BY <3>1
    <3> QED
      BY <3>2
  <2>4. seen(n - 1) \cap new(n) = {}
    BY <2>3
  <2>5. Cardinality(seen(n - 1) \cap new(n)) = 0
    BY <2>4, FS_EmptySet
  <2>6. new(n) = {m \in ModesSeen : FirstSeen(m) = days[n]}
    OBVIOUS
  <2>7. Cardinality(new(n)) = NewModes(days[n])
    BY <2>6 DEF NewModes
  <2>8. PICK A, B : A = seen(n - 1) /\ B = new(n)
    OBVIOUS
  <2>9. /\ IsFiniteSet(A) /\ IsFiniteSet(B)
        /\ Cardinality(A) \in Nat /\ Cardinality(B) \in Nat
    BY <1>2, <2>1, <2>8
  <2>10. Cardinality(A \cup B) = Cardinality(A) + Cardinality(B)
    <3>1. Cardinality(A \cup B) = Cardinality(A) + Cardinality(B) - Cardinality(A \cap B)
      BY <2>9, FS_Union
    <3> QED
      BY <2>5, <2>8, <2>9, <3>1
  <2> QED
    BY <2>2, <2>7, <2>8, <2>10
<1> HIDE DEF seen, new
<1>5. g = [n \in 0 .. Len(days) |-> IF n = 0 THEN 0 ELSE g[n - 1] + NewModes(days[n])]
  <2>1. \A n \in 0 .. N : n # 0 => n - 1 \in 0 .. N /\ n \in 1 .. N
    OBVIOUS
  <2>2. \A n \in 0 .. N :
          Cardinality(seen(n)) = IF n = 0 THEN 0
                                 ELSE Cardinality(seen(n - 1)) + NewModes(days[n])
    BY <1>3, <1>4, <2>1
  <2> QED
    BY <2>1, <2>2
<1>6. ASSUME NEW h, h = [n \in 0 .. Len(days) |-> IF n = 0 THEN 0 ELSE h[n - 1] + NewModes(days[n])]
      PROVE  h = g
  <2> DEFINE differ == {n \in 0 .. N : h[n] # g[n]}
  <2>1. \A n \in 0 .. N : h[n] = IF n = 0 THEN 0 ELSE h[n - 1] + NewModes(days[n])
    BY <1>6
  <2>2. \A n \in 0 .. N : g[n] = IF n = 0 THEN 0 ELSE g[n - 1] + NewModes(days[n])
    <3> HIDE DEF g
    <3> QED
      BY <1>5
  <2>3. differ = {}
    <3> SUFFICES ASSUME differ # {}
                 PROVE  FALSE
      OBVIOUS
    <3>1. differ \subseteq Nat
      OBVIOUS
    <3>2. PICK n \in differ : \A m \in differ : m >= n
      <4> HIDE DEF differ
      <4> QED
        BY <3>1, LeastOf
    <3>3. n # 0
      BY <2>1, <2>2
    <3>4. n - 1 \in 0 .. N /\ ~(n - 1 >= n)
      BY <3>3
    <3>5. h[n - 1] = g[n - 1]
      BY <3>2, <3>4
    <3> QED
      BY <2>1, <2>2, <3>3, <3>5
  <2>4. \A n \in 0 .. N : h[n] = g[n]
    BY <2>3
  <2>5. DOMAIN h = DOMAIN g /\ h = [n \in DOMAIN h |-> h[n]] /\ g = [n \in DOMAIN g |-> g[n]]
    BY <1>6
  <2> QED
    BY <2>4, <2>5
<1>7. \A n \in 1 .. N : g[n] = Cardinality(seen(n))
  OBVIOUS
<1> HIDE DEF g
<1>8. Timeline = [n \in DOMAIN days |->
         [date        |-> days[n],
          annotations |-> Cardinality({i \in Annotations : queue[i].created = days[n]}),
          cumulative  |-> g[n]]]
  BY <1>5, <1>6 DEF Timeline
<1>9. DOMAIN days = 1 .. N
  OBVIOUS
<1>10. Timeline = [n \in 1 .. N |->
         [date        |-> days[n],
          annotations |-> Cardinality({i \in Annotations : queue[i].created = days[n]}),
          cumulative  |-> Cardinality(seen(n))]]
  BY <1>7, <1>8, <1>9
<1> QED
  BY <1>10 DEF seen

\* Adding the annotations of the days counts each annotation of the page once.
LEMMA AnnotationsAddUp ==
  ASSUME TypeOK, NEW N \in Nat,
         AnnotationDays \in [1 .. N -> Nat],
         \A m, n \in 1 .. N : m < n => AnnotationDays[m] < AnnotationDays[n],
         \A i \in Annotations : \E n \in 1 .. N : queue[i].created = AnnotationDays[n],
         NEW seq, DOMAIN seq = 1 .. N,
         \A n \in 1 .. N : seq[n].annotations =
           Cardinality({i \in Annotations : queue[i].created = AnnotationDays[n]})
  PROVE  FoldLeft(LAMBDA sum, day : sum + day.annotations, 0, seq) = Cardinality(Annotations)
<1> DEFINE on(n) == {i \in Annotations : queue[i].created = AnnotationDays[n]}
           within(s) == {i \in Annotations : \E n \in s : queue[i].created = AnnotationDays[n]}
           g == [s \in SUBSET (1 .. N) |-> Cardinality(within(s))]
<1>1. ASSUME NEW s
      PROVE  IsFiniteSet(within(s)) /\ Cardinality(within(s)) \in Nat
  <2>1. within(s) \in SUBSET Annotations
    OBVIOUS
  <2> QED
    BY <2>1, AnnotationFacts, FS_Subset, FS_CardinalityType
<1>2. g \in [SUBSET (1 .. N) -> Nat]
  BY <1>1
<1>3. g[{}] = 0
  <2>1. within({}) = {}
    OBVIOUS
  <2> QED
    BY <2>1, FS_EmptySet
<1>4. ASSUME NEW s \in SUBSET (1 .. N), s # {}
      PROVE  g[s] = g[s \ {Max(s)}] + seq[Max(s)].annotations
  <2>1. Max(s) \in s
    BY <1>4, MaxOf
  <2>2. PICK n \in 1 .. N : n = Max(s)
    BY <2>1
  <2>3. s = (s \ {n}) \cup {n} /\ s \ {n} \in SUBSET (1 .. N)
    BY <2>1, <2>2
  <2>4. within(s) = within(s \ {n}) \cup on(n)
    BY <2>3
  <2>5. \A k \in s \ {n} : AnnotationDays[k] # AnnotationDays[n]
    <3>1. \A k \in 1 .. N : AnnotationDays[k] \in Nat
      OBVIOUS
    <3>2. \A k \in 1 .. N : k < n \/ n < k \/ k = n
      OBVIOUS
    <3>3. \A k, m \in 1 .. N : k < m => AnnotationDays[k] # AnnotationDays[m]
      BY <3>1
    <3> QED
      BY <3>2, <3>3
  <2>6. within(s \ {n}) \cap on(n) = {}
    BY <2>5
  <2>7. Cardinality(within(s \ {n}) \cap on(n)) = 0
    BY <2>6, FS_EmptySet
  <2>8. on(n) = within({n})
    OBVIOUS
  <2>9. PICK A, B : A = within(s \ {n}) /\ B = on(n)
    OBVIOUS
  <2>10. /\ IsFiniteSet(A) /\ IsFiniteSet(B)
         /\ Cardinality(A) \in Nat /\ Cardinality(B) \in Nat
    BY <1>1, <2>8, <2>9
  <2>11. Cardinality(A \cup B) = Cardinality(A) + Cardinality(B)
    <3>1. Cardinality(A \cup B) = Cardinality(A) + Cardinality(B) - Cardinality(A \cap B)
      BY <2>10, FS_Union
    <3> QED
      BY <2>7, <2>9, <2>10, <3>1
  <2>12. seq[n].annotations = Cardinality(B)
    BY <2>9
  <2>13. g[s] = Cardinality(A \cup B) /\ g[s \ {n}] = Cardinality(A)
    BY <2>3, <2>4, <2>9
  <2> QED
    BY <2>2, <2>11, <2>12, <2>13
<1>5. g[1 .. N] = Cardinality(Annotations)
  <2>1. within(1 .. N) = Annotations
    OBVIOUS
  <2> QED
    BY <2>1
<1> HIDE DEF g
<1>6. g = [s \in SUBSET DOMAIN seq |->
             IF s = {} THEN 0 ELSE g[s \ {Max(s)}] + seq[Max(s)].annotations]
  <2>1. \A s \in SUBSET (1 .. N) :
          g[s] = IF s = {} THEN 0 ELSE g[s \ {Max(s)}] + seq[Max(s)].annotations
    BY <1>3, <1>4
  <2> HIDE DEF g
  <2> QED
    BY <1>2, <2>1
<1>7. ASSUME NEW h, h = [s \in SUBSET DOMAIN seq |->
                IF s = {} THEN 0 ELSE h[s \ {Max(s)}] + seq[Max(s)].annotations]
      PROVE  h = g
  <2>1. \A s \in SUBSET (1 .. N) :
          h[s] = IF s = {} THEN 0 ELSE h[s \ {Max(s)}] + seq[Max(s)].annotations
    BY <1>7
  <2>2. \A s \in SUBSET (1 .. N) :
          s # {} => /\ g[s] = g[s \ {Max(s)}] + seq[Max(s)].annotations
                    /\ h[s] = h[s \ {Max(s)}] + seq[Max(s)].annotations
    BY <1>4, <2>1
  <2>3. h[{}] = 0
    BY <2>1
  <2> HIDE DEF g
  <2>4. \A s \in SUBSET (1 .. N) : h[s] = g[s]
    <3> DEFINE differ == {s \in SUBSET (1 .. N) : h[s] # g[s]}
    <3> SUFFICES ASSUME differ # {}
                 PROVE  FALSE
      OBVIOUS
    <3>1. PICK s \in differ : s # {} => Max(s) \in s /\ s \ {Max(s)} \notin differ
      <4>1. differ \subseteq SUBSET (1 .. N)
        OBVIOUS
      <4> HIDE DEF differ
      <4> QED
        BY <4>1, SmallestPlaces
    <3>2. s # {} /\ s \ {Max(s)} \in SUBSET (1 .. N)
      BY <1>3, <2>3
    <3>3. h[s \ {Max(s)}] = g[s \ {Max(s)}]
      BY <3>1, <3>2
    <3> QED
      BY <2>2, <3>2, <3>3
  <2>5. DOMAIN h = SUBSET (1 .. N) /\ h = [s \in DOMAIN h |-> h[s]]
    BY <1>7
  <2>6. DOMAIN g = SUBSET (1 .. N) /\ g = [s \in DOMAIN g |-> g[s]]
    BY <1>2
  <2> QED
    BY <2>4, <2>5, <2>6
<1> HIDE DEF g
<1>8. FoldLeft(LAMBDA sum, day : sum + day.annotations, 0, seq) = g[DOMAIN seq]
  BY <1>6, <1>7 DEF FoldLeft, MapThenFoldSet
<1> QED
  BY <1>5, <1>8

\* The first day of a mode is a day on which it was annotated, and no annotation
\* of it is older.
LEMMA FirstSeenIsFirst ==
  ASSUME TypeOK, NEW mode \in ModesSeen
  PROVE  /\ \E i \in Annotations : queue[i].mode = mode /\ queue[i].created = FirstSeen(mode)
         /\ \A i \in Annotations : queue[i].mode = mode => queue[i].created >= FirstSeen(mode)
<1>1. DaysOf(mode) \subseteq Nat /\ DaysOf(mode) # {}
  BY AnnotationFacts DEF DaysOf, ModesSeen
<1>2. \E m \in DaysOf(mode) : \A t \in DaysOf(mode) : t >= m
  BY <1>1, LeastOf
<1>3. \A m, t \in Nat : t >= m <=> m =< t
  OBVIOUS
<1>4. \E m \in DaysOf(mode) : \A t \in DaysOf(mode) : m =< t
  BY <1>1, <1>2, <1>3
<1>5. /\ FirstSeen(mode) \in DaysOf(mode)
      /\ \A t \in DaysOf(mode) : FirstSeen(mode) =< t
  BY <1>4 DEF FirstSeen, Min
<1>6. \A i \in Annotations : queue[i].mode = mode => queue[i].created \in DaysOf(mode)
  BY DEF DaysOf
<1>7. \E i \in Annotations : queue[i].mode = mode /\ queue[i].created = FirstSeen(mode)
  BY <1>5 DEF DaysOf
<1> QED
  BY <1>1, <1>3, <1>5, <1>6, <1>7

LEMMA PageCounts ==
  ASSUME TypeOK
  PROVE  TimelineCountsModes
<1>1. PICK N \in Nat :
        /\ AnnotationDays \in [1 .. N -> DaysAnnotated] /\ Len(AnnotationDays) = N
        /\ \A m, n \in 1 .. N : m < n => AnnotationDays[m] < AnnotationDays[n]
        /\ \A i \in Annotations : \E n \in 1 .. N : queue[i].created = AnnotationDays[n]
  BY DaysFacts
<1>2. AnnotationDays \in [1 .. N -> Nat]
  <2>1. DaysAnnotated \subseteq Nat
    BY AnnotationFacts DEF DaysAnnotated
  <2> QED
    BY <1>1, <2>1
<1> DEFINE days == AnnotationDays
           seen(n) == {mode \in ModesSeen : \E k \in 1 .. n : FirstSeen(mode) = days[k]}
           marked(n) == {queue[i].mode : i \in {j \in Annotations : queue[j].created <= days[n]}}
<1>3. Timeline = [n \in 1 .. N |->
        [date        |-> days[n],
         annotations |-> Cardinality({i \in Annotations : queue[i].created = days[n]}),
         cumulative  |-> Cardinality(seen(n))]]
  BY <1>1, <1>2, CumulativeCounts
<1>4. /\ DOMAIN Timeline = 1 .. N
      /\ \A n \in 1 .. N :
           /\ Timeline[n].date = days[n]
           /\ Timeline[n].annotations = Cardinality({i \in Annotations : queue[i].created = days[n]})
           /\ Timeline[n].cumulative = Cardinality(seen(n))
  <2> HIDE DEF days, seen
  <2> QED
    BY <1>3
<1>5. FoldLeft(LAMBDA sum, day : sum + day.annotations, 0, Timeline) = Cardinality(Annotations)
  BY <1>1, <1>2, <1>4, AnnotationsAddUp
<1>6. ASSUME NEW n \in 1 .. N
      PROVE  seen(n) = marked(n)
  <2>1. \A i \in Annotations : queue[i].created \in Nat /\ queue[i].mode \in ModesSeen
    BY AnnotationFacts DEF ModesSeen
  <2>2. \A k \in 1 .. N : days[k] \in Nat /\ k \in Nat
    BY <1>2
  <2>3. \A k \in 1 .. N : k <= n <=> days[k] <= days[n]
    <3>1. \A k \in 1 .. N : k < n \/ k = n \/ n < k
      BY <2>2
    <3>2. \A k, m \in 1 .. N : k < m => days[k] < days[m]
      BY <1>1
    <3> QED
      BY <2>2, <3>1, <3>2
  <2>4. ASSUME NEW mode \in seen(n)
        PROVE  mode \in marked(n)
    <3>1. PICK k \in 1 .. n : FirstSeen(mode) = days[k]
      OBVIOUS
    <3>2. k \in 1 .. N /\ days[k] <= days[n]
      BY <2>3
    <3>3. PICK i \in Annotations : queue[i].mode = mode /\ queue[i].created = FirstSeen(mode)
      BY FirstSeenIsFirst
    <3> QED
      BY <3>1, <3>2, <3>3
  <2>5. ASSUME NEW mode \in marked(n)
        PROVE  mode \in seen(n)
    <3>1. PICK i \in Annotations : queue[i].mode = mode /\ queue[i].created <= days[n]
      OBVIOUS
    <3>2. mode \in ModesSeen
      BY <2>1, <3>1
    <3>3. PICK j \in Annotations : queue[j].mode = mode /\ queue[j].created = FirstSeen(mode)
      BY <3>2, FirstSeenIsFirst
    <3>4. queue[i].created >= FirstSeen(mode)
      BY <3>1, <3>2, FirstSeenIsFirst
    <3>5. PICK k \in 1 .. N : queue[j].created = days[k]
      BY <1>1
    <3>6. days[k] <= days[n]
      BY <2>1, <2>2, <3>1, <3>3, <3>4, <3>5
    <3>7. k \in 1 .. n
      BY <2>2, <2>3, <3>6
    <3> QED
      BY <3>2, <3>3, <3>5, <3>7
  <2> QED
    BY <2>4, <2>5
<1>7. \A n \in DOMAIN Timeline :
        Timeline[n].cumulative = Cardinality(
          {queue[i].mode : i \in {j \in Annotations : queue[j].created <= Timeline[n].date}})
  <2> SUFFICES ASSUME NEW n \in 1 .. N
               PROVE  Timeline[n].cumulative = Cardinality(
                        {queue[i].mode : i \in {j \in Annotations :
                                                  queue[j].created <= Timeline[n].date}})
    BY <1>4
  <2>1. Timeline[n].cumulative = Cardinality(marked(n)) /\ Timeline[n].date = days[n]
    BY <1>4, <1>6
  <2> QED
    BY <2>1
<1> QED
  BY <1>5, <1>7 DEF TimelineCountsModes

\* For any rows, modes and window, the timeline of the convergence page counts
\* every annotation once and every mode on the day it was first named.
THEOREM TimelineIsExact == Spec => []TimelineCountsModes
<1>1. RatedInv => TimelineCountsModes
  BY PageCounts DEF RatedInv
<1> QED
  BY <1>1, RatedInvariant, PTL
=============================================================================
