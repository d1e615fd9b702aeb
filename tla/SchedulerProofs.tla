-------------------------- MODULE SchedulerProofs --------------------------
(***************************************************************************)
(* Theorems about the scheduler, for every set of accounts and clients and *)
(* every value of the settings.                                            *)
(***************************************************************************)
EXTENDS Scheduler, FiniteSetTheorems, SequenceTheorems, TLAPS

-----------------------------------------------------------------------------
(* Lists without duplicates: what filtering the ready list returns, for    *)
(* every list and every set of removed accounts.                           *)

\* Ranks are numbers between one and the size of the set.
LEMMA RankBounds ==
    ASSUME NEW K \in SUBSET Nat, IsFiniteSet(K), NEW i \in K
    PROVE  Rank(K, i) \in 1..Cardinality(K)
<1> DEFINE below == {j \in K : j <= i}
<1>1. IsFiniteSet(below) /\ Cardinality(below) <= Cardinality(K)
  BY FS_Subset
<1>2. Cardinality(below) # 0
  <2>1. i \in below
    OBVIOUS
  <2> QED
    BY <1>1, <2>1, FS_EmptySet
<1>3. Cardinality(below) \in Nat /\ Cardinality(K) \in Nat
  BY <1>1, FS_CardinalityType
<1> QED
  BY <1>1, <1>2, <1>3 DEF Rank

\* A smaller index has a smaller rank.
LEMMA RankMonotone ==
    ASSUME NEW K \in SUBSET Nat, IsFiniteSet(K), NEW i \in K, NEW j \in K, i < j
    PROVE  Rank(K, i) < Rank(K, j)
<1> DEFINE low == {m \in K : m <= i}
           upp == {m \in K : m <= j}
<1>1. IsFiniteSet(upp)
  BY FS_Subset
<1>2. low \in SUBSET upp
  <2> SUFFICES ASSUME NEW m \in K, m <= i PROVE m <= j
    OBVIOUS
  <2> QED
    BY i \in Nat, j \in Nat, m \in Nat
<1>3. j \in upp /\ j \notin low
  BY i \in Nat, j \in Nat
<1>4. IsFiniteSet(low) /\ Cardinality(low) <= Cardinality(upp)
      /\ Cardinality(upp) # Cardinality(low)
  BY <1>1, <1>2, <1>3, FS_Subset
<1>5. Cardinality(low) \in Nat /\ Cardinality(upp) \in Nat
  BY <1>1, <1>4, FS_CardinalityType
<1> QED
  BY <1>4, <1>5 DEF Rank

\* Different indices have different ranks.
LEMMA RankInjective ==
    ASSUME NEW K \in SUBSET Nat, IsFiniteSet(K), NEW i \in K, NEW j \in K,
           Rank(K, i) = Rank(K, j)
    PROVE  i = j
<1>1. Rank(K, i) \in Nat
  <2>1. Rank(K, i) \in 1..Cardinality(K)
    BY RankBounds
  <2>2. Cardinality(K) \in Nat
    BY FS_CardinalityType
  <2> QED
    BY <2>1, <2>2
<1>2. ~(i < j)
  BY <1>1, RankMonotone
<1>3. ~(j < i)
  BY <1>1, RankMonotone
<1> QED
  BY <1>2, <1>3, i \in Nat, j \in Nat

\* Every number up to the size of the set is the rank of an index, so Nth
\* picks an index of the set.
LEMMA NthProperties ==
    ASSUME NEW K \in SUBSET Nat, IsFiniteSet(K), NEW k \in 1..Cardinality(K)
    PROVE  Nth(K, k) \in K /\ Rank(K, Nth(K, k)) = k
<1> DEFINE n == Cardinality(K)
           r == [i \in K |-> Rank(K, i)]
<1>1. n \in Nat
  BY FS_CardinalityType
<1>2. r \in [K -> 1..n]
  BY RankBounds
<1>3. r \in Injection(K, 1..n)
  <2>1. \A i, j \in K : r[i] = r[j] => i = j
    BY RankInjective
  <2> QED
    BY <1>2, <2>1 DEF Injection, IsInjective
<1>4. IsFiniteSet(1..n) /\ Cardinality(1..n) = n
  <2>1. IsFiniteSet(1..n) /\ Cardinality(1..n) = IF 1 > n THEN 0 ELSE n - 1 + 1
    BY <1>1, FS_Interval
  <2> QED
    BY <1>1, <2>1
<1>5. r \in Surjection(K, 1..n)
  BY <1>3, <1>4, FS_Injection
<1>6. \E i \in K : r[i] = k
  BY <1>5 DEF Surjection
<1>7. \E i \in K : Rank(K, i) = k
  BY <1>6
<1> QED
  BY <1>7 DEF Nth

\* Filtering keeps exactly the elements outside P, creates no duplicate, and
\* yields a sequence over the same set.
LEMMA WithoutProperties ==
    ASSUME NEW S, NEW s \in Seq(S), NEW P
    PROVE  /\ Without(s, P) \in Seq(S)
           /\ Elems(Without(s, P)) = Elems(s) \ P
           /\ NoDuplicates(s) => NoDuplicates(Without(s, P))
<1> DEFINE K == {i \in DOMAIN s : s[i] \notin P}
           n == Cardinality(K)
           w == [k \in 1..n |-> s[Nth(K, k)]]
<1>1. Without(s, P) = w
  BY DEF Without
<1>2. Len(s) \in Nat /\ DOMAIN s = 1..Len(s) /\ \A i \in DOMAIN s : s[i] \in S
  BY LenProperties, ElementOfSeq
<1>3. K \in SUBSET Nat /\ IsFiniteSet(K)
  <2>1. IsFiniteSet(1..Len(s))
    BY <1>2, FS_Interval
  <2> QED
    BY <1>2, <2>1, FS_Subset
<1>4. n \in Nat
  BY <1>3, FS_CardinalityType
<1> HIDE DEF K, n
<1>5. \A k \in 1..n : Nth(K, k) \in K /\ Rank(K, Nth(K, k)) = k
  BY <1>3, NthProperties DEF n
<1>6. \A i \in K : Rank(K, i) \in 1..n /\ Nth(K, Rank(K, i)) = i
  <2> SUFFICES ASSUME NEW i \in K
               PROVE  Rank(K, i) \in 1..n /\ Nth(K, Rank(K, i)) = i
    OBVIOUS
  <2>1. Rank(K, i) \in 1..n
    BY <1>3, RankBounds DEF n
  <2>2. Nth(K, Rank(K, i)) \in K /\ Rank(K, Nth(K, Rank(K, i))) = Rank(K, i)
    BY <2>1, <1>5
  <2>3. \A a, b \in K : Rank(K, a) = Rank(K, b) => a = b
    BY <1>3, RankInjective
  <2> QED
    BY <2>1, <2>2, <2>3
<1>7. \A i \in K : i \in DOMAIN s /\ s[i] \notin P
  BY DEF K
<1>8. w \in Seq(S)
  <2>1. w \in [1..n -> S]
    BY <1>2, <1>5, <1>7
  <2> QED
    BY <1>4, <2>1, SeqDef
<1>9. DOMAIN w = 1..n
  OBVIOUS
<1>10. Elems(w) = Elems(s) \ P
  <2>1. ASSUME NEW x \in Elems(w) PROVE x \in Elems(s) \ P
    <3>1. PICK k \in 1..n : x = s[Nth(K, k)]
      BY DEF Elems
    <3> QED
      BY <3>1, <1>5, <1>7 DEF Elems
  <2>2. ASSUME NEW x \in Elems(s) \ P PROVE x \in Elems(w)
    <3>1. PICK i \in DOMAIN s : x = s[i]
      BY <2>2 DEF Elems
    <3>2. i \in K
      BY <3>1, <2>2 DEF K
    <3>3. Rank(K, i) \in 1..n /\ w[Rank(K, i)] = x
      BY <3>1, <3>2, <1>6
    <3> QED
      BY <3>3, <1>9 DEF Elems
  <2> QED
    BY <2>1, <2>2
<1>11. ASSUME NoDuplicates(s) PROVE NoDuplicates(w)
  <2> SUFFICES ASSUME NEW k \in 1..n, NEW m \in 1..n, w[k] = w[m]
               PROVE  k = m
    BY <1>9 DEF NoDuplicates
  <2>1. s[Nth(K, k)] = s[Nth(K, m)]
    OBVIOUS
  <2>2. Nth(K, k) = Nth(K, m)
    BY <1>11, <2>1, <1>5, <1>7 DEF NoDuplicates
  <2> QED
    BY <2>2, <1>5
<1> QED
  BY <1>1, <1>8, <1>10, <1>11

\* A listing of a finite set is a sequence without duplicates of its elements.
LEMMA OrdersProperties ==
    ASSUME NEW S, IsFiniteSet(S), NEW s \in Orders(S)
    PROVE  s \in Seq(S) /\ Elems(s) = S /\ NoDuplicates(s)
<1> DEFINE n == Cardinality(S)
<1>1. n \in Nat /\ s \in [1..n -> S] /\ Elems(s) = S
  BY FS_CardinalityType DEF Orders
<1>2. IsFiniteSet(1..n) /\ Cardinality(1..n) = n
  <2>1. IsFiniteSet(1..n) /\ Cardinality(1..n) = IF 1 > n THEN 0 ELSE n - 1 + 1
    BY <1>1, FS_Interval
  <2> QED
    BY <1>1, <2>1
<1>3. s \in Surjection(1..n, S)
  BY <1>1 DEF Surjection, Elems
<1>4. s \in Injection(1..n, S)
  BY <1>2, <1>3, FS_SurjSameCardinalityImpliesInj
<1>5. NoDuplicates(s)
  BY <1>1, <1>4 DEF NoDuplicates, Injection, IsInjective
<1>6. s \in Seq(S)
  BY <1>1, SeqDef
<1> QED
  BY <1>1, <1>5, <1>6

\* Concatenating two lists without duplicates and without common elements.
LEMMA ConcatListProperties ==
    ASSUME NEW S, NEW s \in Seq(S), NEW t \in Seq(S)
    PROVE  /\ s \o t \in Seq(S)
           /\ Elems(s \o t) = Elems(s) \cup Elems(t)
           /\ NoDuplicates(s) /\ NoDuplicates(t) /\ Elems(s) \cap Elems(t) = {}
                 => NoDuplicates(s \o t)
<1> DEFINE m == Len(s)
           n == Len(t)
           u == s \o t
<1>1. /\ m \in Nat /\ n \in Nat /\ DOMAIN s = 1..m /\ DOMAIN t = 1..n
      /\ u \in Seq(S) /\ Len(u) = m + n
      /\ \A i \in 1..(m + n) : u[i] = IF i <= m THEN s[i] ELSE t[i - m]
  BY LenProperties, ConcatProperties
<1>2. DOMAIN u = 1..(m + n)
  BY <1>1, LenProperties
<1> HIDE DEF m, n, u
<1>3. \A i \in 1..m : i \in 1..(m + n) /\ u[i] = s[i]
  BY <1>1
<1>4. \A i \in 1..n : m + i \in 1..(m + n) /\ u[m + i] = t[i]
  <2> SUFFICES ASSUME NEW i \in 1..n PROVE m + i \in 1..(m + n) /\ u[m + i] = t[i]
    OBVIOUS
  <2>1. m + i \in 1..(m + n) /\ ~(m + i <= m) /\ (m + i) - m = i
    BY <1>1
  <2> QED
    BY <1>1, <2>1
<1>5. \A i \in 1..(m + n) : \/ i \in 1..m /\ u[i] = s[i]
                            \/ (i - m) \in 1..n /\ i > m /\ u[i] = t[i - m]
  BY <1>1
<1>6. Elems(u) = Elems(s) \cup Elems(t)
  <2>1. ASSUME NEW x \in Elems(u) PROVE x \in Elems(s) \cup Elems(t)
    <3>1. PICK i \in 1..(m + n) : x = u[i]
      BY <1>2 DEF Elems
    <3> QED
      BY <3>1, <1>1, <1>5 DEF Elems
  <2>2. ASSUME NEW x \in Elems(s) PROVE x \in Elems(u)
    BY <1>1, <1>2, <1>3 DEF Elems
  <2>3. ASSUME NEW x \in Elems(t) PROVE x \in Elems(u)
    <3>1. PICK i \in 1..n : x = t[i]
      BY <1>1 DEF Elems
    <3>2. m + i \in DOMAIN u /\ u[m + i] = x
      BY <3>1, <1>2, <1>4
    <3> QED
      BY <3>2 DEF Elems
  <2> QED
    BY <2>1, <2>2, <2>3
<1>7. ASSUME NoDuplicates(s), NoDuplicates(t), Elems(s) \cap Elems(t) = {}
      PROVE  NoDuplicates(u)
  <2> SUFFICES ASSUME NEW i \in 1..(m + n), NEW j \in 1..(m + n), u[i] = u[j]
               PROVE  i = j
    BY <1>2 DEF NoDuplicates
  <2>1. CASE i \in 1..m /\ u[i] = s[i] /\ j \in 1..m /\ u[j] = s[j]
    BY <1>1, <1>7, <2>1 DEF NoDuplicates
  <2>2. CASE i > m /\ (i - m) \in 1..n /\ u[i] = t[i - m]
             /\ j > m /\ (j - m) \in 1..n /\ u[j] = t[j - m]
    <3>1. i - m = j - m
      BY <1>1, <1>7, <2>2 DEF NoDuplicates
    <3> QED
      BY <1>1, <3>1
  <2>3. ASSUME NEW a \in 1..m, NEW b \in 1..n PROVE s[a] # t[b]
    BY <1>1, <1>7 DEF Elems
  <2> QED
    BY <1>5, <2>1, <2>2, <2>3
<1> QED
  BY <1>1, <1>6, <1>7 DEF u

\* Appending one element.
LEMMA AppendListProperties ==
    ASSUME NEW S, NEW s \in Seq(S), NEW x \in S
    PROVE  /\ Append(s, x) \in Seq(S)
           /\ Elems(Append(s, x)) = Elems(s) \cup {x}
           /\ NoDuplicates(s) /\ x \notin Elems(s) => NoDuplicates(Append(s, x))
<1> DEFINE n == Len(s)
           u == Append(s, x)
<1>1. /\ n \in Nat /\ DOMAIN s = 1..n /\ u \in Seq(S) /\ DOMAIN u = 1..(n + 1)
      /\ \A i \in 1..n : u[i] = s[i]
      /\ u[n + 1] = x
  OBVIOUS
<1> HIDE DEF n, u
<1>2. Elems(u) = Elems(s) \cup {x}
  <2>1. ASSUME NEW y \in Elems(u) PROVE y \in Elems(s) \cup {x}
    <3>1. PICK i \in 1..(n + 1) : y = u[i]
      BY <1>1 DEF Elems
    <3>2. i \in 1..n \/ i = n + 1
      BY <1>1
    <3> QED
      BY <3>1, <3>2, <1>1 DEF Elems
  <2>2. 1..n \subseteq 1..(n + 1) /\ n + 1 \in 1..(n + 1)
    BY <1>1
  <2>3. ASSUME NEW y \in Elems(s) PROVE y \in Elems(u)
    BY <1>1, <2>2 DEF Elems
  <2>4. x \in Elems(u)
    BY <1>1, <2>2 DEF Elems
  <2> QED
    BY <2>1, <2>3, <2>4
<1>3. ASSUME NoDuplicates(s), x \notin Elems(s) PROVE NoDuplicates(u)
  <2> SUFFICES ASSUME NEW i \in 1..(n + 1), NEW j \in 1..(n + 1), u[i] = u[j]
               PROVE  i = j
    BY <1>1 DEF NoDuplicates
  <2>1. (i \in 1..n \/ i = n + 1) /\ (j \in 1..n \/ j = n + 1)
    BY <1>1
  <2>2. \A a \in 1..n : s[a] # x
    BY <1>1, <1>3 DEF Elems
  <2>3. CASE i \in 1..n /\ j \in 1..n
    BY <1>1, <1>3, <2>3 DEF NoDuplicates
  <2> QED
    BY <1>1, <2>1, <2>2, <2>3
<1> QED
  BY <1>1, <1>2, <1>3 DEF u

\* Dropping the head of a list without duplicates removes exactly that element.
LEMMA TailListProperties ==
    ASSUME NEW S, NEW s \in Seq(S), s # <<>>, NoDuplicates(s)
    PROVE  /\ Head(s) \in Elems(s) /\ Tail(s) \in Seq(S)
           /\ Elems(Tail(s)) = Elems(s) \ {Head(s)}
           /\ NoDuplicates(Tail(s))
<1> DEFINE n == Len(s)
           u == Tail(s)
<1>1. /\ n \in Nat \ {0} /\ DOMAIN s = 1..n /\ u \in Seq(S) /\ DOMAIN u = 1..(n - 1)
      /\ \A i \in 1..(n - 1) : u[i] = s[i + 1]
      /\ Head(s) = s[1]
  <2>1. n \in Nat \ {0} /\ DOMAIN s = 1..n /\ Head(s) = s[1]
    BY EmptySeq, LenProperties
  <2>2. u \in Seq(S) /\ Len(u) = n - 1 /\ \A i \in 1..(n - 1) : u[i] = s[i + 1]
    BY HeadTailProperties
  <2> QED
    BY <2>1, <2>2, LenProperties
<1> HIDE DEF n, u
<1>2. \A i \in 1..(n - 1) : i + 1 \in 1..n /\ i + 1 # 1
  BY <1>1
<1>3. \A i \in 1..n : i = 1 \/ (i - 1 \in 1..(n - 1) /\ (i - 1) + 1 = i)
  BY <1>1
<1>4. Head(s) \in Elems(s)
  BY <1>1 DEF Elems
<1>5. Elems(u) = Elems(s) \ {Head(s)}
  <2>1. ASSUME NEW x \in Elems(u) PROVE x \in Elems(s) \ {Head(s)}
    <3>1. PICK i \in 1..(n - 1) : x = s[i + 1]
      BY <1>1 DEF Elems
    <3>2. i + 1 \in DOMAIN s /\ 1 \in DOMAIN s /\ i + 1 # 1
      BY <3>1, <1>1, <1>2
    <3>3. s[i + 1] # s[1]
      BY <3>2 DEF NoDuplicates
    <3> QED
      BY <3>1, <3>2, <3>3, <1>1 DEF Elems
  <2>2. ASSUME NEW x \in Elems(s) \ {Head(s)} PROVE x \in Elems(u)
    <3>1. PICK i \in 1..n : x = s[i]
      BY <1>1 DEF Elems
    <3>2. i - 1 \in DOMAIN u /\ u[i - 1] = x
      BY <3>1, <2>2, <1>1, <1>3
    <3> QED
      BY <3>2 DEF Elems
  <2> QED
    BY <2>1, <2>2
<1>6. NoDuplicates(u)
  <2> SUFFICES ASSUME NEW i \in 1..(n - 1), NEW j \in 1..(n - 1), u[i] = u[j]
               PROVE  i = j
    BY <1>1 DEF NoDuplicates
  <2>1. i + 1 = j + 1
    BY <1>1, <1>2 DEF NoDuplicates
  <2> QED
    BY <1>1, <2>1
<1> QED
  BY <1>1, <1>4, <1>5, <1>6 DEF u

\* A finite non-empty set of numbers has a least and a greatest element.
LEMMA Extremes ==
    ASSUME NEW K \in SUBSET Nat, IsFiniteSet(K), K # {}
    PROVE  /\ \E i \in K : \A j \in K : i <= j
           /\ \E i \in K : \A j \in K : j <= i
<1> DEFINE n == Cardinality(K)
<1>1. n \in Nat \ {0}
  BY FS_CardinalityType, FS_EmptySet
<1>2. 1 \in 1..n /\ n \in 1..n
  BY <1>1
<1>3. \A j \in K : Rank(K, j) \in 1..n
  BY RankBounds
<1> HIDE DEF n
<1>4. PICK lo \in K : Rank(K, lo) = 1
  BY <1>2, NthProperties DEF n
<1>5. PICK hi \in K : Rank(K, hi) = n
  BY <1>2, NthProperties DEF n
<1>6. \A j \in K : lo <= j
  <2> SUFFICES ASSUME NEW j \in K, j < lo PROVE FALSE
    BY lo \in Nat
  <2>1. Rank(K, j) < Rank(K, lo)
    BY RankMonotone
  <2> QED
    BY <1>1, <1>3, <1>4, <2>1
<1>7. \A j \in K : j <= hi
  <2> SUFFICES ASSUME NEW j \in K, hi < j PROVE FALSE
    BY hi \in Nat
  <2>1. Rank(K, hi) < Rank(K, j)
    BY RankMonotone
  <2> QED
    BY <1>1, <1>3, <1>5, <2>1
<1> QED
  BY <1>6, <1>7

\* So a measure on a finite non-empty set has a minimiser and a maximiser.
LEMMA ExtremesOf ==
    ASSUME NEW C, IsFiniteSet(C), C # {}, NEW f \in [C -> Nat]
    PROVE  /\ \E i \in C : \A j \in C : f[i] <= f[j]
           /\ \E i \in C : \A j \in C : f[j] <= f[i]
<1> DEFINE K == {f[i] : i \in C}
<1>1. f \in Surjection(C, K)
  BY DEF Surjection
<1>2. IsFiniteSet(K)
  BY <1>1, FS_Surjection
<1>3. K \in SUBSET Nat /\ K # {}
  OBVIOUS
<1>4. (\E a \in K : \A b \in K : a <= b) /\ (\E a \in K : \A b \in K : b <= a)
  BY <1>2, <1>3, Extremes
<1> QED
  BY <1>4

-----------------------------------------------------------------------------
(* Facts about the operators the actions are built from.                   *)

\* The account transitions the scheduler applies yield accounts.
LEMMA AccountClosed ==
    /\ Fresh \in Account
    /\ \A a \in Account :
          /\ MarkReady(a) \in Account
          /\ ParkKnownExhausted(a) \in Account
          /\ \A b \in BOOLEAN : SetQuota(a, b) \in Account
          /\ \A r \in Reasons : MarkUnavailable(a, r, "future", "other") \in Account
          /\ [a EXCEPT !.retryAt = "due"] \in Account
<1> USE DEF Account, Pools, RetryAts, Codes
<1>1. Fresh \in Account
  BY DEF Fresh, Reasons
<1>2. ASSUME NEW a \in Account PROVE MarkReady(a) \in Account
  BY DEF MarkReady, Reasons
<1>3. ASSUME NEW a \in Account PROVE ParkKnownExhausted(a) \in Account
  BY DEF ParkKnownExhausted, Reasons
<1>4. ASSUME NEW a \in Account, NEW b \in BOOLEAN PROVE SetQuota(a, b) \in Account
  BY DEF SetQuota
<1>5. ASSUME NEW a \in Account, NEW r \in Reasons
      PROVE  MarkUnavailable(a, r, "future", "other") \in Account
  BY DEF MarkUnavailable
<1>6. ASSUME NEW a \in Account PROVE [a EXCEPT !.retryAt = "due"] \in Account
  OBVIOUS
<1> QED
  BY <1>1, <1>2, <1>3, <1>4, <1>5, <1>6

\* They leave the pool the code names.
LEMMA AccountPools ==
    /\ Fresh.pool = "ready"
    /\ \A a \in Account :
          /\ MarkReady(a).pool = "ready"
          /\ ParkKnownExhausted(a).pool = "unavailable"
          /\ \A b \in BOOLEAN : SetQuota(a, b).pool = a.pool
          /\ \A r \in Reasons :
                MarkUnavailable(a, r, "future", "other").pool = "unavailable"
          /\ [a EXCEPT !.retryAt = "due"].pool = a.pool
BY DEF Account, Fresh, MarkReady, ParkKnownExhausted, SetQuota, MarkUnavailable

\* The remainder is below the modulus.
LEMMA ModBounds ==
    ASSUME NEW a \in Nat, NEW m \in Nat \ {0}
    PROVE  (a % m) \in 0..(m - 1)
OBVIOUS

\* Adding less than a full turn changes a counter of width m.
LEMMA ModMoves ==
    ASSUME NEW m \in Nat \ {0}, NEW a \in 0..(m - 1), NEW k \in 1..(m - 1)
    PROVE  (a + k) % m # a
OBVIOUS

\* When the scan has candidates, the strategy chooses one of the best of them.
LEMMA ChosenIsFinalist ==
    ASSUME TypeOK, Candidates # {}
    PROVE  Chosen \in Finalists /\ Finalists \in SUBSET Candidates
<1> USE SchedulerAssumption
<1>1. /\ DOMAIN ready = 1..Len(ready) /\ Len(ready) \in Nat
      /\ \A i \in DOMAIN ready : ready[i] \in Ids
  BY LenProperties, ElementOfSeq DEF TypeOK
<1>2. Candidates \in SUBSET Nat /\ IsFiniteSet(Candidates)
  <2>1. IsFiniteSet(1..Len(ready))
    BY <1>1, FS_Interval
  <2> QED
    BY <1>1, <2>1, FS_Subset DEF Candidates
<1>3. \A i \in Candidates : ready[i] \in Ids
  BY <1>1 DEF Candidates
<1> DEFINE T == TopPriority(Candidates)
<1>4. T \in SUBSET Candidates /\ T # {}
  <2> DEFINE f == [i \in Candidates |-> priority[ready[i]]]
  <2>1. f \in [Candidates -> Nat]
    BY <1>3 DEF TypeOK
  <2>2. \E i \in Candidates : \A j \in Candidates : f[j] <= f[i]
    <3> HIDE DEF f
    <3> QED
      BY <1>2, <2>1, ExtremesOf
  <2> QED
    BY <2>2 DEF TopPriority
<1>5. Finalists \in SUBSET T /\ Finalists # {}
  <2> DEFINE f == [i \in T |-> active[ready[i]]]
  <2> HIDE DEF T
  <2>1. f \in [T -> Nat]
    BY <1>3, <1>4 DEF TypeOK
  <2>2. IsFiniteSet(T)
    BY <1>2, <1>4, FS_Subset
  <2>3. \E i \in T : \A j \in T : f[i] <= f[j]
    <3> HIDE DEF f
    <3> QED
      BY <1>4, <2>1, <2>2, ExtremesOf
  <2>4. \E i \in T : \A j \in T : active[ready[i]] <= active[ready[j]]
    BY <2>3
  <2>5. Finalists = LeastLoaded(T)
    BY DEF Finalists, T
  <2> QED
    BY <2>4, <2>5 DEF LeastLoaded
<1>6. Finalists \in SUBSET Candidates
  BY <1>4, <1>5
<1>7. Finalists \in SUBSET Nat /\ IsFiniteSet(Finalists)
  BY <1>2, <1>6, FS_Subset
<1> HIDE DEF T
<1>8. CASE conf.strategy = "fill-first"
  <2> DEFINE f == [i \in Finalists |-> ready[i]]
  <2>1. f \in [Finalists -> Nat]
    BY <1>3, <1>6
  <2>2. \E i \in Finalists : \A j \in Finalists : f[i] <= f[j]
    <3> HIDE DEF f
    <3> QED
      BY <1>5, <1>7, <2>1, ExtremesOf
  <2>3. \E i \in Finalists : \A j \in Finalists : ready[i] <= ready[j]
    BY <2>2
  <2> QED
    BY <1>6, <1>8, <2>3 DEF Chosen
<1>9. CASE conf.strategy # "fill-first"
  <2> DEFINE n == Cardinality(Finalists)
             k == 1 + (rrCursor % n)
  <2>1. n \in Nat \ {0}
    BY <1>5, <1>7, FS_CardinalityType, FS_EmptySet
  <2>2. rrCursor % n \in 0..(n - 1)
    <3> HIDE DEF n
    <3> QED
      BY <2>1, ModBounds DEF TypeOK
  <2>3. k \in 1..n
    <3> HIDE DEF n
    <3> QED
      BY <2>1, <2>2
  <2>4. Nth(Finalists, k) \in Finalists
    BY <1>7, <2>3, NthProperties
  <2> QED
    BY <1>6, <1>9, <2>4 DEF Chosen
<1> QED
  BY <1>8, <1>9

\* The granted account is present, ready, below its limit, with quota left,
\* and stays in the list; its index is the one the strategy chose.
LEMMA PickProperties ==
    ASSUME TypeOK, Candidates # {}
    PROVE  LET id == ready[Chosen] IN
           /\ id \in Ids /\ id \in present /\ id \in Elems(ready) \ Exhausted
           /\ Available(life[id], active[id], maxActive[id])
           /\ Eligible(id, HotAt(Chosen))
<1>1. Chosen \in Candidates
  BY ChosenIsFinalist
<1>2. Chosen \in DOMAIN ready
  BY <1>1 DEF Candidates
<1>3. ready[Chosen] \in Ids
  BY <1>2, LenProperties, ElementOfSeq DEF TypeOK
<1> QED
  BY <1>1, <1>2, <1>3 DEF Candidates, CanServe, Elems

\* Parking the exhausted accounts keeps the types of what it changes.
LEMMA ParkTypes ==
    ASSUME TypeOK, ParkExhausted
    PROVE  /\ life' \in [Ids -> Account]
           /\ ready' \in Seq(Ids)
           /\ revision' \in 0..(RevisionMod - 1)
<1> USE SchedulerAssumption
<1>1. life' \in [Ids -> Account]
  BY AccountClosed DEF TypeOK, ParkExhausted
<1>2. ready' \in Seq(Ids)
  BY WithoutProperties DEF TypeOK, ParkExhausted
<1>3. Exhausted \in SUBSET Ids
  BY DEF Exhausted, TypeOK
<1>4. Cardinality(Exhausted) \in Nat
  BY <1>3, FS_Subset, FS_CardinalityType
<1>5. revision' \in 0..(RevisionMod - 1)
  <2>1. revision + Cardinality(Exhausted) \in Nat
    BY <1>4 DEF TypeOK
  <2> QED
    BY <2>1, ModBounds DEF ParkExhausted
<1> QED
  BY <1>1, <1>2, <1>5

\* Granting keeps the types of what it changes.
LEMMA GrantTypes ==
    ASSUME TypeOK, NEW c \in Clients, NEW id \in Ids, NEW h \in SUBSET Ids,
           NEW bind \in [Keys -> Ids \cup {NoId}], Grant(c, id, h, bind)
    PROVE  /\ active' \in [Ids -> Nat]
           /\ hot' \subseteq Ids
           /\ sticky' \in [Keys -> Ids \cup {NoId}]
           /\ pc' \in [Clients -> PCs]
           /\ lease' \in [Clients -> Ids \cup {NoId}]
           /\ \A d \in Clients : lease'[d] # NoId <=> pc'[d] = "leased"
<1> USE SchedulerAssumption
<1>1. active' \in [Ids -> Nat]
  BY DEF TypeOK, Grant
<1>2. hot' \subseteq Ids
  BY DEF Grant, EnsureHot
<1>3. sticky' \in [Keys -> Ids \cup {NoId}]
  BY DEF Grant
<1>4. pc' \in [Clients -> PCs] /\ lease' \in [Clients -> Ids \cup {NoId}]
  BY DEF TypeOK, Grant, PCs
<1>5. \A d \in Clients : lease'[d] # NoId <=> pc'[d] = "leased"
  BY DEF TypeOK, Grant, NoId
<1> QED
  BY <1>1, <1>2, <1>3, <1>4, <1>5

\* A miss leaves sticky bindings to accounts or to nothing.
LEMMA AfterMissType ==
    ASSUME TypeOK, NEW c \in Clients, NEW expired \in BOOLEAN
    PROVE  AfterMiss(c, expired) \in [Keys -> Ids \cup {NoId}]
BY DEF TypeOK, AfterMiss

\* Counting one more pending signal.
LEMMA SignalCount == TypeOK /\ Signals => signals' \in Nat
BY DEF TypeOK, Signals

\* A modular increment stays in the counter's range.
LEMMA NextRevision ==
    ASSUME TypeOK
    PROVE  (revision + 1) % RevisionMod \in 0..(RevisionMod - 1)
<1>1. revision + 1 \in Nat /\ RevisionMod \in Nat \ {0}
  BY SchedulerAssumption DEF TypeOK
<1> QED
  BY <1>1, ModBounds

-----------------------------------------------------------------------------
(* Type correctness.                                                       *)

\* The initial state is well typed.
LEMMA TypeInit == Init => TypeOK
<1> SUFFICES ASSUME Init PROVE TypeOK
  OBVIOUS
<1> USE SchedulerAssumption
<1>1. life \in [Ids -> Account] /\ present \subseteq Ids
  BY AccountClosed DEF Init
<1>2. ready \in Seq(Ids)
  <2> DEFINE R == {id \in present : life[id].pool = "ready"}
  <2>1. R \in SUBSET Ids
    BY <1>1
  <2>2. IsFiniteSet(R) /\ ready \in Orders(R)
    BY <2>1, FS_Subset DEF Init
  <2>3. ready \in Seq(R)
    BY <2>2, OrdersProperties
  <2> QED
    BY <2>1, <2>3, SeqMonotonic
<1>3. conf \in [cap : Nat \ {0}, activeSize : Nat,
               strategy : {"round-robin", "fill-first"}, stickyOn : BOOLEAN]
  BY DEF Init
<1>4. maxActive \in [Ids -> Nat \ {0}]
  <2>1. PICK m \in [Ids -> MaxActives] :
             maxActive = [id \in Ids |-> Lower(m[id], conf.cap)]
    BY DEF Init
  <2>2. \A id \in Ids : m[id] \in Nat \ {0} /\ conf.cap \in Nat \ {0}
    BY <1>3
  <2> QED
    BY <2>1, <2>2 DEF Lower
<1>5. revision \in 0..(RevisionMod - 1)
  BY ModBounds DEF Init
<1>6. /\ active \in [Ids -> Nat] /\ priority \in [Ids -> Nat] /\ hot \subseteq Ids
      /\ sticky \in [Keys -> Ids \cup {NoId}] /\ rrCursor \in Nat
      /\ notify \in 0..1 /\ recvq \in Seq(Clients) /\ signals \in Nat
  <2>1. active \in [Ids -> Nat] /\ hot \subseteq Ids /\ rrCursor \in Nat
    BY DEF Init
  <2>2. priority \in [Ids -> Nat]
    BY DEF Init
  <2>3. sticky \in [Keys -> Ids \cup {NoId}]
    BY DEF Init
  <2>4. notify \in 0..1 /\ recvq \in Seq(Clients) /\ signals \in Nat
    BY DEF Init
  <2> QED
    BY <2>1, <2>2, <2>3, <2>4
<1>7. /\ pc \in [Clients -> PCs] /\ snap \in [Clients -> Nat]
      /\ lease \in [Clients -> Ids \cup {NoId}]
      /\ \A c \in Clients : lease[c] # NoId <=> pc[c] = "leased"
  BY DEF Init, PCs
<1> QED
  BY <1>1, <1>2, <1>3, <1>4, <1>5, <1>6, <1>7 DEF TypeOK

\* What Go's channels guarantee of the select in AcquireSticky, of use to the
\* other invariants: a blocked client is queued once and no token is buffered.
WaitQueue ==
    /\ NoDuplicates(recvq)
    /\ Elems(recvq) = {c \in Clients : pc[c] = "parked"}
    /\ recvq # <<>> => notify = 0

\* Every step of a client, of the channel, of the pool's owners and of the
\* settings keeps the types.
LEMMA TypeStep == TypeOK /\ WaitQueue /\ [Next]_vars => TypeOK'
<1> SUFFICES ASSUME TypeOK, WaitQueue, [Next]_vars PROVE TypeOK'
  OBVIOUS
<1> USE SchedulerAssumption
<1> DEFINE Revisions == 0..(RevisionMod - 1)
<1>1. ASSUME NEW c \in Clients, AcquireEmpty(c) PROVE TypeOK'
  BY <1>1 DEF AcquireEmpty, Runnable, TypeOK, PCs, acctVars, chanVars
<1>2. ASSUME NEW c \in Clients, AcquireSticky(c) PROVE TypeOK'
  <2>1. Entry(c) \in Ids
    BY <1>2 DEF AcquireSticky, Entry, TypeOK
  <2>2. Grant(c, Entry(c), hot, sticky) /\ hot \in SUBSET Ids
        /\ sticky \in [Keys -> Ids \cup {NoId}]
    BY <1>2 DEF AcquireSticky, TypeOK
  <2>3. /\ active' \in [Ids -> Nat] /\ hot' \subseteq Ids
        /\ sticky' \in [Keys -> Ids \cup {NoId}] /\ pc' \in [Clients -> PCs]
        /\ lease' \in [Clients -> Ids \cup {NoId}]
        /\ \A d \in Clients : lease'[d] # NoId <=> pc'[d] = "leased"
    BY <2>1, <2>2, GrantTypes
  <2> QED
    BY <1>2, <2>3 DEF AcquireSticky, TypeOK, chanVars
<1>3. ASSUME NEW c \in Clients, AcquirePick(c) PROVE TypeOK'
  <2>1. PICK expired \in BOOLEAN :
          /\ Candidates # {} /\ ParkExhausted
          /\ Grant(c, ready[Chosen], hot \ Exhausted, AfterMiss(c, expired))
          /\ rrCursor' = IF conf.strategy = "fill-first" THEN rrCursor
                         ELSE (rrCursor + 1) % CursorMod
          /\ UNCHANGED <<present, maxActive, priority, conf, chanVars, snap>>
    BY <1>3 DEF AcquirePick
  <2>2. ready[Chosen] \in Ids /\ hot \ Exhausted \in SUBSET Ids
        /\ AfterMiss(c, expired) \in [Keys -> Ids \cup {NoId}]
    BY <2>1, PickProperties, AfterMissType DEF TypeOK
  <2>3. /\ active' \in [Ids -> Nat] /\ hot' \subseteq Ids
        /\ sticky' \in [Keys -> Ids \cup {NoId}] /\ pc' \in [Clients -> PCs]
        /\ lease' \in [Clients -> Ids \cup {NoId}]
        /\ \A d \in Clients : lease'[d] # NoId <=> pc'[d] = "leased"
    BY <2>1, <2>2, GrantTypes
  <2>4. rrCursor' \in Nat
    <3>1. rrCursor + 1 \in Nat /\ CursorMod \in Nat \ {0}
      BY DEF TypeOK
    <3>2. (rrCursor + 1) % CursorMod \in 0..(CursorMod - 1)
      BY <3>1, ModBounds
    <3> QED
      BY <2>1, <3>1, <3>2 DEF TypeOK
  <2>5. life' \in [Ids -> Account] /\ ready' \in Seq(Ids) /\ revision' \in Revisions
    BY <2>1, ParkTypes
  <2> QED
    BY <2>1, <2>3, <2>4, <2>5 DEF TypeOK, chanVars
<1>4. ASSUME NEW c \in Clients, AcquireWait(c) PROVE TypeOK'
  <2> DEFINE left == {id \in present : life[id].pool = "ready"} \ Exhausted
  <2>1. PICK expired \in BOOLEAN :
          /\ Miss(c, expired) /\ ParkExhausted
          /\ hot' = hot \ Exhausted /\ sticky' = AfterMiss(c, expired)
          /\ snap' = [snap EXCEPT ![c] = Cardinality(left)]
          /\ pc' = [pc EXCEPT ![c] = "unlocked"]
          /\ UNCHANGED <<present, active, maxActive, priority, conf, rrCursor,
                         chanVars, lease>>
    BY <1>4 DEF AcquireWait
  <2>2. left \in SUBSET Ids
    BY DEF TypeOK
  <2>3. Cardinality(left) \in Nat
    BY <2>2, FS_Subset, FS_CardinalityType
  <2>4. snap' \in [Clients -> Nat]
    <3> HIDE DEF left
    <3> QED
      BY <2>1, <2>3 DEF TypeOK
  <2>5. sticky' \in [Keys -> Ids \cup {NoId}]
    BY <2>1, AfterMissType
  <2>6. life' \in [Ids -> Account] /\ ready' \in Seq(Ids) /\ revision' \in Revisions
    BY <2>1, ParkTypes
  <2>7. /\ pc' \in [Clients -> PCs] /\ lease' = lease
        /\ \A d \in Clients : lease'[d] # NoId <=> pc'[d] = "leased"
    BY <2>1 DEF TypeOK, PCs, Miss, Runnable
  <2>8. hot' \subseteq Ids
    BY <2>1 DEF TypeOK
  <2> QED
    BY <2>1, <2>4, <2>5, <2>6, <2>7, <2>8 DEF TypeOK, chanVars
<1>5. ASSUME NEW c \in Clients, Select(c) PROVE TypeOK'
  <2>1. \/ /\ notify' = 0 /\ pc' = [pc EXCEPT ![c] = "woken"]
           /\ snap' = [snap EXCEPT ![c] = 0] /\ recvq' = recvq
        \/ /\ recvq' = Append(recvq, c) /\ pc' = [pc EXCEPT ![c] = "parked"]
           /\ notify' = notify /\ snap' = snap
    BY <1>5 DEF Select
  <2>2. pc[c] = "unlocked" /\ lease' = lease
    BY <1>5 DEF Select
  <2>3. /\ notify \in 0..1 /\ snap \in [Clients -> Nat] /\ pc \in [Clients -> PCs]
        /\ recvq \in Seq(Clients)
        /\ \A d \in Clients : lease[d] # NoId <=> pc[d] = "leased"
    BY DEF TypeOK
  <2>4. Append(recvq, c) \in Seq(Clients)
    BY <2>3, AppendListProperties
  <2>5. notify' \in 0..1 /\ snap' \in [Clients -> Nat] /\ recvq' \in Seq(Clients)
    <3>1. notify' \in 0..1
      BY <2>1, <2>3
    <3>2. snap' \in [Clients -> Nat]
      BY <2>1, <2>3
    <3>3. recvq' \in Seq(Clients)
      BY <2>1, <2>3, <2>4
    <3> QED
      BY <3>1, <3>2, <3>3
  <2>6. /\ pc' \in [Clients -> PCs]
        /\ \A d \in Clients : lease'[d] # NoId <=> pc'[d] = "leased"
    BY <2>1, <2>2, <2>3 DEF PCs
  <2> QED
    BY <1>5, <2>2, <2>5, <2>6 DEF Select, TypeOK, acctVars
<1>6. ASSUME NEW c \in Clients, CtxDone(c) PROVE TypeOK'
  <2>1. recvq' \in Seq(Clients)
    BY <1>6, WithoutProperties DEF CtxDone, TypeOK
  <2>2. /\ pc' \in [Clients -> PCs] /\ lease' = lease
        /\ \A d \in Clients : lease'[d] # NoId <=> pc'[d] = "leased"
    BY <1>6 DEF CtxDone, TypeOK, PCs
  <2>3. snap' \in [Clients -> Nat]
    BY <1>6 DEF CtxDone, TypeOK
  <2> QED
    BY <1>6, <2>1, <2>2, <2>3 DEF CtxDone, TypeOK, acctVars
<1>7. CASE Signal
  <2>1. CASE recvq # <<>>
    <3>1. Head(recvq) \in Clients /\ Tail(recvq) \in Seq(Clients)
      BY <2>1, HeadTailProperties DEF TypeOK
    <3>2. pc[Head(recvq)] # "leased"
      BY <2>1, TailListProperties DEF TypeOK, WaitQueue
    <3>3. /\ pc' \in [Clients -> PCs] /\ lease' = lease
          /\ \A d \in Clients : lease'[d] # NoId <=> pc'[d] = "leased"
      <4>1. lease' = lease /\ pc' = [pc EXCEPT ![Head(recvq)] = "woken"]
        BY <1>7, <2>1 DEF Signal
      <4> QED
        BY <3>1, <3>2, <4>1 DEF TypeOK, PCs
    <3>4. snap' \in [Clients -> Nat] /\ signals' \in Nat
      <4>1. /\ snap' = [snap EXCEPT ![Head(recvq)] = 0]
            /\ signals > 0 /\ signals' = signals - 1
        BY <1>7, <2>1 DEF Signal
      <4>2. snap \in [Clients -> Nat] /\ signals \in Nat
        BY DEF TypeOK
      <4> QED
        BY <3>1, <4>1, <4>2
    <3> QED
      BY <1>7, <2>1, <3>1, <3>3, <3>4 DEF Signal, TypeOK, acctVars
  <2>2. CASE recvq = <<>>
    BY <1>7, <2>2 DEF Signal, TypeOK, acctVars
  <2> QED
    BY <2>1, <2>2
<1>8. ASSUME NEW c \in Clients, MoveUnavailable(c) PROVE TypeOK'
  <2> DEFINE id == lease[c]
  <2>1. id \in Ids
    BY <1>8 DEF MoveUnavailable, TypeOK
  <2>2. PICK reason \in ParkReasons :
          LET parked == MarkUnavailable(life[id], reason, "future", "other") IN
          /\ life' = [life EXCEPT ![id] = parked]
          /\ ready' = Without(ready, {id}) /\ hot' = hot \ {id}
          /\ sticky' = [k \in Keys |-> IF sticky[k] = id THEN NoId ELSE sticky[k]]
          /\ revision' \in (IF parked = life[id] THEN {revision} ELSE {})
                            \cup {(revision + 1) % RevisionMod}
    BY <1>8 DEF MoveUnavailable
  <2>3. life' \in [Ids -> Account]
    BY <2>1, <2>2, AccountClosed DEF TypeOK
  <2>4. ready' \in Seq(Ids) /\ hot' \subseteq Ids
    BY <2>2, WithoutProperties DEF TypeOK
  <2>5. sticky' \in [Keys -> Ids \cup {NoId}]
    BY <2>2 DEF TypeOK
  <2>6. revision' \in Revisions
    BY <2>2, NextRevision DEF TypeOK
  <2> QED
    BY <1>8, <2>3, <2>4, <2>5, <2>6 DEF MoveUnavailable, TypeOK, chanVars
<1>9. ASSUME NEW c \in Clients, RecordUsage(c) PROVE TypeOK'
  <2>1. PICK exhausted \in BOOLEAN :
             life' = [life EXCEPT ![lease[c]] = SetQuota(life[lease[c]], exhausted)]
    BY <1>9 DEF RecordUsage
  <2>2. lease[c] \in Ids
    BY <1>9 DEF RecordUsage, TypeOK
  <2>3. life' \in [Ids -> Account]
    BY <2>1, <2>2, AccountClosed DEF TypeOK
  <2> QED
    BY <1>9, <2>3 DEF RecordUsage, TypeOK, chanVars
<1>10. ASSUME NEW c \in Clients, Release(c) PROVE TypeOK'
  <2>1. active' \in [Ids -> Nat]
    <3>1. CASE lease[c] \in present /\ active[lease[c]] > 0
      <4>1. lease[c] \in Ids
        BY <3>1 DEF TypeOK
      <4>2. active[lease[c]] - 1 \in Nat
        <5>1. active[lease[c]] \in Nat
          BY <4>1 DEF TypeOK
        <5> QED
          BY <3>1, <5>1
      <4>3. active' = [active EXCEPT ![lease[c]] = active[lease[c]] - 1]
        BY <1>10, <3>1 DEF Release
      <4> QED
        BY <4>1, <4>2, <4>3 DEF TypeOK
    <3>2. CASE ~(lease[c] \in present /\ active[lease[c]] > 0)
      BY <1>10, <3>2 DEF Release, TypeOK
    <3> QED
      BY <3>1, <3>2
  <2>2. /\ pc' \in [Clients -> PCs] /\ lease' \in [Clients -> Ids \cup {NoId}]
        /\ \A d \in Clients : lease'[d] # NoId <=> pc'[d] = "leased"
    BY <1>10 DEF Release, TypeOK, PCs
  <2> QED
    BY <1>10, <2>1, <2>2 DEF Release, Signals, TypeOK
<1>11. CASE PromoteDue
  <2>1. Due \in SUBSET Ids
    BY DEF Due, TypeOK
  <2>2. life' \in [Ids -> Account]
    BY <1>11, AccountClosed DEF PromoteDue, TypeOK
  <2>3. ready' \in Seq(Ids)
    <3>1. PICK s \in Orders(Due) : ready' = ready \o s
      BY <1>11 DEF PromoteDue
    <3>2. s \in Seq(Due)
      BY <2>1, FS_Subset, OrdersProperties
    <3>3. s \in Seq(Ids)
      BY <2>1, <3>2, SeqMonotonic
    <3> QED
      BY <3>1, <3>3, ConcatProperties DEF TypeOK
  <2>4. revision' \in Revisions
    BY <1>11, NextRevision DEF PromoteDue
  <2> QED
    BY <1>11, <2>2, <2>3, <2>4, SignalCount DEF PromoteDue, TypeOK
<1>12. ASSUME NEW id \in Ids, NEW item \in UpsertItems, NEW limit \in MaxActives,
              NEW prio \in Priorities, Upsert(id, item, limit, prio)
       PROVE  TypeOK'
  <2>1. Without(ready, {id}) \in Seq(Ids)
    BY WithoutProperties DEF TypeOK
  <2>2. ready' \in Seq(Ids)
    BY <1>12, <2>1, AppendListProperties DEF Upsert
  <2>3. maxActive' \in [Ids -> Nat \ {0}]
    BY <1>12 DEF Upsert, Lower, TypeOK
  <2>4. revision' \in Revisions
    BY <1>12, NextRevision DEF Upsert
  <2>5. life' \in [Ids -> Account] /\ active' \in [Ids -> Nat]
        /\ priority' \in [Ids -> Nat] /\ present' \subseteq Ids /\ hot' \subseteq Ids
    BY <1>12 DEF Upsert, TypeOK
  <2> QED
    BY <1>12, <2>2, <2>3, <2>4, <2>5, SignalCount DEF Upsert, TypeOK
<1>13. ASSUME NEW id \in Ids, Delete(id) PROVE TypeOK'
  <2>1. ready' \in Seq(Ids)
    BY <1>13, WithoutProperties DEF Delete, TypeOK
  <2>2. revision' \in Revisions
    BY <1>13, NextRevision DEF Delete
  <2>3. life' \in [Ids -> Account] /\ active' \in [Ids -> Nat]
    BY <1>13, AccountClosed DEF Delete, TypeOK
  <2> QED
    BY <1>13, <2>1, <2>2, <2>3, SignalCount DEF Delete, TypeOK
<1>14. ASSUME NEW n \in MaxActiveCaps, ApplyMaxActive(n) PROVE TypeOK'
  <2>1. maxActive' \in [Ids -> Nat \ {0}]
    BY <1>14 DEF ApplyMaxActive, Lower, TypeOK
  <2> QED
    BY <1>14, <2>1 DEF ApplyMaxActive, TypeOK, chanVars
<1>15. ASSUME NEW n \in ActiveSizes, ApplyActiveSize(n) PROVE TypeOK'
  <2>1. hot' \subseteq Ids
    BY <1>15 DEF ApplyActiveSize, TypeOK
  <2> QED
    BY <1>15, <2>1 DEF ApplyActiveSize, TypeOK, chanVars
<1>16. ASSUME NEW st \in Strategies, WithStrategy(st) PROVE TypeOK'
  BY <1>16 DEF WithStrategy, TypeOK, acctVars, chanVars
<1>17. ASSUME NEW on \in StickyModes, WithSticky(on) PROVE TypeOK'
  BY <1>17 DEF WithSticky, TypeOK, acctVars, chanVars
<1>18. ASSUME NEW id \in Ids, Elapse(id) PROVE TypeOK'
  <2>1. life' = [life EXCEPT ![id] = [life[id] EXCEPT !.retryAt = "due"]]
    BY <1>18 DEF Elapse
  <2>2. life' \in [Ids -> Account]
    BY <2>1, AccountClosed DEF TypeOK
  <2> QED
    BY <1>18, <2>2 DEF Elapse, TypeOK, chanVars
<1>19. CASE UNCHANGED vars
  BY <1>19 DEF vars, TypeOK
<1> QED
  BY <1>1, <1>2, <1>3, <1>4, <1>5, <1>6, <1>7, <1>8, <1>9, <1>10, <1>11, <1>12,
     <1>13, <1>14, <1>15, <1>16, <1>17, <1>18, <1>19
  DEF Next, ClientStep, PoolStep, SettingsStep

\* The wait queue starts empty.
LEMMA QueueInit == Init => WaitQueue
<1> SUFFICES ASSUME Init PROVE WaitQueue
  OBVIOUS
<1>1. recvq = <<>> /\ \A c \in Clients : pc[c] # "parked"
  BY DEF Init
<1>2. DOMAIN recvq = {}
  BY <1>1
<1> QED
  BY <1>1, <1>2 DEF WaitQueue, NoDuplicates, Elems

\* A step keeps the queue and the blocked clients together.
LEMMA QueueStep == TypeOK /\ WaitQueue /\ [Next]_vars => WaitQueue'
<1> SUFFICES ASSUME TypeOK, WaitQueue, [Next]_vars PROVE WaitQueue'
  OBVIOUS
<1> DEFINE Parked == {c \in Clients : pc[c] = "parked"}
<1>1. ASSUME UNCHANGED <<recvq, notify>>, Parked' = Parked PROVE WaitQueue'
  BY <1>1 DEF WaitQueue
<1>2. ASSUME NEW c \in Clients, ClientStep(c), ~Select(c), ~CtxDone(c) PROVE WaitQueue'
  <2>1. UNCHANGED <<recvq, notify>>
    BY <1>2 DEF ClientStep, AcquireEmpty, AcquireSticky, AcquirePick, AcquireWait,
                MoveUnavailable, RecordUsage, Release, chanVars
  <2>2. pc' = pc \/ (pc[c] # "parked" /\ \E v \in PCs \ {"parked"} :
                                               pc' = [pc EXCEPT ![c] = v])
    BY <1>2 DEF ClientStep, AcquireEmpty, AcquireSticky, AcquirePick, AcquireWait,
                MoveUnavailable, RecordUsage, Release, Miss, Runnable, Grant, PCs
  <2>3. Parked' = Parked
    BY <2>2 DEF TypeOK
  <2> QED
    BY <1>1, <2>1, <2>3
<1>3. ASSUME NEW c \in Clients, Select(c) PROVE WaitQueue'
  <2>1. CASE notify = 1
    <3>1. Parked' = Parked /\ recvq' = recvq /\ notify' = 0
      BY <1>3, <2>1 DEF Select, TypeOK
    <3> QED
      BY <3>1 DEF WaitQueue
  <2>2. CASE notify # 1
    <3>1. /\ Parked' = Parked \cup {c} /\ c \notin Parked
          /\ recvq' = Append(recvq, c) /\ notify' = notify
      BY <1>3, <2>2 DEF Select, TypeOK
    <3>2. NoDuplicates(recvq') /\ Elems(recvq') = Elems(recvq) \cup {c}
      BY <3>1, AppendListProperties DEF TypeOK, WaitQueue
    <3> QED
      BY <2>2, <3>1, <3>2 DEF TypeOK, WaitQueue
  <2> QED
    BY <2>1, <2>2
<1>4. ASSUME NEW c \in Clients, CtxDone(c) PROVE WaitQueue'
  <2>1. /\ Parked' = Parked \ {c} /\ recvq' = Without(recvq, {c}) /\ notify' = notify
    BY <1>4 DEF CtxDone, TypeOK
  <2>2. NoDuplicates(recvq') /\ Elems(recvq') = Elems(recvq) \ {c}
        /\ recvq' \in Seq(Clients)
    BY <2>1, WithoutProperties DEF TypeOK, WaitQueue
  <2>3. recvq = <<>> => recvq' = <<>>
    <3> SUFFICES ASSUME recvq = <<>>, recvq' # <<>> PROVE FALSE
      OBVIOUS
    <3>1. Len(recvq') \in Nat \ {0} /\ DOMAIN recvq' = 1..Len(recvq')
      BY <2>2, EmptySeq, LenProperties
    <3>2. 1 \in DOMAIN recvq'
      BY <3>1
    <3>3. recvq'[1] \in Elems(recvq')
      BY <3>2 DEF Elems
    <3>4. Elems(recvq) = {}
      BY DEF Elems
    <3> QED
      BY <2>2, <3>3, <3>4
  <2> QED
    BY <2>1, <2>2, <2>3 DEF WaitQueue
<1>5. CASE Signal
  <2>1. CASE recvq # <<>>
    <3> DEFINE h == Head(recvq)
    <3>1. /\ h \in Elems(recvq) /\ Elems(Tail(recvq)) = Elems(recvq) \ {h}
          /\ NoDuplicates(Tail(recvq))
      BY <2>1, TailListProperties DEF TypeOK, WaitQueue
    <3>2. h \in Clients
      BY <3>1 DEF WaitQueue
    <3>3. recvq' = Tail(recvq) /\ notify' = notify /\ pc' = [pc EXCEPT ![h] = "woken"]
      BY <1>5, <2>1 DEF Signal
    <3>4. Parked' = Parked \ {h}
      BY <3>2, <3>3 DEF TypeOK
    <3> QED
      BY <2>1, <3>1, <3>3, <3>4 DEF WaitQueue
  <2>2. CASE recvq = <<>>
    <3>1. Parked' = Parked /\ recvq' = recvq
      BY <1>5, <2>2 DEF Signal
    <3> QED
      BY <2>2, <3>1 DEF WaitQueue
  <2> QED
    BY <2>1, <2>2
<1>6. CASE PoolStep \/ SettingsStep
  <2>1. UNCHANGED <<recvq, notify, pc>>
    BY <1>6 DEF PoolStep, SettingsStep, PromoteDue, Delete, Elapse, Upsert,
                ApplyMaxActive, ApplyActiveSize, WithStrategy, WithSticky, chanVars
  <2> QED
    BY <1>1, <2>1
<1>7. CASE UNCHANGED vars
  BY <1>1, <1>7 DEF vars
<1> QED
  BY <1>2, <1>3, <1>4, <1>5, <1>6, <1>7 DEF Next

\* Type correctness of the scheduler in every behaviour; in particular no
\* lease count becomes negative although Release may follow a Delete and a
\* re-import of its account.
THEOREM TypeCorrect == Spec => []TypeOK
<1>1. Init => TypeOK /\ WaitQueue
  BY TypeInit, QueueInit
<1>2. TypeOK /\ WaitQueue /\ [Next]_vars => (TypeOK /\ WaitQueue)'
  BY TypeStep, QueueStep
<1> QED
  BY <1>1, <1>2, PTL DEF Spec

-----------------------------------------------------------------------------
(* The ready list agrees with the accounts map.                            *)

InReadyPool == {id \in present : life[id].pool = "ready"}

\* New lists the ready accounts.
LEMMA ReadyInit == Init => ReadyList
<1> SUFFICES ASSUME Init PROVE ReadyList
  OBVIOUS
<1>1. InReadyPool \in SUBSET Ids /\ ready \in Orders(InReadyPool)
  BY DEF Init, InReadyPool
<1>2. IsFiniteSet(InReadyPool)
  BY <1>1, SchedulerAssumption, FS_Subset
<1> QED
  BY <1>1, <1>2, OrdersProperties DEF ReadyList, InReadyPool

\* Parking the exhausted accounts during a scan.
LEMMA ParkReady ==
    ASSUME TypeOK, ReadyList, ParkExhausted, present' = present
    PROVE  ReadyList' /\ Elems(ready') = Elems(ready) \ Exhausted
<1>1. NoDuplicates(ready') /\ Elems(ready') = Elems(ready) \ Exhausted
  BY WithoutProperties DEF TypeOK, ReadyList, ParkExhausted
<1>2. \A id \in Ids : life'[id].pool = IF id \in Exhausted THEN "unavailable"
                                      ELSE life[id].pool
  BY AccountPools DEF TypeOK, ParkExhausted
<1>3. InReadyPool' = InReadyPool \ Exhausted
  BY <1>2 DEF TypeOK, InReadyPool
<1> QED
  BY <1>1, <1>3 DEF ReadyList, InReadyPool

\* Removing one account from the pool and from the list.
LEMMA RemoveReady ==
    ASSUME TypeOK, ReadyList, NEW id \in Ids, ready' = Without(ready, {id}),
           InReadyPool' = InReadyPool \ {id}
    PROVE  ReadyList' /\ Elems(ready') = Elems(ready) \ {id}
<1>1. NoDuplicates(ready') /\ Elems(ready') = Elems(ready) \ {id}
  BY WithoutProperties DEF TypeOK, ReadyList
<1> QED
  BY <1>1 DEF ReadyList, InReadyPool

\* Every operation that moves an account between the pools edits the list.
LEMMA ReadyStep == TypeOK /\ ReadyList /\ [Next]_vars => ReadyList'
<1> SUFFICES ASSUME TypeOK, ReadyList, [Next]_vars PROVE ReadyList'
  OBVIOUS
<1> USE SchedulerAssumption
<1>1. ASSUME UNCHANGED <<present, life, ready>> PROVE ReadyList'
  BY <1>1 DEF ReadyList
<1>2. ASSUME NEW c \in Clients,
             \/ AcquireEmpty(c) \/ AcquireSticky(c) \/ Select(c) \/ CtxDone(c)
             \/ Release(c)
      PROVE  ReadyList'
  <2>1. UNCHANGED <<present, life, ready>>
    BY <1>2 DEF AcquireEmpty, AcquireSticky, Select, CtxDone, Release, acctVars
  <2> QED
    BY <1>1, <2>1
<1>3. ASSUME NEW c \in Clients, AcquirePick(c) \/ AcquireWait(c) PROVE ReadyList'
  <2>1. ParkExhausted /\ present' = present
    BY <1>3 DEF AcquirePick, AcquireWait
  <2> QED
    BY <2>1, ParkReady
<1>4. ASSUME NEW c \in Clients, MoveUnavailable(c) PROVE ReadyList'
  <2>1. lease[c] \in Ids /\ present' = present /\ ready' = Without(ready, {lease[c]})
    BY <1>4 DEF MoveUnavailable, TypeOK
  <2>2. PICK reason \in ParkReasons :
             life' = [life EXCEPT ![lease[c]] =
                        MarkUnavailable(life[lease[c]], reason, "future", "other")]
    BY <1>4 DEF MoveUnavailable
  <2>3. \A id \in Ids : life'[id].pool = IF id = lease[c] THEN "unavailable"
                                        ELSE life[id].pool
    <3>1. \A id \in Ids : life[id] \in Account /\ life'[id] =
             IF id = lease[c]
             THEN MarkUnavailable(life[lease[c]], reason, "future", "other")
             ELSE life[id]
      BY <2>1, <2>2 DEF TypeOK
    <3>2. reason \in Reasons
      OBVIOUS
    <3> QED
      BY <2>1, <3>1, <3>2, AccountPools
  <2>4. InReadyPool' = InReadyPool \ {lease[c]}
    BY <2>1, <2>3 DEF TypeOK, InReadyPool
  <2> QED
    BY <2>1, <2>4, RemoveReady
<1>5. ASSUME NEW c \in Clients, RecordUsage(c) PROVE ReadyList'
  <2>1. lease[c] \in Ids /\ present' = present /\ ready' = ready
    BY <1>5 DEF RecordUsage, TypeOK
  <2>2. PICK exhausted \in BOOLEAN :
             life' = [life EXCEPT ![lease[c]] = SetQuota(life[lease[c]], exhausted)]
    BY <1>5 DEF RecordUsage
  <2>3. \A id \in Ids : life'[id].pool = life[id].pool
    <3>1. \A id \in Ids : life[id] \in Account /\ life'[id] =
             IF id = lease[c] THEN SetQuota(life[lease[c]], exhausted) ELSE life[id]
      BY <2>1, <2>2 DEF TypeOK
    <3> QED
      BY <2>1, <3>1, AccountPools
  <2>4. InReadyPool' = InReadyPool
    BY <2>1, <2>3 DEF TypeOK, InReadyPool
  <2> QED
    BY <2>1, <2>4 DEF ReadyList, InReadyPool
<1>6. CASE PromoteDue
  <2>1. Due \in SUBSET Ids /\ IsFiniteSet(Due) /\ present' = present
    BY <1>6, FS_Subset DEF Due, TypeOK, PromoteDue
  <2>2. PICK s \in Orders(Due) : ready' = ready \o s
    BY <1>6 DEF PromoteDue
  <2>3. s \in Seq(Due) /\ Elems(s) = Due /\ NoDuplicates(s)
    BY <2>1, OrdersProperties
  <2>4. s \in Seq(Ids)
    BY <2>1, <2>3, SeqMonotonic
  <2>5. Elems(ready) \cap Due = {}
    BY DEF ReadyList, Due, CooldownDue
  <2>6. NoDuplicates(ready') /\ Elems(ready') = Elems(ready) \cup Due
    BY <2>2, <2>3, <2>4, <2>5, ConcatListProperties DEF TypeOK, ReadyList
  <2>7. \A id \in Ids : life'[id].pool = IF id \in Due THEN "ready" ELSE life[id].pool
    <3>1. \A id \in Ids : life[id] \in Account
             /\ life'[id] = IF id \in Due THEN MarkReady(life[id]) ELSE life[id]
      BY <1>6 DEF PromoteDue, TypeOK
    <3> QED
      BY <3>1, AccountPools
  <2>8. InReadyPool' = InReadyPool \cup Due
    BY <2>1, <2>7 DEF InReadyPool, Due, TypeOK
  <2> QED
    BY <2>6, <2>8 DEF ReadyList, InReadyPool
<1>7. ASSUME NEW id \in Ids, NEW item \in UpsertItems, NEW limit \in MaxActives,
             NEW prio \in Priorities, Upsert(id, item, limit, prio)
      PROVE  ReadyList'
  <2> DEFINE w == Without(ready, {id})
  <2>1. w \in Seq(Ids) /\ NoDuplicates(w) /\ Elems(w) = Elems(ready) \ {id}
    BY WithoutProperties DEF TypeOK, ReadyList
  <2>2. present' = present \cup {id} /\ life' = [life EXCEPT ![id] = item]
    BY <1>7 DEF Upsert
  <2>3. \A x \in Ids : life'[x] = IF x = id THEN item ELSE life[x]
    BY <2>2 DEF TypeOK
  <2> HIDE DEF w
  <2>4. CASE item.pool = "ready"
    <3>1. ready' = Append(w, id)
      BY <1>7, <2>4 DEF Upsert, w
    <3>2. NoDuplicates(ready') /\ Elems(ready') = Elems(w) \cup {id}
      BY <2>1, <3>1, AppendListProperties
    <3>3. InReadyPool' = (InReadyPool \ {id}) \cup {id}
      BY <2>2, <2>3, <2>4 DEF InReadyPool, TypeOK
    <3> QED
      BY <2>1, <3>2, <3>3 DEF ReadyList, InReadyPool
  <2>5. CASE item.pool # "ready"
    <3>1. ready' = w
      BY <1>7, <2>5 DEF Upsert, w
    <3>2. InReadyPool' = InReadyPool \ {id}
      BY <2>2, <2>3, <2>5 DEF InReadyPool, TypeOK
    <3> QED
      BY <2>1, <3>1, <3>2 DEF ReadyList, InReadyPool
  <2> QED
    BY <2>4, <2>5
<1>8. ASSUME NEW id \in Ids, Delete(id) PROVE ReadyList'
  <2>1. /\ ready' = Without(ready, {id}) /\ present' = present \ {id}
        /\ life' = [life EXCEPT ![id] = Fresh]
    BY <1>8 DEF Delete
  <2>2. \A x \in Ids \ {id} : life'[x] = life[x]
    BY <2>1 DEF TypeOK
  <2>3. InReadyPool' = InReadyPool \ {id}
    BY <2>1, <2>2 DEF InReadyPool, TypeOK
  <2> QED
    BY <2>1, <2>3, RemoveReady
<1>9. ASSUME NEW id \in Ids, Elapse(id) PROVE ReadyList'
  <2>1. /\ life' = [life EXCEPT ![id] = [life[id] EXCEPT !.retryAt = "due"]]
        /\ present' = present /\ ready' = ready
    BY <1>9 DEF Elapse
  <2>2. \A x \in Ids : life'[x].pool = life[x].pool
    <3>1. \A x \in Ids : life[x] \in Account /\ life'[x] =
             IF x = id THEN [life[id] EXCEPT !.retryAt = "due"] ELSE life[x]
      BY <2>1 DEF TypeOK
    <3>2. [life[id] EXCEPT !.retryAt = "due"].pool = life[id].pool
      BY <3>1 DEF Account
    <3> QED
      BY <3>1, <3>2
  <2>3. InReadyPool' = InReadyPool
    BY <2>1, <2>2 DEF InReadyPool, TypeOK
  <2> QED
    BY <2>1, <2>3 DEF ReadyList, InReadyPool
<1>10. CASE Signal \/ SettingsStep \/ UNCHANGED vars
  <2>1. UNCHANGED <<present, life, ready>>
    BY <1>10 DEF Signal, SettingsStep, ApplyMaxActive, ApplyActiveSize, WithStrategy,
                 WithSticky, acctVars, vars
  <2> QED
    BY <1>1, <2>1
<1> QED
  BY <1>2, <1>3, <1>4, <1>5, <1>6, <1>7, <1>8, <1>9, <1>10
  DEF Next, ClientStep, PoolStep

\* The inductive invariant of the scheduler: types, the wait queue and the
\* ready list, each used by the preservation of the others.
SchedulerInv == TypeOK /\ WaitQueue /\ ReadyList

\* It holds in every reachable state.
LEMMA SchedulerInvariant == Spec => []SchedulerInv
<1>1. Init => SchedulerInv
  BY TypeInit, QueueInit, ReadyInit DEF SchedulerInv
<1>2. SchedulerInv /\ [Next]_vars => SchedulerInv'
  BY TypeStep, QueueStep, ReadyStep DEF SchedulerInv
<1> QED
  BY <1>1, <1>2, PTL DEF Spec

\* The ready list never disagrees with the accounts map.
THEOREM ReadyListCorrect == Spec => []ReadyList
<1>1. SchedulerInv => ReadyList
  BY DEF SchedulerInv
<1> QED
  BY <1>1, SchedulerInvariant, PTL

-----------------------------------------------------------------------------
(* The scheduler implements the pool of leases.                            *)

\* With an account to publish, one bump of the revision is visible.
LEMMA RevisionMoves ==
    ASSUME TypeOK, Ids # {}, revision' = (revision + 1) % RevisionMod
    PROVE  revision' # revision
<1>1. Cardinality(Ids) \in Nat \ {0}
  BY SchedulerAssumption, FS_CardinalityType, FS_EmptySet
<1>2. RevisionMod \in Nat \ {0} /\ 1 \in 1..(RevisionMod - 1)
      /\ revision \in 0..(RevisionMod - 1)
  BY <1>1, SchedulerAssumption DEF TypeOK
<1> QED
  BY <1>2, ModMoves

\* So are the bumps for the accounts a scan parks.
LEMMA ParkStamped ==
    ASSUME TypeOK, ParkExhausted, Exhausted # {}
    PROVE  revision' # revision
<1> DEFINE k == Cardinality(Exhausted)
<1>1. Exhausted \in SUBSET Ids
  BY DEF Exhausted, TypeOK
<1>2. IsFiniteSet(Exhausted) /\ k <= Cardinality(Ids) /\ Cardinality(Ids) \in Nat
  BY <1>1, SchedulerAssumption, FS_Subset, FS_CardinalityType
<1>3. k \in Nat \ {0}
  BY <1>2, FS_CardinalityType, FS_EmptySet
<1>4. revision' = (revision + k) % RevisionMod
  BY DEF ParkExhausted
<1> HIDE DEF k
<1>5. k \in 1..(RevisionMod - 1) /\ revision \in 0..(RevisionMod - 1)
      /\ RevisionMod \in Nat \ {0}
  BY <1>2, <1>3, SchedulerAssumption DEF TypeOK
<1> QED
  BY <1>4, <1>5, ModMoves

\* A step that leaves the leases alone and bumps the revision whenever the set
\* of ready accounts changes is a change of the abstract pool.
LEMMA ReshapeStep ==
    ASSUME TypeOK', lease' = lease,
           Elems(ready') # Elems(ready) => revision' # revision
    PROVE  Pool!Next
<1>1. Elems(ready') \subseteq Ids
  BY LenProperties, ElementOfSeq DEF TypeOK, Elems
<1> QED
  BY <1>1 DEF Pool!Next, Pool!Reshape, Pool!Stamped

\* Every step of the scheduler is a step of the pool of leases or a stutter.
LEMMA PoolStepRefines == SchedulerInv /\ SchedulerInv' /\ [Next]_vars
                            => [Pool!Next]_(Pool!poolVars)
<1> SUFFICES ASSUME SchedulerInv, SchedulerInv', [Next]_vars
             PROVE  Pool!Next \/ UNCHANGED <<Elems(ready), revision, lease>>
  BY DEF Pool!poolVars
<1>0. TypeOK /\ ReadyList /\ TypeOK' /\ ReadyList'
  BY DEF SchedulerInv
<1>1. ASSUME UNCHANGED <<ready, revision, lease>>
      PROVE  UNCHANGED <<Elems(ready), revision, lease>>
  BY <1>1
<1>2. ASSUME NEW c \in Clients, NEW id \in Ids, NEW h, NEW bind, Runnable(c),
             Grant(c, id, h, bind), id \in Elems(ready), id \in Elems(ready'),
             Elems(ready') \subseteq Elems(ready),
             Elems(ready') # Elems(ready) => revision' # revision
      PROVE  Pool!Next
  <2>1. lease[c] = NoId
    BY <1>0, <1>2 DEF Runnable, TypeOK
  <2>2. lease' = [lease EXCEPT ![c] = id]
    BY <1>2 DEF Grant
  <2>3. Pool!Grant(c)
    BY <1>2, <2>1, <2>2 DEF Pool!Grant, Pool!Stamped
  <2> QED
    BY <2>3 DEF Pool!Next
<1>3. ASSUME NEW c \in Clients, AcquireSticky(c) PROVE Pool!Next
  <2>1. /\ Runnable(c) /\ Grant(c, Entry(c), hot, sticky)
        /\ ready' = ready /\ revision' = revision
        /\ Entry(c) \in present /\ life[Entry(c)].pool = "ready"
    BY <1>3 DEF AcquireSticky, CanServe, Available
  <2>2. Entry(c) \in Ids /\ Entry(c) \in Elems(ready)
    BY <1>0, <2>1 DEF TypeOK, ReadyList
  <2> QED
    BY <1>2, <2>1, <2>2
<1>4. ASSUME NEW c \in Clients, AcquirePick(c) PROVE Pool!Next
  <2>1. PICK expired \in BOOLEAN :
          /\ Miss(c, expired) /\ Candidates # {} /\ ParkExhausted /\ present' = present
          /\ Grant(c, ready[Chosen], hot \ Exhausted, AfterMiss(c, expired))
    BY <1>4 DEF AcquirePick
  <2>2. Elems(ready') = Elems(ready) \ Exhausted
    BY <1>0, <2>1, ParkReady
  <2>3. ready[Chosen] \in Ids /\ ready[Chosen] \in Elems(ready) \ Exhausted
    BY <1>0, <2>1, PickProperties
  <2>4. Elems(ready') # Elems(ready) => revision' # revision
    BY <1>0, <2>1, <2>2, ParkStamped
  <2>5. Runnable(c)
    BY <2>1 DEF Miss
  <2> QED
    BY <1>2, <2>1, <2>2, <2>3, <2>4, <2>5
<1>5. ASSUME NEW c \in Clients, AcquireWait(c) PROVE Pool!Next
  <2>1. ParkExhausted /\ present' = present /\ lease' = lease
    BY <1>5 DEF AcquireWait
  <2>2. Elems(ready') = Elems(ready) \ Exhausted
    BY <1>0, <2>1, ParkReady
  <2>3. Elems(ready') # Elems(ready) => revision' # revision
    BY <1>0, <2>1, <2>2, ParkStamped
  <2> QED
    BY <1>0, <2>1, <2>3, ReshapeStep
<1>6. ASSUME NEW c \in Clients, MoveUnavailable(c) PROVE Pool!Next
  <2> DEFINE id == lease[c]
  <2>1. id \in Ids /\ lease' = lease /\ ready' = Without(ready, {id})
    BY <1>0, <1>6 DEF MoveUnavailable, TypeOK
  <2>2. Elems(ready') = Elems(ready) \ {id}
    <3>1. ready \in Seq(Ids)
      BY <1>0 DEF TypeOK
    <3> QED
      BY <2>1, <3>1, WithoutProperties
  <2>3. PICK reason \in ParkReasons :
          LET parked == MarkUnavailable(life[id], reason, "future", "other") IN
          revision' \in (IF parked = life[id] THEN {revision} ELSE {})
                         \cup {(revision + 1) % RevisionMod}
    BY <1>6 DEF MoveUnavailable
  <2>4. CASE revision' = (revision + 1) % RevisionMod
    BY <1>0, <2>1, <2>4, RevisionMoves, ReshapeStep
  <2>5. CASE MarkUnavailable(life[id], reason, "future", "other") = life[id]
    <3>1. life[id] \in Account /\ reason \in Reasons
      BY <1>0, <2>1, SchedulerAssumption DEF TypeOK
    <3>2. MarkUnavailable(life[id], reason, "future", "other").pool = "unavailable"
      BY <3>1, AccountPools
    <3>3. id \notin Elems(ready)
      BY <1>0, <2>5, <3>2 DEF ReadyList
    <3> QED
      BY <1>0, <2>1, <2>2, <3>3, ReshapeStep
  <2> QED
    BY <2>3, <2>4, <2>5
<1>7. ASSUME NEW c \in Clients, Release(c) PROVE Pool!Next
  <2>1. lease[c] # NoId
    BY <1>0, <1>7 DEF Release, TypeOK
  <2>2. Pool!Return(c)
    BY <1>7, <2>1 DEF Release, Pool!Return
  <2> QED
    BY <2>2 DEF Pool!Next
<1>8. CASE PromoteDue
  <2>1. Ids # {}
    BY <1>0, <1>8 DEF PromoteDue, Due, TypeOK
  <2>2. lease' = lease /\ revision' # revision
    BY <1>0, <1>8, <2>1, RevisionMoves DEF PromoteDue
  <2> QED
    BY <1>0, <2>2, ReshapeStep
<1>9. ASSUME NEW id \in Ids, NEW item \in UpsertItems, NEW limit \in MaxActives,
             NEW prio \in Priorities, Upsert(id, item, limit, prio)
      PROVE  Pool!Next
  <2>1. lease' = lease /\ revision' # revision
    BY <1>0, <1>9, RevisionMoves DEF Upsert
  <2> QED
    BY <1>0, <2>1, ReshapeStep
<1>10. ASSUME NEW id \in Ids, Delete(id) PROVE Pool!Next
  <2>1. lease' = lease /\ revision' # revision
    BY <1>0, <1>10, RevisionMoves DEF Delete
  <2> QED
    BY <1>0, <2>1, ReshapeStep
<1>11. ASSUME NEW c \in Clients,
              AcquireEmpty(c) \/ Select(c) \/ CtxDone(c) \/ RecordUsage(c)
       PROVE  UNCHANGED <<ready, revision, lease>>
  BY <1>11 DEF AcquireEmpty, Select, CtxDone, RecordUsage, acctVars
<1>12. ASSUME \/ Signal \/ SettingsStep \/ UNCHANGED vars
              \/ \E id \in Ids : Elapse(id)
       PROVE  UNCHANGED <<ready, revision, lease>>
  BY <1>12 DEF Signal, SettingsStep, ApplyMaxActive, ApplyActiveSize, WithStrategy,
               WithSticky, Elapse, acctVars, vars
<1> QED
  BY <1>1, <1>3, <1>4, <1>5, <1>6, <1>7, <1>8, <1>9, <1>10, <1>11, <1>12
  DEF Next, ClientStep, PoolStep

\* The scheduler implements the pool of leases: a lease is only granted on a
\* ready account, and the revision the gateway's quota circuit compares moves
\* with every change of the set of ready accounts.
THEOREM SchedulerImplementsLeasePool == Spec => ImplementsLeasePool
<1>1. Init => Pool!Init
  <2> SUFFICES ASSUME Init PROVE Pool!Init
    OBVIOUS
  <2>1. Elems(ready) \subseteq Ids
    BY TypeInit, LenProperties, ElementOfSeq DEF TypeOK, Elems
  <2> QED
    BY <2>1 DEF Init, Pool!Init
<1> QED
  BY <1>1, PoolStepRefines, SchedulerInvariant, PTL
  DEF Spec, ImplementsLeasePool, Pool!Spec

-----------------------------------------------------------------------------
(* The hot set.                                                            *)

\* Adding an account for which there is room keeps the hot set in its bound and
\* makes the account hot.
LEMMA EnsureHotBounds ==
    ASSUME TypeOK, NEW h \in SUBSET Ids, NEW id \in Ids, Eligible(id, h),
           Cardinality(h) <= conf.activeSize, NEW g \in EnsureHot(h, id)
    PROVE  /\ g \subseteq h \cup {id} /\ Cardinality(g) <= conf.activeSize
           /\ conf.activeSize > 0 => id \in g
<1>1. IsFiniteSet(h) /\ Cardinality(h) \in Nat /\ conf.activeSize \in Nat
  BY SchedulerAssumption, FS_Subset, FS_CardinalityType DEF TypeOK
<1>2. CASE conf.activeSize = 0 \/ id \in h
  <2>1. g = h
    BY <1>2 DEF EnsureHot
  <2> QED
    BY <1>1, <1>2, <2>1
<1>3. CASE conf.activeSize # 0 /\ id \notin h
  <2>1. Cardinality(h) < conf.activeSize
    BY <1>3 DEF Eligible
  <2>2. g = h \cup {id}
    BY <1>3, <2>1 DEF EnsureHot
  <2>3. Cardinality(g) = Cardinality(h) + 1
    BY <1>1, <1>3, <2>2, FS_AddElement
  <2> QED
    BY <1>1, <2>1, <2>2, <2>3
<1> QED
  BY <1>2, <1>3

\* Fewer hot accounts.
LEMMA HotShrinks ==
    ASSUME TypeOK, HotBounded, NEW h, h \subseteq hot
    PROVE  /\ h \in SUBSET Ids /\ IsFiniteSet(h) /\ Cardinality(h) \in Nat
           /\ Cardinality(h) <= Cardinality(hot) /\ Cardinality(h) <= conf.activeSize
<1>1. /\ hot \in SUBSET Ids /\ IsFiniteSet(hot) /\ Cardinality(hot) \in Nat
      /\ conf.activeSize \in Nat /\ Cardinality(hot) <= conf.activeSize
  BY SchedulerAssumption, FS_Subset, FS_CardinalityType DEF TypeOK, HotBounded
<1>2. h \in SUBSET hot
  OBVIOUS
<1>3. IsFiniteSet(h) /\ Cardinality(h) <= Cardinality(hot)
  BY <1>1, <1>2, FS_Subset
<1>4. Cardinality(h) \in Nat
  BY <1>3, FS_CardinalityType
<1> QED
  BY <1>1, <1>2, <1>3, <1>4

\* The hot set shrinks while it is scanned: what could serve at the start can
\* still at its own position, and what is chosen has room at the end.
LEMMA ScanEligible ==
    ASSUME TypeOK, HotBounded, NEW i \in DOMAIN ready, ready[i] \notin Exhausted
    PROVE  /\ Eligible(ready[i], hot) => Eligible(ready[i], HotAt(i))
           /\ Eligible(ready[i], HotAt(i)) => Eligible(ready[i], hot \ Exhausted)
<1>1. HotAt(i) \subseteq hot /\ hot \ Exhausted \subseteq HotAt(i)
  BY DEF HotAt
<1>2. ready[i] \in hot <=> ready[i] \in HotAt(i)
  BY DEF HotAt
<1>3. ready[i] \in HotAt(i) => ready[i] \in hot \ Exhausted
  BY <1>2
<1>4. /\ IsFiniteSet(HotAt(i)) /\ Cardinality(HotAt(i)) \in Nat
      /\ Cardinality(HotAt(i)) <= Cardinality(hot)
  BY <1>1, HotShrinks
<1>5. hot \ Exhausted \in SUBSET HotAt(i)
  BY <1>1
<1>6. Cardinality(hot \ Exhausted) <= Cardinality(HotAt(i))
  BY <1>4, <1>5, FS_Subset
<1>7. Cardinality(hot) \in Nat /\ Cardinality(hot \ Exhausted) \in Nat /\ conf.activeSize \in Nat
  BY HotShrinks DEF TypeOK
<1> QED
  BY <1>2, <1>3, <1>4, <1>6, <1>7 DEF Eligible

\* What a grant does to the hot set.
LEMMA GrantHot ==
    ASSUME TypeOK, ReadyList, HotBounded, NEW c \in Clients
    PROVE  /\ AcquireSticky(c) =>
                 /\ Entry(c) \in Elems(ready) /\ ready' = ready /\ conf' = conf
                 /\ hot' \subseteq hot \cup {Entry(c)} /\ Cardinality(hot') <= conf.activeSize
                 /\ conf.activeSize > 0 => Entry(c) \in hot'
           /\ AcquirePick(c) =>
                 /\ ready[Chosen] \in Elems(ready) \ Exhausted /\ conf' = conf
                 /\ Elems(ready') = Elems(ready) \ Exhausted
                 /\ hot' \subseteq (hot \ Exhausted) \cup {ready[Chosen]}
                 /\ Cardinality(hot') <= conf.activeSize
                 /\ conf.activeSize > 0 => ready[Chosen] \in hot'
<1>1. ASSUME AcquireSticky(c)
      PROVE  /\ Entry(c) \in Elems(ready) /\ ready' = ready /\ conf' = conf
             /\ hot' \subseteq hot \cup {Entry(c)} /\ Cardinality(hot') <= conf.activeSize
             /\ conf.activeSize > 0 => Entry(c) \in hot'
  <2>1. /\ Eligible(Entry(c), hot) /\ hot' \in EnsureHot(hot, Entry(c))
        /\ ready' = ready /\ conf' = conf
        /\ Entry(c) \in present /\ life[Entry(c)].pool = "ready"
    BY <1>1 DEF AcquireSticky, CanServe, Available, Grant
  <2>2. Entry(c) \in Ids /\ Entry(c) \in Elems(ready)
    BY <2>1 DEF TypeOK, ReadyList
  <2> QED
    BY <2>1, <2>2, HotShrinks, EnsureHotBounds
<1>2. ASSUME AcquirePick(c)
      PROVE  /\ ready[Chosen] \in Elems(ready) \ Exhausted /\ conf' = conf
             /\ Elems(ready') = Elems(ready) \ Exhausted
             /\ hot' \subseteq (hot \ Exhausted) \cup {ready[Chosen]}
             /\ Cardinality(hot') <= conf.activeSize
             /\ conf.activeSize > 0 => ready[Chosen] \in hot'
  <2>1. /\ Candidates # {} /\ ParkExhausted /\ present' = present /\ conf' = conf
        /\ hot' \in EnsureHot(hot \ Exhausted, ready[Chosen])
    BY <1>2 DEF AcquirePick, Grant
  <2>2. Elems(ready') = Elems(ready) \ Exhausted
    BY <2>1, ParkReady
  <2>3. ready[Chosen] \in Ids /\ ready[Chosen] \in Elems(ready) \ Exhausted
    BY <2>1, PickProperties
  <2>4. Chosen \in DOMAIN ready /\ Eligible(ready[Chosen], HotAt(Chosen))
    BY <2>1, PickProperties, ChosenIsFinalist DEF Candidates
  <2>5. Eligible(ready[Chosen], hot \ Exhausted)
    BY <2>3, <2>4, ScanEligible
  <2>6. hot \ Exhausted \in SUBSET Ids /\ Cardinality(hot \ Exhausted) <= conf.activeSize
    BY HotShrinks
  <2> QED
    BY <2>1, <2>2, <2>3, <2>5, <2>6, EnsureHotBounds
<1> QED
  BY <1>1, <1>2

\* Every step keeps the hot set within its size.
LEMMA HotStep == TypeOK /\ ReadyList /\ HotBounded /\ [Next]_vars => HotBounded'
<1> SUFFICES ASSUME TypeOK, ReadyList, HotBounded, [Next]_vars PROVE HotBounded'
  OBVIOUS
<1> USE SchedulerAssumption
<1>1. ASSUME NEW P, Elems(ready') = Elems(ready) \ P, hot' = hot \ P, conf' = conf
      PROVE  HotBounded'
  <2>1. Cardinality(hot') <= conf.activeSize
    BY <1>1, HotShrinks
  <2> QED
    BY <1>1, <2>1 DEF HotBounded
<1>2. ASSUME Elems(ready) \subseteq Elems(ready'), hot' = hot, conf'.activeSize = conf.activeSize
      PROVE  HotBounded'
  BY <1>2 DEF HotBounded
<1>3. ASSUME NEW c \in Clients, AcquireSticky(c) \/ AcquirePick(c) PROVE HotBounded'
  BY <1>3, GrantHot DEF HotBounded
<1>4. ASSUME NEW c \in Clients, AcquireWait(c) PROVE HotBounded'
  <2>1. ParkExhausted /\ present' = present /\ conf' = conf /\ hot' = hot \ Exhausted
    BY <1>4 DEF AcquireWait
  <2>2. Elems(ready') = Elems(ready) \ Exhausted
    BY <2>1, ParkReady
  <2> QED
    BY <1>1, <2>1, <2>2
<1>5. ASSUME NEW id \in Ids, ready' = Without(ready, {id}), hot' = hot \ {id}, conf' = conf
      PROVE  HotBounded'
  <2>1. Elems(ready') = Elems(ready) \ {id}
    BY <1>5, WithoutProperties DEF TypeOK
  <2> QED
    BY <1>1, <1>5, <2>1
<1>6. ASSUME NEW c \in Clients, MoveUnavailable(c) PROVE HotBounded'
  <2>1. lease[c] \in Ids
    BY <1>6 DEF MoveUnavailable, TypeOK
  <2> QED
    BY <1>5, <1>6, <2>1 DEF MoveUnavailable
<1>7. ASSUME NEW id \in Ids, Delete(id) PROVE HotBounded'
  BY <1>5, <1>7 DEF Delete
<1>8. ASSUME NEW id \in Ids, NEW item \in UpsertItems, NEW limit \in MaxActives,
             NEW prio \in Priorities, Upsert(id, item, limit, prio)
      PROVE  HotBounded'
  <2>1. PICK w : w = Without(ready, {id})
    OBVIOUS
  <2>2. w \in Seq(Ids) /\ Elems(w) = Elems(ready) \ {id}
    BY <2>1, WithoutProperties DEF TypeOK
  <2>3. ready' \in {w, Append(w, id)} /\ hot' = hot \ {id} /\ conf' = conf
    BY <1>8, <2>1 DEF Upsert
  <2>4. Elems(w) \subseteq Elems(ready')
    <3>1. Elems(Append(w, id)) = Elems(w) \cup {id}
      BY <2>2, AppendListProperties
    <3>2. CASE ready' = w
      BY <3>2
    <3>3. CASE ready' = Append(w, id)
      BY <3>1, <3>3
    <3> QED
      BY <2>3, <3>2, <3>3
  <2>5. Cardinality(hot') <= conf.activeSize
    BY <2>3, HotShrinks
  <2> QED
    BY <2>2, <2>3, <2>4, <2>5 DEF HotBounded
<1>9. CASE PromoteDue
  <2>1. Due \in SUBSET Ids /\ IsFiniteSet(Due)
    BY FS_Subset DEF Due, TypeOK
  <2>2. PICK s \in Orders(Due) : ready' = ready \o s
    BY <1>9 DEF PromoteDue
  <2>3. s \in Seq(Ids)
    <3>1. s \in Seq(Due)
      BY <2>1, OrdersProperties
    <3> QED
      BY <2>1, <3>1, SeqMonotonic
  <2>4. Elems(ready) \subseteq Elems(ready')
    BY <2>2, <2>3, ConcatListProperties DEF TypeOK
  <2> QED
    BY <1>2, <1>9, <2>4 DEF PromoteDue
<1>10. ASSUME NEW n \in ActiveSizes, ApplyActiveSize(n) PROVE HotBounded'
  <2>1. /\ hot' \subseteq hot /\ ready' = ready /\ conf' = [conf EXCEPT !.activeSize = n]
        /\ Cardinality(hot') = Lower(n, Cardinality(hot))
    BY <1>10 DEF ApplyActiveSize
  <2>2. conf'.activeSize = n /\ n \in Nat /\ Cardinality(hot) \in Nat
    BY <2>1, HotShrinks DEF TypeOK
  <2> QED
    BY <2>1, <2>2 DEF HotBounded, Lower
<1>11. ASSUME NEW c \in Clients,
              \/ AcquireEmpty(c) \/ Select(c) \/ CtxDone(c) \/ RecordUsage(c) \/ Release(c)
       PROVE  HotBounded'
  <2>1. UNCHANGED <<ready, hot, conf>>
    BY <1>11 DEF AcquireEmpty, Select, CtxDone, RecordUsage, Release, acctVars
  <2> QED
    BY <1>2, <2>1
<1>12. CASE \/ Signal \/ UNCHANGED vars \/ \E id \in Ids : Elapse(id)
            \/ \E n \in MaxActiveCaps : ApplyMaxActive(n)
            \/ \E s \in Strategies : WithStrategy(s)
            \/ \E on \in StickyModes : WithSticky(on)
  <2>1. UNCHANGED <<ready, hot>> /\ conf'.activeSize = conf.activeSize
    BY <1>12 DEF Signal, Elapse, ApplyMaxActive, WithStrategy, WithSticky, acctVars, vars, TypeOK
  <2> QED
    BY <1>2, <2>1
<1> QED
  BY <1>3, <1>4, <1>6, <1>7, <1>8, <1>9, <1>10, <1>11, <1>12
  DEF Next, ClientStep, PoolStep, SettingsStep

\* The hot set holds only ready accounts and never more than activeSize of them
\* (eligibleLocked, ensureHotLocked, dropHotLocked, ApplyActiveSize).
THEOREM HotSetBounded == Spec => []HotBounded
<1>1. Init => HotBounded
  BY TypeInit, FS_EmptySet DEF Init, HotBounded, TypeOK
<1>2. SchedulerInv /\ HotBounded /\ [Next]_vars => HotBounded'
  BY HotStep DEF SchedulerInv
<1> QED
  BY <1>1, <1>2, SchedulerInvariant, PTL DEF Spec

-----------------------------------------------------------------------------
(* Slots.                                                                  *)

\* Holders form finite sets; one more, one less, or the same.
LEMMA HolderCount ==
    ASSUME NEW id
    PROVE  /\ IsFiniteSet(Holders(id)) /\ Cardinality(Holders(id)) \in Nat
           /\ IsFiniteSet(Holders(id)') /\ Cardinality(Holders(id)') \in Nat
           /\ \A c : c \notin Holders(id) /\ Holders(id)' = Holders(id) \cup {c}
                 => Cardinality(Holders(id)') = Cardinality(Holders(id)) + 1
           /\ \A c : c \in Holders(id) /\ Holders(id)' = Holders(id) \ {c}
                 => Cardinality(Holders(id)') = Cardinality(Holders(id)) - 1
<1>1. Holders(id) \in SUBSET Clients /\ Holders(id)' \in SUBSET Clients
  BY DEF Holders
<1>2. IsFiniteSet(Holders(id)) /\ IsFiniteSet(Holders(id)')
  BY <1>1, SchedulerAssumption, FS_Subset
<1> QED
  BY <1>2, FS_CardinalityType, FS_AddElement, FS_RemoveElement

\* A grant takes one slot and makes one holder.
LEMMA GrantCounts ==
    ASSUME TypeOK, NoLeakedSlot, NEW c \in Clients, NEW id \in Ids, Runnable(c), NEW h, NEW bind,
           Grant(c, id, h, bind), present' = present
    PROVE  NoLeakedSlot'
<1>1. lease[c] = NoId /\ NoId \notin Ids
  BY SchedulerAssumption DEF Runnable, TypeOK
<1>2. /\ \A x \in Ids : active'[x] = IF x = id THEN active[x] + 1 ELSE active[x]
      /\ \A d \in Clients : lease'[d] = IF d = c THEN id ELSE lease[d]
  BY DEF Grant, TypeOK
<1> SUFFICES ASSUME NEW x \in present PROVE active'[x] <= Cardinality(Holders(x)')
  BY DEF NoLeakedSlot
<1>3. x \in Ids /\ active[x] \in Nat /\ active[x] <= Cardinality(Holders(x))
  BY DEF TypeOK, NoLeakedSlot
<1>4. CASE x = id
  <2>1. c \notin Holders(x) /\ Holders(x)' = Holders(x) \cup {c}
    BY <1>1, <1>2, <1>4 DEF Holders
  <2>2. Cardinality(Holders(x)') = Cardinality(Holders(x)) + 1 /\ Cardinality(Holders(x)) \in Nat
    BY <2>1, HolderCount
  <2> QED
    BY <1>2, <1>3, <1>4, <2>2
<1>5. CASE x # id
  <2>1. Holders(x)' = Holders(x)
    BY <1>1, <1>2, <1>3, <1>5 DEF Holders
  <2> QED
    BY <1>2, <1>3, <1>5, <2>1
<1> QED
  BY <1>4, <1>5

\* Every step keeps lease counts and holders together.
LEMMA SlotStep == TypeOK /\ NoLeakedSlot /\ [Next]_vars => NoLeakedSlot'
<1> SUFFICES ASSUME TypeOK, NoLeakedSlot, [Next]_vars PROVE NoLeakedSlot'
  OBVIOUS
<1> USE SchedulerAssumption
<1>1. ASSUME lease' = lease,
             \A x \in present' : active'[x] = 0 \/ (x \in present /\ active'[x] = active[x])
      PROVE  NoLeakedSlot'
  <2> SUFFICES ASSUME NEW x \in present' PROVE active'[x] <= Cardinality(Holders(x)')
    BY DEF NoLeakedSlot
  <2>1. Holders(x)' = Holders(x) /\ Cardinality(Holders(x)) \in Nat
    BY <1>1, HolderCount DEF Holders
  <2> QED
    BY <1>1, <2>1 DEF NoLeakedSlot
<1>2. ASSUME NEW c \in Clients, AcquireSticky(c) PROVE NoLeakedSlot'
  <2>1. /\ Runnable(c) /\ present' = present /\ Entry(c) \in present
        /\ Grant(c, Entry(c), hot, sticky)
    BY <1>2 DEF AcquireSticky, CanServe
  <2>2. Entry(c) \in Ids
    BY <2>1 DEF TypeOK
  <2> QED
    BY <2>1, <2>2, GrantCounts
<1>3. ASSUME NEW c \in Clients, AcquirePick(c) PROVE NoLeakedSlot'
  <2>1. PICK expired \in BOOLEAN :
          /\ Runnable(c) /\ Candidates # {} /\ present' = present
          /\ Grant(c, ready[Chosen], hot \ Exhausted, AfterMiss(c, expired))
    BY <1>3 DEF AcquirePick, Miss
  <2>2. ready[Chosen] \in Ids
    BY <2>1, PickProperties
  <2> QED
    BY <2>1, <2>2, GrantCounts
<1>4. ASSUME NEW c \in Clients, Release(c) PROVE NoLeakedSlot'
  <2>1. lease[c] \in Ids /\ NoId \notin Ids /\ present' = present
    BY <1>4 DEF Release, TypeOK
  <2>2. \A d \in Clients : lease'[d] = IF d = c THEN NoId ELSE lease[d]
    BY <1>4 DEF Release, TypeOK
  <2> SUFFICES ASSUME NEW x \in present PROVE active'[x] <= Cardinality(Holders(x)')
    BY <2>1 DEF NoLeakedSlot
  <2>3. x \in Ids /\ active[x] \in Nat /\ active[x] <= Cardinality(Holders(x))
    BY DEF TypeOK, NoLeakedSlot
  <2>4. CASE x = lease[c]
    <3>1. c \in Holders(x) /\ Holders(x)' = Holders(x) \ {c}
      BY <2>1, <2>2, <2>4 DEF Holders
    <3>2. /\ Cardinality(Holders(x)') = Cardinality(Holders(x)) - 1
          /\ Cardinality(Holders(x)') \in Nat /\ Cardinality(Holders(x)) \in Nat
      BY <3>1, HolderCount
    <3>3. active'[x] = IF active[x] > 0 THEN active[x] - 1 ELSE active[x]
      BY <1>4, <2>3, <2>4 DEF Release, TypeOK
    <3> QED
      BY <2>3, <3>2, <3>3
  <2>5. CASE x # lease[c]
    <3>1. Holders(x)' = Holders(x)
      BY <2>1, <2>2, <2>3, <2>5 DEF Holders
    <3>2. active'[x] = active[x]
      BY <1>4, <2>3, <2>5 DEF Release, TypeOK
    <3> QED
      BY <2>3, <3>1, <3>2
  <2> QED
    BY <2>4, <2>5
<1>5. ASSUME NEW id \in Ids, NEW item \in UpsertItems, NEW limit \in MaxActives,
             NEW prio \in Priorities, Upsert(id, item, limit, prio)
      PROVE  NoLeakedSlot'
  <2>1. lease' = lease /\ present' = present \cup {id}
        /\ active' = IF id \in present THEN active ELSE [active EXCEPT ![id] = 0]
    BY <1>5 DEF Upsert
  <2>2. \A x \in present' : active'[x] = 0 \/ (x \in present /\ active'[x] = active[x])
    BY <2>1 DEF TypeOK
  <2> QED
    BY <1>1, <2>1, <2>2
<1>6. ASSUME NEW id \in Ids, Delete(id) PROVE NoLeakedSlot'
  <2>1. lease' = lease /\ present' = present \ {id} /\ active' = [active EXCEPT ![id] = 0]
    BY <1>6 DEF Delete
  <2>2. \A x \in present' : active'[x] = 0 \/ (x \in present /\ active'[x] = active[x])
    BY <2>1 DEF TypeOK
  <2> QED
    BY <1>1, <2>1, <2>2
<1>7. ASSUME NEW c \in Clients,
             \/ AcquireEmpty(c) \/ AcquireWait(c) \/ Select(c) \/ CtxDone(c)
             \/ MoveUnavailable(c) \/ RecordUsage(c)
      PROVE  NoLeakedSlot'
  <2>1. UNCHANGED <<present, active, lease>>
    BY <1>7 DEF AcquireEmpty, AcquireWait, Select, CtxDone, MoveUnavailable, RecordUsage, acctVars
  <2> QED
    BY <1>1, <2>1
<1>8. CASE Signal \/ PromoteDue \/ SettingsStep \/ UNCHANGED vars \/ \E id \in Ids : Elapse(id)
  <2>1. UNCHANGED <<present, active, lease>>
    BY <1>8 DEF Signal, PromoteDue, Elapse, SettingsStep, ApplyMaxActive, ApplyActiveSize,
                WithStrategy, WithSticky, acctVars, vars
  <2> QED
    BY <1>1, <2>1
<1> QED
  BY <1>2, <1>3, <1>4, <1>5, <1>6, <1>7, <1>8 DEF Next, ClientStep, PoolStep

\* A slot counted as taken is held by a client, whatever Upsert, Delete or a
\* re-import did to the account while the lease was out (Lease.Release).
THEOREM SlotsNotLeaked == Spec => []NoLeakedSlot
<1>1. Init => NoLeakedSlot
  <2> SUFFICES ASSUME Init, NEW id \in present PROVE active[id] <= Cardinality(Holders(id))
    BY DEF NoLeakedSlot
  <2>1. active[id] = 0 /\ Cardinality(Holders(id)) \in Nat
    BY HolderCount DEF Init
  <2> QED
    BY <2>1
<1>2. SchedulerInv /\ NoLeakedSlot /\ [Next]_vars => NoLeakedSlot'
  BY SlotStep DEF SchedulerInv
<1> QED
  BY <1>1, <1>2, SchedulerInvariant, PTL DEF Spec

-----------------------------------------------------------------------------
(* Grants.                                                                 *)

\* Only the two acquiring steps of a client give it a lease.
LEMMA GrantedBy ==
    ASSUME TypeOK, Next, NEW c \in Clients, lease'[c] # lease[c], lease'[c] # NoId
    PROVE  \/ AcquireSticky(c) /\ lease'[c] = Entry(c)
           \/ AcquirePick(c) /\ lease'[c] = ready[Chosen]
<1>1. lease' # lease
  OBVIOUS
<1>2. ASSUME NEW d \in Clients, Release(d) PROVE FALSE
  <2>1. lease' = [lease EXCEPT ![d] = NoId]
    BY <1>2 DEF Release
  <2> QED
    BY <2>1 DEF TypeOK
<1>3. ASSUME NEW d \in Clients, NEW id, NEW h, NEW bind, Grant(d, id, h, bind)
      PROVE  d = c /\ lease'[c] = id
  <2>1. lease' = [lease EXCEPT ![d] = id]
    BY <1>3 DEF Grant
  <2> QED
    BY <2>1 DEF TypeOK
<1>4. PICK d \in Clients : AcquireSticky(d) \/ AcquirePick(d)
  <2>1. ASSUME NEW e \in Clients,
               \/ AcquireEmpty(e) \/ AcquireWait(e) \/ Select(e) \/ CtxDone(e)
               \/ MoveUnavailable(e) \/ RecordUsage(e)
        PROVE  FALSE
    BY <1>1, <2>1 DEF AcquireEmpty, AcquireWait, Select, CtxDone, MoveUnavailable, RecordUsage
  <2>2. ~(Signal \/ PoolStep \/ SettingsStep)
    BY <1>1 DEF Signal, PoolStep, PromoteDue, Delete, Elapse, Upsert, SettingsStep, ApplyMaxActive,
                ApplyActiveSize, WithStrategy, WithSticky
  <2> QED
    BY <1>2, <2>1, <2>2 DEF Next, ClientStep
<1>5. CASE AcquireSticky(d)
  <2>1. Grant(d, Entry(d), hot, sticky)
    BY <1>5 DEF AcquireSticky
  <2> QED
    BY <1>3, <1>5, <2>1
<1>6. CASE AcquirePick(d)
  <2>1. PICK expired \in BOOLEAN : Grant(d, ready[Chosen], hot \ Exhausted, AfterMiss(d, expired))
    BY <1>6 DEF AcquirePick
  <2> QED
    BY <1>3, <1>6, <2>1
<1> QED
  BY <1>4, <1>5, <1>6

\* A lease is granted only below the account's limit, on a ready account with
\* quota left, and only on an account that is hot afterwards when the hot set is
\* limited - also when the scan itself has just made the room for it
\* (AcquireSticky, pickReadyLocked, ensureHotLocked).
THEOREM GrantsAreSound == Spec => GrantSound
<1> DEFINE Sound ==
       \A c \in Clients :
          lease'[c] # lease[c] /\ lease'[c] # NoId =>
             LET id == lease'[c] IN
             /\ active'[id] <= maxActive[id]
             /\ id \in Elems(ready) \cap Elems(ready')
             /\ ~QuotaExhausted(life[id])
             /\ conf.activeSize > 0 => id \in hot'
<1>1. SchedulerInv /\ HotBounded /\ [Next]_vars => [Sound]_vars
  <2> SUFFICES ASSUME TypeOK, ReadyList, HotBounded, Next, NEW c \in Clients, NEW id,
                      id = lease'[c], id # lease[c], id # NoId
               PROVE  /\ active'[id] <= maxActive[id]
                      /\ id \in Elems(ready) \cap Elems(ready')
                      /\ ~QuotaExhausted(life[id])
                      /\ conf.activeSize > 0 => id \in hot'
    BY DEF SchedulerInv
  <2>1. CASE AcquireSticky(c) /\ id = Entry(c)
    <3>1. /\ id \in present /\ Available(life[id], active[id], maxActive[id])
          /\ active' = [active EXCEPT ![id] = active[id] + 1]
      BY <2>1 DEF AcquireSticky, CanServe, Grant
    <3>2. id \in Ids
      BY <3>1 DEF TypeOK
    <3>3. active'[id] <= maxActive[id] /\ ~QuotaExhausted(life[id])
      BY <3>1, <3>2 DEF Available, TypeOK
    <3> QED
      BY <2>1, <3>3, GrantHot
  <2>2. CASE AcquirePick(c) /\ id = ready[Chosen]
    <3>1. Candidates # {} /\ active' = [active EXCEPT ![id] = active[id] + 1]
      BY <2>2 DEF AcquirePick, Grant
    <3>2. id \in Ids /\ Available(life[id], active[id], maxActive[id])
      BY <2>2, <3>1, PickProperties
    <3>3. active'[id] <= maxActive[id] /\ ~QuotaExhausted(life[id])
      BY <3>1, <3>2 DEF Available, TypeOK
    <3> QED
      BY <2>2, <3>3, GrantHot
  <2> QED
    BY <2>1, <2>2, GrantedBy
<1> QED
  BY <1>1, SchedulerInvariant, HotSetBounded, PTL DEF Spec, GrantSound

\* What could serve when the scan starts is a candidate.
LEMMA ServingIsCandidate ==
    ASSUME TypeOK, HotBounded, NEW id \in Elems(ready), CanServe(id, hot)
    PROVE  \E i \in Candidates : ready[i] = id
<1>1. PICK i \in DOMAIN ready : ready[i] = id
  BY DEF Elems
<1>2. id \notin Exhausted
  BY DEF CanServe, Available, Exhausted, KnownExhausted
<1>3. CanServe(id, HotAt(i))
  BY <1>1, <1>2, ScanEligible DEF CanServe
<1> QED
  BY <1>1, <1>2, <1>3 DEF Candidates

\* No request without a usable sticky binding is given an account while one of a
\* higher priority, or a less loaded one of the same priority, could serve - both
\* strategies choose among the least loaded of the top tier, and the accounts the
\* scan parks on its way do not hide one (pickReadyLocked).
THEOREM PicksInOrder == Spec => PickOrder
<1> DEFINE Ordered ==
       \A c \in Clients, id \in Ids :
          (lease'[c] # lease[c] /\ lease'[c] # NoId /\ Entry(c) # lease'[c]
             /\ id \in Elems(ready) /\ CanServe(id, hot)) =>
             LET got == lease'[c] IN
             \/ priority[id] < priority[got]
             \/ priority[id] = priority[got] /\ active[got] <= active[id]
<1>1. SchedulerInv /\ HotBounded /\ [Next]_vars => [Ordered]_vars
  <2> SUFFICES ASSUME TypeOK, HotBounded, Next, NEW c \in Clients, NEW id \in Elems(ready), NEW got,
                      got = lease'[c], got # lease[c], got # NoId, Entry(c) # got,
                      CanServe(id, hot)
               PROVE  \/ priority[id] < priority[got]
                      \/ priority[id] = priority[got] /\ active[got] <= active[id]
    BY DEF SchedulerInv
  <2>1. AcquirePick(c) /\ got = ready[Chosen]
    BY GrantedBy
  <2>2. Candidates # {}
    BY <2>1 DEF AcquirePick
  <2>3. Chosen \in LeastLoaded(TopPriority(Candidates))
    BY <2>2, ChosenIsFinalist DEF Finalists
  <2>4. PICK i \in Candidates : ready[i] = id
    BY ServingIsCandidate
  <2>5. priority[id] <= priority[got]
    BY <2>1, <2>3, <2>4 DEF LeastLoaded, TopPriority
  <2>6. id \in Ids /\ got \in Ids
    BY <2>1, <2>2, PickProperties DEF CanServe, TypeOK
  <2>7. priority[id] \in Nat /\ priority[got] \in Nat
    BY <2>6 DEF TypeOK
  <2>8. CASE priority[id] = priority[got]
    <3>1. \A j \in Candidates : priority[ready[j]] <= priority[ready[Chosen]]
      BY <2>3 DEF LeastLoaded, TopPriority
    <3>2. i \in TopPriority(Candidates)
      BY <2>1, <2>4, <2>8, <3>1 DEF TopPriority
    <3> QED
      BY <2>1, <2>3, <2>4, <2>8, <3>2 DEF LeastLoaded
  <2> QED
    BY <2>5, <2>7, <2>8
<1> QED
  BY <1>1, SchedulerInvariant, HotSetBounded, PTL DEF Spec, PickOrder

-----------------------------------------------------------------------------
(* Waiters.                                                                *)

Unlimited == conf.activeSize = 0

\* Accounts that could serve if the hot set has no limit.
Spare == {id \in Elems(ready) : id \in present /\ Available(life[id], active[id], maxActive[id])}

\* Somebody is going to look at the pool again: a signal is pending or buffered,
\* or a client runs that looks itself or signals when it releases.
Attended == signals > 0 \/ notify = 1 \/ \E c \in Clients : pc[c] \in {"woken", "leased"}

\* WaiterNotAbandoned is about blocked clients; a client that has found nothing
\* and is on its way to the select must not be missed either.
NobodyForgotten ==
    (\E c \in Clients : pc[c] \in {"unlocked", "parked"}) /\ Spare # {} => Attended

\* Without a limit on the hot set an account with a free slot can be granted.
LEMMA SpareServes ==
    ASSUME TypeOK, Unlimited
    PROVE  Candidates # {} <=> Spare # {}
<1>1. \A id, h : Eligible(id, h)
  BY DEF Eligible, Unlimited
<1>2. \A id \in Spare : id \notin Exhausted
  BY DEF Spare, Available, Exhausted, KnownExhausted
<1>3. ASSUME Candidates # {} PROVE Spare # {}
  <2>1. PICK i \in Candidates : TRUE
    BY <1>3
  <2> QED
    BY <2>1 DEF Candidates, CanServe, Spare, Elems
<1>4. ASSUME Spare # {} PROVE Candidates # {}
  <2>1. PICK id \in Spare : TRUE
    BY <1>4
  <2>2. PICK i \in DOMAIN ready : ready[i] = id
    BY DEF Spare, Elems
  <2> QED
    BY <1>1, <1>2, <2>2 DEF Candidates, CanServe, Spare
<1> QED
  BY <1>3, <1>4

\* Every step that finds a slot for a waiter leaves a signal, a token or a scan under way.
LEMMA WaitersStep ==
    SchedulerInv /\ Unlimited /\ Unlimited' /\ NobodyForgotten /\ [Next]_vars => NobodyForgotten'
<1> SUFFICES ASSUME TypeOK, ReadyList, WaitQueue, Unlimited, NobodyForgotten, [Next]_vars
             PROVE  NobodyForgotten'
  BY DEF SchedulerInv
<1> USE SchedulerAssumption
<1>1. ASSUME Signals PROVE NobodyForgotten'
  <2>1. signals \in Nat /\ signals' = signals + 1
    BY <1>1 DEF Signals, TypeOK
  <2>2. signals' > 0
    BY <2>1
  <2> QED
    BY <2>2 DEF NobodyForgotten, Attended
<1>2. ASSUME Spare' \subseteq Spare, UNCHANGED <<signals, notify, pc>> PROVE NobodyForgotten'
  BY <1>2 DEF NobodyForgotten, Attended
<1>3. ASSUME NEW c \in Clients, pc'[c] \in {"woken", "leased"} PROVE NobodyForgotten'
  BY <1>3 DEF NobodyForgotten, Attended
<1>4. ASSUME NEW c \in Clients, AcquireSticky(c) \/ AcquirePick(c) PROVE NobodyForgotten'
  <2>1. pc' = [pc EXCEPT ![c] = "leased"]
    BY <1>4 DEF AcquireSticky, AcquirePick, Grant
  <2>2. pc'[c] = "leased"
    BY <2>1 DEF TypeOK
  <2> QED
    BY <1>3, <2>2
<1>5. ASSUME NEW c \in Clients, MoveUnavailable(c) \/ RecordUsage(c) PROVE NobodyForgotten'
  <2>1. pc'[c] = "leased"
    BY <1>5 DEF MoveUnavailable, RecordUsage
  <2> QED
    BY <1>3, <2>1
<1>6. ASSUME NEW c \in Clients, AcquireEmpty(c) PROVE NobodyForgotten'
  <2>1. ready' = <<>>
    BY <1>6 DEF AcquireEmpty, acctVars
  <2>2. Spare' = {}
    BY <2>1 DEF Spare, Elems
  <2> QED
    BY <2>2 DEF NobodyForgotten
<1>7. ASSUME NEW c \in Clients, AcquireWait(c) PROVE NobodyForgotten'
  <2>1. /\ Candidates = {} /\ ParkExhausted /\ present' = present /\ active' = active
        /\ maxActive' = maxActive
    BY <1>7 DEF AcquireWait
  <2>2. Spare = {}
    BY <2>1, SpareServes
  <2>3. Elems(ready') = Elems(ready) \ Exhausted
    BY <2>1, ParkReady
  <2>4. \A id \in Ids \ Exhausted : life'[id] = life[id]
    BY <2>1 DEF ParkExhausted
  <2>5. Spare' \subseteq Spare
    BY <2>1, <2>3, <2>4 DEF Spare, TypeOK
  <2> QED
    BY <2>2, <2>5 DEF NobodyForgotten
<1>8. ASSUME NEW c \in Clients, Select(c) PROVE NobodyForgotten'
  <2>1. CASE notify = 1
    <3>1. pc' = [pc EXCEPT ![c] = "woken"]
      BY <1>8, <2>1 DEF Select
    <3>2. pc'[c] = "woken"
      BY <3>1 DEF TypeOK
    <3> QED
      BY <1>3, <3>2
  <2>2. CASE notify # 1
    <3>1. /\ pc[c] = "unlocked" /\ pc' = [pc EXCEPT ![c] = "parked"]
          /\ UNCHANGED <<present, life, active, maxActive, ready, signals, notify>>
      BY <1>8, <2>2 DEF Select, acctVars
    <3>2. Spare' = Spare
      BY <3>1 DEF Spare
    <3>3. Attended => Attended'
      BY <3>1 DEF Attended, TypeOK
    <3> QED
      BY <3>1, <3>2, <3>3 DEF NobodyForgotten
  <2> QED
    BY <2>1, <2>2
<1>9. ASSUME NEW c \in Clients, CtxDone(c) PROVE NobodyForgotten'
  <2>1. /\ pc[c] \in {"unlocked", "parked"} /\ pc' = [pc EXCEPT ![c] = "idle"]
        /\ UNCHANGED <<present, life, active, maxActive, ready, signals, notify>>
    BY <1>9 DEF CtxDone, acctVars
  <2>2. Spare' = Spare
    BY <2>1 DEF Spare
  <2>3. Attended => Attended'
    BY <2>1 DEF Attended, TypeOK
  <2> QED
    BY <2>1, <2>2, <2>3 DEF NobodyForgotten
<1>10. CASE Signal
  <2>1. CASE recvq # <<>>
    <3>1. Head(recvq) \in Clients
      BY <2>1 DEF TypeOK
    <3>2. pc'[Head(recvq)] = "woken"
      BY <1>10, <2>1, <3>1 DEF Signal, TypeOK
    <3> QED
      BY <1>3, <3>1, <3>2
  <2>2. CASE recvq = <<>>
    BY <1>10, <2>2 DEF Signal, NobodyForgotten, Attended
  <2> QED
    BY <2>1, <2>2
<1>11. CASE \/ PromoteDue
            \/ \E c \in Clients : Release(c)
            \/ \E id \in Ids : Delete(id)
            \/ \E id \in Ids, item \in UpsertItems, limit \in MaxActives, prio \in Priorities :
                  Upsert(id, item, limit, prio)
  <2>1. Signals
    BY <1>11 DEF PromoteDue, Release, Delete, Upsert
  <2> QED
    BY <1>1, <2>1
<1>12. ASSUME NEW id \in Ids, Elapse(id) PROVE NobodyForgotten'
  <2>1. /\ life' = [life EXCEPT ![id] = [life[id] EXCEPT !.retryAt = "due"]]
        /\ UNCHANGED <<present, active, maxActive, ready, signals, notify, pc>>
    BY <1>12 DEF Elapse, chanVars
  <2>2. life[id] \in Account
    BY DEF TypeOK
  <2>3. PICK a : a = [life[id] EXCEPT !.retryAt = "due"]
    OBVIOUS
  <2>4. a.pool = life[id].pool /\ a.exhausted = life[id].exhausted
    BY <2>2, <2>3 DEF Account
  <2>5. \A x \in Ids : life'[x] = IF x = id THEN a ELSE life[x]
    BY <2>1, <2>3 DEF TypeOK
  <2>6. Spare' \subseteq Spare
    BY <2>1, <2>4, <2>5 DEF Spare, Available, QuotaExhausted, TypeOK
  <2> QED
    BY <1>2, <2>1, <2>6
<1>13. ASSUME NEW n \in MaxActiveCaps, ApplyMaxActive(n) PROVE NobodyForgotten'
  <2>1. /\ maxActive' = [id \in Ids |-> IF id \in present THEN Lower(maxActive[id], n)
                                        ELSE maxActive[id]]
        /\ UNCHANGED <<present, life, active, ready, signals, notify, pc>>
    BY <1>13 DEF ApplyMaxActive, chanVars
  <2>2. \A id \in present : maxActive[id] \in Nat /\ active[id] \in Nat /\ n \in Nat
    BY DEF TypeOK
  <2>3. \A id \in present : active[id] < maxActive'[id] => active[id] < maxActive[id]
    BY <2>1, <2>2 DEF Lower, TypeOK
  <2>4. Spare' \subseteq Spare
    BY <2>1, <2>3 DEF Spare, Available
  <2> QED
    BY <1>2, <2>1, <2>4
<1>14. CASE \/ UNCHANGED vars \/ \E n \in ActiveSizes : ApplyActiveSize(n)
            \/ \E s \in Strategies : WithStrategy(s)
            \/ \E on \in StickyModes : WithSticky(on)
  <2>1. UNCHANGED <<present, life, active, maxActive, ready, signals, notify, pc>>
    BY <1>14 DEF ApplyActiveSize, WithStrategy, WithSticky, acctVars, chanVars, vars
  <2>2. Spare' = Spare
    BY <2>1 DEF Spare
  <2> QED
    BY <1>2, <2>1, <2>2
<1> QED
  BY <1>4, <1>5, <1>6, <1>7, <1>8, <1>9, <1>10, <1>11, <1>12, <1>13, <1>14
  DEF Next, ClientStep, PoolStep, SettingsStep

\* While the hot set is not limited, nobody sleeps on a free pool with no one
\* left to wake them: a signal is pending, or a woken client or a lease holder
\* is still running, however signals, timeouts and changes of the pool
\* interleave (AcquireSticky's select, signal, Release).
THEOREM WaitersAttended == Spec /\ []Unlimited => []WaiterNotAbandoned
<1>1. Init => NobodyForgotten
  BY DEF Init, NobodyForgotten
<1>2. SchedulerInv /\ NobodyForgotten => WaiterNotAbandoned
  <2> SUFFICES ASSUME TypeOK, WaitQueue, NobodyForgotten, Unlimited, recvq # <<>>, Candidates # {}
               PROVE  signals > 0 \/ \E c \in Clients : pc[c] \in {"woken", "leased"}
    BY DEF SchedulerInv, WaiterNotAbandoned, Unlimited
  <2>1. Head(recvq) \in Clients /\ Head(recvq) \in Elems(recvq)
    BY TailListProperties DEF TypeOK, WaitQueue
  <2>2. pc[Head(recvq)] = "parked" /\ notify = 0
    BY <2>1 DEF WaitQueue
  <2>3. Spare # {}
    BY SpareServes
  <2> QED
    BY <2>1, <2>2, <2>3 DEF NobodyForgotten, Attended
<1> QED
  BY <1>1, <1>2, WaitersStep, SchedulerInvariant, PTL DEF Spec
=============================================================================
