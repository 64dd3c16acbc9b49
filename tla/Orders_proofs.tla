---------------------------- MODULE Orders_proofs ----------------------------
(***************************************************************************)
(* What the operators of Orders do to a sequence without repetitions: none *)
(* of them loses or repeats an element.                                    *)
(***************************************************************************)
EXTENDS Orders, FiniteSetTheorems, FunctionTheorems, SequenceTheorems, TLAPS

StrictTotalOrder(R, S) ==
    /\ \A i \in S : <<i, i>> \notin R
    /\ \A i, j, m \in S : <<i, j>> \in R /\ <<j, m>> \in R => <<i, m>> \in R
    /\ \A i, j \in S : i # j => <<i, j>> \in R \/ <<j, i>> \in R

(* Counting the elements before each one lists a finite set without gaps   *)
(* or repetitions.                                                         *)
LEMMA InOrderBijection ==
  ASSUME NEW S, IsFiniteSet(S), NEW R, StrictTotalOrder(R, S)
  PROVE  /\ InOrder(S, R) \in Bijection(1 .. Cardinality(S), S)
         /\ \A m \in 1 .. Cardinality(S) : Rank(S, R, InOrder(S, R)[m]) = m - 1
<1> DEFINE n == Cardinality(S)
           below(i) == {j \in S : <<j, i>> \in R}
           rank == [i \in S |-> Cardinality(below(i)) + 1]
           order == InOrder(S, R)
<1>1. n \in Nat
  BY FS_CardinalityType
<1>2. \A i \in S : IsFiniteSet(below(i)) /\ Cardinality(below(i)) \in Nat
                   /\ Cardinality(below(i)) < n
  <2> TAKE i \in S
  <2>1. below(i) \in SUBSET S /\ below(i) # S
    BY DEF StrictTotalOrder
  <2>2. IsFiniteSet(below(i)) /\ Cardinality(below(i)) <= n /\ Cardinality(below(i)) # n
    BY <2>1, FS_Subset
  <2>3. Cardinality(below(i)) \in Nat
    BY <2>2, FS_CardinalityType
  <2> HIDE DEF below
  <2> QED BY <1>1, <2>2, <2>3
<1>3. ASSUME NEW i \in S, NEW j \in S, <<i, j>> \in R
      PROVE  Cardinality(below(i)) < Cardinality(below(j))
  <2>1. below(i) \in SUBSET below(j) /\ below(i) # below(j)
    BY <1>3 DEF StrictTotalOrder
  <2>2. Cardinality(below(i)) <= Cardinality(below(j))
        /\ Cardinality(below(i)) # Cardinality(below(j))
    BY <1>2, <2>1, FS_Subset
  <2> HIDE DEF below
  <2> QED BY <1>2, <2>2
<1>4. rank \in Injection(S, 1 .. n)
  <2>1. rank \in [S -> 1 .. n]
    <3> HIDE DEF below
    <3> QED BY <1>1, <1>2
  <2>2. ASSUME NEW i \in S, NEW j \in S, rank[i] = rank[j] PROVE i = j
    <3>1. Cardinality(below(i)) = Cardinality(below(j))
      <4> HIDE DEF below
      <4> QED BY <1>2, <2>2
    <3>2. SUFFICES ASSUME i # j PROVE FALSE
      OBVIOUS
    <3>3. <<i, j>> \in R \/ <<j, i>> \in R
      BY <3>2 DEF StrictTotalOrder
    <3> HIDE DEF below
    <3> QED BY <1>2, <1>3, <3>1, <3>3
  <2> HIDE DEF rank
  <2> QED BY <2>1, <2>2 DEF Injection, IsInjective
<1>5. rank \in Surjection(S, 1 .. n)
  <2>1. IsFiniteSet(1 .. n) /\ Cardinality(1 .. n) = n
    BY <1>1, FS_Interval
  <2> HIDE DEF rank
  <2> QED BY <1>4, <2>1, FS_Injection
<1>6. \A m \in 1 .. n : /\ order[m] \in S /\ rank[order[m]] = m
                        /\ Rank(S, R, order[m]) = m - 1
  <2> TAKE m \in 1 .. n
  <2>1. PICK i \in S : rank[i] = m
    <3> HIDE DEF rank
    <3> QED BY <1>5 DEF Surjection
  <2>2. Cardinality(below(i)) = m - 1
    <3> HIDE DEF below
    <3> QED BY <1>2, <2>1
  <2>3. order[m] \in S /\ Rank(S, R, order[m]) = m - 1
    <3>1. Rank(S, R, i) = m - 1
      BY <2>2 DEF Rank
    <3>2. order[m] = CHOOSE x \in S : Rank(S, R, x) = m - 1
      BY DEF InOrder
    <3> HIDE DEF order
    <3> QED BY <3>1, <3>2
  <2>4. rank[order[m]] = Cardinality(below(order[m])) + 1
    BY <2>3
  <2>5. Cardinality(below(order[m])) = m - 1
    BY <2>3 DEF Rank
  <2> HIDE DEF below, order, rank
  <2> QED BY <1>1, <2>3, <2>4, <2>5
<1>7. order \in [1 .. n -> S]
  <2>1. order = [m \in 1 .. n |-> order[m]]
    BY DEF InOrder
  <2> HIDE DEF order
  <2> QED BY <1>6, <2>1
<1>8. \A i \in S : order[rank[i]] = i
  <2> TAKE i \in S
  <2> HIDE DEF rank, order
  <2>1. rank[i] \in 1 .. n
    BY <1>4 DEF Injection
  <2>2. order[rank[i]] \in S /\ rank[order[rank[i]]] = rank[i]
    BY <1>6, <2>1
  <2> QED BY <1>4, <2>2, Fun_InjectionProperties
<1> HIDE DEF order, rank
<1>9. order \in Injection(1 .. n, S)
  <2>1. \A a, b \in 1 .. n : order[a] = order[b] => a = b
    BY <1>6
  <2> QED BY <1>7, <2>1 DEF Injection, IsInjective
<1>10. order \in Surjection(1 .. n, S)
  <2>1. \A i \in S : rank[i] \in 1 .. n
    BY <1>4 DEF Injection
  <2>2. \A i \in S : \E m \in 1 .. n : order[m] = i
    BY <1>8, <2>1
  <2> QED BY <1>7, <2>2 DEF Surjection
<1> QED BY <1>6, <1>9, <1>10 DEF Bijection, order

-----------------------------------------------------------------------------
(* Lists without repetitions.                                              *)

DupFree(s) == \A i, j \in DOMAIN s : s[i] = s[j] => i = j

LEMMA BijectionFacts ==
  ASSUME NEW S, NEW T, NEW F \in Bijection(S, T)
  PROVE  /\ \A a \in S : F[a] \in T
         /\ \A a, b \in S : F[a] = F[b] => a = b
         /\ \A t \in T : \E a \in S : F[a] = t
<1>1. F \in [S -> T]
  BY Fun_BijectionProperties
<1> QED BY <1>1, Fun_BijectionProperties

LEMMA ListingFacts ==
  ASSUME NEW n, NEW K, NEW F, F \in Bijection(1 .. n, K)
  PROVE  /\ \A a \in 1 .. n : F[a] \in K
         /\ \A a, b \in 1 .. n : F[a] = F[b] => a = b
         /\ \A t \in K : \E a \in 1 .. n : F[a] = t
<1> DEFINE S == 1 .. n
<1>1. F \in Bijection(S, K)
  OBVIOUS
<1> HIDE DEF S
<1>2. /\ \A a \in S : F[a] \in K
      /\ \A a, b \in S : F[a] = F[b] => a = b
      /\ \A t \in K : \E a \in S : F[a] = t
  BY <1>1, BijectionFacts
<1> QED BY <1>2 DEF S

(* What is listed earlier comes before what is listed later.               *)
LEMMA InOrderAscends ==
  ASSUME NEW S, IsFiniteSet(S), NEW R, StrictTotalOrder(R, S),
         NEW a \in 1 .. Cardinality(S), NEW b \in 1 .. Cardinality(S), a < b
  PROVE  <<InOrder(S, R)[a], InOrder(S, R)[b]>> \in R
<1> DEFINE x == InOrder(S, R)[a]
           y == InOrder(S, R)[b]
           below(i) == {j \in S : <<j, i>> \in R}
<1>1. InOrder(S, R) \in Bijection(1 .. Cardinality(S), S)
      /\ Rank(S, R, x) = a - 1 /\ Rank(S, R, y) = b - 1
  BY InOrderBijection
<1>2. x \in S /\ y \in S
  BY <1>1, ListingFacts
<1>3. Cardinality(below(x)) = a - 1 /\ Cardinality(below(y)) = b - 1
  BY <1>1 DEF Rank
<1> HIDE DEF x, y
<1>4. x # y
  <2>1. a \in Int /\ b \in Int /\ a - 1 < b - 1
    BY FS_CardinalityType
  <2> HIDE DEF below
  <2> QED BY <1>3, <2>1
<1>5. ASSUME <<y, x>> \in R PROVE FALSE
  <2>1. below(y) \in SUBSET below(x) /\ below(x) \in SUBSET S
    BY <1>2, <1>5 DEF StrictTotalOrder
  <2>2. Cardinality(below(y)) <= Cardinality(below(x))
    BY <2>1, FS_Subset
  <2> HIDE DEF below
  <2> QED BY <1>3, <2>2
<1>6. <<x, y>> \in R
  BY <1>2, <1>4, <1>5 DEF StrictTotalOrder
<1> QED BY <1>6 DEF x, y

LEMMA InRange ==
  ASSUME NEW f
  PROVE  \A x : x \in Range(f) <=> \E i \in DOMAIN f : f[i] = x
BY DEF Range

LEMMA AscendingIsOrder ==
  ASSUME NEW S, S \in SUBSET Int
  PROVE  StrictTotalOrder(Ascending(S), S)
BY DEF StrictTotalOrder, Ascending

(* Any set of naturals has a least one.                                    *)
LEMMA LeastNatural ==
  ASSUME NEW T, T \in SUBSET Nat, NEW n \in T
  PROVE  \E x \in T : \A y \in T : x <= y
<1> DEFINE S == {y \in T : y <= n}
           k == Cardinality(S)
           order == InOrder(S, Ascending(S))
<1>1. S \in SUBSET (0 .. n) /\ S \in SUBSET Int /\ n \in S /\ IsFiniteSet(S) /\ k \in Nat
  <2>1. IsFiniteSet(0 .. n)
    BY FS_Interval
  <2>2. n \in Nat /\ n <= n /\ \A y \in S : y \in Nat /\ y <= n
    OBVIOUS
  <2>3. n \in S
    BY <2>2
  <2> HIDE DEF S
  <2>4. S \in SUBSET (0 .. n) /\ S \in SUBSET Int
    BY <2>2
  <2>5. IsFiniteSet(S)
    BY <2>1, <2>4, FS_Subset
  <2> QED BY <2>3, <2>4, <2>5, FS_CardinalityType
<1>2. k # 0
  BY <1>1, FS_EmptySet
<1>3. order \in Bijection(1 .. k, S)
  <2>1. StrictTotalOrder(Ascending(S), S)
    BY <1>1, AscendingIsOrder
  <2> HIDE DEF S
  <2> QED BY <1>1, <2>1, InOrderBijection
<1>4. PICK x \in S : Rank(S, Ascending(S), x) = 0
  <2>1. StrictTotalOrder(Ascending(S), S)
    BY <1>1, AscendingIsOrder
  <2> HIDE DEF S
  <2>2. 1 \in 1 .. k
    BY <1>1, <1>2
  <2>3. order[1] \in S
    BY <1>3, <2>2, ListingFacts
  <2>4. Rank(S, Ascending(S), order[1]) = 0
    BY <1>1, <2>1, <2>2, InOrderBijection
  <2> QED BY <2>3, <2>4
<1>5. {j \in S : <<j, x>> \in Ascending(S)} = {}
  <2> DEFINE B == {j \in S : <<j, x>> \in Ascending(S)}
  <2>1. IsFiniteSet(B) /\ Cardinality(B) = 0
    BY <1>1, <1>4, FS_Subset DEF Rank
  <2> HIDE DEF B
  <2>2. B = {}
    BY <2>1, FS_EmptySet
  <2> QED BY <2>2 DEF B
<1>6. \A y \in S : ~(y < x)
  BY <1>5 DEF Ascending
<1>7. x \in T /\ x \in Nat /\ x <= n
  BY <1>1
<1>8. ASSUME NEW y \in T PROVE x <= y
  <2>1. y \in Nat /\ n \in Nat
    BY <1>1
  <2>2. CASE y <= n
    BY <1>6, <1>7, <2>1, <2>2
  <2>3. CASE ~(y <= n)
    BY <1>7, <2>1, <2>3
  <2> QED BY <2>2, <2>3
<1> QED BY <1>7, <1>8

(* Retain keeps what it is told to keep, as often as it is there and in    *)
(* the order it is in, and nothing else.                                   *)
LEMMA RetainProperties ==
  ASSUME NEW T, NEW s \in Seq(T), NEW keep
  PROVE  /\ Retain(s, keep) \in Seq(T)
         /\ DupFree(s) => DupFree(Retain(s, keep))
         /\ Range(Retain(s, keep)) = Range(s) \cap keep
         /\ \E from \in [DOMAIN Retain(s, keep) -> DOMAIN s] :
               /\ \A k \in DOMAIN Retain(s, keep) : Retain(s, keep)[k] = s[from[k]]
               /\ \A k, m \in DOMAIN Retain(s, keep) : k < m => from[k] < from[m]
<1> DEFINE K == {i \in DOMAIN s : s[i] \in keep}
           n == Cardinality(K)
           order == InOrder(K, Ascending(K))
           r == Retain(s, keep)
<1>1. DOMAIN s = 1 .. Len(s) /\ Len(s) \in Nat
  OBVIOUS
<1>2. K \in SUBSET (1 .. Len(s)) /\ IsFiniteSet(K) /\ n \in Nat
  <2>1. IsFiniteSet(1 .. Len(s))
    BY <1>1, FS_Interval
  <2> QED BY <1>1, <2>1, FS_Subset, FS_CardinalityType
<1>3. order \in Bijection(1 .. n, K)
  <2>1. StrictTotalOrder(Ascending(K), K)
    BY <1>2, AscendingIsOrder
  <2> QED BY <1>2, <2>1, InOrderBijection
<1>4. r = [k \in 1 .. n |-> s[order[k]]]
  BY DEF Retain
<1>5. /\ \A k \in 1 .. n : order[k] \in K
      /\ \A a, b \in 1 .. n : order[a] = order[b] => a = b
      /\ \A i \in K : \E k \in 1 .. n : order[k] = i
  <2> HIDE DEF order, K, n
  <2> QED BY <1>3, ListingFacts
<1>6. \A k \in 1 .. n : s[order[k]] \in T \cap keep
  <2> HIDE DEF order, n
  <2> QED BY <1>1, <1>5
<1>7. r \in Seq(T) /\ DOMAIN r = 1 .. n
  <2> HIDE DEF order, n, r, K
  <2> QED BY <1>2, <1>4, <1>6
<1>8. DupFree(s) => DupFree(r)
  <2> SUFFICES ASSUME DupFree(s), NEW a \in 1 .. n, NEW b \in 1 .. n, r[a] = r[b]
               PROVE  a = b
    BY <1>7 DEF DupFree
  <2>1. s[order[a]] = s[order[b]]
    <3> HIDE DEF order, n, r, K
    <3> QED BY <1>4
  <2>2. order[a] = order[b]
    <3> HIDE DEF order, n, r
    <3> QED BY <2>1, <1>5 DEF DupFree
  <2> HIDE DEF order, n, r, K
  <2> QED BY <2>2, <1>5
<1>9. Range(r) = Range(s) \cap keep
  <2>1. ASSUME NEW x \in Range(r) PROVE x \in Range(s) \cap keep
    <3>1. PICK k \in 1 .. n : x = s[order[k]]
      <4> HIDE DEF order, n, r, K
      <4> QED BY <2>1, <1>4, <1>7 DEF Range
    <3>2. order[k] \in DOMAIN s
      <4> HIDE DEF order, n, r
      <4> QED BY <1>5
    <3> HIDE DEF order, n, r
    <3> QED BY <3>1, <3>2, <1>6 DEF Range
  <2>2. ASSUME NEW x \in Range(s) \cap keep PROVE x \in Range(r)
    <3>1. PICK i \in K : x = s[i]
      BY <2>2 DEF Range
    <3>2. PICK k \in 1 .. n : order[k] = i
      <4> HIDE DEF order, n, r, K
      <4> QED BY <1>5
    <3> HIDE DEF order, n, r, K
    <3> QED BY <3>1, <3>2, <1>4, <1>7 DEF Range
  <2> QED BY <2>1, <2>2
<1>10. \E from \in [DOMAIN r -> DOMAIN s] :
          /\ \A k \in DOMAIN r : r[k] = s[from[k]]
          /\ \A k, m \in DOMAIN r : k < m => from[k] < from[m]
  <2> DEFINE from == [k \in 1 .. n |-> order[k]]
  <2>1. from \in [DOMAIN r -> DOMAIN s]
    <3> HIDE DEF order, n, r
    <3> QED BY <1>5, <1>7
  <2>2. \A k \in DOMAIN r : r[k] = s[from[k]]
    <3> HIDE DEF order, n, r, K
    <3> QED BY <1>4, <1>7
  <2>3. ASSUME NEW k \in 1 .. n, NEW m \in 1 .. n, k < m PROVE order[k] < order[m]
    <3>1. StrictTotalOrder(Ascending(K), K)
      BY <1>2, AscendingIsOrder
    <3>2. <<order[k], order[m]>> \in Ascending(K)
      <4> HIDE DEF K
      <4> QED BY <1>2, <2>3, <3>1, InOrderAscends
    <3> HIDE DEF order, K
    <3> QED BY <3>2 DEF Ascending
  <2>4. \A k, m \in DOMAIN r : k < m => from[k] < from[m]
    <3> HIDE DEF order, n, r, K
    <3> QED BY <1>7, <2>3
  <2> HIDE DEF from, r
  <2> QED BY <2>1, <2>2, <2>4
<1> HIDE DEF r
<1> QED BY <1>7, <1>8, <1>9, <1>10 DEF r

(* Permuting a list changes neither what is in it nor how often.           *)
LEMMA PermutedProperties ==
  ASSUME NEW T, NEW s \in Seq(T), DupFree(s),
         NEW p \in Bijection(1 .. Len(s), 1 .. Len(s))
  PROVE  LET r == [k \in DOMAIN s |-> s[p[k]]] IN
         r \in Seq(T) /\ DupFree(r) /\ Range(r) = Range(s)
<1> DEFINE n == Len(s)
           r == [k \in DOMAIN s |-> s[p[k]]]
<1>1. DOMAIN s = 1 .. n /\ n \in Nat /\ \A i \in 1 .. n : s[i] \in T
  OBVIOUS
<1>2. /\ \A k \in 1 .. n : p[k] \in 1 .. n
      /\ \A a, b \in 1 .. n : p[a] = p[b] => a = b
      /\ \A i \in 1 .. n : \E k \in 1 .. n : p[k] = i
  BY BijectionFacts
<1> HIDE DEF n
<1>r. r = [k \in 1 .. n |-> s[p[k]]]
  BY <1>1
<1> HIDE DEF r
<1>3. r \in Seq(T) /\ DOMAIN r = 1 .. n
  <2>1. \A k \in 1 .. n : s[p[k]] \in T
    BY <1>1, <1>2
  <2> QED BY <1>1, <1>r, <2>1
<1>4. DupFree(r)
  <2> SUFFICES ASSUME NEW a \in 1 .. n, NEW b \in 1 .. n, r[a] = r[b]
               PROVE  a = b
    BY <1>3 DEF DupFree
  <2>1. s[p[a]] = s[p[b]] /\ p[a] \in DOMAIN s /\ p[b] \in DOMAIN s
    BY <1>1, <1>2, <1>r
  <2>2. p[a] = p[b]
    BY <2>1 DEF DupFree
  <2> QED BY <2>2, <1>2
<1>5. Range(r) = Range(s)
  <2>1. ASSUME NEW k \in 1 .. n PROVE r[k] \in Range(s)
    BY <1>1, <1>2, <1>r, InRange
  <2>2. ASSUME NEW i \in 1 .. n PROVE s[i] \in Range(r)
    <3>1. PICK k \in 1 .. n : p[k] = i
      BY <1>2
    <3> QED BY <3>1, <1>3, <1>r, InRange
  <2>3. \A x : x \in Range(r) => x \in Range(s)
    BY <1>3, <2>1, InRange
  <2>4. \A x : x \in Range(s) => x \in Range(r)
    BY <1>1, <2>2, InRange
  <2> QED BY <2>3, <2>4
<1> QED BY <1>3, <1>4, <1>5 DEF r

(* Numbers that are new, put behind a list.                                *)
LEMMA AppendedProperties ==
  ASSUME NEW n \in Nat, NEW b \in Nat,
         NEW s \in Seq(Nat), DupFree(s), Range(s) \subseteq 1 .. n,
         NEW new \in Seq(Nat), Len(new) = b, \A k \in 1 .. b : new[k] = n + k
  PROVE  /\ s \o new \in Seq(Nat)
         /\ DupFree(s \o new)
         /\ Range(s \o new) = Range(s) \cup n + 1 .. n + b
<1>0. /\ n \in Nat /\ b \in Nat /\ new \in Seq(Nat) /\ Len(new) = b
      /\ \A k \in 1 .. b : new[k] = n + k
      /\ s \in Seq(Nat) /\ DupFree(s) /\ Range(s) \subseteq 1 .. n
  OBVIOUS
<1> DEFINE m == Len(s)
           r == s \o new
<1>1. DOMAIN s = 1 .. m /\ m \in Nat /\ \A i \in 1 .. m : s[i] \in 1 .. n
  BY <1>0, InRange
<1>2. /\ r \in Seq(Nat) /\ DOMAIN r = 1 .. m + b
      /\ \A i \in 1 .. m : i \in 1 .. m + b /\ r[i] = s[i]
      /\ \A k \in 1 .. b : m + k \in 1 .. m + b /\ r[m + k] = n + k
      /\ \A i \in 1 .. m + b :
            i \in 1 .. m \/ (i - m \in 1 .. b /\ r[i] = n + (i - m))
  <2>1. /\ r \in Seq(Nat) /\ Len(r) = m + b
        /\ \A i \in 1 .. m + b : r[i] = IF i <= m THEN s[i] ELSE new[i - m]
    <3>1. /\ r \in Seq(Nat) /\ Len(r) = Len(s) + Len(new)
          /\ \A i \in 1 .. Len(s) + Len(new) :
                r[i] = IF i <= Len(s) THEN s[i] ELSE new[i - Len(s)]
      BY ConcatProperties
    <3> HIDE DEF r
    <3> QED BY <1>0, <3>1
  <2>2. m \in Nat /\ b \in Nat /\ n \in Nat /\ DOMAIN r = 1 .. m + b
    BY <1>0, <2>1
  <2> HIDE DEF m, r
  <2>3. \A i \in 1 .. m : i \in 1 .. m + b /\ r[i] = s[i]
    BY <2>1, <2>2
  <2>4. \A k \in 1 .. b : m + k \in 1 .. m + b /\ r[m + k] = n + k
    BY <1>0, <2>1, <2>2
  <2>5. \A i \in 1 .. m + b :
           i \in 1 .. m \/ (i - m \in 1 .. b /\ r[i] = n + (i - m))
    BY <1>0, <2>1, <2>2
  <2> QED BY <2>1, <2>2, <2>3, <2>4, <2>5
<1> HIDE DEF m, r
<1>3. DupFree(r)
  <2> SUFFICES ASSUME NEW i \in 1 .. m + b, NEW j \in 1 .. m + b, r[i] = r[j]
               PROVE  i = j
    BY <1>2 DEF DupFree
  <2>1. CASE i \in 1 .. m /\ j \in 1 .. m
    BY <2>1, <1>0, <1>1, <1>2 DEF DupFree
  <2>2. CASE i \notin 1 .. m /\ j \notin 1 .. m
    BY <2>2, <1>0, <1>1, <1>2
  <2>3. CASE i \in 1 .. m /\ j \notin 1 .. m
    BY <2>3, <1>0, <1>1, <1>2
  <2>4. CASE i \notin 1 .. m /\ j \in 1 .. m
    BY <2>4, <1>0, <1>1, <1>2
  <2> QED BY <2>1, <2>2, <2>3, <2>4
<1>4. \A i \in 1 .. m + b : r[i] \in Range(s) \cup n + 1 .. n + b
  <2> TAKE i \in 1 .. m + b
  <2>1. CASE i \in 1 .. m
    BY <2>1, <1>1, <1>2, InRange
  <2>2. CASE i - m \in 1 .. b /\ r[i] = n + (i - m)
    BY <2>2, <1>0, <1>1
  <2> QED BY <2>1, <2>2, <1>2
<1>5. \A i \in 1 .. m : s[i] \in Range(r)
  BY <1>2, InRange
<1>6. \A x \in n + 1 .. n + b : x \in Range(r)
  <2> TAKE x \in n + 1 .. n + b
  <2>1. x - n \in 1 .. b /\ x = n + (x - n)
    BY <1>0
  <2>2. r[m + (x - n)] = x /\ m + (x - n) \in DOMAIN r
    BY <2>1, <1>2
  <2> QED BY <2>2, InRange
<1>7. \A x : x \in Range(r) => x \in Range(s) \cup n + 1 .. n + b
  <2>1. \A x : x \in Range(r) <=> \E i \in DOMAIN r : r[i] = x
    BY InRange
  <2>2. DOMAIN r = 1 .. m + b
    BY <1>2
  <2> QED BY <1>4, <2>1, <2>2
<1>8. \A x : x \in Range(s) => x \in Range(r)
  BY <1>1, <1>5, InRange
<1>9. Range(r) = Range(s) \cup n + 1 .. n + b
  BY <1>6, <1>7, <1>8
<1> QED BY <1>2, <1>3, <1>9 DEF r

(* Inserting a new element adds that element, wherever it goes.            *)
LEMMA InsertProperties ==
  ASSUME NEW T, NEW s \in Seq(T), DupFree(s),
         NEW e \in T, e \notin Range(s), NEW at \in 1 .. Len(s) + 1
  PROVE  /\ Insert(s, at, e) \in Seq(T)
         /\ DupFree(Insert(s, at, e))
         /\ Range(Insert(s, at, e)) = Range(s) \cup {e}
<1> DEFINE n == Len(s)
           r == Insert(s, at, e)
<1>1. DOMAIN s = 1 .. n /\ n \in Nat /\ \A i \in 1 .. n : s[i] \in T /\ s[i] # e
  BY DEF Range
<1>2. r = [k \in 1 .. n + 1 |->
             IF k < at THEN s[k] ELSE IF k = at THEN e ELSE s[k - 1]]
  BY DEF Insert
<1> HIDE DEF n, r
<1>3. at \in 1 .. n + 1
  BY DEF n
<1>4. /\ \A k \in 1 .. at - 1 : k \in 1 .. n /\ r[k] = s[k]
      /\ r[at] = e
      /\ \A k \in at + 1 .. n + 1 : k - 1 \in 1 .. n /\ r[k] = s[k - 1]
      /\ \A k \in 1 .. n + 1 : k \in 1 .. at - 1 \/ k = at \/ k \in at + 1 .. n + 1
  BY <1>1, <1>2, <1>3
<1>5. r \in Seq(T) /\ DOMAIN r = 1 .. n + 1
  <2>1. \A k \in 1 .. n + 1 : r[k] \in T
    BY <1>1, <1>4
  <2> QED BY <1>1, <1>2, <2>1
<1>6. DupFree(r)
  <2> SUFFICES ASSUME NEW a \in 1 .. n + 1, NEW b \in 1 .. n + 1, r[a] = r[b], a < b
               PROVE  FALSE
    BY <1>1, <1>5 DEF DupFree
  <2>1. CASE b \in 1 .. at - 1
    <3>1. a \in 1 .. at - 1
      BY <2>1, <1>1, <1>3
    <3> QED BY <2>1, <3>1, <1>1, <1>4 DEF DupFree
  <2>2. CASE b = at
    <3>1. a \in 1 .. at - 1
      BY <2>2, <1>1, <1>3
    <3> QED BY <2>2, <3>1, <1>1, <1>4
  <2>3. CASE b \in at + 1 .. n + 1
    <3>1. CASE a \in 1 .. at - 1
      <4>1. a = b - 1
        BY <2>3, <3>1, <1>1, <1>4 DEF DupFree
      <4> QED BY <2>3, <3>1, <4>1, <1>1, <1>3
    <3>2. CASE a = at
      BY <2>3, <3>2, <1>1, <1>4
    <3>3. CASE a \in at + 1 .. n + 1
      <4>1. s[a - 1] = s[b - 1] /\ a - 1 \in DOMAIN s /\ b - 1 \in DOMAIN s
        BY <2>3, <3>3, <1>1, <1>4
      <4>2. a - 1 = b - 1
        BY <4>1 DEF DupFree
      <4> QED BY <4>2, <1>1
    <3> QED BY <3>1, <3>2, <3>3, <1>4
  <2> QED BY <2>1, <2>2, <2>3, <1>4
<1>7. Range(r) = Range(s) \cup {e}
  <2>1. ASSUME NEW k \in 1 .. n + 1 PROVE r[k] \in Range(s) \cup {e}
    <3>1. CASE k \in 1 .. at - 1
      BY <3>1, <1>1, <1>4, InRange
    <3>2. CASE k = at
      BY <3>2, <1>4
    <3>3. CASE k \in at + 1 .. n + 1
      BY <3>3, <1>1, <1>4, InRange
    <3> QED BY <3>1, <3>2, <3>3, <1>4
  <2>2. e \in Range(r)
    BY <1>3, <1>4, <1>5, InRange
  <2>3. ASSUME NEW i \in 1 .. n PROVE s[i] \in Range(r)
    <3>1. CASE i < at
      <4>1. i \in 1 .. at - 1 /\ i \in 1 .. n + 1
        BY <3>1, <1>1, <1>3
      <4> QED BY <4>1, <1>4, <1>5, InRange
    <3>2. CASE i >= at
      <4>1. i + 1 \in at + 1 .. n + 1 /\ i + 1 \in 1 .. n + 1 /\ (i + 1) - 1 = i
        BY <3>2, <1>1, <1>3
      <4>2. r[i + 1] = s[i]
        BY <4>1, <1>4
      <4> QED BY <4>1, <4>2, <1>5, InRange
    <3> QED BY <3>1, <3>2, <1>1, <1>3
  <2> QED BY <1>1, <1>5, <2>1, <2>2, <2>3, InRange
<1> QED BY <1>5, <1>6, <1>7 DEF r

-----------------------------------------------------------------------------
(* Sums, by induction over the length of the list.                         *)

\* Induction over the naturals, told with a set.
LEMMA EveryNatural ==
  ASSUME NEW S, 0 \in S, \A n \in Nat : n \in S => n + 1 \in S
  PROVE  Nat \subseteq S
<1> DEFINE T == Nat \ S
<1> SUFFICES ASSUME NEW n \in T PROVE FALSE
  OBVIOUS
<1>1. PICK x \in T : \A y \in T : x <= y
  <2>1. T \in SUBSET Nat
    OBVIOUS
  <2> HIDE DEF T
  <2> QED BY <2>1, LeastNatural
<1>2. x \in Nat /\ x # 0 /\ x \notin S
  OBVIOUS
<1>3. x - 1 \in Nat /\ (x - 1) + 1 = x /\ ~(x <= x - 1)
  BY <1>2
<1>4. x - 1 \in S
  BY <1>1, <1>3
<1> QED BY <1>2, <1>3, <1>4

LEMMA TotalsExist ==
  ASSUME NEW v
  PROVE  \A n \in Nat : \E t : t = [k \in 0 .. n |-> IF k = 0 THEN 0 ELSE t[k - 1] + v[k]]
<1> DEFINE IsTotal(t, n) == t = [k \in 0 .. n |-> IF k = 0 THEN 0 ELSE t[k - 1] + v[k]]
           S == {n \in Nat : \E t : IsTotal(t, n)}
<1>1. 0 \in S
  <2> DEFINE u == [k \in 0 .. 0 |-> 0]
  <2>1. u = [k \in 0 .. 0 |-> IF k = 0 THEN 0 ELSE u[k - 1] + v[k]]
    OBVIOUS
  <2> HIDE DEF u
  <2>2. IsTotal(u, 0)
    BY <2>1
  <2> QED BY <2>2
<1>2. \A n \in Nat : n \in S => n + 1 \in S
  <2> SUFFICES ASSUME NEW n \in Nat, NEW t, IsTotal(t, n) PROVE \E u : IsTotal(u, n + 1)
    OBVIOUS
  <2> DEFINE u == [k \in 0 .. n + 1 |-> IF k = n + 1 THEN t[n] + v[n + 1] ELSE t[k]]
  <2>1. \A k \in 0 .. n : t[k] = IF k = 0 THEN 0 ELSE t[k - 1] + v[k]
    OBVIOUS
  <2>2. \A k \in 0 .. n + 1 : u[k] = IF k = 0 THEN 0 ELSE u[k - 1] + v[k]
    <3> TAKE k \in 0 .. n + 1
    <3>1. CASE k = n + 1
      BY <3>1
    <3>2. CASE k \in 0 .. n
      <4>1. k # n + 1 /\ (k # 0 => k - 1 \in 0 .. n + 1 /\ k - 1 # n + 1)
        BY <3>2
      <4> QED BY <4>1, <3>2, <2>1
    <3> QED BY <3>1, <3>2
  <2>3. u = [k \in 0 .. n + 1 |-> IF k = 0 THEN 0 ELSE u[k - 1] + v[k]]
    <3>1. u = [k \in 0 .. n + 1 |-> u[k]]
      OBVIOUS
    <3> HIDE DEF u
    <3> QED BY <3>1, <2>2
  <2> HIDE DEF u
  <2> QED BY <2>3
<1> HIDE DEF S
<1>3. Nat \subseteq S
  BY <1>1, <1>2, EveryNatural
<1> QED BY <1>3 DEF S

LEMMA TotalsUnfold ==
  ASSUME NEW v, Len(v) \in Nat
  PROVE  Totals(v) = [k \in 0 .. Len(v) |-> IF k = 0 THEN 0 ELSE Totals(v)[k - 1] + v[k]]
<1>1. \E t : t = [k \in 0 .. Len(v) |-> IF k = 0 THEN 0 ELSE t[k - 1] + v[k]]
  BY TotalsExist
<1> QED BY <1>1 DEF Totals

LEMMA ListLength ==
  ASSUME NEW n \in Nat, NEW v, DOMAIN v = 1 .. n
  PROVE  Len(v) = n
OBVIOUS

\* The first of a list of n + 1.
Prefix(v, n) == [i \in 1 .. n |-> v[i]]

LEMMA TotalsType ==
  ASSUME NEW n \in Nat, NEW v \in [1 .. n -> Int]
  PROVE  /\ Len(v) = n
         /\ \A k \in 0 .. n : Totals(v)[k] \in Int
         /\ Totals(v)[0] = 0
         /\ \A k \in 1 .. n : Totals(v)[k] = Totals(v)[k - 1] + v[k]
<1>1. Len(v) = n
  BY ListLength
<1> DEFINE t == Totals(v)
<1>2. t = [k \in 0 .. n |-> IF k = 0 THEN 0 ELSE t[k - 1] + v[k]]
  BY <1>1, TotalsUnfold
<1> HIDE DEF t
<1>3. t[0] = 0 /\ \A k \in 1 .. n : t[k] = t[k - 1] + v[k]
  BY <1>2
<1> DEFINE S == {k \in Nat : k <= n => t[k] \in Int}
<1>4. 0 \in S
  BY <1>3
<1>5. \A k \in Nat : k \in S => k + 1 \in S
  <2> SUFFICES ASSUME NEW k \in Nat, k \in S, k + 1 <= n PROVE t[k + 1] \in Int
    OBVIOUS
  <2>1. k + 1 \in 1 .. n /\ (k + 1) - 1 = k /\ k <= n
    OBVIOUS
  <2>2. t[k + 1] = t[k] + v[k + 1] /\ v[k + 1] \in Int
    BY <2>1, <1>3
  <2> QED BY <2>1, <2>2
<1> HIDE DEF S
<1>6. Nat \subseteq S
  BY <1>4, <1>5, EveryNatural
<1>7. \A k \in 0 .. n : t[k] \in Int
  BY <1>6 DEF S
<1> QED BY <1>1, <1>3, <1>7 DEF t

LEMMA SumType ==
  ASSUME NEW n \in Nat, NEW v \in [1 .. n -> Int]
  PROVE  SumOf(v) \in Int
BY TotalsType DEF SumOf

LEMMA SumNone ==
  ASSUME NEW v \in [1 .. 0 -> Int]
  PROVE  SumOf(v) = 0
<1>1. Len(v) = 0 /\ Totals(v)[0] = 0
  BY TotalsType
<1> QED BY <1>1 DEF SumOf

LEMMA SumLast ==
  ASSUME NEW n \in Nat, NEW v \in [1 .. n + 1 -> Int]
  PROVE  /\ Prefix(v, n) \in [1 .. n -> Int]
         /\ SumOf(v) = SumOf(Prefix(v, n)) + v[n + 1]
<1> DEFINE w == Prefix(v, n)
           t == Totals(v)
           u == Totals(w)
<1>1. w \in [1 .. n -> Int] /\ \A i \in 1 .. n : w[i] = v[i]
  BY DEF Prefix
<1> HIDE DEF w
<1>2. n + 1 \in Nat /\ Len(v) = n + 1 /\ t[0] = 0 /\ \A k \in 1 .. n + 1 : t[k] = t[k - 1] + v[k]
  <2> DEFINE l == n + 1
  <2>1. l \in Nat /\ v \in [1 .. l -> Int]
    OBVIOUS
  <2> HIDE DEF l
  <2>2. Len(v) = l /\ t[0] = 0 /\ \A k \in 1 .. l : t[k] = t[k - 1] + v[k]
    BY <2>1, TotalsType
  <2> QED BY <2>1, <2>2 DEF l
<1>3. Len(w) = n /\ u[0] = 0 /\ \A k \in 1 .. n : u[k] = u[k - 1] + w[k]
  BY <1>1, TotalsType
<1> HIDE DEF t, u
<1> DEFINE S == {k \in Nat : k <= n => t[k] = u[k]}
<1>4. 0 \in S
  BY <1>2, <1>3
<1>5. \A k \in Nat : k \in S => k + 1 \in S
  <2> SUFFICES ASSUME NEW k \in Nat, k \in S, k + 1 <= n PROVE t[k + 1] = u[k + 1]
    OBVIOUS
  <2>1. k + 1 \in 1 .. n /\ k + 1 \in 1 .. n + 1 /\ (k + 1) - 1 = k /\ k <= n
    OBVIOUS
  <2> QED BY <2>1, <1>1, <1>2, <1>3
<1> HIDE DEF S
<1>6. Nat \subseteq S
  BY <1>4, <1>5, EveryNatural
<1>7. t[n] = u[n]
  BY <1>6 DEF S
<1>8. t[n + 1] = t[n] + v[n + 1]
  BY <1>2
<1>9. SumOf(v) = t[n + 1] /\ SumOf(w) = u[n]
  BY <1>2, <1>3 DEF SumOf, t, u
<1> QED BY <1>1, <1>7, <1>8, <1>9 DEF w

\* Sums of equal length are added term by term.
LEMMA SumPlus ==
  ASSUME NEW n \in Nat, NEW a \in [1 .. n -> Int], NEW b \in [1 .. n -> Int]
  PROVE  SumOf([i \in 1 .. n |-> a[i] + b[i]]) = SumOf(a) + SumOf(b)
<1> DEFINE Holds(m) == \A x, y \in [1 .. m -> Int] :
                          SumOf([i \in 1 .. m |-> x[i] + y[i]]) = SumOf(x) + SumOf(y)
           S == {m \in Nat : Holds(m)}
<1>1. Holds(0)
  <2> SUFFICES ASSUME NEW x \in [1 .. 0 -> Int], NEW y \in [1 .. 0 -> Int]
               PROVE  SumOf([i \in 1 .. 0 |-> x[i] + y[i]]) = SumOf(x) + SumOf(y)
    OBVIOUS
  <2> DEFINE z == [i \in 1 .. 0 |-> x[i] + y[i]]
  <2>1. z \in [1 .. 0 -> Int]
    OBVIOUS
  <2> HIDE DEF z
  <2>2. SumOf(z) = 0 /\ SumOf(x) = 0 /\ SumOf(y) = 0
    BY <2>1, SumNone
  <2> QED BY <2>2 DEF z
<1>2. ASSUME NEW m \in Nat, Holds(m)
      PROVE  Holds(m + 1)
  <2> SUFFICES ASSUME NEW x \in [1 .. m + 1 -> Int], NEW y \in [1 .. m + 1 -> Int]
               PROVE  SumOf([i \in 1 .. m + 1 |-> x[i] + y[i]]) = SumOf(x) + SumOf(y)
    BY Zenon
  <2> DEFINE z == [i \in 1 .. m + 1 |-> x[i] + y[i]]
             p == Prefix(x, m)
             q == Prefix(y, m)
  <2>1. z \in [1 .. m + 1 -> Int] /\ z[m + 1] = x[m + 1] + y[m + 1]
        /\ x[m + 1] \in Int /\ y[m + 1] \in Int
    OBVIOUS
  <2>2. p \in [1 .. m -> Int] /\ SumOf(x) = SumOf(p) + x[m + 1]
    BY SumLast
  <2>3. q \in [1 .. m -> Int] /\ SumOf(y) = SumOf(q) + y[m + 1]
    BY SumLast
  <2>4. SumOf(z) = SumOf(Prefix(z, m)) + z[m + 1]
    BY <2>1, SumLast
  <2>5. Prefix(z, m) = [i \in 1 .. m |-> p[i] + q[i]]
    BY DEF Prefix
  <2>6. SumOf([i \in 1 .. m |-> p[i] + q[i]]) = SumOf(p) + SumOf(q)
    BY <1>2, <2>2, <2>3
  <2>7. SumOf(p) \in Int /\ SumOf(q) \in Int
    BY <2>2, <2>3, SumType
  <2> HIDE DEF z, p, q
  <2>8. SumOf(z) = SumOf(x) + SumOf(y)
    BY <2>1, <2>2, <2>3, <2>4, <2>5, <2>6, <2>7
  <2> QED BY <2>8 DEF z
<1> HIDE DEF Holds
<1>3. 0 \in S /\ \A h \in Nat : h \in S => h + 1 \in S
  BY <1>1, <1>2
<1> HIDE DEF S
<1>4. Nat \subseteq S
  BY <1>3, EveryNatural
<1>5. Holds(n)
  BY <1>4 DEF S
<1> QED BY <1>5 DEF Holds

\* A sum with one term.
LEMMA SumOne ==
  ASSUME NEW n \in Nat, NEW j \in 1 .. n, NEW e \in Int
  PROVE  SumOf([i \in 1 .. n |-> IF i = j THEN e ELSE 0]) = e
<1> DEFINE one(m, k) == [i \in 1 .. m |-> IF i = k THEN e ELSE 0]
           Holds(m) == \A k \in Nat : SumOf(one(m, k)) = IF k \in 1 .. m THEN e ELSE 0
           S == {m \in Nat : Holds(m)}
<1>1. Holds(0)
  <2> SUFFICES ASSUME NEW k \in Nat PROVE SumOf(one(0, k)) = 0
    OBVIOUS
  <2>1. one(0, k) \in [1 .. 0 -> Int]
    OBVIOUS
  <2> QED BY <2>1, SumNone
<1>2. ASSUME NEW m \in Nat, Holds(m)
      PROVE  Holds(m + 1)
  <2> SUFFICES ASSUME NEW k \in Nat
               PROVE  SumOf(one(m + 1, k)) = IF k \in 1 .. m + 1 THEN e ELSE 0
    BY Zenon
  <2> DEFINE z == one(m + 1, k)
  <2>1. z \in [1 .. m + 1 -> Int] /\ z[m + 1] = IF k = m + 1 THEN e ELSE 0
    OBVIOUS
  <2>2. Prefix(z, m) = one(m, k)
    BY DEF Prefix
  <2>3. SumOf(one(m, k)) = IF k \in 1 .. m THEN e ELSE 0
    BY <1>2
  <2> HIDE DEF z
  <2>4. SumOf(z) = SumOf(Prefix(z, m)) + z[m + 1]
    BY <2>1, SumLast
  <2>5. SumOf(z) = (IF k \in 1 .. m THEN e ELSE 0) + (IF k = m + 1 THEN e ELSE 0)
    BY <2>1, <2>2, <2>3, <2>4
  <2>6. SumOf(z) = IF k \in 1 .. m + 1 THEN e ELSE 0
    BY <2>5
  <2> QED BY <2>6 DEF z
<1> HIDE DEF Holds
<1>3. 0 \in S /\ \A h \in Nat : h \in S => h + 1 \in S
  BY <1>1, <1>2
<1> HIDE DEF S
<1>4. Nat \subseteq S
  BY <1>3, EveryNatural
<1>5. Holds(n)
  BY <1>4 DEF S
<1>6. n \in Nat /\ j \in Nat /\ j \in 1 .. n
  OBVIOUS
<1> HIDE DEF one
<1>7. SumOf(one(n, j)) = e
  BY <1>5, <1>6 DEF Holds
<1> QED BY <1>7 DEF one

LEMMA SumZero ==
  ASSUME NEW n \in Nat
  PROVE  SumOf([i \in 1 .. n |-> 0]) = 0
<1> DEFINE z == [i \in 1 .. n |-> 0]
<1>1. z \in [1 .. n -> Int] /\ z = [i \in 1 .. n |-> z[i] + z[i]]
  OBVIOUS
<1> HIDE DEF z
<1>2. SumOf(z) = SumOf(z) + SumOf(z) /\ SumOf(z) \in Int
  BY <1>1, SumPlus, SumType
<1>3. SumOf(z) = 0
  BY <1>2
<1> QED BY <1>3 DEF z

(* Adding up part by part is adding up.                                    *)
PartSum(n, v, part, k) == SumOf([j \in 1 .. n |-> IF part[j] = k THEN v[j] ELSE 0])

LEMMA SumByParts ==
  ASSUME NEW n \in Nat, NEW m \in Nat, NEW v \in [1 .. n -> Int], NEW part \in [1 .. n -> 1 .. m]
  PROVE  SumOf([k \in 1 .. m |-> PartSum(n, v, part, k)]) = SumOf(v)
<1> DEFINE all(a, x, p) == [k \in 1 .. m |-> PartSum(a, x, p, k)]
           terms(a, x, p, k) == [j \in 1 .. a |-> IF p[j] = k THEN x[j] ELSE 0]
           Holds(a) == \A x \in [1 .. a -> Int] : \A p \in [1 .. a -> 1 .. m] :
                          SumOf(all(a, x, p)) = SumOf(x)
           S == {a \in Nat : Holds(a)}
<1>0. \A a \in Nat : \A x \in [1 .. a -> Int] : \A p \in [1 .. a -> 1 .. m] :
        \A k \in 1 .. m : terms(a, x, p, k) \in [1 .. a -> Int]
  OBVIOUS
<1>1. Holds(0)
  <2> SUFFICES ASSUME NEW x \in [1 .. 0 -> Int], NEW p \in [1 .. 0 -> 1 .. m]
               PROVE  SumOf(all(0, x, p)) = SumOf(x)
    BY Zenon
  <2>1. \A k \in 1 .. m : PartSum(0, x, p, k) = 0
    <3> TAKE k \in 1 .. m
    <3>1. terms(0, x, p, k) \in [1 .. 0 -> Int]
      OBVIOUS
    <3>2. PartSum(0, x, p, k) = SumOf(terms(0, x, p, k))
      BY DEF PartSum
    <3> HIDE DEF terms
    <3> QED BY <3>1, <3>2, SumNone
  <2>2. all(0, x, p) = [k \in 1 .. m |-> 0]
    BY <2>1
  <2>3. SumOf(x) = 0
    BY SumNone
  <2> QED BY <2>2, <2>3, SumZero
<1>2. ASSUME NEW a \in Nat, Holds(a)
      PROVE  Holds(a + 1)
  <2> SUFFICES ASSUME NEW x \in [1 .. a + 1 -> Int], NEW p \in [1 .. a + 1 -> 1 .. m]
               PROVE  SumOf(all(a + 1, x, p)) = SumOf(x)
    BY Zenon
  <2> DEFINE y == Prefix(x, a)
             q == Prefix(p, a)
             one == [k \in 1 .. m |-> IF k = p[a + 1] THEN x[a + 1] ELSE 0]
             before == all(a, y, q)
             after == all(a + 1, x, p)
  <2>1. y \in [1 .. a -> Int] /\ SumOf(x) = SumOf(y) + x[a + 1]
    BY SumLast
  <2>2. q \in [1 .. a -> 1 .. m]
    BY DEF Prefix
  <2>3. SumOf(before) = SumOf(y)
    BY <1>2, <2>1, <2>2
  <2>4. \A k \in 1 .. m : PartSum(a + 1, x, p, k) = PartSum(a, y, q, k) + one[k]
    <3> TAKE k \in 1 .. m
    <3> DEFINE t == terms(a + 1, x, p, k)
    <3>1. t \in [1 .. a + 1 -> Int] /\ t[a + 1] = one[k]
      OBVIOUS
    <3>2. Prefix(t, a) = terms(a, y, q, k)
      BY DEF Prefix
    <3>3. PartSum(a + 1, x, p, k) = SumOf(t) /\ PartSum(a, y, q, k) = SumOf(terms(a, y, q, k))
      BY DEF PartSum
    <3> HIDE DEF t, one
    <3>4. SumOf(t) = SumOf(Prefix(t, a)) + t[a + 1]
      BY <3>1, SumLast
    <3> QED BY <3>1, <3>2, <3>3, <3>4
  <2>5. \A k \in 1 .. m : PartSum(a, y, q, k) \in Int
    <3> TAKE k \in 1 .. m
    <3>1. terms(a, y, q, k) \in [1 .. a -> Int]
      BY <2>1, <2>2, <1>0
    <3>2. PartSum(a, y, q, k) = SumOf(terms(a, y, q, k))
      BY DEF PartSum
    <3> HIDE DEF terms, y, q
    <3> QED BY <3>1, <3>2, SumType
  <2>6. before \in [1 .. m -> Int] /\ one \in [1 .. m -> Int]
    BY <2>5
  <2>7. after = [k \in 1 .. m |-> before[k] + one[k]]
    BY <2>4
  <2>8. SumOf(one) = x[a + 1]
    <3>1. p[a + 1] \in 1 .. m /\ x[a + 1] \in Int
      OBVIOUS
    <3> QED BY <3>1, SumOne
  <2> HIDE DEF one, y, q, before, after
  <2>9. SumOf(after) = SumOf(before) + SumOf(one)
    BY <2>6, <2>7, SumPlus
  <2>10. SumOf(after) = SumOf(x)
    BY <2>1, <2>3, <2>8, <2>9
  <2> QED BY <2>10 DEF after
<1> HIDE DEF Holds
<1>3. 0 \in S /\ \A h \in Nat : h \in S => h + 1 \in S
  BY <1>1, <1>2
<1> HIDE DEF S
<1>4. Nat \subseteq S
  BY <1>3, EveryNatural
<1>5. Holds(n)
  BY <1>4 DEF S
<1>6. SumOf(all(n, v, part)) = SumOf(v)
  BY <1>5 DEF Holds
<1> QED BY <1>6

\* Counting is adding ones.
LEMMA CountIsSum ==
  ASSUME NEW n \in Nat, NEW K \in SUBSET (1 .. n)
  PROVE  /\ IsFiniteSet(K)
         /\ Cardinality(K) = SumOf([j \in 1 .. n |-> IF j \in K THEN 1 ELSE 0])
<1> DEFINE ones(m, L) == [j \in 1 .. m |-> IF j \in L THEN 1 ELSE 0]
           Holds(m) == \A L \in SUBSET (1 .. m) :
                          IsFiniteSet(L) /\ Cardinality(L) = SumOf(ones(m, L))
           S == {m \in Nat : Holds(m)}
<1>1. Holds(0)
  <2> SUFFICES ASSUME NEW L \in SUBSET (1 .. 0)
               PROVE  IsFiniteSet(L) /\ Cardinality(L) = SumOf(ones(0, L))
    BY Zenon
  <2>1. L = {} /\ ones(0, L) \in [1 .. 0 -> Int]
    OBVIOUS
  <2> HIDE DEF ones
  <2>2. SumOf(ones(0, L)) = 0
    BY <2>1, SumNone
  <2> QED BY <2>1, <2>2, FS_EmptySet
<1>2. ASSUME NEW m \in Nat, Holds(m)
      PROVE  Holds(m + 1)
  <2> SUFFICES ASSUME NEW L \in SUBSET (1 .. m + 1)
               PROVE  IsFiniteSet(L) /\ Cardinality(L) = SumOf(ones(m + 1, L))
    BY Zenon
  <2> DEFINE M == L \cap 1 .. m
             t == ones(m + 1, L)
  <2>1. t \in [1 .. m + 1 -> Int] /\ t[m + 1] = IF m + 1 \in L THEN 1 ELSE 0
    OBVIOUS
  <2>2. Prefix(t, m) = ones(m, M)
    BY DEF Prefix
  <2>3. IsFiniteSet(M) /\ Cardinality(M) = SumOf(ones(m, M))
    BY <1>2
  <2> HIDE DEF t
  <2>4. SumOf(t) = SumOf(Prefix(t, m)) + t[m + 1]
    BY <2>1, SumLast
  <2>9. (\A e \in L : e \in 1 .. m \/ e = m + 1) /\ m + 1 \notin 1 .. m
    OBVIOUS
  <2>5. CASE m + 1 \in L
    <3>1. L = M \cup {m + 1} /\ m + 1 \notin M
      BY <2>5, <2>9
    <3> HIDE DEF M
    <3>2. IsFiniteSet(L) /\ Cardinality(L) = Cardinality(M) + 1
      BY <3>1, <2>3, FS_AddElement
    <3>3. Cardinality(L) = SumOf(t)
      BY <3>2, <2>1, <2>2, <2>3, <2>4, <2>5
    <3> QED BY <3>2, <3>3 DEF t
  <2>6. CASE m + 1 \notin L
    <3>1. L = M
      BY <2>6, <2>9
    <3>2. Cardinality(M) \in Nat
      BY <2>3, FS_CardinalityType
    <3> HIDE DEF M, ones
    <3>3. Cardinality(L) = SumOf(t)
      BY <3>1, <3>2, <2>1, <2>2, <2>3, <2>4, <2>6
    <3> QED BY <3>1, <3>3, <2>3 DEF t
  <2> QED BY <2>5, <2>6
<1> HIDE DEF Holds
<1>3. 0 \in S /\ \A h \in Nat : h \in S => h + 1 \in S
  BY <1>1, <1>2
<1> HIDE DEF S
<1>4. Nat \subseteq S
  BY <1>3, EveryNatural
<1>5. Holds(n)
  BY <1>4 DEF S
<1> QED BY <1>5 DEF Holds

\* A listing of some of the terms, in any order, adds up to those terms.
LEMMA SumListed ==
  ASSUME NEW n \in Nat, NEW m \in Nat, NEW v \in [1 .. n -> Int], NEW p \in [1 .. m -> 1 .. n],
         \A a, b \in 1 .. m : p[a] = p[b] => a = b
  PROVE  SumOf([k \in 1 .. m |-> v[p[k]]])
         = SumOf([i \in 1 .. n |-> IF \E k \in 1 .. m : p[k] = i THEN v[i] ELSE 0])
<1> DEFINE w == [k \in 1 .. m |-> v[p[k]]]
           u == [i \in 1 .. n |-> IF \E k \in 1 .. m : p[k] = i THEN v[i] ELSE 0]
           terms(i) == [k \in 1 .. m |-> IF p[k] = i THEN w[k] ELSE 0]
<1>1. w \in [1 .. m -> Int]
  OBVIOUS
<1>2. SumOf([i \in 1 .. n |-> PartSum(m, w, p, i)]) = SumOf(w)
  <2> HIDE DEF w
  <2> QED BY <1>1, SumByParts
<1>3. \A i \in 1 .. n : PartSum(m, w, p, i) = u[i]
  <2> TAKE i \in 1 .. n
  <2>1. PartSum(m, w, p, i) = SumOf(terms(i))
    BY DEF PartSum
  <2>2. CASE \E k \in 1 .. m : p[k] = i
    <3>1. PICK k \in 1 .. m : p[k] = i
      BY <2>2
    <3>2. v[i] \in Int /\ terms(i) = [j \in 1 .. m |-> IF j = k THEN v[i] ELSE 0]
      BY <3>1
    <3>3. SumOf([j \in 1 .. m |-> IF j = k THEN v[i] ELSE 0]) = v[i]
      BY <3>2, SumOne
    <3> QED BY <2>1, <2>2, <3>2, <3>3
  <2>3. CASE ~ \E k \in 1 .. m : p[k] = i
    <3>1. terms(i) = [j \in 1 .. m |-> 0]
      BY <2>3
    <3> QED BY <2>1, <2>3, <3>1, SumZero
  <2> QED BY <2>2, <2>3
<1>4. [i \in 1 .. n |-> PartSum(m, w, p, i)] = u
  <2> HIDE DEF w
  <2> QED BY <1>3
<1> QED BY <1>2, <1>4
=============================================================================
