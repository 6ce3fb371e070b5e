--------------------------- MODULE OrderingProofs ---------------------------
(***************************************************************************)
(* Facts about numbers, lists made of sets, and recursive functions over   *)
(* an interval, which the proofs about the index and the answers use.      *)
(***************************************************************************)
EXTENDS Ordering, Integers, Sequences, FiniteSetsExt, FiniteSetTheorems, FunctionTheorems, WellFoundedInduction, TLAPS

\* A set of numbers has a least one.
LEMMA LeastIs ==
  ASSUME NEW S \in SUBSET Nat, S # {}
  PROVE  \E m \in S : \A k \in S : m <= k
<1> DEFINE R == OpToRel(<, Nat)
<1>1. IsWellFoundedOn(R, Nat)
  BY NatLessThanWellFounded
<1>2. \A a, b \in Nat : a < b => <<a, b>> \in R
  BY DEF OpToRel
<1> HIDE DEF R
<1>3. PICK m \in S : \A k \in S : ~ (<<k, m>> \in R)
  BY <1>1, WFMin
<1>4. \A k \in S : ~ (k < m)
  BY <1>2, <1>3
<1> QED
  BY <1>3, <1>4

\* The smaller one of two numbers.
LEMMA LesserIs ==
  ASSUME NEW a \in Nat, NEW b \in Nat
  PROVE  Min({a, b}) = IF a <= b THEN a ELSE b
<1>1. \E x \in {a, b} : \A y \in {a, b} : x <= y
  OBVIOUS
<1>2. Min({a, b}) \in {a, b} /\ \A y \in {a, b} : Min({a, b}) <= y
  BY <1>1 DEF Min
<1> QED
  BY <1>2

\* What holds of 0, and of i when it holds of i - 1, holds up to n.
LEMMA CountUp ==
  ASSUME NEW n \in Nat, NEW S, 0 \in S, \A i \in 1 .. n : i - 1 \in S => i \in S
  PROVE  0 .. n \subseteq S
<1> DEFINE T == {i \in 0 .. n : i \notin S}
<1>1. CASE T = {}
  BY <1>1
<1>2. CASE T # {}
  <2>1. T \in SUBSET Nat
    OBVIOUS
  <2>2. PICK m \in T : \A k \in T : m <= k
    BY <1>2, <2>1, LeastIs
  <2>3. m \in 1 .. n /\ m \notin S
    BY <2>2
  <2>4. m - 1 \in 0 .. n /\ m - 1 \notin T
    BY <2>2, <2>3
  <2> QED
    BY <2>3, <2>4
<1> QED
  BY <1>1, <1>2

\* f holds what comes of a after one step of T, after two, ... up to n.
Steps(f, n, A, a, T) ==
  f \in [0 .. n -> A] /\ f[0] = a /\ \A i \in 1 .. n : f[i] = T[<<f[i - 1], i>>]

\* A computation that takes one step after the other has its results.
LEMMA StepsExist ==
  ASSUME NEW n \in Nat, NEW A, NEW a \in A, NEW T \in [A \X (1 .. n) -> A]
  PROVE  \E f : Steps(f, n, A, a, T)
<1> DEFINE G(k, f) == f \in [0 .. k -> A] /\ f[0] = a /\ \A i \in 1 .. k : f[i] = T[<<f[i - 1], i>>]
           S == {k \in 0 .. n : \E f : G(k, f)}
<1> HIDE DEF G
<1>1. 0 \in S
  <2> DEFINE g == [i \in 0 .. 0 |-> a]
  <2>1. G(0, g)
    BY DEF G
  <2> HIDE DEF g
  <2>2. \E f : G(0, f)
    BY <2>1
  <2> QED
    BY <2>2
<1>2. ASSUME NEW k \in 1 .. n, k - 1 \in S
      PROVE  k \in S
  <2>1. PICK f : G(k - 1, f)
    BY <1>2
  <2> DEFINE g == [i \in 0 .. k |-> IF i = k THEN T[<<f[k - 1], k>>] ELSE f[i]]
  <2>2. f[k - 1] \in A /\ T[<<f[k - 1], k>>] \in A /\ k \in Nat /\ k - 1 \in 0 .. k - 1
    BY <2>1 DEF G
  <2>3. g \in [0 .. k -> A] /\ g[0] = a
    BY <2>1, <2>2 DEF G
  <2>4. ASSUME NEW i \in 1 .. k
        PROVE  g[i] = T[<<g[i - 1], i>>]
    <3>1. i - 1 \in 0 .. k - 1 /\ i - 1 \in 0 .. k /\ i - 1 # k /\ i \in 0 .. k
      BY <2>2
    <3>2. g[i - 1] = f[i - 1]
      BY <3>1
    <3>3. CASE i = k
      <4>1. g[i] = T[<<f[k - 1], k>>]
        BY <3>1, <3>3
      <4> QED
        BY <3>2, <3>3, <4>1
    <3>4. CASE i # k
      <4>1. i \in 1 .. k - 1 /\ g[i] = f[i]
        BY <2>2, <3>1, <3>4
      <4> QED
        BY <2>1, <3>2, <4>1 DEF G
    <3> QED
      BY <3>3, <3>4
  <2> HIDE DEF g
  <2>5. G(k, g)
    BY <2>3, <2>4 DEF G
  <2>6. \E h : G(k, h)
    BY <2>5
  <2> QED
    BY <2>6
<1> HIDE DEF S
<1>3. 0 .. n \subseteq S
  BY <1>1, <1>2, CountUp
<1>4. n \in S
  BY <1>3
<1> QED
  BY <1>4 DEF S, G, Steps
-----------------------------------------------------------------------------
(* Ordered lists *)

\* Every member of an ordered set has its place in the list.
LEMMA OrderedIs ==
  ASSUME NEW S, IsFiniteSet(S), NEW R, Orders(R, S)
  PROVE  /\ Cardinality(S) \in Nat
         /\ Ordered(S, R) \in [1 .. Cardinality(S) -> S]
         /\ \A x \in S : Cardinality({y \in S : <<y, x>> \in R}) + 1 \in 1 .. Cardinality(S)
         /\ \A x \in S, i \in 1 .. Cardinality(S) :
              Ordered(S, R)[i] = x <=> Cardinality({y \in S : <<y, x>> \in R}) = i - 1
         /\ \A i, j \in 1 .. Cardinality(S) : i < j => <<Ordered(S, R)[i], Ordered(S, R)[j]>> \in R
<1> DEFINE n == Cardinality(S)
           Below(x) == {y \in S : <<y, x>> \in R}
           place == [x \in S |-> Cardinality(Below(x))]
<1>1. n \in Nat
  BY FS_CardinalityType
<1>2. \A x \in S : IsFiniteSet(Below(x)) /\ place[x] \in Nat
  <2> TAKE x \in S
  <2>1. Below(x) \in SUBSET S
    OBVIOUS
  <2> QED
    BY <2>1, FS_Subset, FS_CardinalityType
<1>3. ASSUME NEW x \in S
      PROVE  place[x] \in 0 .. n - 1
  <2>1. Below(x) \in SUBSET S /\ Below(x) # S
    BY DEF Orders
  <2>2. place[x] <= n /\ place[x] # n
    BY <2>1, FS_Subset
  <2> QED
    BY <1>1, <1>2, <2>2
<1>4. ASSUME NEW x \in S, NEW y \in S, <<x, y>> \in R
      PROVE  place[x] < place[y]
  <2>1. Below(x) \in SUBSET Below(y) /\ Below(x) # Below(y)
    BY <1>4 DEF Orders
  <2>2. place[x] <= place[y] /\ place[x] # place[y]
    <3>1. place[x] = Cardinality(Below(x)) /\ place[y] = Cardinality(Below(y)) /\ IsFiniteSet(Below(y))
      BY <1>2
    <3> HIDE DEF Below, place
    <3> QED
      BY <2>1, <3>1, FS_Subset
  <2> QED
    BY <1>2, <2>2
<1>5. ASSUME NEW x \in S, NEW y \in S, place[x] = place[y]
      PROVE  x = y
  <2> HIDE DEF place, Below
  <2>1. place[x] \in Nat /\ ~(place[x] < place[y]) /\ ~(place[y] < place[x])
    BY <1>2, <1>5
  <2>2. <<x, y>> \notin R /\ <<y, x>> \notin R
    BY <1>4, <2>1
  <2> QED
    BY <2>2 DEF Orders
<1>6. place \in Surjection(S, 0 .. n - 1)
  <2>1. place \in Injection(S, 0 .. n - 1)
    <3>1. place \in [S -> 0 .. n - 1] /\ DOMAIN place = S
      BY <1>3
    <3> HIDE DEF place, n
    <3> QED
      BY <1>5, <3>1 DEF Injection, IsInjective
  <2>2. IsFiniteSet(0 .. n - 1) /\ Cardinality(0 .. n - 1) = n
    <3> HIDE DEF place, n
    <3>1. 0 \in Int /\ n - 1 \in Int
      BY <1>1
    <3>2. IsFiniteSet(0 .. n - 1)
            /\ Cardinality(0 .. n - 1) = IF 0 > n - 1 THEN 0 ELSE (n - 1) - 0 + 1
      BY ONLY <3>1, FS_Interval
    <3> QED
      BY <1>1, <3>2
  <2> QED
    BY <2>1, <2>2, FS_Injection
<1>7. \A i \in 1 .. n : \E x \in S : place[x] = i - 1
  <2> TAKE i \in 1 .. n
  <2>1. i - 1 \in 0 .. n - 1
    BY <1>1
  <2> QED
    BY <1>6, <2>1 DEF Surjection
<1>8. \A x \in S, i \in 1 .. n :
        <<x, i - 1>> \in {<<z, Cardinality({y \in S : <<y, z>> \in R})>> : z \in S} <=> place[x] = i - 1
  OBVIOUS
<1>9. \A i \in 1 .. n : Ordered(S, R)[i] \in S /\ place[Ordered(S, R)[i]] = i - 1
  <2> TAKE i \in 1 .. n
  <2> DEFINE Q(x) == <<x, i - 1>> \in {<<z, Cardinality({y \in S : <<y, z>> \in R})>> : z \in S}
  <2>1. Ordered(S, R)[i] = CHOOSE x \in S : Q(x)
    BY DEF Ordered
  <2>2. \A x \in S : Q(x) <=> place[x] = i - 1
    BY <1>8
  <2> HIDE DEF Q
  <2>3. \E x \in S : Q(x)
    BY <1>7, <2>2
  <2>4. Ordered(S, R)[i] \in S /\ Q(Ordered(S, R)[i])
    BY <2>1, <2>3
  <2> QED
    BY <2>2, <2>4
<1>10. Ordered(S, R) \in [1 .. n -> S]
  BY <1>9 DEF Ordered
<1>11. \A x \in S, i \in 1 .. n : Ordered(S, R)[i] = x <=> place[x] = i - 1
  BY <1>5, <1>9
<1>12. ASSUME NEW i \in 1 .. n, NEW j \in 1 .. n, i < j
       PROVE  <<Ordered(S, R)[i], Ordered(S, R)[j]>> \in R
  <2> DEFINE x == Ordered(S, R)[i]
             y == Ordered(S, R)[j]
  <2>1. x \in S /\ y \in S /\ place[x] = i - 1 /\ place[y] = j - 1
    BY <1>9
  <2>2. x # y
    BY <1>1, <1>12, <2>1
  <2> HIDE DEF x, y, place
  <2>3. <<y, x>> \notin R
    BY <1>1, <1>4, <1>12, <2>1
  <2>4. <<x, y>> \in R
    BY <2>1, <2>2, <2>3 DEF Orders
  <2> QED
    BY <2>4 DEF x, y
<1>13. \A x \in S : place[x] + 1 \in 1 .. n
  BY <1>1, <1>3
<1> QED
  BY <1>1, <1>10, <1>11, <1>12, <1>13

\* R orders the members of D like Q, and before all others of S.
Leads(D, Q, S, R) ==
  /\ \A x, y \in D : <<x, y>> \in Q <=> <<x, y>> \in R
  /\ \A x \in D, y \in S \ D : <<x, y>> \in R

\* If some members of S come before all others, the list of S begins with theirs.
LEMMA OrderedPrefix ==
  ASSUME NEW S, IsFiniteSet(S), NEW R, Orders(R, S), NEW D \in SUBSET S, NEW Q, Leads(D, Q, S, R)
  PROVE  /\ Orders(Q, D) /\ Cardinality(D) \in Nat /\ Cardinality(D) <= Cardinality(S)
         /\ \A i \in 1 .. Cardinality(D) : Ordered(D, Q)[i] = Ordered(S, R)[i]
         /\ \A i \in 1 .. Cardinality(S) : i > Cardinality(D) => Ordered(S, R)[i] \notin D
<1>1. Orders(Q, D)
  BY DEF Orders, Leads
<1>2. IsFiniteSet(D) /\ Cardinality(D) <= Cardinality(S)
  BY FS_Subset
<1>3. \A x \in D : {y \in S : <<y, x>> \in R} = {y \in D : <<y, x>> \in Q}
  <2>1. \A x \in D, y \in S \ D : <<y, x>> \notin R
    BY DEF Orders, Leads
  <2> QED
    BY <2>1 DEF Leads
<1>4. Cardinality(D) \in Nat /\ Cardinality(S) \in Nat
  BY <1>2, FS_CardinalityType
<1>5. ASSUME NEW i \in 1 .. Cardinality(D)
      PROVE  Ordered(D, Q)[i] = Ordered(S, R)[i]
  <2> DEFINE x == Ordered(D, Q)[i]
  <2>1. x \in D /\ Cardinality({y \in D : <<y, x>> \in Q}) = i - 1
    BY <1>1, <1>2, OrderedIs
  <2>2. Cardinality({y \in S : <<y, x>> \in R}) = i - 1
    BY <1>3, <2>1
  <2>3. i \in 1 .. Cardinality(S)
    BY <1>2, <1>4
  <2> HIDE DEF x
  <2>4. Ordered(S, R)[i] = x
    BY <2>1, <2>2, <2>3, OrderedIs
  <2> QED
    BY <2>4 DEF x
<1>6. ASSUME NEW i \in 1 .. Cardinality(S), i > Cardinality(D), Ordered(S, R)[i] \in D
      PROVE  FALSE
  <2> DEFINE x == Ordered(S, R)[i]
  <2>1. Cardinality({y \in S : <<y, x>> \in R}) = i - 1
    BY OrderedIs
  <2>2. Cardinality({y \in D : <<y, x>> \in Q}) + 1 \in 1 .. Cardinality(D)
    BY <1>1, <1>2, <1>6, OrderedIs
  <2>3. Cardinality({y \in D : <<y, x>> \in Q}) = i - 1
    BY <1>3, <1>6, <2>1
  <2> QED
    BY <1>4, <1>6, <2>2, <2>3
<1> QED
  BY <1>1, <1>2, <1>4, <1>5, <1>6

\* Numbers are ordered.
LEMMA AscendingIs ==
  ASSUME NEW S \in SUBSET Nat, IsFiniteSet(S)
  PROVE  /\ Cardinality(S) \in Nat /\ Ascending(S) \in [1 .. Cardinality(S) -> S]
         /\ \A x \in S : \E i \in 1 .. Cardinality(S) : Ascending(S)[i] = x
         /\ \A i, j \in 1 .. Cardinality(S) : i < j => Ascending(S)[i] < Ascending(S)[j]
<1> DEFINE R == {p \in S \X S : p[1] < p[2]}
<1>1. \A x, y \in S : <<x, y>> \in R <=> x < y
  OBVIOUS
<1> HIDE DEF R
<1>2. Orders(R, S)
  <2>1. \A x, y, z \in Nat : ~(x < x) /\ (x # y => x < y \/ y < x) /\ (x < y /\ y < z => x < z)
    OBVIOUS
  <2> QED
    BY <1>1, <2>1 DEF Orders
<1>3. Ascending(S) = Ordered(S, R)
  BY DEF Ascending, R
<1>4. \A x \in S : \E i \in 1 .. Cardinality(S) : Ascending(S)[i] = x
  <2> TAKE x \in S
  <2> DEFINE i == Cardinality({y \in S : <<y, x>> \in R}) + 1
  <2>1. i \in 1 .. Cardinality(S) /\ Cardinality({y \in S : <<y, x>> \in R}) = i - 1
    <3>1. {y \in S : <<y, x>> \in R} \in SUBSET S
      OBVIOUS
    <3>2. Cardinality({y \in S : <<y, x>> \in R}) \in Nat
      BY <3>1, FS_Subset, FS_CardinalityType
    <3>3. Cardinality({y \in S : <<y, x>> \in R}) + 1 \in 1 .. Cardinality(S)
      BY <1>2, OrderedIs
    <3> QED
      BY <3>2, <3>3
  <2> HIDE DEF i
  <2>2. Ordered(S, R)[i] = x
    BY <1>2, <2>1, OrderedIs
  <2> QED
    BY <1>3, <2>1, <2>2
<1>5. \A i, j \in 1 .. Cardinality(S) : i < j => <<Ascending(S)[i], Ascending(S)[j]>> \in R
  BY <1>2, <1>3, OrderedIs
<1>6. Cardinality(S) \in Nat /\ Ascending(S) \in [1 .. Cardinality(S) -> S]
  BY <1>2, <1>3, OrderedIs
<1> QED
  BY <1>1, <1>4, <1>5, <1>6

\* Selected entries are entries of the list, in its order, and no more than it has.
LEMMA EntriesAre ==
  ASSUME NEW A, NEW s \in Seq(A), NEW I \in SUBSET (DOMAIN s)
  PROVE  /\ Cardinality(I) \in Nat /\ Cardinality(I) <= Len(s)
         /\ Entries(s, I) \in [1 .. Cardinality(I) -> A]
         /\ Ascending(I) \in [1 .. Cardinality(I) -> I]
         /\ \A n \in 1 .. Cardinality(I) : Entries(s, I)[n] = s[Ascending(I)[n]]
         /\ \A i \in I : \E n \in 1 .. Cardinality(I) : Ascending(I)[n] = i
         /\ \A m, n \in 1 .. Cardinality(I) : m < n => Ascending(I)[m] < Ascending(I)[n]
<1>1. I \in SUBSET (1 .. Len(s)) /\ Len(s) \in Nat /\ I \in SUBSET Nat
  OBVIOUS
<1>2. IsFiniteSet(1 .. Len(s)) /\ Cardinality(1 .. Len(s)) = Len(s)
  <2> DEFINE n == Len(s)
  <2>1. 1 \in Int /\ n \in Int /\ n \in Nat
    BY <1>1
  <2> HIDE DEF n
  <2>2. IsFiniteSet(1 .. n) /\ Cardinality(1 .. n) = IF 1 > n THEN 0 ELSE n - 1 + 1
    BY <2>1, FS_Interval
  <2> QED
    BY <2>1, <2>2 DEF n
<1>3. IsFiniteSet(I) /\ Cardinality(I) <= Len(s)
  BY <1>1, <1>2, FS_Subset
<1>4. /\ Cardinality(I) \in Nat /\ Ascending(I) \in [1 .. Cardinality(I) -> I]
      /\ \A i \in I : \E n \in 1 .. Cardinality(I) : Ascending(I)[n] = i
      /\ \A m, n \in 1 .. Cardinality(I) : m < n => Ascending(I)[m] < Ascending(I)[n]
  BY <1>1, <1>3, AscendingIs
<1>5. Entries(s, I) = [n \in 1 .. Cardinality(I) |-> s[Ascending(I)[n]]]
  BY <1>4 DEF Entries
<1>6. \A n \in 1 .. Cardinality(I) : Ascending(I)[n] \in I /\ s[Ascending(I)[n]] \in A
  BY <1>4
<1>7. Entries(s, I) \in [1 .. Cardinality(I) -> A] /\ \A n \in 1 .. Cardinality(I) : Entries(s, I)[n] = s[Ascending(I)[n]]
  BY <1>5, <1>6
<1> QED
  BY <1>3, <1>4, <1>7
=============================================================================
