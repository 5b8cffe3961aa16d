-------------------------- MODULE RolesBuildProofs --------------------------
(***************************************************************************)
(* Theorems about RolesBuild for all role files, arguments and contents:   *)
(* what merge-roles.py makes of its sources, and what roles_data.yaml is   *)
(* when make ends well.                                                    *)
(***************************************************************************)
EXTENDS RolesBuild, FiniteSetTheorems, TLAPS

(* Induction, over a set: a successor that stays in a finite set and is      *)
(* never 0 would be an injection that is no surjection.                      *)
LEMMA SetInduction ==
    ASSUME NEW A, 0 \in A, \A n \in Nat : n \in A => n + 1 \in A
    PROVE  Nat \subseteq A
  <1> SUFFICES ASSUME NEW N \in Nat, N \notin A
               PROVE  FALSE
    OBVIOUS
  <1> DEFINE B == {n \in 0..N : n \in A}
             f == [n \in B |-> n + 1]
  <1>1. \A n \in B : n \in Nat /\ n + 1 \in B
    OBVIOUS
  <1>2. f \in Injection(B, B)
    BY <1>1 DEF Injection, IsInjective
  <1>3. IsFiniteSet(B)
    <2>1. IsFiniteSet(0..N)
      BY FS_Interval
    <2> QED
      BY <2>1, FS_Subset
  <1>4. f \in Surjection(B, B)
    BY <1>2, <1>3, FS_Injection
  <1>5. PICK n \in B : f[n] = 0
    <2>1. 0 \in B
      OBVIOUS
    <2> QED
      BY <1>4, <2>1 DEF Surjection
  <1> QED
    BY <1>1, <1>5

(* A set of naturals that has an element has a least one.                    *)
LEMMA LeastOf ==
    ASSUME NEW S \in SUBSET Nat, S # {}
    PROVE  \E m \in S : \A n \in S : m <= n
  <1> SUFFICES ASSUME \A m \in S : \E n \in S : n < m
               PROVE  FALSE
    OBVIOUS
  <1> DEFINE A == {k \in Nat : \A n \in S : k <= n}
  <1>1. 0 \in A
    OBVIOUS
  <1>2. \A k \in Nat : k \in A => k + 1 \in A
    <2> TAKE k \in Nat
    <2> HAVE k \in A
    <2>1. k \notin S
      OBVIOUS
    <2>2. \A n \in S : k <= n /\ n # k /\ n \in Nat
      BY <2>1
    <2> QED
      BY <2>2
  <1> HIDE DEF A
  <1>3. Nat \subseteq A
    BY <1>1, <1>2, SetInduction
  <1>4. PICK s : s \in S
    OBVIOUS
  <1>5. s + 1 \in A
    BY <1>3, <1>4
  <1> QED
    BY <1>4, <1>5 DEF A

(* In a finite set that is totally ordered by R, every number of elements    *)
(* from none to all but one are below some element, and of two elements the  *)
(* greater one has more below it.                                            *)
Ordered(S, R) ==
    /\ \A x \in S : <<x, x>> \notin R
    /\ \A x, y, z \in S : <<x, y>> \in R /\ <<y, z>> \in R => <<x, z>> \in R
    /\ \A x, y \in S : x = y \/ <<x, y>> \in R \/ <<y, x>> \in R
LowerThan(S, R, x) == {y \in S : <<y, x>> \in R}
LEMMA Ranks ==
    ASSUME NEW S, IsFiniteSet(S), NEW R, Ordered(S, R)
    PROVE  /\ Cardinality(S) \in Nat
           /\ \A x \in S : Cardinality(LowerThan(S, R, x)) \in 0..(Cardinality(S) - 1)
           /\ \A x, y \in S : <<x, y>> \in R =>
                 Cardinality(LowerThan(S, R, x)) < Cardinality(LowerThan(S, R, y))
           /\ \A i \in 0..(Cardinality(S) - 1) :
                 \E x \in S : Cardinality(LowerThan(S, R, x)) = i
  <1> DEFINE rank(x) == Cardinality(LowerThan(S, R, x))
             n == Cardinality(S)
             f == [x \in S |-> rank(x)]
  <1>1. n \in Nat
    BY FS_CardinalityType
  <1>2. \A x \in S : IsFiniteSet(LowerThan(S, R, x)) /\ rank(x) \in Nat /\ rank(x) <= n - 1
    <2> TAKE x \in S
    <2>1. LowerThan(S, R, x) \subseteq S \ {x}
      BY DEF LowerThan, Ordered
    <2>2. IsFiniteSet(S \ {x}) /\ Cardinality(S \ {x}) = n - 1
      BY FS_RemoveElement
    <2>3. IsFiniteSet(LowerThan(S, R, x)) /\ rank(x) <= n - 1
      BY <2>1, <2>2, FS_Subset
    <2> QED
      BY <2>3, FS_CardinalityType
  <1>3. \A x \in S : rank(x) \in 0..(n - 1)
    BY <1>1, <1>2
  <1>4. ASSUME NEW x \in S, NEW y \in S, <<x, y>> \in R
        PROVE  rank(x) < rank(y)
    <2>1. LowerThan(S, R, x) \subseteq LowerThan(S, R, y) \ {x}
      BY <1>4 DEF LowerThan, Ordered
    <2>2. x \in LowerThan(S, R, y)
      BY <1>4 DEF LowerThan
    <2>3. /\ IsFiniteSet(LowerThan(S, R, y) \ {x})
          /\ Cardinality(LowerThan(S, R, y) \ {x}) = rank(y) - 1
      BY <1>2, <2>2, FS_RemoveElement
    <2>4. rank(x) <= rank(y) - 1
      BY <2>1, <2>3, FS_Subset
    <2> QED
      BY <1>2, <2>4
  <1>5. f \in Injection(S, 0..(n - 1))
    <2>1. f \in [S -> 0..(n - 1)]
      BY <1>3
    <2>2. ASSUME NEW x \in S, NEW y \in S, f[x] = f[y]
          PROVE  x = y
      <3>1. rank(x) = rank(y) /\ rank(x) \in Nat
        BY <1>2, <2>2
      <3>2. <<x, y>> \notin R /\ <<y, x>> \notin R
        BY <1>4, <3>1
      <3> QED
        BY <3>2 DEF Ordered
    <2> QED
      BY <2>1, <2>2 DEF Injection, IsInjective
  <1>6. f \in Surjection(S, 0..(n - 1))
    <2>1. 0 \in Int /\ n - 1 \in Int
      BY <1>1
    <2>2. IsFiniteSet(0..(n - 1)) /\ Cardinality(0..(n - 1)) = IF 0 > n - 1 THEN 0 ELSE (n - 1) - 0 + 1
      BY <2>1, FS_Interval
    <2>3. Cardinality(0..(n - 1)) = n
      BY <1>1, <2>2
    <2> QED
      BY <1>5, <2>2, <2>3, FS_Injection
  <1>7. \A i \in 0..(n - 1) : \E x \in S : rank(x) = i
    BY <1>6 DEF Surjection
  <1> QED
    BY <1>1, <1>3, <1>4, <1>7
-----------------------------------------------------------------------------
(* ----------------------------- merge-roles.py ---------------------------- *)
(* uniqify keeps what the list names and is not excluded, each once.         *)
LEMMA Uniqified ==
    ASSUME NEW l \in Seq(Int), NEW exclude
    PROVE  /\ uniqify(l, exclude) \in Seq(Int)
           /\ ToSet(uniqify(l, exclude)) = ToSet(l) \ exclude
           /\ \A i, j \in DOMAIN uniqify(l, exclude) :
                 uniqify(l, exclude)[i] = uniqify(l, exclude)[j] => i = j
  <1> DEFINE kept == {i \in DOMAIN l : l[i] \notin exclude /\ \A j \in 1..(i - 1) : l[j] # l[i]}
             R == {p \in kept \X kept : p[1] < p[2]}
             rank(i) == Cardinality({j \in kept : j < i})
             nth(n) == CHOOSE i \in kept : rank(i) = n - 1
             N == Cardinality(kept)
             u == uniqify(l, exclude)
  <1>1. DOMAIN l = 1..Len(l) /\ Len(l) \in Nat /\ \A i \in DOMAIN l : i \in Nat /\ i >= 1 /\ l[i] \in Int
    OBVIOUS
  <1>2. IsFiniteSet(kept)
    <2>1. IsFiniteSet(1..Len(l))
      BY <1>1, FS_Interval
    <2> QED
      BY <1>1, <2>1, FS_Subset
  <1>3. kept \subseteq DOMAIN l
    OBVIOUS
  <1>4. \A i, j \in kept : l[i] = l[j] => i = j
    <2> SUFFICES ASSUME NEW i \in kept, NEW j \in kept, l[i] = l[j], i < j
                 PROVE  FALSE
      BY <1>1
    <2>1. i \in 1..(j - 1)
      BY <1>1
    <2> QED
      BY <2>1
  <1>5. \A i \in DOMAIN l : l[i] \notin exclude => \E m \in kept : l[m] = l[i]
    <2> TAKE i \in DOMAIN l
    <2> HAVE l[i] \notin exclude
    <2> DEFINE S == {j \in DOMAIN l : l[j] = l[i]}
    <2>1. S \in SUBSET Nat /\ S # {}
      BY <1>1
    <2>2. PICK m \in S : \A n \in S : m <= n
      BY <2>1, LeastOf
    <2>3. \A j \in 1..(m - 1) : l[j] # l[m]
      BY <1>1, <2>2
    <2> QED
      BY <2>2, <2>3
  <1>6. \A i \in kept : l[i] \notin exclude
    OBVIOUS
  <1>7. u = [n \in 1..N |-> l[nth(n)]]
    BY DEF uniqify
  <1> HIDE DEF kept
  <1>8. Ordered(kept, R)
    BY <1>1, <1>3 DEF Ordered
  <1>9. \A i \in kept : LowerThan(kept, R, i) = {j \in kept : j < i}
    BY DEF LowerThan
  <1>10. /\ N \in Nat
         /\ \A i \in kept : rank(i) \in 0..(N - 1)
         /\ \A i, j \in kept : i < j => rank(i) < rank(j)
         /\ \A k \in 0..(N - 1) : \E i \in kept : rank(i) = k
    <2>1. \A i, j \in kept : i < j => <<i, j>> \in R
      OBVIOUS
    <2> HIDE DEF R
    <2>2. /\ N \in Nat
          /\ \A i \in kept : Cardinality(LowerThan(kept, R, i)) \in 0..(N - 1)
          /\ \A i, j \in kept : <<i, j>> \in R =>
                Cardinality(LowerThan(kept, R, i)) < Cardinality(LowerThan(kept, R, j))
          /\ \A k \in 0..(N - 1) : \E i \in kept : Cardinality(LowerThan(kept, R, i)) = k
      BY <1>2, <1>8, Ranks
    <2> QED
      BY <1>9, <2>1, <2>2
  <1> HIDE DEF R, rank
  <1>11. \A n \in 1..N : nth(n) \in kept /\ rank(nth(n)) = n - 1
    <2> TAKE n \in 1..N
    <2>1. n - 1 \in 0..(N - 1)
      BY <1>10
    <2> QED
      BY <1>10, <2>1
  <1>12. \A m \in kept : \E n \in 1..N : nth(n) = m
    <2> TAKE m \in kept
    <2>1. rank(m) \in 0..(N - 1)
      BY <1>10
    <2>2. rank(m) + 1 \in 1..N /\ (rank(m) + 1) - 1 = rank(m)
      BY <1>10, <2>1
    <2>3. nth(rank(m) + 1) \in kept /\ rank(nth(rank(m) + 1)) = rank(m)
      BY <1>11, <2>2
    <2>4. nth(rank(m) + 1) = m
      <3> DEFINE a == nth(rank(m) + 1)
      <3>1. a \in kept /\ a \in Nat /\ m \in Nat /\ rank(a) = rank(m) /\ rank(m) \in Nat
        BY <1>1, <1>3, <2>1, <2>3
      <3>2. ~(a < m) /\ ~(m < a)
        BY <1>10, <3>1
      <3> HIDE DEF a
      <3>3. a = m
        BY <3>1, <3>2
      <3> QED
        BY <3>3 DEF a
    <2> QED
      BY <2>2, <2>4
  <1> HIDE DEF nth
  <1>13. \A n \in 1..N : nth(n) \in DOMAIN l /\ l[nth(n)] \in Int
    BY <1>1, <1>3, <1>11
  <1>14. u \in [1..N -> Int]
    BY <1>7, <1>13
  <1>15. u \in Seq(Int) /\ DOMAIN u = 1..N
    BY <1>10, <1>14
  <1>16. \A n \in 1..N : u[n] = l[nth(n)]
    BY <1>7
  <1> HIDE DEF u
  <1>17. ToSet(u) = ToSet(l) \ exclude
    <2>1. ASSUME NEW v \in ToSet(u)
          PROVE  v \in ToSet(l) \ exclude
      <3>1. PICK n \in 1..N : v = l[nth(n)]
        BY <1>15, <1>16 DEF ToSet
      <3> QED
        BY <1>6, <1>11, <1>13, <3>1 DEF ToSet
    <2>2. ASSUME NEW v \in ToSet(l) \ exclude
          PROVE  v \in ToSet(u)
      <3>1. PICK i \in DOMAIN l : v = l[i]
        BY DEF ToSet
      <3>2. PICK m \in kept : l[m] = v
        BY <1>5, <3>1
      <3>3. PICK n \in 1..N : nth(n) = m
        BY <1>12
      <3> QED
        BY <1>15, <1>16, <3>2, <3>3 DEF ToSet
    <2> QED
      BY <2>1, <2>2
  <1>18. \A i, j \in DOMAIN u : u[i] = u[j] => i = j
    <2> TAKE i, j \in DOMAIN u
    <2> HAVE u[i] = u[j]
    <2>1. nth(i) = nth(j)
      BY <1>4, <1>11, <1>15, <1>16
    <2>2. i - 1 = j - 1
      BY <1>11, <1>15, <2>1
    <2> QED
      BY <1>10, <1>15, <2>2
  <1> QED
    BY <1>15, <1>17, <1>18 DEF u

(* sorted puts a list in order and leaves what it names.                     *)
LEMMA Sorted ==
    ASSUME NEW l \in Seq(Int), \A i, j \in DOMAIN l : l[i] = l[j] => i = j
    PROVE  /\ sorted(l) \in Seq(Int)
           /\ ToSet(sorted(l)) = ToSet(l)
           /\ \A i, j \in DOMAIN sorted(l) : i < j => sorted(l)[i] < sorted(l)[j]
  <1> DEFINE D == DOMAIN l
             R == {p \in D \X D : l[p[1]] < l[p[2]] \/ (l[p[1]] = l[p[2]] /\ p[1] < p[2])}
             rank(i) == Cardinality(Before(l, i))
             nth(n) == CHOOSE i \in D : rank(i) = n - 1
             N == Len(l)
             u == sorted(l)
  <1>1. D = 1..N /\ N \in Nat /\ \A i \in D : i \in Nat /\ l[i] \in Int
    OBVIOUS
  <1>2. IsFiniteSet(D) /\ Cardinality(D) = N
    <2>1. 1 \in Int /\ N \in Int
      BY <1>1
    <2>2. IsFiniteSet(1..N) /\ Cardinality(1..N) = IF 1 > N THEN 0 ELSE N - 1 + 1
      BY <2>1, FS_Interval
    <2> QED
      BY <1>1, <2>2
  <1>3. Ordered(D, R)
    BY <1>1 DEF Ordered
  <1>4. \A i \in D : LowerThan(D, R, i) = Before(l, i)
    BY DEF LowerThan, Before
  <1>5. \A i, j \in D : l[i] < l[j] => <<i, j>> \in R
    OBVIOUS
  <1> HIDE DEF D, R
  <1>6. /\ \A i \in D : rank(i) \in 0..(N - 1)
        /\ \A i, j \in D : l[i] < l[j] => rank(i) < rank(j)
        /\ \A k \in 0..(N - 1) : \E i \in D : rank(i) = k
    <2>1. /\ \A i \in D : Cardinality(LowerThan(D, R, i)) \in 0..(N - 1)
          /\ \A i, j \in D : <<i, j>> \in R =>
                Cardinality(LowerThan(D, R, i)) < Cardinality(LowerThan(D, R, j))
          /\ \A k \in 0..(N - 1) : \E i \in D : Cardinality(LowerThan(D, R, i)) = k
      BY <1>2, <1>3, Ranks
    <2> QED
      BY <1>4, <1>5, <2>1
  <1>7. u = [n \in D |-> l[nth(n)]]
    BY DEF sorted, D
  <1> HIDE DEF rank
  <1>8. \A n \in 1..N : nth(n) \in D /\ rank(nth(n)) = n - 1
    <2> TAKE n \in 1..N
    <2>1. n - 1 \in 0..(N - 1)
      BY <1>1
    <2> QED
      BY <1>6, <2>1
  <1>9. \A i, j \in D : rank(i) < rank(j) => l[i] < l[j]
    <2> SUFFICES ASSUME NEW i \in D, NEW j \in D, rank(i) < rank(j), ~(l[i] < l[j])
                 PROVE  FALSE
      OBVIOUS
    <2>1. l[j] < l[i] \/ i = j
      BY <1>1 DEF D
    <2>2. rank(i) \in Nat /\ rank(j) \in Nat
      BY <1>1, <1>6
    <2> QED
      BY <1>6, <2>1, <2>2
  <1>10. \A m \in D : \E n \in 1..N : nth(n) = m
    <2> TAKE m \in D
    <2>1. rank(m) \in 0..(N - 1)
      BY <1>6
    <2>2. rank(m) + 1 \in 1..N /\ (rank(m) + 1) - 1 = rank(m)
      BY <1>1, <2>1
    <2> DEFINE a == nth(rank(m) + 1)
    <2>3. a \in D /\ rank(a) = rank(m) /\ rank(m) \in Nat
      BY <1>8, <2>1, <2>2
    <2> HIDE DEF a
    <2>4. ~(l[a] < l[m]) /\ ~(l[m] < l[a])
      BY <1>6, <2>3
    <2>5. a = m
      BY <1>1, <2>3, <2>4 DEF D
    <2> QED
      BY <2>2, <2>5 DEF a
  <1> HIDE DEF nth
  <1>11. \A n \in 1..N : u[n] = l[nth(n)] /\ l[nth(n)] \in Int
    BY <1>1, <1>7, <1>8
  <1>12. u \in [1..N -> Int]
    BY <1>1, <1>7, <1>11
  <1>13. u \in Seq(Int) /\ DOMAIN u = 1..N
    BY <1>1, <1>12
  <1> HIDE DEF u
  <1>14. ToSet(u) = ToSet(l)
    <2>1. ToSet(u) = {u[n] : n \in 1..N} /\ ToSet(l) = {l[i] : i \in D}
      BY <1>13 DEF ToSet, D
    <2> QED
      BY <1>8, <1>10, <1>11, <2>1
  <1>15. ASSUME NEW i \in 1..N, NEW j \in 1..N, i < j
         PROVE  u[i] < u[j]
    <2>1. rank(nth(i)) < rank(nth(j))
      BY <1>1, <1>8, <1>15
    <2> QED
      BY <1>8, <1>9, <1>11, <2>1
  <1> QED
    BY <1>13, <1>14, <1>15 DEF u

(* A recursion over 0..N has a solution.                                     *)
Solves(g, N, S, b, G) ==
    /\ g \in [0..N -> S]
    /\ g[0] = b
    /\ \A i \in 1..N : g[i] = G[i][g[i - 1]]
LEMMA Iterated ==
    ASSUME NEW N \in Nat, NEW S, NEW b \in S, NEW G \in [1..N -> [S -> S]]
    PROVE  \E g : Solves(g, N, S, b, G)
  <1> DEFINE A == {n \in Nat : n <= N => \E g : Solves(g, n, S, b, G)}
  <1>1. 0 \in A
    <2> DEFINE g == [i \in 0..0 |-> b]
    <2>1. Solves(g, 0, S, b, G)
      BY DEF Solves
    <2> QED
      BY <2>1
  <1>2. ASSUME NEW n \in Nat, n \in A
        PROVE  n + 1 \in A
    <2> SUFFICES ASSUME n + 1 <= N
                 PROVE  \E g : Solves(g, n + 1, S, b, G)
      OBVIOUS
    <2>1. PICK g : Solves(g, n, S, b, G)
      BY <1>2
    <2> DEFINE h == [i \in 0..(n + 1) |-> IF i <= n THEN g[i] ELSE G[n + 1][g[n]]]
    <2>2. g \in [0..n -> S] /\ g[0] = b /\ \A i \in 1..n : g[i] = G[i][g[i - 1]]
      BY <2>1 DEF Solves
    <2>3. g[n] \in S /\ n + 1 \in 1..N
      BY <2>2
    <2>4. G[n + 1][g[n]] \in S
      BY <2>3
    <2>5. h \in [0..(n + 1) -> S]
      BY <2>2, <2>4
    <2>6. h[0] = b /\ h[n] = g[n] /\ h[n + 1] = G[n + 1][g[n]]
      BY <2>2
    <2>7. \A i \in 1..n : h[i] = g[i] /\ h[i - 1] = g[i - 1]
      OBVIOUS
    <2>8. \A i \in 1..(n + 1) : h[i] = G[i][h[i - 1]]
      <3> TAKE i \in 1..(n + 1)
      <3>1. CASE i = n + 1
        <4>1. i - 1 = n
          BY <3>1
        <4> HIDE DEF h
        <4> QED
          BY <2>6, <3>1, <4>1
      <3>2. CASE i # n + 1
        <4>1. i \in 1..n
          BY <3>2
        <4> HIDE DEF h
        <4> QED
          BY <2>2, <2>7, <4>1
      <3> QED
        BY <3>1, <3>2
    <2> HIDE DEF h
    <2>9. Solves(h, n + 1, S, b, G)
      BY <2>5, <2>6, <2>8 DEF Solves
    <2> QED
      BY <2>9
  <1>3. \A n \in Nat : n \in A => n + 1 \in A
    <2> HIDE DEF A
    <2> QED
      BY <1>2
  <1> HIDE DEF A
  <1>4. N \in A
    BY <1>1, <1>3, SetInduction
  <1> QED
    BY <1>4 DEF A

LEMMA Joined ==
    ASSUME NEW a \in Seq(Int), NEW b \in Seq(Int)
    PROVE  a \o b \in Seq(Int) /\ ToSet(a \o b) = ToSet(a) \union ToSet(b)
  <1>1. /\ a \o b \in Seq(Int) /\ Len(a) \in Nat /\ Len(b) \in Nat
        /\ DOMAIN (a \o b) = 1..(Len(a) + Len(b)) /\ DOMAIN a = 1..Len(a) /\ DOMAIN b = 1..Len(b)
    OBVIOUS
  <1>2. /\ \A i \in 1..Len(a) : (a \o b)[i] = a[i]
        /\ \A i \in 1..Len(b) : (a \o b)[i + Len(a)] = b[i]
    BY <1>1
  <1>3. \A i \in 1..(Len(a) + Len(b)) :
           i \in 1..Len(a) \/ \E j \in 1..Len(b) : i = j + Len(a)
    <2> TAKE i \in 1..(Len(a) + Len(b))
    <2>1. i \in 1..Len(a) \/ (i - Len(a) \in 1..Len(b) /\ i = (i - Len(a)) + Len(a))
      BY <1>1
    <2> QED
      BY <2>1
  <1>4. \A i \in 1..Len(a) : i \in 1..(Len(a) + Len(b))
    BY <1>1
  <1>5. \A i \in 1..Len(b) : i + Len(a) \in 1..(Len(a) + Len(b))
    BY <1>1
  <1> DEFINE c == a \o b
  <1>6. /\ ToSet(c) = {c[i] : i \in 1..(Len(a) + Len(b))}
        /\ ToSet(a) = {a[i] : i \in 1..Len(a)} /\ ToSet(b) = {b[i] : i \in 1..Len(b)}
    BY <1>1 DEF ToSet
  <1> HIDE DEF c
  <1>7. ToSet(c) \subseteq ToSet(a) \union ToSet(b)
    BY <1>2, <1>3, <1>6 DEF c
  <1>8. ToSet(a) \subseteq ToSet(c) /\ ToSet(b) \subseteq ToSet(c)
    BY <1>2, <1>4, <1>5, <1>6 DEF c
  <1> QED
    BY <1>1, <1>7, <1>8 DEF c

(* What is read of all sources names what one of them names.                 *)
LEMMA AllRead ==
    ASSUME NEW t \in Targets, source \in [Sources -> Contents]
    PROVE  /\ ReadAll(t) \in Lists
           /\ \A f \in Fields :
                ToSet(ReadAll(t)[f]) = UNION {ToSet(source[s][f]) : s \in ToSet(SourcesOf[t])}
  <1> DEFINE from == SourcesOf[t]
             N == Len(from)
             first == CHOOSE g : g = [n \in 0..N |->
                         IF n = 0 THEN Nothing ELSE Extended(g[n - 1], source[from[n]])]
             G == [i \in 1..N |-> [l \in Lists |-> Extended(l, source[from[i]])]]
  <1>1. from \in Seq(Sources) /\ N \in Nat /\ DOMAIN from = 1..N
    BY FileAssumption
  <1>2. \A i \in 1..N : from[i] \in Sources /\ source[from[i]] \in Lists
    BY <1>1, ContentsAssumption
  <1>3. \A a, b \in Lists : Extended(a, b) \in Lists
    BY Joined DEF Lists, Extended
  <1>4. G \in [1..N -> [Lists -> Lists]]
    BY <1>2, <1>3
  <1>5. Nothing \in Lists
    BY DEF Nothing, Lists
  <1>6. PICK g : Solves(g, N, Lists, Nothing, G)
    <2> HIDE DEF G, N
    <2> QED
      BY <1>1, <1>4, <1>5, Iterated
  <1>7. g = [n \in 0..N |-> IF n = 0 THEN Nothing ELSE Extended(g[n - 1], source[from[n]])]
    <2>1. g \in [0..N -> Lists] /\ g[0] = Nothing /\ \A i \in 1..N : g[i] = G[i][g[i - 1]]
      BY <1>6 DEF Solves
    <2>2. ASSUME NEW n \in 0..N, n # 0
          PROVE  g[n] = Extended(g[n - 1], source[from[n]])
      <3>1. n \in 1..N /\ n - 1 \in 0..N
        BY <1>1, <2>2
      <3>2. g[n - 1] \in Lists
        BY <2>1, <3>1
      <3> QED
        BY <2>1, <3>1, <3>2
    <2> QED
      BY <2>1, <2>2
  <1>8. first = [n \in 0..N |-> IF n = 0 THEN Nothing ELSE Extended(first[n - 1], source[from[n]])]
    BY <1>7
  <1>9. ReadAll(t) = first[N]
    BY DEF ReadAll
  <1> HIDE DEF first, G
  <1>10. first[0] = Nothing /\ \A n \in 1..N : first[n] = Extended(first[n - 1], source[from[n]])
    <2>1. \A n \in 0..N : first[n] = IF n = 0 THEN Nothing ELSE Extended(first[n - 1], source[from[n]])
      BY <1>8
    <2> QED
      BY <1>1, <2>1
  <1> DEFINE Right(n) == /\ first[n] \in Lists
                         /\ \A f \in Fields : ToSet(first[n][f])
                                                = UNION {ToSet(source[from[i]][f]) : i \in 1..n}
             A == {n \in Nat : n <= N => Right(n)}
  <1>11. 0 \in A
    <2>1. \A f \in Fields : ToSet(Nothing[f]) = {}
      BY DEF Nothing, ToSet
    <2>2. \A f \in Fields : UNION {ToSet(source[from[i]][f]) : i \in 1..0} = {}
      OBVIOUS
    <2>3. Right(0)
      BY <1>5, <1>10, <2>1, <2>2
    <2> HIDE DEF Right
    <2> QED
      BY <2>3
  <1>12. \A n \in Nat : n \in A => n + 1 \in A
    <2> SUFFICES ASSUME NEW n \in Nat, Right(n), n + 1 <= N
                 PROVE  Right(n + 1)
      <3> HIDE DEF Right
      <3> QED
        OBVIOUS
    <2> DEFINE last == source[from[n + 1]]
    <2>1. n + 1 \in 1..N /\ (n + 1) - 1 = n /\ last \in Lists
      BY <1>2
    <2>2. first[n + 1] = Extended(first[n], last)
      BY <1>10, <2>1
    <2>3. first[n + 1] \in Lists
      BY <1>3, <2>1, <2>2
    <2>4. ASSUME NEW f \in Fields
          PROVE  ToSet(first[n + 1][f]) = UNION {ToSet(source[from[i]][f]) : i \in 1..(n + 1)}
      <3>1. first[n][f] \in Seq(Int) /\ last[f] \in Seq(Int)
        BY <2>1 DEF Lists
      <3>2. first[n + 1][f] = first[n][f] \o last[f]
        BY <2>2 DEF Extended
      <3>3. ToSet(first[n + 1][f]) = ToSet(first[n][f]) \union ToSet(last[f])
        BY <3>1, <3>2, Joined
      <3>4. ToSet(first[n][f]) = UNION {ToSet(source[from[i]][f]) : i \in 1..n}
        OBVIOUS
      <3> DEFINE of(i) == ToSet(source[from[i]][f])
      <3>5. \A i : i \in 1..(n + 1) <=> (i \in 1..n \/ i = n + 1)
        OBVIOUS
      <3>6. ToSet(last[f]) = of(n + 1)
        OBVIOUS
      <3>7. ToSet(first[n][f]) = UNION {of(i) : i \in 1..n}
        BY <3>4
      <3> HIDE DEF of
      <3>8. UNION {of(i) : i \in 1..(n + 1)} = (UNION {of(i) : i \in 1..n}) \union of(n + 1)
        BY <3>5
      <3>9. ToSet(first[n + 1][f]) = UNION {of(i) : i \in 1..(n + 1)}
        BY <3>3, <3>6, <3>7, <3>8
      <3> QED
        BY <3>9 DEF of
    <2> QED
      BY <2>3, <2>4
  <1> HIDE DEF A
  <1>13. N \in A
    BY <1>1, <1>11, <1>12, SetInduction
  <1>14. Right(N)
    <2>1. N <= N
      BY <1>1
    <2> HIDE DEF Right, N
    <2> QED
      BY <1>13, <2>1 DEF A
  <1>15. \A f \in Fields :
            UNION {ToSet(source[from[i]][f]) : i \in 1..N} = UNION {ToSet(source[s][f]) : s \in ToSet(from)}
    <2>1. ToSet(from) = {from[i] : i \in 1..N}
      BY <1>1 DEF ToSet
    <2> QED
      BY <2>1
  <1> QED
    BY <1>9, <1>14, <1>15
(* A custom role that was just merged is what it has to be.                  *)
LEMMA NewRoleMerged ==
    ASSUME NEW t \in Targets, source \in [Sources -> Contents],
           flags[t] \in FlagChoices \union {Arguments[t]}
    PROVE  IsMerged(new_role(ReadAll(t), flags[t]), t)
  <1> DEFINE all == ReadAll(t)
             fl == flags[t]
             role == new_role(all, fl)
  <1>1. /\ all \in Lists
        /\ \A f \in Fields : ToSet(all[f]) = UNION {ToSet(source[s][f]) : s \in ToSet(SourcesOf[t])}
    BY AllRead
  <1>2. fl.add \in Lists
    BY ArgumentsAssumption
  <1> HIDE DEF all
  <1>3. ASSUME NEW f \in Fields
        PROVE  /\ ToSet(role.lists[f]) = Said(t, f) \ fl.exclude[f]
               /\ \A i, j \in DOMAIN role.lists[f] : i < j => role.lists[f][i] < role.lists[f][j]
    <2> DEFINE both == Extended(all, fl.add)[f]
               ex == fl.exclude[f]
               u == uniqify(both, ex)
    <2>1. all[f] \in Seq(Int) /\ fl.add[f] \in Seq(Int) /\ both = all[f] \o fl.add[f]
      BY <1>1, <1>2 DEF Lists, Extended
    <2>2. both \in Seq(Int) /\ ToSet(both) = Said(t, f)
      <3>1. both \in Seq(Int) /\ ToSet(both) = ToSet(all[f]) \union ToSet(fl.add[f])
        BY <2>1, Joined
      <3>2. Said(t, f) = ToSet(all[f]) \union ToSet(fl.add[f])
        BY <1>1 DEF Said
      <3> QED
        BY <3>1, <3>2
    <2>3. role.lists[f] = sorted(u)
      BY DEF new_role
    <2> HIDE DEF both, ex
    <2>4. u \in Seq(Int) /\ ToSet(u) = ToSet(both) \ ex /\ \A i, j \in DOMAIN u : u[i] = u[j] => i = j
      BY <2>2, Uniqified
    <2> HIDE DEF u
    <2>5. ToSet(sorted(u)) = ToSet(u)
          /\ \A i, j \in DOMAIN sorted(u) : i < j => sorted(u)[i] < sorted(u)[j]
      BY <2>4, Sorted
    <2> HIDE DEF role
    <2> QED
      BY <2>2, <2>3, <2>4, <2>5 DEF ex
  <1>4. \A k \in DOMAIN fl.extra \ Fields : role.extra[k] = fl.extra[k]
    BY DEF new_role, extraconfig
  <1> HIDE DEF role
  <1> QED
    BY <1>3, <1>4 DEF IsMerged, role, all
-----------------------------------------------------------------------------
(* -------------------------- the inductive invariant ---------------------- *)
(* The variables have their types, and make has read nothing unless it is    *)
(* merging.                                                                  *)
Shaped ==
    /\ DOMAIN flags = Targets
    /\ custom = [t \in Targets |-> custom[t]]
    /\ clock \in Nat
    /\ pc # "merge" => files = 0
(* A custom role that is not behind and not older than its sources is merged *)
(* from them.                                                                *)
MadeInv ==
    \A t \in Targets \ behind :
        /\ custom[t] # Torn
        /\ custom[t] # Absent /\ ~OutOfDate(t, SourcesOf[t]) => IsMerged(custom[t], t)
(* roles_data.yaml that is there and not older than the custom roles has     *)
(* those there are, unless it is behind, and then it is torn.                *)
DataInv ==
    /\ Data \in behind => data = Torn
    /\ ~DataOutOfDate /\ Data \notin behind =>
          data = [t \in Targets |-> data[t]] /\ \A t \in Targets : custom[t] \in {data[t], Absent}
(* The custom roles that make has been at are there.                         *)
DoneInv ==
    /\ pc \in {"role", "merge"} => \A n \in 1..(at - 1) : custom[CustomRoles[n]] # Absent
    /\ pc \in {"data", "done"} => \A t \in Targets : custom[t] # Absent
    /\ pc = "done" => data = IF Data \in behind THEN Torn ELSE custom
Inv == TypeOK /\ Shaped /\ MadeInv /\ DataInv /\ DoneInv

(* What a merge makes is a file with all its fields.                         *)
LEMMA NewRoleWhole ==
    ASSUME NEW lists, NEW fl
    PROVE  /\ new_role(lists, fl) \notin {Absent, Torn}
           /\ DOMAIN new_role(lists, fl).lists = Fields
  <1>1. DOMAIN new_role(lists, fl) = {"lists", "extra"}
    BY DEF new_role
  <1>2. DOMAIN Absent = {"file"} /\ DOMAIN Torn = {"file"}
    BY DEF Absent, Torn
  <1>3. DOMAIN new_role(lists, fl).lists = Fields
    BY DEF new_role
  <1> QED
    BY <1>1, <1>2, <1>3

(* The custom role make is at is one of them, and no file has two parts.     *)
LEMMA RoleIsTarget ==
    ASSUME at \in DOMAIN CustomRoles
    PROVE  /\ Role \in Targets
           /\ Len(CustomRoles) \in Nat \ {0} /\ DOMAIN CustomRoles = 1..Len(CustomRoles)
           /\ \A t \in Targets : \E n \in 1..Len(CustomRoles) : t = CustomRoles[n]
           /\ \A n \in DOMAIN CustomRoles : CustomRoles[n] \in Targets
  BY FileAssumption DEF Role, Targets, ToSet

LEMMA SourceFiles ==
    ASSUME NEW t \in Targets
    PROVE  /\ SourcesOf[t] \in Seq(Sources)
           /\ DOMAIN SourcesOf[t] = 1..Len(SourcesOf[t]) /\ Len(SourcesOf[t]) \in Nat \ {0}
           /\ \A n \in DOMAIN SourcesOf[t] : SourcesOf[t][n] \in Sources
           /\ t \notin Sources /\ t # Data /\ Data \notin Sources
           /\ t \in Files
  BY FileAssumption DEF Files

(* A role whose sources, arguments and output stay is what it was.           *)
LEMMA MergedStays ==
    ASSUME NEW t \in Targets, IsMerged(custom[t], t), custom'[t] = custom[t],
           flags'[t] = flags[t], \A s \in ToSet(SourcesOf[t]) : source'[s] = source[s]
    PROVE  IsMerged(custom[t], t)'
  <1>1. \A f \in Fields : Said(t, f)' = Said(t, f)
    BY DEF Said
  <1> QED
    BY <1>1 DEF IsMerged

(* A file that is touched is newer than every other.                         *)
LEMMA TouchedIsNewest ==
    ASSUME mtime \in [Files -> 0..clock], clock \in Nat, NEW x \in Files, Touched(x)
    PROVE  /\ clock' \in Nat /\ clock' = clock + 1 /\ mtime' \in [Files -> 0..clock']
           /\ mtime'[x] = clock + 1
           /\ \A y \in Files \ {x} : mtime'[y] = mtime[y] /\ mtime'[y] < mtime'[x]
  BY DEF Touched

LEMMA InvInit == Init => Inv
  <1> SUFFICES ASSUME Init
               PROVE  Inv
    OBVIOUS
  <1> USE DEF Init
  <1>1. /\ flags = Arguments /\ DOMAIN flags = Targets
        /\ \A t \in Targets : flags[t] \in FlagChoices \union {Arguments[t]}
    BY ArgumentsAssumption
  <1>2. source \in [Sources -> Contents] /\ custom = [t \in Targets |-> custom[t]] /\ data = custom
    OBVIOUS
  <1>3. \A t \in Targets : custom[t] = new_role(ReadAll(t), flags[t])
    OBVIOUS
  <1>4. TypeOK
    <2>1. mtime \in [Files -> 0..clock]
      OBVIOUS
    <2>2. at \in DOMAIN CustomRoles /\ pc = "idle"
      BY FileAssumption
    <2>3. Len(SourcesOf[Role]) \in Nat
      BY <2>2, RoleIsTarget, SourceFiles
    <2>4. \A t \in Targets : DOMAIN custom[t].lists = Fields
      BY <1>3, NewRoleWhole
    <2>5. edits \in 0..MaxEdits /\ makes \in 0..MaxMakes /\ behind \subseteq Targets \union {Data}
      BY BoundAssumption
    <2>7. DOMAIN data = Targets
      BY <1>2
    <2>6. files \in 0..Len(SourcesOf[Role])
      BY <2>3
    <2> QED
      BY <1>1, <1>2, <2>1, <2>2, <2>4, <2>5, <2>6, <2>7 DEF TypeOK
  <1>5. Shaped
    BY <1>1, <1>2 DEF Shaped
  <1>6. MadeInv
    <2> SUFFICES ASSUME NEW t \in Targets
                 PROVE  custom[t] # Torn /\ IsMerged(custom[t], t)
      BY DEF MadeInv
    <2> QED
      BY <1>1, <1>2, <1>3, NewRoleMerged, NewRoleWhole
  <1>7. DataInv
    BY <1>2 DEF DataInv
  <1>8. DoneInv
    BY DEF DoneInv
  <1> QED
    BY <1>4, <1>5, <1>6, <1>7, <1>8 DEF Inv

(* ------------------------ what changes files by hand --------------------- *)
LEMMA EditSourceKeeps ==
    ASSUME Inv, NEW f \in Sources, NEW c \in Contents, EditSource(f, c)
    PROVE  Inv'
  <1> USE DEF EditSource, work
  <1>1. f \in Files /\ mtime \in [Files -> 0..clock] /\ clock \in Nat
    BY DEF Inv, TypeOK, Shaped, Files
  <1>2. /\ clock' \in Nat /\ mtime' \in [Files -> 0..clock'] /\ mtime'[f] = clock + 1
        /\ \A y \in Files \ {f} : mtime'[y] = mtime[y] /\ mtime'[y] < mtime'[f]
    BY <1>1, TouchedIsNewest
  <1>3. /\ source' \in [Sources -> Contents] /\ source'[f] = c
        /\ \A s \in Sources \ {f} : source'[s] = source[s]
    BY DEF Inv, TypeOK
  <1>4. TypeOK'
    <2>1. edits' \in 0..MaxEdits
      BY BoundAssumption DEF Inv, TypeOK
    <2> QED
      BY <1>2, <1>3, <2>1 DEF Inv, TypeOK, Role
  <1>5. Shaped'
    BY <1>2 DEF Inv, Shaped
  <1>6. MadeInv'
    <2> SUFFICES ASSUME NEW t \in Targets \ behind, custom[t] # Absent,
                        ~OutOfDate(t, SourcesOf[t])'
                 PROVE  IsMerged(custom[t], t)'
      BY DEF Inv, MadeInv
    <2> DEFINE from == SourcesOf[t]
    <2>1. t \in Files /\ t # f /\ DOMAIN from = 1..Len(from) /\ \A n \in DOMAIN from : from[n] \in Sources
      BY SourceFiles
    <2>2. \A n \in DOMAIN from : from[n] # f
      BY <1>2, <2>1 DEF OutOfDate
    <2>3. ~OutOfDate(t, from)
      BY <1>2, <2>1, <2>2 DEF OutOfDate, Files
    <2>4. IsMerged(custom[t], t)
      BY <2>3 DEF Inv, MadeInv
    <2>5. \A s \in ToSet(from) : source'[s] = source[s]
      BY <1>3, <2>1, <2>2 DEF ToSet
    <2> QED
      BY <2>4, <2>5, MergedStays
  <1>7. DataInv'
    <2>1. \A n \in DOMAIN CustomRoles : CustomRoles[n] \in Files \ {f}
      BY FileAssumption, RoleIsTarget, SourceFiles DEF Inv, TypeOK
    <2>2. Data \in Files \ {f}
      BY FileAssumption DEF Files
    <2>3. OutOfDate(Data, CustomRoles)' = OutOfDate(Data, CustomRoles)
      BY <1>2, <2>1, <2>2 DEF OutOfDate
    <2> QED
      BY <2>3 DEF Inv, DataInv, DataOutOfDate
  <1>8. DoneInv'
    BY DEF Inv, DoneInv
  <1> QED
    BY <1>4, <1>5, <1>6, <1>7, <1>8 DEF Inv

LEMMA EditFlagsKeeps ==
    ASSUME Inv, NEW t \in Targets, NEW fl \in FlagChoices, EditFlags(t, fl)
    PROVE  Inv'
  <1> USE DEF EditFlags, work, made
  <1>1. /\ DOMAIN flags' = Targets /\ flags'[t] = fl
        /\ \A r \in Targets \ {t} : flags'[r] = flags[r]
    BY DEF Inv, Shaped
  <1>2. TypeOK'
    <2>1. edits' \in 0..MaxEdits
      BY BoundAssumption DEF Inv, TypeOK
    <2>2. \A r \in Targets : flags'[r] \in FlagChoices \union {Arguments[r]}
      BY <1>1 DEF Inv, TypeOK
    <2> QED
      BY <2>1, <2>2 DEF Inv, TypeOK, Role
  <1>3. Shaped'
    BY <1>1 DEF Inv, Shaped
  <1>4. MadeInv'
    <2> SUFFICES ASSUME NEW r \in Targets \ behind', custom[r] # Absent,
                        ~OutOfDate(r, SourcesOf[r])'
                 PROVE  IsMerged(custom[r], r)'
      BY DEF Inv, MadeInv
    <2>1. r \in Targets \ behind /\ r # t
      OBVIOUS
    <2>2. IsMerged(custom[r], r)
      BY <2>1 DEF Inv, MadeInv, OutOfDate
    <2> QED
      BY <1>1, <2>1, <2>2, MergedStays
  <1>5. DataInv' /\ DoneInv'
    BY SourceFiles DEF Inv, DataInv, DataOutOfDate, DoneInv, OutOfDate
  <1> QED
    BY <1>2, <1>3, <1>4, <1>5 DEF Inv

LEMMA CleanKeeps ==
    ASSUME Inv, Clean
    PROVE  Inv'
  <1> USE DEF Clean, work
  <1>1. custom' = [t \in Targets |-> custom'[t]] /\ \A t \in Targets : custom'[t] = Absent
    OBVIOUS
  <1>2. TypeOK'
    <2>1. makes' \in 0..MaxMakes
      BY BoundAssumption DEF Inv, TypeOK
    <2> QED
      BY <1>1, <2>1 DEF Inv, TypeOK, Role
  <1>3. Shaped'
    BY <1>1 DEF Inv, Shaped
  <1>4. MadeInv'
    BY <1>1 DEF MadeInv, Absent, Torn
  <1>5. DataInv'
    BY <1>1 DEF Inv, DataInv, DataOutOfDate, OutOfDate
  <1>6. DoneInv'
    BY DEF Inv, DoneInv
  <1> QED
    BY <1>2, <1>3, <1>4, <1>5, <1>6 DEF Inv

(* ---------------------------------- make --------------------------------- *)
(* The custom role make is at and the files it is at stay in bounds, and all *)
(* it has passed are there, when the one it leaves is.                       *)
LEMMA NextRoleKeeps ==
    ASSUME Inv, NextRole, pc \in {"role", "merge"}, files' = 0, custom'[Role] # Absent,
           \A t \in Targets : custom[t] # Absent => custom'[t] # Absent
    PROVE  /\ pc' \in {"role", "data"} /\ at' \in DOMAIN CustomRoles
           /\ files' \in 0..Len(SourcesOf[Role'])
           /\ DoneInv'
  <1>1. /\ Role \in Targets /\ at \in 1..Len(CustomRoles) /\ Len(CustomRoles) \in Nat
        /\ DOMAIN CustomRoles = 1..Len(CustomRoles)
        /\ \A n \in 1..Len(CustomRoles) : CustomRoles[n] \in Targets
        /\ \A t \in Targets : \E n \in 1..Len(CustomRoles) : t = CustomRoles[n]
    BY RoleIsTarget DEF Inv, TypeOK
  <1>2. pc' \in {"role", "data"} /\ at' \in DOMAIN CustomRoles
    BY <1>1 DEF NextRole
  <1>3. files' \in 0..Len(SourcesOf[Role'])
    <2>1. Role' \in Targets
      BY <1>1, <1>2 DEF Role
    <2>2. Len(SourcesOf[Role']) \in Nat
      BY <2>1, SourceFiles
    <2> QED
      BY <2>2
  <1>4. \A n \in 1..at : custom'[CustomRoles[n]] # Absent
    <2> TAKE n \in 1..at
    <2>1. CASE n = at
      BY <2>1 DEF Role
    <2>2. CASE n # at
      <3>1. n \in 1..(at - 1) /\ CustomRoles[n] \in Targets
        BY <1>1, <2>2
      <3>2. custom[CustomRoles[n]] # Absent
        BY <3>1 DEF Inv, DoneInv
      <3> QED
        BY <3>1, <3>2
    <2> QED
      BY <2>1, <2>2
  <1>5. CASE at < Len(CustomRoles)
    <2>1. pc' = "role" /\ at' - 1 = at
      BY <1>1, <1>5 DEF NextRole
    <2>2. DoneInv'
      BY <1>4, <2>1 DEF DoneInv
    <2> QED
      BY <1>2, <1>3, <2>2
  <1>6. CASE ~(at < Len(CustomRoles))
    <2>a. pc' = "data"
      BY <1>6 DEF NextRole
    <2>b. at = Len(CustomRoles)
      <3> DEFINE last == Len(CustomRoles)
      <3>1. at \in 1..last /\ last \in Nat /\ ~(at < last)
        BY <1>1, <1>6
      <3> HIDE DEF last
      <3>2. at = last
        BY <3>1
      <3> QED
        BY <3>2 DEF last
    <2>1. pc' = "data" /\ at = Len(CustomRoles)
      BY <2>a, <2>b
    <2>2. \A t \in Targets : custom'[t] # Absent
      BY <1>1, <1>4, <2>1
    <2>3. DoneInv'
      BY <2>1, <2>2 DEF DoneInv
    <2> QED
      BY <1>2, <1>3, <2>3
  <1> QED
    BY <1>5, <1>6

LEMMA WriteKeeps ==
    ASSUME Inv, Write
    PROVE  Inv'
  <1> DEFINE new == new_role(read, flags[Role])
  <1>1. /\ pc = "merge" /\ custom' = [custom EXCEPT ![Role] = new] /\ Touched(Role)
        /\ behind' = IF read = ReadAll(Role) THEN behind \ {Role} ELSE behind \union {Role}
        /\ files' = 0 /\ NextRole
        /\ UNCHANGED <<source, flags, data, edits, makes>>
    BY DEF Write
  <1>2. Role \in Targets /\ Role \in Files
    BY RoleIsTarget, SourceFiles DEF Inv, TypeOK
  <1>3. new \notin {Absent, Torn} /\ DOMAIN new.lists = Fields
    BY NewRoleWhole
  <1>4. read = ReadAll(Role) => IsMerged(new, Role)
    BY <1>2, NewRoleMerged DEF Inv, TypeOK
  <1> HIDE DEF new
  <1> DEFINE r == Role
  <1>5. /\ custom' = [t \in Targets |-> custom'[t]] /\ custom'[r] = new
        /\ \A t \in Targets \ {r} : custom'[t] = custom[t]
    BY <1>1, <1>2 DEF Inv, Shaped
  <1>6. /\ clock' \in Nat /\ mtime' \in [Files -> 0..clock'] /\ clock \in Nat
        /\ \A y \in Files \ {r} : mtime'[y] = mtime[y] /\ mtime'[y] < mtime'[r]
    BY <1>1, <1>2, TouchedIsNewest DEF Inv, TypeOK, Shaped
  <1>7. /\ pc' \in {"role", "data"} /\ at' \in DOMAIN CustomRoles
        /\ files' \in 0..Len(SourcesOf[Role'])
        /\ DoneInv'
    BY <1>1, <1>3, <1>5, NextRoleKeeps
  <1> HIDE DEF r
  <1>8. TypeOK'
    <2>1. \A t \in Targets : custom'[t] \in {Absent, Torn} \/ DOMAIN custom'[t].lists = Fields
      BY <1>3, <1>5 DEF Inv, TypeOK
    <2>2. behind' \subseteq Targets \union {Data}
      BY <1>1, <1>2 DEF Inv, TypeOK
    <2>3. Role' = CustomRoles[at']
      BY DEF Role
    <2> QED
      BY <1>1, <1>6, <1>7, <2>1, <2>2 DEF Inv, TypeOK
  <1>9. Shaped'
    BY <1>1, <1>5, <1>6 DEF Inv, Shaped
  <1>10. MadeInv'
    <2> SUFFICES ASSUME NEW t \in Targets, t \notin behind'
                 PROVE  /\ custom'[t] # Torn
                        /\ custom'[t] # Absent /\ ~OutOfDate(t, SourcesOf[t])' => IsMerged(custom[t], t)'
      BY DEF MadeInv
    <2>1. CASE t = r
      <3>1. IsMerged(new, t)
        BY <1>1, <1>4, <2>1 DEF r
      <3>2. IsMerged(custom[t], t)'
        BY <1>1, <1>5, <2>1, <3>1 DEF IsMerged, Said
      <3> QED
        BY <1>3, <1>5, <2>1, <3>2
    <2>2. CASE t # r
      <3>1. t \in Targets \ behind /\ custom'[t] = custom[t]
        BY <1>1, <1>5, <2>2 DEF r
      <3>2. OutOfDate(t, SourcesOf[t])' = OutOfDate(t, SourcesOf[t])
        <4>1. /\ \A n \in DOMAIN SourcesOf[t] : SourcesOf[t][n] \in Files \ {r}
              /\ t \in Files \ {r}
          BY <1>2, <2>2, SourceFiles DEF Files, r
        <4> QED
          BY <1>6, <4>1 DEF OutOfDate
      <3>3. custom[t] # Torn /\ (custom[t] # Absent /\ ~OutOfDate(t, SourcesOf[t]) => IsMerged(custom[t], t))
        BY <3>1 DEF Inv, MadeInv
      <3>4. IsMerged(custom[t], t) => IsMerged(custom[t], t)'
        BY <1>1, <3>1, MergedStays
      <3> QED
        BY <3>1, <3>2, <3>3, <3>4
    <2> QED
      BY <2>1, <2>2
  <1>11. DataInv'
    <2>1. PICK n \in DOMAIN CustomRoles : CustomRoles[n] = r
      BY DEF Inv, TypeOK, r, Role
    <2>2. Data \in Files \ {r}
      BY <1>2, SourceFiles DEF Files, r
    <2>3. OutOfDate(Data, CustomRoles)'
      BY <1>6, <2>1, <2>2 DEF OutOfDate
    <2>4. Data \in behind' => Data \in behind
      BY <1>1, <2>2 DEF r
    <2> QED
      BY <1>1, <2>3, <2>4 DEF Inv, DataInv, DataOutOfDate
  <1> QED
    BY <1>7, <1>8, <1>9, <1>10, <1>11 DEF Inv

LEMMA WriteFailsKeeps ==
    ASSUME Inv, WriteFails
    PROVE  Inv'
  <1> DEFINE r == Role
  <1>1. PICK broken \in {Absent, Torn} :
        /\ custom' = [custom EXCEPT ![r] = broken]
        /\ behind' = IF broken = Torn THEN behind \union {r} ELSE behind
    <2>1. Absent # Torn
      BY DEF Absent, Torn
    <2> QED
      BY <2>1 DEF WriteFails
  <1>2. /\ pc' = "idle" /\ at' = 1 /\ files' = 0 /\ Touched(r)
        /\ UNCHANGED <<source, flags, data, edits, makes>>
    BY DEF WriteFails
  <1>3. r \in Targets /\ r \in Files
    BY RoleIsTarget, SourceFiles DEF Inv, TypeOK
  <1> HIDE DEF r
  <1>4. /\ custom' = [t \in Targets |-> custom'[t]] /\ custom'[r] = broken
        /\ \A t \in Targets \ {r} : custom'[t] = custom[t]
    BY <1>1, <1>3 DEF Inv, Shaped
  <1>5. /\ clock' \in Nat /\ mtime' \in [Files -> 0..clock'] /\ clock \in Nat
        /\ \A y \in Files \ {r} : mtime'[y] = mtime[y] /\ mtime'[y] < mtime'[r]
    BY <1>2, <1>3, TouchedIsNewest DEF Inv, TypeOK, Shaped
  <1>6. TypeOK'
    <2>1. at' \in DOMAIN CustomRoles
      BY <1>2, FileAssumption
    <2>2. files' \in 0..Len(SourcesOf[Role'])
      <3>1. Role' \in Targets
        BY <2>1, FileAssumption DEF Role, Targets, ToSet
      <3> QED
        BY <1>2, <3>1, SourceFiles
    <2>3. \A t \in Targets : custom'[t] \in {Absent, Torn} \/ DOMAIN custom'[t].lists = Fields
      BY <1>4 DEF Inv, TypeOK
    <2>4. behind' \subseteq Targets \union {Data}
      BY <1>1, <1>3 DEF Inv, TypeOK
    <2> QED
      BY <1>2, <1>5, <2>1, <2>2, <2>3, <2>4 DEF Inv, TypeOK
  <1>7. Shaped'
    BY <1>2, <1>4, <1>5 DEF Inv, Shaped
  <1>8. MadeInv'
    <2> SUFFICES ASSUME NEW t \in Targets, t \notin behind'
                 PROVE  /\ custom'[t] # Torn
                        /\ custom'[t] # Absent /\ ~OutOfDate(t, SourcesOf[t])' => IsMerged(custom[t], t)'
      BY DEF MadeInv
    <2>1. CASE t = r
      BY <1>1, <1>4, <2>1
    <2>2. CASE t # r
      <3>1. t \in Targets \ behind /\ custom'[t] = custom[t]
        BY <1>1, <1>4, <2>2
      <3>2. OutOfDate(t, SourcesOf[t])' = OutOfDate(t, SourcesOf[t])
        <4>1. /\ \A n \in DOMAIN SourcesOf[t] : SourcesOf[t][n] \in Files \ {r}
              /\ t \in Files \ {r}
          BY <1>3, <2>2, SourceFiles DEF Files
        <4> QED
          BY <1>5, <4>1 DEF OutOfDate
      <3>3. custom[t] # Torn /\ (custom[t] # Absent /\ ~OutOfDate(t, SourcesOf[t]) => IsMerged(custom[t], t))
        BY <3>1 DEF Inv, MadeInv
      <3>4. IsMerged(custom[t], t) => IsMerged(custom[t], t)'
        BY <1>2, <3>1, MergedStays
      <3> QED
        BY <3>1, <3>2, <3>3, <3>4
    <2> QED
      BY <2>1, <2>2
  <1>9. DataInv'
    <2>1. PICK n \in DOMAIN CustomRoles : CustomRoles[n] = r
      BY DEF Inv, TypeOK, r, Role
    <2>2. Data \in Files \ {r}
      BY <1>3, SourceFiles DEF Files
    <2>3. OutOfDate(Data, CustomRoles)'
      BY <1>5, <2>1, <2>2 DEF OutOfDate
    <2>4. Data \in behind' => Data \in behind
      BY <1>1, <2>2
    <2> QED
      BY <1>2, <2>3, <2>4 DEF Inv, DataInv, DataOutOfDate
  <1>10. DoneInv'
    BY <1>2 DEF DoneInv
  <1> QED
    BY <1>6, <1>7, <1>8, <1>9, <1>10 DEF Inv

(* The files the next merge reads are counted from none.                     *)
LEMMA FirstRole ==
    /\ 1 \in DOMAIN CustomRoles
    /\ \A n \in DOMAIN CustomRoles : 0 \in 0..Len(SourcesOf[CustomRoles[n]])
  <1>1. CustomRoles \in Seq(Targets) \ {<<>>}
    BY FileAssumption
  <1>2. \A n \in DOMAIN CustomRoles : CustomRoles[n] \in Targets
    BY <1>1
  <1> QED
    BY <1>1, <1>2, SourceFiles

(* What comes of roles_data.yaml does not touch the custom roles.            *)
LEMMA MadeStays ==
    ASSUME Inv, Touched(Data), UNCHANGED <<source, flags, custom>>, behind \ {Data} \subseteq behind'
    PROVE  MadeInv' /\ clock' \in Nat /\ mtime' \in [Files -> 0..clock']
  <1>1. Data \in Files
    BY DEF Files
  <1>2. /\ clock' \in Nat /\ mtime' \in [Files -> 0..clock']
        /\ \A y \in Files \ {Data} : mtime'[y] = mtime[y]
    BY <1>1, TouchedIsNewest DEF Inv, TypeOK, Shaped
  <1>3. ASSUME NEW t \in Targets \ behind'
        PROVE  /\ custom[t] # Torn
               /\ custom[t] # Absent /\ ~OutOfDate(t, SourcesOf[t])' => IsMerged(custom[t], t)'
    <2>1. /\ \A n \in DOMAIN SourcesOf[t] : SourcesOf[t][n] \in Files \ {Data}
          /\ t \in Files \ {Data}
      BY SourceFiles DEF Files
    <2>2. OutOfDate(t, SourcesOf[t])' = OutOfDate(t, SourcesOf[t])
      BY <1>2, <2>1 DEF OutOfDate
    <2>3. t \in Targets \ behind
      BY <2>1
    <2>4. /\ custom[t] # Torn
          /\ custom[t] # Absent /\ ~OutOfDate(t, SourcesOf[t]) => IsMerged(custom[t], t)
      BY <2>3 DEF Inv, MadeInv
    <2> QED
      BY <2>2, <2>4, MergedStays
  <1> QED
    BY <1>2, <1>3 DEF MadeInv

LEMMA GenerateKeeps ==
    ASSUME Inv, Generate
    PROVE  Inv'
  <1>1. /\ pc = "data" /\ \A t \in Targets : custom[t] # Torn
        /\ data' = custom /\ Touched(Data) /\ behind' = behind \ {Data} /\ pc' = "done"
        /\ UNCHANGED <<source, flags, custom, at, read, files, edits, makes>>
    BY DEF Generate
  <1>2. MadeInv' /\ clock' \in Nat /\ mtime' \in [Files -> 0..clock']
    BY <1>1, MadeStays
  <1>3. custom = [t \in Targets |-> custom[t]]
    BY DEF Inv, Shaped
  <1>4. TypeOK'
    <2>1. DOMAIN data' = Targets
      BY <1>1, <1>3
    <2> QED
      BY <1>1, <1>2, <2>1 DEF Inv, TypeOK, Role
  <1>5. Shaped'
    BY <1>1, <1>2 DEF Inv, Shaped
  <1>6. DataInv'
    BY <1>1, <1>3 DEF DataInv
  <1>7. DoneInv'
    BY <1>1 DEF Inv, DoneInv
  <1> QED
    BY <1>2, <1>4, <1>5, <1>6, <1>7 DEF Inv

LEMMA GenerateFailsKeeps ==
    ASSUME Inv, GenerateFails
    PROVE  Inv'
  <1>1. /\ \/ data' = Torn /\ behind' = behind \union {Data}
           \/ data' = Absent /\ behind' = behind \ {Data}
        /\ Touched(Data) /\ pc' = "idle" /\ at' = 1 /\ files' = 0
        /\ UNCHANGED <<source, flags, custom, edits, makes>>
    BY DEF GenerateFails
  <1>2. MadeInv' /\ clock' \in Nat /\ mtime' \in [Files -> 0..clock']
    BY <1>1, MadeStays
  <1>3. TypeOK'
    <2>1. at' \in DOMAIN CustomRoles /\ files' \in 0..Len(SourcesOf[Role'])
      BY <1>1, FirstRole DEF Role
    <2> QED
      BY <1>1, <1>2, <2>1 DEF Inv, TypeOK
  <1>4. Shaped'
    BY <1>1, <1>2 DEF Inv, Shaped
  <1>5. DataInv'
    BY <1>1 DEF DataInv, DataOutOfDate
  <1>6. DoneInv'
    BY <1>1 DEF DoneInv
  <1> QED
    BY <1>2, <1>3, <1>4, <1>5, <1>6 DEF Inv

(* Steps that leave all files as they are.                                   *)
LEMMA FilesStay ==
    ASSUME Inv, UNCHANGED <<source, flags, made, behind>>
    PROVE  MadeInv' /\ DataInv'
  <1>1. UNCHANGED <<source, flags, custom, data, mtime, behind>>
    BY DEF made
  <1>2. \A t \in Targets : OutOfDate(t, SourcesOf[t])' = OutOfDate(t, SourcesOf[t])
    BY <1>1 DEF OutOfDate
  <1>3. \A t \in Targets : IsMerged(custom[t], t) => IsMerged(custom[t], t)'
    BY <1>1, MergedStays
  <1>4. MadeInv'
    BY <1>1, <1>2, <1>3 DEF Inv, MadeInv
  <1>5. DataInv'
    BY <1>1 DEF Inv, DataInv, DataOutOfDate, OutOfDate
  <1> QED
    BY <1>4, <1>5

LEMMA MakeKeeps ==
    ASSUME Inv, Make
    PROVE  Inv'
  <1> USE DEF Make, made
  <1>1. TypeOK'
    <2>1. makes' \in 0..MaxMakes
      BY BoundAssumption DEF Inv, TypeOK
    <2>2. at' \in DOMAIN CustomRoles /\ files' \in 0..Len(SourcesOf[Role'])
      BY FirstRole DEF Inv, Shaped, Role
    <2> QED
      BY <2>1, <2>2 DEF Inv, TypeOK
  <1>2. Shaped'
    BY DEF Inv, Shaped
  <1>3. DoneInv'
    BY DEF DoneInv
  <1> QED
    BY <1>1, <1>2, <1>3, FilesStay DEF Inv

LEMMA StopKeeps ==
    ASSUME Inv, Stop
    PROVE  Inv'
  <1> USE DEF Stop, made
  <1>1. TypeOK'
    <2>1. at' \in DOMAIN CustomRoles /\ files' \in 0..Len(SourcesOf[Role'])
      BY FirstRole DEF Role
    <2> QED
      BY <2>1 DEF Inv, TypeOK
  <1>2. Shaped'
    BY DEF Inv, Shaped
  <1>3. DoneInv'
    BY DEF DoneInv
  <1> QED
    BY <1>1, <1>2, <1>3, FilesStay DEF Inv

LEMMA EndKeeps ==
    ASSUME Inv, End
    PROVE  Inv'
  <1> USE DEF End, made
  <1>1. TypeOK'
    <2>1. at' \in DOMAIN CustomRoles /\ files' \in 0..Len(SourcesOf[Role'])
      BY FirstRole DEF Inv, Shaped, Role
    <2> QED
      BY <2>1 DEF Inv, TypeOK
  <1>2. Shaped'
    BY DEF Inv, Shaped
  <1>3. DoneInv'
    BY DEF DoneInv
  <1> QED
    BY <1>1, <1>2, <1>3, FilesStay DEF Inv

LEMMA UpToDateKeeps ==
    ASSUME Inv, UpToDate
    PROVE  Inv'
  <1> USE DEF UpToDate, made
  <1>1. /\ pc' \in {"role", "data"} /\ at' \in DOMAIN CustomRoles
        /\ files' \in 0..Len(SourcesOf[Role'])
        /\ DoneInv'
    <2>1. files' = 0
      BY DEF Inv, Shaped
    <2> QED
      BY <2>1, NextRoleKeeps
  <1>2. TypeOK'
    BY <1>1 DEF Inv, TypeOK
  <1>3. Shaped'
    BY DEF Inv, Shaped
  <1> QED
    BY <1>1, <1>2, <1>3, FilesStay DEF Inv

LEMMA MergeKeeps ==
    ASSUME Inv, Merge \/ ReadFile
    PROVE  Inv'
  <1>1. /\ pc \in {"role", "merge"} /\ pc' = "merge"
        /\ UNCHANGED <<source, flags, made, at, edits, makes, behind>>
    BY DEF Merge, ReadFile
  <1>2. files' \in 0..Len(SourcesOf[Role])
    <2> DEFINE n == Len(SourcesOf[Role])
    <2>1. n \in Nat /\ files \in 0..n
      BY RoleIsTarget, SourceFiles DEF Inv, TypeOK
    <2>2. files' = 0 \/ (files < n /\ files' = files + 1)
      BY DEF Merge, ReadFile
    <2> HIDE DEF n
    <2>3. files' \in 0..n
      BY <2>1, <2>2
    <2> QED
      BY <2>3 DEF n
  <1>3. TypeOK'
    BY <1>1, <1>2 DEF Inv, TypeOK, Role, made
  <1>4. Shaped'
    BY <1>1 DEF Inv, Shaped, made
  <1>5. DoneInv'
    BY <1>1 DEF Inv, DoneInv, made
  <1> QED
    BY <1>1, <1>3, <1>4, <1>5, FilesStay DEF Inv

LEMMA GeneratedKeeps ==
    ASSUME Inv, Generated
    PROVE  Inv'
  <1> USE DEF Generated, made
  <1>1. TypeOK'
    BY DEF Inv, TypeOK, Role
  <1>2. Shaped'
    BY DEF Inv, Shaped
  <1>3. DoneInv'
    <2>1. CASE Data \in behind
      BY <2>1 DEF Inv, DoneInv, DataInv
    <2>2. CASE Data \notin behind
      <3>1. data = [t \in Targets |-> data[t]] /\ \A t \in Targets : data[t] = custom[t]
        BY <2>2 DEF Inv, DoneInv, DataInv
      <3>2. data = custom
        BY <3>1 DEF Inv, Shaped
      <3> QED
        BY <2>2, <3>2 DEF Inv, DoneInv
    <2> QED
      BY <2>1, <2>2
  <1> QED
    BY <1>1, <1>2, <1>3, FilesStay DEF Inv

LEMMA InvNext == Inv /\ [Next]_vars => Inv'
  <1> SUFFICES ASSUME Inv, [Next]_vars
               PROVE  Inv'
    OBVIOUS
  <1>1. ASSUME NEW f \in Sources, NEW c \in Contents, EditSource(f, c)
        PROVE  Inv'
    BY <1>1, EditSourceKeeps
  <1>2. ASSUME NEW t \in Targets, NEW fl \in FlagChoices, EditFlags(t, fl)
        PROVE  Inv'
    BY <1>2, EditFlagsKeeps
  <1>3. CASE Make
    BY <1>3, MakeKeeps
  <1>4. CASE Clean
    BY <1>4, CleanKeeps
  <1>5. CASE UpToDate
    BY <1>5, UpToDateKeeps
  <1>6. CASE Merge \/ ReadFile
    BY <1>6, MergeKeeps
  <1>7. CASE Write
    BY <1>7, WriteKeeps
  <1>8. CASE WriteFails
    BY <1>8, WriteFailsKeeps
  <1>9. CASE Stop
    BY <1>9, StopKeeps
  <1>10. CASE Generate
    BY <1>10, GenerateKeeps
  <1>14. CASE GenerateFails
    BY <1>14, GenerateFailsKeeps
  <1>11. CASE Generated
    BY <1>11, GeneratedKeeps
  <1>12. CASE End
    BY <1>12, EndKeeps
  <1>13. CASE UNCHANGED vars
    <2>1. TypeOK' /\ Shaped' /\ DoneInv'
      BY <1>13 DEF Inv, TypeOK, Shaped, DoneInv, Role, vars, made, work
    <2>2. MadeInv' /\ DataInv'
      BY <1>13, FilesStay DEF vars
    <2> QED
      BY <2>1, <2>2 DEF Inv
  <1> QED
    BY <1>1, <1>2, <1>3, <1>4, <1>5, <1>6, <1>7, <1>8, <1>9, <1>10, <1>11, <1>12, <1>13, <1>14 DEF Next

LEMMA Invariance == Spec => []Inv
  <1> QED
    BY InvInit, InvNext, PTL DEF Spec
-----------------------------------------------------------------------------
(* Through edits, makes, failures and cleaning, the variables keep their     *)
(* types: make never goes past the last custom role, nor merge-roles.py past *)
(* the last of its sources.                                                  *)
THEOREM TypeCorrect == Spec => []TypeOK
  <1>1. Inv => TypeOK
    BY DEF Inv
  <1> QED
    BY <1>1, Invariance, PTL

(* When make ends well, roles_data.yaml has the custom roles there are, each *)
(* what merge-roles.py is to make of the role files and the arguments, but   *)
(* for a role file that make has not looked at since it changed and for what *)
(* modification times do not tell; a roles_data.yaml that a failing generate *)
(* left torn is one of the latter.                                           *)
THEOREM MergedUnlessBehind == Spec => []CurrentUnlessBehind
  <1>1. Inv => CurrentUnlessBehind
    <2> SUFFICES ASSUME Inv, pc = "done"
                 PROVE  /\ data = IF Data \in behind THEN Torn ELSE custom
                        /\ \A t \in Targets \ behind :
                              ~OutOfDate(t, SourcesOf[t]) => IsMerged(custom[t], t)
      BY DEF CurrentUnlessBehind
    <2>1. data = (IF Data \in behind THEN Torn ELSE custom) /\ \A t \in Targets : custom[t] # Absent
      BY DEF Inv, DoneInv
    <2> QED
      BY <2>1 DEF Inv, MadeInv
  <1> QED
    BY <1>1, Invariance, PTL
=============================================================================
