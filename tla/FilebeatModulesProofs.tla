----------------------- MODULE FilebeatModulesProofs -----------------------
(***************************************************************************)
(* Theorems about FilebeatModules for all inputs: what the operations of   *)
(* libbeat leave alone and what they bring to a place, what each step of a *)
(* script does to an event by that, and what is published by it.           *)
(***************************************************************************)
EXTENDS FilebeatModules, FiniteSetTheorems, SequenceTheorems, TLAPS

-----------------------------------------------------------------------------
(*                             Induction                                     *)

(* A set of numbers that has 0 and all successors has all numbers.  The last *)
(* number without it would make a finite set injective into itself and not   *)
(* onto.                                                                     *)
LEMMA SetInduction ==
    ASSUME NEW A, 0 \in A, \A n \in Nat : n \in A => n + 1 \in A
    PROVE  Nat \subseteq A
  <1> SUFFICES ASSUME NEW N \in Nat, N \notin A
               PROVE  FALSE
    OBVIOUS
  <1> DEFINE B == {n \in 0..N : n \in A}
             f == [n \in B |-> n + 1]
  <1>1. \A n \in B : n \in Nat /\ n + 1 \in B
    OBVIOUS
  <1>2. f \in Injection(B, B)
    BY <1>1 DEF Injection, IsInjective
  <1>3. IsFiniteSet(B)
    BY FS_Interval, FS_Subset, IsFiniteSet(0..N)
  <1>4. f \in Surjection(B, B)
    BY <1>2, <1>3, FS_Injection
  <1>5. PICK n \in B : f[n] = 0
    BY <1>4, 0 \in B DEF Surjection
  <1> QED
    BY <1>1, <1>5

-----------------------------------------------------------------------------
(*                               Paths                                       *)

(* A path is a prefix where it agrees name by name.                          *)
LEMMA PrefixAt ==
    ASSUME NEW p \in Names, NEW q \in Names
    PROVE  IsPrefix(p, q) <=> Len(p) <= Len(q) /\ \A i \in 1..Len(p) : p[i] = q[i]
  <1>1. CASE Len(p) <= Len(q)
    <2>1. SubSeq(p, 1, Len(p)) = p
      BY SubSeqFull DEF Names
    <2> DEFINE s == SubSeq(q, 1, Len(p))
    <2>2. s \in Names /\ Len(s) = Len(p) /\ \A i \in 1..Len(p) : s[i] = q[i]
      <3>1. \A i \in 1..Len(p) : q[i] \in STRING
        BY <1>1, ElementOfSeq DEF Names
      <3> QED
        BY <3>1, SubSeqProperties DEF Names
    <2> HIDE DEF s
    <2>3. p = s <=> \A i \in 1..Len(p) : p[i] = s[i]
      BY <2>2, SeqEqual DEF Names
    <2>4. IsPrefix(p, q) <=> p = s
      BY <1>1, <2>1 DEF IsPrefix, s
    <2> QED
      BY <1>1, <2>2, <2>3, <2>4
  <1>2. CASE ~(Len(p) <= Len(q))
    BY <1>2 DEF IsPrefix
  <1> QED
    BY <1>1, <1>2

LEMMA AboveAt ==
    ASSUME NEW p \in Names, NEW q
    PROVE  q \in Above(p) <=> q \in Names /\ Len(q) \in 1..(Len(p) - 1) /\ IsPrefix(q, p)
  <1>1. ASSUME NEW n \in 1..(Len(p) - 1)
        PROVE  LET s == SubSeq(p, 1, n)
               IN  s \in Names /\ Len(s) = n /\ \A i \in 1..n : s[i] = p[i]
    <2>1. \A i \in 1..n : p[i] \in STRING
      BY ElementOfSeq DEF Names
    <2> QED
      BY <2>1, SubSeqProperties DEF Names
  <1>2. q \in Above(p) => q \in Names /\ Len(q) \in 1..(Len(p) - 1) /\ IsPrefix(q, p)
    BY <1>1, PrefixAt DEF Above, Names
  <1>3. ASSUME q \in Names, Len(q) \in 1..(Len(p) - 1), IsPrefix(q, p)
        PROVE  q \in Above(p)
    <2> DEFINE s == SubSeq(p, 1, Len(q))
    <2>1. s \in Names /\ Len(s) = Len(q) /\ \A i \in 1..Len(q) : s[i] = p[i]
      BY <1>1, <1>3
    <2>2. s \in Above(p)
      BY <1>3 DEF Above
    <2> HIDE DEF s
    <2>3. q = s
      BY <1>3, <2>1, PrefixAt, SeqEqual DEF Names
    <2> QED
      BY <2>2, <2>3
  <1> QED
    BY <1>2, <1>3

LEMMA PrefixConcat ==
    ASSUME NEW p \in Names, NEW r \in Names
    PROVE  /\ p \o r \in Names /\ IsPrefix(p, p \o r)
           /\ SubSeq(p \o r, Len(p) + 1, Len(p \o r)) = r
  <1>1. /\ p \o r \in Names /\ Len(p \o r) = Len(p) + Len(r)
        /\ \A i \in 1..(Len(p) + Len(r)) :
              (p \o r)[i] = IF i <= Len(p) THEN p[i] ELSE r[i - Len(p)]
    BY ConcatProperties DEF Names
  <1>2. IsPrefix(p, p \o r)
    <2> DEFINE q == p \o r
    <2>1. q \in Names /\ Len(p) <= Len(q) /\ \A i \in 1..Len(p) : p[i] = q[i]
      BY <1>1 DEF Names
    <2> HIDE DEF q
    <2>2. IsPrefix(p, q)
      BY <2>1, PrefixAt
    <2> QED
      BY <2>2 DEF q
  <1> DEFINE q == p \o r
             s == SubSeq(q, Len(p) + 1, Len(q))
  <1>3. s \in Names /\ Len(s) = Len(r) /\ \A i \in 1..Len(r) : s[i] = r[i]
    <2> DEFINE m == Len(p) + 1
               n == Len(q)
    <2>0. m \in Int /\ n \in Int /\ n = Len(p) + Len(r) /\ Len(p) \in Nat /\ Len(r) \in Nat
      BY <1>1 DEF Names
    <2>1. \A i \in m..n : q[i] \in STRING
      BY <1>1, <2>0, ElementOfSeq DEF Names
    <2> HIDE DEF q
    <2>2. /\ SubSeq(q, m, n) \in Seq(STRING)
          /\ Len(SubSeq(q, m, n)) = IF m <= n THEN n - m + 1 ELSE 0
          /\ \A i \in 1..(n - m + 1) : SubSeq(q, m, n)[i] = q[m + i - 1]
      <3> HIDE DEF m, n
      <3> QED
        BY <2>0, <2>1, SubSeqProperties
    <2>3. n - m + 1 = Len(r)
      BY <2>0
    <2>4. \A i \in 1..Len(r) : q[m + i - 1] = r[i]
      BY <1>1, <2>0 DEF q
    <2> QED
      BY <2>0, <2>2, <2>3, <2>4 DEF Names
  <1> HIDE DEF s
  <1>4. s = r
    BY <1>3, SeqEqual DEF Names
  <1> QED
    BY <1>1, <1>2, <1>4 DEF s

(* What is below a path is the path and a rest.                              *)
LEMMA PrefixRest ==
    ASSUME NEW p \in Names, NEW q \in Names, IsPrefix(p, q)
    PROVE  \E r \in Names : q = p \o r
  <1> DEFINE r == SubSeq(q, Len(p) + 1, Len(q))
             s == SubSeq(q, 1, Len(p))
  <1>1. Len(p) \in Nat /\ Len(q) \in Nat /\ Len(p) <= Len(q)
    BY PrefixAt DEF Names
  <1>2. s \o r = q
    <2>1. SubSeq(q, 1, Len(q)) = q
      BY SubSeqFull DEF Names
    <2>2. 1 \in 1..(Len(q) + 1) /\ Len(p) \in 0..Len(q) /\ Len(q) \in Len(p)..Len(q)
      BY <1>1
    <2> QED
      BY <2>1, <2>2, ConcatAdjacentSubSeq, 1 - 1 = 0, Zenon DEF Names
  <1>3. s = p
    BY SubSeqFull DEF IsPrefix, Names
  <1>4. r \in Names
    <2>1. \A i \in (Len(p) + 1)..Len(q) : q[i] \in STRING
      BY <1>1, ElementOfSeq DEF Names
    <2> QED
      BY <1>1, <2>1, SubSeqProperties DEF Names
  <1> QED
    BY <1>2, <1>3, <1>4, Zenon

LEMMA PrefixTransitive ==
    ASSUME NEW p \in Names, NEW q \in Names, NEW s \in Names, IsPrefix(p, q), IsPrefix(q, s)
    PROVE  IsPrefix(p, s)
  BY PrefixAt DEF Names

LEMMA AboveTransitive ==
    ASSUME NEW p \in Names, NEW q \in Above(p), NEW s \in Above(q)
    PROVE  s \in Above(p)
  BY AboveAt, PrefixTransitive DEF Names

LEMMA ConcatCancel ==
    ASSUME NEW p \in Names, NEW r \in Names, NEW s \in Names, p \o r = p \o s
    PROVE  r = s
  <1>1. r = SubSeq(p \o r, Len(p) + 1, Len(p \o r)) /\ s = SubSeq(p \o s, Len(p) + 1, Len(p \o s))
    BY PrefixConcat
  <1> QED
    BY <1>1

(* What is above a place below p is above p, or p, or between the two.       *)
LEMMA AboveConcat ==
    ASSUME NEW p \in Paths, NEW r \in Names, NEW q \in Above(p \o r)
    PROVE  q \in Above(p) \/ \E s \in Names : q = p \o s /\ (s = << >> \/ s \in Above(r)) /\ r # << >>
  <1> DEFINE u == p \o r
  <1>1. /\ u \in Names /\ Len(u) = Len(p) + Len(r)
        /\ \A i \in 1..(Len(p) + Len(r)) :
              u[i] = IF i <= Len(p) THEN p[i] ELSE r[i - Len(p)]
    BY ConcatProperties DEF Names, Paths
  <1>2. q \in Names /\ Len(q) \in 1..(Len(u) - 1) /\ IsPrefix(q, u)
    BY <1>1, AboveAt
  <1> HIDE DEF u
  <1>3. CASE Len(q) < Len(p)
    BY <1>1, <1>2, <1>3, PrefixAt, AboveAt DEF Names, Paths
  <1>4. CASE ~(Len(q) < Len(p))
    <2>0. Len(p) <= Len(q) /\ Len(q) <= Len(u) /\ \A i \in 1..Len(q) : q[i] = u[i]
      BY <1>1, <1>2, <1>4, PrefixAt DEF Names, Paths
    <2>1. IsPrefix(p, q)
      <3>1. \A i \in 1..Len(p) : p[i] = q[i]
        <4> TAKE i \in 1..Len(p)
        <4>1. i \in 1..Len(q) /\ i \in 1..(Len(p) + Len(r)) /\ i <= Len(p)
          BY <1>2, <2>0 DEF Names, Paths
        <4> QED
          BY <1>1, <2>0, <4>1
      <3> QED
        BY <1>2, <2>0, <3>1, PrefixAt DEF Paths
    <2>2. PICK s \in Names : q = p \o s
      BY <1>2, <2>1, PrefixRest DEF Paths
    <2>3. /\ Len(q) = Len(p) + Len(s)
          /\ \A i \in 1..(Len(p) + Len(s)) :
                q[i] = IF i <= Len(p) THEN p[i] ELSE s[i - Len(p)]
      BY <2>2, ConcatProperties DEF Names, Paths
    <2>4. Len(s) \in 0..(Len(r) - 1)
      BY <1>1, <1>2, <2>3 DEF Names, Paths
    <2>5. \A i \in 1..Len(s) : s[i] = r[i]
      <3> TAKE i \in 1..Len(s)
      <3> DEFINE j == Len(p) + i
      <3>1. /\ j \in 1..Len(q) /\ j \in 1..(Len(p) + Len(r)) /\ j \in 1..(Len(p) + Len(s))
            /\ ~(j <= Len(p)) /\ j - Len(p) = i
        BY <1>1, <1>2, <2>3, <2>4 DEF Names, Paths
      <3>2. q[j] = u[j]
        BY <1>1, <1>2, <3>1, PrefixAt
      <3> HIDE DEF j
      <3> QED
        BY <1>1, <2>3, <3>1, <3>2
    <2>6. IsPrefix(s, r)
      BY <2>4, <2>5, PrefixAt DEF Names
    <2>7. s = << >> \/ s \in Above(r)
      BY <2>4, <2>6, AboveAt, EmptySeq DEF Names
    <2> QED
      BY <2>2, <2>4, <2>7 DEF Names
  <1> QED
    BY <1>3, <1>4

(* Two paths part where they name different fields.                          *)
Apart(p, q) == \E i \in DOMAIN p \cap DOMAIN q : p[i] # q[i]

LEMMA ApartSymmetric ==
    ASSUME NEW p, NEW q, Apart(p, q)
    PROVE  Apart(q, p)
  BY DEF Apart

(* Of two paths that part, and of what is below them, none is above the      *)
(* other.                                                                    *)
LEMMA ApartNotPrefix ==
    ASSUME NEW p \in Names, NEW q \in Names, Apart(p, q)
    PROVE  ~IsPrefix(p, q) /\ q \notin Above(p)
  <1>1. PICK i \in DOMAIN p \cap DOMAIN q : p[i] # q[i]
    BY DEF Apart
  <1>2. i \in 1..Len(p) /\ i \in 1..Len(q)
    BY <1>1 DEF Names
  <1> QED
    BY <1>1, <1>2, PrefixAt, AboveAt

LEMMA ApartBelow ==
    ASSUME NEW p \in Names, NEW q \in Names, NEW r \in Names, Apart(p, q)
    PROVE  Apart(p, q \o r) /\ Apart(q \o r, p)
  <1> DEFINE u == q \o r
  <1>1. u \in Names /\ Len(u) = Len(q) + Len(r)
        /\ \A i \in 1..(Len(q) + Len(r)) : u[i] = IF i <= Len(q) THEN q[i] ELSE r[i - Len(q)]
    BY ConcatProperties DEF Names
  <1> HIDE DEF u
  <1>2. PICK i \in DOMAIN p \cap DOMAIN q : p[i] # q[i]
    BY DEF Apart
  <1>3. i \in DOMAIN u /\ u[i] = q[i]
    BY <1>1, <1>2 DEF Names
  <1>4. Apart(p, u) /\ Apart(u, p)
    BY <1>2, <1>3 DEF Apart
  <1> QED
    BY <1>4 DEF u

(* Fields under different first names part at once.                          *)
LEMMA FirstApart ==
    ASSUME NEW p \in Paths, NEW q \in Paths, p[1] # q[1]
    PROVE  Apart(p, q)
  BY EmptySeq DEF Paths, Names, Apart

-----------------------------------------------------------------------------
(*                               Events                                      *)

LEMMA LeafIsTree ==
    ASSUME NEW v
    PROVE  IsTree([r \in {<< >>} |-> v])
  <1> DEFINE p0 == << >>
  <1>1. Len(p0) = 0 /\ p0 \in Names
    BY EmptySeq DEF Names
  <1> HIDE DEF p0
  <1>2. \A s : s \in Above(p0) => Len(s) \in 1..(Len(p0) - 1)
    BY <1>1, AboveAt
  <1>3. \A s : s \notin Above(p0)
    BY <1>1, <1>2
  <1> QED
    BY <1>1, <1>3 DEF IsTree, p0

(* At and below the place of a graft is the tree, and nothing else.          *)
LEMMA GraftAt ==
    ASSUME NEW e, NEW p \in Paths, NEW t, IsTree(t), NEW r \in Names
    PROVE  /\ Has(Graft(e, p, t), p \o r) <=> r \in DOMAIN t
           /\ r \in DOMAIN t => Graft(e, p, t)[p \o r] = t[r]
  <1> DEFINE q == p \o r
             grafted == {p \o s : s \in DOMAIN t}
  <1>1. p \in Names /\ DOMAIN t \subseteq Names
    BY DEF Paths, IsTree
  <1>2. q \in Names /\ IsPrefix(p, q) /\ SubSeq(q, Len(p) + 1, Len(q)) = r
    BY <1>1, PrefixConcat
  <1>3. q \notin Above(p)
    BY <1>1, <1>2, AboveAt, PrefixAt DEF Names
  <1>4. q \notin DOMAIN Delete(e, p)
    BY <1>2 DEF Delete, Below
  <1>5. q \in grafted <=> r \in DOMAIN t
    BY <1>1, ConcatCancel
  <1>6. q \in grafted => Graft(e, p, t)[q] = t[SubSeq(q, Len(p) + 1, Len(q))]
    BY DEF Graft
  <1>7. q \in DOMAIN Graft(e, p, t) <=> q \in grafted
    BY <1>3, <1>4 DEF Graft
  <1> QED
    BY <1>2, <1>5, <1>6, <1>7 DEF Has

(* Beside it nothing changes; the objects above it are made.                 *)
LEMMA GraftElsewhere ==
    ASSUME NEW e, NEW p \in Paths, NEW t, IsTree(t), NEW q \in Names, ~IsPrefix(p, q)
    PROVE  /\ q \in Above(p) => Has(Graft(e, p, t), q) /\ Graft(e, p, t)[q] = Obj
           /\ q \notin Above(p) => /\ Has(Graft(e, p, t), q) <=> Has(e, q)
                                   /\ Get(Graft(e, p, t), q) = Get(e, q)
  <1> DEFINE grafted == {p \o s : s \in DOMAIN t}
             g == Graft(e, p, t)
  <1>1. p \in Names /\ DOMAIN t \subseteq Names
    BY DEF Paths, IsTree
  <1>2. q \notin grafted
    BY <1>1, PrefixConcat
  <1>3. q \in DOMAIN Delete(e, p) <=> q \in DOMAIN e
    BY DEF Delete, Below
  <1>4. q \in DOMAIN g <=> q \in Above(p) \/ q \in DOMAIN e
    BY <1>2, <1>3 DEF Graft
  <1>5. q \in DOMAIN g => g[q] = IF q \in Above(p) THEN Obj ELSE e[q]
    BY <1>2 DEF Graft
  <1> QED
    BY <1>4, <1>5 DEF Has, Get

(* With the objects above it made, an event stays a tree of objects.         *)
LEMMA GraftIsEvent ==
    ASSUME NEW e, IsEvent(e), NEW p \in Paths, NEW t, IsTree(t)
    PROVE  IsEvent(Graft(e, p, t))
  <1> DEFINE grafted == {p \o s : s \in DOMAIN t}
             g == Graft(e, p, t)
  <1>1. p \in Names /\ p # << >> /\ DOMAIN t \subseteq Names
    BY DEF Paths, IsTree
  <1> SUFFICES ASSUME NEW q \in DOMAIN g
               PROVE  q \in Paths /\ \A s \in Above(q) : s \in DOMAIN g /\ g[s] = Obj
    BY DEF IsEvent
  <1>2. \A s \in Above(p) : s \in Paths /\ ~IsPrefix(p, s) /\ s \in DOMAIN g /\ g[s] = Obj
    <2> TAKE s \in Above(p)
    <2>1. s \in Names /\ Len(s) \in 1..(Len(p) - 1)
      BY <1>1, AboveAt
    <2>2. s # << >> /\ ~IsPrefix(p, s)
      BY <1>1, <2>1, PrefixAt DEF Names
    <2> QED
      BY <2>1, <2>2, GraftElsewhere DEF Paths, Has
  <1>3. CASE q \in grafted
    <2>1. PICK r \in DOMAIN t : q = p \o r
      BY <1>3
    <2>2. r \in Names
      BY <1>1
    <2>3. q \in Paths
      BY <1>1, <2>1, <2>2, PrefixConcat, ConcatProperties DEF Names, Paths
    <2>4. ASSUME NEW s \in Above(q), s \notin Above(p)
          PROVE  s \in DOMAIN g /\ g[s] = Obj
      <3>1. PICK u \in Names : s = p \o u /\ (u = << >> \/ u \in Above(r)) /\ r # << >>
        BY <2>1, <2>2, <2>4, AboveConcat
      <3>2. u \in DOMAIN t /\ t[u] = Obj
        BY <2>1, <3>1 DEF IsTree
      <3> QED
        BY <3>1, <3>2, GraftAt DEF Has
    <2> QED
      BY <1>2, <2>3, <2>4
  <1>4. CASE q \in Above(p)
    BY <1>1, <1>2, <1>4, AboveTransitive
  <1>5. CASE q \notin grafted /\ q \notin Above(p)
    <2>1. q \in DOMAIN e /\ ~IsPrefix(p, q)
      BY <1>5 DEF Graft, Delete, Below
    <2>2. q \in Paths /\ \A s \in Above(q) : s \in DOMAIN e /\ e[s] = Obj
      BY <2>1 DEF IsEvent
    <2>3. ASSUME NEW s \in Above(q), s \notin Above(p)
          PROVE  s \in DOMAIN g /\ g[s] = Obj
      BY <2>2, AboveAt, <1>1, <2>1, PrefixTransitive, <2>3, GraftElsewhere DEF Paths, Has, Get
    <2> QED
      BY <1>2, <2>2, <2>3
  <1> QED
    BY <1>3, <1>4, <1>5

(* A delete takes what is at and below its path and leaves the rest.         *)
LEMMA DeleteAt ==
    ASSUME NEW e, NEW p, NEW q
    PROVE  /\ IsPrefix(p, q) => ~Has(Delete(e, p), q) /\ Get(Delete(e, p), q) = Null
           /\ ~IsPrefix(p, q) => /\ Has(Delete(e, p), q) <=> Has(e, q)
                                 /\ Get(Delete(e, p), q) = Get(e, q)
  BY DEF Delete, Below, Has, Get

LEMMA DeleteAllAt ==
    ASSUME NEW e, NEW D, NEW q
    PROVE  /\ (\E p \in D : IsPrefix(p, q)) => ~Has(DeleteAll(e, D), q)
           /\ (\A p \in D : ~IsPrefix(p, q)) => /\ Has(DeleteAll(e, D), q) <=> Has(e, q)
                                                /\ Get(DeleteAll(e, D), q) = Get(e, q)
  BY DEF DeleteAll, Below, Has, Get

LEMMA DeleteAllIsEvent ==
    ASSUME NEW e, IsEvent(e), NEW D, D \subseteq Names
    PROVE  IsEvent(DeleteAll(e, D))
  <1> DEFINE f == DeleteAll(e, D)
  <1> SUFFICES ASSUME NEW q \in DOMAIN f
               PROVE  q \in Paths /\ \A s \in Above(q) : s \in DOMAIN f /\ f[s] = Obj
    BY DEF IsEvent
  <1>1. q \in DOMAIN e /\ \A p \in D : ~IsPrefix(p, q)
    BY DEF DeleteAll, Below
  <1>2. q \in Paths /\ \A s \in Above(q) : s \in DOMAIN e /\ e[s] = Obj
    BY <1>1 DEF IsEvent
  <1>3. ASSUME NEW s \in Above(q)
        PROVE  s \in DOMAIN f /\ f[s] = Obj
    BY <1>2, AboveAt, <1>1, PrefixTransitive DEF Paths, DeleteAll, Below
  <1> QED
    BY <1>2, <1>3

LEMMA DeleteIsEvent ==
    ASSUME NEW e, IsEvent(e), NEW p \in Names
    PROVE  IsEvent(Delete(e, p))
  <1>1. DeleteAll(e, {p}) = Delete(e, p)
    BY DEF DeleteAll, Delete
  <1> QED
    BY <1>1, DeleteAllIsEvent

(* What is in the tree at p is at and below p.                               *)
LEMMA TreeShows ==
    ASSUME NEW e, DOMAIN e \subseteq Names, NEW p \in Names, NEW r \in DOMAIN Tree(e, p)
    PROVE  r \in Names /\ Has(e, p \o r) /\ Tree(e, p)[r] = e[p \o r]
  <1>1. PICK q \in Below(e, p) : r = SubSeq(q, Len(p) + 1, Len(q))
    BY DEF Tree
  <1>2. q \in DOMAIN e /\ q \in Names /\ IsPrefix(p, q)
    BY <1>1 DEF Below
  <1>3. PICK s \in Names : q = p \o s
    BY <1>2, PrefixRest
  <1>4. r = s
    BY <1>1, <1>3, PrefixConcat
  <1> QED
    BY <1>2, <1>3, <1>4 DEF Has, Tree

(* The tree at p is what the event has at and below p.                       *)
LEMMA TreeAt ==
    ASSUME NEW e, IsEvent(e), NEW p \in Paths
    PROVE  /\ IsTree(Tree(e, p))
           /\ << >> \in DOMAIN Tree(e, p) <=> Has(e, p)
           /\ \A r \in Names : /\ r \in DOMAIN Tree(e, p) <=> Has(e, p \o r)
                               /\ r \in DOMAIN Tree(e, p) => Tree(e, p)[r] = e[p \o r]
  <1> DEFINE t == Tree(e, p)
  <1>1. p \in Names
    BY DEF Paths
  <1>2. \A r \in Names : Has(e, p \o r) => r \in DOMAIN t
    <2> TAKE r \in Names
    <2> HAVE Has(e, p \o r)
    <2> DEFINE q == p \o r
    <2>1. q \in Below(e, p) /\ SubSeq(q, Len(p) + 1, Len(q)) = r
      BY <1>1, PrefixConcat DEF Below, Has
    <2> HIDE DEF q
    <2> QED
      BY <2>1 DEF Tree
  <1>3. \A r \in DOMAIN t : r \in Names /\ Has(e, p \o r) /\ t[r] = e[p \o r]
    BY <1>1, TreeShows DEF IsEvent, Paths
  <1>4. p \o << >> = p
    BY <1>1, ConcatEmptySeq DEF Names
  <1>5. IsTree(t)
    <2> SUFFICES ASSUME NEW r \in DOMAIN t
                 PROVE  /\ \A q \in Above(r) : q \in DOMAIN t /\ t[q] = Obj
                        /\ r # << >> => << >> \in DOMAIN t /\ t[<< >>] = Obj
      BY <1>3 DEF IsTree
    <2> DEFINE q == p \o r
    <2>1. r \in Names /\ q \in DOMAIN e
      BY <1>3 DEF Has
    <2>2. \A s \in Above(q) : s \in DOMAIN e /\ e[s] = Obj
      BY <2>1 DEF IsEvent
    <2>3. \A s \in Names : (s = << >> /\ r # << >>) \/ s \in Above(r) => p \o s \in Above(q)
      <3> TAKE s \in Names
      <3> HAVE (s = << >> /\ r # << >>) \/ s \in Above(r)
      <3> DEFINE u == p \o s
      <3>1. Len(s) \in 0..(Len(r) - 1) /\ \A i \in 1..Len(s) : s[i] = r[i]
        BY <2>1, AboveAt, PrefixAt, EmptySeq DEF Names
      <3>2. /\ u \in Names /\ Len(u) = Len(p) + Len(s)
            /\ \A i \in 1..(Len(p) + Len(s)) : u[i] = IF i <= Len(p) THEN p[i] ELSE s[i - Len(p)]
        BY <1>1, ConcatProperties DEF Names
      <3>3. /\ q \in Names /\ Len(q) = Len(p) + Len(r)
            /\ \A i \in 1..(Len(p) + Len(r)) : q[i] = IF i <= Len(p) THEN p[i] ELSE r[i - Len(p)]
        BY <1>1, <2>1, ConcatProperties DEF Names
      <3> HIDE DEF u, q
      <3>4. Len(p) \in Nat /\ Len(p) > 0 /\ Len(r) \in Nat
        BY <1>1, <2>1, EmptySeq DEF Paths, Names
      <3>5. ASSUME NEW i \in 1..Len(u)
            PROVE  u[i] = q[i]
        <4>1. CASE i <= Len(p)
          BY <3>1, <3>2, <3>3, <3>4, <4>1
        <4>2. CASE ~(i <= Len(p))
          BY <3>1, <3>2, <3>4, <4>2, <3>3
        <4> QED
          BY <4>1, <4>2
      <3>6. IsPrefix(u, q)
        BY <3>1, <3>2, <3>3, <3>4, <3>5, PrefixAt
      <3>7. u \in Above(q)
        BY <3>1, <3>2, <3>3, <3>4, <3>6, AboveAt
      <3> QED
        BY <3>7 DEF u
    <2>4. << >> \in Names /\ \A s \in Above(r) : s \in Names
      BY <2>1, AboveAt, EmptySeq DEF Names
    <2> HIDE DEF q, t
    <2>5. \A s \in Names : (s = << >> /\ r # << >>) \/ s \in Above(r) => s \in DOMAIN t /\ t[s] = Obj
      BY <1>2, <1>3, <2>2, <2>3 DEF Has
    <2> QED
      BY <2>4, <2>5
  <1>6. << >> \in Names
    BY EmptySeq DEF Names
  <1> QED
    BY <1>2, <1>3, <1>4, <1>5, <1>6

(* f is e but for what is at, below or above the paths in W.                 *)
Confined(W, e, f) ==
    \A q \in Paths : (\A w \in W : Apart(w, q)) => /\ Has(f, q) <=> Has(e, q)
                                                   /\ Get(f, q) = Get(e, q)

LEMMA ConfinedTransitive ==
    ASSUME NEW W, NEW e, NEW f, NEW g, Confined(W, e, f), Confined(W, f, g)
    PROVE  Confined(W, e, g)
  BY DEF Confined

LEMMA ConfinedMore ==
    ASSUME NEW W, NEW V, W \subseteq V, NEW e, NEW f, Confined(W, e, f)
    PROVE  Confined(V, e, f)
  BY DEF Confined

(* A graft and a delete are confined to their path.                          *)
LEMMA GraftConfined ==
    ASSUME NEW e, NEW p \in Paths, NEW t, IsTree(t)
    PROVE  Confined({p}, e, Graft(e, p, t))
  BY GraftElsewhere, ApartNotPrefix DEF Confined, Paths

LEMMA DeleteConfined ==
    ASSUME NEW e, NEW p \in Names
    PROVE  Confined({p}, e, Delete(e, p))
  BY DeleteAt, ApartNotPrefix DEF Confined, Paths

(* A value that is put has nothing below it.                                 *)
LEMMA PutAt ==
    ASSUME NEW e, NEW p \in Paths, NEW v
    PROVE  /\ IsEvent(e) => IsEvent(Put(e, p, v))
           /\ Confined({p}, e, Put(e, p, v))
           /\ Has(Put(e, p, v), p) /\ Get(Put(e, p, v), p) = v /\ Put(e, p, v)[p] = v
           /\ \A q \in Above(p) : Has(Put(e, p, v), q) /\ Put(e, p, v)[q] = Obj
           /\ \A q \in Names : IsPrefix(p, q) /\ Has(Put(e, p, v), q) => q = p
  <1> DEFINE t == [r \in {<< >>} |-> v]
  <1>1. << >> \in Names /\ p \in Names /\ p \o << >> = p
    BY EmptySeq, ConcatEmptySeq DEF Paths, Names
  <1>2. IsTree(t)
    BY LeafIsTree
  <1>3. Put(e, p, v) = Graft(e, p, t)
    BY DEF Put
  <1>4. DOMAIN t = {<< >>} /\ t[<< >>] = v
    OBVIOUS
  <1> HIDE DEF t
  <1>5. Has(Put(e, p, v), p) /\ Put(e, p, v)[p] = v
    <2> DEFINE r == << >>
    <2>1. r \in Names /\ p \o r = p /\ r \in DOMAIN t /\ t[r] = v
      BY <1>1, <1>4
    <2> HIDE DEF r
    <2>2. /\ Has(Graft(e, p, t), p \o r) <=> r \in DOMAIN t
          /\ r \in DOMAIN t => Graft(e, p, t)[p \o r] = t[r]
      <3>1. r \in Names
        BY <2>1
      <3> QED
        BY <1>2, <3>1, GraftAt
    <2> QED
      BY <1>3, <2>1, <2>2
  <1>6. \A q \in Above(p) : Has(Put(e, p, v), q) /\ Put(e, p, v)[q] = Obj
    <2> TAKE q \in Above(p)
    <2>1. q \in Names /\ ~IsPrefix(p, q)
      BY <1>1, AboveAt, PrefixAt DEF Names
    <2> QED
      BY <1>2, <1>3, <2>1, GraftElsewhere
  <1>7. ASSUME NEW q \in Names, IsPrefix(p, q), Has(Put(e, p, v), q)
        PROVE  q = p
    <2>1. PICK r \in Names : q = p \o r
      BY <1>1, <1>7, PrefixRest
    <2> QED
      BY <1>1, <1>2, <1>3, <1>4, <1>7, <2>1, GraftAt
  <1> QED
    BY <1>2, <1>3, <1>5, <1>6, <1>7, GraftIsEvent, GraftConfined DEF Get

LEMMA PutAlone ==
    ASSUME NEW e, NEW p \in Paths, NEW v, NEW q \in Names, IsPrefix(p, q), Has(Put(e, p, v), q)
    PROVE  q = p
  BY PutAt

(* It is what it was put to be.                                              *)
LEMMA PutThere ==
    ASSUME NEW e, NEW p \in Paths, NEW v
    PROVE  Has(Put(e, p, v), p) /\ Get(Put(e, p, v), p) = v
  BY PutAt

(* A copy shows below its target what is below its source, from where it is  *)
(* not taken.                                                                *)
LEMMA CopyAt ==
    ASSUME NEW e, IsEvent(e), NEW from \in Paths, NEW to \in Paths
    PROVE  /\ IsEvent(Copy(e, from, to))
           /\ Confined({to}, e, Copy(e, from, to))
           /\ \A r \in Names : /\ Has(Copy(e, from, to), to \o r) <=> Has(e, from \o r)
                               /\ Get(Copy(e, from, to), to \o r) = Get(e, from \o r)
           /\ \A q \in Above(to) : Has(Copy(e, from, to), q)
  <1> DEFINE t == Tree(e, from)
  <1>1. IsTree(t) /\ \A r \in Names : /\ r \in DOMAIN t <=> Has(e, from \o r)
                                      /\ r \in DOMAIN t => t[r] = e[from \o r]
    BY TreeAt
  <1>2. Copy(e, from, to) = Graft(e, to, t)
    BY DEF Copy
  <1> HIDE DEF t
  <1>3. \A q \in Above(to) : Has(Copy(e, from, to), q)
    <2> TAKE q \in Above(to)
    <2>1. q \in Names /\ ~IsPrefix(to, q)
      BY AboveAt, PrefixAt DEF Names, Paths
    <2> QED
      BY <1>1, <1>2, <2>1, GraftElsewhere
  <1>4. ASSUME NEW r \in Names
        PROVE  /\ Has(Copy(e, from, to), to \o r) <=> Has(e, from \o r)
               /\ Get(Copy(e, from, to), to \o r) = Get(e, from \o r)
    BY <1>1, <1>2, GraftAt DEF Get
  <1> QED
    BY <1>1, <1>2, <1>3, <1>4, GraftIsEvent, GraftConfined

(* A move is the copy without what was at its source.                        *)
LEMMA MoveAt ==
    ASSUME NEW e, IsEvent(e), NEW from \in Paths, NEW to \in Paths
    PROVE  /\ IsEvent(Move(e, from, to))
           /\ Confined({from, to}, e, Move(e, from, to))
           /\ \A q \in Names :
                 /\ IsPrefix(from, q) => ~Has(Move(e, from, to), q)
                 /\ ~IsPrefix(from, q) => /\ Has(Move(e, from, to), q) <=> Has(Copy(e, from, to), q)
                                          /\ Get(Move(e, from, to), q) = Get(Copy(e, from, to), q)
  <1> DEFINE f == Copy(e, from, to)
  <1>1. from \in Names /\ IsEvent(f) /\ Confined({to}, e, f)
    BY CopyAt DEF Paths
  <1>2. Move(e, from, to) = Delete(f, from)
    BY DEF Move
  <1> HIDE DEF f
  <1>3. Confined({from}, f, Delete(f, from)) /\ IsEvent(Delete(f, from))
    BY <1>1, DeleteConfined, DeleteIsEvent
  <1>4. Confined({from, to}, e, Delete(f, from))
    BY <1>1, <1>3 DEF Confined
  <1>5. \A q \in Names : /\ IsPrefix(from, q) => ~Has(Delete(f, from), q)
                         /\ ~IsPrefix(from, q) => /\ Has(Delete(f, from), q) <=> Has(f, q)
                                                  /\ Get(Delete(f, from), q) = Get(f, q)
    BY DeleteAt
  <1> QED
    BY <1>2, <1>3, <1>4, <1>5 DEF f

(* What Convert makes of s, by what e has.                                   *)
From(e, s, fields, mode) ==
    LET g[n \in 0..Len(fields)] ==
            IF n = 0 THEN s ELSE ConvertUsable(e, g[n - 1], fields[n], mode)
    IN  g[Len(fields)]

(* Convert starts from the event it reads.                                   *)
LEMMA EachFrom ==
    ASSUME NEW e, NEW fields, NEW mode
    PROVE  ConvertEach(e, fields, mode) = From(e, e, fields, mode)
  BY DEF ConvertEach, From

(* The events Convert goes through, one for each field.                      *)
ConvertRun(g, e, s, fields, mode, N) ==
    /\ g = [n \in 0..N |-> g[n]]
    /\ g[0] = s
    /\ \A n \in 1..N : g[n] = ConvertUsable(e, g[n - 1], fields[n], mode)

(* The recursive function of ConvertEach has such a run of events.           *)
LEMMA ConvertRuns ==
    ASSUME NEW e, NEW s, NEW fields, NEW mode, Len(fields) \in Nat
    PROVE  \E g : /\ ConvertRun(g, e, s, fields, mode, Len(fields))
                  /\ From(e, s, fields, mode) = g[Len(fields)]
  <1> DEFINE A == {N \in Nat : \E g : ConvertRun(g, e, s, fields, mode, N)}
             N == Len(fields)
             Rec(g) == [n \in 0..N |-> IF n = 0 THEN s
                                       ELSE ConvertUsable(e, g[n - 1], fields[n], mode)]
  <1>1. 0 \in A
    <2> DEFINE g == [n \in 0..0 |-> s]
    <2>1. ConvertRun(g, e, s, fields, mode, 0)
      BY DEF ConvertRun
    <2> QED
      BY <2>1
  <1>2. ASSUME NEW k \in Nat, k \in A
        PROVE  k + 1 \in A
    <2>1. PICK g : ConvertRun(g, e, s, fields, mode, k)
      BY <1>2
    <2> DEFINE h == [n \in 0..(k + 1) |->
                        IF n <= k THEN g[n] ELSE ConvertUsable(e, g[k], fields[n], mode)]
    <2>2. g[0] = s /\ \A n \in 1..k : g[n] = ConvertUsable(e, g[n - 1], fields[n], mode)
      BY <2>1 DEF ConvertRun
    <2>3. h = [n \in 0..(k + 1) |-> h[n]] /\ h[0] = s
      BY <2>2
    <2>4. \A n \in 0..k : h[n] = g[n]
      OBVIOUS
    <2>5. h[k + 1] = ConvertUsable(e, g[k], fields[k + 1], mode)
      OBVIOUS
    <2> HIDE DEF h
    <2>6. ASSUME NEW n \in 1..(k + 1)
          PROVE  h[n] = ConvertUsable(e, h[n - 1], fields[n], mode)
      <3>1. CASE n = k + 1
        BY <3>1, <2>4, <2>5
      <3>2. CASE n # k + 1
        BY <3>2, <2>2, <2>4
      <3> QED
        BY <3>1, <3>2
    <2>7. ConvertRun(h, e, s, fields, mode, k + 1)
      BY <2>3, <2>6 DEF ConvertRun
    <2> QED
      BY <2>7
  <1>3. N \in A
    <2> HIDE DEF A
    <2> QED
      BY <1>1, <1>2, SetInduction
  <1>4. PICK h : ConvertRun(h, e, s, fields, mode, N)
    BY <1>3
  <1>5. h = Rec(h)
    BY <1>4 DEF ConvertRun
  <1> DEFINE g == CHOOSE x : x = Rec(x)
  <1>6. g = Rec(g)
    BY <1>5
  <1>7. From(e, s, fields, mode) = g[N]
    BY DEF From
  <1> HIDE DEF g
  <1>8. ConvertRun(g, e, s, fields, mode, N)
    <2>1. \A n \in 0..N : g[n] = IF n = 0 THEN s ELSE ConvertUsable(e, g[n - 1], fields[n], mode)
      BY <1>6
    <2>2. g = [n \in 0..N |-> g[n]]
      BY <1>6, <2>1
    <2>3. 0 \in 0..N /\ \A n \in 1..N : n \in 0..N /\ n # 0
      OBVIOUS
    <2>4. \A n \in 1..N : g[n] = ConvertUsable(e, g[n - 1], fields[n], mode)
      BY <2>1, <2>3
    <2>5. g[0] = s
      BY <2>1, <2>3
    <2> HIDE DEF N
    <2> QED
      BY <2>2, <2>4, <2>5 DEF ConvertRun
  <1> QED
    BY <1>7, <1>8

Same(e, f, q) == (Has(f, q) <=> Has(e, q)) /\ Get(f, q) = Get(e, q)

(* The events PutAll goes through, one for each field.                       *)
PutRun(g, e, fields, N) ==
    /\ g = [n \in 0..N |-> g[n]]
    /\ g[0] = e
    /\ \A n \in 1..N : g[n] = Put(g[n - 1], fields[n][1], fields[n][2])

(* The recursive function of PutAll has such a run of events.                *)
LEMMA PutRuns ==
    ASSUME NEW e, NEW fields, Len(fields) \in Nat
    PROVE  \E g : /\ PutRun(g, e, fields, Len(fields))
                  /\ PutAll(e, fields) = g[Len(fields)]
  <1> DEFINE A == {N \in Nat : \E g : PutRun(g, e, fields, N)}
             N == Len(fields)
             Rec(g) == [n \in 0..N |-> IF n = 0 THEN e
                                       ELSE Put(g[n - 1], fields[n][1], fields[n][2])]
  <1>1. 0 \in A
    <2> DEFINE g == [n \in 0..0 |-> e]
    <2>1. PutRun(g, e, fields, 0)
      BY DEF PutRun
    <2> QED
      BY <2>1
  <1>2. ASSUME NEW k \in Nat, k \in A
        PROVE  k + 1 \in A
    <2>1. PICK g : PutRun(g, e, fields, k)
      BY <1>2
    <2> DEFINE h == [n \in 0..(k + 1) |->
                        IF n <= k THEN g[n] ELSE Put(g[k], fields[n][1], fields[n][2])]
    <2>2. g[0] = e /\ \A n \in 1..k : g[n] = Put(g[n - 1], fields[n][1], fields[n][2])
      BY <2>1 DEF PutRun
    <2>3. h = [n \in 0..(k + 1) |-> h[n]] /\ h[0] = e
      BY <2>2
    <2>4. \A n \in 0..k : h[n] = g[n]
      OBVIOUS
    <2>5. h[k + 1] = Put(g[k], fields[k + 1][1], fields[k + 1][2])
      OBVIOUS
    <2> HIDE DEF h
    <2>6. ASSUME NEW n \in 1..(k + 1)
          PROVE  h[n] = Put(h[n - 1], fields[n][1], fields[n][2])
      <3>1. CASE n = k + 1
        BY <3>1, <2>4, <2>5
      <3>2. CASE n # k + 1
        BY <3>2, <2>2, <2>4
      <3> QED
        BY <3>1, <3>2
    <2>7. PutRun(h, e, fields, k + 1)
      BY <2>3, <2>6 DEF PutRun
    <2> QED
      BY <2>7
  <1>3. N \in A
    <2> HIDE DEF A
    <2> QED
      BY <1>1, <1>2, SetInduction
  <1>4. PICK h : PutRun(h, e, fields, N)
    BY <1>3
  <1>5. h = Rec(h)
    <2>1. h = [n \in 0..N |-> h[n]]
      BY <1>4 DEF PutRun
    <2>2. ASSUME NEW n \in 0..N
          PROVE  h[n] = IF n = 0 THEN e ELSE Put(h[n - 1], fields[n][1], fields[n][2])
      <3>1. h[0] = e /\ \A m \in 1..N : h[m] = Put(h[m - 1], fields[m][1], fields[m][2])
        BY <1>4 DEF PutRun
      <3>2. n = 0 \/ n \in 1..N
        OBVIOUS
      <3> QED
        BY <3>1, <3>2
    <2>3. [n \in 0..N |-> h[n]] = Rec(h)
      BY <2>2
    <2> QED
      BY <2>1, <2>3
  <1> DEFINE g == CHOOSE x : x = Rec(x)
  <1>6. g = Rec(g)
    BY <1>5
  <1>7. PutAll(e, fields) = g[N]
    BY DEF PutAll
  <1> HIDE DEF g
  <1>8. PutRun(g, e, fields, N)
    <2>1. \A n \in 0..N : g[n] = IF n = 0 THEN e ELSE Put(g[n - 1], fields[n][1], fields[n][2])
      BY <1>6
    <2>2. g = [n \in 0..N |-> g[n]]
      BY <1>6, <2>1
    <2>3. 0 \in 0..N /\ \A n \in 1..N : n \in 0..N /\ n # 0
      OBVIOUS
    <2>4. \A n \in 1..N : g[n] = Put(g[n - 1], fields[n][1], fields[n][2])
      BY <2>1, <2>3
    <2>5. g[0] = e
      BY <2>1, <2>3
    <2> HIDE DEF N
    <2> QED
      BY <2>2, <2>4, <2>5 DEF PutRun
  <1> QED
    BY <1>7, <1>8

ArePuts(fields) ==
    Len(fields) \in Nat /\ DOMAIN fields = 1..Len(fields) /\ \A n \in 1..Len(fields) : fields[n][1] \in Paths

(* Between two events of a run, what parts from the fields put stays.        *)
LEMMA PutRunKeeps ==
    ASSUME NEW e, NEW fields, ArePuts(fields), NEW g, PutRun(g, e, fields, Len(fields)),
           NEW a \in 0..Len(fields), NEW b \in a..Len(fields)
    PROVE  /\ IsEvent(g[a]) => IsEvent(g[b])
           /\ \A q \in Paths : (\A n \in (a + 1)..b : Apart(fields[n][1], q)) => Same(g[a], g[b], q)
  <1> DEFINE Kept(n) ==
                /\ IsEvent(g[a]) => IsEvent(g[a + n])
                /\ \A q \in Paths : (\A m \in (a + 1)..(a + n) : Apart(fields[m][1], q))
                                        => Same(g[a], g[a + n], q)
             A == {n \in Nat : a + n <= b => Kept(n)}
  <1>0. a \in Nat /\ b \in Nat /\ Len(fields) \in Nat /\ b <= Len(fields)
    BY DEF ArePuts
  <1>1. 0 \in A
    BY <1>0 DEF Same
  <1>2. ASSUME NEW n \in Nat, n \in A
        PROVE  n + 1 \in A
    <2> SUFFICES ASSUME a + (n + 1) <= b
                 PROVE  Kept(n + 1)
      OBVIOUS
    <2> DEFINE m == a + (n + 1)
               k == a + n
    <2>1. m \in 1..Len(fields) /\ m - 1 = k /\ m \in (a + 1)..m
      BY <1>0
    <2>2. Kept(n)
      BY <1>0, <1>2
    <2>3. g[m] = Put(g[m - 1], fields[m][1], fields[m][2])
      BY <2>1 DEF PutRun
    <2>4. fields[m][1] \in Paths
      BY <2>1 DEF ArePuts
    <2>5. (IsEvent(g[k]) => IsEvent(g[m])) /\ Confined({fields[m][1]}, g[k], g[m])
      <3> DEFINE p == fields[m][1]
                 v == fields[m][2]
      <3>1. p \in Paths /\ g[m] = Put(g[k], p, v)
        BY <2>1, <2>3, <2>4
      <3> DEFINE c == g[k]
      <3> HIDE DEF p, v, m, k, c
      <3>2. (IsEvent(c) => IsEvent(Put(c, p, v))) /\ Confined({p}, c, Put(c, p, v))
        BY <3>1, PutAt
      <3> QED
        BY <3>1, <3>2 DEF p, c
    <2>6. \A x \in (a + 1)..k : x \in (a + 1)..m
      BY <1>0
    <2> HIDE DEF m, k
    <2>7. ASSUME NEW q \in Paths, \A x \in (a + 1)..m : Apart(fields[x][1], q)
          PROVE  Same(g[a], g[m], q)
      BY <2>2, <2>6, <2>7, <2>1, <2>5 DEF k, Confined, Same
    <2>8. IsEvent(g[a]) => IsEvent(g[m])
      BY <2>2, <2>5 DEF k
    <2> QED
      BY <2>7, <2>8 DEF m
  <1>3. Nat \subseteq A
    <2> HIDE DEF A
    <2> QED
      BY <1>1, <1>2, SetInduction
  <1>4. b - a \in Nat /\ a + (b - a) = b
    BY <1>0
  <1>5. Kept(b - a)
    BY <1>3, <1>4
  <1> QED
    BY <1>4, <1>5

(* PutAll leaves what parts from its fields alone.                           *)
LEMMA PutAllKeeps ==
    ASSUME NEW e, NEW fields, ArePuts(fields)
    PROVE  /\ IsEvent(e) => IsEvent(PutAll(e, fields))
           /\ \A q \in Paths : (\A n \in 1..Len(fields) : Apart(fields[n][1], q))
                                  => Same(e, PutAll(e, fields), q)
  <1>1. Len(fields) \in Nat
    BY DEF ArePuts
  <1>2. PICK g : PutRun(g, e, fields, Len(fields)) /\ PutAll(e, fields) = g[Len(fields)]
    BY <1>1, PutRuns
  <1> DEFINE a == 0
             N == Len(fields)
  <1>3. a \in 0..N /\ N \in a..N /\ g[a] = e /\ a + 1 = 1
    BY <1>1, <1>2 DEF PutRun
  <1> HIDE DEF a
  <1>4. /\ IsEvent(g[a]) => IsEvent(g[N])
        /\ \A q \in Paths : (\A n \in (a + 1)..N : Apart(fields[n][1], q)) => Same(g[a], g[N], q)
    BY <1>2, <1>3, PutRunKeeps
  <1> QED
    BY <1>2, <1>3, <1>4

(* A field that is put stays if those put after it part from it.             *)
LEMMA PutAllLands ==
    ASSUME NEW e, NEW fields, ArePuts(fields), NEW x \in 1..Len(fields),
           \A n \in (x + 1)..Len(fields) : Apart(fields[n][1], fields[x][1])
    PROVE  /\ Has(PutAll(e, fields), fields[x][1])
           /\ Get(PutAll(e, fields), fields[x][1]) = fields[x][2]
  <1> DEFINE p == fields[x][1]
             v == fields[x][2]
             N == Len(fields)
  <1>1. N \in Nat /\ p \in Paths
    BY DEF ArePuts
  <1>2. PICK g : PutRun(g, e, fields, N) /\ PutAll(e, fields) = g[N]
    BY <1>1, PutRuns
  <1>3. x \in 0..N /\ N \in x..N /\ g[x] = Put(g[x - 1], p, v)
    <2>1. \A n \in 1..N : g[n] = Put(g[n - 1], fields[n][1], fields[n][2])
      BY <1>2 DEF PutRun
    <2> QED
      BY <1>1, <2>1
  <1>4. Same(g[x], g[N], p)
    BY <1>1, <1>2, <1>3, PutRunKeeps
  <1>5. Has(Put(g[x - 1], p, v), p) /\ Get(Put(g[x - 1], p, v), p) = v
    <2> HIDE DEF p, v
    <2> QED
      BY <1>1, PutThere
  <1> QED
    BY <1>2, <1>3, <1>4, <1>5 DEF Same

AreFields(fields) ==
    /\ Len(fields) \in Nat /\ DOMAIN fields = 1..Len(fields)
    /\ \A n \in 1..Len(fields) : fields[n][1] \in Paths /\ fields[n][2] \in Paths
Touched(f, mode) == IF mode = "rename" THEN {f[1], f[2]} ELSE {f[2]}
Spared(f, mode, q) == \A w \in Touched(f, mode) : Apart(w, q)
Usable(e, f) == ~Missing(e, f) /\ ~Bad(e, f)

(* Converting one field touches its ends only.                               *)
LEMMA ConvertOneAt ==
    ASSUME NEW g, IsEvent(g), NEW f, f[1] \in Paths, f[2] \in Paths, NEW mode
    PROVE  /\ IsEvent(ConvertOne(g, f, mode))
           /\ Confined(Touched(f, mode), g, ConvertOne(g, f, mode))
  <1> DEFINE c == IF mode = "rename" THEN Move(g, f[1], f[2]) ELSE Copy(g, f[1], f[2])
  <1>1. IsEvent(c) /\ Confined(Touched(f, mode), g, c)
    BY MoveAt, CopyAt DEF Touched
  <1> HIDE DEF c
  <1>2. \A v : IsEvent(Put(c, f[2], v)) /\ Confined(Touched(f, mode), c, Put(c, f[2], v))
    <2> TAKE v
    <2>1. IsEvent(Put(c, f[2], v)) /\ Confined({f[2]}, c, Put(c, f[2], v))
      BY <1>1, PutAt
    <2>2. {f[2]} \subseteq Touched(f, mode)
      BY DEF Touched
    <2> QED
      BY <2>1, <2>2, ConfinedMore
  <1>3. \/ ConvertOne(g, f, mode) = c
        \/ \E v : ConvertOne(g, f, mode) = Put(c, f[2], v)
    BY DEF ConvertOne, c
  <1> QED
    BY <1>1, <1>2, <1>3, ConfinedTransitive

(* What is moved is at its target, unless the target is below the source.    *)
LEMMA MoveLands ==
    ASSUME NEW e, IsEvent(e), NEW from \in Paths, NEW to \in Paths, NEW r \in Names,
           ~IsPrefix(from, to \o r)
    PROVE  /\ Has(Move(e, from, to), to \o r) <=> Has(e, from \o r)
           /\ Get(Move(e, from, to), to \o r) = Get(e, from \o r)
  <1> DEFINE q == to \o r
             c == Copy(e, from, to)
  <1>1. (Has(c, q) <=> Has(e, from \o r)) /\ Get(c, q) = Get(e, from \o r)
    BY CopyAt
  <1>2. (Has(Delete(c, from), q) <=> Has(c, q)) /\ Get(Delete(c, from), q) = Get(c, q)
    BY DeleteAt
  <1> QED
    BY <1>1, <1>2 DEF Move

(* A field with a type is put converted, with nothing below it.              *)
LEMMA ConvertOneConverts ==
    ASSUME NEW g, NEW f, f[2] \in Paths, NEW mode, f[3] # "", f[1] \in Paths, IsEvent(g)
    PROVE  /\ Has(ConvertOne(g, f, mode), f[2])
           /\ Get(ConvertOne(g, f, mode), f[2]) = Converted(g[f[1]], f[3])
           /\ \A q \in Names : IsPrefix(f[2], q) /\ Has(ConvertOne(g, f, mode), q) => q = f[2]
  <1> DEFINE c == IF mode = "rename" THEN Move(g, f[1], f[2]) ELSE Copy(g, f[1], f[2])
             v == Converted(g[f[1]], f[3])
  <1>1. ConvertOne(g, f, mode) = Put(c, f[2], v)
    BY DEF ConvertOne
  <1> HIDE DEF c, v
  <1>2. /\ Has(Put(c, f[2], v), f[2]) /\ Get(Put(c, f[2], v), f[2]) = v
        /\ \A q \in Names : IsPrefix(f[2], q) /\ Has(Put(c, f[2], v), q) => q = f[2]
    <2>1. Has(Put(c, f[2], v), f[2]) /\ Get(Put(c, f[2], v), f[2]) = v
      BY PutThere
    <2>2. ASSUME NEW q \in Names, IsPrefix(f[2], q), Has(Put(c, f[2], v), q)
          PROVE  q = f[2]
      BY <2>2, PutAlone
    <2> QED
      BY <2>1, <2>2
  <1> QED
    BY <1>1, <1>2 DEF v

(* What is not at or below the ends of a field is not lost.                  *)
LEMMA ConvertOneHas ==
    ASSUME NEW g, IsEvent(g), NEW f, f[1] \in Paths, f[2] \in Paths, NEW mode,
           NEW q \in Paths, Has(g, q), ~IsPrefix(f[2], q), mode = "rename" => ~IsPrefix(f[1], q)
    PROVE  Has(ConvertOne(g, f, mode), q)
  <1> DEFINE d == Copy(g, f[1], f[2])
             c == IF mode = "rename" THEN Move(g, f[1], f[2]) ELSE d
  <1>1. q \in Names
    BY DEF Paths
  <1>2. Has(d, q)
    BY <1>1, TreeAt, GraftElsewhere DEF Copy
  <1>3. Has(c, q)
    BY <1>1, <1>2, MoveAt
  <1> HIDE DEF c
  <1>4. \A v : Has(Put(c, f[2], v), q)
    <2> TAKE v
    <2>1. CASE q \in Above(f[2])
      <3> DEFINE to == f[2]
      <3>1. to \in Paths /\ q \in Above(to)
        BY <2>1
      <3> HIDE DEF to
      <3>2. Has(Put(c, to, v), q)
        BY <3>1, PutAt
      <3> QED
        BY <3>2 DEF to
    <2>2. CASE q \notin Above(f[2])
      <3> DEFINE t == [r \in {<< >>} |-> v]
      <3>1. Put(c, f[2], v) = Graft(c, f[2], t) /\ IsTree(t)
        BY LeafIsTree DEF Put
      <3> HIDE DEF t
      <3>2. Has(Graft(c, f[2], t), q) <=> Has(c, q)
        BY <1>1, <2>2, <3>1, GraftElsewhere
      <3> QED
        BY <1>3, <3>1, <3>2
    <2> QED
      BY <2>1, <2>2
  <1> QED
    BY <1>3, <1>4 DEF ConvertOne, c

(* A field spares what parts from its ends, and everything when it is left   *)
(* out.                                                                      *)
LEMMA SparedSame ==
    ASSUME NEW e, NEW g, IsEvent(g), NEW f, f[1] \in Paths, f[2] \in Paths, NEW mode,
           NEW q \in Paths, Spared(f, mode, q) \/ ~Usable(e, f)
    PROVE  Same(g, ConvertUsable(e, g, f, mode), q)
  BY ConvertOneAt DEF Spared, Confined, Same, ConvertUsable, Usable

(* What holds of one field holds along the run of a list of fields.          *)
LEMMA RunIsEvent ==
    ASSUME NEW e, NEW s, IsEvent(s), NEW fields, AreFields(fields), NEW mode, NEW g,
           ConvertRun(g, e, s, fields, mode, Len(fields))
    PROVE  \A n \in 0..Len(fields) : IsEvent(g[n])
  <1> DEFINE N == Len(fields)
             A == {n \in Nat : n <= N => IsEvent(g[n])}
  <1>1. 0 \in A
    BY DEF ConvertRun
  <1>2. ASSUME NEW n \in Nat, n \in A
        PROVE  n + 1 \in A
    <2> SUFFICES ASSUME n + 1 <= N
                 PROVE  IsEvent(g[n + 1])
      OBVIOUS
    <2>1. n + 1 \in 1..N /\ IsEvent(g[n]) /\ N \in Nat /\ (n + 1) - 1 = n
      BY <1>2 DEF AreFields
    <2>2. g[n + 1] = ConvertUsable(e, g[n], fields[n + 1], mode)
      BY <2>1 DEF ConvertRun
    <2>3. fields[n + 1][1] \in Paths /\ fields[n + 1][2] \in Paths
      BY <2>1 DEF AreFields
    <2>4. IsEvent(ConvertOne(g[n], fields[n + 1], mode))
      BY <2>1, <2>3, ConvertOneAt
    <2> QED
      BY <2>1, <2>2, <2>4 DEF ConvertUsable
  <1>3. Nat \subseteq A
    <2> HIDE DEF A
    <2> QED
      BY <1>1, <1>2, SetInduction
  <1> QED
    BY <1>3 DEF AreFields

LEMMA RunSpares ==
    ASSUME NEW e, NEW s, IsEvent(s), NEW fields, AreFields(fields), NEW mode, NEW g,
           ConvertRun(g, e, s, fields, mode, Len(fields)),
           NEW a \in 0..Len(fields), NEW b \in a..Len(fields), NEW q \in Paths,
           \A n \in (a + 1)..b : Spared(fields[n], mode, q) \/ ~Usable(e, fields[n])
    PROVE  Same(g[a], g[b], q)
  <1> DEFINE A == {n \in Nat : a + n <= b => Same(g[a], g[a + n], q)}
  <1>0. a \in Nat /\ b \in Nat /\ Len(fields) \in Nat /\ b <= Len(fields)
    BY DEF AreFields
  <1>1. 0 \in A
    BY <1>0 DEF Same
  <1>2. ASSUME NEW n \in Nat, n \in A
        PROVE  n + 1 \in A
    <2> SUFFICES ASSUME a + (n + 1) <= b
                 PROVE  Same(g[a], g[a + (n + 1)], q)
      OBVIOUS
    <2> DEFINE m == a + (n + 1)
    <2>1. m \in 1..Len(fields) /\ m \in (a + 1)..b /\ m - 1 = a + n /\ m - 1 \in 0..Len(fields)
      BY <1>0
    <2>2. Same(g[a], g[m - 1], q)
      BY <1>0, <1>2, <2>1
    <2> HIDE DEF m
    <2>3. g[m] = ConvertUsable(e, g[m - 1], fields[m], mode)
      BY <2>1 DEF ConvertRun
    <2>4. fields[m][1] \in Paths /\ fields[m][2] \in Paths
      BY <2>1 DEF AreFields
    <2>5. IsEvent(g[m - 1])
      BY <2>1, RunIsEvent
    <2>6. Same(g[m - 1], g[m], q)
      BY <2>1, <2>3, <2>4, <2>5, SparedSame
    <2>7. Same(g[a], g[m], q)
      BY <2>2, <2>6 DEF Same
    <2> QED
      BY <2>7 DEF m
  <1>3. Nat \subseteq A
    <2> HIDE DEF A
    <2> QED
      BY <1>1, <1>2, SetInduction
  <1>4. b - a \in Nat /\ a + (b - a) = b
    BY <1>0
  <1> QED
    BY <1>3, <1>4

LEMMA RunHas ==
    ASSUME NEW e, NEW s, IsEvent(s), NEW fields, AreFields(fields), NEW mode, NEW g,
           ConvertRun(g, e, s, fields, mode, Len(fields)),
           NEW N \in 0..Len(fields), NEW q \in Paths, Has(s, q),
           \A n \in 1..N : /\ ~IsPrefix(fields[n][2], q)
                           /\ mode = "rename" => ~IsPrefix(fields[n][1], q)
    PROVE  Has(g[N], q)
  <1> DEFINE A == {n \in Nat : n <= N => Has(g[n], q)}
  <1>0. N \in Nat /\ Len(fields) \in Nat /\ N <= Len(fields)
    BY DEF AreFields
  <1>1. 0 \in A
    BY DEF ConvertRun
  <1>2. ASSUME NEW n \in Nat, n \in A
        PROVE  n + 1 \in A
    <2> SUFFICES ASSUME n + 1 <= N
                 PROVE  Has(g[n + 1], q)
      OBVIOUS
    <2>1. n + 1 \in 1..N /\ n + 1 \in 1..Len(fields) /\ (n + 1) - 1 = n /\ n \in 0..Len(fields)
      BY <1>0
    <2>2. g[n + 1] = ConvertUsable(e, g[n], fields[n + 1], mode)
      BY <2>1 DEF ConvertRun
    <2>3. fields[n + 1][1] \in Paths /\ fields[n + 1][2] \in Paths
      BY <2>1 DEF AreFields
    <2>4. IsEvent(g[n]) /\ Has(g[n], q)
      BY <1>0, <1>2, <2>1, RunIsEvent
    <2>5. Has(ConvertOne(g[n], fields[n + 1], mode), q)
      BY <2>1, <2>3, <2>4, ConvertOneHas
    <2> QED
      BY <2>2, <2>4, <2>5 DEF ConvertUsable
  <1>3. Nat \subseteq A
    <2> HIDE DEF A
    <2> QED
      BY <1>1, <1>2, SetInduction
  <1> QED
    BY <1>0, <1>3

(* And so of the whole list: it makes an event, spares and keeps.            *)
LEMMA FromIsEvent ==
    ASSUME NEW e, NEW s, IsEvent(s), NEW fields, AreFields(fields), NEW mode
    PROVE  IsEvent(From(e, s, fields, mode))
  <1>1. Len(fields) \in Nat
    BY DEF AreFields
  <1>2. PICK g : /\ ConvertRun(g, e, s, fields, mode, Len(fields))
                 /\ From(e, s, fields, mode) = g[Len(fields)]
    BY <1>1, ConvertRuns
  <1> QED
    BY <1>1, <1>2, RunIsEvent

LEMMA FromSpares ==
    ASSUME NEW e, NEW s, IsEvent(s), NEW fields, AreFields(fields), NEW mode, NEW q \in Paths,
           \A n \in 1..Len(fields) : Spared(fields[n], mode, q) \/ ~Usable(e, fields[n])
    PROVE  Same(s, From(e, s, fields, mode), q)
  <1>1. Len(fields) \in Nat
    BY DEF AreFields
  <1>2. PICK g : /\ ConvertRun(g, e, s, fields, mode, Len(fields))
                 /\ From(e, s, fields, mode) = g[Len(fields)]
    BY <1>1, ConvertRuns
  <1>3. 0 \in 0..Len(fields) /\ Len(fields) \in 0..Len(fields) /\ g[0] = s
    BY <1>1, <1>2 DEF ConvertRun
  <1>4. \A n \in (0 + 1)..Len(fields) : Spared(fields[n], mode, q) \/ ~Usable(e, fields[n])
    OBVIOUS
  <1>5. Same(g[0], g[Len(fields)], q)
    BY <1>2, <1>3, <1>4, RunSpares
  <1> QED
    BY <1>2, <1>3, <1>5

LEMMA FromHas ==
    ASSUME NEW e, NEW s, IsEvent(s), NEW fields, AreFields(fields), NEW mode,
           NEW q \in Paths, Has(s, q),
           \A n \in 1..Len(fields) : /\ ~IsPrefix(fields[n][2], q)
                                     /\ mode = "rename" => ~IsPrefix(fields[n][1], q)
    PROVE  Has(From(e, s, fields, mode), q)
  <1>1. Len(fields) \in Nat
    BY DEF AreFields
  <1>2. PICK g : /\ ConvertRun(g, e, s, fields, mode, Len(fields))
                 /\ From(e, s, fields, mode) = g[Len(fields)]
    BY <1>1, ConvertRuns
  <1>3. Len(fields) \in 0..Len(fields)
    BY <1>1
  <1>4. Has(g[Len(fields)], q)
    <2> DEFINE N == Len(fields)
    <2>1. N \in 0..Len(fields) /\ \A n \in 1..N : /\ ~IsPrefix(fields[n][2], q)
                                                 /\ mode = "rename" => ~IsPrefix(fields[n][1], q)
      BY <1>3
    <2> HIDE DEF N
    <2>2. Has(g[N], q)
      BY <1>2, <2>1, RunHas
    <2> QED
      BY <2>2 DEF N
  <1> QED
    BY <1>2, <1>4

(* Field x is written at its turn to what the fields before it left there    *)
(* and kept by those after it.                                               *)
LEMMA FromTurn ==
    ASSUME NEW e, NEW s, IsEvent(s), NEW fields, AreFields(fields), NEW mode,
           NEW x \in 1..Len(fields), Usable(e, fields[x])
    PROVE  \E g : /\ IsEvent(g)
                  /\ \A q \in Paths :
                        (\A n \in 1..(x - 1) : Spared(fields[n], mode, q) \/ ~Usable(e, fields[n]))
                            => Same(s, g, q)
                  /\ \A q \in Paths :
                        (\A n \in (x + 1)..Len(fields) :
                            Spared(fields[n], mode, q) \/ ~Usable(e, fields[n]))
                        => Same(ConvertOne(g, fields[x], mode), From(e, s, fields, mode), q)
                  /\ \A q \in Paths :
                        (\A n \in 1..(x - 1) :
                            /\ ~IsPrefix(fields[n][2], q)
                            /\ mode = "rename" => ~IsPrefix(fields[n][1], q))
                        => (Has(s, q) => Has(g, q))
  <1> DEFINE N == Len(fields)
  <1>1. N \in Nat /\ x \in 1..N
    BY DEF AreFields
  <1>2. PICK g : ConvertRun(g, e, s, fields, mode, N) /\ From(e, s, fields, mode) = g[N]
    BY <1>1, ConvertRuns
  <1>3. 0 \in 0..N /\ x - 1 \in 0..N /\ x - 1 \in Nat /\ x \in 0..N /\ N \in x..N /\ (x - 1) + 1 = x
    BY <1>1
  <1>4. IsEvent(g[x - 1])
    BY <1>2, <1>3, RunIsEvent
  <1>5. g[0] = s /\ g[x] = ConvertOne(g[x - 1], fields[x], mode)
    BY <1>1, <1>2, <1>3 DEF ConvertRun, ConvertUsable, Usable
  <1>6. ASSUME NEW q \in Paths,
               \A n \in 1..(x - 1) : Spared(fields[n], mode, q) \/ ~Usable(e, fields[n])
        PROVE  Same(s, g[x - 1], q)
    <2> DEFINE b == x - 1
    <2>1. b \in 0..N /\ \A n \in (0 + 1)..b : Spared(fields[n], mode, q) \/ ~Usable(e, fields[n])
      BY <1>3, <1>6
    <2> HIDE DEF b
    <2>2. Same(g[0], g[b], q)
      BY <1>2, <1>3, <2>1, RunSpares
    <2> QED
      BY <1>5, <2>2 DEF b
  <1>7. ASSUME NEW q \in Paths,
               \A n \in (x + 1)..N : Spared(fields[n], mode, q) \/ ~Usable(e, fields[n])
        PROVE  Same(g[x], g[N], q)
    BY <1>2, <1>3, <1>7, RunSpares
  <1>8. ASSUME NEW q \in Paths, Has(s, q),
               \A n \in 1..(x - 1) : /\ ~IsPrefix(fields[n][2], q)
                                     /\ mode = "rename" => ~IsPrefix(fields[n][1], q)
        PROVE  Has(g[x - 1], q)
    <2> DEFINE b == x - 1
    <2>1. b \in 0..N
      BY <1>3
    <2>2. \A n \in 1..b : /\ ~IsPrefix(fields[n][2], q)
                          /\ mode = "rename" => ~IsPrefix(fields[n][1], q)
      BY <1>8
    <2> HIDE DEF b
    <2>3. Has(g[b], q)
      BY <1>2, <1>8, <2>1, <2>2, RunHas
    <2> QED
      BY <2>3 DEF b
  <1> QED
    BY <1>2, <1>4, <1>5, <1>6, <1>7, <1>8

(* Lists of fields that follow each other.                                   *)
LEMMA RunsAgree ==
    ASSUME NEW e, NEW s, NEW a, NEW b, NEW mode, NEW N \in Nat, NEW g, NEW h,
           ConvertRun(g, e, s, a, mode, N), ConvertRun(h, e, s, b, mode, N),
           \A n \in 1..N : a[n] = b[n]
    PROVE  g[N] = h[N]
  <1> DEFINE A == {n \in Nat : n <= N => g[n] = h[n]}
  <1>1. 0 \in A
    BY DEF ConvertRun
  <1>2. ASSUME NEW n \in Nat, n \in A
        PROVE  n + 1 \in A
    <2> SUFFICES ASSUME n + 1 <= N
                 PROVE  g[n + 1] = h[n + 1]
      OBVIOUS
    <2>1. n + 1 \in 1..N /\ (n + 1) - 1 = n /\ g[n] = h[n]
      BY <1>2
    <2>2. g[n + 1] = ConvertUsable(e, g[n], a[n + 1], mode)
      BY <2>1 DEF ConvertRun
    <2>3. h[n + 1] = ConvertUsable(e, h[n], b[n + 1], mode)
      BY <2>1 DEF ConvertRun
    <2> QED
      BY <2>1, <2>2, <2>3
  <1>3. Nat \subseteq A
    <2> HIDE DEF A
    <2> QED
      BY <1>1, <1>2, SetInduction
  <1> QED
    BY <1>3

LEMMA FromConcat ==
    ASSUME NEW e, NEW s, NEW S, NEW a \in Seq(S), NEW b \in Seq(S), NEW mode
    PROVE  From(e, s, a \o b, mode) = From(e, From(e, s, a, mode), b, mode)
  <1> DEFINE c == a \o b
             L == Len(a)
             M == Len(b)
  <1>1. L \in Nat /\ M \in Nat /\ Len(c) = L + M /\ L + M \in Nat
    OBVIOUS
  <1>2. \A n \in 1..L : c[n] = a[n]
    OBVIOUS
  <1>3. \A n \in 1..M : c[L + n] = b[n]
    OBVIOUS
  <1> HIDE DEF c
  <1>4. PICK g : ConvertRun(g, e, s, c, mode, L + M) /\ From(e, s, c, mode) = g[L + M]
    BY <1>1, ConvertRuns
  <1>5. PICK h : ConvertRun(h, e, s, a, mode, L) /\ From(e, s, a, mode) = h[L]
    BY <1>1, ConvertRuns
  <1>6. PICK k : ConvertRun(k, e, h[L], b, mode, M) /\ From(e, h[L], b, mode) = k[M]
    BY <1>1, ConvertRuns
  <1> HIDE DEF L, M
  <1>7. g[L] = h[L]
    <2> DEFINE x == [n \in 0..L |-> g[n]]
    <2>1. \A n \in 0..L : x[n] = g[n]
      OBVIOUS
    <2>2. \A n \in 1..L : n \in 0..L /\ n - 1 \in 0..L /\ n \in 1..(L + M) /\ L \in 0..L
      BY <1>1
    <2>3. x[0] = s /\ x[L] = g[L]
      BY <1>1, <1>4 DEF ConvertRun
    <2>4. x = [n \in 0..L |-> x[n]]
      OBVIOUS
    <2> HIDE DEF x
    <2>5. ConvertRun(x, e, s, c, mode, L)
      BY <1>4, <2>1, <2>2, <2>3, <2>4 DEF ConvertRun
    <2> QED
      BY <1>1, <1>2, <1>5, <2>3, <2>5, RunsAgree
  <1>8. g[L + M] = k[M]
    <2> DEFINE x == [n \in 0..M |-> g[L + n]]
               d == [n \in 1..M |-> c[L + n]]
    <2>1. \A n \in 0..M : x[n] = g[L + n]
      OBVIOUS
    <2>2. x[0] = h[L] /\ x[M] = g[L + M]
      BY <1>1, <1>7
    <2>3. x = [n \in 0..M |-> x[n]]
      OBVIOUS
    <2>4. \A n \in 1..M : d[n] = c[L + n]
      OBVIOUS
    <2> HIDE DEF x, d
    <2>5. ASSUME NEW n \in 1..M
          PROVE  x[n] = ConvertUsable(e, x[n - 1], d[n], mode)
      <3>1. L + n \in 1..(L + M) /\ n \in 0..M /\ n - 1 \in 0..M /\ (L + n) - 1 = L + (n - 1)
        BY <1>1
      <3>2. g[L + n] = ConvertUsable(e, g[(L + n) - 1], c[L + n], mode)
        BY <1>4, <3>1 DEF ConvertRun
      <3>3. x[n] = g[L + n] /\ x[n - 1] = g[L + (n - 1)] /\ d[n] = c[L + n]
        BY <2>1, <2>4, <3>1
      <3> QED
        BY <3>1, <3>2, <3>3
    <2>6. ConvertRun(x, e, h[L], d, mode, M)
      BY <2>2, <2>3, <2>5 DEF ConvertRun
    <2>7. \A n \in 1..M : d[n] = b[n]
      BY <1>3, <2>4
    <2>8. x[M] = k[M]
      BY <1>1, <1>6, <2>6, <2>7, RunsAgree
    <2> QED
      BY <2>2, <2>8
  <1> QED
    BY <1>4, <1>5, <1>6, <1>8 DEF c

LEMMA FromOne ==
    ASSUME NEW e, NEW s, NEW f, NEW mode
    PROVE  From(e, s, <<f>>, mode) = ConvertUsable(e, s, f, mode)
  <1> DEFINE a == <<f>>
  <1>1. Len(a) = 1 /\ a[1] = f
    OBVIOUS
  <1> HIDE DEF a
  <1>2. PICK g : ConvertRun(g, e, s, a, mode, 1) /\ From(e, s, a, mode) = g[1]
    <2>1. Len(a) \in Nat
      BY <1>1
    <2>2. \E g : ConvertRun(g, e, s, a, mode, Len(a)) /\ From(e, s, a, mode) = g[Len(a)]
      BY <2>1, ConvertRuns
    <2> QED
      BY <1>1, <2>2
  <1>3. 1 \in 1..1 /\ 1 - 1 = 0
    OBVIOUS
  <1>4. g[1] = ConvertUsable(e, s, f, mode)
    BY <1>1, <1>2, <1>3 DEF ConvertRun
  <1> QED
    BY <1>2, <1>4 DEF a

-----------------------------------------------------------------------------
(*                      What a step writes under                             *)

(* f is e but for fields whose first name is in H.                           *)
Beside(H, e, f) == \A q \in Paths : q[1] \notin H => Same(e, f, q)

LEMMA BesideTransitive ==
    ASSUME NEW H, NEW K, NEW e, NEW f, NEW g, Beside(H, e, f), Beside(K, f, g)
    PROVE  Beside(H \union K, e, g)
  BY DEF Beside, Same

LEMMA ConfinedBeside ==
    ASSUME NEW W, W \subseteq Paths, NEW H, \A w \in W : w[1] \in H,
           NEW e, NEW f, Confined(W, e, f)
    PROVE  Beside(H, e, f)
  <1> SUFFICES ASSUME NEW q \in Paths, q[1] \notin H
               PROVE  Same(e, f, q)
    BY DEF Beside
  <1>1. \A w \in W : Apart(w, q)
    BY FirstApart
  <1> QED
    BY <1>1 DEF Confined, Same

LEMMA GraftBeside ==
    ASSUME NEW e, NEW p \in Paths, NEW t, IsTree(t), NEW H, p[1] \in H
    PROVE  Beside(H, e, Graft(e, p, t))
  <1>1. Confined({p}, e, Graft(e, p, t))
    BY GraftConfined
  <1>2. {p} \subseteq Paths /\ \A w \in {p} : w[1] \in H
    OBVIOUS
  <1> QED
    BY <1>1, <1>2, ConfinedBeside

LEMMA DeleteBeside ==
    ASSUME NEW e, NEW p \in Paths, NEW H, p[1] \in H
    PROVE  Beside(H, e, Delete(e, p))
  <1>1. p \in Names
    BY DEF Paths
  <1>2. Confined({p}, e, Delete(e, p))
    BY <1>1, DeleteConfined
  <1>3. {p} \subseteq Paths /\ \A w \in {p} : w[1] \in H
    OBVIOUS
  <1> QED
    BY <1>2, <1>3, ConfinedBeside

LEMMA MoveBeside ==
    ASSUME NEW e, IsEvent(e), NEW p \in Paths, NEW q \in Paths, NEW H, p[1] \in H, q[1] \in H
    PROVE  Beside(H, e, Move(e, p, q))
  <1>1. Confined({p, q}, e, Move(e, p, q))
    BY MoveAt
  <1>2. {p, q} \subseteq Paths /\ \A w \in {p, q} : w[1] \in H
    OBVIOUS
  <1> QED
    BY <1>1, <1>2, ConfinedBeside

(* A list of fields that are moved or copied within H, none at its top.      *)
Within(f, H) ==
    /\ f[1] \in Paths /\ f[1][1] \in H /\ Len(f[1]) > 1
    /\ f[2] \in Paths /\ f[2][1] \in H /\ Len(f[2]) > 1
AllWithin(fields, H) ==
    /\ Len(fields) \in Nat /\ DOMAIN fields = 1..Len(fields)
    /\ \A n \in 1..Len(fields) : Within(fields[n], H)

(* Such a list leaves what is beside H, and keeps what is at its top.        *)
LEMMA WithinFrom ==
    ASSUME NEW e, NEW s, IsEvent(s), NEW H, NEW fields, AllWithin(fields, H), NEW mode
    PROVE  /\ IsEvent(From(e, s, fields, mode))
           /\ Beside(H, s, From(e, s, fields, mode))
           /\ \A q \in Paths : Len(q) = 1 /\ Has(s, q) => Has(From(e, s, fields, mode), q)
  <1> DEFINE h == From(e, s, fields, mode)
  <1>1. AreFields(fields)
    BY DEF AllWithin, AreFields, Within
  <1>2. IsEvent(h)
    BY <1>1, FromIsEvent
  <1>3. ASSUME NEW q \in Paths, q[1] \notin H
        PROVE  Same(s, h, q)
    <2>1. ASSUME NEW n \in 1..Len(fields)
          PROVE  Spared(fields[n], mode, q)
      <3> DEFINE f == fields[n]
      <3>1. Within(f, H)
        BY DEF AllWithin
      <3> HIDE DEF f
      <3>2. f[1] \in Paths /\ f[1][1] # q[1] /\ f[2] \in Paths /\ f[2][1] # q[1]
        BY <1>3, <3>1 DEF Within
      <3>3. Apart(f[1], q) /\ Apart(f[2], q)
        BY <3>2, FirstApart
      <3>4. Spared(f, mode, q)
        BY <3>3 DEF Spared, Touched
      <3> QED
        BY <3>4 DEF f
    <2> QED
      BY <1>1, <2>1, FromSpares
  <1>4. ASSUME NEW q \in Paths, Len(q) = 1, Has(s, q)
        PROVE  Has(h, q)
    <2>1. ASSUME NEW n \in 1..Len(fields)
          PROVE  ~IsPrefix(fields[n][2], q) /\ ~IsPrefix(fields[n][1], q)
      <3> DEFINE f == fields[n]
      <3>1. Within(f, H)
        BY DEF AllWithin
      <3> HIDE DEF f
      <3>2. f[1] \in Names /\ f[2] \in Names /\ q \in Names /\ Len(f[1]) > Len(q) /\ Len(f[2]) > Len(q)
        BY <1>4, <3>1 DEF Within, Paths
      <3>3. Len(f[1]) \in Nat /\ Len(f[2]) \in Nat /\ Len(q) \in Nat
        BY <3>2 DEF Names
      <3>4. ~IsPrefix(f[2], q) /\ ~IsPrefix(f[1], q)
        BY <3>2, <3>3, PrefixAt
      <3> QED
        BY <3>4 DEF f
    <2> QED
      BY <1>1, <1>4, <2>1, FromHas
  <1> QED
    BY <1>2, <1>3, <1>4 DEF Beside

-----------------------------------------------------------------------------
(*                    The operations of each script                          *)

(* The scripts are instances, each with its own names for the operations of  *)
(* libbeat: they are the same operations.                                    *)
LEMMA FirewallSame ==
    /\ \A e, p : Firewall!Has(e, p) = Has(e, p)
    /\ Firewall!Null = Null
    /\ \A e : Firewall!Ok(e) = Ok(e)
    /\ \A e : Firewall!Throw(e) = Throw(e)
    /\ \A t : Firewall!Str(t) = Str(t)
    /\ \A t : Firewall!Long(t) = Long(t)
    /\ \A p, q : Firewall!Field(p, q) = Field(p, q)
    /\ \A p, q, t : Firewall!Typed(p, q, t) = Typed(p, q, t)
    /\ \A e, p : Firewall!Get(e, p) = Get(e, p)
    /\ \A e, p : Firewall!Delete(e, p) = Delete(e, p)
    /\ \A e, p : Firewall!DeleteAll(e, p) = DeleteAll(e, p)
    /\ \A e, p, v : Firewall!Put(e, p, v) = Put(e, p, v)
    /\ \A e, f : Firewall!PutAll(e, f) = PutAll(e, f)
    /\ \A v : Firewall!IsIP(v) = IsIP(v)
    /\ \A e, f, m, i, o : Firewall!Convert(e, f, m, i, o) = Convert(e, f, m, i, o)
    /\ \A e, p, q : Firewall!DecodeJSON(e, p, q) = DecodeJSON(e, p, q)
    /\ \A e, p : Firewall!Timestamp(e, p) = Timestamp(e, p)
    /\ \A e, p, v : Firewall!AppendTo(e, p, v) = AppendTo(e, p, v)
    /\ \A e, t : Firewall!CommunityID(e, t) = CommunityID(e, t)
    /\ Firewall!Src = Src
    /\ Firewall!Dest = Dest
    /\ \A x : Firewall!Renames(x) = Renames(x)
    /\ \A x : Firewall!Remainders(x) = Remainders(x)
    /\ \A x : Firewall!CopiesToIP(x) = CopiesToIP(x)
    /\ \A x : Firewall!CloudFields(x) = CloudFields(x)
    /\ \A e : Firewall!SetNetworkType(e) = SetNetworkType(e)
    /\ \A e : Firewall!SetRelatedIP(e) = SetRelatedIP(e)
  <1>1. /\ \A e, p : Firewall!Has(e, p) = Has(e, p)
        /\ Firewall!Null = Null
        /\ \A e : Firewall!Ok(e) = Ok(e)
        /\ \A e : Firewall!Throw(e) = Throw(e)
        /\ \A t : Firewall!Str(t) = Str(t)
        /\ \A t : Firewall!Long(t) = Long(t)
        /\ \A p, q : Firewall!Field(p, q) = Field(p, q)
        /\ \A p, q, t : Firewall!Typed(p, q, t) = Typed(p, q, t)
        /\ \A e, p : Firewall!Get(e, p) = Get(e, p)
        /\ \A e, p : Firewall!Delete(e, p) = Delete(e, p)
        /\ \A e, p : Firewall!DeleteAll(e, p) = DeleteAll(e, p)
        /\ \A e, p, v : Firewall!Put(e, p, v) = Put(e, p, v)
        /\ \A e, f : Firewall!PutAll(e, f) = PutAll(e, f)
        /\ \A v : Firewall!IsIP(v) = IsIP(v)
        /\ \A e, f, m, i, o : Firewall!Convert(e, f, m, i, o) = Convert(e, f, m, i, o)
        /\ \A e, p, q : Firewall!DecodeJSON(e, p, q) = DecodeJSON(e, p, q)
        /\ \A e, p : Firewall!Timestamp(e, p) = Timestamp(e, p)
    BY DEF
      Firewall!Has, Firewall!Null, Firewall!Ok, Firewall!Throw, Firewall!Str, Firewall!Long,
      Firewall!Field, Firewall!Typed, Firewall!Get, Firewall!Delete, Firewall!DeleteAll,
      Firewall!Put, Firewall!PutAll, Firewall!IsIP, Firewall!Convert, Firewall!DecodeJSON,
      Firewall!Timestamp, Firewall!Obj, Firewall!Above, Firewall!IsPrefix, Firewall!Below,
      Firewall!Tree, Firewall!Graft, Firewall!Copy, Firewall!Move, Firewall!IsText,
      Firewall!Convertible, Firewall!Converted, Firewall!ConvertOne, Firewall!Missing,
      Firewall!Bad, Firewall!ConvertUsable, Firewall!ConvertEach, Has, Null, Ok, Throw, Str,
      Long, Field, Typed, Get, Delete, DeleteAll, Put, PutAll, IsIP, Convert, DecodeJSON,
      Timestamp, Obj, Above, IsPrefix, Below, Tree, Graft, Copy, Move, IsText, Convertible,
      Converted, ConvertOne, Missing, Bad, ConvertUsable, ConvertEach
  <1>2. /\ Firewall!Src = Src
        /\ Firewall!Dest = Dest
        /\ \A x : Firewall!Renames(x) = Renames(x)
        /\ \A x : Firewall!Remainders(x) = Remainders(x)
        /\ \A x : Firewall!CopiesToIP(x) = CopiesToIP(x)
        /\ \A x : Firewall!CloudFields(x) = CloudFields(x)
    BY <1>1 DEF
      Firewall!Src, Firewall!Dest, Firewall!Renames, Firewall!Remainders, Firewall!CopiesToIP,
      Firewall!CloudFields, Src, Dest, Renames, Remainders, CopiesToIP, CloudFields
  <1>3. /\ Firewall!Null = Null
        /\ \A e, p : Firewall!Get(e, p) = Get(e, p)
        /\ \A e, p, v : Firewall!Put(e, p, v) = Put(e, p, v)
        /\ \A s : Firewall!ToSet(s) = ToSet(s)
        /\ \A e, p : Firewall!Listed(e, p) = Listed(e, p)
    BY <1>1 DEF Firewall!ToSet, Firewall!Listed, ToSet, Listed
  <1>4. \A e, p, v : Firewall!AppendTo(e, p, v) = AppendTo(e, p, v)
    BY <1>3 DEF Firewall!AppendTo, AppendTo
  <1>5. \A e, t : Firewall!FlowOf(e, t) = FlowOf(e, t)
    BY <1>3 DEF
      Firewall!FlowOf, Firewall!Ported, Firewall!Typeful, Firewall!Ends, FlowOf, Ported,
      Typeful, Ends
  <1>6. \A e, t : Firewall!Identified(e, t) = Identified(e, t)
    BY <1>3 DEF
      Firewall!Identified, Firewall!Ends, Firewall!Ported, Firewall!Typeful, Firewall!Protocols, Identified,
      Ends, Ported, Typeful, Protocols
  <1>7. \A e, t : Firewall!CommunityID(e, t) = CommunityID(e, t)
    BY <1>3, <1>5, <1>6 DEF Firewall!CommunityID, CommunityID
  <1> QED
    BY <1>1, <1>2, <1>4, <1>7 DEF
      Firewall!SetNetworkType, Firewall!SetRelatedIP, SetNetworkType, SetRelatedIP

LEMMA VpcflowSame ==
    /\ \A e, p : Vpcflow!Has(e, p) = Has(e, p)
    /\ Vpcflow!Null = Null
    /\ \A e : Vpcflow!Ok(e) = Ok(e)
    /\ \A e : Vpcflow!Throw(e) = Throw(e)
    /\ \A t : Vpcflow!Str(t) = Str(t)
    /\ \A t : Vpcflow!Long(t) = Long(t)
    /\ \A p, q : Vpcflow!Field(p, q) = Field(p, q)
    /\ \A p, q, t : Vpcflow!Typed(p, q, t) = Typed(p, q, t)
    /\ \A e, p : Vpcflow!Get(e, p) = Get(e, p)
    /\ \A e, p : Vpcflow!Delete(e, p) = Delete(e, p)
    /\ \A e, p : Vpcflow!DeleteAll(e, p) = DeleteAll(e, p)
    /\ \A e, p, v : Vpcflow!Put(e, p, v) = Put(e, p, v)
    /\ \A e, f : Vpcflow!PutAll(e, f) = PutAll(e, f)
    /\ \A v : Vpcflow!IsIP(v) = IsIP(v)
    /\ \A e, f, m, i, o : Vpcflow!Convert(e, f, m, i, o) = Convert(e, f, m, i, o)
    /\ \A e, p, q : Vpcflow!DecodeJSON(e, p, q) = DecodeJSON(e, p, q)
    /\ \A e, p : Vpcflow!Timestamp(e, p) = Timestamp(e, p)
    /\ \A e, p, v : Vpcflow!AppendTo(e, p, v) = AppendTo(e, p, v)
    /\ \A e, t : Vpcflow!CommunityID(e, t) = CommunityID(e, t)
    /\ Vpcflow!Src = Src
    /\ Vpcflow!Dest = Dest
    /\ \A x : Vpcflow!Renames(x) = Renames(x)
    /\ \A x : Vpcflow!Remainders(x) = Remainders(x)
    /\ \A x : Vpcflow!CopiesToIP(x) = CopiesToIP(x)
    /\ \A x : Vpcflow!CloudFields(x) = CloudFields(x)
    /\ \A e : Vpcflow!SetNetworkType(e) = SetNetworkType(e)
    /\ \A e : Vpcflow!SetRelatedIP(e) = SetRelatedIP(e)
  <1>1. /\ \A e, p : Vpcflow!Has(e, p) = Has(e, p)
        /\ Vpcflow!Null = Null
        /\ \A e : Vpcflow!Ok(e) = Ok(e)
        /\ \A e : Vpcflow!Throw(e) = Throw(e)
        /\ \A t : Vpcflow!Str(t) = Str(t)
        /\ \A t : Vpcflow!Long(t) = Long(t)
        /\ \A p, q : Vpcflow!Field(p, q) = Field(p, q)
        /\ \A p, q, t : Vpcflow!Typed(p, q, t) = Typed(p, q, t)
        /\ \A e, p : Vpcflow!Get(e, p) = Get(e, p)
        /\ \A e, p : Vpcflow!Delete(e, p) = Delete(e, p)
        /\ \A e, p : Vpcflow!DeleteAll(e, p) = DeleteAll(e, p)
        /\ \A e, p, v : Vpcflow!Put(e, p, v) = Put(e, p, v)
        /\ \A e, f : Vpcflow!PutAll(e, f) = PutAll(e, f)
        /\ \A v : Vpcflow!IsIP(v) = IsIP(v)
        /\ \A e, f, m, i, o : Vpcflow!Convert(e, f, m, i, o) = Convert(e, f, m, i, o)
        /\ \A e, p, q : Vpcflow!DecodeJSON(e, p, q) = DecodeJSON(e, p, q)
        /\ \A e, p : Vpcflow!Timestamp(e, p) = Timestamp(e, p)
    BY DEF
      Vpcflow!Has, Vpcflow!Null, Vpcflow!Ok, Vpcflow!Throw, Vpcflow!Str, Vpcflow!Long,
      Vpcflow!Field, Vpcflow!Typed, Vpcflow!Get, Vpcflow!Delete, Vpcflow!DeleteAll,
      Vpcflow!Put, Vpcflow!PutAll, Vpcflow!IsIP, Vpcflow!Convert, Vpcflow!DecodeJSON,
      Vpcflow!Timestamp, Vpcflow!Obj, Vpcflow!Above, Vpcflow!IsPrefix, Vpcflow!Below,
      Vpcflow!Tree, Vpcflow!Graft, Vpcflow!Copy, Vpcflow!Move, Vpcflow!IsText,
      Vpcflow!Convertible, Vpcflow!Converted, Vpcflow!ConvertOne, Vpcflow!Missing,
      Vpcflow!Bad, Vpcflow!ConvertUsable, Vpcflow!ConvertEach, Has, Null, Ok, Throw, Str,
      Long, Field, Typed, Get, Delete, DeleteAll, Put, PutAll, IsIP, Convert, DecodeJSON,
      Timestamp, Obj, Above, IsPrefix, Below, Tree, Graft, Copy, Move, IsText, Convertible,
      Converted, ConvertOne, Missing, Bad, ConvertUsable, ConvertEach
  <1>2. /\ Vpcflow!Src = Src
        /\ Vpcflow!Dest = Dest
        /\ \A x : Vpcflow!Renames(x) = Renames(x)
        /\ \A x : Vpcflow!Remainders(x) = Remainders(x)
        /\ \A x : Vpcflow!CopiesToIP(x) = CopiesToIP(x)
        /\ \A x : Vpcflow!CloudFields(x) = CloudFields(x)
    BY <1>1 DEF
      Vpcflow!Src, Vpcflow!Dest, Vpcflow!Renames, Vpcflow!Remainders, Vpcflow!CopiesToIP,
      Vpcflow!CloudFields, Src, Dest, Renames, Remainders, CopiesToIP, CloudFields
  <1>3. /\ Vpcflow!Null = Null
        /\ \A e, p : Vpcflow!Get(e, p) = Get(e, p)
        /\ \A e, p, v : Vpcflow!Put(e, p, v) = Put(e, p, v)
        /\ \A s : Vpcflow!ToSet(s) = ToSet(s)
        /\ \A e, p : Vpcflow!Listed(e, p) = Listed(e, p)
    BY <1>1 DEF Vpcflow!ToSet, Vpcflow!Listed, ToSet, Listed
  <1>4. \A e, p, v : Vpcflow!AppendTo(e, p, v) = AppendTo(e, p, v)
    BY <1>3 DEF Vpcflow!AppendTo, AppendTo
  <1>5. \A e, t : Vpcflow!FlowOf(e, t) = FlowOf(e, t)
    BY <1>3 DEF
      Vpcflow!FlowOf, Vpcflow!Ported, Vpcflow!Typeful, Vpcflow!Ends, FlowOf, Ported,
      Typeful, Ends
  <1>6. \A e, t : Vpcflow!Identified(e, t) = Identified(e, t)
    BY <1>3 DEF
      Vpcflow!Identified, Vpcflow!Ends, Vpcflow!Ported, Vpcflow!Typeful, Vpcflow!Protocols, Identified,
      Ends, Ported, Typeful, Protocols
  <1>7. \A e, t : Vpcflow!CommunityID(e, t) = CommunityID(e, t)
    BY <1>3, <1>5, <1>6 DEF Vpcflow!CommunityID, CommunityID
  <1> QED
    BY <1>1, <1>2, <1>4, <1>7 DEF
      Vpcflow!SetNetworkType, Vpcflow!SetRelatedIP, SetNetworkType, SetRelatedIP

LEMMA AuditSame ==
    /\ \A e, p : Audit!Has(e, p) = Has(e, p)
    /\ Audit!Null = Null
    /\ \A e : Audit!Ok(e) = Ok(e)
    /\ \A e : Audit!Throw(e) = Throw(e)
    /\ \A t : Audit!Str(t) = Str(t)
    /\ \A t : Audit!Long(t) = Long(t)
    /\ \A p, q : Audit!Field(p, q) = Field(p, q)
    /\ \A p, q, t : Audit!Typed(p, q, t) = Typed(p, q, t)
    /\ \A e, p : Audit!Get(e, p) = Get(e, p)
    /\ \A e, p : Audit!Delete(e, p) = Delete(e, p)
    /\ \A e, p : Audit!DeleteAll(e, p) = DeleteAll(e, p)
    /\ \A e, p, v : Audit!Put(e, p, v) = Put(e, p, v)
    /\ \A e, f : Audit!PutAll(e, f) = PutAll(e, f)
    /\ \A v : Audit!IsIP(v) = IsIP(v)
    /\ \A e, f, m, i, o : Audit!Convert(e, f, m, i, o) = Convert(e, f, m, i, o)
    /\ \A e, p, q : Audit!DecodeJSON(e, p, q) = DecodeJSON(e, p, q)
    /\ \A e, p : Audit!Timestamp(e, p) = Timestamp(e, p)
  BY DEF
    Audit!Has, Audit!Null, Audit!Ok, Audit!Throw, Audit!Str, Audit!Long, Audit!Field,
    Audit!Typed, Audit!Get, Audit!Delete, Audit!DeleteAll, Audit!Put, Audit!PutAll,
    Audit!IsIP, Audit!Convert, Audit!DecodeJSON, Audit!Timestamp, Audit!Obj, Audit!Above,
    Audit!IsPrefix, Audit!Below, Audit!Tree, Audit!Graft, Audit!Copy, Audit!Move,
    Audit!IsText, Audit!Convertible, Audit!Converted, Audit!ConvertOne, Audit!Missing,
    Audit!Bad, Audit!ConvertUsable, Audit!ConvertEach, Has, Null, Ok, Throw, Str, Long, Field,
    Typed, Get, Delete, DeleteAll, Put, PutAll, IsIP, Convert, DecodeJSON, Timestamp, Obj,
    Above, IsPrefix, Below, Tree, Graft, Copy, Move, IsText, Convertible, Converted,
    ConvertOne, Missing, Bad, ConvertUsable, ConvertEach

LEMMA CiscoSame ==
    /\ \A e, p : Cisco!Has(e, p) = Has(e, p)
    /\ Cisco!Null = Null
    /\ \A e : Cisco!Ok(e) = Ok(e)
    /\ \A e : Cisco!Throw(e) = Throw(e)
    /\ \A t : Cisco!Str(t) = Str(t)
    /\ \A t : Cisco!Long(t) = Long(t)
    /\ \A p, q : Cisco!Field(p, q) = Field(p, q)
    /\ \A p, q, t : Cisco!Typed(p, q, t) = Typed(p, q, t)
    /\ \A e, p : Cisco!Get(e, p) = Get(e, p)
    /\ \A e, p : Cisco!Delete(e, p) = Delete(e, p)
    /\ \A e, p : Cisco!DeleteAll(e, p) = DeleteAll(e, p)
    /\ \A e, p, v : Cisco!Put(e, p, v) = Put(e, p, v)
    /\ \A e, f : Cisco!PutAll(e, f) = PutAll(e, f)
    /\ \A v : Cisco!IsIP(v) = IsIP(v)
    /\ \A e, f, m, i, o : Cisco!Convert(e, f, m, i, o) = Convert(e, f, m, i, o)
    /\ \A e, p, q : Cisco!DecodeJSON(e, p, q) = DecodeJSON(e, p, q)
    /\ \A e, p : Cisco!Timestamp(e, p) = Timestamp(e, p)
    /\ \A e, p, q : Cisco!Rename(e, p, q) = Rename(e, p, q)
    /\ \A e, f : Cisco!Dissect(e, f) = Dissect(e, f)
    /\ \A e, p, v : Cisco!AppendTo(e, p, v) = AppendTo(e, p, v)
    /\ \A e, t : Cisco!CommunityID(e, t) = CommunityID(e, t)
  BY DEF
    Cisco!Has, Cisco!Null, Cisco!Ok, Cisco!Throw, Cisco!Str, Cisco!Long, Cisco!Field,
    Cisco!Typed, Cisco!Get, Cisco!Delete, Cisco!DeleteAll, Cisco!Put, Cisco!PutAll,
    Cisco!IsIP, Cisco!Convert, Cisco!DecodeJSON, Cisco!Timestamp, Cisco!Rename, Cisco!Dissect,
    Cisco!AppendTo, Cisco!CommunityID, Cisco!Obj, Cisco!Above, Cisco!IsPrefix, Cisco!Below,
    Cisco!Tree, Cisco!Graft, Cisco!Copy, Cisco!Move, Cisco!IsText, Cisco!Convertible,
    Cisco!Converted, Cisco!ConvertOne, Cisco!Missing, Cisco!Bad, Cisco!ConvertUsable,
    Cisco!ConvertEach, Cisco!ToSet, Cisco!Listed, Cisco!Ported, Cisco!Typeful, Cisco!Ends,
    Cisco!Protocols, Cisco!FlowOf, Cisco!Identified, Has, Null, Ok, Throw, Str, Long, Field,
    Typed, Get,
    Delete, DeleteAll, Put, PutAll, IsIP, Convert, DecodeJSON, Timestamp, Rename, Dissect,
    AppendTo, CommunityID, Obj, Above, IsPrefix, Below, Tree, Graft, Copy, Move, IsText,
    Convertible, Converted, ConvertOne, Missing, Bad, ConvertUsable, ConvertEach, ToSet,
    Listed, Ported, Typeful, Ends, Protocols, FlowOf, Identified

LEMMA MispSame ==
    /\ \A e, p : Misp!Has(e, p) = Has(e, p)
    /\ Misp!Null = Null
    /\ \A e : Misp!Ok(e) = Ok(e)
    /\ \A e : Misp!Throw(e) = Throw(e)
    /\ \A t : Misp!Str(t) = Str(t)
    /\ \A t : Misp!Long(t) = Long(t)
    /\ \A p, q : Misp!Field(p, q) = Field(p, q)
    /\ \A p, q, t : Misp!Typed(p, q, t) = Typed(p, q, t)
    /\ \A e, p : Misp!Get(e, p) = Get(e, p)
    /\ \A e, p : Misp!Delete(e, p) = Delete(e, p)
    /\ \A e, p : Misp!DeleteAll(e, p) = DeleteAll(e, p)
    /\ \A e, p, v : Misp!Put(e, p, v) = Put(e, p, v)
    /\ \A e, f : Misp!PutAll(e, f) = PutAll(e, f)
    /\ \A v : Misp!IsIP(v) = IsIP(v)
    /\ \A e, f, m, i, o : Misp!Convert(e, f, m, i, o) = Convert(e, f, m, i, o)
    /\ \A e, p, q : Misp!DecodeJSON(e, p, q) = DecodeJSON(e, p, q)
    /\ \A e, p : Misp!Timestamp(e, p) = Timestamp(e, p)
  BY DEF
    Misp!Has, Misp!Null, Misp!Ok, Misp!Throw, Misp!Str, Misp!Long, Misp!Field, Misp!Typed,
    Misp!Get, Misp!Delete, Misp!DeleteAll, Misp!Put, Misp!PutAll, Misp!IsIP, Misp!Convert,
    Misp!DecodeJSON, Misp!Timestamp, Misp!Obj, Misp!Above, Misp!IsPrefix, Misp!Below,
    Misp!Tree, Misp!Graft, Misp!Copy, Misp!Move, Misp!IsText, Misp!Convertible,
    Misp!Converted, Misp!ConvertOne, Misp!Missing, Misp!Bad, Misp!ConvertUsable,
    Misp!ConvertEach, Has, Null, Ok, Throw, Str, Long, Field, Typed, Get, Delete, DeleteAll,
    Put, PutAll, IsIP, Convert, DecodeJSON, Timestamp, Obj, Above, IsPrefix, Below, Tree,
    Graft, Copy, Move, IsText, Convertible, Converted, ConvertOne, Missing, Bad,
    ConvertUsable, ConvertEach

-----------------------------------------------------------------------------
(*                         The steps of a script                             *)

(* Step n of a script that has last steps, with its result.                  *)
Goes(n, last, r) ==
    /\ status = "running" /\ at = n /\ input' = input
    /\ evt' = r.evt
    /\ at' = IF r.ok THEN n + 1 ELSE n
    /\ status' = CASE ~r.ok -> "exception"
                   [] r.ok /\ n = last -> "done"
                   [] OTHER -> "running"

(* The fields of the steps that the scripts have in common.                  *)
Original == <<Field(<<"message">>, <<"event", "original">>)>>
Categories(category, type) ==
    <<<<<<"event", "category">>, Str(category)>>, <<<<"event", "type">>, Str(type)>>>>
Logger == Field(<<"json", "logName">>, <<"log", "logger">>)
Entry(payload) == <<Field(<<"json", payload>>, <<"json">>)>>
VpcflowFields ==
    Renames(Dest) \o Vpcflow!Protocol("string") \o Renames(Src) \o Vpcflow!Counters
        \o Remainders(Dest) \o Remainders(Src) \o Vpcflow!Rest
VpcflowEmpty ==
    {<<"googlecloud", "vpcflow", name>> : name \in {"connection", "dest_location", "src_location"}}
VpcflowCloud(reporter) ==
    CASE reporter = Str("DEST") -> Convert(evt, CloudFields(Dest), "copy", TRUE, TRUE)
      [] reporter = Str("SRC") -> Convert(evt, CloudFields(Src), "copy", TRUE, TRUE)
      [] OTHER -> Ok(evt)
VpcflowTotals ==
    <<Field(<<"source", "bytes">>, <<"network", "bytes">>),
      Field(<<"source", "packets">>, <<"network", "packets">>)>>
VpcflowTransport(ianaNumber) ==
    Ok(CASE ianaNumber = Str("6") -> Put(evt, <<"network", "transport">>, Str("tcp"))
         [] ianaNumber = Str("17") -> Put(evt, <<"network", "transport">>, Str("udp"))
         [] OTHER -> evt)
VpcflowDirection(source, destination) ==
    LET direction == CASE source /\ destination -> "internal"
                       [] source /\ ~destination -> "outbound"
                       [] ~source /\ destination -> "inbound"
                       [] OTHER -> "unknown"
    IN  Ok(Put(evt, <<"network", "direction">>, Str(direction)))

(* A step of vpcflow, by its place in the script and its result.             *)
LEMMA VpcflowPlace ==
    ASSUME NEW r, at \in 1..17
    PROVE  /\ Vpcflow!Do("decodeJson", r) => Goes(1, 17, r)
           /\ Vpcflow!Do("parseTimestamp", r) => Goes(2, 17, r)
           /\ Vpcflow!Do("saveOriginalMessage", r) => Goes(3, 17, r)
           /\ Vpcflow!Do("dropPubSubFields", r) => Goes(4, 17, r)
           /\ Vpcflow!Do("categorizeEvent", r) => Goes(5, 17, r)
           /\ Vpcflow!Do("saveMetadata", r) => Goes(6, 17, r)
           /\ Vpcflow!Do("convertLogEntry", r) => Goes(7, 17, r)
           /\ Vpcflow!Do("convertJsonPayload", r) => Goes(8, 17, r)
           /\ Vpcflow!Do("dropEmptyObjects", r) => Goes(9, 17, r)
           /\ Vpcflow!Do("copyAddressFields", r) => Goes(10, 17, r)
           /\ Vpcflow!Do("setCloudMetadata", r) => Goes(11, 17, r)
           /\ Vpcflow!Do("communityId", r) => Goes(12, 17, r)
           /\ Vpcflow!Do("setNetworkBytesPackets", r) => Goes(13, 17, r)
           /\ Vpcflow!Do("setNetworkTransport", r) => Goes(14, 17, r)
           /\ Vpcflow!Do("setNetworkDirection", r) => Goes(15, 17, r)
           /\ Vpcflow!Do("setNetworkType", r) => Goes(16, 17, r)
           /\ Vpcflow!Do("setRelatedIP", r) => Goes(17, 17, r)
  <1>1. ASSUME NEW name, Vpcflow!Do(name, r)
        PROVE  Vpcflow!Chain[at] = name /\ Goes(at, Len(Vpcflow!Chain), r)
    BY <1>1 DEF Vpcflow!Do, Vpcflow!Step, Goes
  <1>2. /\ Len(Vpcflow!Chain) = 17
        /\ Vpcflow!Chain[at] = "decodeJson" => at = 1
        /\ Vpcflow!Chain[at] = "parseTimestamp" => at = 2
        /\ Vpcflow!Chain[at] = "saveOriginalMessage" => at = 3
        /\ Vpcflow!Chain[at] = "dropPubSubFields" => at = 4
        /\ Vpcflow!Chain[at] = "categorizeEvent" => at = 5
        /\ Vpcflow!Chain[at] = "saveMetadata" => at = 6
        /\ Vpcflow!Chain[at] = "convertLogEntry" => at = 7
        /\ Vpcflow!Chain[at] = "convertJsonPayload" => at = 8
        /\ Vpcflow!Chain[at] = "dropEmptyObjects" => at = 9
        /\ Vpcflow!Chain[at] = "copyAddressFields" => at = 10
        /\ Vpcflow!Chain[at] = "setCloudMetadata" => at = 11
        /\ Vpcflow!Chain[at] = "communityId" => at = 12
        /\ Vpcflow!Chain[at] = "setNetworkBytesPackets" => at = 13
        /\ Vpcflow!Chain[at] = "setNetworkTransport" => at = 14
        /\ Vpcflow!Chain[at] = "setNetworkDirection" => at = 15
        /\ Vpcflow!Chain[at] = "setNetworkType" => at = 16
        /\ Vpcflow!Chain[at] = "setRelatedIP" => at = 17
    BY DEF Vpcflow!Chain
  <1> QED
    BY <1>1, <1>2

LEMMA VpcflowSteps ==
    ASSUME Vpcflow!Next, at \in 1..17
    PROVE  \/ Goes(1, 17, DecodeJSON(evt, <<"message">>, <<"json">>))
           \/ Goes(2, 17, Timestamp(evt, <<"json", "timestamp">>))
           \/ Goes(3, 17,
                   IF input.keep THEN Convert(evt, Original, "rename", FALSE, TRUE) ELSE Ok(evt))
           \/ Goes(4, 17, Ok(Delete(Delete(evt, <<"message">>), <<"labels">>)))
           \/ Goes(5, 17, Ok(PutAll(evt, Categories("network_traffic", "flow"))))
           \/ Goes(6, 17, Convert(evt, <<Logger>>, "copy", TRUE, TRUE))
           \/ Goes(7, 17, Convert(evt, Entry("jsonPayload"), "rename", FALSE, TRUE))
           \/ Goes(8, 17, Convert(evt, VpcflowFields, "rename", TRUE, TRUE))
           \/ Goes(9, 17, Ok(DeleteAll(evt, VpcflowEmpty)))
           \/ Goes(10, 17,
                   Convert(evt, <<CopiesToIP(Src), CopiesToIP(Dest)>>, "copy", FALSE, FALSE))
           \/ Goes(11, 17, VpcflowCloud(Get(evt, <<"googlecloud", "vpcflow", "reporter">>)))
           \/ Goes(12, 17, Ok(CommunityID(evt, Get(evt, <<"network", "iana_number">>))))
           \/ Goes(13, 17, Convert(evt, VpcflowTotals, "copy", TRUE, TRUE))
           \/ Goes(14, 17, VpcflowTransport(Get(evt, <<"network", "iana_number">>)))
           \/ Goes(15, 17,
                   VpcflowDirection(Has(evt, <<"googlecloud", "source", "instance">>),
                                    Has(evt, <<"googlecloud", "destination", "instance">>)))
           \/ Goes(16, 17, Ok(SetNetworkType(evt)))
           \/ Goes(17, 17, Ok(SetRelatedIP(evt)))
  BY VpcflowPlace, VpcflowSame, ZenonT(40)
  DEF
    Vpcflow!decodeJson, Vpcflow!parseTimestamp, Vpcflow!saveOriginalMessage, Original,
    Vpcflow!dropPubSubFields, Vpcflow!categorizeEvent, Categories, Vpcflow!saveMetadata,
    Logger, Vpcflow!convertLogEntry, Entry, Vpcflow!convertJsonPayload, VpcflowFields,
    Vpcflow!dropEmptyObjects, VpcflowEmpty, Vpcflow!copyAddressFields,
    Vpcflow!setCloudMetadata, VpcflowCloud, Vpcflow!communityId,
    Vpcflow!setNetworkBytesPackets, VpcflowTotals, Vpcflow!setNetworkTransport,
    VpcflowTransport, Vpcflow!setNetworkDirection, VpcflowDirection, Vpcflow!setNetworkType,
    Vpcflow!setRelatedIP, Vpcflow!Next

(* One step less when the original message is not kept.                      *)
Shift == IF input.keep THEN 1 ELSE 0
Subnetwork ==
    Field(<<"json", "resource", "labels", "subnetwork_name">>, <<"network", "name">>)
Outcomes == [ALLOWED |-> "allow", DENIED |-> "deny"]
Directions == [INGRESS |-> "inbound", EGRESS |-> "outbound"]
Transports == "1" :> "icmp" @@ "6" :> "tcp" @@ "17" :> "udp"
Direction == <<"json", "rule_details", "direction">>
Mapped(from, to, mappings, default) ==
    LET key == Get(evt, from)
        value == IF Len(key) = 2 /\ key[2] \in DOMAIN mappings THEN Str(mappings[key[2]])
                 ELSE default
    IN  IF value = Null THEN Ok(evt) ELSE Ok(Put(evt, to, value))
Either(value, out, into) ==
    CASE Len(value) = 2 /\ value[2] = "EGRESS" -> out
      [] Len(value) = 2 /\ value[2] = "INGRESS" -> into
      [] OTHER -> Ok(evt)
FirewallProtocol ==
    <<Typed(<<"json", "connection", "protocol">>, <<"network", "iana_number">>, "long")>>
FirewallFields ==
    Renames(Dest) \o Renames(Src) \o Remainders(Dest) \o Remainders(Src)
        \o <<Field(<<"json">>, <<"googlecloud", "firewall">>)>>
FirewallEmpty ==
    {<<"googlecloud", "firewall", name>> :
        name \in {"connection", "dest_location", "disposition", "src_location"}}
FirewallInternal ==
    IF /\ Has(evt, <<"googlecloud", "source", "instance">>)
       /\ Has(evt, <<"googlecloud", "destination", "instance">>)
    THEN Put(evt, <<"network", "direction">>, Str("internal"))
    ELSE evt

LEMMA FirewallEither ==
    ASSUME NEW value, NEW out, NEW into
    PROVE  Firewall!makeConditional(value, [EGRESS |-> out, INGRESS |-> into])
               = Either(value, out, into)
  <1> DEFINE branches == [EGRESS |-> out, INGRESS |-> into]
  <1>1. Firewall!Ok(evt) = Ok(evt)
    BY FirewallSame
  <1>2. /\ DOMAIN branches = {"EGRESS", "INGRESS"}
        /\ branches["EGRESS"] = out /\ branches["INGRESS"] = into
    OBVIOUS
  <1>3. "EGRESS" # "INGRESS"
    OBVIOUS
  <1> SUFFICES Firewall!makeConditional(value, branches) = Either(value, out, into)
    OBVIOUS
  <1> HIDE DEF branches
  <1>4. CASE Len(value) = 2 /\ value[2] = "EGRESS"
    BY <1>2, <1>4, <1>3, Zenon DEF Firewall!makeConditional, Either
  <1>5. CASE Len(value) = 2 /\ value[2] = "INGRESS"
    BY <1>2, <1>5, <1>3, Zenon DEF Firewall!makeConditional, Either
  <1>6. CASE ~(Len(value) = 2 /\ value[2] = "EGRESS") /\ ~(Len(value) = 2 /\ value[2] = "INGRESS")
    BY <1>1, <1>2, <1>6, Zenon DEF Firewall!makeConditional, Either
  <1> QED
    BY <1>4, <1>5, <1>6

(* A step of firewall, by its place in the script and its result.            *)
LEMMA FirewallPlace ==
    ASSUME NEW r, at \in 1..(19 + Shift), input.keep \in BOOLEAN
    PROVE  /\ Firewall!Do("decodeJson", r) => Goes(1, 19 + Shift, r)
           /\ Firewall!Do("parseTimestamp", r) => Goes(2, 19 + Shift, r)
           /\ Firewall!Do("saveOriginalMessage", r) => input.keep /\ Goes(3, 19 + Shift, r)
           /\ Firewall!Do("dropPubSubFields", r) => Goes(3 + Shift, 19 + Shift, r)
           /\ Firewall!Do("categorizeEvent", r) => Goes(4 + Shift, 19 + Shift, r)
           /\ Firewall!Do("saveMetadata", r) => Goes(5 + Shift, 19 + Shift, r)
           /\ Firewall!Do("convertLogEntry", r) => Goes(6 + Shift, 19 + Shift, r)
           /\ Firewall!Do("addOutcome", r) => Goes(7 + Shift, 19 + Shift, r)
           /\ Firewall!Do("addDirection", r) => Goes(8 + Shift, 19 + Shift, r)
           /\ Firewall!Do("conditionalRename", r) => Goes(9 + Shift, 19 + Shift, r)
           /\ Firewall!Do("ianaNumber", r) => Goes(10 + Shift, 19 + Shift, r)
           /\ Firewall!Do("transportFromIANA", r) => Goes(11 + Shift, 19 + Shift, r)
           /\ Firewall!Do("convertJsonPayload", r) => Goes(12 + Shift, 19 + Shift, r)
           /\ Firewall!Do("dropEmptyObjects", r) => Goes(13 + Shift, 19 + Shift, r)
           /\ Firewall!Do("copyAddressFields", r) => Goes(14 + Shift, 19 + Shift, r)
           /\ Firewall!Do("setCloudMetadata", r) => Goes(15 + Shift, 19 + Shift, r)
           /\ Firewall!Do("communityId", r) => Goes(16 + Shift, 19 + Shift, r)
           /\ Firewall!Do("setInternalDirection", r) => Goes(17 + Shift, 19 + Shift, r)
           /\ Firewall!Do("setNetworkType", r) => Goes(18 + Shift, 19 + Shift, r)
           /\ Firewall!Do("setRelatedIP", r) => Goes(19 + Shift, 19 + Shift, r)
  <1>1. ASSUME NEW name, Firewall!Do(name, r)
        PROVE  Firewall!Chain[at] = name /\ Goes(at, Len(Firewall!Chain), r)
    BY <1>1 DEF Firewall!Do, Firewall!Step, Goes
  <1>2. /\ Len(Firewall!Chain) = 19 + Shift
        /\ Firewall!Chain[at] = "decodeJson" => at = 1
        /\ Firewall!Chain[at] = "parseTimestamp" => at = 2
        /\ Firewall!Chain[at] = "saveOriginalMessage" => input.keep /\ at = 3
        /\ Firewall!Chain[at] = "dropPubSubFields" => at = 3 + Shift
        /\ Firewall!Chain[at] = "categorizeEvent" => at = 4 + Shift
        /\ Firewall!Chain[at] = "saveMetadata" => at = 5 + Shift
        /\ Firewall!Chain[at] = "convertLogEntry" => at = 6 + Shift
        /\ Firewall!Chain[at] = "addOutcome" => at = 7 + Shift
        /\ Firewall!Chain[at] = "addDirection" => at = 8 + Shift
        /\ Firewall!Chain[at] = "conditionalRename" => at = 9 + Shift
        /\ Firewall!Chain[at] = "ianaNumber" => at = 10 + Shift
        /\ Firewall!Chain[at] = "transportFromIANA" => at = 11 + Shift
        /\ Firewall!Chain[at] = "convertJsonPayload" => at = 12 + Shift
        /\ Firewall!Chain[at] = "dropEmptyObjects" => at = 13 + Shift
        /\ Firewall!Chain[at] = "copyAddressFields" => at = 14 + Shift
        /\ Firewall!Chain[at] = "setCloudMetadata" => at = 15 + Shift
        /\ Firewall!Chain[at] = "communityId" => at = 16 + Shift
        /\ Firewall!Chain[at] = "setInternalDirection" => at = 17 + Shift
        /\ Firewall!Chain[at] = "setNetworkType" => at = 18 + Shift
        /\ Firewall!Chain[at] = "setRelatedIP" => at = 19 + Shift
    <2>1. CASE input.keep
      BY <2>1 DEF Firewall!Chain, Shift
    <2>2. CASE ~input.keep
      BY <2>2 DEF Firewall!Chain, Shift
    <2> QED
      BY <2>1, <2>2
  <1> QED
    BY <1>1, <1>2

LEMMA FirewallSteps ==
    ASSUME Firewall!Next, input.keep \in BOOLEAN, at \in 1..(19 + Shift)
    PROVE  \/ Goes(1, 19 + Shift, DecodeJSON(evt, <<"message">>, <<"json">>))
           \/ Goes(2, 19 + Shift, Timestamp(evt, <<"json", "timestamp">>))
           \/ input.keep /\ Goes(3, 19 + Shift, Convert(evt, Original, "rename", FALSE, TRUE))
           \/ Goes(3 + Shift, 19 + Shift, Ok(Delete(Delete(evt, <<"message">>), <<"labels">>)))
           \/ Goes(4 + Shift, 19 + Shift, Ok(PutAll(evt, Categories("firewall-rule", "firewall"))))
           \/ Goes(5 + Shift, 19 + Shift, Convert(evt, <<Logger, Subnetwork>>, "copy", TRUE, TRUE))
           \/ Goes(6 + Shift, 19 + Shift, Convert(evt, Entry("jsonPayload"), "rename", FALSE, TRUE))
           \/ Goes(7 + Shift, 19 + Shift,
                   Mapped(<<"json", "disposition">>, <<"event", "outcome">>, Outcomes,
                          Str("unknown")))
           \/ Goes(8 + Shift, 19 + Shift,
                   Mapped(Direction, <<"network", "direction">>, Directions, Str("unknown")))
           \/ Goes(9 + Shift, 19 + Shift,
                   Either(Get(evt, Direction),
                          Convert(evt, Firewall!NearAndFar(Src, Dest), "rename", TRUE, FALSE),
                          Convert(evt, Firewall!NearAndFar(Dest, Src), "rename", TRUE, FALSE)))
           \/ Goes(10 + Shift, 19 + Shift, Convert(evt, FirewallProtocol, "copy", FALSE, FALSE))
           \/ Goes(11 + Shift, 19 + Shift,
                   Mapped(<<"network", "iana_number">>, <<"network", "transport">>, Transports,
                          Null))
           \/ Goes(12 + Shift, 19 + Shift, Convert(evt, FirewallFields, "rename", TRUE, FALSE))
           \/ Goes(13 + Shift, 19 + Shift, Ok(DeleteAll(evt, FirewallEmpty)))
           \/ Goes(14 + Shift, 19 + Shift,
                   Convert(evt, <<CopiesToIP(Src), CopiesToIP(Dest)>>, "copy", FALSE, FALSE))
           \/ Goes(15 + Shift, 19 + Shift,
                   Either(Get(evt, Direction), Convert(evt, CloudFields(Src), "copy", TRUE, TRUE),
                          Convert(evt, CloudFields(Dest), "copy", TRUE, TRUE)))
           \/ Goes(16 + Shift, 19 + Shift,
                   Ok(CommunityID(evt, Get(evt, <<"network", "iana_number">>))))
           \/ Goes(17 + Shift, 19 + Shift, Ok(FirewallInternal))
           \/ Goes(18 + Shift, 19 + Shift, Ok(SetNetworkType(evt)))
           \/ Goes(19 + Shift, 19 + Shift, Ok(SetRelatedIP(evt)))
  <1>1. Firewall!decodeJson =>
        Goes(1, 19 + Shift, DecodeJSON(evt, <<"message">>, <<"json">>))
    BY FirewallPlace, FirewallSame DEF Firewall!decodeJson
  <1>2. Firewall!parseTimestamp =>
        Goes(2, 19 + Shift, Timestamp(evt, <<"json", "timestamp">>))
    BY FirewallPlace, FirewallSame DEF Firewall!parseTimestamp
  <1>3. Firewall!saveOriginalMessage =>
        input.keep /\ Goes(3, 19 + Shift, Convert(evt, Original, "rename", FALSE, TRUE))
    BY FirewallPlace, FirewallSame DEF Firewall!saveOriginalMessage, Original
  <1>4. Firewall!dropPubSubFields =>
        Goes(3 + Shift, 19 + Shift, Ok(Delete(Delete(evt, <<"message">>), <<"labels">>)))
    BY FirewallPlace, FirewallSame DEF Firewall!dropPubSubFields
  <1>5. Firewall!categorizeEvent =>
        Goes(4 + Shift, 19 + Shift, Ok(PutAll(evt, Categories("firewall-rule", "firewall"))))
    BY FirewallPlace, FirewallSame DEF Firewall!categorizeEvent, Categories
  <1>6. Firewall!saveMetadata =>
        Goes(5 + Shift, 19 + Shift, Convert(evt, <<Logger, Subnetwork>>, "copy", TRUE, TRUE))
    BY FirewallPlace, FirewallSame DEF Firewall!saveMetadata, Logger, Subnetwork
  <1>7. Firewall!convertLogEntry =>
        Goes(6 + Shift, 19 + Shift,
             Convert(evt, Entry("jsonPayload"), "rename", FALSE, TRUE))
    BY FirewallPlace, FirewallSame DEF Firewall!convertLogEntry, Entry
  <1>8. Firewall!addOutcome =>
        Goes(7 + Shift, 19 + Shift,
             Mapped(<<"json", "disposition">>, <<"event", "outcome">>, Outcomes,
                    Str("unknown")))
    BY FirewallPlace, FirewallSame DEF Firewall!addOutcome, Mapped, Firewall!makeMapper, Outcomes
  <1>9. Firewall!addDirection =>
        Goes(8 + Shift, 19 + Shift,
             Mapped(Direction, <<"network", "direction">>, Directions, Str("unknown")))
    BY FirewallPlace, FirewallSame DEF Firewall!addDirection, Mapped, Firewall!makeMapper,
       Directions, Direction, Firewall!Direction
  <1>10. Firewall!conditionalRename =>
        Goes(9 + Shift, 19 + Shift,
             Either(Get(evt, Direction),
                    Convert(evt, Firewall!NearAndFar(Src, Dest), "rename", TRUE, FALSE),
                    Convert(evt, Firewall!NearAndFar(Dest, Src), "rename", TRUE, FALSE)))
    BY FirewallPlace, FirewallSame, FirewallEither DEF Firewall!conditionalRename, Direction,
       Firewall!Direction
  <1>11. Firewall!ianaNumber =>
        Goes(10 + Shift, 19 + Shift, Convert(evt, FirewallProtocol, "copy", FALSE, FALSE))
    BY FirewallPlace, FirewallSame DEF Firewall!ianaNumber, FirewallProtocol
  <1>12. Firewall!transportFromIANA =>
        Goes(11 + Shift, 19 + Shift,
             Mapped(<<"network", "iana_number">>, <<"network", "transport">>, Transports,
                    Null))
    BY FirewallPlace, FirewallSame DEF Firewall!transportFromIANA, Mapped, Firewall!makeMapper,
       Transports
  <1>13. Firewall!convertJsonPayload =>
        Goes(12 + Shift, 19 + Shift, Convert(evt, FirewallFields, "rename", TRUE, FALSE))
    BY FirewallPlace, FirewallSame DEF Firewall!convertJsonPayload, FirewallFields
  <1>14. Firewall!dropEmptyObjects =>
        Goes(13 + Shift, 19 + Shift, Ok(DeleteAll(evt, FirewallEmpty)))
    BY FirewallPlace, FirewallSame DEF Firewall!dropEmptyObjects, FirewallEmpty
  <1>15. Firewall!copyAddressFields =>
        Goes(14 + Shift, 19 + Shift,
             Convert(evt, <<CopiesToIP(Src), CopiesToIP(Dest)>>, "copy", FALSE, FALSE))
    BY FirewallPlace, FirewallSame DEF Firewall!copyAddressFields
  <1>16. Firewall!setCloudMetadata =>
        Goes(15 + Shift, 19 + Shift,
             Either(Get(evt, Direction),
                    Convert(evt, CloudFields(Src), "copy", TRUE, TRUE),
                    Convert(evt, CloudFields(Dest), "copy", TRUE, TRUE)))
    BY FirewallPlace, FirewallSame, FirewallEither DEF Firewall!setCloudMetadata, Direction,
       Firewall!Direction
  <1>17. Firewall!communityId =>
        Goes(16 + Shift, 19 + Shift,
             Ok(CommunityID(evt, Get(evt, <<"network", "iana_number">>))))
    BY FirewallPlace, FirewallSame DEF Firewall!communityId
  <1>18. Firewall!setInternalDirection =>
        Goes(17 + Shift, 19 + Shift, Ok(FirewallInternal))
    BY FirewallPlace, FirewallSame DEF Firewall!setInternalDirection, FirewallInternal
  <1>19. Firewall!setNetworkType =>
        Goes(18 + Shift, 19 + Shift, Ok(SetNetworkType(evt)))
    BY FirewallPlace, FirewallSame DEF Firewall!setNetworkType
  <1>20. Firewall!setRelatedIP =>
        Goes(19 + Shift, 19 + Shift, Ok(SetRelatedIP(evt)))
    BY FirewallPlace, FirewallSame DEF Firewall!setRelatedIP
  <1> QED
    BY <1>1, <1>2, <1>3, <1>4, <1>5, <1>6, <1>7, <1>8, <1>9, <1>10, <1>11, <1>12, <1>13, <1>14,
       <1>15, <1>16, <1>17, <1>18, <1>19, <1>20 DEF Firewall!Next

(* audit *)
AuditProject ==
    Field(<<"json", "resource", "labels", "project_id">>, <<"cloud", "project", "id">>)
AuditExtra ==
    {<<"json">>, Audit!Audit(<<"request_metadata", "requestAttributes">>),
     Audit!Audit(<<"request_metadata", "destinationAttributes">>)}
AuditRenamed(arr) ==
    IF arr = Null THEN Throw(evt)
    ELSE Ok(Put(evt, Audit!Authorizations,
                <<"list", [x \in DOMAIN arr[2] |-> Audit!Renamed(arr[2][x])]>>))

(* A step of audit, by its place in the script and its result.               *)
LEMMA AuditPlace ==
    ASSUME NEW r, at \in 1..12
    PROVE  /\ Audit!Do("decodeJson", r) => Goes(1, 12, r)
           /\ Audit!Do("parseTimestamp", r) => Goes(2, 12, r)
           /\ Audit!Do("saveOriginalMessage", r) => Goes(3, 12, r)
           /\ Audit!Do("dropPubSubFields", r) => Goes(4, 12, r)
           /\ Audit!Do("saveMetadata", r) => Goes(5, 12, r)
           /\ Audit!Do("setCloudMetadata", r) => Goes(6, 12, r)
           /\ Audit!Do("convertLogEntry", r) => Goes(7, 12, r)
           /\ Audit!Do("convertProtoPayload", r) => Goes(8, 12, r)
           /\ Audit!Do("copyFields", r) => Goes(9, 12, r)
           /\ Audit!Do("dropExtraFields", r) => Goes(10, 12, r)
           /\ Audit!Do("RenameNestedFields", r) => Goes(11, 12, r)
           /\ Audit!Do("setEventOutcome", r) => Goes(12, 12, r)
  <1>1. ASSUME NEW name, Audit!Do(name, r)
        PROVE  Audit!Chain[at] = name /\ Goes(at, Len(Audit!Chain), r)
    BY <1>1 DEF Audit!Do, Audit!Step, Goes
  <1>2. /\ Len(Audit!Chain) = 12
        /\ Audit!Chain[at] = "decodeJson" => at = 1
        /\ Audit!Chain[at] = "parseTimestamp" => at = 2
        /\ Audit!Chain[at] = "saveOriginalMessage" => at = 3
        /\ Audit!Chain[at] = "dropPubSubFields" => at = 4
        /\ Audit!Chain[at] = "saveMetadata" => at = 5
        /\ Audit!Chain[at] = "setCloudMetadata" => at = 6
        /\ Audit!Chain[at] = "convertLogEntry" => at = 7
        /\ Audit!Chain[at] = "convertProtoPayload" => at = 8
        /\ Audit!Chain[at] = "copyFields" => at = 9
        /\ Audit!Chain[at] = "dropExtraFields" => at = 10
        /\ Audit!Chain[at] = "RenameNestedFields" => at = 11
        /\ Audit!Chain[at] = "setEventOutcome" => at = 12
    BY DEF Audit!Chain
  <1> QED
    BY <1>1, <1>2

LEMMA AuditSteps ==
    ASSUME Audit!Next, at \in 1..(12)
    PROVE  \/ Goes(1, 12, DecodeJSON(evt, <<"message">>, <<"json">>))
           \/ Goes(2, 12, Timestamp(evt, <<"json", "timestamp">>))
           \/ Goes(3, 12,
                   IF input.keep THEN Convert(evt, Original, "rename", FALSE, TRUE) ELSE Ok(evt))
           \/ Goes(4, 12, Ok(Delete(evt, <<"message">>)))
           \/ Goes(5, 12, Convert(evt, <<Logger>>, "copy", TRUE, TRUE))
           \/ Goes(6, 12, Convert(evt, <<AuditProject>>, "copy", TRUE, TRUE))
           \/ Goes(7, 12, Convert(evt, Entry("protoPayload"), "rename", FALSE, TRUE))
           \/ Goes(8, 12, Convert(evt, Audit!PayloadFields, "rename", TRUE, TRUE))
           \/ Goes(9, 12, Convert(evt, Audit!CopiedFields, "copy", FALSE, FALSE))
           \/ Goes(10, 12, Ok(DeleteAll(evt, AuditExtra)))
           \/ Goes(11, 12, AuditRenamed(Get(evt, Audit!Authorizations)))
           \/ Goes(12, 12,
                   Ok(Put(evt, <<"event", "outcome">>,
                          Str(Audit!OutcomeOf(Get(evt, Audit!Audit(<<"status", "code">>)),
                                              Get(evt, Audit!Authorizations)[2])))))
  BY AuditPlace, AuditSame
  DEF
    Audit!decodeJson, Audit!parseTimestamp, Audit!saveOriginalMessage, Original,
    Audit!dropPubSubFields, Audit!saveMetadata, Logger, Audit!setCloudMetadata, AuditProject,
    Audit!convertLogEntry, Entry, Audit!convertProtoPayload, Audit!copyFields,
    Audit!dropExtraFields, AuditExtra, Audit!RenameNestedFields, AuditRenamed,
    Audit!setEventOutcome, Audit!Next

(* cisco; five more steps for a line of a file.                              *)
Header == IF Cisco!FromFile THEN 5 ELSE 0
Logged == <<Field(<<"message">>, <<"log", "original">>)>>
Taken == <<Field(<<"_tmp", "message">>, <<"message">>)>>
Replaced(e, from, to) == Rename(Delete(e, to), from, to)
Levelled(severity) ==
    IF severity \in DOMAIN Cisco!LevelKeyword
    THEN Put(evt, <<"log", "level">>, Str(Cisco!LevelKeyword[severity])) ELSE evt
AccessListed(eventCode) ==
    IF eventCode # Null /\ eventCode[2] \in DOMAIN Cisco!accessListMessagePatterns
    THEN Cisco!AccessList(Cisco!accessListMessagePatterns[eventCode[2]])
    ELSE Ok(evt)

(* A step of cisco, by its place in the script and its result.               *)
LEMMA CiscoPlace ==
    ASSUME NEW r, at \in 1..(7 + Header)
    PROVE  /\ Cisco!Do("copyOriginalMessage", r) => Goes(1, 7 + Header, r)
           /\ Cisco!Do("dissectHeader", r) => Cisco!FromFile /\ Goes(2, 7 + Header, r)
           /\ Cisco!Do("takeMessage", r) => Cisco!FromFile /\ Goes(3, 7 + Header, r)
           /\ Cisco!Do("convertSequence", r) => Cisco!FromFile /\ Goes(4, 7 + Header, r)
           /\ Cisco!Do("parseTimestamp", r) => Cisco!FromFile /\ Goes(5, 7 + Header, r)
           /\ Cisco!Do("deleteTmp", r) => Cisco!FromFile /\ Goes(6, 7 + Header, r)
           /\ Cisco!Do("dissectMessage", r) => Goes(2 + Header, 7 + Header, r)
           /\ Cisco!Do("replaceFields", r) => Goes(3 + Header, 7 + Header, r)
           /\ Cisco!Do("convertSeverity", r) => Goes(4 + Header, 7 + Header, r)
           /\ Cisco!Do("setLogLevel", r) => Goes(5 + Header, 7 + Header, r)
           /\ Cisco!Do("accessList", r) => Goes(6 + Header, 7 + Header, r)
           /\ Cisco!Do("communityId", r) => Goes(7 + Header, 7 + Header, r)
  <1>1. ASSUME NEW name, Cisco!Do(name, r)
        PROVE  Cisco!Chain[at] = name /\ Goes(at, Len(Cisco!Chain), r)
    BY <1>1 DEF Cisco!Do, Cisco!Step, Goes
  <1>2. /\ Len(Cisco!Chain) = 7 + Header
        /\ Cisco!Chain[at] = "copyOriginalMessage" => at = 1
        /\ Cisco!Chain[at] = "dissectHeader" => Cisco!FromFile /\ at = 2
        /\ Cisco!Chain[at] = "takeMessage" => Cisco!FromFile /\ at = 3
        /\ Cisco!Chain[at] = "convertSequence" => Cisco!FromFile /\ at = 4
        /\ Cisco!Chain[at] = "parseTimestamp" => Cisco!FromFile /\ at = 5
        /\ Cisco!Chain[at] = "deleteTmp" => Cisco!FromFile /\ at = 6
        /\ Cisco!Chain[at] = "dissectMessage" => at = 2 + Header
        /\ Cisco!Chain[at] = "replaceFields" => at = 3 + Header
        /\ Cisco!Chain[at] = "convertSeverity" => at = 4 + Header
        /\ Cisco!Chain[at] = "setLogLevel" => at = 5 + Header
        /\ Cisco!Chain[at] = "accessList" => at = 6 + Header
        /\ Cisco!Chain[at] = "communityId" => at = 7 + Header
    <2>1. CASE Cisco!FromFile
      BY <2>1 DEF Cisco!Chain, Header, Cisco!parseSyslogFileHeader, Cisco!processMessage
    <2>2. CASE ~Cisco!FromFile
      BY <2>2 DEF Cisco!Chain, Header, Cisco!parseSyslogFileHeader, Cisco!processMessage
    <2> QED
      BY <2>1, <2>2
  <1> QED
    BY <1>1, <1>2

LEMMA CiscoSteps ==
    ASSUME Cisco!Next, at \in 1..(7 + Header)
    PROVE  \/ Goes(1, 7 + Header, Convert(evt, Logged, "copy", FALSE, TRUE))
           \/ Cisco!FromFile /\ Goes(2, 7 + Header,
                                     Dissect(evt, Cisco!HeaderOf(Get(evt, <<"message">>))))
           \/ Cisco!FromFile /\ Goes(3, 7 + Header, Convert(evt, Taken, "rename", FALSE, TRUE))
           \/ Cisco!FromFile /\ Goes(4, 7 + Header,
                                     Convert(evt, <<Cisco!InPlace(<<"event", "sequence">>)>>,
                                             "copy", TRUE, TRUE))
           \/ Cisco!FromFile /\ Goes(5, 7 + Header, Timestamp(evt, <<"_tmp", "timestamp">>))
           \/ Cisco!FromFile /\ Goes(6, 7 + Header, Ok(Delete(evt, <<"_tmp">>)))
           \/ Goes(2 + Header, 7 + Header,
                   Dissect(evt, Cisco!MessageFields(Get(evt, <<"message">>))))
           \/ Goes(3 + Header, 7 + Header,
                   Ok(Replaced(Replaced(evt, <<"_message">>, <<"message">>),
                               <<"_event_severity">>, <<"event", "severity">>)))
           \/ Goes(4 + Header, 7 + Header,
                   Convert(evt, <<Cisco!InPlace(<<"event", "severity">>)>>, "copy", FALSE, TRUE))
           \/ Goes(5 + Header, 7 + Header, Ok(Levelled(Get(evt, <<"event", "severity">>)[2])))
           \/ Goes(6 + Header, 7 + Header, AccessListed(Get(evt, <<"event", "code">>)))
           \/ Goes(7 + Header, 7 + Header,
                   Ok(CommunityID(evt,
                                  IF Has(evt, <<"network", "transport">>)
                                  THEN evt[<<"network", "transport">>]
                                  ELSE Get(evt, <<"network", "iana_number">>))))
  BY CiscoPlace, CiscoSame
  DEF
    Cisco!copyOriginalMessage, Logged, Cisco!dissectHeader, Cisco!takeMessage, Taken,
    Cisco!convertSequence, Cisco!parseTimestamp, Cisco!deleteTmp, Cisco!dissectMessage,
    Cisco!replaceFields, Replaced, Cisco!Replace, Cisco!convertSeverity, Cisco!setLogLevel,
    Levelled, Cisco!accessList, AccessListed, Cisco!communityId, Cisco!Transport, Cisco!Next

(* misp *)
MispFields ==
    <<Field(<<"json", "Event", "info">>, Misp!Indicator(<<"description">>)),
      Field(<<"json", "Event", "uuid">>, Misp!Indicator(<<"id">>))>>
MispAttack ==
    LET indicator_type == Get(evt, <<"json", "type">>)
        t == IF indicator_type = Null THEN "null" ELSE indicator_type[2]
        v == Get(evt, <<"json", "value">>)
        e == PutAll(evt, <<<<<<"message">>, v>>, <<Misp!Indicator(<<"type">>), indicator_type>>>>)
        text == IF v = Null THEN Misp!Value(<<<<"null">>>>) ELSE v
        f == CASE t \in Misp!Observed /\ v # Null -> PutAll(e, Misp!Compared(t, v))
               [] t \in Misp!Observed /\ v = Null -> Put(e, Misp!FieldOf[t], Null)
               [] OTHER -> e
    IN  IF v = Null /\ t \in Misp!CallsMethod THEN Throw(e)
        ELSE Ok(Misp!Explained(f, t, Misp!Compared(t, text)))

(* A step of misp, by its place in the script and its result.                *)
LEMMA MispPlace ==
    ASSUME NEW r, at \in 1..5
    PROVE  /\ Misp!Do("decodeJson", r) => Goes(1, 5, r)
           /\ Misp!Do("categorizeEvent", r) => Goes(2, 5, r)
           /\ Misp!Do("setThreatFeedField", r) => Goes(3, 5, r)
           /\ Misp!Do("convertFields", r) => Goes(4, 5, r)
           /\ Misp!Do("setAttackPattern", r) => Goes(5, 5, r)
  <1>1. ASSUME NEW name, Misp!Do(name, r)
        PROVE  Misp!Chain[at] = name /\ Goes(at, Len(Misp!Chain), r)
    BY <1>1 DEF Misp!Do, Misp!Step, Goes
  <1>2. /\ Len(Misp!Chain) = 5
        /\ Misp!Chain[at] = "decodeJson" => at = 1
        /\ Misp!Chain[at] = "categorizeEvent" => at = 2
        /\ Misp!Chain[at] = "setThreatFeedField" => at = 3
        /\ Misp!Chain[at] = "convertFields" => at = 4
        /\ Misp!Chain[at] = "setAttackPattern" => at = 5
    BY DEF Misp!Chain
  <1> QED
    BY <1>1, <1>2

LEMMA MispSteps ==
    ASSUME Misp!Next, at \in 1..(5)
    PROVE  \/ Goes(1, 5, DecodeJSON(evt, <<"message">>, <<"json">>))
           \/ Goes(2, 5, Ok(PutAll(evt, Categories("threat-intel", "indicator"))))
           \/ Goes(3, 5, Ok(Put(evt, Misp!Indicator(<<"feed">>), Str("misp"))))
           \/ Goes(4, 5, Convert(evt, MispFields, "rename", TRUE, TRUE))
           \/ Goes(5, 5, MispAttack)
  BY MispPlace, MispSame
  DEF
    Misp!decodeJson, Misp!categorizeEvent, Categories, Misp!setThreatFeedField,
    Misp!convertFields, MispFields, Misp!setAttackPattern, MispAttack, Misp!Next

-----------------------------------------------------------------------------
(*                       Steps that leave the entry alone                    *)

(* What the steps of googlecloud do with the entry shows at these paths;     *)
(* most steps write beside them.                                             *)
EntryNames == {"message", "json", "googlecloud"}
Quiet(e, f) ==
    /\ IsEvent(f)
    /\ \A q \in Paths : q[1] \in EntryNames \/ q = <<"event", "original">> => Same(e, f, q)
Aside(p) == p \in Paths /\ p[1] \notin EntryNames /\ Apart(p, <<"event", "original">>)
AllFields == Paths \X Paths \X {"", "long", "ip", "string"}
AsideFields == {f \in AllFields : Aside(f[2])}

LEMMA QuietSame ==
    ASSUME NEW e, IsEvent(e)
    PROVE  Quiet(e, e)
  BY DEF Quiet, Same

LEMMA QuietTransitive ==
    ASSUME NEW e, NEW f, NEW g, Quiet(e, f), Quiet(f, g)
    PROVE  Quiet(e, g)
  BY DEF Quiet, Same

LEMMA OriginalIsPath == <<"event", "original">> \in Paths
  BY StringsAssumption DEF Paths, Names

(* What differs only below a path that is aside.                             *)
LEMMA AsideApart ==
    ASSUME NEW p, Aside(p), NEW q \in Paths, q[1] \in EntryNames \/ q = <<"event", "original">>
    PROVE  Apart(p, q)
  <1>1. CASE q[1] \in EntryNames
    BY <1>1, FirstApart DEF Aside
  <1>2. CASE q = <<"event", "original">>
    BY <1>2 DEF Aside
  <1> QED
    BY <1>1, <1>2

LEMMA QuietPut ==
    ASSUME NEW e, IsEvent(e), NEW p, Aside(p), NEW v
    PROVE  Quiet(e, Put(e, p, v))
  <1>1. p \in Paths
    BY DEF Aside
  <1>2. IsEvent(Put(e, p, v)) /\ Confined({p}, e, Put(e, p, v))
    BY <1>1, PutAt
  <1>3. ASSUME NEW q \in Paths, q[1] \in EntryNames \/ q = <<"event", "original">>
        PROVE  Same(e, Put(e, p, v), q)
    <2>1. Apart(p, q)
      BY <1>3, AsideApart
    <2> QED
      BY <1>2, <2>1 DEF Confined, Same
  <1> QED
    BY <1>2, <1>3 DEF Quiet

LEMMA AsideAreFields ==
    ASSUME NEW fields \in Seq(AllFields)
    PROVE  AreFields(fields)
  <1>1. Len(fields) \in Nat /\ DOMAIN fields = 1..Len(fields)
    OBVIOUS
  <1>2. ASSUME NEW n \in 1..Len(fields)
        PROVE  fields[n][1] \in Paths /\ fields[n][2] \in Paths
    <2>1. fields[n] \in AllFields
      OBVIOUS
    <2> QED
      BY <2>1 DEF AllFields
  <1> QED
    BY <1>1, <1>2 DEF AreFields

(* A list of copies to paths aside is quiet.                                 *)
LEMMA QuietFrom ==
    ASSUME NEW e, IsEvent(e), NEW fields \in Seq(AsideFields)
    PROVE  Quiet(e, From(e, e, fields, "copy"))
  <1>1. fields \in Seq(AllFields)
    BY DEF AsideFields
  <1>2. AreFields(fields)
    BY <1>1, AsideAreFields
  <1>3. IsEvent(From(e, e, fields, "copy"))
    BY <1>2, FromIsEvent
  <1>4. ASSUME NEW q \in Paths, q[1] \in EntryNames \/ q = <<"event", "original">>
        PROVE  Same(e, From(e, e, fields, "copy"), q)
    <2>1. ASSUME NEW n \in 1..Len(fields)
          PROVE  Spared(fields[n], "copy", q)
      <3>1. fields[n] \in AsideFields
        OBVIOUS
      <3>2. Aside(fields[n][2])
        BY <3>1 DEF AsideFields
      <3>3. Apart(fields[n][2], q)
        BY <1>4, <3>2, AsideApart
      <3> QED
        BY <3>3 DEF Spared, Touched
    <2> QED
      BY <1>2, <2>1, FromSpares
  <1> QED
    BY <1>3, <1>4 DEF Quiet

LEMMA QuietConvert ==
    ASSUME NEW e, IsEvent(e), NEW fields \in Seq(AsideFields),
           NEW ignore_missing, NEW fail_on_error
    PROVE  Quiet(e, Convert(e, fields, "copy", ignore_missing, fail_on_error).evt)
  BY EachFrom, QuietSame, QuietFrom DEF Convert, Throw, Ok

LEMMA AppendToQuiet ==
    ASSUME NEW e, IsEvent(e), NEW p, Aside(p), NEW v
    PROVE  Quiet(e, AppendTo(e, p, v))
  BY QuietSame, QuietPut DEF AppendTo

(* The names of the two ends.                                                *)
LEMMA EndNames ==
    ASSUME NEW x \in {Src, Dest}
    PROVE  /\ x.end \in {"source", "destination"}
           /\ x.end \in STRING /\ x.ip \in STRING /\ x.port \in STRING /\ x.vpc \in STRING
           /\ x.instance \in STRING /\ x.location \in STRING
  <1>1. CASE x = Src
    BY <1>1, StringsAssumption DEF Src
  <1>2. CASE x = Dest
    BY <1>2, StringsAssumption DEF Dest
  <1> QED
    BY <1>1, <1>2

LEMMA AsideFirst ==
    ASSUME NEW p \in Paths, p[1] \notin EntryNames \union {"event"}
    PROVE  Aside(p)
  BY OriginalIsPath, FirstApart DEF Aside

LEMMA CommonAside ==
    /\ Aside(<<"@timestamp">>)
    /\ Aside(<<"event", "category">>) /\ Aside(<<"event", "type">>) /\ Aside(<<"event", "outcome">>)
    /\ Aside(<<"network", "direction">>) /\ Aside(<<"network", "transport">>)
    /\ Aside(<<"network", "type">>) /\ Aside(<<"network", "community_id">>)
    /\ Aside(<<"related", "ip">>)
  <1>1. /\ <<"@timestamp">> \in Paths
        /\ <<"event", "category">> \in Paths /\ <<"event", "type">> \in Paths
        /\ <<"event", "outcome">> \in Paths
        /\ <<"network", "direction">> \in Paths /\ <<"network", "transport">> \in Paths
        /\ <<"network", "type">> \in Paths /\ <<"network", "community_id">> \in Paths
        /\ <<"related", "ip">> \in Paths
    BY StringsAssumption DEF Paths, Names
  <1>2. /\ Apart(<<"event", "category">>, <<"event", "original">>)
        /\ Apart(<<"event", "type">>, <<"event", "original">>)
        /\ Apart(<<"event", "outcome">>, <<"event", "original">>)
    BY DEF Apart
  <1>3. Aside(<<"event", "category">>) /\ Aside(<<"event", "type">>) /\ Aside(<<"event", "outcome">>)
    BY <1>1, <1>2 DEF Aside, EntryNames
  <1>4. Aside(<<"@timestamp">>)
    BY <1>1, AsideFirst DEF EntryNames
  <1>5. Aside(<<"network", "direction">>) /\ Aside(<<"network", "transport">>)
    BY <1>1, AsideFirst DEF EntryNames
  <1>6. Aside(<<"network", "type">>) /\ Aside(<<"network", "community_id">>)
    BY <1>1, AsideFirst DEF EntryNames
  <1>7. Aside(<<"related", "ip">>)
    BY <1>1, AsideFirst DEF EntryNames
  <1> QED
    BY <1>3, <1>4, <1>5, <1>6, <1>7

LEMMA TimestampQuiet ==
    ASSUME NEW e, IsEvent(e), NEW from
    PROVE  Quiet(e, Timestamp(e, from).evt)
  <1>1. Timestamp(e, from).evt \in {e, Put(e, <<"@timestamp">>, e[from])}
    BY Zenon DEF Timestamp, Ok, Throw
  <1> QED
    BY <1>1, QuietSame, QuietPut, CommonAside

LEMMA CategoriesQuiet ==
    ASSUME NEW e, IsEvent(e), NEW category, NEW type
    PROVE  Quiet(e, PutAll(e, Categories(category, type)))
  <1> DEFINE fields == Categories(category, type)
  <1>1. /\ Len(fields) = 2 /\ DOMAIN fields = 1..2
        /\ fields[1][1] = <<"event", "category">> /\ fields[2][1] = <<"event", "type">>
    BY DEF Categories
  <1> HIDE DEF fields
  <1>2. \A n \in 1..2 : Aside(fields[n][1])
    BY <1>1, CommonAside
  <1>3. ArePuts(fields)
    BY <1>1, <1>2 DEF ArePuts, Aside
  <1>4. ASSUME NEW q \in Paths, q[1] \in EntryNames \/ q = <<"event", "original">>
        PROVE  Same(e, PutAll(e, fields), q)
    BY <1>1, <1>2, <1>4, AsideApart, <1>3, PutAllKeeps
  <1>5. Quiet(e, PutAll(e, fields))
    BY <1>3, <1>4, PutAllKeeps DEF Quiet
  <1> QED
    BY <1>5 DEF fields

LEMMA SetNetworkTypeQuiet ==
    ASSUME NEW e, IsEvent(e)
    PROVE  Quiet(e, SetNetworkType(e))
  BY QuietSame, QuietPut, CommonAside DEF SetNetworkType

LEMMA SetRelatedIPQuiet ==
    ASSUME NEW e, IsEvent(e)
    PROVE  Quiet(e, SetRelatedIP(e))
  <1> DEFINE f == AppendTo(e, <<"related", "ip">>, Get(e, <<"source", "ip">>))
             g == AppendTo(f, <<"related", "ip">>, Get(f, <<"destination", "ip">>))
  <1>1. Quiet(e, f)
    BY AppendToQuiet, CommonAside
  <1>2. Quiet(f, g)
    BY <1>1, AppendToQuiet, CommonAside DEF Quiet
  <1>3. SetRelatedIP(e) = g
    BY DEF SetRelatedIP
  <1> QED
    BY <1>1, <1>2, <1>3, QuietTransitive

LEMMA CommunityIDQuiet ==
    ASSUME NEW e, IsEvent(e), NEW transport
    PROVE  Quiet(e, CommunityID(e, transport))
  BY QuietSame, QuietPut, CommonAside DEF CommunityID

LEMMA MappedQuiet ==
    ASSUME IsEvent(evt), NEW from, NEW to, Aside(to), NEW mappings, NEW default
    PROVE  Quiet(evt, Mapped(from, to, mappings, default).evt)
  BY QuietSame, QuietPut DEF Mapped, Ok

(* Every field of these lists is copied to a path aside.                     *)
LEMMA LoggerAside == <<Logger>> \in Seq(AsideFields)
  <1>1. <<"json", "logName">> \in Paths /\ <<"log", "logger">> \in Paths
    BY StringsAssumption DEF Paths, Names
  <1>2. Aside(<<"log", "logger">>)
    BY <1>1, AsideFirst DEF EntryNames
  <1>3. Logger \in AsideFields
    BY <1>1, <1>2 DEF Logger, Field, AsideFields, AllFields
  <1> QED
    BY <1>3

LEMMA SubnetworkAside == <<Logger, Subnetwork>> \in Seq(AsideFields)
  <1>1. /\ <<"json", "resource", "labels", "subnetwork_name">> \in Paths
        /\ <<"network", "name">> \in Paths
    BY StringsAssumption DEF Paths, Names
  <1>2. Aside(<<"network", "name">>)
    BY <1>1, AsideFirst DEF EntryNames
  <1>3. Subnetwork \in AsideFields
    BY <1>1, <1>2 DEF Subnetwork, Field, AsideFields, AllFields
  <1>4. Logger \in AsideFields
    <2>1. Len(<<Logger>>) = 1 /\ <<Logger>>[1] = Logger
      OBVIOUS
    <2> QED
      BY LoggerAside, <2>1
  <1> QED
    BY <1>3, <1>4

LEMMA AuditProjectAside == <<AuditProject>> \in Seq(AsideFields)
  <1>1. /\ <<"json", "resource", "labels", "project_id">> \in Paths
        /\ <<"cloud", "project", "id">> \in Paths
    BY StringsAssumption DEF Paths, Names
  <1>2. Aside(<<"cloud", "project", "id">>)
    BY <1>1, AsideFirst DEF EntryNames
  <1>3. AuditProject \in AsideFields
    BY <1>1, <1>2 DEF AuditProject, Field, AsideFields, AllFields
  <1> QED
    BY <1>3

LEMMA ProtocolAside == FirewallProtocol \in Seq(AsideFields)
  <1>1. /\ <<"json", "connection", "protocol">> \in Paths
        /\ <<"network", "iana_number">> \in Paths
    BY StringsAssumption DEF Paths, Names
  <1>2. Aside(<<"network", "iana_number">>)
    BY <1>1, AsideFirst DEF EntryNames
  <1>3. Typed(<<"json", "connection", "protocol">>, <<"network", "iana_number">>, "long")
            \in AsideFields
    BY <1>1, <1>2 DEF Typed, AsideFields, AllFields
  <1> QED
    BY <1>3 DEF FirewallProtocol

LEMMA CopiesToIPAside ==
    ASSUME NEW x \in {Src, Dest}
    PROVE  CopiesToIP(x) \in AsideFields
  <1>1. <<x.end, "address">> \in Paths /\ <<x.end, "ip">> \in Paths
    BY EndNames, StringsAssumption DEF Paths, Names
  <1>2. Aside(<<x.end, "ip">>)
    BY <1>1, AsideFirst, EndNames DEF EntryNames
  <1> QED
    BY <1>1, <1>2 DEF CopiesToIP, Typed, AsideFields, AllFields

LEMMA CloudFieldsAside ==
    ASSUME NEW x \in {Src, Dest}
    PROVE  CloudFields(x) \in Seq(AsideFields)
  <1> DEFINE instance == <<"googlecloud", x.end, "instance">>
             f1 == Field(instance \o <<"project_id">>, <<"cloud", "project", "id">>)
             f2 == Field(instance \o <<"vm_name">>, <<"cloud", "instance", "name">>)
             f3 == Field(instance \o <<"region">>, <<"cloud", "region">>)
             f4 == Field(instance \o <<"zone">>, <<"cloud", "availability_zone">>)
             f5 == Field(<<"googlecloud", x.end, "vpc", "subnetwork_name">>, <<"network", "name">>)
  <1>1. /\ instance \o <<"project_id">> \in Paths /\ instance \o <<"vm_name">> \in Paths
        /\ instance \o <<"region">> \in Paths /\ instance \o <<"zone">> \in Paths
        /\ <<"googlecloud", x.end, "vpc", "subnetwork_name">> \in Paths
    BY EndNames, StringsAssumption DEF Paths, Names
  <1>2. /\ <<"cloud", "project", "id">> \in Paths /\ <<"cloud", "instance", "name">> \in Paths
        /\ <<"cloud", "region">> \in Paths /\ <<"cloud", "availability_zone">> \in Paths
        /\ <<"network", "name">> \in Paths
    BY StringsAssumption DEF Paths, Names
  <1>3. /\ Aside(<<"cloud", "project", "id">>) /\ Aside(<<"cloud", "instance", "name">>)
        /\ Aside(<<"cloud", "region">>)
    BY <1>2, AsideFirst DEF EntryNames
  <1>4. Aside(<<"cloud", "availability_zone">>) /\ Aside(<<"network", "name">>)
    BY <1>2, AsideFirst DEF EntryNames
  <1>5. f1 \in AsideFields /\ f2 \in AsideFields
    BY <1>1, <1>2, <1>3 DEF Field, AsideFields, AllFields
  <1>6. f3 \in AsideFields /\ f4 \in AsideFields
    BY <1>1, <1>2, <1>3, <1>4 DEF Field, AsideFields, AllFields
  <1>7. f5 \in AsideFields
    BY <1>1, <1>2, <1>4 DEF Field, AsideFields, AllFields
  <1>8. CloudFields(x) = <<f1, f2, f3, f4, f5>>
    BY DEF CloudFields
  <1> HIDE DEF f1, f2, f3, f4, f5
  <1> QED
    BY <1>5, <1>6, <1>7, <1>8

LEMMA TotalsAside == VpcflowTotals \in Seq(AsideFields)
  <1>1. /\ <<"source", "bytes">> \in Paths /\ <<"network", "bytes">> \in Paths
        /\ <<"source", "packets">> \in Paths /\ <<"network", "packets">> \in Paths
    BY StringsAssumption DEF Paths, Names
  <1>2. Aside(<<"network", "bytes">>) /\ Aside(<<"network", "packets">>)
    BY <1>1, AsideFirst DEF EntryNames
  <1>3. /\ Field(<<"source", "bytes">>, <<"network", "bytes">>) \in AsideFields
        /\ Field(<<"source", "packets">>, <<"network", "packets">>) \in AsideFields
    BY <1>1, <1>2 DEF Field, AsideFields, AllFields
  <1> QED
    BY <1>3 DEF VpcflowTotals

LEMMA CopiedFieldsAside == Audit!CopiedFields \in Seq(AsideFields)
  <1> DEFINE p1 == Audit!CallerIP
             p2 == Audit!Audit(<<"authentication_info", "principal_email">>)
             p3 == Audit!Audit(<<"service_name">>)
             p4 == Audit!Audit(<<"request_metadata", "caller_supplied_user_agent">>)
             f1 == Field(p1, <<"source", "ip">>)
             f2 == Field(p2, <<"user", "email">>)
             f3 == Field(p3, <<"service", "name">>)
             f4 == Field(p4, <<"user_agent", "original">>)
  <1>1. p1 \in Paths /\ p2 \in Paths /\ p3 \in Paths /\ p4 \in Paths
    BY StringsAssumption DEF Audit!CallerIP, Audit!Audit, Paths, Names
  <1>2. /\ <<"source", "ip">> \in Paths /\ <<"user", "email">> \in Paths
        /\ <<"service", "name">> \in Paths /\ <<"user_agent", "original">> \in Paths
    BY StringsAssumption DEF Paths, Names
  <1>3. /\ Aside(<<"source", "ip">>) /\ Aside(<<"user", "email">>)
        /\ Aside(<<"service", "name">>) /\ Aside(<<"user_agent", "original">>)
    BY <1>2, AsideFirst DEF EntryNames
  <1> HIDE DEF p1, p2, p3, p4
  <1>4. f1 \in AsideFields /\ f2 \in AsideFields
    BY <1>1, <1>2, <1>3 DEF Field, AsideFields, AllFields
  <1>5. f3 \in AsideFields /\ f4 \in AsideFields
    BY <1>1, <1>2, <1>3 DEF Field, AsideFields, AllFields
  <1> USE DEF p1, p2, p3, p4
  <1>6. Audit!CopiedFields = <<f1, f2, f3, f4>>
    BY AuditSame DEF Audit!CopiedFields
  <1> HIDE DEF p1, p2, p3, p4, f1, f2, f3, f4
  <1> QED
    BY <1>4, <1>5, <1>6

-----------------------------------------------------------------------------
(*                     Where googlecloud has the entry                       *)

(* The steps that do something with the entry: it is saved before the message *)
(* is dropped at DropAt, the payload takes its place at EntryAt, and goes to  *)
(* the names of the dataset at PayloadAt.  Until TouchedAt the payload is as  *)
(* it came.                                                                   *)
Offset(i) == IF i.dataset = "firewall" /\ ~i.keep THEN 0 ELSE 1
DropAt(i) == 3 + Offset(i)
EntryAt(i) == 6 + Offset(i)
PayloadAt(i) == IF i.dataset = "firewall" THEN 12 + Offset(i) ELSE 8
TouchedAt(i) == IF i.dataset = "firewall" THEN 9 + Offset(i) ELSE 8
LastAt(i) == CASE i.dataset = "firewall" -> 19 + Offset(i)
               [] i.dataset = "vpcflow" -> 17
               [] OTHER -> 12
PayloadName(i) == IF i.dataset = "audit" THEN "protoPayload" ELSE "jsonPayload"
MessageOf(i) == Get(i.evt, <<"message">>)
DocumentOf(i) == IF MessageOf(i)[1] = "json" THEN i.evt[<<"message">>][2] ELSE << >>

(* What is at p in e, below it also, is what is at s in t.                   *)
Shows(e, p, t, s) ==
    \A r \in Names : /\ Has(e, p \o r) <=> Has(t, s \o r)
                     /\ Get(e, p \o r) = Get(t, s \o r)
(* The same, but for what is below one name.                                 *)
ShowsBut(e, p, t, s, name) ==
    \A r \in Names : r = << >> \/ r[1] # name => /\ Has(e, p \o r) <=> Has(t, s \o r)
                                                 /\ Get(e, p \o r) = Get(t, s \o r)

(* The event e of input i, before step n.                                    *)
CloudAt(i, e, n) ==
    /\ IsEvent(e)
    /\ n = 1 => e = i.evt
    /\ n <= (IF i.keep THEN 3 ELSE DropAt(i)) =>
          Has(e, <<"message">>) /\ Get(e, <<"message">>) = MessageOf(i)
    /\ n > DropAt(i) => ~Has(e, <<"message">>)
    /\ Get(e, <<"event", "original">>) = IF i.keep /\ n > 3 THEN MessageOf(i) ELSE Null
    /\ n \in 2..PayloadAt(i) => Has(e, <<"json">>)
    /\ n > PayloadAt(i) => ~Has(e, <<"json">>) /\ Has(e, <<"googlecloud", i.dataset>>)
    /\ n \in 2..EntryAt(i) => Shows(e, <<"json">>, DocumentOf(i), << >>)
    /\ n \in (EntryAt(i) + 1)..TouchedAt(i) =>
          ShowsBut(e, <<"json">>, DocumentOf(i), <<PayloadName(i)>>, PayloadName(i))

CloudInput(i) == IsInput(i) /\ i.dataset \in Googlecloud

LEMMA JsonBelow ==
    ASSUME NEW r \in Names
    PROVE  <<"json">> \o r \in Paths /\ (<<"json">> \o r)[1] = "json"
  BY StringsAssumption DEF Paths, Names

LEMMA ShownQuiet ==
    ASSUME NEW e, NEW f, Quiet(e, f), NEW t, NEW s
    PROVE  /\ Shows(e, <<"json">>, t, s) => Shows(f, <<"json">>, t, s)
           /\ \A name : ShowsBut(e, <<"json">>, t, s, name) => ShowsBut(f, <<"json">>, t, s, name)
  BY JsonBelow DEF Quiet, EntryNames, Same, Shows, ShowsBut

LEMMA EntryPaths ==
    /\ <<"message">> \in Paths /\ <<"json">> \in Paths
    /\ <<"event", "original">> \in Paths /\ <<"labels">> \in Paths
  BY StringsAssumption DEF Paths, Names

LEMMA DatasetPath ==
    ASSUME NEW i, CloudInput(i)
    PROVE  /\ <<"googlecloud", i.dataset>> \in Paths /\ <<"json", PayloadName(i)>> \in Paths
           /\ <<"googlecloud", i.dataset>>[1] = "googlecloud"
  BY StringsAssumption DEF Paths, Names, CloudInput, Googlecloud, PayloadName

(* The order of these steps.                                                 *)
LEMMA Thresholds ==
    ASSUME NEW i, CloudInput(i)
    PROVE  /\ DropAt(i) \in 3..4 /\ EntryAt(i) \in 6..7 /\ PayloadAt(i) \in 8..13
           /\ TouchedAt(i) \in 8..10 /\ LastAt(i) \in 12..20
           /\ DropAt(i) < EntryAt(i) /\ EntryAt(i) < TouchedAt(i)
           /\ TouchedAt(i) <= PayloadAt(i) /\ PayloadAt(i) < LastAt(i)
           /\ i.keep => DropAt(i) = 4
  <1>1. i.dataset \in Googlecloud /\ i.keep \in BOOLEAN
    BY DEF CloudInput, IsInput
  <1>2. CASE i.dataset = "firewall"
    <2>1. LastAt(i) = 19 + Offset(i)
      BY <1>2, Zenon DEF LastAt
    <2> QED
      BY <1>1, <1>2, <2>1 DEF DropAt, EntryAt, PayloadAt, TouchedAt, Offset
  <1>3. CASE i.dataset = "vpcflow"
    <2>1. LastAt(i) = 17
      BY <1>3, Zenon DEF LastAt
    <2> QED
      BY <1>1, <1>3, <2>1 DEF DropAt, EntryAt, PayloadAt, TouchedAt, Offset
  <1>4. CASE i.dataset = "audit"
    <2>1. LastAt(i) = 12
      BY <1>4, Zenon DEF LastAt
    <2> QED
      BY <1>1, <1>4, <2>1 DEF DropAt, EntryAt, PayloadAt, TouchedAt, Offset
  <1> QED
    BY <1>1, <1>2, <1>3, <1>4 DEF Googlecloud

(* A step beside the entry.                                                  *)
LEMMA CloudQuiet ==
    ASSUME NEW i, CloudInput(i), NEW e, NEW n \in Nat, CloudAt(i, e, n), NEW f, Quiet(e, f),
           n > 1, n # DropAt(i), n # EntryAt(i), n # PayloadAt(i), n = 3 => ~i.keep
    PROVE  CloudAt(i, f, n + 1)
  <1>0. /\ Same(e, f, <<"message">>) /\ Same(e, f, <<"json">>)
        /\ Same(e, f, <<"event", "original">>) /\ Same(e, f, <<"googlecloud", i.dataset>>)
    BY EntryPaths, DatasetPath DEF Quiet, EntryNames
  <1>1. IsEvent(f)
    BY DEF Quiet
  <1>2. /\ Shows(e, <<"json">>, DocumentOf(i), << >>) => Shows(f, <<"json">>, DocumentOf(i), << >>)
        /\ ShowsBut(e, <<"json">>, DocumentOf(i), <<PayloadName(i)>>, PayloadName(i))
               => ShowsBut(f, <<"json">>, DocumentOf(i), <<PayloadName(i)>>, PayloadName(i))
    BY ShownQuiet
  <1>3. n + 1 <= (IF i.keep THEN 3 ELSE DropAt(i)) =>
            Has(f, <<"message">>) /\ Get(f, <<"message">>) = MessageOf(i)
    BY <1>0, Thresholds DEF CloudAt, Same
  <1>4. n + 1 > DropAt(i) => ~Has(f, <<"message">>)
    BY <1>0, Thresholds DEF CloudAt, Same
  <1>5. Get(f, <<"event", "original">>) = IF i.keep /\ n + 1 > 3 THEN MessageOf(i) ELSE Null
    BY <1>0 DEF CloudAt, Same
  <1>6. n + 1 \in 2..PayloadAt(i) => Has(f, <<"json">>)
    BY <1>0, Thresholds DEF CloudAt, Same
  <1>7. n + 1 > PayloadAt(i) => ~Has(f, <<"json">>) /\ Has(f, <<"googlecloud", i.dataset>>)
    BY <1>0, Thresholds DEF CloudAt, Same
  <1>8. n + 1 \in 2..EntryAt(i) => Shows(f, <<"json">>, DocumentOf(i), << >>)
    BY <1>2, Thresholds DEF CloudAt
  <1>9. n + 1 \in (EntryAt(i) + 1)..TouchedAt(i) =>
            ShowsBut(f, <<"json">>, DocumentOf(i), <<PayloadName(i)>>, PayloadName(i))
    BY <1>2, Thresholds DEF CloudAt
  <1> QED
    BY <1>1, <1>3, <1>4, <1>5, <1>6, <1>7, <1>8, <1>9 DEF CloudAt

LEMMA Singleton ==
    ASSUME NEW S, NEW a \in S
    PROVE  <<a>> \in Seq(S)
  OBVIOUS

LEMMA TwoConcat ==
    ASSUME NEW S, NEW a \in S, NEW b \in S
    PROVE  <<a>> \o <<b>> = <<a, b>>
  <1> DEFINE s == <<a>> \o <<b>>
             t == <<a, b>>
  <1>1. s \in Seq(S) /\ t \in Seq(S)
    OBVIOUS
  <1>2. Len(s) = 2 /\ s[1] = a /\ s[2] = b
    OBVIOUS
  <1>3. Len(t) = 2 /\ t[1] = a /\ t[2] = b
    OBVIOUS
  <1> HIDE DEF s, t
  <1>4. \A n \in 1..Len(s) : s[n] = t[n]
    BY <1>2, <1>3
  <1>5. s = t
    BY <1>1, <1>2, <1>3, <1>4, SeqEqual
  <1> QED
    BY <1>5 DEF s, t

LEMMA MoveHere ==
    ASSUME NEW e, IsEvent(e), NEW from \in Paths, NEW to \in Paths, ~IsPrefix(from, to)
    PROVE  /\ Has(Move(e, from, to), to) <=> Has(e, from)
           /\ Get(Move(e, from, to), to) = Get(e, from)
  <1> DEFINE r == << >>
             p == from \o r
             q == to \o r
  <1>1. r \in Names /\ p = from /\ q = to
    BY DEF Paths, Names
  <1>2. ~IsPrefix(from, q)
    BY <1>1
  <1> HIDE DEF r
  <1>3. /\ Has(Move(e, from, to), q) <=> Has(e, p)
        /\ Get(Move(e, from, to), q) = Get(e, p)
    BY <1>1, <1>2, MoveLands
  <1> HIDE DEF p, q
  <1>4. Has(Move(e, from, to), to) <=> Has(e, from)
    BY <1>1, <1>3
  <1>5. Get(Move(e, from, to), to) = Get(e, from)
    BY <1>1, <1>3
  <1> QED
    BY <1>4, <1>5

LEMMA LongerNotPrefix ==
    ASSUME NEW p \in Names, NEW q \in Names, Len(p) > Len(q)
    PROVE  ~IsPrefix(p, q)
  BY PrefixAt DEF Names

LEMMA DifferNotPrefix ==
    ASSUME NEW p \in Names, NEW q \in Names, NEW k \in 1..Len(p), p[k] # q[k]
    PROVE  ~IsPrefix(p, q)
  BY PrefixAt DEF Names

LEMMA JsonNames ==
    ASSUME NEW name \in STRING
    PROVE  /\ << >> \in Names /\ <<name>> \in Names
           /\ <<"json">> \o << >> = <<"json">> /\ <<name>> \o << >> = <<name>>
           /\ << >> \o <<name>> = <<name>> /\ <<"json">> \o <<name>> = <<"json", name>>
  <1>1. << >> \in Names /\ <<name>> \in Names
    <2>1. <<name>> \in Seq(STRING)
      BY Singleton
    <2>2. << >> \in Seq(STRING)
      OBVIOUS
    <2> QED
      BY <2>1, <2>2 DEF Names
  <1>2. <<"json">> \o << >> = <<"json">>
    OBVIOUS
  <1>3. <<name>> \o << >> = <<name>>
    OBVIOUS
  <1>4. << >> \o <<name>> = <<name>>
    OBVIOUS
  <1>5. <<"json">> \o <<name>> = <<"json", name>>
    BY StringsAssumption, TwoConcat
  <1> QED
    BY <1>1, <1>2, <1>3, <1>4, <1>5

LEMMA HeadPrefix ==
    ASSUME NEW name \in STRING, NEW r \in Names, r # << >>, r[1] = name
    PROVE  IsPrefix(<<name>>, r)
  <1>1. Len(r) \in Nat /\ Len(r) >= 1
    BY DEF Names
  <1> DEFINE p == <<name>>
  <1>2. p \in Names /\ Len(p) = 1 /\ p[1] = name
    BY JsonNames
  <1> HIDE DEF p
  <1>3. IsPrefix(p, r) <=> Len(p) <= Len(r) /\ \A i \in 1..Len(p) : p[i] = r[i]
    BY <1>2, PrefixAt
  <1>4. \A i \in 1..Len(p) : i = 1
    BY <1>2
  <1>5. IsPrefix(p, r)
    BY <1>1, <1>2, <1>3, <1>4
  <1> QED
    BY <1>5 DEF p

LEMMA InputFacts ==
    ASSUME NEW i, IsInput(i)
    PROVE  /\ IsEvent(i.evt) /\ Has(i.evt, <<"message">>) /\ i.keep \in BOOLEAN
           /\ \A p \in DOMAIN i.evt : p[1] \notin OwnNames
           /\ ~Has(i.evt, <<"event", "original">>) /\ ~Has(i.evt, <<"event", "category">>)
           /\ ~Has(i.evt, <<"event", "outcome">>)
           /\ MessageOf(i) = i.evt[<<"message">>]
           /\ MessageOf(i)[1] = "json" => IsTree(DocumentOf(i)) /\ Has(DocumentOf(i), << >>)
  BY DEF IsInput, MessageOf, DocumentOf, Get

(* An event as it is received.                                               *)
LEMMA CloudStart ==
    ASSUME NEW i, CloudInput(i)
    PROVE  CloudAt(i, i.evt, 1)
  BY InputFacts, Thresholds DEF CloudInput, Get, MessageOf, CloudAt

(* decodeJson                                                                *)
LEMMA CloudDecode ==
    ASSUME NEW i, CloudInput(i), NEW e, CloudAt(i, e, 1), MessageOf(i)[1] = "json"
    PROVE  CloudAt(i, Graft(e, <<"json">>, DocumentOf(i)), 2)
  <1> DEFINE f == Graft(e, <<"json">>, DocumentOf(i))
  <1>1. e = i.evt /\ IsInput(i)
    BY DEF CloudAt, CloudInput
  <1>2. IsTree(DocumentOf(i)) /\ Has(DocumentOf(i), << >>) /\ IsEvent(e)
    BY <1>1, InputFacts
  <1>3. IsEvent(f)
    BY <1>2, EntryPaths, GraftIsEvent
  <1>4. Same(e, f, <<"message">>) /\ Same(e, f, <<"event", "original">>)
    <2>1. Beside({"json"}, e, f)
      BY <1>2, EntryPaths, GraftBeside
    <2> QED
      BY <2>1, EntryPaths DEF Beside
  <1>5. Shows(f, <<"json">>, DocumentOf(i), << >>)
    <2>1. ASSUME NEW r \in Names
          PROVE  /\ Has(f, <<"json">> \o r) <=> Has(DocumentOf(i), << >> \o r)
                 /\ Get(f, <<"json">> \o r) = Get(DocumentOf(i), << >> \o r)
      BY <1>2, EntryPaths, GraftAt DEF Names, Has, Get
    <2> QED
      BY <2>1 DEF Shows
  <1>6. Has(f, <<"json">>)
    <2>1. << >> \in Names /\ <<"json">> \o << >> = <<"json">> /\ << >> \o << >> = << >>
      BY DEF Names
    <2> QED
      BY <1>2, <1>5, <2>1 DEF Shows
  <1>7. /\ Has(f, <<"message">>) /\ Get(f, <<"message">>) = MessageOf(i)
        /\ Get(f, <<"event", "original">>) = Null
    BY <1>4, Thresholds DEF CloudAt, Same
  <1> HIDE DEF f
  <1>8. CloudAt(i, f, 2)
    BY <1>3, <1>5, <1>6, <1>7, Thresholds DEF CloudAt
  <1> QED
    BY <1>8 DEF f

(* saveOriginalMessage                                                       *)
LEMMA CloudSave ==
    ASSUME NEW i, CloudInput(i), i.keep, NEW e, CloudAt(i, e, 3)
    PROVE  CloudAt(i, Move(e, <<"message">>, <<"event", "original">>), 4)
  <1> DEFINE f == Move(e, <<"message">>, <<"event", "original">>)
  <1>1. IsEvent(e) /\ Has(e, <<"message">>) /\ Get(e, <<"message">>) = MessageOf(i)
    BY Thresholds DEF CloudAt
  <1>2. IsEvent(f) /\ Beside({"message", "event"}, e, f)
    BY <1>1, EntryPaths, MoveAt, MoveBeside
  <1>3. Get(f, <<"event", "original">>) = MessageOf(i)
    BY EntryPaths, ApartNotPrefix, <1>1, MoveHere DEF Apart, Paths
  <1>4. \A r \in Names : Same(e, f, <<"json">> \o r)
    BY <1>2, JsonBelow DEF Beside
  <1>5. Shows(f, <<"json">>, DocumentOf(i), << >>)
    BY Thresholds, <1>4 DEF CloudAt, Shows, Same
  <1>6. Has(f, <<"json">>)
    BY <1>2, EntryPaths, Thresholds DEF Beside, CloudAt, Same
  <1> HIDE DEF f
  <1>7. CloudAt(i, f, 4)
    BY <1>2, <1>3, <1>5, <1>6, Thresholds DEF CloudAt
  <1> QED
    BY <1>7 DEF f

(* dropPubSubFields; audit does not drop the labels.                         *)
LEMMA CloudDrop ==
    ASSUME NEW i, CloudInput(i), NEW e, NEW n, n = DropAt(i), CloudAt(i, e, n), NEW f,
           \/ f = Delete(e, <<"message">>)
           \/ f = Delete(Delete(e, <<"message">>), <<"labels">>)
    PROVE  CloudAt(i, f, n + 1)
  <1>0. IsEvent(e)
    BY DEF CloudAt
  <1>1. /\ IsEvent(f) /\ Beside({"message", "labels"}, e, f) /\ ~Has(f, <<"message">>)
    <2> DEFINE g == Delete(e, <<"message">>)
    <2>1. IsEvent(g) /\ Beside({"message", "labels"}, e, g)
      BY <1>0, EntryPaths, DeleteIsEvent, DeleteBeside DEF Paths
    <2>2. ~Has(g, <<"message">>)
      BY EntryPaths, PrefixAt, DeleteAt DEF Paths
    <2>3. CASE f = g
      BY <2>1, <2>2, <2>3
    <2>4. CASE f = Delete(g, <<"labels">>)
      <3>1. IsEvent(f) /\ Beside({"labels"}, g, f)
        BY <2>1, <2>4, EntryPaths, DeleteIsEvent, DeleteBeside DEF Paths
      <3>2. Same(g, f, <<"message">>)
        BY <3>1, EntryPaths DEF Beside
      <3>3. Beside({"message", "labels"}, e, f)
        <4>1. Beside({"message", "labels"} \union {"labels"}, e, f)
          BY <2>1, <3>1, BesideTransitive
        <4>2. {"message", "labels"} \union {"labels"} = {"message", "labels"}
          OBVIOUS
        <4> QED
          BY <4>1, <4>2
      <3> QED
        BY <2>2, <3>1, <3>2, <3>3 DEF Same
    <2> QED
      BY <2>3, <2>4
  <1>2. \A r \in Names : Same(e, f, <<"json">> \o r)
    BY <1>1, JsonBelow DEF Beside
  <1>3. Shows(f, <<"json">>, DocumentOf(i), << >>)
    BY Thresholds, <1>2 DEF CloudAt, Shows, Same
  <1>4. Same(e, f, <<"json">>) /\ Same(e, f, <<"event", "original">>)
    BY <1>1, EntryPaths DEF Beside
  <1>5. Has(f, <<"json">>)
    BY <1>4, Thresholds DEF CloudAt, Same
  <1>6. Get(f, <<"event", "original">>) = IF i.keep /\ n + 1 > 3 THEN MessageOf(i) ELSE Null
    BY <1>4, Thresholds DEF CloudAt, Same
  <1> QED
    BY <1>1, <1>3, <1>5, <1>6, Thresholds DEF CloudAt

(* convertLogEntry                                                           *)
LEMMA CloudEntry ==
    ASSUME NEW i, CloudInput(i), NEW e, NEW n, n = EntryAt(i), CloudAt(i, e, n),
           Has(e, <<"json", PayloadName(i)>>)
    PROVE  CloudAt(i, Move(e, <<"json", PayloadName(i)>>, <<"json">>), n + 1)
  <1> DEFINE from == <<"json", PayloadName(i)>>
             f == Move(e, from, <<"json">>)
  <1>0. IsEvent(e) /\ from \in Paths /\ n \in Nat
    BY DatasetPath, Thresholds DEF CloudAt
  <1>1. IsEvent(f) /\ Beside({"json"}, e, f)
    <2>1. from[1] = "json" /\ <<"json">>[1] = "json"
      OBVIOUS
    <2> QED
      BY <1>0, <2>1, EntryPaths, MoveAt, MoveBeside
  <1>2. Same(e, f, <<"message">>) /\ Same(e, f, <<"event", "original">>)
    BY <1>1, EntryPaths DEF Beside
  <1>3. ShowsBut(f, <<"json">>, DocumentOf(i), <<PayloadName(i)>>, PayloadName(i))
    <2>1. ASSUME NEW r \in Names, r = << >> \/ r[1] # PayloadName(i)
          PROVE  /\ Has(f, <<"json">> \o r) <=> Has(DocumentOf(i), <<PayloadName(i)>> \o r)
                 /\ Get(f, <<"json">> \o r) = Get(DocumentOf(i), <<PayloadName(i)>> \o r)
      <3>1. ~IsPrefix(from, <<"json">> \o r)
        <4> DEFINE to == <<"json">> \o r
        <4>0. from[2] = PayloadName(i)
          OBVIOUS
        <4>1. Len(from) = 2
          OBVIOUS
        <4>2. from \in Names /\ to \in Names
          BY <1>0, JsonBelow DEF Paths
        <4>3. r = << >> => Len(to) = 1
          OBVIOUS
        <4>4. r # << >> => to[2] = r[1]
          BY DEF Names
        <4> HIDE DEF from, to
        <4>5. ASSUME r = << >>
              PROVE  ~IsPrefix(from, to)
          <5>1. Len(to) = 1
            BY <4>3, <4>5
          <5>2. Len(from) > Len(to)
            BY <4>1, <5>1
          <5> QED
            BY <4>2, <5>2, LongerNotPrefix
        <4>6. 2 \in 1..Len(from)
          BY <4>1
        <4>7. r # << >> => ~IsPrefix(from, to)
          BY <2>1, <4>0, <4>2, <4>4, <4>6, DifferNotPrefix
        <4>8. ~IsPrefix(from, to)
          BY <4>5, <4>7
        <4> QED
          BY <4>8 DEF from, to
      <3>2. /\ Has(f, <<"json">> \o r) <=> Has(e, from \o r)
            /\ Get(f, <<"json">> \o r) = Get(e, from \o r)
        BY <1>0, <3>1, EntryPaths, MoveLands
      <3>3. from \o r = <<"json">> \o (<<PayloadName(i)>> \o r) /\ <<PayloadName(i)>> \o r \in Names
        <4>1. PayloadName(i) \in STRING
          BY StringsAssumption DEF PayloadName
        <4> QED
          BY <4>1 DEF Names
      <3>4. << >> \o (<<PayloadName(i)>> \o r) = <<PayloadName(i)>> \o r
        BY <3>3 DEF Names
      <3>5. Shows(e, <<"json">>, DocumentOf(i), << >>)
        BY Thresholds DEF CloudAt
      <3>6. /\ Has(e, from \o r) <=> Has(DocumentOf(i), <<PayloadName(i)>> \o r)
            /\ Get(e, from \o r) = Get(DocumentOf(i), <<PayloadName(i)>> \o r)
        BY <3>3, <3>4, <3>5 DEF Shows
      <3> QED
        BY <3>2, <3>6
    <2> QED
      BY <2>1 DEF ShowsBut
  <1>4. Has(f, <<"json">>)
    <2> DEFINE name == PayloadName(i)
    <2>0. name \in STRING
      BY StringsAssumption DEF PayloadName
    <2>1. /\ << >> \in Names /\ <<name>> \in Names
          /\ <<"json">> \o << >> = <<"json">> /\ <<name>> \o << >> = <<name>>
          /\ << >> \o <<name>> = <<name>> /\ <<"json">> \o <<name>> = <<"json", name>>
      BY <2>0, JsonNames
    <2>2. Has(DocumentOf(i), <<PayloadName(i)>>)
      <3>1. Shows(e, <<"json">>, DocumentOf(i), << >>)
        BY Thresholds DEF CloudAt
      <3> QED
        BY <2>1, <3>1 DEF Shows
    <2> QED
      BY <1>3, <2>1, <2>2 DEF ShowsBut
  <1>5. /\ ~Has(f, <<"message">>)
        /\ Get(f, <<"event", "original">>) = IF i.keep /\ n + 1 > 3 THEN MessageOf(i) ELSE Null
    BY <1>2, Thresholds DEF CloudAt, Same
  <1> HIDE DEF f
  <1>6. CloudAt(i, f, n + 1)
    BY <1>0, <1>1, <1>3, <1>4, <1>5, Thresholds DEF CloudAt
  <1> QED
    BY <1>6 DEF f

-----------------------------------------------------------------------------
(*                    The payload goes to its new names                      *)

(* What is renamed out of json, or within it, before json itself is.         *)
BodyFields ==
    {f \in AllFields : /\ f[1][1] = "json" /\ Len(f[1]) > 1 /\ Len(f[2]) > 1
                       /\ f[2][1] # "message" /\ Apart(f[2], <<"event", "original">>)}
Moved(dataset) == Field(<<"json">>, <<"googlecloud", dataset>>)

LEMMA BodyFacts ==
    ASSUME NEW f \in BodyFields
    PROVE  /\ Within(f, STRING) /\ f[1][1] = "json"
           /\ f[1] \in Paths /\ f[2] \in Paths
           /\ Apart(f[1], <<"message">>) /\ Apart(f[2], <<"message">>)
           /\ Apart(f[1], <<"event", "original">>) /\ Apart(f[2], <<"event", "original">>)
  <1>1. f \in AllFields /\ f[1] \in Paths /\ f[2] \in Paths
    BY DEF BodyFields, AllFields
  <1>2. f[1][1] \in STRING /\ f[2][1] \in STRING
    BY <1>1 DEF Paths, Names
  <1>3. f[1][1] = "json" /\ Len(f[1]) > 1 /\ Len(f[2]) > 1 /\ f[2][1] # "message"
    BY DEF BodyFields
  <1>4. Apart(f[1], <<"message">>) /\ Apart(f[2], <<"message">>)
    BY <1>1, <1>3, EntryPaths, FirstApart
  <1>5. Apart(f[1], <<"event", "original">>)
    BY <1>1, <1>3, EntryPaths, FirstApart
  <1>6. Apart(f[2], <<"event", "original">>)
    BY DEF BodyFields
  <1> QED
    BY <1>1, <1>2, <1>3, <1>4, <1>5, <1>6 DEF Within

LEMMA BodyWithin ==
    ASSUME NEW fields \in Seq(BodyFields)
    PROVE  AllWithin(fields, STRING) /\ AreFields(fields)
  <1>1. Len(fields) \in Nat /\ DOMAIN fields = 1..Len(fields)
    OBVIOUS
  <1>2. ASSUME NEW n \in 1..Len(fields)
        PROVE  Within(fields[n], STRING) /\ fields[n][1] \in Paths /\ fields[n][2] \in Paths
    <2>1. fields[n] \in BodyFields
      OBVIOUS
    <2> QED
      BY <2>1, BodyFacts
  <1> QED
    BY <1>1, <1>2 DEF AllWithin, AreFields

(* The body keeps json, the message and the original where they are.         *)
LEMMA BodyFrom ==
    ASSUME NEW e, NEW s, IsEvent(s), NEW fields \in Seq(BodyFields)
    PROVE  /\ IsEvent(From(e, s, fields, "rename"))
           /\ Has(s, <<"json">>) => Has(From(e, s, fields, "rename"), <<"json">>)
           /\ Same(s, From(e, s, fields, "rename"), <<"message">>)
           /\ Same(s, From(e, s, fields, "rename"), <<"event", "original">>)
  <1>1. AllWithin(fields, STRING) /\ AreFields(fields)
    BY BodyWithin
  <1>2. IsEvent(From(e, s, fields, "rename"))
    BY <1>1, FromIsEvent
  <1>3. Has(s, <<"json">>) => Has(From(e, s, fields, "rename"), <<"json">>)
    <2>1. Len(<<"json">>) = 1
      OBVIOUS
    <2> QED
      BY <1>1, <2>1, EntryPaths, WithinFrom
  <1>4. ASSUME NEW n \in 1..Len(fields)
        PROVE  Spared(fields[n], "rename", <<"message">>) /\ Spared(fields[n], "rename",
                                                                    <<"event", "original">>)
    <2>1. fields[n] \in BodyFields
      OBVIOUS
    <2> QED
      BY <2>1, BodyFacts DEF Spared, Touched
  <1>5. Same(s, From(e, s, fields, "rename"), <<"message">>)
    BY <1>1, <1>4, EntryPaths, FromSpares
  <1>6. Same(s, From(e, s, fields, "rename"), <<"event", "original">>)
    BY <1>1, <1>4, EntryPaths, FromSpares
  <1> QED
    BY <1>2, <1>3, <1>5, <1>6

(* The step that moves json away at the end.                                 *)
LEMMA LastMoves ==
    ASSUME NEW i, CloudInput(i), NEW e, Has(e, <<"json">>), NEW s, IsEvent(s), Has(s, <<"json">>)
    PROVE  LET f == From(e, s, <<Moved(i.dataset)>>, "rename")
           IN  /\ f = Move(s, <<"json">>, <<"googlecloud", i.dataset>>)
               /\ IsEvent(f) /\ ~Has(f, <<"json">>) /\ Has(f, <<"googlecloud", i.dataset>>)
               /\ Same(s, f, <<"message">>) /\ Same(s, f, <<"event", "original">>)
  <1> DEFINE to == <<"googlecloud", i.dataset>>
             l == Moved(i.dataset)
             f == Move(s, <<"json">>, to)
  <1>1. l[1] = <<"json">> /\ l[2] = to /\ l[3] = ""
    BY DEF Moved, Field
  <1>2. to \in Paths /\ to[1] = "googlecloud"
    BY DatasetPath
  <1> HIDE DEF to, l
  <1>3. From(e, s, <<l>>, "rename") = f
    <2>1. From(e, s, <<l>>, "rename") = ConvertUsable(e, s, l, "rename")
      BY FromOne
    <2>2. ~Missing(e, l) /\ ~Bad(e, l)
      BY Zenon, <1>1 DEF Convertible, Missing, Bad
    <2>3. ConvertOne(s, l, "rename") = f
      BY <1>1 DEF ConvertOne
    <2> QED
      BY <2>1, <2>2, <2>3 DEF ConvertUsable
  <1>4. IsEvent(f) /\ Beside({"json", "googlecloud"}, s, f)
    <2>1. <<"json">>[1] = "json"
      OBVIOUS
    <2> QED
      BY <1>2, <2>1, EntryPaths, MoveAt, MoveBeside
  <1>5. ~Has(f, <<"json">>)
    <2>1. IsPrefix(<<"json">>, <<"json">>)
      BY EntryPaths, PrefixAt DEF Paths
    <2> QED
      BY <1>2, <2>1, EntryPaths, MoveAt DEF Paths
  <1>6. Has(f, to)
    BY <1>2, EntryPaths, FirstApart, ApartNotPrefix, MoveHere DEF Paths
  <1>7. Same(s, f, <<"message">>) /\ Same(s, f, <<"event", "original">>)
    BY <1>4, EntryPaths DEF Beside
  <1> QED
    BY <1>3, <1>4, <1>5, <1>6, <1>7 DEF to, l

(* convertJsonPayload and convertProtoPayload, when they go through.         *)
LEMMA CloudPayload ==
    ASSUME NEW i, CloudInput(i), NEW e, NEW n, n = PayloadAt(i), CloudAt(i, e, n),
           NEW body \in Seq(BodyFields)
    PROVE  CloudAt(i, From(e, From(e, e, body, "rename"), <<Moved(i.dataset)>>, "rename"), n + 1)
  <1> DEFINE s == From(e, e, body, "rename")
             f == From(e, s, <<Moved(i.dataset)>>, "rename")
  <1>1. IsEvent(e) /\ Has(e, <<"json">>) /\ n \in Nat
    BY Thresholds DEF CloudAt
  <1>2. /\ IsEvent(s) /\ Has(s, <<"json">>)
        /\ Same(e, s, <<"message">>) /\ Same(e, s, <<"event", "original">>)
    BY <1>1, BodyFrom
  <1> HIDE DEF s
  <1>3. /\ IsEvent(f) /\ ~Has(f, <<"json">>) /\ Has(f, <<"googlecloud", i.dataset>>)
        /\ Same(s, f, <<"message">>) /\ Same(s, f, <<"event", "original">>)
    BY <1>1, <1>2, LastMoves
  <1> HIDE DEF f
  <1>4. ~Has(f, <<"message">>)
    BY <1>2, <1>3, Thresholds DEF CloudAt, Same
  <1>5. Get(f, <<"event", "original">>) = IF i.keep /\ n + 1 > 3 THEN MessageOf(i) ELSE Null
    BY <1>2, <1>3, Thresholds DEF CloudAt, Same
  <1>6. CloudAt(i, f, n + 1)
    BY <1>1, <1>3, <1>4, <1>5, Thresholds DEF CloudAt
  <1> QED
    BY <1>6 DEF f, s

(* A step after that, which deletes or puts below the names of the dataset.  *)
LEMMA CloudBelow ==
    ASSUME NEW i, CloudInput(i), NEW e, NEW n \in Nat, n > PayloadAt(i), CloudAt(i, e, n),
           NEW f, IsEvent(f), ~Has(f, <<"json">>), Has(f, <<"googlecloud", i.dataset>>),
           Same(e, f, <<"message">>), Same(e, f, <<"event", "original">>)
    PROVE  CloudAt(i, f, n + 1)
  BY Thresholds DEF CloudAt, Same

(* conditionalRename                                                         *)
LEMMA CloudInside ==
    ASSUME NEW i, CloudInput(i), i.dataset = "firewall", NEW e, NEW n, n = TouchedAt(i),
           CloudAt(i, e, n), NEW body \in Seq(BodyFields)
    PROVE  CloudAt(i, From(e, e, body, "rename"), n + 1) /\ CloudAt(i, e, n + 1)
  <1> DEFINE f == From(e, e, body, "rename")
  <1>0. n < PayloadAt(i) /\ n \in Nat /\ n > EntryAt(i)
    BY  DEF Offset, TouchedAt, PayloadAt, EntryAt
  <1>1. IsEvent(e) /\ Has(e, <<"json">>) /\ ~Has(e, <<"message">>)
    BY <1>0, Thresholds DEF CloudAt
  <1>2. /\ IsEvent(f) /\ Has(f, <<"json">>)
        /\ Same(e, f, <<"message">>) /\ Same(e, f, <<"event", "original">>)
    BY <1>1, BodyFrom
  <1> HIDE DEF f
  <1>3. Get(e, <<"event", "original">>) = IF i.keep /\ n > 3 THEN MessageOf(i) ELSE Null
    BY DEF CloudAt
  <1>4. Get(f, <<"event", "original">>) = IF i.keep /\ n + 1 > 3 THEN MessageOf(i) ELSE Null
    BY <1>0, <1>2, <1>3, Thresholds DEF Same
  <1>5. CloudAt(i, f, n + 1)
    <2>1. ~Has(f, <<"message">>)
      BY <1>1, <1>2 DEF Same
    <2>2. /\ n + 1 > 1 /\ ~(n + 1 <= (IF i.keep THEN 3 ELSE DropAt(i)))
          /\ ~(n + 1 > PayloadAt(i)) /\ ~(n + 1 \in 2..EntryAt(i))
          /\ ~(n + 1 \in (EntryAt(i) + 1)..TouchedAt(i))
      BY <1>0, Thresholds
    <2>3. IsEvent(f) /\ Has(f, <<"json">>)
      BY <1>2
    <2> QED
      BY <1>4, <2>1, <2>2, <2>3 DEF CloudAt
  <1>6. CloudAt(i, e, n + 1)
    BY <1>0, <1>1, <1>3, Thresholds DEF CloudAt
  <1> QED
    BY <1>5, <1>6 DEF f

LEMMA SeqInto ==
    ASSUME NEW S, NEW T, NEW s \in Seq(S), NEW N, Len(s) = N, \A n \in 1..N : s[n] \in T
    PROVE  s \in Seq(T)
  BY SeqDef

LEMMA SeqFunction ==
    ASSUME NEW S, NEW s \in Seq(S), NEW N, Len(s) = N
    PROVE  s \in [1..N -> S]
  OBVIOUS

LEMMA SeqMore ==
    ASSUME NEW S, NEW T, S \subseteq T, NEW s \in Seq(S)
    PROVE  s \in Seq(T)
  <1>1. \A n \in 1..Len(s) : s[n] \in T
    OBVIOUS
  <1> QED
    BY <1>1, SeqInto

LEMMA SecondApart ==
    ASSUME NEW p \in Paths, Len(p) > 1, p[2] # "original"
    PROVE  Apart(p, <<"event", "original">>)
  <1> DEFINE o == <<"event", "original">>
  <1>1. p \in Seq(STRING)
    BY DEF Paths, Names
  <1>2. 2 \in DOMAIN p
    BY <1>1
  <1>3. 2 \in DOMAIN o /\ o[2] = "original"
    OBVIOUS
  <1> HIDE DEF o
  <1>4. Apart(p, o)
    BY <1>2, <1>3 DEF Apart
  <1> QED
    BY <1>4 DEF o

LEMMA InBody ==
    ASSUME NEW from \in Paths, NEW to \in Paths, NEW type \in {"", "long", "ip", "string"},
           from[1] = "json", Len(from) > 1, Len(to) > 1,
           to[1] \notin {"message", "event"} \/ (to[1] = "event" /\ to[2] # "original")
    PROVE  Typed(from, to, type) \in BodyFields
  <1>1. Apart(to, <<"event", "original">>)
    <2>1. CASE to[1] # "event"
      BY <2>1, EntryPaths, FirstApart
    <2>2. CASE to[1] = "event" /\ to[2] # "original"
      <3> QED
        BY <2>2, SecondApart
    <2> QED
      BY <2>1, <2>2
  <1>2. Typed(from, to, type) \in AllFields
    BY DEF AllFields, Typed
  <1>3. to[1] # "message"
    OBVIOUS
  <1> QED
    BY <1>1, <1>2, <1>3 DEF BodyFields, Typed

LEMMA InBodyAny ==
    ASSUME NEW from \in Paths, NEW to \in Paths, from[1] = "json", Len(from) > 1, Len(to) > 1,
           to[1] \notin {"message", "event"} \/ (to[1] = "event" /\ to[2] # "original")
    PROVE  Field(from, to) \in BodyFields
  BY InBody DEF Field, Typed

LEMMA RenamesBody ==
    ASSUME NEW x \in {Src, Dest}
    PROVE  Renames(x) \in Seq(BodyFields)
  <1> DEFINE
    p1 == <<"json", "connection", x.ip>>
    q1 == <<x.end, "address">>
    p2 == <<"json", "connection", x.port>>
    q2 == <<x.end, "port">>
    p3 == <<"json", x.instance, "vm_name">>
    q3 == <<x.end, "domain">>
    p4 == <<"json", x.location, "asn">>
    q4 == <<x.end, "as", "number">>
    p5 == <<"json", x.location, "country">>
    q5 == <<x.end, "geo", "country_name">>
    f1 == Field(p1, q1)
    f2 == Typed(p2, q2, "long")
    f3 == Field(p3, q3)
    f4 == Typed(p4, q4, "long")
    f5 == Field(p5, q5)
  <1>1. f1 \in BodyFields
    <2>1. p1 \in Paths /\ q1 \in Paths
      BY EndNames, StringsAssumption DEF Paths, Names
    <2>2. p1[1] = "json" /\ Len(p1) > 1 /\ Len(q1) > 1
      BY EndNames 
    <2>3. q1[1] \notin {"message", "event"} \/ (q1[1] = "event" /\ q1[2] # "original")
      BY EndNames 
    <2> HIDE DEF p1, q1
    <2> QED
      BY <2>1, <2>2, <2>3, InBodyAny
  <1>2. f2 \in BodyFields
    <2>1. p2 \in Paths /\ q2 \in Paths
      BY EndNames, StringsAssumption DEF Paths, Names
    <2>2. p2[1] = "json" /\ Len(p2) > 1 /\ Len(q2) > 1
      BY EndNames 
    <2>3. q2[1] \notin {"message", "event"} \/ (q2[1] = "event" /\ q2[2] # "original")
      BY EndNames 
    <2> HIDE DEF p2, q2
    <2> QED
      BY <2>1, <2>2, <2>3, InBody
  <1>3. f3 \in BodyFields
    <2>1. p3 \in Paths /\ q3 \in Paths
      BY EndNames, StringsAssumption DEF Paths, Names
    <2>2. p3[1] = "json" /\ Len(p3) > 1 /\ Len(q3) > 1
      BY EndNames 
    <2>3. q3[1] \notin {"message", "event"} \/ (q3[1] = "event" /\ q3[2] # "original")
      BY EndNames 
    <2> HIDE DEF p3, q3
    <2> QED
      BY <2>1, <2>2, <2>3, InBodyAny
  <1>4. f4 \in BodyFields
    <2>1. p4 \in Paths /\ q4 \in Paths
      BY EndNames, StringsAssumption DEF Paths, Names
    <2>2. p4[1] = "json" /\ Len(p4) > 1 /\ Len(q4) > 1
      BY EndNames 
    <2>3. q4[1] \notin {"message", "event"} \/ (q4[1] = "event" /\ q4[2] # "original")
      BY EndNames 
    <2> HIDE DEF p4, q4
    <2> QED
      BY <2>1, <2>2, <2>3, InBody
  <1>5. f5 \in BodyFields
    <2>1. p5 \in Paths /\ q5 \in Paths
      BY EndNames, StringsAssumption DEF Paths, Names
    <2>2. p5[1] = "json" /\ Len(p5) > 1 /\ Len(q5) > 1
      BY EndNames 
    <2>3. q5[1] \notin {"message", "event"} \/ (q5[1] = "event" /\ q5[2] # "original")
      BY EndNames 
    <2> HIDE DEF p5, q5
    <2> QED
      BY <2>1, <2>2, <2>3, InBodyAny
  <1>6. Renames(x) = <<f1, f2, f3, f4, f5>>
    BY DEF Renames
  <1> HIDE DEF f1, f2, f3, f4, f5
  <1>7. <<f1, f2, f3, f4, f5>> \in Seq(BodyFields)
    BY <1>1, <1>2, <1>3, <1>4, <1>5
  <1> QED
    BY <1>6, <1>7

LEMMA RemaindersBody ==
    ASSUME NEW x \in {Src, Dest}
    PROVE  Remainders(x) \in Seq(BodyFields)
  <1> DEFINE
    p1 == <<"json", x.instance>>
    q1 == <<"googlecloud", x.end, "instance">>
    p2 == <<"json", x.vpc>>
    q2 == <<"googlecloud", x.end, "vpc">>
    f1 == Field(p1, q1)
    f2 == Field(p2, q2)
  <1>1. f1 \in BodyFields
    <2>1. p1 \in Paths /\ q1 \in Paths
      BY EndNames, StringsAssumption DEF Paths, Names
    <2>2. p1[1] = "json" /\ Len(p1) > 1 /\ Len(q1) > 1
      BY EndNames 
    <2>3. q1[1] \notin {"message", "event"} \/ (q1[1] = "event" /\ q1[2] # "original")
      BY EndNames 
    <2> HIDE DEF p1, q1
    <2> QED
      BY <2>1, <2>2, <2>3, InBodyAny
  <1>2. f2 \in BodyFields
    <2>1. p2 \in Paths /\ q2 \in Paths
      BY EndNames, StringsAssumption DEF Paths, Names
    <2>2. p2[1] = "json" /\ Len(p2) > 1 /\ Len(q2) > 1
      BY EndNames 
    <2>3. q2[1] \notin {"message", "event"} \/ (q2[1] = "event" /\ q2[2] # "original")
      BY EndNames 
    <2> HIDE DEF p2, q2
    <2> QED
      BY <2>1, <2>2, <2>3, InBodyAny
  <1>3. Remainders(x) = <<f1, f2>>
    BY DEF Remainders
  <1> HIDE DEF f1, f2
  <1>4. <<f1, f2>> \in Seq(BodyFields)
    BY <1>1, <1>2
  <1> QED
    BY <1>3, <1>4

LEMMA NearAndFarBody ==
    ASSUME NEW near \in {Src, Dest}, NEW far \in {Src, Dest}
    PROVE  Firewall!NearAndFar(near, far) \in Seq(BodyFields)
  <1> DEFINE
    p1 == <<"json", "vpc">>
    q1 == <<"json", near.vpc>>
    p2 == <<"json", "instance">>
    q2 == <<"json", near.instance>>
    p3 == <<"json", "location">>
    q3 == <<"json", near.location>>
    p4 == <<"json", "remote_vpc">>
    q4 == <<"json", far.vpc>>
    p5 == <<"json", "remote_instance">>
    q5 == <<"json", far.instance>>
    p6 == <<"json", "remote_location">>
    q6 == <<"json", far.location>>
    f1 == Field(p1, q1)
    f2 == Field(p2, q2)
    f3 == Field(p3, q3)
    f4 == Field(p4, q4)
    f5 == Field(p5, q5)
    f6 == Field(p6, q6)
  <1>1. f1 \in BodyFields
    <2>1. p1 \in Paths /\ q1 \in Paths
      BY EndNames, StringsAssumption DEF Paths, Names
    <2>2. p1[1] = "json" /\ Len(p1) > 1 /\ Len(q1) > 1
      BY EndNames 
    <2>3. q1[1] \notin {"message", "event"} \/ (q1[1] = "event" /\ q1[2] # "original")
      BY EndNames 
    <2> HIDE DEF p1, q1
    <2> QED
      BY <2>1, <2>2, <2>3, InBodyAny
  <1>2. f2 \in BodyFields
    <2>1. p2 \in Paths /\ q2 \in Paths
      BY EndNames, StringsAssumption DEF Paths, Names
    <2>2. p2[1] = "json" /\ Len(p2) > 1 /\ Len(q2) > 1
      BY EndNames 
    <2>3. q2[1] \notin {"message", "event"} \/ (q2[1] = "event" /\ q2[2] # "original")
      BY EndNames 
    <2> HIDE DEF p2, q2
    <2> QED
      BY <2>1, <2>2, <2>3, InBodyAny
  <1>3. f3 \in BodyFields
    <2>1. p3 \in Paths /\ q3 \in Paths
      BY EndNames, StringsAssumption DEF Paths, Names
    <2>2. p3[1] = "json" /\ Len(p3) > 1 /\ Len(q3) > 1
      BY EndNames 
    <2>3. q3[1] \notin {"message", "event"} \/ (q3[1] = "event" /\ q3[2] # "original")
      BY EndNames 
    <2> HIDE DEF p3, q3
    <2> QED
      BY <2>1, <2>2, <2>3, InBodyAny
  <1>4. f4 \in BodyFields
    <2>1. p4 \in Paths /\ q4 \in Paths
      BY EndNames, StringsAssumption DEF Paths, Names
    <2>2. p4[1] = "json" /\ Len(p4) > 1 /\ Len(q4) > 1
      BY EndNames 
    <2>3. q4[1] \notin {"message", "event"} \/ (q4[1] = "event" /\ q4[2] # "original")
      BY EndNames 
    <2> HIDE DEF p4, q4
    <2> QED
      BY <2>1, <2>2, <2>3, InBodyAny
  <1>5. f5 \in BodyFields
    <2>1. p5 \in Paths /\ q5 \in Paths
      BY EndNames, StringsAssumption DEF Paths, Names
    <2>2. p5[1] = "json" /\ Len(p5) > 1 /\ Len(q5) > 1
      BY EndNames 
    <2>3. q5[1] \notin {"message", "event"} \/ (q5[1] = "event" /\ q5[2] # "original")
      BY EndNames 
    <2> HIDE DEF p5, q5
    <2> QED
      BY <2>1, <2>2, <2>3, InBodyAny
  <1>6. f6 \in BodyFields
    <2>1. p6 \in Paths /\ q6 \in Paths
      BY EndNames, StringsAssumption DEF Paths, Names
    <2>2. p6[1] = "json" /\ Len(p6) > 1 /\ Len(q6) > 1
      BY EndNames 
    <2>3. q6[1] \notin {"message", "event"} \/ (q6[1] = "event" /\ q6[2] # "original")
      BY EndNames 
    <2> HIDE DEF p6, q6
    <2> QED
      BY <2>1, <2>2, <2>3, InBodyAny
  <1>7. Firewall!NearAndFar(near, far) = <<f1, f2, f3, f4, f5, f6>>
    BY FirewallSame DEF Firewall!NearAndFar
  <1> HIDE DEF f1, f2, f3, f4, f5, f6
  <1>8. <<f1, f2, f3, f4, f5, f6>> \in Seq(BodyFields)
    BY <1>1, <1>2, <1>3, <1>4, <1>5, <1>6
  <1> QED
    BY <1>7, <1>8

LEMMA ProtocolBody ==
    Vpcflow!Protocol("string") \in Seq(BodyFields)
  <1> DEFINE
    p1 == <<"json", "connection", "protocol">>
    q1 == <<"network", "iana_number">>
    f1 == Typed(p1, q1, "string")
  <1>1. f1 \in BodyFields
    <2>1. p1 \in Paths /\ q1 \in Paths
      BY StringsAssumption DEF Paths, Names
    <2>2. p1[1] = "json" /\ Len(p1) > 1 /\ Len(q1) > 1
      OBVIOUS
    <2>3. q1[1] \notin {"message", "event"} \/ (q1[1] = "event" /\ q1[2] # "original")
      OBVIOUS
    <2> HIDE DEF p1, q1
    <2> QED
      BY <2>1, <2>2, <2>3, InBody
  <1>2. Vpcflow!Protocol("string") = <<f1>>
    BY VpcflowSame DEF Vpcflow!Protocol
  <1> HIDE DEF f1
  <1>3. <<f1>> \in Seq(BodyFields)
    BY <1>1
  <1> QED
    BY <1>2, <1>3

LEMMA CountersBody ==
    Vpcflow!Counters \in Seq(BodyFields)
  <1> DEFINE
    p1 == <<"json", "bytes_sent">>
    q1 == <<"source", "bytes">>
    p2 == <<"json", "packets_sent">>
    q2 == <<"source", "packets">>
    p3 == <<"json", "start_time">>
    q3 == <<"event", "start">>
    p4 == <<"json", "end_time">>
    q4 == <<"event", "end">>
    f1 == Typed(p1, q1, "long")
    f2 == Typed(p2, q2, "long")
    f3 == Field(p3, q3)
    f4 == Field(p4, q4)
  <1>1. f1 \in BodyFields
    <2>1. p1 \in Paths /\ q1 \in Paths
      BY StringsAssumption DEF Paths, Names
    <2>2. p1[1] = "json" /\ Len(p1) > 1 /\ Len(q1) > 1
      OBVIOUS
    <2>3. q1[1] \notin {"message", "event"} \/ (q1[1] = "event" /\ q1[2] # "original")
      OBVIOUS
    <2> HIDE DEF p1, q1
    <2> QED
      BY <2>1, <2>2, <2>3, InBody
  <1>2. f2 \in BodyFields
    <2>1. p2 \in Paths /\ q2 \in Paths
      BY StringsAssumption DEF Paths, Names
    <2>2. p2[1] = "json" /\ Len(p2) > 1 /\ Len(q2) > 1
      OBVIOUS
    <2>3. q2[1] \notin {"message", "event"} \/ (q2[1] = "event" /\ q2[2] # "original")
      OBVIOUS
    <2> HIDE DEF p2, q2
    <2> QED
      BY <2>1, <2>2, <2>3, InBody
  <1>3. f3 \in BodyFields
    <2>1. p3 \in Paths /\ q3 \in Paths
      BY StringsAssumption DEF Paths, Names
    <2>2. p3[1] = "json" /\ Len(p3) > 1 /\ Len(q3) > 1
      OBVIOUS
    <2>3. q3[1] \notin {"message", "event"} \/ (q3[1] = "event" /\ q3[2] # "original")
      OBVIOUS
    <2> HIDE DEF p3, q3
    <2> QED
      BY <2>1, <2>2, <2>3, InBodyAny
  <1>4. f4 \in BodyFields
    <2>1. p4 \in Paths /\ q4 \in Paths
      BY StringsAssumption DEF Paths, Names
    <2>2. p4[1] = "json" /\ Len(p4) > 1 /\ Len(q4) > 1
      OBVIOUS
    <2>3. q4[1] \notin {"message", "event"} \/ (q4[1] = "event" /\ q4[2] # "original")
      OBVIOUS
    <2> HIDE DEF p4, q4
    <2> QED
      BY <2>1, <2>2, <2>3, InBodyAny
  <1>5. Vpcflow!Counters = <<f1, f2, f3, f4>>
    BY VpcflowSame DEF Vpcflow!Counters
  <1> HIDE DEF f1, f2, f3, f4
  <1>6. <<f1, f2, f3, f4>> \in Seq(BodyFields)
    BY <1>1, <1>2, <1>3, <1>4
  <1> QED
    BY <1>5, <1>6

Rtt == Typed(<<"json", "rtt_msec">>, <<"json", "rtt", "ms">>, "long")
LEMMA RttBody == Rtt \in BodyFields
  <1> DEFINE p == <<"json", "rtt_msec">>
             q == <<"json", "rtt", "ms">>
  <1>1. p \in Paths /\ q \in Paths
    BY StringsAssumption DEF Paths, Names
  <1>2. p[1] = "json" /\ Len(p) > 1 /\ Len(q) > 1 /\ q[1] = "json"
    OBVIOUS
  <1>3. Rtt = Typed(p, q, "long")
    BY DEF Rtt
  <1> HIDE DEF p, q
  <1> QED
    BY <1>1, <1>2, <1>3, InBody

LEMMA RestParts == Vpcflow!Rest = <<Rtt>> \o <<Moved("vpcflow")>>
  <1> DEFINE a == Rtt
             b == Moved("vpcflow")
  <1>1. Vpcflow!Rest = <<a, b>>
    BY VpcflowSame DEF Vpcflow!Rest, Rtt, Moved
  <1> DEFINE S == {a, b}
  <1> HIDE DEF a, b
  <1>2. a \in S /\ b \in S
    OBVIOUS
  <1> HIDE DEF S
  <1>3. <<a>> \o <<b>> = <<a, b>>
    BY <1>2, TwoConcat
  <1> QED
    BY <1>1, <1>3 DEF a, b

(* convertProtoPayload, with the list of authorizations apart.  The other    *)
(* fields stay away from it and from the status, and only two have a type.   *)
Authorizing == Field(<<"json", "authorizationInfo">>, <<"json", "authorization_info">>)
AuditHead ==
    <<Field(<<"json", "@type">>, <<"json", "type">>),
      Field(<<"json", "authenticationInfo", "principalEmail">>,
            <<"json", "authenticationInfo", "principal_email">>),
      Field(<<"json", "authenticationInfo", "authoritySelector">>,
            <<"json", "authenticationInfo", "authority_selector">>),
      Field(<<"json", "authenticationInfo">>, <<"json", "authentication_info">>)>>
AuditTail ==
    <<Field(<<"json", "methodName">>, <<"json", "method_name">>),
      Typed(<<"json", "numResponseItems">>, <<"json", "num_response_items">>, "long"),
      Field(<<"json", "request", "@type">>, <<"json", "request", "proto_name">>),
      Field(<<"json", "request", "filter">>, <<"json", "request", "filter">>),
      Field(<<"json", "request", "name">>, <<"json", "request", "name">>),
      Field(<<"json", "request", "resourceName">>, <<"json", "request", "resource_name">>),
      Typed(<<"json", "requestMetadata", "callerIp">>, <<"json", "requestMetadata", "caller_ip">>,
            "ip"),
      Field(<<"json", "requestMetadata", "callerSuppliedUserAgent">>,
            <<"json", "requestMetadata", "caller_supplied_user_agent">>),
      Field(<<"json", "requestMetadata">>, <<"json", "request_metadata">>),
      Field(<<"json", "resourceName">>, <<"json", "resource_name">>),
      Field(<<"json", "resourceLocation", "currentLocations">>,
            <<"json", "resourceLocation", "current_locations">>),
      Field(<<"json", "resourceLocation">>, <<"json", "resource_location">>),
      Field(<<"json", "serviceName">>, <<"json", "service_name">>)>>
AuditBody == AuditHead \o (<<Authorizing>> \o AuditTail)
OutcomeNames == {"status", "authorizationInfo", "authorization_info"}
AuditTyped ==
    {<<<<"json", "numResponseItems">>, "long">>,
     <<<<"json", "requestMetadata", "callerIp">>, "ip">>}
AuditFields ==
    {f \in AllFields : /\ f[1][1] = "json" /\ Len(f[1]) > 1 /\ f[1][2] \notin OutcomeNames
                       /\ f[2][1] = "json" /\ Len(f[2]) > 1 /\ f[2][2] \notin OutcomeNames
                       /\ f[3] = "" \/ <<f[1], f[3]>> \in AuditTyped}

LEMMA InAudit ==
    ASSUME NEW from \in Paths, NEW to \in Paths, NEW type \in {"", "long", "ip", "string"},
           from[1] = "json", Len(from) > 1, from[2] \notin OutcomeNames,
           to[1] = "json", Len(to) > 1, to[2] \notin OutcomeNames,
           type = "" \/ <<from, type>> \in AuditTyped
    PROVE  Typed(from, to, type) \in AuditFields
  BY DEF Typed, AuditFields, AllFields

LEMMA InAuditAny ==
    ASSUME NEW from \in Paths, NEW to \in Paths,
           from[1] = "json", Len(from) > 1, from[2] \notin OutcomeNames,
           to[1] = "json", Len(to) > 1, to[2] \notin OutcomeNames
    PROVE  Field(from, to) \in AuditFields
  BY DEF Field, AuditFields, AllFields

LEMMA AuditIsBody == AuditFields \subseteq BodyFields
  <1> SUFFICES ASSUME NEW f \in AuditFields
               PROVE  f \in BodyFields
    OBVIOUS
  <1>1. /\ f \in AllFields /\ f[1] \in Paths /\ f[2] \in Paths /\ f[1][1] = "json" /\ Len(f[1]) > 1
        /\ f[2][1] = "json" /\ Len(f[2]) > 1
    BY DEF AuditFields, AllFields
  <1>2. Apart(f[2], <<"event", "original">>)
    BY <1>1, FirstApart, OriginalIsPath
  <1> QED
    BY <1>1, <1>2 DEF BodyFields

LEMMA AuthorizingBody == Authorizing \in BodyFields
  <1> DEFINE p == <<"json", "authorizationInfo">>
             q == <<"json", "authorization_info">>
  <1>1. p \in Paths /\ q \in Paths
    BY StringsAssumption DEF Paths, Names
  <1>2. p[1] = "json" /\ Len(p) > 1 /\ Len(q) > 1 /\ q[1] \notin {"message", "event"}
    OBVIOUS
  <1> HIDE DEF p, q
  <1>3. Field(p, q) \in BodyFields
    BY <1>1, <1>2, InBodyAny
  <1> QED
    BY <1>3 DEF Authorizing, p, q

LEMMA AuditHeadFields == AuditHead \in Seq(AuditFields)
  <1> DEFINE
    p1 == <<"json", "@type">>
    q1 == <<"json", "type">>
    p2 == <<"json", "authenticationInfo", "principalEmail">>
    q2 == <<"json", "authenticationInfo", "principal_email">>
    p3 == <<"json", "authenticationInfo", "authoritySelector">>
    q3 == <<"json", "authenticationInfo", "authority_selector">>
    p4 == <<"json", "authenticationInfo">>
    q4 == <<"json", "authentication_info">>
    f1 == Field(p1, q1)
    f2 == Field(p2, q2)
    f3 == Field(p3, q3)
    f4 == Field(p4, q4)
  <1>1. f1 \in AuditFields
    <2>1. p1 \in Paths /\ q1 \in Paths
      BY StringsAssumption DEF Paths, Names
    <2>2. /\ p1[1] = "json" /\ Len(p1) > 1 /\ p1[2] \notin OutcomeNames
          /\ q1[1] = "json" /\ Len(q1) > 1 /\ q1[2] \notin OutcomeNames
      BY DEF OutcomeNames
    <2> HIDE DEF p1, q1
    <2> QED
      BY <2>1, <2>2, InAuditAny
  <1>2. f2 \in AuditFields
    <2>1. p2 \in Paths /\ q2 \in Paths
      BY StringsAssumption DEF Paths, Names
    <2>2. /\ p2[1] = "json" /\ Len(p2) > 1 /\ p2[2] \notin OutcomeNames
          /\ q2[1] = "json" /\ Len(q2) > 1 /\ q2[2] \notin OutcomeNames
      BY DEF OutcomeNames
    <2> HIDE DEF p2, q2
    <2> QED
      BY <2>1, <2>2, InAuditAny
  <1>3. f3 \in AuditFields
    <2>1. p3 \in Paths /\ q3 \in Paths
      BY StringsAssumption DEF Paths, Names
    <2>2. /\ p3[1] = "json" /\ Len(p3) > 1 /\ p3[2] \notin OutcomeNames
          /\ q3[1] = "json" /\ Len(q3) > 1 /\ q3[2] \notin OutcomeNames
      BY DEF OutcomeNames
    <2> HIDE DEF p3, q3
    <2> QED
      BY <2>1, <2>2, InAuditAny
  <1>4. f4 \in AuditFields
    <2>1. p4 \in Paths /\ q4 \in Paths
      BY StringsAssumption DEF Paths, Names
    <2>2. /\ p4[1] = "json" /\ Len(p4) > 1 /\ p4[2] \notin OutcomeNames
          /\ q4[1] = "json" /\ Len(q4) > 1 /\ q4[2] \notin OutcomeNames
      BY DEF OutcomeNames
    <2> HIDE DEF p4, q4
    <2> QED
      BY <2>1, <2>2, InAuditAny
  <1>5. AuditHead = <<f1, f2, f3, f4>>
    BY DEF AuditHead
  <1> HIDE DEF f1, f2, f3, f4
  <1>6. <<f1, f2, f3, f4>> \in Seq(AuditFields)
    BY <1>1, <1>2, <1>3, <1>4
  <1> QED
    BY <1>5, <1>6

LEMMA AuditTailFields == AuditTail \in Seq(AuditFields)
  <1> DEFINE
    p6 == <<"json", "methodName">>
    q6 == <<"json", "method_name">>
    p7 == <<"json", "numResponseItems">>
    q7 == <<"json", "num_response_items">>
    p8 == <<"json", "request", "@type">>
    q8 == <<"json", "request", "proto_name">>
    p9 == <<"json", "request", "filter">>
    q9 == <<"json", "request", "filter">>
    p10 == <<"json", "request", "name">>
    q10 == <<"json", "request", "name">>
    p11 == <<"json", "request", "resourceName">>
    q11 == <<"json", "request", "resource_name">>
    p12 == <<"json", "requestMetadata", "callerIp">>
    q12 == <<"json", "requestMetadata", "caller_ip">>
    p13 == <<"json", "requestMetadata", "callerSuppliedUserAgent">>
    q13 == <<"json", "requestMetadata", "caller_supplied_user_agent">>
    p14 == <<"json", "requestMetadata">>
    q14 == <<"json", "request_metadata">>
    p15 == <<"json", "resourceName">>
    q15 == <<"json", "resource_name">>
    p16 == <<"json", "resourceLocation", "currentLocations">>
    q16 == <<"json", "resourceLocation", "current_locations">>
    p17 == <<"json", "resourceLocation">>
    q17 == <<"json", "resource_location">>
    p18 == <<"json", "serviceName">>
    q18 == <<"json", "service_name">>
    f6 == Field(p6, q6)
    f7 == Typed(p7, q7, "long")
    f8 == Field(p8, q8)
    f9 == Field(p9, q9)
    f10 == Field(p10, q10)
    f11 == Field(p11, q11)
    f12 == Typed(p12, q12, "ip")
    f13 == Field(p13, q13)
    f14 == Field(p14, q14)
    f15 == Field(p15, q15)
    f16 == Field(p16, q16)
    f17 == Field(p17, q17)
    f18 == Field(p18, q18)
  <1>1. f6 \in AuditFields
    <2>1. p6 \in Paths /\ q6 \in Paths
      BY StringsAssumption DEF Paths, Names
    <2>2. /\ p6[1] = "json" /\ Len(p6) > 1 /\ p6[2] \notin OutcomeNames
          /\ q6[1] = "json" /\ Len(q6) > 1 /\ q6[2] \notin OutcomeNames
      BY DEF OutcomeNames
    <2> HIDE DEF p6, q6
    <2> QED
      BY <2>1, <2>2, InAuditAny
  <1>2. f7 \in AuditFields
    <2>1. p7 \in Paths /\ q7 \in Paths
      BY StringsAssumption DEF Paths, Names
    <2>2. /\ p7[1] = "json" /\ Len(p7) > 1 /\ p7[2] \notin OutcomeNames
          /\ q7[1] = "json" /\ Len(q7) > 1 /\ q7[2] \notin OutcomeNames
      BY DEF OutcomeNames
    <2>3. <<p7, "long">> \in AuditTyped
      BY DEF AuditTyped
    <2> HIDE DEF p7, q7
    <2> QED
      BY <2>1, <2>2, <2>3, InAudit
  <1>3. f8 \in AuditFields
    <2>1. p8 \in Paths /\ q8 \in Paths
      BY StringsAssumption DEF Paths, Names
    <2>2. /\ p8[1] = "json" /\ Len(p8) > 1 /\ p8[2] \notin OutcomeNames
          /\ q8[1] = "json" /\ Len(q8) > 1 /\ q8[2] \notin OutcomeNames
      BY DEF OutcomeNames
    <2> HIDE DEF p8, q8
    <2> QED
      BY <2>1, <2>2, InAuditAny
  <1>4. f9 \in AuditFields
    <2>1. p9 \in Paths /\ q9 \in Paths
      BY StringsAssumption DEF Paths, Names
    <2>2. /\ p9[1] = "json" /\ Len(p9) > 1 /\ p9[2] \notin OutcomeNames
          /\ q9[1] = "json" /\ Len(q9) > 1 /\ q9[2] \notin OutcomeNames
      BY DEF OutcomeNames
    <2> HIDE DEF p9, q9
    <2> QED
      BY <2>1, <2>2, InAuditAny
  <1>5. f10 \in AuditFields
    <2>1. p10 \in Paths /\ q10 \in Paths
      BY StringsAssumption DEF Paths, Names
    <2>2. /\ p10[1] = "json" /\ Len(p10) > 1 /\ p10[2] \notin OutcomeNames
          /\ q10[1] = "json" /\ Len(q10) > 1 /\ q10[2] \notin OutcomeNames
      BY DEF OutcomeNames
    <2> HIDE DEF p10, q10
    <2> QED
      BY <2>1, <2>2, InAuditAny
  <1>6. f11 \in AuditFields
    <2>1. p11 \in Paths /\ q11 \in Paths
      BY StringsAssumption DEF Paths, Names
    <2>2. /\ p11[1] = "json" /\ Len(p11) > 1 /\ p11[2] \notin OutcomeNames
          /\ q11[1] = "json" /\ Len(q11) > 1 /\ q11[2] \notin OutcomeNames
      BY DEF OutcomeNames
    <2> HIDE DEF p11, q11
    <2> QED
      BY <2>1, <2>2, InAuditAny
  <1>7. f12 \in AuditFields
    <2>1. p12 \in Paths /\ q12 \in Paths
      BY StringsAssumption DEF Paths, Names
    <2>2. /\ p12[1] = "json" /\ Len(p12) > 1 /\ p12[2] \notin OutcomeNames
          /\ q12[1] = "json" /\ Len(q12) > 1 /\ q12[2] \notin OutcomeNames
      BY DEF OutcomeNames
    <2>3. <<p12, "ip">> \in AuditTyped
      BY DEF AuditTyped
    <2> HIDE DEF p12, q12
    <2> QED
      BY <2>1, <2>2, <2>3, InAudit
  <1>8. f13 \in AuditFields
    <2>1. p13 \in Paths /\ q13 \in Paths
      BY StringsAssumption DEF Paths, Names
    <2>2. /\ p13[1] = "json" /\ Len(p13) > 1 /\ p13[2] \notin OutcomeNames
          /\ q13[1] = "json" /\ Len(q13) > 1 /\ q13[2] \notin OutcomeNames
      BY DEF OutcomeNames
    <2> HIDE DEF p13, q13
    <2> QED
      BY <2>1, <2>2, InAuditAny
  <1>9. f14 \in AuditFields
    <2>1. p14 \in Paths /\ q14 \in Paths
      BY StringsAssumption DEF Paths, Names
    <2>2. /\ p14[1] = "json" /\ Len(p14) > 1 /\ p14[2] \notin OutcomeNames
          /\ q14[1] = "json" /\ Len(q14) > 1 /\ q14[2] \notin OutcomeNames
      BY DEF OutcomeNames
    <2> HIDE DEF p14, q14
    <2> QED
      BY <2>1, <2>2, InAuditAny
  <1>10. f15 \in AuditFields
    <2>1. p15 \in Paths /\ q15 \in Paths
      BY StringsAssumption DEF Paths, Names
    <2>2. /\ p15[1] = "json" /\ Len(p15) > 1 /\ p15[2] \notin OutcomeNames
          /\ q15[1] = "json" /\ Len(q15) > 1 /\ q15[2] \notin OutcomeNames
      BY DEF OutcomeNames
    <2> HIDE DEF p15, q15
    <2> QED
      BY <2>1, <2>2, InAuditAny
  <1>11. f16 \in AuditFields
    <2>1. p16 \in Paths /\ q16 \in Paths
      BY StringsAssumption DEF Paths, Names
    <2>2. /\ p16[1] = "json" /\ Len(p16) > 1 /\ p16[2] \notin OutcomeNames
          /\ q16[1] = "json" /\ Len(q16) > 1 /\ q16[2] \notin OutcomeNames
      BY DEF OutcomeNames
    <2> HIDE DEF p16, q16
    <2> QED
      BY <2>1, <2>2, InAuditAny
  <1>12. f17 \in AuditFields
    <2>1. p17 \in Paths /\ q17 \in Paths
      BY StringsAssumption DEF Paths, Names
    <2>2. /\ p17[1] = "json" /\ Len(p17) > 1 /\ p17[2] \notin OutcomeNames
          /\ q17[1] = "json" /\ Len(q17) > 1 /\ q17[2] \notin OutcomeNames
      BY DEF OutcomeNames
    <2> HIDE DEF p17, q17
    <2> QED
      BY <2>1, <2>2, InAuditAny
  <1>13. f18 \in AuditFields
    <2>1. p18 \in Paths /\ q18 \in Paths
      BY StringsAssumption DEF Paths, Names
    <2>2. /\ p18[1] = "json" /\ Len(p18) > 1 /\ p18[2] \notin OutcomeNames
          /\ q18[1] = "json" /\ Len(q18) > 1 /\ q18[2] \notin OutcomeNames
      BY DEF OutcomeNames
    <2> HIDE DEF p18, q18
    <2> QED
      BY <2>1, <2>2, InAuditAny
  <1>14. AuditTail = <<f6, f7, f8, f9, f10, f11, f12, f13, f14, f15, f16, f17, f18>>
    BY DEF AuditTail
  <1> HIDE DEF f6, f7, f8, f9, f10, f11, f12, f13, f14, f15, f16, f17, f18
  <1>15. <<f6, f7, f8, f9, f10, f11, f12, f13, f14, f15, f16, f17, f18>> \in Seq(AuditFields)
    BY <1>1, <1>2, <1>3, <1>4, <1>5, <1>6, <1>7, <1>8, <1>9, <1>10, <1>11, <1>12, <1>13
  <1> QED
    BY <1>14, <1>15

LEMMA AuditBodyFields == AuditBody \in Seq(BodyFields)
  <1> DEFINE a == AuditHead
             b == <<Authorizing>>
             c == AuditTail
  <1>1. a \in Seq(AuditFields) /\ c \in Seq(AuditFields)
    BY AuditHeadFields, AuditTailFields
  <1>2. b \in Seq(BodyFields)
    BY AuthorizingBody, Singleton
  <1> HIDE DEF a, b, c
  <1>3. a \in Seq(BodyFields) /\ c \in Seq(BodyFields)
    BY <1>1, AuditIsBody, SeqMore
  <1>4. a \o (b \o c) \in Seq(BodyFields)
    BY <1>2, <1>3
  <1> QED
    BY <1>4 DEF AuditBody, a, b, c

LEMMA AuditParts == Audit!PayloadFields = AuditBody \o <<Moved("audit")>>
  <1> DEFINE
    f1 == Field(<<"json", "@type">>, <<"json", "type">>)
    f2 == Field(<<"json", "authenticationInfo", "principalEmail">>,
                <<"json", "authenticationInfo", "principal_email">>)
    f3 == Field(<<"json", "authenticationInfo", "authoritySelector">>,
                <<"json", "authenticationInfo", "authority_selector">>)
    f4 == Field(<<"json", "authenticationInfo">>, <<"json", "authentication_info">>)
    f5 == Field(<<"json", "authorizationInfo">>, <<"json", "authorization_info">>)
    f6 == Field(<<"json", "methodName">>, <<"json", "method_name">>)
    f7 == Typed(<<"json", "numResponseItems">>, <<"json", "num_response_items">>, "long")
    f8 == Field(<<"json", "request", "@type">>, <<"json", "request", "proto_name">>)
    f9 == Field(<<"json", "request", "filter">>, <<"json", "request", "filter">>)
    f10 == Field(<<"json", "request", "name">>, <<"json", "request", "name">>)
    f11 == Field(<<"json", "request", "resourceName">>, <<"json", "request", "resource_name">>)
    f12 == Typed(<<"json", "requestMetadata", "callerIp">>,
                 <<"json", "requestMetadata", "caller_ip">>, "ip")
    f13 == Field(<<"json", "requestMetadata", "callerSuppliedUserAgent">>,
                 <<"json", "requestMetadata", "caller_supplied_user_agent">>)
    f14 == Field(<<"json", "requestMetadata">>, <<"json", "request_metadata">>)
    f15 == Field(<<"json", "resourceName">>, <<"json", "resource_name">>)
    f16 == Field(<<"json", "resourceLocation", "currentLocations">>,
                 <<"json", "resourceLocation", "current_locations">>)
    f17 == Field(<<"json", "resourceLocation">>, <<"json", "resource_location">>)
    f18 == Field(<<"json", "serviceName">>, <<"json", "service_name">>)
    f19 == Moved("audit")
  <1>1. /\ AuditHead = <<f1, f2, f3, f4>> /\ Authorizing = f5
        /\ AuditTail = <<f6, f7, f8, f9, f10, f11, f12, f13, f14, f15, f16, f17, f18>>
    BY DEF AuditHead, Authorizing, AuditTail
  <1>2. Audit!PayloadFields = <<f1, f2, f3, f4, f5, f6, f7, f8, f9, f10, f11, f12, f13, f14, f15,
                                f16, f17, f18, f19>>
    BY AuditSame DEF Audit!PayloadFields, Audit!Top, Audit!In, Moved
  <1> DEFINE S == {f1, f2, f3, f4, f5, f6, f7, f8, f9, f10, f11, f12, f13, f14, f15, f16, f17,
                   f18, f19}
  <1> HIDE DEF f1, f2, f3, f4, f5, f6, f7, f8, f9, f10, f11, f12, f13, f14, f15, f16, f17, f18, f19
  <1>3. /\ f1 \in S /\ f2 \in S /\ f3 \in S /\ f4 \in S /\ f5 \in S /\ f6 \in S /\ f7 \in S
        /\ f8 \in S /\ f9 \in S /\ f10 \in S /\ f11 \in S /\ f12 \in S /\ f13 \in S
        /\ f14 \in S /\ f15 \in S /\ f16 \in S /\ f17 \in S /\ f18 \in S /\ f19 \in S
    OBVIOUS
  <1> HIDE DEF S
  <1> DEFINE
    s == (<<f1, f2, f3, f4>> \o (<<f5>> \o <<f6, f7, f8, f9, f10, f11, f12, f13, f14, f15, f16, f17, f18>>)) \o <<f19>>
    t == <<f1, f2, f3, f4, f5, f6, f7, f8, f9, f10, f11, f12, f13, f14, f15, f16, f17, f18, f19>>
  <1>4. s \in Seq(S) /\ t \in Seq(S)
    BY <1>3
  <1>5. Len(s) = 19 /\ Len(t) = 19
    OBVIOUS
  <1>6. s[1] = f1 /\ t[1] = f1
    OBVIOUS
  <1>7. s[2] = f2 /\ t[2] = f2
    OBVIOUS
  <1>8. s[3] = f3 /\ t[3] = f3
    OBVIOUS
  <1>9. s[4] = f4 /\ t[4] = f4
    OBVIOUS
  <1>10. s[5] = f5 /\ t[5] = f5
    OBVIOUS
  <1>11. s[6] = f6 /\ t[6] = f6
    OBVIOUS
  <1>12. s[7] = f7 /\ t[7] = f7
    OBVIOUS
  <1>13. s[8] = f8 /\ t[8] = f8
    OBVIOUS
  <1>14. s[9] = f9 /\ t[9] = f9
    OBVIOUS
  <1>15. s[10] = f10 /\ t[10] = f10
    OBVIOUS
  <1>16. s[11] = f11 /\ t[11] = f11
    OBVIOUS
  <1>17. s[12] = f12 /\ t[12] = f12
    OBVIOUS
  <1>18. s[13] = f13 /\ t[13] = f13
    OBVIOUS
  <1>19. s[14] = f14 /\ t[14] = f14
    OBVIOUS
  <1>20. s[15] = f15 /\ t[15] = f15
    OBVIOUS
  <1>21. s[16] = f16 /\ t[16] = f16
    OBVIOUS
  <1>22. s[17] = f17 /\ t[17] = f17
    OBVIOUS
  <1>23. s[18] = f18 /\ t[18] = f18
    OBVIOUS
  <1>24. s[19] = f19 /\ t[19] = f19
    OBVIOUS
  <1> HIDE DEF s, t
  <1>25. \A n \in 1..19 : s[n] = t[n]
    BY <1>6, <1>7, <1>8, <1>9, <1>10, <1>11, <1>12, <1>13, <1>14, <1>15, <1>16, <1>17, <1>18,
       <1>19, <1>20, <1>21, <1>22, <1>23, <1>24
  <1>26. s = t
    BY <1>4, <1>5, <1>25, SeqEqual
  <1>27. (<<f1, f2, f3, f4>> \o (<<f5>> \o <<f6, f7, f8, f9, f10, f11, f12, f13, f14, f15, f16, f17, f18>>)) \o <<f19>>
           = <<f1, f2, f3, f4, f5, f6, f7, f8, f9, f10, f11, f12, f13, f14,
              f15, f16, f17, f18, f19>>
    BY <1>26 DEF s, t
  <1> QED
    BY <1>1, <1>2, <1>27 DEF AuditBody, f19

-----------------------------------------------------------------------------
(*                       What a step comes to                                *)

LEMMA Results ==
    ASSUME NEW e
    PROVE  /\ Ok(e).ok = TRUE /\ Ok(e).evt = e
           /\ Throw(e).ok = FALSE /\ Throw(e).evt = e
  BY DEF Ok, Throw

LEMMA AnyConvertible ==
    ASSUME NEW v
    PROVE  Convertible(v, "") /\ Convertible(v, "string")
  BY Zenon DEF Convertible

LEMMA LongConvertible ==
    ASSUME NEW v
    PROVE  Convertible(v, "long") <=> v[1] \in {"string", "long"} /\ v[2] \in Numerals
  BY Zenon DEF Convertible

LEMMA IPConvertible ==
    ASSUME NEW v
    PROVE  Convertible(v, "ip") <=> IsIP(v)
  <1>1. "ip" # "long"
    OBVIOUS
  <1> QED
    BY <1>1, Zenon DEF Convertible

LEMMA ConvertGoes ==
    ASSUME NEW e, NEW fields, NEW mode, NEW ignore_missing, NEW fail_on_error
    PROVE  \/ Convert(e, fields, mode, ignore_missing, fail_on_error)
                  = Ok(From(e, e, fields, mode))
           \/ /\ Convert(e, fields, mode, ignore_missing, fail_on_error) = Throw(e)
              /\ fail_on_error
              /\ \E x \in DOMAIN fields : \/ Bad(e, fields[x])
                                          \/ Missing(e, fields[x]) /\ ~ignore_missing
  BY EachFrom DEF Convert

(* Without types nothing is bad.                                             *)
LEMMA UntypedGood ==
    ASSUME NEW e, NEW f, f[3] = "" \/ f[3] = "string"
    PROVE  ~Bad(e, f)
  BY AnyConvertible DEF Bad

LEMMA OneConvert ==
    ASSUME NEW e, NEW from, NEW to, NEW mode, NEW ignore_missing
    PROVE  Convert(e, <<Field(from, to)>>, mode, ignore_missing, TRUE)
               = IF ignore_missing \/ Has(e, from)
                 THEN Ok(ConvertUsable(e, e, Field(from, to), mode)) ELSE Throw(e)
  <1> DEFINE f == Field(from, to)
  <1>1. f[1] = from /\ f[3] = ""
    BY DEF Field
  <1> HIDE DEF f
  <1>2. ~Bad(e, f)
    BY <1>1, UntypedGood
  <1>3. Missing(e, f) <=> ~Has(e, from)
    BY <1>1 DEF Missing
  <1>4. DOMAIN <<f>> = {1} /\ <<f>>[1] = f
    OBVIOUS
  <1>5. ConvertEach(e, <<f>>, mode) = ConvertUsable(e, e, f, mode)
    BY EachFrom, FromOne
  <1>6. Convert(e, <<f>>, mode, ignore_missing, TRUE)
            = IF ignore_missing \/ Has(e, from)
              THEN Ok(ConvertUsable(e, e, f, mode)) ELSE Throw(e)
    BY <1>2, <1>3, <1>4, <1>5 DEF Convert
  <1> QED
    BY <1>6 DEF f

LEMMA OneRename ==
    ASSUME NEW e, NEW from, NEW to, Has(e, from)
    PROVE  ConvertUsable(e, e, Field(from, to), "rename") = Move(e, from, to)
  <1> DEFINE f == Field(from, to)
  <1>1. f[1] = from /\ f[2] = to /\ f[3] = ""
    BY DEF Field
  <1> HIDE DEF f
  <1>2. ~Bad(e, f) /\ ~Missing(e, f)
    BY <1>1, UntypedGood DEF Missing
  <1>3. ConvertUsable(e, e, f, "rename") = Move(e, from, to)
    BY <1>1, <1>2 DEF ConvertUsable, ConvertOne
  <1> QED
    BY <1>3 DEF f

LEMMA OneMoved ==
    ASSUME NEW e, NEW from, NEW to
    PROVE  /\ Has(e, from) => Convert(e, <<Field(from, to)>>, "rename", FALSE, TRUE)
                                  = Ok(Move(e, from, to))
           /\ ~Has(e, from) => Convert(e, <<Field(from, to)>>, "rename", FALSE, TRUE) = Throw(e)
  <1>1. Convert(e, <<Field(from, to)>>, "rename", FALSE, TRUE)
            = IF FALSE \/ Has(e, from)
              THEN Ok(ConvertUsable(e, e, Field(from, to), "rename")) ELSE Throw(e)
    BY OneConvert, Zenon
  <1>2. CASE Has(e, from)
    BY <1>1, <1>2, Zenon, OneRename
  <1>3. CASE ~Has(e, from)
    BY <1>1, <1>3, Zenon
  <1> QED
    BY <1>2, <1>3

(* What an input has that a script throws on; ThrowsForCause asks for it.    *)
TimedOf(i) ==
    Has(DocumentOf(i), <<"timestamp">>) => DocumentOf(i)[<<"timestamp">>][2] \in Instants
NoNumberOf(i, f) == Has(DocumentOf(i), f) /\ ~Number(DocumentOf(i)[f])
Caller == <<"protoPayload", "requestMetadata", "callerIp">>
CauseOf(i) ==
    /\ i.dataset = "firewall" => ~TimedOf(i) \/ Get(DocumentOf(i), <<"jsonPayload">>) = Null
    /\ i.dataset = "vpcflow" => \/ ~TimedOf(i)
                                \/ Get(DocumentOf(i), <<"jsonPayload">>) = Null
                                \/ \E f \in VpcflowNumbers : NoNumberOf(i, f)
    /\ i.dataset = "audit" =>
          \/ ~TimedOf(i)
          \/ Get(DocumentOf(i), <<"protoPayload", "authorizationInfo">>) = Null
          \/ NoNumberOf(i, <<"protoPayload", "numResponseItems">>)
          \/ Has(DocumentOf(i), Caller) /\ ~IsIP(DocumentOf(i)[Caller])
    /\ i.dataset = "threat" => Get(DocumentOf(i), <<"value">>) = Null

(* Where a script may throw: firewall not once it has moved the payload up.  *)
ThrownAt(i, n) == i.dataset = "firewall" => n <= EntryAt(i)

(* The result r of step n on the event e of input i.                         *)
Fares(i, e, n, r) ==
    /\ r.ok \in BOOLEAN
    /\ r.ok => CloudAt(i, r.evt, n + 1)
    /\ ~r.ok => r.evt = e /\ CauseOf(i) /\ ThrownAt(i, n)

LEMMA FaresOk ==
    ASSUME NEW i, NEW e, NEW n, NEW f, CloudAt(i, f, n + 1)
    PROVE  Fares(i, e, n, Ok(f))
  BY Results DEF Fares

LEMMA FaresThrow ==
    ASSUME NEW i, NEW e, NEW n, CauseOf(i), ThrownAt(i, n)
    PROVE  Fares(i, e, n, Throw(e))
  BY Results DEF Fares

(* The step before which e is, and what the steps beside the entry need.     *)
Beforehand(i, e, n) == CloudInput(i) /\ n \in Nat /\ CloudAt(i, e, n) /\ IsEvent(e)
Idle(i, n) ==
    n > 1 /\ n # DropAt(i) /\ n # EntryAt(i) /\ n # PayloadAt(i) /\ (n = 3 => ~i.keep)

(* A quiet step between the others fares well.                               *)
LEMMA FaresQuiet ==
    ASSUME NEW i, NEW e, NEW n, Beforehand(i, e, n), Idle(i, n), NEW f, Quiet(e, f)
    PROVE  Fares(i, e, n, Ok(f))
  BY CloudQuiet, FaresOk DEF Beforehand, Idle

LEMMA FaresAside ==
    ASSUME NEW i, NEW e, NEW n, Beforehand(i, e, n), Idle(i, n),
           NEW fields \in Seq(AsideFields), NEW ignore_missing, NEW fail_on_error,
           fail_on_error => ignore_missing /\ \A x \in DOMAIN fields : ~Bad(e, fields[x])
    PROVE  Fares(i, e, n, Convert(e, fields, "copy", ignore_missing, fail_on_error))
  BY QuietFrom, ConvertGoes, FaresQuiet DEF Beforehand

LEMMA DecodeCause ==
    ASSUME NEW i, CloudInput(i) \/ (IsInput(i) /\ i.dataset = "threat"), MessageOf(i)[1] # "json"
    PROVE  CauseOf(i)
  BY  DEF DocumentOf, Get, Has, CauseOf

(* decodeJson *)
LEMMA FaresDecode ==
    ASSUME NEW i, NEW e, Beforehand(i, e, 1)
    PROVE  Fares(i, e, 1, DecodeJSON(e, <<"message">>, <<"json">>))
  <1>1. CloudInput(i) /\ CloudAt(i, e, 1) /\ IsInput(i)
    BY DEF Beforehand, CloudInput
  <1>2. e = i.evt
    BY <1>1 DEF CloudAt
  <1>3. Has(e, <<"message">>) /\ Get(e, <<"message">>) = MessageOf(i) /\ e[<<"message">>] = MessageOf(i)
    BY <1>1, <1>2, InputFacts DEF MessageOf
  <1>4. CASE MessageOf(i)[1] = "json"
    <2>1. DecodeJSON(e, <<"message">>, <<"json">>) = Ok(Graft(e, <<"json">>, e[<<"message">>][2]))
      BY <1>3, <1>4, Zenon DEF DecodeJSON
    <2>2. e[<<"message">>][2] = DocumentOf(i)
      BY <1>2, <1>4 DEF DocumentOf
    <2>3. CloudAt(i, Graft(e, <<"json">>, DocumentOf(i)), 1 + 1)
      BY <1>1, <1>4, CloudDecode
    <2> QED
      BY <2>1, <2>2, <2>3, FaresOk
  <1>5. CASE MessageOf(i)[1] # "json"
    <2>1. ThrownAt(i, 1)
      BY <1>1, Thresholds DEF ThrownAt
    <2> QED
      BY <1>3, <1>5, <2>1, Zenon, <1>1, DecodeCause, FaresThrow DEF DecodeJSON
  <1> QED
    BY <1>4, <1>5

LEMMA ShownJson ==
    ASSUME NEW i, NEW e, NEW n, CloudInput(i), CloudAt(i, e,
                                                       n), n \in 2..EntryAt(i), NEW name \in STRING
    PROVE  /\ Has(e, <<"json", name>>) <=> Has(DocumentOf(i), <<name>>)
           /\ Get(e, <<"json", name>>) = Get(DocumentOf(i), <<name>>)
  BY JsonNames DEF CloudAt, Shows

LEMMA TimestampGoes ==
    ASSUME NEW e, NEW from
    PROVE  \/ ~Has(e, from) /\ Timestamp(e, from) = Ok(e)
           \/ /\ Has(e, from) /\ Get(e, from)[2] \in Instants
              /\ Timestamp(e, from) = Ok(Put(e, <<"@timestamp">>, e[from]))
           \/ Has(e, from) /\ Get(e, from)[2] \notin Instants /\ Timestamp(e, from) = Throw(e)
  <1>1. CASE ~Has(e, from)
    BY <1>1, Zenon DEF Timestamp
  <1>2. CASE Has(e, from) /\ Get(e, from)[2] \in Instants
    BY <1>2, Zenon DEF Timestamp
  <1>3. CASE Has(e, from) /\ Get(e, from)[2] \notin Instants
    BY <1>3, Zenon DEF Timestamp
  <1> QED
    BY <1>1, <1>2, <1>3

(* parseTimestamp *)
LEMMA FaresTimestamp ==
    ASSUME NEW i, NEW e, Beforehand(i, e, 2)
    PROVE  Fares(i, e, 2, Timestamp(e, <<"json", "timestamp">>))
  <1> DEFINE from == <<"json", "timestamp">>
  <1>1. CloudInput(i) /\ CloudAt(i, e, 2) /\ IsEvent(e)
    BY DEF Beforehand
  <1>2. EntryAt(i) \in 6..7 /\ DropAt(i) \in 3..4 /\ PayloadAt(i) \in 8..13
    BY <1>1, Thresholds
  <1>3. Idle(i, 2)
    BY <1>2 DEF Idle
  <1>4. "timestamp" \in STRING
    BY StringsAssumption
  <1>5. Has(e, from) <=> Has(DocumentOf(i), <<"timestamp">>)
    BY <1>1, <1>2, <1>4, ShownJson
  <1>6. Get(e, from) = Get(DocumentOf(i), <<"timestamp">>)
    BY <1>1, <1>2, <1>4, ShownJson
  <1>7. Quiet(e, Timestamp(e, from).evt)
    BY <1>1, TimestampQuiet
  <1>8. \/ ~Has(e, from) /\ Timestamp(e, from) = Ok(e)
        \/ Has(e, from) /\ Get(e, from)[2] \in Instants
             /\ Timestamp(e, from) = Ok(Put(e, <<"@timestamp">>, e[from]))
        \/ Has(e, from) /\ Get(e, from)[2] \notin Instants /\ Timestamp(e, from) = Throw(e)
    BY TimestampGoes
  <1> HIDE DEF from
  <1>9. ASSUME NEW f, Timestamp(e, from) = Ok(f)
        PROVE  Fares(i, e, 2, Timestamp(e, from))
    <2>1. Quiet(e, f)
      BY <1>7, <1>9, Results
    <2> QED
      BY <1>3, <1>9, <2>1, FaresQuiet
  <1>10. ASSUME Has(e, from), Get(e, from)[2] \notin Instants, Timestamp(e, from) = Throw(e)
         PROVE  Fares(i, e, 2, Timestamp(e, from))
    <2>1. CauseOf(i)
      BY <1>5, <1>6, <1>10, <1>1 DEF Get, TimedOf, CloudInput, Googlecloud, CauseOf
    <2>2. ThrownAt(i, 2)
      BY <1>2 DEF ThrownAt
    <2> QED
      BY <1>10, <2>1, <2>2, FaresThrow
  <1>11. Fares(i, e, 2, Timestamp(e, from))
    BY <1>8, <1>9, <1>10
  <1> QED
    BY <1>11 DEF from

(* saveOriginalMessage *)
LEMMA FaresSave ==
    ASSUME NEW i, NEW e, Beforehand(i, e, 3), i.keep
    PROVE  Fares(i, e, 3, Convert(e, Original, "rename", FALSE, TRUE))
  <1>1. CloudInput(i) /\ CloudAt(i, e, 3)
    BY DEF Beforehand
  <1>2. Has(e, <<"message">>)
    BY <1>1 DEF CloudAt
  <1>3. Convert(e, Original, "rename", FALSE,
                TRUE) = Ok(Move(e, <<"message">>, <<"event", "original">>))
    BY <1>2, OneMoved, Zenon DEF Original
  <1>4. CloudAt(i, Move(e, <<"message">>, <<"event", "original">>), 3 + 1)
    BY <1>1, CloudSave
  <1> QED
    BY <1>3, <1>4, FaresOk

LEMMA FaresSaveOrNot ==
    ASSUME NEW i, NEW e, Beforehand(i, e, 3), Offset(i) = 1
    PROVE  Fares(i, e, 3, IF i.keep THEN Convert(e, Original, "rename", FALSE, TRUE) ELSE Ok(e))
  <1>1. CASE i.keep
    BY <1>1, FaresSave
  <1>2. CASE ~i.keep
    BY QuietSame, <1>2, Thresholds, FaresQuiet DEF Beforehand, Idle, DropAt
  <1> QED
    BY <1>1, <1>2

(* dropPubSubFields *)
LEMMA FaresDrop ==
    ASSUME NEW i, NEW e, NEW n, Beforehand(i, e, n), n = DropAt(i)
    PROVE  /\ Fares(i, e, n, Ok(Delete(e, <<"message">>)))
           /\ Fares(i, e, n, Ok(Delete(Delete(e, <<"message">>), <<"labels">>)))
  BY CloudDrop, FaresOk DEF Beforehand

(* categorizeEvent *)
LEMMA FaresCategories ==
    ASSUME NEW i, NEW e, NEW n, Beforehand(i, e, n), Idle(i, n), NEW category, NEW type
    PROVE  Fares(i, e, n, Ok(PutAll(e, Categories(category, type))))
  BY CategoriesQuiet, FaresQuiet DEF Beforehand

(* convertLogEntry *)
LEMMA FaresEntry ==
    ASSUME NEW i, NEW e, NEW n, Beforehand(i, e, n), n = EntryAt(i)
    PROVE  Fares(i, e, n, Convert(e, Entry(PayloadName(i)), "rename", FALSE, TRUE))
  <1> DEFINE name == PayloadName(i)
  <1> SUFFICES Fares(i, e, n, Convert(e, Entry(name), "rename", FALSE, TRUE))
    OBVIOUS
  <1>1. CloudInput(i) /\ CloudAt(i, e, n) /\ IsInput(i) /\ i.dataset \in Googlecloud
    BY DEF Beforehand, CloudInput
  <1>2. EntryAt(i) \in 6..7
    BY <1>1, Thresholds
  <1>3. name \in STRING
    BY StringsAssumption DEF PayloadName
  <1> HIDE DEF name
  <1>4. Has(e, <<"json", name>>) <=> Has(DocumentOf(i), <<name>>)
    BY <1>1, <1>2, <1>3, ShownJson
  <1>5. CASE Has(e, <<"json", name>>)
    BY <1>5, OneMoved, Zenon, <1>1, CloudEntry, FaresOk DEF Entry, name
  <1>6. CASE ~Has(e, <<"json", name>>)
    <2>1. Convert(e, Entry(name), "rename", FALSE, TRUE) = Throw(e)
      BY <1>6, OneMoved, Zenon DEF Entry
    <2>2. ~Has(DocumentOf(i), <<name>>)
      BY <1>4, <1>6
    <2>3. CauseOf(i)
      <3>1. CASE i.dataset = "audit"
        <4>1. name = "protoPayload"
          BY <3>1 DEF name, PayloadName
        <4> DEFINE list == <<"protoPayload", "authorizationInfo">>
        <4>2. ~Has(DocumentOf(i), list)
          <5>1. SUFFICES ASSUME Has(DocumentOf(i), list) PROVE FALSE
            OBVIOUS
          <5>2. IsTree(DocumentOf(i))
            <6>1. CASE MessageOf(i)[1] = "json"
              BY <1>1, <6>1, InputFacts
            <6>2. CASE MessageOf(i)[1] # "json"
              BY <6>2 DEF DocumentOf, IsTree
            <6> QED
              BY <6>1, <6>2
          <5>3. list \in Names /\ Len(list) = 2
            BY StringsAssumption DEF Names
          <5>4. <<"protoPayload">> \in Names /\ Len(<<"protoPayload">>) = 1
            BY StringsAssumption DEF Names
          <5>5. <<"protoPayload">> \in Above(list)
            <6>1. list[1] = "protoPayload" /\ <<"protoPayload">>[1] = "protoPayload"
              OBVIOUS
            <6>2. IsPrefix(<<"protoPayload">>, list)
              BY <5>3, <5>4, <6>1, PrefixAt
            <6> QED
              BY <5>3, <5>4, <6>2, AboveAt
          <5>6. Has(DocumentOf(i), <<"protoPayload">>)
            BY <5>1, <5>2, <5>5 DEF IsTree, Has
          <5> QED
            BY <2>2, <4>1, <5>6
        <4>3. Get(DocumentOf(i), list) = Null
          BY <4>2 DEF Get
        <4> QED
          BY <3>1, <4>3 DEF CauseOf
      <3>2. CASE i.dataset # "audit"
        BY <3>2, <2>2, <1>1 DEF name, PayloadName, Get, Googlecloud, CauseOf
      <3> QED
        BY <3>1, <3>2
    <2>4. ThrownAt(i, n)
      BY <1>2 DEF ThrownAt
    <2> QED
      BY <2>1, <2>3, <2>4, FaresThrow
  <1> QED
    BY <1>5, <1>6

(* Deletes below the names of the dataset.                                   *)
LEMMA FaresDropBelow ==
    ASSUME NEW i, NEW e, NEW n, Beforehand(i, e, n), n > PayloadAt(i),
           NEW D, \A p \in D : p \in Names /\ ((p[1] = "googlecloud" /\ Len(p) > 2) \/ p = <<"json">>)
    PROVE  Fares(i, e, n, Ok(DeleteAll(e, D)))
  <1> DEFINE f == DeleteAll(e, D)
             ds == <<"googlecloud", i.dataset>>
  <1>1. CloudInput(i) /\ CloudAt(i, e, n) /\ IsEvent(e) /\ n \in Nat
    BY DEF Beforehand
  <1>2. ~Has(e, <<"json">>) /\ Has(e, ds)
    BY <1>1 DEF CloudAt
  <1>3. IsEvent(f)
    <2>1. D \subseteq Names
      OBVIOUS
    <2> QED
      BY <1>1, <2>1, DeleteAllIsEvent
  <1>4. ~Has(f, <<"json">>)
    BY <1>2 DEF DeleteAll, Has
  <1>5. ASSUME NEW q \in Paths, q[1] \notin {"json", "googlecloud"} \/ q = ds
        PROVE  Same(e, f, q)
    <2>1. ASSUME NEW p \in D
          PROVE  ~IsPrefix(p, q)
      <3>0. p \in Names /\ q \in Names
        BY DEF Paths
      <3>1. CASE q[1] \notin {"json", "googlecloud"}
        <4>1. 1 \in 1..Len(p) /\ p[1] # q[1]
          BY <3>1, <3>0 DEF Names
        <4> QED
          BY <3>0, <4>1, DifferNotPrefix
      <3>2. CASE q = ds
        <4>1. Len(q) = 2 /\ q[1] = "googlecloud"
          BY <3>2
        <4>2. CASE Len(p) > 2
          BY <3>0, <4>1, <4>2, LongerNotPrefix
        <4>3. CASE p = <<"json">>
          BY <4>1, <4>3, <3>0, DifferNotPrefix
        <4> QED
          BY <4>2, <4>3
      <3> QED
        BY <1>5, <3>1, <3>2
    <2> QED
      BY <2>1, DeleteAllAt DEF Same
  <1>6. Same(e, f, <<"message">>) /\ Same(e, f, <<"event", "original">>)
    BY <1>5, EntryPaths
  <1>7. Has(f, ds)
    BY <1>1, <1>5, DatasetPath, <1>2 DEF Same
  <1> HIDE DEF f
  <1>8. CloudAt(i, f, n + 1)
    BY <1>1, <1>3, <1>4, <1>6, <1>7, CloudBelow
  <1>9. Fares(i, e, n, Ok(f))
    BY <1>8, FaresOk
  <1> QED
    BY <1>9 DEF f

LEMMA Twosome ==
    ASSUME NEW S, NEW a \in S, NEW b \in S
    PROVE  <<a, b>> \in Seq(S)
  OBVIOUS

LEMMA ThreeConcat ==
    ASSUME NEW S, NEW a \in S, NEW b \in S, NEW c \in S
    PROVE  <<a>> \o <<b, c>> = <<a, b, c>>
  <1>1. <<a>> \in Seq(S) /\ <<b, c>> \in Seq(S) /\ <<a, b, c>> \in Seq(S)
    OBVIOUS
  <1> DEFINE s == <<a>> \o <<b, c>>
             t == <<a, b, c>>
  <1>2. s \in Seq(S) /\ t \in Seq(S)
    BY <1>1
  <1>3. Len(s) = 3 /\ Len(t) = 3
    OBVIOUS
  <1>4. s[1] = t[1] /\ s[2] = t[2] /\ s[3] = t[3]
    OBVIOUS
  <1> HIDE DEF s, t
  <1>5. \A n \in 1..Len(s) : s[n] = t[n]
    BY <1>3, <1>4
  <1>6. s = t
    BY <1>2, <1>3, <1>5, SeqEqual
  <1> QED
    BY <1>6 DEF s, t

(* What is renamed to a number by convertJsonPayload of vpcflow.             *)
Numbered ==
    {<<"connection", "src_port">>, <<"connection", "dest_port">>,
     <<"src_location", "asn">>, <<"dest_location", "asn">>,
     <<"bytes_sent">>, <<"packets_sent">>, <<"rtt_msec">>}
NumberPaths == {<<"json">> \o p : p \in Numbered}
NumberFields ==
    {f \in AllFields : f[3] \in {"", "string"} \/ (f[3] = "long" /\ f[1] \in NumberPaths)}

LEMMA NumberedNames ==
    ASSUME NEW p \in Numbered
    PROVE  /\ p \in Names /\ p # << >> /\ p[1] # "jsonPayload"
           /\ <<"jsonPayload">> \o p \in VpcflowNumbers
  <1>1. p \in Names
    <2>1. \A a \in STRING : <<a>> \in Names
      BY Singleton DEF Names
    <2>2. \A a \in STRING, b \in STRING : <<a, b>> \in Names
      BY Twosome DEF Names
    <2>3. {"connection", "src_port", "dest_port", "src_location", "dest_location", "asn",
           "bytes_sent", "packets_sent", "rtt_msec"} \subseteq STRING
      BY StringsAssumption
    <2>4. <<"connection", "src_port">> \in Names /\ <<"connection", "dest_port">> \in Names
      BY <2>2, <2>3
    <2>5. <<"src_location", "asn">> \in Names /\ <<"dest_location", "asn">> \in Names
      BY <2>2, <2>3
    <2>6. <<"bytes_sent">> \in Names /\ <<"packets_sent">> \in Names /\ <<"rtt_msec">> \in Names
      BY <2>1, <2>3
    <2> QED
      BY <2>4, <2>5, <2>6, Zenon DEF Numbered
  <1>2. p # << >> /\ p[1] # "jsonPayload"
    BY DEF Numbered
  <1>3. <<"jsonPayload">> \o p \in VpcflowNumbers
    BY DEF Numbered, VpcflowNumbers
  <1> QED
    BY <1>1, <1>2, <1>3

LEMMA InNumberPaths ==
    /\ \A x \in {Src, Dest} : /\ <<"json", "connection", x.port>> \in NumberPaths
                              /\ <<"json", x.location, "asn">> \in NumberPaths
    /\ <<"json", "bytes_sent">> \in NumberPaths
    /\ <<"json", "packets_sent">> \in NumberPaths
    /\ <<"json", "rtt_msec">> \in NumberPaths
  <1>1. \A a \in STRING : <<"json">> \o <<a>> = <<"json", a>>
    BY JsonNames
  <1>2. \A a \in STRING, b \in STRING : <<"json">> \o <<a, b>> = <<"json", a, b>>
    <2>1. "json" \in STRING
      BY StringsAssumption
    <2>2. ASSUME NEW a \in STRING, NEW b \in STRING
          PROVE  <<"json">> \o <<a, b>> = <<"json", a, b>>
      BY <2>1, ThreeConcat
    <2> QED
      BY <2>2
  <1>3. \A p \in Numbered : <<"json">> \o p \in NumberPaths
    BY DEF NumberPaths
  <1>4. ASSUME NEW x \in {Src, Dest}
        PROVE  /\ <<"json", "connection", x.port>> \in NumberPaths
               /\ <<"json", x.location, "asn">> \in NumberPaths
    <2>1. x.port \in STRING /\ x.location \in STRING /\ "connection" \in STRING /\ "asn" \in STRING
      BY EndNames, StringsAssumption
    <2>2. <<"connection", x.port>> \in Numbered
      BY DEF Src, Dest, Numbered
    <2>3. <<x.location, "asn">> \in Numbered
      BY DEF Src, Dest, Numbered
    <2>4. <<"json">> \o <<"connection", x.port>> = <<"json", "connection", x.port>>
      BY <1>2, <2>1
    <2>5. <<"json">> \o <<x.location, "asn">> = <<"json", x.location, "asn">>
      BY <1>2, <2>1
    <2>6. <<"json", "connection", x.port>> \in NumberPaths
      BY <1>3, <2>2, <2>4
    <2>7. <<"json", x.location, "asn">> \in NumberPaths
      BY <1>3, <2>3, <2>5
    <2> QED
      BY <2>6, <2>7
  <1>5. ASSUME NEW a \in STRING, <<a>> \in Numbered
        PROVE  <<"json", a>> \in NumberPaths
    BY <1>1, <1>3, <1>5
  <1>6. "bytes_sent" \in STRING /\ "packets_sent" \in STRING /\ "rtt_msec" \in STRING
    BY StringsAssumption
  <1>7. <<"bytes_sent">> \in Numbered /\ <<"packets_sent">> \in Numbered /\ <<"rtt_msec">> \in Numbered
    BY DEF Numbered
  <1> QED
    BY <1>4, <1>5, <1>6, <1>7

(* A number that cannot be converted is a cause to throw.                    *)
LEMMA NumberCause ==
    ASSUME NEW i, CloudInput(i), i.dataset = "vpcflow", NEW e, CloudAt(i, e, 8),
           NEW f \in NumberFields, Bad(e, f)
    PROVE  CauseOf(i)
  <1>1. ~Missing(e, f) /\ ~Convertible(e[f[1]], f[3])
    BY DEF Bad
  <1>2. f[3] = "long" /\ f[1] \in NumberPaths
    BY UntypedGood DEF NumberFields
  <1>3. PICK p \in Numbered : f[1] = <<"json">> \o p
    BY <1>2 DEF NumberPaths
  <1>4. Has(e, <<"json">> \o p) /\ ~Convertible(e[<<"json">> \o p], "long")
    BY <1>1, <1>2, <1>3 DEF Missing
  <1>5. ShowsBut(e, <<"json">>, DocumentOf(i), <<"jsonPayload">>, "jsonPayload")
    BY Thresholds DEF CloudAt, TouchedAt, EntryAt, PayloadName, Offset
  <1>6. /\ Has(e, <<"json">> \o p) <=> Has(DocumentOf(i), <<"jsonPayload">> \o p)
        /\ Get(e, <<"json">> \o p) = Get(DocumentOf(i), <<"jsonPayload">> \o p)
    BY <1>5, NumberedNames DEF ShowsBut
  <1> DEFINE q == <<"jsonPayload">> \o p
  <1>7. Has(DocumentOf(i), q) /\ e[<<"json">> \o p] = DocumentOf(i)[q]
    BY <1>4, <1>6 DEF Get
  <1>8. ~Number(DocumentOf(i)[q])
    BY <1>4, <1>7, LongConvertible DEF Number
  <1>9. q \in VpcflowNumbers
    BY NumberedNames
  <1> HIDE DEF q
  <1>10. NoNumberOf(i, q)
    BY <1>7, <1>8 DEF NoNumberOf
  <1> QED
    BY <1>9, <1>10 DEF CauseOf

LEMMA AnyNumber ==
    ASSUME NEW f \in AllFields, f[3] = ""
    PROVE  f \in NumberFields
  BY DEF NumberFields

LEMMA TextNumber ==
    ASSUME NEW f \in AllFields, f[3] = "string"
    PROVE  f \in NumberFields
  BY DEF NumberFields

LEMMA LongNumber ==
    ASSUME NEW f \in AllFields, f[3] = "long", f[1] \in NumberPaths
    PROVE  f \in NumberFields
  BY DEF NumberFields

LEMMA BodyIsAll == BodyFields \subseteq AllFields
  BY DEF BodyFields

LEMMA RenamesNumber ==
    ASSUME NEW x \in {Src, Dest}
    PROVE  Renames(x) \in Seq(NumberFields)
  <1> DEFINE s == Renames(x)
  <1>1. s \in Seq(AllFields)
    BY RenamesBody, BodyIsAll, SeqMore
  <1>2. Len(s) = 5
    BY DEF Renames
  <1>3. s[1][3] = ""
    BY DEF Renames, Field, Typed
  <1>4. s[2][3] = "long"
    BY DEF Renames, Field, Typed
  <1>5. s[2][1] = <<"json", "connection", x.port>>
    BY DEF Renames, Field, Typed
  <1>6. s[3][3] = ""
    BY DEF Renames, Field, Typed
  <1>7. s[4][3] = "long"
    BY DEF Renames, Field, Typed
  <1>8. s[4][1] = <<"json", x.location, "asn">>
    BY DEF Renames, Field, Typed
  <1>9. s[5][3] = ""
    BY DEF Renames, Field, Typed
  <1> HIDE DEF s
  <1>f. s \in [1..5 -> AllFields]
    BY <1>1, <1>2, SeqFunction
  <1>10. s[1] \in AllFields
    BY <1>f
  <1>11. s[1] \in NumberFields
    BY <1>3, <1>10, AnyNumber
  <1>12. s[2] \in AllFields
    BY <1>f
  <1>13. s[2][1] \in NumberPaths
    BY <1>5, InNumberPaths
  <1>14. s[2] \in NumberFields
    BY <1>4, <1>12, <1>13, LongNumber
  <1>15. s[3] \in AllFields
    BY <1>f
  <1>16. s[3] \in NumberFields
    BY <1>6, <1>15, AnyNumber
  <1>17. s[4] \in AllFields
    BY <1>f
  <1>18. s[4][1] \in NumberPaths
    BY <1>8, InNumberPaths
  <1>19. s[4] \in NumberFields
    BY <1>7, <1>17, <1>18, LongNumber
  <1>20. s[5] \in AllFields
    BY <1>f
  <1>21. s[5] \in NumberFields
    BY <1>9, <1>20, AnyNumber
  <1>22. s \in Seq(NumberFields)
    BY <1>1, <1>2, <1>11, <1>14, <1>16, <1>19, <1>21, SeqInto
  <1> QED
    BY <1>22 DEF s

LEMMA RemaindersNumber ==
    ASSUME NEW x \in {Src, Dest}
    PROVE  Remainders(x) \in Seq(NumberFields)
  <1> DEFINE s == Remainders(x)
  <1>1. s \in Seq(AllFields)
    BY RemaindersBody, BodyIsAll, SeqMore
  <1>2. Len(s) = 2
    BY DEF Remainders
  <1>3. s[1][3] = ""
    BY DEF Remainders, Field
  <1>4. s[2][3] = ""
    BY DEF Remainders, Field
  <1> HIDE DEF s
  <1>f. s \in [1..2 -> AllFields]
    BY <1>1, <1>2, SeqFunction
  <1>5. s[1] \in AllFields
    BY <1>f
  <1>6. s[1] \in NumberFields
    BY <1>3, <1>5, AnyNumber
  <1>7. s[2] \in AllFields
    BY <1>f
  <1>8. s[2] \in NumberFields
    BY <1>4, <1>7, AnyNumber
  <1>9. s \in Seq(NumberFields)
    BY <1>1, <1>2, <1>6, <1>8, SeqInto
  <1> QED
    BY <1>9 DEF s

LEMMA ProtocolNumber ==
    Vpcflow!Protocol("string") \in Seq(NumberFields)
  <1> DEFINE s == Vpcflow!Protocol("string")
  <1>1. s \in Seq(AllFields)
    BY ProtocolBody, BodyIsAll, SeqMore
  <1>2. Len(s) = 1
    BY DEF Vpcflow!Protocol
  <1>3. s[1][3] = "string"
    BY VpcflowSame DEF Vpcflow!Protocol, Typed
  <1> HIDE DEF s
  <1>f. s \in [1..1 -> AllFields]
    BY <1>1, <1>2, SeqFunction
  <1>6. \A n \in 1..1 : s[n] \in AllFields
    BY <1>f
  <1>7. s[1] \in NumberFields
    BY <1>3, <1>6, TextNumber
  <1>4. \A n \in 1..1 : s[n] \in NumberFields
    BY <1>7
  <1>5. s \in Seq(NumberFields)
    BY <1>1, <1>2, <1>4, SeqInto
  <1> QED
    BY <1>5 DEF s

LEMMA CountersNumber ==
    Vpcflow!Counters \in Seq(NumberFields)
  <1> DEFINE s == Vpcflow!Counters
  <1>1. s \in Seq(AllFields)
    BY CountersBody, BodyIsAll, SeqMore
  <1>2. Len(s) = 4
    BY DEF Vpcflow!Counters
  <1>3. s[1][3] = "long"
    BY VpcflowSame DEF Vpcflow!Counters, Field, Typed
  <1>4. s[1][1] = <<"json", "bytes_sent">>
    BY VpcflowSame DEF Vpcflow!Counters, Field, Typed
  <1>5. s[2][3] = "long"
    BY VpcflowSame DEF Vpcflow!Counters, Field, Typed
  <1>6. s[2][1] = <<"json", "packets_sent">>
    BY VpcflowSame DEF Vpcflow!Counters, Field, Typed
  <1>7. s[3][3] = ""
    BY VpcflowSame DEF Vpcflow!Counters, Field, Typed
  <1>8. s[4][3] = ""
    BY VpcflowSame DEF Vpcflow!Counters, Field, Typed
  <1> HIDE DEF s
  <1>f. s \in [1..4 -> AllFields]
    BY <1>1, <1>2, SeqFunction
  <1>9. s[1] \in AllFields
    BY <1>f
  <1>10. s[1][1] \in NumberPaths
    BY <1>4, InNumberPaths
  <1>11. s[1] \in NumberFields
    BY <1>3, <1>9, <1>10, LongNumber
  <1>12. s[2] \in AllFields
    BY <1>f
  <1>13. s[2][1] \in NumberPaths
    BY <1>6, InNumberPaths
  <1>14. s[2] \in NumberFields
    BY <1>5, <1>12, <1>13, LongNumber
  <1>15. s[3] \in AllFields
    BY <1>f
  <1>16. s[3] \in NumberFields
    BY <1>7, <1>15, AnyNumber
  <1>17. s[4] \in AllFields
    BY <1>f
  <1>18. s[4] \in NumberFields
    BY <1>8, <1>17, AnyNumber
  <1>19. s \in Seq(NumberFields)
    BY <1>1, <1>2, <1>11, <1>14, <1>16, <1>18, SeqInto
  <1> QED
    BY <1>19 DEF s

LEMMA LastInAll ==
    ASSUME NEW dataset \in Googlecloud
    PROVE  /\ Moved(dataset) \in AllFields /\ Moved(dataset)[3] = ""
           /\ Moved(dataset) \in NumberFields
  <1>1. dataset \in STRING /\ "googlecloud" \in STRING
    BY StringsAssumption DEF Googlecloud
  <1>2. <<"googlecloud", dataset>> \in Paths
    BY <1>1 DEF Paths, Names
  <1>3. Moved(dataset) \in AllFields
    BY <1>2, EntryPaths DEF Moved, Field, AllFields
  <1>4. Moved(dataset)[3] = ""
    BY DEF Moved, Field
  <1> QED
    BY <1>3, <1>4, AnyNumber

LEMMA RttNumber == Rtt \in NumberFields
  BY RttBody, BodyIsAll, InNumberPaths, LongNumber DEF Rtt, Typed

LEMMA FieldsInto ==
    ASSUME NEW S, NEW a \in Seq(S), NEW b \in Seq(S)
    PROVE  a \o b \in Seq(S)
  OBVIOUS

(* All of vpcflow's fields are of these.                                     *)
LEMMA VpcflowNumber == VpcflowFields \in Seq(NumberFields)
  <1>1. Src \in {Src, Dest} /\ Dest \in {Src, Dest}
    OBVIOUS
  <1>2. Vpcflow!Rest \in Seq(NumberFields)
    BY LastInAll, RttNumber, Singleton, RestParts, FieldsInto DEF Googlecloud
  <1>3. Renames(Dest) \in Seq(NumberFields) /\ Renames(Src) \in Seq(NumberFields)
    BY <1>1, RenamesNumber
  <1>4. Remainders(Dest) \in Seq(NumberFields) /\ Remainders(Src) \in Seq(NumberFields)
    BY <1>1, RemaindersNumber
  <1> QED
    BY <1>2, <1>3, <1>4, ProtocolNumber, CountersNumber, FieldsInto DEF VpcflowFields

(* The fields before the last one.                                           *)
VpcflowBody ==
    Renames(Dest) \o Vpcflow!Protocol("string") \o Renames(Src) \o Vpcflow!Counters
        \o Remainders(Dest) \o Remainders(Src) \o <<Rtt>>
FirewallBody == Renames(Dest) \o Renames(Src) \o Remainders(Dest) \o Remainders(Src)

LEMMA BodiesAreBody ==
    VpcflowBody \in Seq(BodyFields) /\ FirewallBody \in Seq(BodyFields)
  <1>1. Src \in {Src, Dest} /\ Dest \in {Src, Dest}
    OBVIOUS
  <1>2. Renames(Dest) \in Seq(BodyFields) /\ Renames(Src) \in Seq(BodyFields)
    BY <1>1, RenamesBody
  <1>3. Remainders(Dest) \in Seq(BodyFields) /\ Remainders(Src) \in Seq(BodyFields)
    BY <1>1, RemaindersBody
  <1>4. <<Rtt>> \in Seq(BodyFields)
    BY RttBody, Singleton
  <1>5. VpcflowBody \in Seq(BodyFields)
    BY <1>2, <1>3, <1>4, ProtocolBody, CountersBody, FieldsInto DEF VpcflowBody
  <1>6. FirewallBody \in Seq(BodyFields)
    BY <1>2, <1>3, FieldsInto DEF FirewallBody
  <1> QED
    BY <1>5, <1>6

LEMMA ConcatAssociates ==
    ASSUME NEW S, NEW a \in Seq(S), NEW b \in Seq(S), NEW c \in Seq(S)
    PROVE  a \o (b \o c) = (a \o b) \o c
  <1> DEFINE s == a \o (b \o c)
             t == (a \o b) \o c
  <1>1. s \in Seq(S) /\ t \in Seq(S) /\ Len(s) = Len(t)
    OBVIOUS
  <1>2. \A n \in 1..Len(s) : s[n] = t[n]
    OBVIOUS
  <1> HIDE DEF s, t
  <1>3. s = t
    BY <1>1, <1>2, SeqEqual
  <1> QED
    BY <1>3 DEF s, t

LEMMA PayloadParts ==
    ASSUME NEW e, NEW body \in Seq(BodyFields), NEW dataset \in Googlecloud
    PROVE  From(e, e, body \o <<Moved(dataset)>>, "rename")
               = From(e, From(e, e, body, "rename"), <<Moved(dataset)>>, "rename")
  <1>1. body \in Seq(AllFields)
    BY BodyIsAll, SeqMore
  <1>2. <<Moved(dataset)>> \in Seq(AllFields)
    BY LastInAll, Singleton
  <1> DEFINE a == <<Moved(dataset)>>
  <1> HIDE DEF a
  <1>3. a \in Seq(AllFields)
    BY <1>2 DEF a
  <1>4. From(e, e, body \o a, "rename") = From(e, From(e, e, body, "rename"), a, "rename")
    BY <1>1, <1>3, FromConcat
  <1> QED
    BY <1>4 DEF a

LEMMA FieldsParts ==
    /\ VpcflowFields = VpcflowBody \o <<Moved("vpcflow")>>
    /\ FirewallFields = FirewallBody \o <<Moved("firewall")>>
  <1> DEFINE a == Renames(Dest) \o Vpcflow!Protocol("string") \o Renames(Src) \o Vpcflow!Counters
                      \o Remainders(Dest) \o Remainders(Src)
             b == <<Rtt>>
             c == <<Moved("vpcflow")>>
  <1>1. Src \in {Src, Dest} /\ Dest \in {Src, Dest}
    OBVIOUS
  <1>2. Renames(Dest) \in Seq(NumberFields) /\ Renames(Src) \in Seq(NumberFields)
    BY <1>1, RenamesNumber
  <1>3. Remainders(Dest) \in Seq(NumberFields) /\ Remainders(Src) \in Seq(NumberFields)
    BY <1>1, RemaindersNumber
  <1>4. a \in Seq(NumberFields)
    BY <1>2, <1>3, ProtocolNumber, CountersNumber, FieldsInto
  <1>5. b \in Seq(NumberFields)
    BY RttNumber, Singleton
  <1>6. c \in Seq(NumberFields)
    BY LastInAll, Singleton DEF Googlecloud
  <1>7. VpcflowFields = a \o (b \o c)
    BY RestParts DEF VpcflowFields
  <1>8. VpcflowBody \o c = (a \o b) \o c
    BY DEF VpcflowBody
  <1>9. FirewallFields = FirewallBody \o <<Moved("firewall")>>
    BY DEF FirewallFields, FirewallBody, Moved
  <1> HIDE DEF a, b, c
  <1>10. a \o (b \o c) = (a \o b) \o c
    BY <1>4, <1>5, <1>6, ConcatAssociates
  <1>11. VpcflowFields = VpcflowBody \o c
    BY <1>7, <1>8, <1>10
  <1> QED
    BY <1>9, <1>11 DEF c

(* convertJsonPayload and convertProtoPayload                                *)
LEMMA FaresPayload ==
    ASSUME NEW i, NEW e, NEW n, Beforehand(i, e, n), n = PayloadAt(i),
           NEW body \in Seq(BodyFields), NEW fail_on_error,
           LET fields == body \o <<Moved(i.dataset)>>
           IN  fail_on_error /\ (\E x \in DOMAIN fields : Bad(e, fields[x]))
                   => CauseOf(i) /\ ThrownAt(i, n)
    PROVE  Fares(i, e, n, Convert(e, body \o <<Moved(i.dataset)>>, "rename", TRUE, fail_on_error))
  <1> DEFINE fields == body \o <<Moved(i.dataset)>>
  <1> SUFFICES Fares(i, e, n, Convert(e, fields, "rename", TRUE, fail_on_error))
    OBVIOUS
  <1>1. CloudInput(i) /\ CloudAt(i, e, n) /\ i.dataset \in Googlecloud
    BY DEF Beforehand, CloudInput
  <1>2. From(e, e, fields, "rename") = From(e, From(e, e, body, "rename"), <<Moved(i.dataset)>>,
                                            "rename")
    BY <1>1, PayloadParts
  <1>3. CloudAt(i, From(e, From(e, e, body, "rename"), <<Moved(i.dataset)>>, "rename"), n + 1)
    BY <1>1, CloudPayload
  <1>4. CloudAt(i, From(e, e, fields, "rename"), n + 1)
    BY <1>2, <1>3
  <1>5. fail_on_error /\ (\E x \in DOMAIN fields : Bad(e, fields[x]))
          => CauseOf(i) /\ ThrownAt(i, n)
    OBVIOUS
  <1> HIDE DEF fields
  <1>6. CASE Convert(e, fields, "rename", TRUE, fail_on_error) = Ok(From(e, e, fields, "rename"))
    BY <1>4, <1>6, FaresOk
  <1>7. CASE /\ Convert(e, fields, "rename", TRUE, fail_on_error) = Throw(e)
             /\ fail_on_error
             /\ \E x \in DOMAIN fields : Bad(e, fields[x]) \/ (Missing(e, fields[x]) /\ ~TRUE)
    BY <1>5, <1>7, FaresThrow
  <1>8. \/ Convert(e, fields, "rename", TRUE, fail_on_error) = Ok(From(e, e, fields, "rename"))
        \/ /\ Convert(e, fields, "rename", TRUE, fail_on_error) = Throw(e)
           /\ fail_on_error
           /\ \E x \in DOMAIN fields : Bad(e, fields[x]) \/ (Missing(e, fields[x]) /\ ~TRUE)
    BY ConvertGoes, Zenon
  <1> QED
    BY <1>6, <1>7, <1>8

LEMMA EitherIs ==
    ASSUME NEW value, NEW out, NEW into
    PROVE  Either(value, out, into) \in {out, into, Ok(evt)}
  BY Zenon DEF Either

(* conditionalRename *)
LEMMA FaresInside ==
    ASSUME NEW i, NEW e, NEW n, Beforehand(i, e, n), i.dataset = "firewall", n = TouchedAt(i),
           NEW body \in Seq(BodyFields)
    PROVE  /\ Fares(i, e, n, Convert(e, body, "rename", TRUE, FALSE))
           /\ Fares(i, e, n, Ok(e))
  BY CloudInside, ConvertGoes, FaresOk DEF Beforehand

(* Lists without a type.                                                     *)
LEMMA UntypedList ==
    ASSUME NEW e, NEW S, NEW s \in Seq(S), \A f \in S : f[3] = ""
    PROVE  \A x \in DOMAIN s : ~Bad(e, s[x])
  <1>3. Len(s) = Len(s)
    OBVIOUS
  <1>4. s \in [1..Len(s) -> S]
    BY <1>3, SeqFunction
  <1>1. \A x \in DOMAIN s : s[x] \in S
    BY <1>4
  <1>2. \A f \in S : ~Bad(e, f)
    BY UntypedGood
  <1> QED
    BY <1>1, <1>2

LEMMA CommonUntyped ==
    ASSUME NEW e
    PROVE  /\ \A x \in DOMAIN <<Logger>> : ~Bad(e, <<Logger>>[x])
           /\ \A x \in DOMAIN <<Logger, Subnetwork>> : ~Bad(e, <<Logger, Subnetwork>>[x])
           /\ \A x \in DOMAIN <<AuditProject>> : ~Bad(e, <<AuditProject>>[x])
           /\ \A x \in DOMAIN VpcflowTotals : ~Bad(e, VpcflowTotals[x])
  <1> DEFINE a == Logger
             b == Subnetwork
             c == AuditProject
             d == Field(<<"source", "bytes">>, <<"network", "bytes">>)
             f == Field(<<"source", "packets">>, <<"network", "packets">>)
             S == {a, b, c, d, f}
  <1>1. a[3] = "" /\ b[3] = "" /\ c[3] = "" /\ d[3] = "" /\ f[3] = ""
    BY DEF Logger, Subnetwork, AuditProject, Field
  <1>2. VpcflowTotals = <<d, f>>
    BY DEF VpcflowTotals
  <1> HIDE DEF a, b, c, d, f
  <1>3. \A x \in S : x[3] = ""
    BY <1>1
  <1>4. <<a>> \in Seq(S) /\ <<a, b>> \in Seq(S) /\ <<c>> \in Seq(S) /\ <<d, f>> \in Seq(S)
    OBVIOUS
  <1> HIDE DEF S
  <1>5. \A x \in DOMAIN <<a>> : ~Bad(e, <<a>>[x])
    BY <1>3, <1>4, UntypedList
  <1>6. \A x \in DOMAIN <<a, b>> : ~Bad(e, <<a, b>>[x])
    BY <1>3, <1>4, UntypedList
  <1>7. \A x \in DOMAIN <<c>> : ~Bad(e, <<c>>[x])
    BY <1>3, <1>4, UntypedList
  <1>8. \A x \in DOMAIN <<d, f>> : ~Bad(e, <<d, f>>[x])
    BY <1>3, <1>4, UntypedList
  <1> QED
    BY <1>2, <1>5, <1>6, <1>7, <1>8 DEF a, b, c

LEMMA CloudFieldsUntyped ==
    ASSUME NEW e, NEW x \in {Src, Dest}
    PROVE  \A n \in DOMAIN CloudFields(x) : ~Bad(e, CloudFields(x)[n])
  <1> DEFINE i == <<"googlecloud", x.end, "instance">>
             a == Field(i \o <<"project_id">>, <<"cloud", "project", "id">>)
             b == Field(i \o <<"vm_name">>, <<"cloud", "instance", "name">>)
             c == Field(i \o <<"region">>, <<"cloud", "region">>)
             d == Field(i \o <<"zone">>, <<"cloud", "availability_zone">>)
             f == Field(<<"googlecloud", x.end, "vpc", "subnetwork_name">>, <<"network", "name">>)
             S == {a, b, c, d, f}
  <1>1. a[3] = "" /\ b[3] = "" /\ c[3] = "" /\ d[3] = "" /\ f[3] = ""
    BY DEF Field
  <1>2. CloudFields(x) = <<a, b, c, d, f>>
    BY DEF CloudFields
  <1> HIDE DEF a, b, c, d, f
  <1>3. \A g \in S : g[3] = ""
    BY <1>1
  <1>4. <<a, b, c, d, f>> \in Seq(S)
    OBVIOUS
  <1> HIDE DEF S
  <1>5. \A n \in DOMAIN <<a, b, c, d, f>> : ~Bad(e, <<a, b, c, d, f>>[n])
    BY <1>3, <1>4, UntypedList
  <1> QED
    BY <1>2, <1>5

(* The steps of vpcflow.                                                     *)
Ready(dataset) ==
    input.dataset = dataset /\ CloudInput(input) /\ at \in Nat /\ CloudAt(input, evt, at)

LEMMA ReadyBeforehand ==
    ASSUME NEW dataset, Ready(dataset), NEW n, at = n
    PROVE  Beforehand(input, evt, n) /\ IsEvent(evt)
  BY DEF Ready, Beforehand, CloudAt

LEMMA VpcflowPlaces ==
    ASSUME NEW i, i.dataset = "vpcflow"
    PROVE  /\ Offset(i) = 1 /\ DropAt(i) = 4 /\ EntryAt(i) = 7 /\ PayloadAt(i) = 8
           /\ PayloadName(i) = "jsonPayload"
           /\ \A n \in Nat : n \in {5, 6} \/ n > 8 => Idle(i, n)
  BY DEF Offset, DropAt, EntryAt, PayloadAt, PayloadName, Idle

LEMMA TransportQuiet ==
    ASSUME IsEvent(evt), NEW ianaNumber
    PROVE  \E f : Quiet(evt, f) /\ VpcflowTransport(ianaNumber) = Ok(f)
  <1>1. Quiet(evt, evt)
    BY QuietSame
  <1>2. \A v : Quiet(evt, Put(evt, <<"network", "transport">>, v))
    BY QuietPut, CommonAside
  <1>3. (CASE ianaNumber = Str("6") -> Put(evt, <<"network", "transport">>, Str("tcp"))
           [] ianaNumber = Str("17") -> Put(evt, <<"network", "transport">>, Str("udp"))
           [] OTHER -> evt)
        \in {Put(evt, <<"network", "transport">>, Str("tcp")),
             Put(evt, <<"network", "transport">>, Str("udp")), evt}
    <2>1. CASE ianaNumber = Str("6")
      BY <2>1, Zenon DEF Str
    <2>2. CASE ianaNumber = Str("17")
      BY <2>2, Zenon DEF Str
    <2>3. CASE ianaNumber # Str("6") /\ ianaNumber # Str("17")
      BY <2>3, Zenon
    <2> QED
      BY <2>1, <2>2, <2>3
  <1> QED
    BY <1>1, <1>2, <1>3, Zenon DEF VpcflowTransport

LEMMA DirectionQuiet ==
    ASSUME IsEvent(evt), NEW source, NEW destination
    PROVE  \E f : Quiet(evt, f) /\ VpcflowDirection(source, destination) = Ok(f)
  BY QuietPut, CommonAside, Zenon DEF VpcflowDirection

LEMMA CloudIs ==
    ASSUME NEW reporter
    PROVE  VpcflowCloud(reporter) \in {Convert(evt, CloudFields(Dest), "copy", TRUE, TRUE),
                                       Convert(evt, CloudFields(Src), "copy", TRUE, TRUE), Ok(evt)}
  <1>1. CASE reporter = Str("DEST")
    BY <1>1, Zenon DEF Str, VpcflowCloud
  <1>2. CASE reporter = Str("SRC")
    BY <1>2, Zenon DEF Str, VpcflowCloud
  <1>3. CASE reporter # Str("DEST") /\ reporter # Str("SRC")
    BY <1>3, Zenon DEF VpcflowCloud
  <1> QED
    BY <1>1, <1>2, <1>3

LEMMA FaresCloudFields ==
    ASSUME NEW i, NEW e, NEW n, Beforehand(i, e, n), Idle(i, n), NEW x \in {Src, Dest}
    PROVE  Fares(i, e, n, Convert(e, CloudFields(x), "copy", TRUE, TRUE))
  BY CloudFieldsAside, CloudFieldsUntyped, FaresAside

LEMMA FaresSame ==
    ASSUME NEW i, NEW e, NEW n, Beforehand(i, e, n), Idle(i, n)
    PROVE  Fares(i, e, n, Ok(e))
  <1>1. Quiet(e, e)
    BY QuietSame DEF Beforehand
  <1> QED
    BY <1>1, FaresQuiet

LEMMA FaresCopies ==
    ASSUME NEW i, NEW e, NEW n, Beforehand(i, e, n), Idle(i, n)
    PROVE  Fares(i, e, n, Convert(e, <<CopiesToIP(Src), CopiesToIP(Dest)>>, "copy", FALSE, FALSE))
  BY CopiesToIPAside, Twosome, FaresAside

LEMMA VpcflowEmptyNames ==
    \A p \in VpcflowEmpty : p \in Names /\ ((p[1] = "googlecloud" /\ Len(p) > 2) \/ p = <<"json">>)
  <1> SUFFICES ASSUME NEW name \in {"connection", "dest_location", "src_location"}
               PROVE  LET p == <<"googlecloud", "vpcflow", name>>
                      IN  p \in Names /\ p[1] = "googlecloud" /\ Len(p) > 2
    BY DEF VpcflowEmpty
  <1>1. name \in STRING /\ "googlecloud" \in STRING /\ "vpcflow" \in STRING
    BY StringsAssumption
  <1> QED
    BY <1>1 DEF Names

LEMMA FaresVpcflowPayload ==
    ASSUME NEW i, NEW e, Beforehand(i, e, 8), i.dataset = "vpcflow"
    PROVE  Fares(i, e, 8, Convert(e, VpcflowFields, "rename", TRUE, TRUE))
  <1>1. CloudInput(i) /\ CloudAt(i, e, 8) /\ 8 = PayloadAt(i)
    BY VpcflowPlaces DEF Beforehand
  <1>2. VpcflowBody \in Seq(BodyFields) /\ VpcflowFields = VpcflowBody \o <<Moved(i.dataset)>>
    BY BodiesAreBody, FieldsParts
  <1>3. ASSUME NEW x \in DOMAIN VpcflowFields, Bad(e, VpcflowFields[x])
        PROVE  CauseOf(i)
    BY VpcflowNumber, SeqFunction, <1>1, <1>3, NumberCause
  <1>4. (\E x \in DOMAIN VpcflowFields : Bad(e, VpcflowFields[x])) => CauseOf(i) /\ ThrownAt(i, 8)
    BY <1>3 DEF ThrownAt
  <1>5. LET fields == VpcflowBody \o <<Moved(i.dataset)>>
        IN  TRUE /\ (\E x \in DOMAIN fields : Bad(e, fields[x])) => CauseOf(i) /\ ThrownAt(i, 8)
    BY <1>2, <1>4
  <1>6. Fares(i, e, 8, Convert(e, VpcflowBody \o <<Moved(i.dataset)>>, "rename", TRUE, TRUE))
    BY <1>1, <1>2, <1>5, FaresPayload
  <1> QED
    BY <1>2, <1>6

(* Each step of vpcflow fares well.                                          *)
LEMMA VpcflowFares ==
    ASSUME Ready("vpcflow"), at \in 1..17, Vpcflow!Next
    PROVE  \E r : Goes(at, 17, r) /\ Fares(input, evt, at, r)
  <1> DEFINE F(n, r) == Goes(n, 17, r) => Goes(at, 17, r) /\ Fares(input, evt, at, r)
  <1>0. /\ input.dataset = "vpcflow" /\ IsEvent(evt) /\ CloudInput(input)
        /\ \A n : at = n => Beforehand(input, evt, n)
        /\ \A n \in Nat : n \in {5, 6} \/ n > 8 => Idle(input, n)
    BY ReadyBeforehand, VpcflowPlaces DEF Ready
  <1>a. ASSUME NEW n, NEW r, at = n => Fares(input, evt, n, r)
        PROVE  F(n, r)
    BY <1>a DEF Goes
  <1>1. F(1, DecodeJSON(evt, <<"message">>, <<"json">>))
    BY <1>0, <1>a, FaresDecode
  <1>2. F(2, Timestamp(evt, <<"json", "timestamp">>))
    BY <1>0, <1>a, FaresTimestamp
  <1>3. F(3, IF input.keep THEN Convert(evt, Original, "rename", FALSE, TRUE) ELSE Ok(evt))
    BY <1>0, FaresSaveOrNot, VpcflowPlaces, <1>a
  <1>4. F(4, Ok(Delete(Delete(evt, <<"message">>), <<"labels">>)))
    BY <1>0, FaresDrop, VpcflowPlaces, <1>a
  <1>5. F(5, Ok(PutAll(evt, Categories("network_traffic", "flow"))))
    BY <1>0, FaresCategories, <1>a
  <1>6. F(6, Convert(evt, <<Logger>>, "copy", TRUE, TRUE))
    BY <1>0, FaresAside, LoggerAside, CommonUntyped, <1>a
  <1>7. F(7, Convert(evt, Entry("jsonPayload"), "rename", FALSE, TRUE))
    BY <1>0, FaresEntry, VpcflowPlaces, <1>a
  <1>8. F(8, Convert(evt, VpcflowFields, "rename", TRUE, TRUE))
    <2>1. at = 8 => Fares(input, evt, 8, Convert(evt, VpcflowFields, "rename", TRUE, TRUE))
      BY <1>0, FaresVpcflowPayload
    <2> QED
      BY <2>1, <1>a
  <1>9. F(9, Ok(DeleteAll(evt, VpcflowEmpty)))
    BY <1>0, FaresDropBelow, VpcflowPlaces, VpcflowEmptyNames, <1>a
  <1>10. F(10, Convert(evt, <<CopiesToIP(Src), CopiesToIP(Dest)>>, "copy", FALSE, FALSE))
    <2>1. at = 10 => Fares(input, evt, 10,
                           Convert(evt, <<CopiesToIP(Src), CopiesToIP(Dest)>>, "copy", FALSE,
                                   FALSE))
      <3>1. at = 10 => Beforehand(input, evt, 10) /\ Idle(input, 10)
        BY <1>0
      <3> QED
        BY <3>1, FaresCopies
    <2> QED
      BY <2>1, <1>a
  <1>11. F(11, VpcflowCloud(Get(evt, <<"googlecloud", "vpcflow", "reporter">>)))
    <2> DEFINE r == VpcflowCloud(Get(evt, <<"googlecloud", "vpcflow", "reporter">>))
    <2>1. r \in {Convert(evt, CloudFields(Dest), "copy", TRUE, TRUE),
                 Convert(evt, CloudFields(Src), "copy", TRUE, TRUE), Ok(evt)}
      BY CloudIs
    <2>2. at = 11 => /\ Fares(input, evt, 11, Convert(evt, CloudFields(Dest), "copy", TRUE, TRUE))
                     /\ Fares(input, evt, 11, Convert(evt, CloudFields(Src), "copy", TRUE, TRUE))
                     /\ Fares(input, evt, 11, Ok(evt))
      <3> SUFFICES ASSUME at = 11
                   PROVE  /\ Fares(input, evt, 11,
                                   Convert(evt, CloudFields(Dest), "copy", TRUE, TRUE))
                          /\ Fares(input, evt, 11,
                                   Convert(evt, CloudFields(Src), "copy", TRUE, TRUE))
                          /\ Fares(input, evt, 11, Ok(evt))
        OBVIOUS
      <3>1. Beforehand(input, evt, 11) /\ Idle(input, 11)
        BY <1>0
      <3>2. Fares(input, evt, 11, Convert(evt, CloudFields(Dest), "copy", TRUE, TRUE))
        BY <3>1, FaresCloudFields
      <3>3. Fares(input, evt, 11, Convert(evt, CloudFields(Src), "copy", TRUE, TRUE))
        BY <3>1, FaresCloudFields
      <3> QED
        BY <3>1, <3>2, <3>3, FaresSame
    <2> HIDE DEF r
    <2>3. at = 11 => Fares(input, evt, 11, r)
      BY <2>1, <2>2
    <2>4. F(11, r)
      BY <2>3, <1>a
    <2> QED
      BY <2>4 DEF r
  <1>12. F(12, Ok(CommunityID(evt, Get(evt, <<"network", "iana_number">>))))
    BY <1>0, <1>a, FaresQuiet, CommunityIDQuiet
  <1>13. F(13, Convert(evt, VpcflowTotals, "copy", TRUE, TRUE))
    <2>1. at = 13 => Fares(input, evt, 13, Convert(evt, VpcflowTotals, "copy", TRUE, TRUE))
      <3>1. \A x \in DOMAIN VpcflowTotals : ~Bad(evt, VpcflowTotals[x])
        BY CommonUntyped
      <3>2. at = 13 => Beforehand(input, evt, 13) /\ Idle(input, 13)
        BY <1>0
      <3> QED
        BY <3>1, <3>2, FaresAside, TotalsAside
    <2> QED
      BY <2>1, <1>a
  <1>14. F(14, VpcflowTransport(Get(evt, <<"network", "iana_number">>)))
    <2>1. PICK f : Quiet(evt, f) /\ VpcflowTransport(Get(evt, <<"network", "iana_number">>)) = Ok(f)
      BY <1>0, TransportQuiet
    <2>2. at = 14 => Fares(input, evt, 14, Ok(f))
      BY <1>0, <2>1, FaresQuiet
    <2> QED
      BY <2>1, <2>2, <1>a
  <1>15. F(15,
           VpcflowDirection(Has(evt, <<"googlecloud", "source", "instance">>),
                            Has(evt, <<"googlecloud", "destination", "instance">>)))
    <2> DEFINE r == VpcflowDirection(Has(evt, <<"googlecloud", "source", "instance">>),
                                     Has(evt, <<"googlecloud", "destination", "instance">>))
    <2>1. PICK f : Quiet(evt, f) /\ r = Ok(f)
      BY <1>0, DirectionQuiet
    <2> HIDE DEF r
    <2>2. at = 15 => Fares(input, evt, 15, Ok(f))
      BY <1>0, <2>1, FaresQuiet
    <2>3. F(15, r)
      BY <2>1, <2>2, <1>a
    <2> QED
      BY <2>3 DEF r
  <1>16. F(16, Ok(SetNetworkType(evt)))
    BY <1>0, <1>a, FaresQuiet, SetNetworkTypeQuiet
  <1>17. F(17, Ok(SetRelatedIP(evt)))
    BY <1>0, <1>a, FaresQuiet, SetRelatedIPQuiet
  <1> HIDE DEF F
  <1> QED
    BY <1>1, <1>2, <1>3, <1>4, <1>5, <1>6, <1>7, <1>8, <1>9, <1>10, <1>11, <1>12, <1>13, <1>14,
       <1>15, <1>16, <1>17, VpcflowSteps, Zenon DEF F

(* The steps of firewall.                                                    *)
LEMMA FirewallPlaces ==
    ASSUME NEW i, i.dataset = "firewall", i.keep \in BOOLEAN, NEW o, o = IF i.keep THEN 1 ELSE 0
    PROVE  /\ Offset(i) = o /\ DropAt(i) = 3 + o /\ EntryAt(i) = 6 + o /\ TouchedAt(i) = 9 + o
           /\ PayloadAt(i) = 12 + o /\ PayloadName(i) = "jsonPayload" /\ o \in {0, 1}
           /\ \A n \in Nat : n \in {4 + o, 5 + o} \/ (n > 6 + o /\ n # 12 + o) => Idle(i, n)
  BY DEF Offset, DropAt, EntryAt, TouchedAt, PayloadAt, PayloadName, Idle

LEMMA MappedOk ==
    ASSUME NEW from, NEW to, NEW mappings, NEW default
    PROVE  Mapped(from, to, mappings, default) = Ok(Mapped(from, to, mappings, default).evt)
  BY Results, Zenon DEF Mapped

LEMMA FaresMapped ==
    ASSUME NEW i, NEW n, Beforehand(i, evt, n), Idle(i, n), NEW from, NEW to, Aside(to),
           NEW mappings, NEW default
    PROVE  Fares(i, evt, n, Mapped(from, to, mappings, default))
  BY MappedQuiet, FaresQuiet, MappedOk DEF Beforehand

LEMMA InternalQuiet ==
    ASSUME IsEvent(evt)
    PROVE  Quiet(evt, FirewallInternal)
  BY QuietPut, CommonAside, QuietSame, Zenon DEF FirewallInternal

LEMMA FirewallEmptyNames ==
    \A p \in FirewallEmpty : p \in Names /\ ((p[1] = "googlecloud" /\ Len(p) > 2) \/ p = <<"json">>)
  <1> SUFFICES ASSUME NEW name \in {"connection", "dest_location", "disposition", "src_location"}
               PROVE  LET p == <<"googlecloud", "firewall", name>>
                      IN  p \in Names /\ p[1] = "googlecloud" /\ Len(p) > 2
    BY DEF FirewallEmpty
  <1>1. name \in STRING /\ "googlecloud" \in STRING /\ "firewall" \in STRING
    BY StringsAssumption
  <1> QED
    BY <1>1 DEF Names

LEMMA FaresFirewallPayload ==
    ASSUME NEW i, NEW e, NEW n, Beforehand(i, e, n), n = PayloadAt(i), i.dataset = "firewall"
    PROVE  Fares(i, e, n, Convert(e, FirewallFields, "rename", TRUE, FALSE))
  BY BodiesAreBody, FieldsParts, FaresPayload

LEMMA FaresEither ==
    ASSUME NEW i, NEW n, NEW value, NEW out, NEW into,
           Fares(i, evt, n, out), Fares(i, evt, n, into), Fares(i, evt, n, Ok(evt))
    PROVE  Fares(i, evt, n, Either(value, out, into))
  BY EitherIs

LEMMA FaresNearAndFar ==
    ASSUME NEW i, NEW n, Beforehand(i, evt, n), i.dataset = "firewall", n = TouchedAt(i), NEW value
    PROVE  Fares(i, evt, n,
                 Either(value, Convert(evt, Firewall!NearAndFar(Src, Dest), "rename", TRUE, FALSE),
                               Convert(evt, Firewall!NearAndFar(Dest, Src), "rename", TRUE, FALSE)))
  <1>1. Firewall!NearAndFar(Src, Dest) \in Seq(BodyFields)
    BY NearAndFarBody
  <1>2. Firewall!NearAndFar(Dest, Src) \in Seq(BodyFields)
    BY NearAndFarBody
  <1>3. Fares(i, evt, n, Convert(evt, Firewall!NearAndFar(Src, Dest), "rename", TRUE, FALSE))
    BY <1>1, FaresInside
  <1>4. Fares(i, evt, n, Convert(evt, Firewall!NearAndFar(Dest, Src), "rename", TRUE, FALSE))
    BY <1>2, FaresInside
  <1>5. Fares(i, evt, n, Ok(evt))
    BY <1>1, FaresInside
  <1> QED
    BY <1>3, <1>4, <1>5, FaresEither

LEMMA FaresEitherCloud ==
    ASSUME NEW i, NEW n, Beforehand(i, evt, n), Idle(i, n), NEW value
    PROVE  Fares(i, evt, n, Either(value, Convert(evt, CloudFields(Src), "copy", TRUE, TRUE),
                                          Convert(evt, CloudFields(Dest), "copy", TRUE, TRUE)))
  BY FaresCloudFields, FaresSame, FaresEither

(* Each step of firewall fares well.                                         *)
LEMMA FirewallFares ==
    ASSUME Ready("firewall"), at \in 1..(19 + Shift), Firewall!Next
    PROVE  \E r : Goes(at, 19 + Shift, r) /\ Fares(input, evt, at, r)
  <1> DEFINE F(n, r) == Goes(n, 19 + Shift, r) => Goes(at, 19 + Shift, r) /\ Fares(input, evt, at, r)
  <1>0. /\ input.dataset = "firewall" /\ IsEvent(evt) /\ CloudInput(input) /\ input.keep \in BOOLEAN
        /\ \A n : at = n => Beforehand(input, evt, n)
    BY ReadyBeforehand DEF Ready, CloudInput, IsInput
  <1>p. /\ Offset(input) = Shift /\ DropAt(input) = 3 + Shift /\ EntryAt(input) = 6 + Shift
        /\ TouchedAt(input) = 9 + Shift /\ PayloadAt(input) = 12 + Shift
        /\ PayloadName(input) = "jsonPayload" /\ Shift \in {0, 1}
        /\ \A n \in Nat : n \in {4 + Shift, 5 + Shift} \/ (n > 6 + Shift /\ n # 12 + Shift)
                             => Idle(input, n)
    BY <1>0, FirewallPlaces DEF Shift
  <1>i. /\ Idle(input, 4 + Shift) /\ Idle(input, 5 + Shift) /\ Idle(input, 7 + Shift)
        /\ Idle(input, 8 + Shift) /\ Idle(input, 10 + Shift) /\ Idle(input, 11 + Shift)
        /\ Idle(input, 14 + Shift) /\ Idle(input, 15 + Shift) /\ Idle(input, 16 + Shift)
        /\ Idle(input, 17 + Shift) /\ Idle(input, 18 + Shift) /\ Idle(input, 19 + Shift)
    BY <1>p
  <1>a. ASSUME NEW n, NEW r, at = n => Fares(input, evt, n, r)
        PROVE  F(n, r)
    BY <1>a DEF Goes
  <1>1. F(1, DecodeJSON(evt, <<"message">>, <<"json">>))
    BY <1>0, <1>a, FaresDecode
  <1>2. F(2, Timestamp(evt, <<"json", "timestamp">>))
    BY <1>0, <1>a, FaresTimestamp
  <1>3. input.keep => F(3, Convert(evt, Original, "rename", FALSE, TRUE))
    <2>1. input.keep /\ at = 3 => Fares(input, evt, 3,
                                        Convert(evt, Original, "rename", FALSE, TRUE))
      BY <1>0, FaresSave
    <2> QED
      BY <2>1, <1>a
  <1>4. F(3 + Shift, Ok(Delete(Delete(evt, <<"message">>), <<"labels">>)))
    BY <1>0, <1>p, FaresDrop, <1>a
  <1>5. F(4 + Shift, Ok(PutAll(evt, Categories("firewall-rule", "firewall"))))
    BY <1>0, <1>i, FaresCategories, <1>a
  <1>6. F(5 + Shift, Convert(evt, <<Logger, Subnetwork>>, "copy", TRUE, TRUE))
    BY CommonUntyped, <1>0, <1>i, FaresAside, SubnetworkAside, <1>a
  <1>7. F(6 + Shift, Convert(evt, Entry("jsonPayload"), "rename", FALSE, TRUE))
    BY <1>0, <1>p, FaresEntry, <1>a
  <1>8. F(7 + Shift,
          Mapped(<<"json", "disposition">>, <<"event", "outcome">>, Outcomes, Str("unknown")))
    BY <1>0, <1>i, FaresMapped, CommonAside, <1>a
  <1>9. F(8 + Shift, Mapped(Direction, <<"network", "direction">>, Directions, Str("unknown")))
    BY <1>0, <1>i, FaresMapped, CommonAside, <1>a
  <1>10. F(9 + Shift,
           Either(Get(evt, Direction),
                  Convert(evt, Firewall!NearAndFar(Src, Dest), "rename", TRUE, FALSE),
                  Convert(evt, Firewall!NearAndFar(Dest, Src), "rename", TRUE, FALSE)))
    BY <1>0, <1>p, FaresNearAndFar, <1>a
  <1>11. F(10 + Shift, Convert(evt, FirewallProtocol, "copy", FALSE, FALSE))
    BY <1>0, <1>i, FaresAside, ProtocolAside, <1>a
  <1>12. F(11 + Shift,
           Mapped(<<"network", "iana_number">>, <<"network", "transport">>, Transports, Null))
    BY <1>0, <1>i, FaresMapped, CommonAside, <1>a
  <1>13. F(12 + Shift, Convert(evt, FirewallFields, "rename", TRUE, FALSE))
    BY <1>0, <1>p, FaresFirewallPayload, <1>a
  <1>14. F(13 + Shift, Ok(DeleteAll(evt, FirewallEmpty)))
    BY <1>p, <1>0, FaresDropBelow, FirewallEmptyNames, <1>a
  <1>15. F(14 + Shift, Convert(evt, <<CopiesToIP(Src), CopiesToIP(Dest)>>, "copy", FALSE, FALSE))
    BY <1>0, <1>i, FaresCopies, <1>a
  <1>16. F(15 + Shift,
           Either(Get(evt, Direction), Convert(evt, CloudFields(Src), "copy", TRUE, TRUE),
                  Convert(evt, CloudFields(Dest), "copy", TRUE, TRUE)))
    BY <1>0, <1>i, FaresEitherCloud, <1>a
  <1>17. F(16 + Shift, Ok(CommunityID(evt, Get(evt, <<"network", "iana_number">>))))
    BY <1>0, <1>i, <1>a, FaresQuiet, CommunityIDQuiet
  <1>18. F(17 + Shift, Ok(FirewallInternal))
    BY <1>0, <1>i, <1>a, FaresQuiet, InternalQuiet
  <1>19. F(18 + Shift, Ok(SetNetworkType(evt)))
    BY <1>0, <1>i, <1>a, FaresQuiet, SetNetworkTypeQuiet
  <1>20. F(19 + Shift, Ok(SetRelatedIP(evt)))
    BY <1>0, <1>i, <1>a, FaresQuiet, SetRelatedIPQuiet
  <1> HIDE DEF F
  <1> QED
    BY <1>0, <1>1, <1>2, <1>3, <1>4, <1>5, <1>6, <1>7, <1>8, <1>9, <1>10, <1>11, <1>12, <1>13,
       <1>14,
       <1>15, <1>16, <1>17, <1>18, <1>19, <1>20, FirewallSteps, Zenon DEF F

(* Where audit has the status and the authorizations: in the event, and in   *)
(* the document.                                                             *)
StatusCode == <<"status", "code">>
CodeOf(i) == Get(DocumentOf(i), <<"protoPayload">> \o StatusCode)
GrantsOf(i) == Get(DocumentOf(i), <<"protoPayload", "authorizationInfo">>)
RenamedGrants(list) == <<"list", [x \in DOMAIN list[2] |-> Audit!Renamed(list[2][x])]>>
AuditAt(i, e, n) ==
    n > 8 =>
      /\ n < 13 => Get(e, Audit!Audit(StatusCode)) = CodeOf(i)
      /\ n < 12 => Get(e, Audit!Authorizations) = GrantsOf(i)
      /\ n > 11 => GrantsOf(i) # Null
      /\ n = 12 => Get(e, Audit!Authorizations) = RenamedGrants(GrantsOf(i))
      /\ n = 13 => Get(e, <<"event", "outcome">>)
                       = Str(Audit!OutcomeOf(CodeOf(i), RenamedGrants(GrantsOf(i))[2]))
AuditFares(i, n, r) == r.ok => AuditAt(i, r.evt, n + 1)

LEMMA AuditSpares ==
    ASSUME NEW e, NEW g, IsEvent(g), NEW fields \in Seq(AuditFields),
           NEW q \in Paths, Len(q) > 1, q[2] \in OutcomeNames
    PROVE  IsEvent(From(e, g, fields, "rename")) /\ Same(g, From(e, g, fields, "rename"), q)
  <1>1. fields \in Seq(BodyFields)
    BY AuditIsBody, SeqMore
  <1>2. AreFields(fields)
    BY <1>1, BodyWithin
  <1>3. fields \in [1..Len(fields) -> AuditFields]
    BY SeqFunction
  <1>4. ASSUME NEW n \in 1..Len(fields)
        PROVE  Spared(fields[n], "rename", q)
    <2>1. fields[n] \in AuditFields
      BY <1>3
    <2> DEFINE f == fields[n]
    <2>2. /\ f[1] \in Paths /\ f[2] \in Paths
          /\ Len(f[1]) > 1 /\ f[1][2] # q[2] /\ Len(f[2]) > 1 /\ f[2][2] # q[2]
      BY <2>1 DEF AuditFields, AllFields
    <2> HIDE DEF f
    <2>3. 2 \in DOMAIN f[1] \cap DOMAIN q /\ 2 \in DOMAIN f[2] \cap DOMAIN q
      BY <2>2 DEF Paths, Names
    <2>4. Apart(f[1], q) /\ Apart(f[2], q)
      BY <2>2, <2>3 DEF Apart
    <2>5. Spared(f, "rename", q)
      BY <2>4 DEF Spared, Touched
    <2> QED
      BY <2>5 DEF f
  <1> QED
    BY <1>2, <1>4, FromIsEvent, FromSpares

LEMMA AuditPaths ==
    /\ <<"json">> \in Paths /\ <<"json", "authorizationInfo">> \in Paths
    /\ <<"json", "authorization_info">> \in Paths
    /\ <<"json", "status", "code">> \in Paths /\ <<"googlecloud", "audit">> \in Paths
    /\ StatusCode \in Names /\ <<"authorization_info">> \in Names /\ <<"authorizationInfo">> \in Names
  BY StringsAssumption DEF Paths, Names, StatusCode

LEMMA AuditConcats ==
    /\ <<"json">> \o StatusCode = <<"json", "status", "code">>
    /\ <<"json">> \o <<"authorizationInfo">> = <<"json", "authorizationInfo">>
    /\ <<"json">> \o <<"authorization_info">> = <<"json", "authorization_info">>
    /\ <<"protoPayload">> \o <<"authorizationInfo">> = <<"protoPayload", "authorizationInfo">>
    /\ <<"protoPayload">> \o <<"authorization_info">> = <<"protoPayload", "authorization_info">>
  <1>1. /\ "json" \in STRING /\ "status" \in STRING /\ "code" \in STRING /\ "protoPayload" \in STRING
        /\ "authorizationInfo" \in STRING /\ "authorization_info" \in STRING
    BY StringsAssumption
  <1>2. <<"json">> \o <<"status", "code">> = <<"json", "status", "code">>
    BY <1>1, ThreeConcat
  <1> QED
    BY <1>1, <1>2, TwoConcat DEF StatusCode

(* The list goes to its new name, and the status stays.                      *)
LEMMA AuditBodyAt ==
    ASSUME NEW e, IsEvent(e), ~Has(e, <<"json", "authorization_info">>)
    PROVE  LET s == From(e, e, AuditBody, "rename")
           IN  /\ Get(s, <<"json", "status", "code">>) = Get(e, <<"json", "status", "code">>)
               /\ Get(s, <<"json", "authorization_info">>) = Get(e, <<"json", "authorizationInfo">>)
  <1> DEFINE p == <<"json", "authorizationInfo">>
             q == <<"json", "authorization_info">>
             c == <<"json", "status", "code">>
             a == AuditHead
             b == AuditTail
             f == Authorizing
             h == From(e, e, a, "rename")
             m == From(e, h, <<f>>, "rename")
             s == From(e, m, b, "rename")
  <1>1. /\ p \in Paths /\ q \in Paths /\ c \in Paths
        /\ Len(p) > 1 /\ Len(q) > 1 /\ Len(c) > 1
        /\ p[2] \in OutcomeNames /\ q[2] \in OutcomeNames /\ c[2] \in OutcomeNames
    BY AuditPaths DEF OutcomeNames
  <1>2. Apart(p, q) /\ Apart(p, c) /\ Apart(q, c)
    BY DEF Apart
  <1>3. f[1] = p /\ f[2] = q /\ f[3] = ""
    BY DEF Authorizing, Field
  <1>4. a \in Seq(AuditFields) /\ b \in Seq(AuditFields)
    BY AuditHeadFields, AuditTailFields
  <1>5. From(e, e, AuditBody, "rename") = s
    <2>1. a \in Seq(BodyFields) /\ b \in Seq(BodyFields)
      BY <1>4, AuditIsBody, SeqMore
    <2>2. <<f>> \in Seq(BodyFields)
      BY AuthorizingBody, Singleton
    <2>3. AuditBody = a \o (<<f>> \o b)
      BY DEF AuditBody
    <2> DEFINE k == <<f>>
               d == k \o b
    <2> HIDE DEF a, b, f
    <2>4. d \in Seq(BodyFields)
      BY <2>1, <2>2
    <2> HIDE DEF d
    <2>5. From(e, e, a \o d, "rename") = From(e, From(e, e, a, "rename"), d, "rename")
      BY <2>1, <2>4, FromConcat
    <2>6. k \in Seq(BodyFields)
      BY <2>2
    <2> HIDE DEF h, k
    <2>7. From(e, h, k \o b, "rename") = From(e, From(e, h, k, "rename"), b, "rename")
      BY <2>1, <2>6, FromConcat
    <2>8. From(e, h, d, "rename") = s
      BY <2>7 DEF d, k
    <2>9. From(e, e, a \o d, "rename") = From(e, h, d, "rename")
      BY <2>5 DEF h
    <2>10. AuditBody = a \o d
      BY <2>3 DEF d, k
    <2> QED
      BY <2>8, <2>9, <2>10
  <1> HIDE DEF p, q, c, a, b, f
  <1>6. IsEvent(h) /\ Same(e, h, p) /\ Same(e, h, q) /\ Same(e, h, c)
    BY <1>1, <1>4, AuditSpares
  <1> HIDE DEF h
  <1>7. m = ConvertUsable(e, h, f, "rename")
    BY FromOne
  <1> HIDE DEF m
  <1>8. IsEvent(m) /\ Get(m, q) = Get(e, p) /\ Same(h, m, c)
    <2>1. Same(h, m, c)
      BY <1>2, <1>3, <1>1, <1>6, <1>7, SparedSame DEF Spared, Touched
    <2>2. CASE Has(e, p)
      <3>1. m = Move(h, p, q)
        BY <1>3, <2>2, UntypedGood, <1>7 DEF Missing, ConvertUsable, ConvertOne
      <3>2. ~IsPrefix(p, q)
        BY <1>1, <1>2, ApartNotPrefix DEF Paths
      <3>3. Get(m, q) = Get(h, p)
        BY <1>1, <1>6, <3>1, <3>2, MoveHere
      <3>4. IsEvent(m)
        BY <1>1, <1>6, <3>1, MoveAt
      <3> QED
        BY <1>6, <2>1, <3>3, <3>4 DEF Same
    <2>3. CASE ~Has(e, p)
      BY <1>3, <1>7, <2>3, <1>6, <2>1 DEF ConvertUsable, Missing, q, Get, Same
    <2> QED
      BY <2>2, <2>3
  <1>9. Same(m, s, q) /\ Same(m, s, c)
    BY <1>1, <1>4, <1>8, AuditSpares
  <1>10. Get(s, c) = Get(e, c)
    BY <1>6, <1>8, <1>9 DEF Same
  <1>11. Get(s, q) = Get(e, p)
    BY <1>8, <1>9 DEF Same
  <1> QED
    BY <1>5, <1>10, <1>11 DEF p, q, c

LEMMA AuditPlaces ==
    ASSUME NEW i, i.dataset = "audit"
    PROVE  /\ Offset(i) = 1 /\ DropAt(i) = 4 /\ EntryAt(i) = 7 /\ TouchedAt(i) = 8 /\ PayloadAt(i) = 8
           /\ PayloadName(i) = "protoPayload"
           /\ \A n \in Nat : n \in {5, 6} \/ n > 8 => Idle(i, n)
  BY DEF Offset, DropAt, EntryAt, TouchedAt, PayloadAt, PayloadName, Idle

LEMMA ShownPayload ==
    ASSUME NEW i, NEW e, i.dataset = "audit", CloudAt(i, e, 8), NEW r \in Names, r # << >>,
           r[1] # "protoPayload"
    PROVE  /\ Has(e, <<"json">> \o r) <=> Has(DocumentOf(i), <<"protoPayload">> \o r)
           /\ Get(e, <<"json">> \o r) = Get(DocumentOf(i), <<"protoPayload">> \o r)
  BY AuditPlaces DEF CloudAt, ShowsBut

LEMMA TypedConcats ==
    /\ <<"numResponseItems">> \in Names /\ <<"requestMetadata", "callerIp">> \in Names
    /\ <<"json">> \o <<"numResponseItems">> = <<"json", "numResponseItems">>
    /\ <<"protoPayload">> \o <<"numResponseItems">> = <<"protoPayload", "numResponseItems">>
    /\ <<"json">> \o <<"requestMetadata", "callerIp">> = <<"json", "requestMetadata", "callerIp">>
    /\ <<"protoPayload">> \o <<"requestMetadata", "callerIp">> = Caller
  <1>1. /\ "json" \in STRING /\ "numResponseItems" \in STRING /\ "protoPayload" \in STRING
        /\ "requestMetadata" \in STRING /\ "callerIp" \in STRING
    BY StringsAssumption
  <1>2. <<"json">> \o <<"requestMetadata", "callerIp">> = <<"json", "requestMetadata", "callerIp">>
    BY <1>1, ThreeConcat
  <1>3. <<"protoPayload">> \o <<"requestMetadata", "callerIp">> = <<"protoPayload",
                                                                    "requestMetadata", "callerIp">>
    BY <1>1, ThreeConcat
  <1>4. <<"json">> \o <<"numResponseItems">> = <<"json", "numResponseItems">>
    BY <1>1, TwoConcat
  <1>5. <<"protoPayload">> \o <<"numResponseItems">> = <<"protoPayload", "numResponseItems">>
    BY <1>1, TwoConcat
  <1>6. <<"numResponseItems">> \in Names /\ <<"requestMetadata", "callerIp">> \in Names
    BY <1>1 DEF Names
  <1> QED
    BY <1>2, <1>3, <1>4, <1>5, <1>6 DEF Caller

(* What audit throws on when it converts its fields.                         *)
AnyTyped == {f \in AllFields : f[3] = "" \/ <<f[1], f[3]>> \in AuditTyped}
LEMMA AuditCause ==
    ASSUME NEW i, CloudInput(i), i.dataset = "audit", NEW e, CloudAt(i, e, 8),
           NEW f \in AnyTyped, Bad(e, f)
    PROVE  CauseOf(i)
  <1>1. Has(e, f[1]) /\ ~Convertible(e[f[1]], f[3])
    BY DEF Bad, Missing
  <1>2. <<f[1], f[3]>> \in AuditTyped
    BY UntypedGood DEF AnyTyped
  <1>3. CASE f[1] = <<"json", "numResponseItems">> /\ f[3] = "long"
    <2> DEFINE p == <<"json", "numResponseItems">>
               q == <<"protoPayload", "numResponseItems">>
    <2>1. (Has(e, p) <=> Has(DocumentOf(i), q)) /\ Get(e, p) = Get(DocumentOf(i), q)
      <3>1. <<"numResponseItems">>[1] # "protoPayload" /\ <<"numResponseItems">> # << >>
        OBVIOUS
      <3>2. <<"numResponseItems">> \in Names
        BY TypedConcats
      <3> DEFINE r == <<"numResponseItems">>
      <3> HIDE DEF r
      <3>3. /\ Has(e, <<"json">> \o r) <=> Has(DocumentOf(i), <<"protoPayload">> \o r)
            /\ Get(e, <<"json">> \o r) = Get(DocumentOf(i), <<"protoPayload">> \o r)
        BY <3>1, <3>2, ShownPayload DEF r
      <3>4. <<"json">> \o r = p /\ <<"protoPayload">> \o r = q
        BY TypedConcats DEF r
      <3> HIDE DEF p, q
      <3> QED
        BY <3>3, <3>4
    <2>2. Has(e, p) /\ ~Convertible(e[p], "long")
      BY <1>1, <1>3
    <2> HIDE DEF p, q
    <2>3. Has(DocumentOf(i), q) /\ ~Convertible(DocumentOf(i)[q], "long")
      BY <2>1, <2>2 DEF Get
    <2>4. NoNumberOf(i, q)
      BY <2>3, LongConvertible DEF NoNumberOf, Number
    <2> QED
      BY <2>4 DEF CauseOf, q
  <1>4. CASE f[1] = <<"json", "requestMetadata", "callerIp">> /\ f[3] = "ip"
    <2> DEFINE p == <<"json", "requestMetadata", "callerIp">>
               q == Caller
    <2>1. (Has(e, p) <=> Has(DocumentOf(i), q)) /\ Get(e, p) = Get(DocumentOf(i), q)
      <3>1. <<"requestMetadata", "callerIp">>[1] # "protoPayload" /\ <<"requestMetadata", "callerIp">> # << >>
        OBVIOUS
      <3>2. <<"requestMetadata", "callerIp">> \in Names
        BY TypedConcats
      <3> DEFINE r == <<"requestMetadata", "callerIp">>
      <3> HIDE DEF r
      <3>3. /\ Has(e, <<"json">> \o r) <=> Has(DocumentOf(i), <<"protoPayload">> \o r)
            /\ Get(e, <<"json">> \o r) = Get(DocumentOf(i), <<"protoPayload">> \o r)
        BY <3>1, <3>2, ShownPayload DEF r
      <3>4. <<"json">> \o r = p /\ <<"protoPayload">> \o r = q
        BY TypedConcats DEF r
      <3> HIDE DEF p, q
      <3> QED
        BY <3>3, <3>4
    <2>2. Has(e, p) /\ ~Convertible(e[p], "ip")
      BY <1>1, <1>4
    <2> HIDE DEF p, q
    <2>3. Has(DocumentOf(i), q) /\ ~Convertible(DocumentOf(i)[q], "ip")
      BY <2>1, <2>2 DEF Get
    <2>4. ~IsIP(DocumentOf(i)[q])
      BY <2>3, IPConvertible
    <2> QED
      BY <2>3, <2>4 DEF CauseOf, q
  <1> QED
    BY <1>2, <1>3, <1>4 DEF AuditTyped

LEMMA AuditAnyTyped == Audit!PayloadFields \in Seq(AnyTyped)
  <1> DEFINE a == AuditHead
             b == <<Authorizing>>
             c == AuditTail
             d == <<Moved("audit")>>
  <1>1. AuditFields \subseteq AnyTyped
    BY DEF AuditFields, AnyTyped
  <1>2. a \in Seq(AnyTyped) /\ c \in Seq(AnyTyped)
    BY <1>1, AuditHeadFields, AuditTailFields, SeqMore
  <1>3. Authorizing \in AnyTyped
    BY AuthorizingBody DEF BodyFields, AnyTyped, Authorizing, Field
  <1>4. Moved("audit") \in AnyTyped
    BY LastInAll DEF AnyTyped, Googlecloud
  <1>5. b \in Seq(AnyTyped) /\ d \in Seq(AnyTyped)
    BY <1>3, <1>4, Singleton
  <1>6. Audit!PayloadFields = (a \o (b \o c)) \o d
    BY AuditParts DEF AuditBody
  <1> HIDE DEF a, b, c, d
  <1>7. b \o c \in Seq(AnyTyped)
    BY <1>2, <1>5, FieldsInto
  <1>8. a \o (b \o c) \in Seq(AnyTyped)
    BY <1>2, <1>7, FieldsInto
  <1> QED
    BY <1>5, <1>6, <1>8, FieldsInto

(* convertProtoPayload, when it goes through                                 *)
LEMMA AuditPayloadAt ==
    ASSUME NEW i, CloudInput(i), i.dataset = "audit", NEW e, CloudAt(i, e, 8)
    PROVE  AuditAt(i, From(e, e, Audit!PayloadFields, "rename"), 9)
  <1> DEFINE s == From(e, e, AuditBody, "rename")
             f == From(e, s, <<Moved("audit")>>, "rename")
             ds == <<"googlecloud", "audit">>
  <1>1. IsEvent(e) /\ Has(e, <<"json">>)
    BY AuditPlaces DEF CloudAt
  <1>2. From(e, e, Audit!PayloadFields, "rename") = f
    BY AuditBodyFields, AuditParts, PayloadParts DEF Googlecloud
  <1>3. IsEvent(s) /\ Has(s, <<"json">>)
    BY <1>1, AuditBodyFields, BodyFrom
  <1>4. f = Move(s, <<"json">>, ds)
    <2> HIDE DEF s
    <2> QED
      BY <1>1, <1>3, LastMoves
  <1>5. ~Has(e, <<"json", "authorization_info">>) /\ Get(e,
                                                         <<"json",
                                                           "authorizationInfo">>) = GrantsOf(i)
    <2>1. ~Has(DocumentOf(i), <<"protoPayload", "authorization_info">>)
      <3>1. CASE MessageOf(i)[1] = "json"
        BY <3>1, InputFacts DEF DocumentOf, CloudInput, IsInput
      <3>2. CASE MessageOf(i)[1] # "json"
        BY <3>2 DEF DocumentOf, Has
      <3> QED
        BY <3>1, <3>2
    <2>2. /\ <<"authorizationInfo">>[1] # "protoPayload" /\ <<"authorizationInfo">> # << >>
          /\ <<"authorization_info">>[1] # "protoPayload" /\ <<"authorization_info">> # << >>
      OBVIOUS
    <2>3. Has(e, <<"json", "authorization_info">>) <=> Has(DocumentOf(i),
                                                           <<"protoPayload", "authorization_info">>)
      <3> DEFINE r == <<"authorization_info">>
      <3>1. r \in Names /\ r # << >> /\ r[1] # "protoPayload"
        BY <2>2, AuditPaths
      <3>2. /\ <<"json">> \o r = <<"json", "authorization_info">>
            /\ <<"protoPayload">> \o r = <<"protoPayload", "authorization_info">>
        BY AuditConcats
      <3> HIDE DEF r
      <3>3. Has(e, <<"json">> \o r) <=> Has(DocumentOf(i), <<"protoPayload">> \o r)
        BY <3>1, ShownPayload
      <3> QED
        BY <3>2, <3>3
    <2>4. Get(e, <<"json", "authorizationInfo">>) = GrantsOf(i)
      BY <2>2, AuditPaths, AuditConcats, ShownPayload DEF GrantsOf
    <2> QED
      BY <2>1, <2>3, <2>4
  <1>6. Get(e, <<"json", "status", "code">>) = CodeOf(i)
    BY AuditPaths, AuditConcats, ShownPayload DEF StatusCode, CodeOf
  <1>7. /\ Get(s, <<"json", "status", "code">>) = CodeOf(i)
        /\ Get(s, <<"json", "authorization_info">>) = GrantsOf(i)
    BY <1>1, <1>5, <1>6, AuditBodyAt
  <1>8. ASSUME NEW r \in Names
        PROVE  Get(f, ds \o r) = Get(s, <<"json">> \o r)
    <2>1. ds \in Paths /\ <<"json">> \in Paths /\ Apart(<<"json">>, ds)
      BY AuditPaths, FirstApart
    <2>2. ~IsPrefix(<<"json">>, ds \o r)
      BY <2>1, ApartBelow, ApartNotPrefix, PrefixConcat DEF Paths
    <2> HIDE DEF s, ds, f
    <2> QED
      BY <1>3, <1>4, <2>1, <2>2, MoveLands
  <1> HIDE DEF s, f
  <1>9. Get(f, Audit!Audit(StatusCode)) = CodeOf(i)
    BY <1>7, <1>8, AuditPaths, AuditConcats DEF Audit!Audit
  <1>10. Get(f, Audit!Authorizations) = GrantsOf(i)
    BY <1>7, <1>8, AuditPaths, AuditConcats DEF Audit!Audit, Audit!Authorizations
  <1>11. AuditAt(i, f, 9)
    BY <1>9, <1>10 DEF AuditAt
  <1> QED
    BY <1>2, <1>11

LEMMA FaresAuditPayload ==
    ASSUME NEW i, NEW e, Beforehand(i, e, 8), i.dataset = "audit"
    PROVE  LET r == Convert(e, Audit!PayloadFields, "rename", TRUE, TRUE)
           IN  Fares(i, e, 8, r) /\ AuditFares(i, 8, r)
  <1> DEFINE fields == Audit!PayloadFields
  <1>1. CloudInput(i) /\ CloudAt(i, e, 8) /\ 8 = PayloadAt(i)
    BY AuditPlaces DEF Beforehand
  <1>2. AuditBody \in Seq(BodyFields) /\ fields = AuditBody \o <<Moved(i.dataset)>>
    BY AuditBodyFields, AuditParts
  <1>3. AuditAt(i, From(e, e, fields, "rename"), 9)
    BY <1>1, AuditPayloadAt
  <1>4. fields \in Seq(AnyTyped)
    BY AuditAnyTyped
  <1> HIDE DEF fields
  <1>5. ASSUME NEW x \in DOMAIN fields, Bad(e, fields[x])
        PROVE  CauseOf(i)
    BY <1>4, SeqFunction, <1>1, <1>5, AuditCause
  <1>6. (\E x \in DOMAIN fields : Bad(e, fields[x])) => CauseOf(i) /\ ThrownAt(i, 8)
    BY <1>5 DEF ThrownAt
  <1>7. LET fs == AuditBody \o <<Moved(i.dataset)>>
        IN  TRUE /\ (\E x \in DOMAIN fs : Bad(e, fs[x])) => CauseOf(i) /\ ThrownAt(i, 8)
    BY <1>2, <1>6
  <1>8. Fares(i, e, 8, Convert(e, AuditBody \o <<Moved(i.dataset)>>, "rename", TRUE, TRUE))
    BY <1>1, <1>2, <1>7, FaresPayload
  <1>9. \/ Convert(e, fields, "rename", TRUE, TRUE) = Ok(From(e, e, fields, "rename"))
        \/ Convert(e, fields, "rename", TRUE, TRUE) = Throw(e)
    BY ConvertGoes, Zenon
  <1>10. AuditFares(i, 8, Convert(e, fields, "rename", TRUE, TRUE))
    <2>1. AuditAt(i, From(e, e, fields, "rename"), 8 + 1)
      BY <1>3
    <2>2. CASE Convert(e, fields, "rename", TRUE, TRUE) = Ok(From(e, e, fields, "rename"))
      BY <2>1, <2>2, Results DEF AuditFares
    <2>3. CASE Convert(e, fields, "rename", TRUE, TRUE) = Throw(e)
      BY <2>3, Results DEF AuditFares
    <2> QED
      BY <1>9, <2>2, <2>3
  <1>11. Fares(i, e, 8, Convert(e, fields, "rename", TRUE, TRUE))
    BY <1>2, <1>8
  <1> QED
    BY <1>10, <1>11 DEF fields

LEMMA PairConcat ==
    ASSUME NEW S, NEW a \in S, NEW b \in S, NEW c \in S
    PROVE  <<a, b>> \o <<c>> = <<a, b, c>>
  <1> DEFINE s == <<a, b>> \o <<c>>
             t == <<a, b, c>>
  <1>1. <<a, b>> \in Seq(S) /\ <<c>> \in Seq(S)
    OBVIOUS
  <1>2. s \in Seq(S) /\ t \in Seq(S)
    BY <1>1
  <1>3. Len(s) = 3 /\ Len(t) = 3
    OBVIOUS
  <1>4. s[1] = t[1] /\ s[2] = t[2] /\ s[3] = t[3]
    OBVIOUS
  <1> HIDE DEF s, t
  <1>5. \A n \in 1..Len(s) : s[n] = t[n]
    BY <1>3, <1>4
  <1>6. s = t
    BY <1>2, <1>3, <1>5, SeqEqual
  <1> QED
    BY <1>6 DEF s, t

LEMMA PairsConcat ==
    ASSUME NEW S, NEW a \in S, NEW b \in S, NEW c \in S, NEW d \in S
    PROVE  <<a, b>> \o <<c, d>> = <<a, b, c, d>>
  <1> DEFINE s == <<a, b>> \o <<c, d>>
             t == <<a, b, c, d>>
  <1>1. <<a, b>> \in Seq(S) /\ <<c, d>> \in Seq(S)
    OBVIOUS
  <1>2. s \in Seq(S) /\ t \in Seq(S)
    BY <1>1
  <1>3. Len(s) = 4 /\ Len(t) = 4
    OBVIOUS
  <1>4. s[1] = t[1] /\ s[2] = t[2] /\ s[3] = t[3] /\ s[4] = t[4]
    OBVIOUS
  <1> HIDE DEF s, t
  <1>5. \A n \in 1..Len(s) : s[n] = t[n]
    BY <1>3, <1>4
  <1>6. s = t
    BY <1>2, <1>3, <1>5, SeqEqual
  <1> QED
    BY <1>6 DEF s, t

LEMMA AuditNames ==
    /\ Audit!Authorizations = <<"googlecloud", "audit", "authorization_info">>
    /\ Audit!Audit(StatusCode) = <<"googlecloud", "audit", "status", "code">>
    /\ Audit!Audit(<<"request_metadata", "requestAttributes">>)
           = <<"googlecloud", "audit", "request_metadata", "requestAttributes">>
    /\ Audit!Audit(<<"request_metadata", "destinationAttributes">>)
           = <<"googlecloud", "audit", "request_metadata", "destinationAttributes">>
  <1>1. /\ "googlecloud" \in STRING /\ "audit" \in STRING /\ "authorization_info" \in STRING
        /\ "status" \in STRING /\ "code" \in STRING /\ "request_metadata" \in STRING
        /\ "requestAttributes" \in STRING /\ "destinationAttributes" \in STRING
    BY StringsAssumption
  <1>2. <<"googlecloud", "audit">> \o <<"authorization_info">> = <<"googlecloud", "audit",
                                                                   "authorization_info">>
    BY <1>1, PairConcat
  <1>3. <<"googlecloud", "audit">> \o <<"status", "code">> = <<"googlecloud", "audit", "status",
                                                               "code">>
    BY <1>1, PairsConcat
  <1>4. <<"googlecloud", "audit">> \o <<"request_metadata", "requestAttributes">>
            = <<"googlecloud", "audit", "request_metadata", "requestAttributes">>
    BY <1>1, PairsConcat
  <1>5. <<"googlecloud", "audit">> \o <<"request_metadata", "destinationAttributes">>
            = <<"googlecloud", "audit", "request_metadata", "destinationAttributes">>
    BY <1>1, PairsConcat
  <1> QED
    BY <1>2, <1>3, <1>4, <1>5 DEF Audit!Audit, Audit!Authorizations, StatusCode

LEMMA AuditBelow ==
    LET a == Audit!Authorizations
        c == Audit!Audit(StatusCode)
        o == <<"event", "outcome">>
        ds == <<"googlecloud", "audit">>
        j == <<"json">>
        m == <<"message">>
        w == <<"event", "original">>
    IN  /\ a \in Paths /\ c \in Paths /\ o \in Paths /\ ds \in Paths /\ j \in Paths
        /\ a[1] = "googlecloud" /\ c[1] = "googlecloud" /\ Len(a) = 3
        /\ Apart(a, c) /\ Apart(a, j) /\ Apart(a, m) /\ Apart(a, w) /\ ds \in Above(a)
  <1> DEFINE a == <<"googlecloud", "audit", "authorization_info">>
             c == <<"googlecloud", "audit", "status", "code">>
             ds == <<"googlecloud", "audit">>
  <1>1. /\ a \in Paths /\ c \in Paths /\ <<"event", "outcome">> \in Paths /\ ds \in Paths
        /\ <<"json">> \in Paths /\ <<"message">> \in Paths /\ <<"event", "original">> \in Paths
    BY StringsAssumption DEF Paths, Names
  <1>2. Apart(a, c)
    <2>1. 3 \in DOMAIN a \cap DOMAIN c /\ a[3] # c[3]
      OBVIOUS
    <2> QED
      BY <2>1 DEF Apart
  <1>3. a[1] = "googlecloud" /\ c[1] = "googlecloud" /\ Len(a) = 3
    OBVIOUS
  <1>4. /\ <<"json">>[1] = "json" /\ <<"message">>[1] = "message" /\ <<"event", "original">>[1] = "event"
    OBVIOUS
  <1>5. ds \in Above(a)
    <2>1. Len(ds) = 2 /\ Len(a) = 3 /\ ds[1] = a[1] /\ ds[2] = a[2]
      OBVIOUS
    <2>2. a \in Names /\ ds \in Names
      BY <1>1 DEF Paths
    <2> HIDE DEF a, ds
    <2>4. \A n \in 1..Len(ds) : ds[n] = a[n]
      BY <2>1
    <2>6. Len(ds) <= Len(a)
      BY <2>1
    <2>7. IsPrefix(ds, a) <=> Len(ds) <= Len(a) /\ \A i \in 1..Len(ds) : ds[i] = a[i]
      BY <2>2, PrefixAt
    <2>3. IsPrefix(ds, a)
      BY <2>4, <2>6, <2>7
    <2>5. Len(ds) \in 1..(Len(a) - 1)
      BY <2>1
    <2> QED
      BY <2>2, <2>3, <2>5, AboveAt
  <1>6. Apart(a, <<"json">>) /\ Apart(a, <<"message">>) /\ Apart(a, <<"event", "original">>)
    <2> HIDE DEF a
    <2> QED
      BY <1>1, <1>3, <1>4, FirstApart
  <1> QED
    BY <1>1, <1>2, <1>3, <1>5, <1>6, AuditNames

LEMMA AuditSettled ==
    ASSUME NEW i, NEW e, NEW n \in 9..10, AuditAt(i, e, n), NEW f,
           Same(e, f, Audit!Authorizations), Same(e, f, Audit!Audit(StatusCode))
    PROVE  AuditAt(i, f, n + 1)
  BY DEF AuditAt, Same

(* copyFields *)
LEMMA FaresAuditCopies ==
    ASSUME NEW i, NEW e, Beforehand(i, e, 9), i.dataset = "audit", AuditAt(i, e, 9)
    PROVE  LET r == Convert(e, Audit!CopiedFields, "copy", FALSE, FALSE)
           IN  Fares(i, e, 9, r) /\ AuditFares(i, 9, r)
  <1> DEFINE r == Convert(e, Audit!CopiedFields, "copy", FALSE, FALSE)
  <1>1. IsEvent(e) /\ Idle(i, 9)
    BY AuditPlaces DEF Beforehand
  <1>2. Fares(i, e, 9, r)
    BY <1>1, FaresAside, CopiedFieldsAside
  <1>3. Quiet(e, r.evt)
    BY <1>1, QuietConvert, CopiedFieldsAside
  <1> HIDE DEF r
  <1>4. Same(e, r.evt, Audit!Authorizations) /\ Same(e, r.evt, Audit!Audit(StatusCode))
    BY <1>3, AuditBelow DEF Quiet, EntryNames
  <1>5. AuditAt(i, r.evt, 9 + 1)
    BY <1>4, AuditSettled
  <1> QED
    BY <1>2, <1>5 DEF AuditFares, r

(* dropExtraFields *)
LEMMA FaresAuditDrop ==
    ASSUME NEW i, NEW e, Beforehand(i, e, 10), i.dataset = "audit", AuditAt(i, e, 10)
    PROVE  LET r == Ok(DeleteAll(e, AuditExtra))
           IN  Fares(i, e, 10, r) /\ AuditFares(i, 10, r)
  <1> DEFINE f == DeleteAll(e, AuditExtra)
             x == <<"googlecloud", "audit", "request_metadata", "requestAttributes">>
             y == <<"googlecloud", "audit", "request_metadata", "destinationAttributes">>
             a == <<"googlecloud", "audit", "authorization_info">>
             c == <<"googlecloud", "audit", "status", "code">>
  <1>1. AuditExtra = {<<"json">>, x, y}
    BY AuditNames DEF AuditExtra
  <1>2. /\ x \in Names /\ y \in Names /\ <<"json">> \in Names /\ a \in Names /\ c \in Names
    BY StringsAssumption DEF Names
  <1>3. /\ x[1] = "googlecloud" /\ Len(x) > 2 /\ y[1] = "googlecloud" /\ Len(y) > 2
        /\ x[3] = "request_metadata" /\ y[3] = "request_metadata"
        /\ a[1] = "googlecloud" /\ c[1] = "googlecloud"
        /\ a[3] = "authorization_info" /\ c[3] = "status"
    OBVIOUS
  <1>4. a = Audit!Authorizations /\ c = Audit!Audit(StatusCode)
    BY AuditNames
  <1> HIDE DEF x, y, a, c
  <1>5. \A p \in AuditExtra : p \in Names /\ ((p[1] = "googlecloud" /\ Len(p) > 2) \/ p = <<"json">>)
    BY <1>1, <1>2, <1>3
  <1>6. Fares(i, e, 10, Ok(f))
    BY <1>5, AuditPlaces, FaresDropBelow
  <1>7. ASSUME NEW q \in {a, c}
        PROVE  Same(e, f, q)
    <2>1. ~IsPrefix(x, q) /\ ~IsPrefix(y, q)
      <3>1. 3 \in 1..Len(x) /\ x[3] # q[3] /\ 3 \in 1..Len(y) /\ y[3] # q[3]
        BY <1>2, <1>3 DEF Names
      <3> QED
        BY <1>2, <3>1, DifferNotPrefix
    <2>2. ~IsPrefix(<<"json">>, q)
      BY <1>3, <1>2, DifferNotPrefix
    <2>3. \A p \in AuditExtra : ~IsPrefix(p, q)
      BY <1>1, <2>1, <2>2
    <2> QED
      BY <2>3, DeleteAllAt DEF Same
  <1> HIDE DEF f
  <1>8. AuditAt(i, f, 10 + 1)
    BY <1>4, <1>7, AuditSettled
  <1>9. Ok(f).ok => AuditAt(i, Ok(f).evt, 10 + 1)
    BY <1>8, Results
  <1> QED
    BY <1>6, <1>9 DEF AuditFares, f

(* RenameNestedFields                                                        *)
LEMMA FaresAuditRename ==
    ASSUME NEW i, CloudInput(i), CloudAt(i, evt, 11), i.dataset = "audit", AuditAt(i, evt, 11)
    PROVE  LET r == AuditRenamed(Get(evt, Audit!Authorizations))
           IN  Fares(i, evt, 11, r) /\ AuditFares(i, 11, r)
  <1> DEFINE a == Audit!Authorizations
             c == Audit!Audit(StatusCode)
             ds == <<"googlecloud", "audit">>
             arr == Get(evt, a)
             f == Put(evt, a, RenamedGrants(arr))
  <1>0. Get(evt, a) = GrantsOf(i) /\ Get(evt, c) = CodeOf(i) /\ IsEvent(evt)
    BY DEF AuditAt, CloudAt
  <1>1. CASE arr = Null
    BY <1>1, <1>0, Results, FaresThrow DEF AuditRenamed, CauseOf, GrantsOf, AuditFares, ThrownAt
  <1>2. CASE arr # Null
    <2>1. AuditRenamed(arr) = Ok(f)
      BY <1>2 DEF AuditRenamed, RenamedGrants
    <2>2. /\ a \in Paths /\ c \in Paths /\ ds \in Paths /\ Apart(a, c) /\ Apart(a, <<"json">>)
          /\ Apart(a, <<"message">>) /\ Apart(a, <<"event", "original">>) /\ ds \in Above(a)
      BY AuditBelow
    <2> HIDE DEF a, c, ds, arr
    <2>3. IsEvent(f) /\ Confined({a}, evt, f) /\ Get(f, a) = RenamedGrants(arr) /\ Has(f, ds)
      BY <1>0, <2>2, PutAt
    <2> HIDE DEF f
    <2>4. ASSUME NEW q \in Paths, Apart(a, q)
          PROVE  Same(evt, f, q)
      BY <2>3, <2>4 DEF Confined, Same
    <2>5. /\ Same(evt, f, c) /\ Same(evt, f, <<"json">>) /\ Same(evt, f, <<"message">>)
          /\ Same(evt, f, <<"event", "original">>)
      BY <2>2, <2>4, EntryPaths
    <2>6. CloudAt(i, f, 11 + 1)
      BY AuditPlaces, <2>5, <2>3, CloudBelow DEF CloudAt, Same, ds
    <2>7. AuditAt(i, f, 11 + 1)
      BY <1>0, <1>2, <2>3, <2>5 DEF Same, arr, AuditAt, a, c
    <2>8. AuditFares(i, 11, Ok(f))
      BY <2>7, Results DEF AuditFares
    <2>9. Fares(i, evt, 11, Ok(f))
      BY <2>6, FaresOk
    <2>10. Fares(i, evt, 11, AuditRenamed(arr)) /\ AuditFares(i, 11, AuditRenamed(arr))
      BY <2>1, <2>8, <2>9
    <2> QED
      BY <2>10 DEF arr, a
  <1> QED
    BY <1>1, <1>2

(* setEventOutcome *)
LEMMA FaresAuditOutcome ==
    ASSUME NEW i, NEW e, Beforehand(i, e, 12), i.dataset = "audit", AuditAt(i, e, 12)
    PROVE  LET r == Ok(Put(e, <<"event", "outcome">>,
                           Str(Audit!OutcomeOf(Get(e, Audit!Audit(StatusCode)),
                                               Get(e, Audit!Authorizations)[2]))))
           IN  Fares(i, e, 12, r) /\ AuditFares(i, 12, r)
  <1> DEFINE o == <<"event", "outcome">>
             v == Str(Audit!OutcomeOf(Get(e, Audit!Audit(StatusCode)),
                                      Get(e, Audit!Authorizations)[2]))
             f == Put(e, o, v)
  <1>1. IsEvent(e) /\ Idle(i, 12)
    BY AuditPlaces DEF Beforehand
  <1>2. v = Str(Audit!OutcomeOf(CodeOf(i), RenamedGrants(GrantsOf(i))[2])) /\ GrantsOf(i) # Null
    BY DEF AuditAt
  <1>3. Aside(o) /\ o \in Paths
    BY CommonAside DEF Aside
  <1> HIDE DEF o, v
  <1>4. Quiet(e, f)
    BY <1>1, <1>3, QuietPut
  <1>5. Get(f, o) = v
    BY <1>3, PutThere
  <1> HIDE DEF f
  <1>6. Fares(i, e, 12, Ok(f))
    BY <1>1, <1>4, FaresQuiet
  <1>7. AuditAt(i, f, 12 + 1)
    BY <1>2, <1>5 DEF AuditAt, o
  <1>8. AuditFares(i, 12, Ok(f))
    BY <1>7, Results DEF AuditFares
  <1> QED
    BY <1>6, <1>8 DEF f, o, v

(* Each step of audit fares well, and keeps the status and the               *)
(* authorizations.                                                           *)
LEMMA AuditFaresAll ==
    ASSUME Ready("audit"), AuditAt(input, evt, at), at \in 1..12, Audit!Next
    PROVE  \E r : Goes(at, 12, r) /\ Fares(input, evt, at, r) /\ AuditFares(input, at, r)
  <1> DEFINE F(n, r) == Goes(n, 12, r) => /\ Goes(at, 12, r)
                                          /\ Fares(input, evt, at, r) /\ AuditFares(input, at, r)
  <1>0. /\ input.dataset = "audit" /\ IsEvent(evt) /\ CloudInput(input)
        /\ \A n : at = n => Beforehand(input, evt, n)
        /\ \A n \in Nat : n \in {5, 6} \/ n > 8 => Idle(input, n)
    BY ReadyBeforehand, AuditPlaces DEF Ready
  <1>c. ASSUME NEW r
        PROVE  /\ AuditFares(input, 1, r) /\ AuditFares(input, 2, r) /\ AuditFares(input, 3, r)
               /\ AuditFares(input, 4, r) /\ AuditFares(input, 5, r) /\ AuditFares(input, 6, r)
               /\ AuditFares(input, 7, r)
    BY DEF AuditFares, AuditAt
  <1>b. ASSUME NEW n, NEW r, at = n => Fares(input, evt, n, r) /\ AuditFares(input, n, r)
        PROVE  F(n, r)
    BY <1>b DEF Goes
  <1>1. F(1, DecodeJSON(evt, <<"message">>, <<"json">>))
    BY <1>0, <1>b, <1>c, FaresDecode
  <1>2. F(2, Timestamp(evt, <<"json", "timestamp">>))
    BY <1>0, <1>b, <1>c, FaresTimestamp
  <1>3. F(3, IF input.keep THEN Convert(evt, Original, "rename", FALSE, TRUE) ELSE Ok(evt))
    BY <1>0, FaresSaveOrNot, AuditPlaces, <1>b, <1>c
  <1>4. F(4, Ok(Delete(evt, <<"message">>)))
    BY <1>0, FaresDrop, AuditPlaces, <1>b, <1>c
  <1>5. F(5, Convert(evt, <<Logger>>, "copy", TRUE, TRUE))
    BY CommonUntyped, <1>0, FaresAside, LoggerAside, <1>b, <1>c
  <1>6. F(6, Convert(evt, <<AuditProject>>, "copy", TRUE, TRUE))
    BY CommonUntyped, <1>0, FaresAside, AuditProjectAside, <1>b, <1>c
  <1>7. F(7, Convert(evt, Entry("protoPayload"), "rename", FALSE, TRUE))
    BY <1>0, FaresEntry, AuditPlaces, <1>b, <1>c
  <1>8. F(8, Convert(evt, Audit!PayloadFields, "rename", TRUE, TRUE))
    <2>1. at = 8 => LET r == Convert(evt, Audit!PayloadFields, "rename", TRUE, TRUE)
                    IN  Fares(input, evt, 8, r) /\ AuditFares(input, 8, r)
      BY <1>0, FaresAuditPayload
    <2> QED
      BY <2>1, <1>b
  <1>9. F(9, Convert(evt, Audit!CopiedFields, "copy", FALSE, FALSE))
    <2>1. at = 9 => LET r == Convert(evt, Audit!CopiedFields, "copy", FALSE, FALSE)
                    IN  Fares(input, evt, 9, r) /\ AuditFares(input, 9, r)
      BY <1>0, FaresAuditCopies
    <2> QED
      BY <2>1, <1>b
  <1>10. F(10, Ok(DeleteAll(evt, AuditExtra)))
    BY <1>0, FaresAuditDrop, <1>b
  <1>11. F(11, AuditRenamed(Get(evt, Audit!Authorizations)))
    BY <1>0, FaresAuditRename, <1>b DEF Ready
  <1>12. F(12,
           Ok(Put(evt, <<"event", "outcome">>,
                  Str(Audit!OutcomeOf(Get(evt, Audit!Audit(<<"status", "code">>)),
                                      Get(evt, Audit!Authorizations)[2])))))
    <2> DEFINE r == Ok(Put(evt, <<"event", "outcome">>,
                           Str(Audit!OutcomeOf(Get(evt, Audit!Audit(StatusCode)),
                                               Get(evt, Audit!Authorizations)[2]))))
    <2>1. at = 12 => Fares(input, evt, 12, r) /\ AuditFares(input, 12, r)
      BY <1>0, FaresAuditOutcome
    <2>2. r = Ok(Put(evt, <<"event", "outcome">>,
                     Str(Audit!OutcomeOf(Get(evt, Audit!Audit(<<"status", "code">>)),
                                         Get(evt, Audit!Authorizations)[2]))))
      BY DEF StatusCode
    <2> HIDE DEF r
    <2>3. F(12, r)
      BY <2>1, <1>b
    <2> QED
      BY <2>2, <2>3
  <1> HIDE DEF F
  <1> QED
    BY <1>1, <1>2, <1>3, <1>4, <1>5, <1>6, <1>7, <1>8, <1>9, <1>10, <1>11, <1>12, AuditSteps,
       Zenon DEF F

(* misp: the value of the indicator stays where the document had it.         *)
MispAt(i, e, n) ==
    n < 6 => /\ IsEvent(e)
             /\ n = 1 => e = i.evt
             /\ n > 1 => Get(e, <<"json", "value">>) = Get(DocumentOf(i), <<"value">>)
MispFares(i, n, r) ==
    /\ r.ok \in BOOLEAN
    /\ r.ok => MispAt(i, r.evt, n + 1)
    /\ ~r.ok => CauseOf(i)

LEMMA MispNames ==
    /\ <<"json", "value">> \in Paths /\ <<"json", "Event", "info">> \in Paths
    /\ <<"json", "Event", "uuid">> \in Paths
    /\ Misp!Indicator(<<"feed">>) \in Paths /\ Misp!Indicator(<<"description">>) \in Paths
    /\ Misp!Indicator(<<"id">>) \in Paths
    /\ Misp!Indicator(<<"feed">>)[1] = "misp" /\ Misp!Indicator(<<"description">>)[1] = "misp"
    /\ Misp!Indicator(<<"id">>)[1] = "misp"
  <1>1. /\ "misp" \in STRING /\ "threat_indicator" \in STRING /\ "feed" \in STRING
        /\ "description" \in STRING /\ "id" \in STRING /\ "Event" \in STRING /\ "info" \in STRING
        /\ "uuid" \in STRING /\ "json" \in STRING /\ "value" \in STRING
    BY StringsAssumption
  <1>2. ASSUME NEW x \in STRING
        PROVE  Misp!Indicator(<<x>>) \in Paths /\ Misp!Indicator(<<x>>)[1] = "misp"
    BY <1>1, PairConcat DEF Misp!Indicator, Paths, Names
  <1>3. /\ <<"json", "value">> \in Paths /\ <<"json", "Event", "info">> \in Paths
        /\ <<"json", "Event", "uuid">> \in Paths
    BY <1>1 DEF Paths, Names
  <1> QED
    BY <1>1, <1>2, <1>3

LEMMA MispOk ==
    ASSUME NEW i, NEW n, NEW f, MispAt(i, f, n + 1)
    PROVE  MispFares(i, n, Ok(f))
  BY Results DEF MispFares

(* decodeJson *)
LEMMA MispDecode ==
    ASSUME NEW i, IsInput(i), i.dataset = "threat", NEW e, MispAt(i, e, 1)
    PROVE  MispFares(i, 1, DecodeJSON(e, <<"message">>, <<"json">>))
  <1>1. e = i.evt /\ IsEvent(e)
    BY DEF MispAt
  <1>2. Has(e, <<"message">>) /\ Get(e, <<"message">>) = MessageOf(i) /\ e[<<"message">>] = MessageOf(i)
    BY <1>1, InputFacts DEF MessageOf
  <1>3. CASE MessageOf(i)[1] = "json"
    <2>1. DecodeJSON(e, <<"message">>, <<"json">>) = Ok(Graft(e, <<"json">>, e[<<"message">>][2]))
      BY <1>2, <1>3, Zenon DEF DecodeJSON
    <2> DEFINE t == DocumentOf(i)
               f == Graft(e, <<"json">>, t)
    <2>2. e[<<"message">>][2] = t /\ IsTree(t)
      BY <1>1, <1>3, InputFacts DEF DocumentOf
    <2> HIDE DEF t
    <2>3. IsEvent(f)
      BY <1>1, <2>2, EntryPaths, GraftIsEvent
    <2>4. Get(f, <<"json">> \o <<"value">>) = Get(t, <<"value">>)
      <3>1. <<"value">> \in Names
        BY StringsAssumption DEF Names
      <3>2. /\ Has(f, <<"json">> \o <<"value">>) <=> <<"value">> \in DOMAIN t
            /\ <<"value">> \in DOMAIN t => f[<<"json">> \o <<"value">>] = t[<<"value">>]
        BY <2>2, <3>1, EntryPaths, GraftAt
      <3> DEFINE p == <<"json">> \o <<"value">>
                 q == <<"value">>
      <3> HIDE DEF p, q, f
      <3>3. Has(f, p) <=> Has(t, q)
        BY <3>2 DEF p, q, Has
      <3>4. Has(t, q) => f[p] = t[q]
        BY <3>2 DEF p, q, Has
      <3>5. Get(f, p) = Get(t, q)
        BY <3>3, <3>4 DEF Get
      <3> QED
        BY <3>5 DEF p, q
    <2>5. <<"json">> \o <<"value">> = <<"json", "value">>
      BY JsonNames, StringsAssumption
    <2> HIDE DEF f
    <2>6. MispAt(i, f, 1 + 1)
      <3>1. Get(f, <<"json", "value">>) = Get(t, <<"value">>)
        BY <2>4, <2>5
      <3>2. 1 + 1 > 1 /\ 1 + 1 < 6 /\ 1 + 1 # 1
        OBVIOUS
      <3> QED
        BY <2>3, <3>1, <3>2 DEF MispAt, t
    <2>7. DecodeJSON(e, <<"message">>, <<"json">>) = Ok(f)
      BY <2>1, <2>2 DEF f
    <2> QED
      BY <2>6, <2>7, MispOk
  <1>4. CASE MessageOf(i)[1] # "json"
    BY <1>2, <1>4, Zenon, DecodeCause, Results DEF DecodeJSON, MispFares
  <1> QED
    BY <1>3, <1>4

(* A step beside the document.                                               *)
LEMMA MispBeside ==
    ASSUME NEW i, NEW e, NEW n \in 2..4, MispAt(i, e, n), NEW f, IsEvent(f),
           Same(e, f, <<"json", "value">>)
    PROVE  MispFares(i, n, Ok(f))
  BY MispOk DEF MispAt, Same

LEMMA MispCategories ==
    ASSUME NEW e, IsEvent(e), NEW category, NEW type
    PROVE  LET f == PutAll(e, Categories(category, type))
           IN  IsEvent(f) /\ Same(e, f, <<"json", "value">>)
  <1>1. Quiet(e, PutAll(e, Categories(category, type)))
    BY CategoriesQuiet
  <1>2. <<"json", "value">>[1] = "json"
    OBVIOUS
  <1> QED
    BY <1>1, <1>2, MispNames DEF Quiet, EntryNames

LEMMA MispFeed ==
    ASSUME NEW e, IsEvent(e), NEW v
    PROVE  LET f == Put(e, Misp!Indicator(<<"feed">>), v)
           IN  IsEvent(f) /\ Same(e, f, <<"json", "value">>)
  <1> DEFINE p == Misp!Indicator(<<"feed">>)
             q == <<"json", "value">>
  <1>1. p \in Paths /\ q \in Paths /\ p[1] # q[1]
    BY MispNames
  <1> HIDE DEF p, q
  <1>2. Apart(p, q)
    BY <1>1, FirstApart
  <1>3. IsEvent(Put(e, p, v)) /\ Confined({p}, e, Put(e, p, v))
    BY <1>1, PutAt
  <1>4. Same(e, Put(e, p, v), q)
    BY <1>1, <1>2, <1>3 DEF Confined, Same
  <1> QED
    BY <1>3, <1>4 DEF p, q

(* convertFields *)
LEMMA MispConvert ==
    ASSUME NEW i, NEW e, MispAt(i, e, 4)
    PROVE  MispFares(i, 4, Convert(e, MispFields, "rename", TRUE, TRUE))
  <1> DEFINE a == Field(<<"json", "Event", "info">>, Misp!Indicator(<<"description">>))
             b == Field(<<"json", "Event", "uuid">>, Misp!Indicator(<<"id">>))
             q == <<"json", "value">>
             S == {f \in AllFields : f[3] = "" /\ Apart(f[1], q) /\ Apart(f[2], q)}
             fields == MispFields
             f == From(e, e, fields, "rename")
  <1>1. IsEvent(e)
    BY DEF MispAt
  <1>2. a \in S
    <2>1. a \in AllFields
      BY MispNames DEF AllFields, Field
    <2>2. Apart(<<"json", "Event", "info">>, q)
      BY DEF Apart
    <2>3. Apart(Misp!Indicator(<<"description">>), q)
      BY MispNames, FirstApart
    <2> QED
      BY <2>1, <2>2, <2>3 DEF Field
  <1>3. b \in S
    <2>1. b \in AllFields
      BY MispNames DEF AllFields, Field
    <2>2. Apart(<<"json", "Event", "uuid">>, q)
      BY DEF Apart
    <2>3. Apart(Misp!Indicator(<<"id">>), q)
      BY MispNames, FirstApart
    <2> QED
      BY <2>1, <2>2, <2>3 DEF Field
  <1>4. fields = <<a, b>>
    BY DEF MispFields
  <1>5. \A g \in S : g \in AllFields /\ g[3] = "" /\ Apart(g[1], q) /\ Apart(g[2], q)
    OBVIOUS
  <1> HIDE DEF a, b, S, fields
  <1>6. fields \in Seq(S)
    BY <1>2, <1>3, <1>4, Twosome
  <1>7. fields \in [1..Len(fields) -> S]
    BY <1>6, SeqFunction
  <1>8. AreFields(fields)
    BY <1>5, <1>6, SeqMore, AsideAreFields
  <1>9. \A n \in 1..Len(fields) : Spared(fields[n], "rename", q)
    BY <1>5, <1>7 DEF Spared, Touched
  <1>10. IsEvent(f) /\ Same(e, f, q)
    BY <1>1, <1>8, <1>9, MispNames, FromIsEvent, FromSpares
  <1>11. Convert(e, fields, "rename", TRUE, TRUE) = Ok(f)
    <2>1. \A x \in DOMAIN fields : ~Bad(e, fields[x])
      BY <1>5, <1>6, UntypedList
    <2> QED
      BY <2>1, ConvertGoes
  <1> HIDE DEF f
  <1>12. MispFares(i, 4, Ok(f))
    BY <1>10, MispBeside DEF q
  <1> QED
    BY <1>11, <1>12 DEF fields

(* setAttackPattern *)
LEMMA MispAttacks ==
    ASSUME MispAt(input, evt, 5), input.dataset = "threat"
    PROVE  MispFares(input, 5, MispAttack)
  <1>1. Get(evt, <<"json", "value">>) = Get(DocumentOf(input), <<"value">>)
    BY DEF MispAt
  <1>2. \/ \E f : MispAttack = Ok(f)
        \/ (\E f : MispAttack = Throw(f)) /\ Get(evt, <<"json", "value">>) = Null
    <2> DEFINE indicator_type == Get(evt, <<"json", "type">>)
               t == IF indicator_type = Null THEN "null" ELSE indicator_type[2]
               v == Get(evt, <<"json", "value">>)
               e == PutAll(evt,
                           <<<<<<"message">>, v>>, <<Misp!Indicator(<<"type">>), indicator_type>>>>)
               text == IF v = Null THEN Misp!Value(<<<<"null">>>>) ELSE v
               f == CASE t \in Misp!Observed /\ v # Null -> PutAll(e, Misp!Compared(t, v))
                      [] t \in Misp!Observed /\ v = Null -> Put(e, Misp!FieldOf[t], Null)
                      [] OTHER -> e
               x == Misp!Explained(f, t, Misp!Compared(t, text))
    <2>1. MispAttack = IF v = Null /\ t \in Misp!CallsMethod THEN Throw(e) ELSE Ok(x)
      BY Zenon DEF MispAttack
    <2> HIDE DEF x, t, e
    <2> QED
      BY <2>1
  <1>3. ASSUME NEW f, MispAttack = Ok(f)
        PROVE  MispFares(input, 5, MispAttack)
    BY <1>3, MispOk DEF MispAt
  <1>4. ASSUME NEW f, MispAttack = Throw(f), Get(evt, <<"json", "value">>) = Null
        PROVE  MispFares(input, 5, MispAttack)
    BY <1>1, <1>4, Results DEF CauseOf, MispFares
  <1> QED
    BY <1>2, <1>3, <1>4

(* Each step of misp fares well.                                             *)
LEMMA MispFaresAll ==
    ASSUME IsInput(input), input.dataset = "threat", MispAt(input, evt, at), at \in 1..5, Misp!Next
    PROVE  \E r : Goes(at, 5, r) /\ MispFares(input, at, r)
  <1> DEFINE F(n, r) == Goes(n, 5, r) => Goes(at, 5, r) /\ MispFares(input, at, r)
  <1>b. ASSUME NEW n, NEW r, at = n => MispFares(input, n, r)
        PROVE  F(n, r)
    BY <1>b DEF Goes
  <1>0. at < 6 => IsEvent(evt)
    BY DEF MispAt
  <1>1. F(1, DecodeJSON(evt, <<"message">>, <<"json">>))
    BY MispDecode, <1>b
  <1>2. F(2, Ok(PutAll(evt, Categories("threat-intel", "indicator"))))
    BY <1>0, MispCategories, MispBeside, <1>b
  <1>3. F(3, Ok(Put(evt, Misp!Indicator(<<"feed">>), Str("misp"))))
    BY <1>0, MispFeed, MispBeside, <1>b
  <1>4. F(4, Convert(evt, MispFields, "rename", TRUE, TRUE))
    <2>1. at = 4 => MispFares(input, 4, Convert(evt, MispFields, "rename", TRUE, TRUE))
      BY MispConvert
    <2> QED
      BY <2>1, <1>b
  <1>5. F(5, MispAttack)
    BY MispAttacks, <1>b
  <1> HIDE DEF F
  <1> QED
    BY <1>1, <1>2, <1>3, <1>4, <1>5, MispSteps, Zenon DEF F

-----------------------------------------------------------------------------
(*                                 cisco                                     *)

(* The paths the properties of cisco look at, and what is far from them.     *)
LogOriginal == <<"log", "original">>
Category == <<"event", "category">>
Severity == <<"event", "severity">>
MessagePath == <<"message">>
Scratch == <<"_tmp">>
BesideText == <<"_message">>
BesideSeverity == <<"_event_severity">>
Watched ==
    {LogOriginal, Category, Severity, MessagePath, Scratch, BesideText, BesideSeverity}
Clear(p) == p \in Paths /\ \A q \in Watched : Apart(p, q)
Held(e, p, v) == Has(e, p) /\ Get(e, p) = v

(* What the log says when the header of a line in a file is off.             *)
FileInput(i) == Get(i.evt, <<"input", "type">>) = Str("log")
HeaderOf(i) == IF FileInput(i) THEN 5 ELSE 0
TextOf(i) == IF MessageOf(i)[1] = "line" THEN MessageOf(i)[2].message ELSE MessageOf(i)
TrafficConverted(e) ==
    /\ \A x \in {"source", "destination"} :
          /\ IsIP(Get(e, <<x, "ip">>))
          /\ Get(e, <<x, "ip">>) = Get(e, <<x, "address">>)
    /\ Get(e, <<"network", "packets">>) = Get(e, <<"source", "packets">>)
    /\ \A p \in {<<"source", "port">>, <<"source", "packets">>, <<"destination", "port">>,
                 <<"icmp", "type">>, <<"icmp", "code">>, <<"igmp", "type">>} :
          Has(e, p) => Get(e, p)[1] = "long"

(* The event e of input i, before step n.                                    *)
CiscoText(i, e, n) ==
    /\ n > 1 => Held(e, LogOriginal, MessageOf(i))
    /\ n = 2 => Held(e, MessagePath, MessageOf(i))
    /\ FileInput(i) /\ n > 2 => MessageOf(i)[1] = "line"
    /\ FileInput(i) /\ n = 3 => Held(e, <<"_tmp", "message">>, TextOf(i))
    /\ FileInput(i) /\ n \in 4..7 => Held(e, MessagePath, TextOf(i))
    /\ n = 3 + HeaderOf(i) => /\ Held(e, BesideText, TextOf(i)[2].body)
                              /\ Held(e, BesideSeverity, TextOf(i)[2].severity)
    /\ n > 3 + HeaderOf(i) => Held(e, MessagePath, TextOf(i)[2].body)
    /\ n = 4 + HeaderOf(i) => Held(e, Severity, TextOf(i)[2].severity)
    /\ n > 4 + HeaderOf(i) => Held(e, Severity, Long(TextOf(i)[2].severity[2]))
CiscoClean(i, e, n) ==
    /\ n > 6 \/ ~FileInput(i) => ~Has(e, Scratch)
    /\ n > 3 + HeaderOf(i) => ~Has(e, BesideText) /\ ~Has(e, BesideSeverity)
CiscoAt(i, e, n) ==
    /\ IsEvent(e)
    /\ n = 1 => e = i.evt
    /\ CiscoText(i, e, n)
    /\ CiscoClean(i, e, n)
    /\ n <= 6 + HeaderOf(i) => ~Has(e, Category)
    /\ Has(e, Category) => TrafficConverted(e)

(* The result r of step n: what threw is published as it is.                 *)
CiscoThrown(i, e, n) ==
    /\ IsEvent(e) /\ ~Has(e, Category)
    /\ n > 1 => Held(e, LogOriginal, MessageOf(i))
CiscoFares(i, n, r) ==
    /\ r.ok \in BOOLEAN
    /\ r.ok => CiscoAt(i, r.evt, n + 1)
    /\ ~r.ok => CiscoThrown(i, r.evt, n)

LEMMA CiscoOk ==
    ASSUME NEW i, NEW n, NEW f, CiscoAt(i, f, n + 1)
    PROVE  CiscoFares(i, n, Ok(f))
  BY Results DEF CiscoFares

LEMMA CiscoThrow ==
    ASSUME NEW i, NEW n, NEW f, CiscoThrown(i, f, n)
    PROVE  CiscoFares(i, n, Throw(f))
  BY Results DEF CiscoFares

LEMMA CiscoThrowHere ==
    ASSUME NEW i, NEW n \in Nat, NEW e, CiscoAt(i, e, n), n <= 6 + HeaderOf(i)
    PROVE  CiscoFares(i, n, Throw(e))
  BY CiscoThrow DEF CiscoThrown, CiscoAt, CiscoText

LEMMA HeaderIs ==
    ASSUME NEW i
    PROVE  HeaderOf(i) \in {0, 5} /\ (FileInput(i) <=> HeaderOf(i) = 5)
  BY DEF HeaderOf

LEMMA WatchedPaths ==
    /\ LogOriginal \in Paths /\ Category \in Paths /\ Severity \in Paths /\ MessagePath \in Paths
    /\ Scratch \in Paths /\ BesideText \in Paths /\ BesideSeverity \in Paths
    /\ Watched \subseteq Paths
  <1>1. /\ LogOriginal \in Paths /\ Category \in Paths /\ Severity \in Paths
        /\ MessagePath \in Paths
    BY StringsAssumption DEF LogOriginal, Category, Severity, MessagePath, Paths, Names
  <1>2. Scratch \in Paths /\ BesideText \in Paths /\ BesideSeverity \in Paths
    BY StringsAssumption DEF Scratch, BesideText, BesideSeverity, Paths, Names
  <1> QED
    BY <1>1, <1>2 DEF Watched

LEMMA PairIsPath ==
    ASSUME NEW a \in STRING, NEW b \in STRING
    PROVE  <<a, b>> \in Paths
  <1>1. <<a, b>> \in Seq(STRING)
    BY Twosome
  <1>2. <<a, b>> # << >>
    OBVIOUS
  <1> QED
    BY <1>1, <1>2 DEF Paths, Names

LEMMA FirstsApart ==
    ASSUME NEW a, NEW b, NEW c, NEW d, a # c
    PROVE  Apart(<<a, b>>, <<c, d>>)
  <1>1. DOMAIN <<a, b>> = {1, 2} /\ DOMAIN <<c, d>> = {1, 2}
    OBVIOUS
  <1> QED
    BY <1>1 DEF Apart

LEMMA SecondsApart ==
    ASSUME NEW a, NEW b, NEW c, NEW d, b # d
    PROVE  Apart(<<a, b>>, <<c, d>>)
  <1>1. DOMAIN <<a, b>> = {1, 2} /\ DOMAIN <<c, d>> = {1, 2}
    OBVIOUS
  <1> QED
    BY <1>1 DEF Apart

LEMMA PairsApart ==
    ASSUME NEW a, NEW b, NEW c, NEW d, a # c \/ b # d
    PROVE  Apart(<<a, b>>, <<c, d>>)
  BY FirstsApart, SecondsApart

LEMMA ClearPair ==
    ASSUME NEW a \in STRING, NEW b \in STRING,
           a \notin {"message", "_tmp", "_message", "_event_severity"},
           a = "log" => b # "original", a = "event" => b \notin {"category", "severity"}
    PROVE  Clear(<<a, b>>)
  <1> DEFINE p == <<a, b>>
  <1>1. p \in Paths /\ p[1] = a
    BY PairIsPath
  <1>2. Apart(p, LogOriginal)
    BY PairsApart DEF LogOriginal
  <1>7. Apart(p, Category) /\ Apart(p, Severity)
    BY PairsApart DEF Category, Severity
  <1>3. /\ MessagePath[1] = "message" /\ Scratch[1] = "_tmp" /\ BesideText[1] = "_message"
        /\ BesideSeverity[1] = "_event_severity"
    BY DEF MessagePath, Scratch, BesideText, BesideSeverity
  <1> HIDE DEF p
  <1>4. Apart(p, MessagePath) /\ Apart(p, Scratch) /\ Apart(p, BesideText)
    BY <1>1, <1>3, WatchedPaths, FirstApart
  <1>5. Apart(p, BesideSeverity)
    BY <1>1, <1>3, WatchedPaths, FirstApart
  <1>6. Clear(p)
    BY <1>1, <1>2, <1>4, <1>5, <1>7 DEF Clear, Watched
  <1> QED
    BY <1>6 DEF p

LEMMA ClearFirst ==
    ASSUME NEW p \in Paths,
           p[1] \notin {"log", "event", "message", "_tmp", "_message", "_event_severity"}
    PROVE  Clear(p)
  <1>1. \A q \in Watched : q \in Paths /\ q[1] # p[1]
    BY WatchedPaths DEF Watched, LogOriginal, Category, Severity, MessagePath, Scratch,
       BesideText, BesideSeverity
  <1> QED
    BY <1>1, FirstApart DEF Clear

(* Two of the watched paths.                                                 *)
LEMMA WatchedApart ==
    ASSUME NEW p \in Watched, NEW q \in Watched, p # q
    PROVE  Apart(p, q)
  <1>1. Apart(Category, Severity) /\ Apart(Severity, Category)
    BY DEF Apart, Category, Severity
  <1>2. CASE p[1] # q[1]
    BY <1>2, WatchedPaths, FirstApart
  <1>3. CASE p[1] = q[1]
    BY <1>1, <1>3 DEF Watched, LogOriginal, Category, Severity, MessagePath, Scratch,
       BesideText, BesideSeverity
  <1> QED
    BY <1>2, <1>3

(* What is put far from the watched paths.                                   *)
LEMMA PutClear ==
    ASSUME NEW e, IsEvent(e), NEW p, Clear(p), NEW v
    PROVE  IsEvent(Put(e, p, v)) /\ \A q \in Watched : Same(e, Put(e, p, v), q)
  <1>1. p \in Paths
    BY DEF Clear
  <1>2. IsEvent(Put(e, p, v)) /\ Confined({p}, e, Put(e, p, v))
    BY <1>1, PutAt
  <1>3. ASSUME NEW q \in Watched
        PROVE  Same(e, Put(e, p, v), q)
    BY <1>2, <1>3, WatchedPaths DEF Confined, Same, Clear
  <1> QED
    BY <1>2, <1>3

(* The steps that leave everything watched alone.                            *)
LEMMA CiscoBeside ==
    ASSUME NEW i, NEW n \in Nat, NEW e, CiscoAt(i, e, n), NEW f, IsEvent(f),
           \A q \in Watched : Same(e, f, q),
           (FileInput(i) /\ n \in {4, 5}) \/ n = 5 + HeaderOf(i)
    PROVE  CiscoAt(i, f, n + 1)
  BY HeaderIs DEF Watched, CiscoAt, CiscoText, Same, Held, CiscoClean

LEMMA CiscoStart ==
    ASSUME NEW i, IsInput(i)
    PROVE  CiscoAt(i, i.evt, 1)
  <1>1. IsEvent(i.evt) /\ ~Has(i.evt, Category)
    BY InputFacts DEF Category
  <1>2. ~Has(i.evt, Scratch)
    BY InputFacts DEF Scratch, OwnNames, Has
  <1>3. CiscoText(i, i.evt, 1) /\ CiscoClean(i, i.evt, 1)
    BY <1>2, HeaderIs DEF CiscoText, CiscoClean
  <1> QED
    BY <1>1, <1>3 DEF CiscoAt

LEMMA OneCopy ==
    ASSUME NEW e, NEW from, NEW to, Has(e, from)
    PROVE  Convert(e, <<Field(from, to)>>, "copy", FALSE, TRUE) = Ok(Copy(e, from, to))
  <1> DEFINE f == Field(from, to)
  <1>1. f[1] = from /\ f[2] = to /\ f[3] = ""
    BY DEF Field
  <1>2. Convert(e, <<f>>, "copy", FALSE, TRUE) = Ok(ConvertUsable(e, e, f, "copy"))
    BY OneConvert, Zenon
  <1> HIDE DEF f
  <1>3. ~Bad(e, f) /\ ~Missing(e, f)
    BY <1>1, UntypedGood DEF Missing
  <1>4. ConvertUsable(e, e, f, "copy") = Copy(e, from, to)
    BY <1>1, <1>3 DEF ConvertUsable, ConvertOne
  <1>5. Convert(e, <<f>>, "copy", FALSE, TRUE) = Ok(Copy(e, from, to))
    BY <1>2, <1>4
  <1> QED
    BY <1>5 DEF f

LEMMA CopyHere ==
    ASSUME NEW e, IsEvent(e), NEW from \in Paths, NEW to \in Paths
    PROVE  /\ Has(Copy(e, from, to), to) <=> Has(e, from)
           /\ Get(Copy(e, from, to), to) = Get(e, from)
  <1> DEFINE r == << >>
             p == from \o r
             q == to \o r
  <1>1. r \in Names /\ p = from /\ q = to
    BY DEF Paths, Names
  <1> HIDE DEF r
  <1>2. Has(Copy(e, from, to), q) <=> Has(e, p)
    BY <1>1, CopyAt
  <1>3. Get(Copy(e, from, to), q) = Get(e, p)
    BY <1>1, CopyAt
  <1> HIDE DEF p, q
  <1>4. Has(Copy(e, from, to), to) <=> Has(e, from)
    BY <1>1, <1>2
  <1>5. Get(Copy(e, from, to), to) = Get(e, from)
    BY <1>1, <1>3
  <1> QED
    BY <1>4, <1>5

(* copyOriginalMessage *)
LEMMA CiscoOriginal ==
    ASSUME NEW i, IsInput(i), NEW e, CiscoAt(i, e, 1)
    PROVE  CiscoFares(i, 1, Convert(e, Logged, "copy", FALSE, TRUE))
  <1> DEFINE f == Copy(e, MessagePath, LogOriginal)
  <1>1. e = i.evt /\ IsEvent(e) /\ ~Has(e, Category)
    BY HeaderIs DEF CiscoAt
  <1>2. Held(e, MessagePath, MessageOf(i))
    BY <1>1, InputFacts DEF Held, MessagePath, MessageOf
  <1>3. ~FileInput(i) => ~Has(e, Scratch)
    BY DEF CiscoAt, CiscoClean
  <1>4. Convert(e, Logged, "copy", FALSE, TRUE) = Ok(f)
    BY <1>2, OneCopy DEF Logged, MessagePath, LogOriginal, Held
  <1>5. IsEvent(f) /\ Confined({LogOriginal}, e, f)
    BY <1>1, WatchedPaths, CopyAt
  <1>6. Held(f, LogOriginal, MessageOf(i))
    BY <1>1, <1>2, WatchedPaths, CopyHere DEF Held
  <1> HIDE DEF f
  <1>7. Same(e, f, MessagePath) /\ Same(e, f, Scratch) /\ Same(e, f, Category)
    BY WatchedApart, <1>5, WatchedPaths DEF Watched, LogOriginal, MessagePath, Scratch,
       Category, Confined, Same
  <1>8. CiscoText(i, f, 1 + 1)
    BY <1>2, <1>6, <1>7, HeaderIs DEF CiscoText, Same, Held
  <1>9. CiscoClean(i, f, 1 + 1)
    BY <1>3, <1>7, HeaderIs DEF CiscoClean, Same
  <1>10. CiscoAt(i, f, 1 + 1)
    BY <1>1, <1>5, <1>7, <1>8, <1>9 DEF CiscoAt, Same
  <1> QED
    BY <1>4, <1>10, CiscoOk

LEMMA DissectGoes ==
    ASSUME NEW e, NEW fields
    PROVE  /\ Dissect(e, fields) = Throw(e) \/ Dissect(e, fields) = Ok(PutAll(e, fields))
           /\ fields = << >> => Dissect(e, fields) = Throw(e)
  BY DEF Dissect

(* dissectHeader *)
LEMMA HeaderFields ==
    ASSUME NEW m, m[1] = "line"
    PROVE  LET fields == Cisco!HeaderOf(m)
           IN  /\ Len(fields) = 5 /\ ArePuts(fields)
               /\ \A n \in 1..5 : Apart(fields[n][1], LogOriginal) /\ Apart(fields[n][1], Category)
               /\ fields[5][1] = <<"_tmp", "message">> /\ fields[5][2] = m[2].message
  <1> DEFINE fields == Cisco!HeaderOf(m)
  <1>1. fields = <<<<<<"_tmp", "ts">>, m[2].received>>,
                   <<<<"log", "source", "address">>, m[2].host>>,
                   <<<<"event", "sequence">>, m[2].sequence>>,
                   <<<<"_tmp", "timestamp">>, m[2].timestamp>>,
                   <<<<"_tmp", "message">>, m[2].message>>>>
    BY DEF Cisco!HeaderOf
  <1> HIDE DEF fields
  <1>2. /\ Len(fields) = 5 /\ DOMAIN fields = 1..5
        /\ fields[1][1] = <<"_tmp", "ts">> /\ fields[2][1] = <<"log", "source", "address">>
        /\ fields[3][1] = <<"event", "sequence">> /\ fields[4][1] = <<"_tmp", "timestamp">>
        /\ fields[5][1] = <<"_tmp", "message">> /\ fields[5][2] = m[2].message
    BY <1>1
  <1>3. /\ <<"_tmp", "ts">> \in Paths /\ <<"event", "sequence">> \in Paths
        /\ <<"_tmp", "timestamp">> \in Paths /\ <<"_tmp", "message">> \in Paths
    BY StringsAssumption, PairIsPath
  <1>4. <<"log", "source", "address">> \in Paths
    BY StringsAssumption DEF Paths, Names
  <1>5. /\ Apart(<<"_tmp", "ts">>, LogOriginal) /\ Apart(<<"event", "sequence">>, LogOriginal)
        /\ Apart(<<"_tmp", "timestamp">>, LogOriginal) /\ Apart(<<"_tmp", "message">>, LogOriginal)
    BY FirstsApart DEF LogOriginal
  <1>6. /\ Apart(<<"_tmp", "ts">>, Category) /\ Apart(<<"_tmp", "timestamp">>, Category)
        /\ Apart(<<"_tmp", "message">>, Category)
    BY FirstsApart DEF Category
  <1>7. Apart(<<"event", "sequence">>, Category)
    BY SecondsApart DEF Category
  <1>8. Apart(<<"log", "source", "address">>, LogOriginal)
    BY DEF Apart, LogOriginal
  <1>9. Apart(<<"log", "source", "address">>, Category)
    BY DEF Apart, Category
  <1>10. \A n \in 1..5 : fields[n][1] \in Paths
    BY <1>2, <1>3, <1>4
  <1>11. ArePuts(fields)
    BY <1>2, <1>10 DEF ArePuts
  <1>12. \A n \in 1..5 : Apart(fields[n][1], LogOriginal) /\ Apart(fields[n][1], Category)
    BY <1>2, <1>5, <1>6, <1>7, <1>8, <1>9
  <1>13. /\ Len(fields) = 5 /\ ArePuts(fields)
         /\ \A n \in 1..5 : Apart(fields[n][1], LogOriginal) /\ Apart(fields[n][1], Category)
         /\ fields[5][1] = <<"_tmp", "message">> /\ fields[5][2] = m[2].message
    BY <1>2, <1>11, <1>12
  <1> QED
    BY <1>13 DEF fields

LEMMA CiscoHeader ==
    ASSUME NEW i, FileInput(i), NEW e, CiscoAt(i, e, 2)
    PROVE  CiscoFares(i, 2, Dissect(e, Cisco!HeaderOf(Get(e, MessagePath))))
  <1>1. /\ IsEvent(e) /\ ~Has(e, Category) /\ Get(e, MessagePath) = MessageOf(i)
        /\ Held(e, LogOriginal, MessageOf(i))
    BY HeaderIs DEF CiscoAt, CiscoText, Held
  <1>2. CASE MessageOf(i)[1] # "line"
    BY <1>2, HeaderIs, CiscoThrowHere, <1>1, DissectGoes DEF Cisco!HeaderOf
  <1>3. CASE MessageOf(i)[1] = "line"
    <2> DEFINE m == MessageOf(i)
               fields == Cisco!HeaderOf(m)
               f == PutAll(e, fields)
    <2>1. /\ Len(fields) = 5 /\ ArePuts(fields)
          /\ \A n \in 1..5 : Apart(fields[n][1], LogOriginal) /\ Apart(fields[n][1], Category)
          /\ fields[5][1] = <<"_tmp", "message">> /\ fields[5][2] = m[2].message
      BY <1>3, HeaderFields
    <2> HIDE DEF fields
    <2>2. IsEvent(f) /\ Same(e, f, LogOriginal) /\ Same(e, f, Category)
      BY <1>1, <2>1, WatchedPaths, PutAllKeeps
    <2>3. /\ Has(PutAll(e, fields), fields[5][1])
          /\ Get(PutAll(e, fields), fields[5][1]) = fields[5][2]
      BY <2>1, PutAllLands
    <2>4. Held(f, <<"_tmp", "message">>, TextOf(i))
      BY <1>3, <2>1, <2>3 DEF Held, TextOf
    <2> HIDE DEF f
    <2>5. CiscoText(i, f, 2 + 1)
      BY <1>1, <1>3, <2>2, <2>4, HeaderIs DEF CiscoText, Same, Held
    <2>6. CiscoClean(i, f, 2 + 1)
      BY HeaderIs DEF CiscoClean
    <2>7. CiscoAt(i, f, 2 + 1)
      BY <1>1, <2>2, <2>5, <2>6 DEF CiscoAt, Same
    <2>8. CiscoFares(i, 2, Ok(f))
      BY <2>7, CiscoOk
    <2>9. CiscoFares(i, 2, Throw(e))
      BY HeaderIs, CiscoThrowHere
    <2> QED
      BY <1>1, <2>8, <2>9, DissectGoes DEF f, fields
  <1> QED
    BY <1>2, <1>3

(* takeMessage *)
LEMMA CiscoTake ==
    ASSUME NEW i, FileInput(i), NEW e, CiscoAt(i, e, 3)
    PROVE  CiscoFares(i, 3, Convert(e, Taken, "rename", FALSE, TRUE))
  <1> DEFINE from == <<"_tmp", "message">>
             f == Move(e, from, MessagePath)
  <1>1. /\ IsEvent(e) /\ ~Has(e, Category) /\ Held(e, from, TextOf(i))
        /\ Held(e, LogOriginal, MessageOf(i)) /\ MessageOf(i)[1] = "line"
    BY HeaderIs DEF CiscoAt, CiscoText
  <1>2. from \in Paths /\ from[1] = "_tmp"
    BY StringsAssumption, PairIsPath
  <1>3. Convert(e, Taken, "rename", FALSE, TRUE) = Ok(f)
    BY <1>1, OneMoved DEF Taken, Held, MessagePath
  <1> HIDE DEF from
  <1>4. Apart(from, MessagePath) /\ Apart(from, LogOriginal) /\ Apart(from, Category)
    BY <1>2, WatchedPaths, FirstApart DEF MessagePath, LogOriginal, Category
  <1>5. Apart(MessagePath, LogOriginal) /\ Apart(MessagePath, Category)
    BY WatchedPaths, FirstApart DEF MessagePath, LogOriginal, Category
  <1>6. IsEvent(f) /\ Confined({from, MessagePath}, e, f)
    BY <1>1, <1>2, WatchedPaths, MoveAt
  <1>7. Held(f, MessagePath, TextOf(i))
    BY <1>2, <1>4, WatchedPaths, ApartNotPrefix, <1>1, MoveHere DEF Paths, Held
  <1>8. Same(e, f, LogOriginal) /\ Same(e, f, Category)
    BY <1>4, <1>5, <1>6, WatchedPaths DEF Confined, Same
  <1> HIDE DEF f
  <1>9. CiscoText(i, f, 3 + 1)
    BY <1>1, <1>7, <1>8, HeaderIs DEF CiscoText, Same, Held
  <1>10. CiscoClean(i, f, 3 + 1)
    BY HeaderIs DEF CiscoClean
  <1>11. CiscoAt(i, f, 3 + 1)
    BY <1>1, <1>6, <1>8, <1>9, <1>10 DEF CiscoAt, Same
  <1> QED
    BY <1>3, <1>11, CiscoOk

(* convertSequence *)
LEMMA CiscoSequence ==
    ASSUME NEW i, FileInput(i), NEW e, CiscoAt(i, e, 4)
    PROVE  CiscoFares(i, 4,
                      Convert(e, <<Cisco!InPlace(<<"event", "sequence">>)>>, "copy", TRUE, TRUE))
  <1> DEFINE p == <<"event", "sequence">>
             g == Typed(p, p, "long")
             f == From(e, e, <<g>>, "copy")
  <1>1. IsEvent(e)
    BY DEF CiscoAt
  <1>2. Cisco!InPlace(p) = g
    BY CiscoSame DEF Cisco!InPlace
  <1>3. Clear(p)
    BY StringsAssumption, ClearPair
  <1>4. g[1] = p /\ g[2] = p /\ p \in Paths
    BY <1>3 DEF Typed, Clear
  <1> HIDE DEF g, p
  <1>5. Len(<<g>>) = 1 /\ DOMAIN <<g>> = 1..1 /\ <<g>>[1] = g
    OBVIOUS
  <1>6. AreFields(<<g>>) /\ \A q \in Watched : Spared(<<g>>[1], "copy", q)
    BY <1>3, <1>4, <1>5 DEF AreFields, Spared, Touched, Clear
  <1>7. IsEvent(f)
    BY <1>1, <1>6, FromIsEvent
  <1>8. \A q \in Watched : Same(e, f, q)
    <2>1. ASSUME NEW q \in Watched
          PROVE  Same(e, f, q)
      BY <1>5, <1>6, <1>1, WatchedPaths, FromSpares
    <2> QED
      BY <2>1
  <1> HIDE DEF f
  <1>9. CiscoAt(i, f, 4 + 1)
    BY <1>7, <1>8, CiscoBeside
  <1>10. CiscoFares(i, 4, Ok(f)) /\ CiscoFares(i, 4, Throw(e))
    BY <1>9, CiscoOk, HeaderIs, CiscoThrowHere
  <1> QED
    BY <1>2, <1>10, ConvertGoes DEF p, f

(* parseTimestamp *)
LEMMA CiscoTimestamp ==
    ASSUME NEW i, FileInput(i), NEW e, CiscoAt(i, e, 5), NEW from
    PROVE  CiscoFares(i, 5, Timestamp(e, from))
  <1> DEFINE f == Put(e, <<"@timestamp">>, e[from])
  <1>1. IsEvent(e)
    BY DEF CiscoAt
  <1>2. Timestamp(e, from) \in {Ok(e), Ok(f), Throw(e)}
    BY Zenon DEF Timestamp
  <1>3. Clear(<<"@timestamp">>)
    <2>1. <<"@timestamp">> \in Paths /\ <<"@timestamp">>[1] = "@timestamp"
      BY StringsAssumption DEF Paths, Names
    <2> QED
      BY <2>1, ClearFirst
  <1>4. IsEvent(f) /\ \A q \in Watched : Same(e, f, q)
    BY <1>1, <1>3, PutClear
  <1>5. \A q \in Watched : Same(e, e, q)
    BY DEF Same
  <1> HIDE DEF f
  <1>6. CiscoAt(i, f, 5 + 1) /\ CiscoAt(i, e, 5 + 1)
    BY <1>1, <1>4, <1>5, CiscoBeside
  <1>7. CiscoFares(i, 5, Ok(f)) /\ CiscoFares(i, 5, Ok(e)) /\ CiscoFares(i, 5, Throw(e))
    BY <1>6, CiscoOk, HeaderIs, CiscoThrowHere
  <1> QED
    BY <1>2, <1>7

(* deleteTmp *)
LEMMA CiscoDeleteTmp ==
    ASSUME NEW i, FileInput(i), NEW e, CiscoAt(i, e, 6)
    PROVE  CiscoFares(i, 6, Ok(Delete(e, Scratch)))
  <1> DEFINE f == Delete(e, Scratch)
  <1>1. /\ IsEvent(e) /\ ~Has(e, Category) /\ MessageOf(i)[1] = "line"
        /\ Held(e, LogOriginal, MessageOf(i)) /\ Held(e, MessagePath, TextOf(i))
    BY HeaderIs DEF CiscoAt, CiscoText
  <1>2. Scratch \in Names
    BY WatchedPaths DEF Paths
  <1>3. IsEvent(f) /\ Confined({Scratch}, e, f)
    BY <1>1, <1>2, DeleteIsEvent, DeleteConfined
  <1>4. Same(e, f, LogOriginal) /\ Same(e, f, Category) /\ Same(e, f, MessagePath)
    BY WatchedApart, <1>3, WatchedPaths DEF Watched, LogOriginal, MessagePath, Scratch,
       Category, Confined, Same
  <1>5. ~Has(f, Scratch)
    BY <1>2, PrefixAt, DeleteAt DEF Names
  <1> HIDE DEF f
  <1>6. CiscoText(i, f, 6 + 1)
    BY <1>1, <1>4, HeaderIs DEF CiscoText, Same, Held
  <1>7. CiscoClean(i, f, 6 + 1)
    BY <1>5, HeaderIs DEF CiscoClean
  <1>8. CiscoAt(i, f, 6 + 1)
    BY <1>1, <1>3, <1>4, <1>6, <1>7 DEF CiscoAt, Same
  <1> QED
    BY <1>8, CiscoOk DEF f

(* dissectMessage *)
LEMMA MessageParts ==
    ASSUME NEW m, m[1] = "ios"
    PROVE  LET fields == Cisco!MessageFields(m)
           IN  /\ Len(fields) = 4 /\ ArePuts(fields)
               /\ \A n \in 1..4 : \A q \in {LogOriginal, Category, Scratch} : Apart(fields[n][1], q)
               /\ fields[2][1] = BesideSeverity /\ fields[2][2] = m[2].severity
               /\ fields[4][1] = BesideText /\ fields[4][2] = m[2].body
               /\ Apart(fields[3][1], BesideSeverity)
  <1> DEFINE fields == Cisco!MessageFields(m)
             a == <<"cisco", "ios", "facility">>
             b == <<"event", "code">>
  <1>1. fields = <<<<a, m[2].facility>>, <<BesideSeverity, m[2].severity>>,
                   <<b, m[2].code>>, <<BesideText, m[2].body>>>>
    BY DEF Cisco!MessageFields, BesideSeverity, BesideText
  <1>2. Clear(b)
    BY StringsAssumption, ClearPair
  <1>3. Clear(a)
    <2>1. a \in Paths /\ a[1] = "cisco"
      BY StringsAssumption DEF Paths, Names
    <2> QED
      BY <2>1, ClearFirst
  <1> HIDE DEF fields, a, b
  <1>4. /\ Len(fields) = 4 /\ DOMAIN fields = 1..4
        /\ fields[1][1] = a /\ fields[3][1] = b
        /\ fields[2][1] = BesideSeverity /\ fields[2][2] = m[2].severity
        /\ fields[4][1] = BesideText /\ fields[4][2] = m[2].body
    BY <1>1
  <1>5. ASSUME NEW q \in {LogOriginal, Category, Scratch}
        PROVE  /\ Apart(a, q) /\ Apart(b, q) /\ Apart(BesideSeverity, q) /\ Apart(BesideText, q)
    BY <1>2, <1>3, WatchedApart DEF Watched, LogOriginal, Category, Scratch, BesideSeverity,
       BesideText, Clear
  <1>6. \A n \in 1..4 : \A q \in {LogOriginal, Category, Scratch} : Apart(fields[n][1], q)
    BY <1>4, <1>5
  <1>7. \A n \in 1..4 : fields[n][1] \in Paths
    BY <1>2, <1>3, <1>4, WatchedPaths DEF Clear
  <1>8. ArePuts(fields)
    BY <1>4, <1>7 DEF ArePuts
  <1>9. Apart(fields[3][1], BesideSeverity)
    BY <1>2, <1>4 DEF Clear, Watched
  <1>10. /\ Len(fields) = 4 /\ ArePuts(fields)
         /\ \A n \in 1..4 : \A q \in {LogOriginal, Category, Scratch} : Apart(fields[n][1], q)
         /\ fields[2][1] = BesideSeverity /\ fields[2][2] = m[2].severity
         /\ fields[4][1] = BesideText /\ fields[4][2] = m[2].body
         /\ Apart(fields[3][1], BesideSeverity)
    BY <1>4, <1>6, <1>8, <1>9
  <1> QED
    BY <1>10 DEF fields

LEMMA CiscoMessage ==
    ASSUME NEW i, NEW e, NEW n, n = 2 + HeaderOf(i), CiscoAt(i, e, n)
    PROVE  CiscoFares(i, n, Dissect(e, Cisco!MessageFields(Get(e, MessagePath))))
  <1> DEFINE m == Get(e, MessagePath)
             fields == Cisco!MessageFields(m)
             f == PutAll(e, fields)
  <1>0. n \in Nat /\ n <= 6 + HeaderOf(i) /\ n > 1
    BY HeaderIs
  <1>1. /\ IsEvent(e) /\ ~Has(e, Category) /\ Held(e, LogOriginal, MessageOf(i))
        /\ m = (IF FileInput(i) THEN TextOf(i) ELSE MessageOf(i))
        /\ FileInput(i) => MessageOf(i)[1] = "line"
        /\ ~Has(e, Scratch)
    BY HeaderIs DEF CiscoAt, CiscoText, CiscoClean, Held
  <1>2. CiscoFares(i, n, Throw(e))
    BY <1>0, CiscoThrowHere
  <1> HIDE DEF m
  <1>3. CASE m[1] # "ios"
    BY <1>3, <1>2, DissectGoes DEF Cisco!MessageFields, m
  <1>4. CASE m[1] = "ios"
    <2>1. m = TextOf(i)
      BY <1>1, <1>4 DEF TextOf
    <2>2. /\ Len(fields) = 4 /\ ArePuts(fields)
          /\ \A k \in 1..4 : \A q \in {LogOriginal, Category, Scratch} : Apart(fields[k][1], q)
          /\ fields[2][1] = BesideSeverity /\ fields[2][2] = m[2].severity
          /\ fields[4][1] = BesideText /\ fields[4][2] = m[2].body
          /\ Apart(fields[3][1], BesideSeverity)
      BY <1>4, MessageParts
    <2> HIDE DEF fields
    <2>3. IsEvent(f) /\ Same(e, f, LogOriginal) /\ Same(e, f, Category) /\ Same(e, f, Scratch)
      BY <1>1, <2>2, WatchedPaths, PutAllKeeps
    <2>4. Has(f, BesideText) /\ Get(f, BesideText) = m[2].body
      <3>1. /\ 4 \in 1..Len(fields)
            /\ \A k \in (4 + 1)..Len(fields) : Apart(fields[k][1], fields[4][1])
        BY <2>2
      <3>0. ArePuts(fields)
        BY <2>2
      <3>2. /\ Has(PutAll(e, fields), fields[4][1])
            /\ Get(PutAll(e, fields), fields[4][1]) = fields[4][2]
        BY <3>0, <3>1, PutAllLands, Zenon
      <3> QED
        BY <2>2, <3>2
    <2>5. Has(f, BesideSeverity) /\ Get(f, BesideSeverity) = m[2].severity
      <3>0. Apart(BesideText, BesideSeverity)
        BY WatchedApart DEF Watched, BesideText, BesideSeverity
      <3>1. /\ 2 \in 1..Len(fields)
            /\ \A k \in (2 + 1)..Len(fields) : Apart(fields[k][1], fields[2][1])
        BY <2>2, <3>0
      <3>2. /\ Has(PutAll(e, fields), fields[2][1])
            /\ Get(PutAll(e, fields), fields[2][1]) = fields[2][2]
        BY <2>2, <3>1, PutAllLands
      <3> QED
        BY <2>2, <3>2
    <2> HIDE DEF f
    <2>6. CiscoText(i, f, n + 1)
      BY <1>0, <1>1, <2>1, <2>3, <2>4, <2>5, HeaderIs DEF CiscoText, Same, Held
    <2>7. CiscoClean(i, f, n + 1)
      BY <1>0, <1>1, <2>3, HeaderIs DEF CiscoClean, Same
    <2>8. CiscoAt(i, f, n + 1)
      BY <1>0, <1>1, <2>3, <2>6, <2>7 DEF CiscoAt, Same
    <2>9. CiscoFares(i, n, Ok(f))
      BY <2>8, CiscoOk
    <2> QED
      BY <1>2, <2>9, DissectGoes DEF f, fields, m
  <1> QED
    BY <1>3, <1>4

(* replaceFields *)
LEMMA Replacing ==
    ASSUME NEW e, IsEvent(e), NEW from \in Paths, NEW to \in Paths, Apart(from, to), Has(e, from)
    PROVE  LET f == Replaced(e, from, to)
           IN  /\ IsEvent(f) /\ Confined({from, to}, e, f)
               /\ Has(f, to) /\ Get(f, to) = Get(e, from) /\ ~Has(f, from)
  <1> DEFINE d == Delete(e, to)
             f == Move(d, from, to)
  <1>0. from \in Names /\ to \in Names /\ Apart(to, from)
    BY ApartSymmetric DEF Paths
  <1>1. IsEvent(d) /\ Confined({to}, e, d)
    BY <1>0, DeleteIsEvent, DeleteConfined
  <1>2. Has(d, from) /\ Get(d, from) = Get(e, from)
    BY <1>0, <1>1 DEF Confined
  <1>3. ~Has(d, to)
    BY <1>0, PrefixAt, DeleteAt DEF Names
  <1>4. Replaced(e, from, to) = f
    BY <1>2, <1>3 DEF Replaced, Rename
  <1> HIDE DEF d
  <1>5. IsEvent(f) /\ Confined({from, to}, d, f)
    BY <1>1, MoveAt
  <1>6. Confined({from, to}, e, f)
    BY <1>1, ConfinedMore, <1>5, ConfinedTransitive
  <1>7. Has(f, to) /\ Get(f, to) = Get(e, from)
    BY <1>0, ApartNotPrefix, <1>1, <1>2, MoveHere
  <1>8. ~Has(f, from)
    <2>1. IsPrefix(from, from)
      BY <1>0, PrefixAt DEF Names
    <2> QED
      BY <1>0, <1>1, <2>1, MoveAt
  <1> HIDE DEF f
  <1> QED
    BY <1>4, <1>5, <1>6, <1>7, <1>8

LEMMA CiscoReplace ==
    ASSUME NEW i, NEW e, NEW n, n = 3 + HeaderOf(i), CiscoAt(i, e, n)
    PROVE  CiscoFares(i, n, Ok(Replaced(Replaced(e, BesideText, MessagePath),
                                        BesideSeverity, Severity)))
  <1> DEFINE f == Replaced(e, BesideText, MessagePath)
             g == Replaced(f, BesideSeverity, Severity)
  <1>1. /\ IsEvent(e) /\ ~Has(e, Category) /\ Held(e, LogOriginal, MessageOf(i))
        /\ FileInput(i) => MessageOf(i)[1] = "line"
        /\ ~Has(e, Scratch)
        /\ Held(e, BesideText, TextOf(i)[2].body)
        /\ Held(e, BesideSeverity, TextOf(i)[2].severity)
    BY HeaderIs DEF CiscoAt, CiscoText, CiscoClean
  <1>2. \A p, q \in Watched : p # q => Apart(p, q)
    BY WatchedApart
  <1>3. /\ LogOriginal \in Watched /\ Category \in Watched /\ Severity \in Watched
        /\ MessagePath \in Watched /\ Scratch \in Watched /\ BesideText \in Watched
        /\ BesideSeverity \in Watched
    BY DEF Watched
  <1>4. \A p \in {BesideText, MessagePath, BesideSeverity, Severity} :
            p # LogOriginal /\ p # Category /\ p # Scratch
    BY DEF LogOriginal, Category, Severity, MessagePath, Scratch, BesideText, BesideSeverity
  <1>5. /\ BesideText # MessagePath /\ BesideText # BesideSeverity /\ BesideText # Severity
        /\ MessagePath # BesideSeverity /\ MessagePath # Severity /\ BesideSeverity # Severity
    BY DEF Severity, MessagePath, BesideText, BesideSeverity
  <1>6. Apart(BesideText, MessagePath) /\ Apart(BesideSeverity, Severity)
    BY <1>2, <1>3, <1>5
  <1>7. /\ IsEvent(f) /\ Confined({BesideText, MessagePath}, e, f)
        /\ Has(f, MessagePath) /\ Get(f, MessagePath) = TextOf(i)[2].body /\ ~Has(f, BesideText)
    BY <1>1, <1>6, WatchedPaths, Replacing DEF Held
  <1>8. ASSUME NEW q \in Watched, q \notin {BesideText, MessagePath}
        PROVE  Same(e, f, q)
    BY <1>2, <1>3, <1>8, <1>7, WatchedPaths DEF Confined, Same
  <1> HIDE DEF f
  <1>9. Held(f, BesideSeverity, TextOf(i)[2].severity)
    BY <1>1, <1>3, <1>5, <1>8 DEF Held, Same
  <1>10. /\ IsEvent(g) /\ Confined({BesideSeverity, Severity}, f, g)
         /\ Has(g, Severity) /\ Get(g, Severity) = TextOf(i)[2].severity
         /\ ~Has(g, BesideSeverity)
    BY <1>6, <1>7, <1>9, WatchedPaths, Replacing DEF Held
  <1>11. ASSUME NEW q \in Watched, q \notin {BesideSeverity, Severity}
         PROVE  Same(f, g, q)
    BY <1>2, <1>3, <1>11, <1>10, WatchedPaths DEF Confined, Same
  <1> HIDE DEF g
  <1>12. /\ Held(g, LogOriginal, MessageOf(i)) /\ ~Has(g, Category) /\ ~Has(g, Scratch)
    BY <1>1, <1>3, <1>4, <1>8, <1>11 DEF Held, Same
  <1>13. Held(g, MessagePath, TextOf(i)[2].body) /\ ~Has(g, BesideText)
    BY <1>3, <1>5, <1>7, <1>11 DEF Held, Same
  <1>14. CiscoText(i, g, n + 1)
    BY <1>1, <1>10, <1>12, <1>13, HeaderIs DEF CiscoText, Held
  <1>15. CiscoClean(i, g, n + 1)
    BY <1>10, <1>12, <1>13 DEF CiscoClean
  <1>16. CiscoAt(i, g, n + 1)
    BY <1>10, <1>12, <1>14, <1>15, HeaderIs DEF CiscoAt
  <1> QED
    BY <1>16, CiscoOk DEF f, g

(* convertSeverity *)
LEMMA LongConverted ==
    ASSUME NEW v
    PROVE  Converted(v, "long") = Long(v[2])
  BY Zenon DEF Converted

(* A field that is converted, with nothing else written where it is read or  *)
(* written.                                                                  *)
LEMMA CopiesAlone ==
    ASSUME NEW e, NEW s, IsEvent(s), NEW fields, AreFields(fields),
           NEW x \in 1..Len(fields), Usable(e, fields[x]), Has(s, fields[x][1]),
           fields[x][3] \in {"long", "ip"},
           \A n \in 1..Len(fields) :
               n # x => Apart(fields[n][2], fields[x][1]) /\ Apart(fields[n][2], fields[x][2])
    PROVE  /\ Has(From(e, s, fields, "copy"), fields[x][2])
           /\ Get(From(e, s, fields, "copy"), fields[x][2])
                  = Converted(s[fields[x][1]], fields[x][3])
  <1>1. Len(fields) \in Nat
    BY DEF AreFields
  <1>2. \A n \in 1..(x - 1) : Spared(fields[n], "copy", fields[x][1]) \/ ~Usable(e, fields[n])
    BY <1>1 DEF Spared, Touched
  <1>3. \A n \in (x + 1)..Len(fields) :
            Spared(fields[n], "copy", fields[x][2]) \/ ~Usable(e, fields[n])
    BY <1>1 DEF Spared, Touched
  <1> DEFINE f == fields[x]
             h == From(e, s, fields, "copy")
  <1>4. f[1] \in Paths /\ f[2] \in Paths
    BY DEF AreFields
  <1>5. PICK g : IsEvent(g) /\ Same(s, g, f[1]) /\ Same(ConvertOne(g, f, "copy"), h, f[2])
    BY <1>2, <1>3, <1>4, FromTurn
  <1>6. g[f[1]] = s[f[1]]
    BY <1>5 DEF Same, Get
  <1>7. f[3] \in {"long", "ip"}
    OBVIOUS
  <1>8. /\ Has(ConvertOne(g, f, "copy"), f[2])
        /\ Get(ConvertOne(g, f, "copy"), f[2]) = Converted(g[f[1]], f[3])
    <2> HIDE DEF f
    <2>1. f[3] # ""
      BY <1>7
    <2> QED
      BY <1>4, <1>5, <2>1, ConvertOneConverts
  <1> QED
    BY <1>5, <1>6, <1>8 DEF Same

LEMMA CiscoSeverity ==
    ASSUME NEW i, NEW e, NEW n, n = 4 + HeaderOf(i), CiscoAt(i, e, n)
    PROVE  CiscoFares(i, n, Convert(e, <<Cisco!InPlace(Severity)>>, "copy", FALSE, TRUE))
  <1> DEFINE g == Typed(Severity, Severity, "long")
             f == From(e, e, <<g>>, "copy")
             r == Convert(e, <<g>>, "copy", FALSE, TRUE)
  <1>1. /\ IsEvent(e) /\ ~Has(e, Category) /\ Held(e, LogOriginal, MessageOf(i))
        /\ FileInput(i) => MessageOf(i)[1] = "line"
        /\ ~Has(e, Scratch) /\ ~Has(e, BesideText) /\ ~Has(e, BesideSeverity)
        /\ Held(e, MessagePath, TextOf(i)[2].body)
        /\ Held(e, Severity, TextOf(i)[2].severity)
    BY HeaderIs DEF CiscoAt, CiscoText, CiscoClean
  <1>2. Cisco!InPlace(Severity) = g
    BY CiscoSame DEF Cisco!InPlace
  <1>3. g[1] = Severity /\ g[2] = Severity /\ g[3] = "long" /\ Severity \in Paths
    BY WatchedPaths DEF Typed
  <1> HIDE DEF g
  <1>4. Len(<<g>>) = 1 /\ DOMAIN <<g>> = 1..1 /\ <<g>>[1] = g
    OBVIOUS
  <1>5. AreFields(<<g>>)
    BY <1>3, <1>4 DEF AreFields
  <1>6. IsEvent(f)
    BY <1>1, <1>5, FromIsEvent
  <1>7. ASSUME NEW q \in Watched, q # Severity
        PROVE  Same(e, f, q)
    <2>1. Apart(Severity, q)
      BY <1>7, WatchedApart DEF Watched
    <2>2. \A k \in 1..Len(<<g>>) : Spared(<<g>>[k], "copy", q) \/ ~Usable(e, <<g>>[k])
      BY <1>3, <1>4, <2>1 DEF Spared, Touched
    <2> QED
      BY <1>1, <1>5, <2>2, WatchedPaths, FromSpares
  <1>8. r = Throw(e) \/ (r = Ok(f) /\ Usable(e, g))
    <2>1. CASE Bad(e, g)
      BY <1>4, <2>1 DEF Convert
    <2>2. CASE ~Bad(e, g)
      BY <1>1, <1>3, <2>2, ConvertGoes DEF Missing, Held, Usable
    <2> QED
      BY <2>1, <2>2
  <1>9. CiscoFares(i, n, Throw(e))
    BY HeaderIs, CiscoThrowHere
  <1>10. ASSUME Usable(e, g)
         PROVE  CiscoFares(i, n, Ok(f))
    <2>1. Has(f, Severity) /\ Get(f, Severity) = Long(TextOf(i)[2].severity[2])
      <3> DEFINE fields == <<g>>
      <3>1. /\ Len(fields) = 1 /\ fields[1] = g /\ AreFields(fields)
        BY <1>4, <1>5
      <3> HIDE DEF fields
      <3>2. 1 \in 1..Len(fields) /\ Usable(e, fields[1]) /\ fields[1][3] \in {"long", "ip"}
        BY <1>3, <1>10, <3>1
      <3>3. \A k \in 1..Len(fields) :
                k # 1 => Apart(fields[k][2], fields[1][1]) /\ Apart(fields[k][2], fields[1][2])
        BY <3>1
      <3>7. Has(e, fields[1][1])
        BY <1>1, <1>3, <3>1 DEF Held
      <3>5. /\ Has(From(e, e, fields, "copy"), fields[1][2])
            /\ Get(From(e, e, fields, "copy"), fields[1][2]) = Converted(e[fields[1][1]], fields[1][3])
        BY <1>1, <3>1, <3>2, <3>3, <3>7, CopiesAlone
      <3>6. Has(f, Severity) /\ Get(f, Severity) = Converted(e[Severity], "long")
        BY <1>3, <3>1, <3>5 DEF fields
      <3>4. e[Severity] = TextOf(i)[2].severity
        BY <1>1 DEF Held, Get
      <3> QED
        BY <3>4, <3>6, LongConverted
    <2> HIDE DEF f
    <2>2. /\ Same(e, f, LogOriginal) /\ Same(e, f, Category) /\ Same(e, f, Scratch)
          /\ Same(e, f, BesideText) /\ Same(e, f, BesideSeverity) /\ Same(e, f, MessagePath)
      <3>1. /\ LogOriginal # Severity /\ Category # Severity /\ Scratch # Severity
            /\ BesideText # Severity /\ BesideSeverity # Severity /\ MessagePath # Severity
        BY DEF LogOriginal, Category, Severity, MessagePath, Scratch, BesideText, BesideSeverity
      <3> QED
        BY <1>7, <3>1 DEF Watched
    <2>3. CiscoText(i, f, n + 1)
      BY <1>1, <2>1, <2>2, HeaderIs DEF CiscoText, Held, Same
    <2>4. CiscoClean(i, f, n + 1)
      BY <1>1, <2>2 DEF CiscoClean, Same
    <2>5. CiscoAt(i, f, n + 1)
      BY <1>1, <1>6, <2>2, <2>3, <2>4, HeaderIs DEF CiscoAt, Same
    <2> QED
      BY <2>5, CiscoOk
  <1> HIDE DEF r
  <1>11. CiscoFares(i, n, r)
    BY <1>8, <1>9, <1>10
  <1> QED
    BY <1>2, <1>11 DEF r

(* setLogLevel *)
LEMMA CiscoLevel ==
    ASSUME NEW i, NEW n, n = 5 + HeaderOf(i), CiscoAt(i, evt, n), NEW severity
    PROVE  CiscoFares(i, n, Ok(Levelled(severity)))
  <1>1. IsEvent(evt)
    BY DEF CiscoAt
  <1>2. Clear(<<"log", "level">>)
    BY StringsAssumption, ClearPair
  <1>3. \A v : IsEvent(Put(evt, <<"log", "level">>, v))
               /\ \A q \in Watched : Same(evt, Put(evt, <<"log", "level">>, v), q)
    BY <1>1, <1>2, PutClear
  <1>4. \A q \in Watched : Same(evt, evt, q)
    BY DEF Same
  <1>5. IsEvent(Levelled(severity)) /\ \A q \in Watched : Same(evt, Levelled(severity), q)
    BY <1>1, <1>3, <1>4 DEF Levelled
  <1>6. CiscoAt(i, Levelled(severity), n + 1)
    BY <1>5, HeaderIs, CiscoBeside
  <1> QED
    BY <1>6, CiscoOk

(* The fields of the messages of access lists.                               *)
AclPath == <<"cisco", "ios", "access_list">>
AclPairs ==
    {<<"event", "outcome">>, <<"network", "transport">>, <<"network", "iana_number">>,
     <<"source", "address">>, <<"source", "port">>, <<"source", "packets">>,
     <<"destination", "address">>, <<"destination", "port">>,
     <<"icmp", "type">>, <<"icmp", "code">>, <<"igmp", "type">>}
AclPaths == {AclPath} \union AclPairs
TrafficPaths ==
    {<<"source", "ip">>, <<"source", "address">>, <<"source", "port">>, <<"source", "packets">>,
     <<"destination", "ip">>, <<"destination", "address">>, <<"destination", "port">>,
     <<"network", "packets">>, <<"icmp", "type">>, <<"icmp", "code">>, <<"igmp", "type">>}
Injective(P) == \A m, n \in 1..Len(P) : m # n => P[m] # P[n]
Mentions(P, p) == \E n \in 1..Len(P) : P[n] = p
AclPattern(P) ==
    /\ Len(P) \in Nat /\ DOMAIN P = 1..Len(P)
    /\ \A n \in 1..Len(P) : P[n] \in AclPaths
    /\ Injective(P)
    /\ Mentions(P, <<"source", "address">>) /\ Mentions(P, <<"destination", "address">>)
    /\ Mentions(P, <<"source", "packets">>)

LEMMA SomePairs ==
    /\ \A p \in AclPairs \union TrafficPaths :
          \E a, b \in STRING : /\ p = <<a, b>> /\ a # "log"
                               /\ a \in {"event", "network", "source", "destination", "icmp",
                                         "igmp"}
                               /\ a = "event" => b = "outcome"
  <1>1. ASSUME NEW p \in AclPairs
        PROVE  \E a, b \in STRING : /\ p = <<a, b>> /\ a # "log"
                                    /\ a \in {"event", "network", "source", "destination", "icmp",
                                              "igmp"}
                                    /\ a = "event" => b = "outcome"
    BY <1>1, StringsAssumption DEF AclPairs
  <1>2. ASSUME NEW p \in TrafficPaths
        PROVE  \E a, b \in STRING : /\ p = <<a, b>> /\ a # "log"
                                    /\ a \in {"event", "network", "source", "destination", "icmp",
                                              "igmp"}
                                    /\ a = "event" => b = "outcome"
    BY <1>2, StringsAssumption DEF TrafficPaths
  <1> QED
    BY <1>1, <1>2

LEMMA PairsClear ==
    ASSUME NEW p \in AclPairs \union TrafficPaths
    PROVE  Clear(p) /\ p[1] # "cisco"
  <1>1. PICK a \in STRING, b \in STRING :
            /\ p = <<a, b>> /\ a # "log"
            /\ a \in {"event", "network", "source", "destination", "icmp", "igmp"}
            /\ a = "event" => b = "outcome"
    BY SomePairs
  <1>2. a \notin {"message", "_tmp", "_message", "_event_severity"} /\ a # "cisco"
    BY <1>1
  <1>3. a = "event" => b \notin {"category", "severity"}
    BY <1>1
  <1>4. Clear(<<a, b>>)
    BY <1>1, <1>2, <1>3, ClearPair
  <1> QED
    BY <1>1, <1>2, <1>4

LEMMA AclClear ==
    ASSUME NEW p \in AclPaths
    PROVE  Clear(p) /\ p \in Paths
  <1>1. Clear(AclPath)
    <2>1. AclPath \in Paths /\ AclPath[1] = "cisco"
      BY StringsAssumption DEF AclPath, Paths, Names
    <2> QED
      BY <2>1, ClearFirst
  <1> QED
    BY <1>1, PairsClear DEF AclPaths, Clear

LEMMA AclApart ==
    ASSUME NEW p \in AclPaths \union TrafficPaths, NEW q \in AclPaths \union TrafficPaths, p # q
    PROVE  Apart(p, q)
  <1> DEFINE Two == AclPairs \union TrafficPaths
  <1>1. AclPath[1] = "cisco"
    BY DEF AclPath
  <1>2. p \in Paths /\ q \in Paths
    BY AclClear, PairsClear DEF Clear
  <1>3. CASE p \in Two /\ q \in Two
    <2>1. PICK a \in STRING, b \in STRING : p = <<a, b>>
      BY <1>3, SomePairs
    <2>2. PICK c \in STRING, d \in STRING : q = <<c, d>>
      BY <1>3, SomePairs
    <2>3. a # c \/ b # d
      BY <2>1, <2>2
    <2>4. Apart(<<a, b>>, <<c, d>>)
      BY <2>3, PairsApart
    <2> QED
      BY <2>1, <2>2, <2>4
  <1>4. CASE p = AclPath /\ q \in Two
    BY <1>1, <1>2, <1>4, PairsClear, FirstApart
  <1>5. CASE q = AclPath /\ p \in Two
    BY <1>1, <1>2, <1>5, PairsClear, FirstApart
  <1> QED
    BY <1>3, <1>4, <1>5 DEF AclPaths

(* The patterns: a head that names the list, and what it let through.        *)
AclRest == AclPaths \ {AclPath, <<"event", "outcome">>, <<"network", "transport">>,
                       <<"network", "iana_number">>}
LEMMA ConcatAt ==
    ASSUME NEW S, NEW a \in Seq(S), NEW b \in Seq(S)
    PROVE  /\ a \o b \in Seq(S) /\ Len(a \o b) = Len(a) + Len(b)
           /\ \A n \in 1..Len(a) : (a \o b)[n] = a[n]
           /\ \A n \in 1..Len(b) : (a \o b)[Len(a) + n] = b[n]
  OBVIOUS

LEMMA PatternOf ==
    ASSUME NEW by \in {<<"network", "transport">>, <<"network", "iana_number">>},
           NEW t \in Seq(AclRest), Injective(t),
           Mentions(t, <<"source", "address">>), Mentions(t, <<"destination", "address">>),
           Mentions(t, <<"source", "packets">>)
    PROVE  AclPattern(Cisco!AclHead(by) \o t)
  <1> DEFINE h == Cisco!AclHead(by)
             P == h \o t
  <1>1. h = <<AclPath, <<"event", "outcome">>, by>>
    BY DEF Cisco!AclHead, AclPath
  <1>2. AclPath # <<"event", "outcome">> /\ AclPath # by /\ <<"event", "outcome">> # by
    BY  DEF AclPath
  <1>3. AclPath \in AclPaths /\ <<"event", "outcome">> \in AclPaths /\ by \in AclPaths
    BY DEF AclPaths, AclPairs
  <1>4. by \notin AclRest /\ AclPath \notin AclRest /\ <<"event", "outcome">> \notin AclRest
    BY DEF AclRest
  <1> DEFINE outcome == <<"event", "outcome">>
             L == Len(t)
  <1>5. L \in Nat /\ \A n \in 1..L : t[n] \in AclRest
    OBVIOUS
  <1>6. h \in Seq(AclPaths) /\ Len(h) = 3 /\ h[1] = AclPath /\ h[2] = outcome /\ h[3] = by
    <2> HIDE DEF outcome, h
    <2>1. h = <<AclPath, outcome, by>>
      BY <1>1 DEF outcome
    <2>2. AclPath \in AclPaths /\ outcome \in AclPaths /\ by \in AclPaths
      BY <1>3 DEF outcome
    <2> QED
      BY <2>1, <2>2
  <1>7. t \in Seq(AclPaths)
    BY DEF AclRest
  <1> HIDE DEF h, outcome
  <1>8. /\ P \in Seq(AclPaths) /\ Len(P) = 3 + L
        /\ \A n \in 1..(3 + L) : P[n] = IF n <= 3 THEN h[n] ELSE t[n - 3]
    <2>1. /\ P \in Seq(AclPaths) /\ Len(P) = 3 + L
          /\ \A n \in 1..3 : P[n] = h[n]
          /\ \A n \in 1..L : P[3 + n] = t[n]
      <3>1. /\ P \in Seq(AclPaths) /\ Len(P) = Len(h) + Len(t)
            /\ \A n \in 1..Len(h) : P[n] = h[n]
            /\ \A n \in 1..Len(t) : P[Len(h) + n] = t[n]
        <4>1. h \in Seq(AclPaths)
          BY <1>6
        <4> QED
          BY <4>1, <1>7, ConcatAt
      <3>2. Len(h) = 3
        BY <1>6
      <3> HIDE DEF P
      <3> QED
        BY <3>1, <3>2
    <2> HIDE DEF P
    <2>2. ASSUME NEW n \in 4..(3 + L)
          PROVE  P[n] = t[n - 3]
      BY <1>5, <2>1
    <2>3. ASSUME NEW n \in 1..(3 + L)
          PROVE  P[n] = IF n <= 3 THEN h[n] ELSE t[n - 3]
      BY <1>5, <2>1, <2>2
    <2> QED
      BY <2>1, <2>3
  <1> HIDE DEF P
  <1>9. P[1] = AclPath /\ P[2] = outcome /\ P[3] = by
    BY <1>5, <1>6, <1>8
  <1>10. \A n \in 1..L : P[n + 3] = t[n] /\ n + 3 \in 1..Len(P)
    BY <1>5, <1>8
  <1>11. \A n \in 4..Len(P) : P[n] = t[n - 3] /\ n - 3 \in 1..L
    BY <1>5, <1>8
  <1>12. Injective(P)
    <2>1. ASSUME NEW m \in 1..Len(P), NEW n \in 1..Len(P), m # n
          PROVE  P[m] # P[n]
      <3>1. CASE m <= 3 /\ n <= 3
        <4>1. m \in {1, 2, 3} /\ n \in {1, 2, 3}
          BY <1>5, <1>8, <3>1
        <4> QED
          BY <1>2, <1>9, <2>1, <4>1 DEF outcome
      <3>2. CASE m <= 3 /\ n > 3
        <4>1. m \in {1, 2, 3} /\ n \in 4..Len(P)
          BY <1>5, <1>8, <3>2
        <4>2. P[n] \in AclRest
          BY <1>5, <1>11, <4>1
        <4> QED
          BY <1>4, <1>9, <4>1, <4>2 DEF outcome
      <3>3. CASE m > 3 /\ n <= 3
        <4>1. n \in {1, 2, 3} /\ m \in 4..Len(P)
          BY <1>5, <1>8, <3>3
        <4>2. P[m] \in AclRest
          BY <1>5, <1>11, <4>1
        <4> QED
          BY <1>4, <1>9, <4>1, <4>2 DEF outcome
      <3>4. CASE m > 3 /\ n > 3
        BY <1>5, <1>8, <2>1, <3>4, <1>11 DEF Injective
      <3>5. (m <= 3 \/ m > 3) /\ (n <= 3 \/ n > 3)
        BY <1>5, <1>8
      <3> QED
        BY <3>1, <3>2, <3>3, <3>4, <3>5
    <2> QED
      BY <2>1 DEF Injective
  <1>13. ASSUME NEW p, Mentions(t, p)
         PROVE  Mentions(P, p)
    BY <1>10, <1>13 DEF Mentions
  <1>14. /\ Mentions(P, <<"source", "address">>) /\ Mentions(P, <<"destination", "address">>)
         /\ Mentions(P, <<"source", "packets">>)
    BY <1>13
  <1>15. Len(P) \in Nat /\ DOMAIN P = 1..Len(P) /\ \A n \in 1..Len(P) : P[n] \in AclPaths
    BY <1>8
  <1>16. AclPattern(P)
    BY <1>12, <1>14, <1>15 DEF AclPattern
  <1> QED
    BY <1>16 DEF P, h

LEMMA RestPairs ==
    /\ <<"source", "address">> \in AclRest /\ <<"source", "port">> \in AclRest
    /\ <<"source", "packets">> \in AclRest /\ <<"destination", "address">> \in AclRest
    /\ <<"destination", "port">> \in AclRest /\ <<"icmp", "type">> \in AclRest
    /\ <<"icmp", "code">> \in AclRest /\ <<"igmp", "type">> \in AclRest
  BY  DEF AclRest, AclPaths, AclPath, AclPairs

LEMMA ThreeApart ==
    ASSUME NEW S, NEW a \in S, NEW b \in S, NEW c \in S, a # b, a # c, b # c
    PROVE  /\ <<a, b, c>> \in Seq(S) /\ Injective(<<a, b, c>>)
           /\ Mentions(<<a, b, c>>, a) /\ Mentions(<<a, b, c>>, b) /\ Mentions(<<a, b, c>>, c)
  <1> DEFINE t == <<a, b, c>>
  <1>1. t \in Seq(S) /\ Len(t) = 3 /\ t[1] = a /\ t[2] = b /\ t[3] = c
    OBVIOUS
  <1> HIDE DEF t
  <1>2. Injective(t) /\ Mentions(t, a) /\ Mentions(t, b) /\ Mentions(t, c)
    BY <1>1 DEF Injective, Mentions
  <1> QED
    BY <1>1, <1>2 DEF t

LEMMA FourApart ==
    ASSUME NEW S, NEW a \in S, NEW b \in S, NEW c \in S, NEW d \in S,
           a # b, a # c, a # d, b # c, b # d, c # d
    PROVE  /\ <<a, b, c, d>> \in Seq(S) /\ Injective(<<a, b, c, d>>)
           /\ Mentions(<<a, b, c, d>>, a) /\ Mentions(<<a, b, c, d>>, b)
           /\ Mentions(<<a, b, c, d>>, d)
  <1> DEFINE t == <<a, b, c, d>>
  <1>1. t \in Seq(S) /\ Len(t) = 4 /\ t[1] = a /\ t[2] = b /\ t[3] = c /\ t[4] = d
    OBVIOUS
  <1> HIDE DEF t
  <1>2. Injective(t) /\ Mentions(t, a) /\ Mentions(t, b) /\ Mentions(t, d)
    BY <1>1 DEF Injective, Mentions
  <1> QED
    BY <1>1, <1>2 DEF t

LEMMA FiveApart ==
    ASSUME NEW S, NEW a \in S, NEW b \in S, NEW c \in S, NEW d \in S, NEW f \in S,
           a # b, a # c, a # d, a # f, b # c, b # d, b # f, c # d, c # f, d # f
    PROVE  /\ <<a, b, c, d, f>> \in Seq(S) /\ Injective(<<a, b, c, d, f>>)
           /\ \A p \in {a, b, c, d, f} : Mentions(<<a, b, c, d, f>>, p)
  <1> DEFINE t == <<a, b, c, d, f>>
  <1>1. t \in Seq(S) /\ Len(t) = 5 /\ t[1] = a /\ t[2] = b /\ t[3] = c /\ t[4] = d /\ t[5] = f
    OBVIOUS
  <1> HIDE DEF t
  <1>2. Injective(t)
    BY <1>1 DEF Injective
  <1>3. \A p \in {a, b, c, d, f} : Mentions(t, p)
    BY <1>1 DEF Mentions
  <1> QED
    BY <1>1, <1>2, <1>3 DEF t

LEMMA PatternsAre ==
    ASSUME NEW code \in DOMAIN Cisco!accessListMessagePatterns
    PROVE  AclPattern(Cisco!accessListMessagePatterns[code])
  <1> DEFINE src == <<"source", "address">>
             dst == <<"destination", "address">>
             packets == <<"source", "packets">>
             sport == <<"source", "port">>
             dport == <<"destination", "port">>
             itype == <<"icmp", "type">>
             icode == <<"icmp", "code">>
             gtype == <<"igmp", "type">>
             by == <<"network", "transport">>
             nr == <<"network", "iana_number">>
             plain == <<src, dst, packets>>
             ports == <<src, sport, dst, dport, packets>>
             icmp == <<src, dst, itype, icode, packets>>
             igmp == <<src, dst, gtype, packets>>
             P == Cisco!accessListMessagePatterns
  <1>1. /\ src \in AclRest /\ dst \in AclRest /\ packets \in AclRest /\ sport \in AclRest
        /\ dport \in AclRest /\ itype \in AclRest /\ icode \in AclRest /\ gtype \in AclRest
    BY RestPairs
  <1>2. /\ src # dst /\ src # packets /\ src # sport /\ src # dport /\ src # itype
        /\ src # icode /\ src # gtype /\ dst # packets /\ dst # sport /\ dst # dport
        /\ dst # itype /\ dst # icode /\ dst # gtype /\ packets # sport /\ packets # dport
        /\ packets # itype /\ packets # icode /\ packets # gtype /\ sport # dport
        /\ itype # icode
    OBVIOUS
  <1>3. by \in {<<"network", "transport">>, <<"network", "iana_number">>}
        /\ nr \in {<<"network", "transport">>, <<"network", "iana_number">>}
    OBVIOUS
  <1> DEFINE A == Cisco!AclHead(by) \o ports
             B == Cisco!AclHead(by) \o icmp
             C == Cisco!AclHead(by) \o plain
             D == Cisco!AclHead(by) \o igmp
             E == Cisco!AclHead(nr) \o plain
  <1>12. P = [IPACCESSLOGP |-> A, IPACCESSLOGDP |-> B, IPACCESSLOGRP |-> C, IPACCESSLOGSP |-> D,
              IPACCESSLOGNP |-> E, ACCESSLOGP |-> A, ACCESSLOGSP |-> D, ACCESSLOGDP |-> B,
              ACCESSLOGNP |-> E]
    BY DEF Cisco!accessListMessagePatterns, Cisco!From, Cisco!To, Cisco!Packets, Cisco!Transport
  <1>4. \A c \in DOMAIN P : P[c] \in {A, B, C, D, E}
    <2> HIDE DEF A, B, C, D, E, P
    <2> QED
      BY <1>12
  <1> HIDE DEF P, src, dst, packets, sport, dport, itype, icode, gtype, by, nr
  <1>5. /\ plain \in Seq(AclRest) /\ Injective(plain)
        /\ Mentions(plain, src) /\ Mentions(plain, dst) /\ Mentions(plain, packets)
    BY <1>1, <1>2, ThreeApart
  <1>6. /\ ports \in Seq(AclRest) /\ Injective(ports)
        /\ Mentions(ports, src) /\ Mentions(ports, dst) /\ Mentions(ports, packets)
    BY <1>1, <1>2, FiveApart
  <1>7. /\ icmp \in Seq(AclRest) /\ Injective(icmp)
        /\ Mentions(icmp, src) /\ Mentions(icmp, dst) /\ Mentions(icmp, packets)
    BY <1>1, <1>2, FiveApart
  <1>8. /\ igmp \in Seq(AclRest) /\ Injective(igmp)
        /\ Mentions(igmp, src) /\ Mentions(igmp, dst) /\ Mentions(igmp, packets)
    BY <1>1, <1>2, FourApart
  <1> HIDE DEF plain, ports, icmp, igmp
  <1>9. \A t \in {plain, ports, icmp, igmp} :
            t \in Seq(AclRest) /\ Injective(t)
            /\ Mentions(t, src) /\ Mentions(t, dst) /\ Mentions(t, packets)
    BY <1>5, <1>6, <1>7, <1>8
  <1>10. ASSUME NEW t \in {plain, ports, icmp, igmp}, NEW x \in {by, nr}
         PROVE  AclPattern(Cisco!AclHead(x) \o t)
    BY <1>3, <1>9, PatternOf DEF src, dst, packets
  <1>11. \A c \in DOMAIN P : AclPattern(P[c])
    BY <1>4, <1>10
  <1> QED
    BY <1>11 DEF P

(* The fields of a body that has the form of the pattern.                    *)
LEMMA BodyParts ==
    ASSUME NEW P, AclPattern(P), NEW m
    PROVE  LET fields == Cisco!BodyFields(m, P)
           IN  \/ fields = << >>
               \/ /\ Len(fields) = Len(P) /\ ArePuts(fields)
                  /\ \A n \in 1..Len(P) : fields[n][1] = P[n]
  <1> DEFINE fields == Cisco!BodyFields(m, P)
             L == Len(P)
             F == [x \in 1..L |-> <<P[x], m[2][x][2]>>]
  <1>1. L \in Nat /\ DOMAIN P = 1..L /\ \A n \in 1..L : P[n] \in Paths
    BY AclClear DEF AclPattern
  <1>2. fields = << >> \/ fields = F
    BY <1>1 DEF Cisco!BodyFields
  <1>3. F \in Seq({F[x] : x \in 1..L}) /\ Len(F) = L /\ DOMAIN F = 1..L
    BY <1>1
  <1>4. \A n \in 1..L : F[n][1] = P[n]
    OBVIOUS
  <1> HIDE DEF fields, F
  <1>5. ArePuts(F)
    BY <1>1, <1>3, <1>4 DEF ArePuts
  <1> QED
    BY <1>2, <1>3, <1>4, <1>5 DEF fields

LEMMA AclDissected ==
    ASSUME NEW e, IsEvent(e), NEW P, AclPattern(P), NEW m
    PROVE  LET d == Dissect(e, Cisco!BodyFields(m, P))
           IN  \/ d = Throw(e)
               \/ \E f : /\ d = Ok(f) /\ IsEvent(f)
                         /\ \A q \in Watched : Same(e, f, q)
                         /\ Has(f, <<"source", "address">>)
                         /\ Has(f, <<"destination", "address">>)
                         /\ Has(f, <<"source", "packets">>)
  <1> DEFINE fields == Cisco!BodyFields(m, P)
             f == PutAll(e, fields)
  <1>1. CASE fields = << >>
    BY <1>1, DissectGoes
  <1>2. CASE fields # << >>
    <2>1. /\ Len(fields) = Len(P) /\ ArePuts(fields)
          /\ \A n \in 1..Len(P) : fields[n][1] = P[n]
      BY <1>2, BodyParts
    <2>2. /\ Len(P) \in Nat /\ Injective(P)
          /\ \A n \in 1..Len(P) : P[n] \in AclPaths /\ Clear(P[n])
      BY AclClear DEF AclPattern
    <2> HIDE DEF fields
    <2>3. IsEvent(f)
      BY <2>1, PutAllKeeps
    <2>4. ASSUME NEW q \in Watched
          PROVE  Same(e, f, q)
      BY WatchedPaths, <2>1, <2>2, ApartSymmetric, PutAllKeeps DEF Clear
    <2>5. ASSUME NEW p, Mentions(P, p)
          PROVE  Has(f, p)
      <3>1. PICK x \in 1..Len(P) : P[x] = p
        BY <2>5 DEF Mentions
      <3>2. \A n \in (x + 1)..Len(fields) : Apart(fields[n][1], fields[x][1])
        <4>1. ASSUME NEW n \in (x + 1)..Len(fields)
              PROVE  Apart(fields[n][1], fields[x][1])
          BY <2>1, <2>2, AclApart DEF Injective
        <4> QED
          BY <4>1
      <3>3. Has(f, fields[x][1])
        BY <2>1, <3>2, PutAllLands
      <3> QED
        BY <2>1, <3>1, <3>3
    <2>6. /\ Has(f, <<"source", "address">>) /\ Has(f, <<"destination", "address">>)
          /\ Has(f, <<"source", "packets">>)
      BY <2>5 DEF AclPattern
    <2>7. Dissect(e, fields) = Throw(e) \/ Dissect(e, fields) = Ok(f)
      BY DissectGoes
    <2> HIDE DEF f
    <2>8. \/ Dissect(e, fields) = Throw(e)
          \/ \E g : /\ Dissect(e, fields) = Ok(g) /\ IsEvent(g)
                    /\ \A q \in Watched : Same(e, g, q)
                    /\ Has(g, <<"source", "address">>)
                    /\ Has(g, <<"destination", "address">>)
                    /\ Has(g, <<"source", "packets">>)
      BY <2>3, <2>4, <2>6, <2>7
    <2> QED
      BY <2>8 DEF fields
  <1> QED
    BY <1>1, <1>2

(* coerceNumbers: the fields it converts, up to the packets of the source    *)
(* and from those of the network, that are made of them.                     *)
InPlaceLong(p) == Typed(p, p, "long")
CoercedA ==
    <<Typed(<<"destination", "address">>, <<"destination", "ip">>, "ip"),
      InPlaceLong(<<"destination", "port">>),
      Typed(<<"source", "address">>, <<"source", "ip">>, "ip"),
      InPlaceLong(<<"source", "port">>), InPlaceLong(<<"source", "packets">>)>>
CoercedB ==
    <<Typed(<<"source", "packets">>, <<"network", "packets">>, "long"),
      InPlaceLong(<<"icmp", "type">>), InPlaceLong(<<"icmp", "code">>), InPlaceLong(<<"igmp", "type">>)>>
Coercions == CoercedA \o CoercedB

LEMMA CoercionsAre ==
    /\ Len(Coercions) = 9 /\ DOMAIN Coercions = 1..9
    /\ Coercions[1] = Typed(<<"destination", "address">>, <<"destination", "ip">>, "ip")
    /\ Coercions[2] = InPlaceLong(<<"destination", "port">>)
    /\ Coercions[3] = Typed(<<"source", "address">>, <<"source", "ip">>, "ip")
    /\ Coercions[4] = InPlaceLong(<<"source", "port">>)
    /\ Coercions[5] = InPlaceLong(<<"source", "packets">>)
    /\ Coercions[6] = Typed(<<"source", "packets">>, <<"network", "packets">>, "long")
    /\ Coercions[7] = InPlaceLong(<<"icmp", "type">>) /\ Coercions[8] = InPlaceLong(<<"icmp", "code">>)
    /\ Coercions[9] = InPlaceLong(<<"igmp", "type">>)
  <1> DEFINE a1 == Typed(<<"destination", "address">>, <<"destination", "ip">>, "ip")
             a2 == InPlaceLong(<<"destination", "port">>)
             a3 == Typed(<<"source", "address">>, <<"source", "ip">>, "ip")
             a4 == InPlaceLong(<<"source", "port">>)
             a5 == InPlaceLong(<<"source", "packets">>)
             b1 == Typed(<<"source", "packets">>, <<"network", "packets">>, "long")
             b2 == InPlaceLong(<<"icmp", "type">>)
             b3 == InPlaceLong(<<"icmp", "code">>)
             b4 == InPlaceLong(<<"igmp", "type">>)
             S == {a1, a2, a3, a4, a5, b1, b2, b3, b4}
  <1>1. CoercedA = <<a1, a2, a3, a4, a5>> /\ CoercedB = <<b1, b2, b3, b4>>
    BY DEF CoercedA, CoercedB
  <1> HIDE DEF a1, a2, a3, a4, a5, b1, b2, b3, b4
  <1>2. /\ CoercedA \in Seq(S) /\ Len(CoercedA) = 5
        /\ CoercedA[1] = a1 /\ CoercedA[2] = a2 /\ CoercedA[3] = a3 /\ CoercedA[4] = a4
        /\ CoercedA[5] = a5
    BY <1>1
  <1>3. /\ CoercedB \in Seq(S) /\ Len(CoercedB) = 4
        /\ CoercedB[1] = b1 /\ CoercedB[2] = b2 /\ CoercedB[3] = b3 /\ CoercedB[4] = b4
    BY <1>1
  <1>4. /\ Coercions \in Seq(S) /\ Len(Coercions) = Len(CoercedA) + Len(CoercedB)
        /\ \A n \in 1..Len(CoercedA) : Coercions[n] = CoercedA[n]
        /\ \A n \in 1..Len(CoercedB) : Coercions[Len(CoercedA) + n] = CoercedB[n]
    <2> HIDE DEF S
    <2>1. CoercedA \in Seq(S) /\ CoercedB \in Seq(S)
      BY <1>2, <1>3
    <2> QED
      BY <2>1, ConcatAt DEF Coercions
  <1>5. /\ Coercions[1] = a1 /\ Coercions[2] = a2 /\ Coercions[3] = a3 /\ Coercions[4] = a4
        /\ Coercions[5] = a5
    BY <1>2, <1>4
  <1>6. /\ Coercions[5 + 1] = b1 /\ Coercions[5 + 2] = b2 /\ Coercions[5 + 3] = b3
        /\ Coercions[5 + 4] = b4
    BY <1>2, <1>3, <1>4
  <1>7. Len(Coercions) = 9 /\ DOMAIN Coercions = 1..9
    BY <1>2, <1>3, <1>4
  <1> QED
    BY <1>5, <1>6, <1>7 DEF a1, a2, a3, a4, a5, b1, b2, b3, b4

LEMMA CoerceNumbersIs ==
    ASSUME NEW e
    PROVE  Cisco!coerceNumbers(e) = Convert(e, Coercions, "copy", TRUE, TRUE)
  <1> DEFINE a1 == Typed(<<"destination", "address">>, <<"destination", "ip">>, "ip")
             a2 == InPlaceLong(<<"destination", "port">>)
             a3 == Typed(<<"source", "address">>, <<"source", "ip">>, "ip")
             a4 == InPlaceLong(<<"source", "port">>)
             a5 == InPlaceLong(<<"source", "packets">>)
             b1 == Typed(<<"source", "packets">>, <<"network", "packets">>, "long")
             b2 == InPlaceLong(<<"icmp", "type">>)
             b3 == InPlaceLong(<<"icmp", "code">>)
             b4 == InPlaceLong(<<"igmp", "type">>)
             S == {a1, a2, a3, a4, a5, b1, b2, b3, b4}
             list == <<a1, a2, a3, a4, a5, b1, b2, b3, b4>>
  <1>1. Cisco!coerceNumbers(e) = Convert(e, list, "copy", TRUE, TRUE)
    BY CiscoSame DEF Cisco!coerceNumbers, Cisco!InPlace, InPlaceLong
  <1>2. /\ Len(Coercions) = 9 /\ DOMAIN Coercions = 1..9
        /\ Coercions[1] = a1 /\ Coercions[2] = a2 /\ Coercions[3] = a3 /\ Coercions[4] = a4
        /\ Coercions[5] = a5 /\ Coercions[6] = b1 /\ Coercions[7] = b2 /\ Coercions[8] = b3
        /\ Coercions[9] = b4
    BY CoercionsAre
  <1> HIDE DEF a1, a2, a3, a4, a5, b1, b2, b3, b4
  <1>3. /\ Len(list) = 9 /\ DOMAIN list = 1..9
        /\ list[1] = a1 /\ list[2] = a2 /\ list[3] = a3 /\ list[4] = a4
        /\ list[5] = a5 /\ list[6] = b1 /\ list[7] = b2 /\ list[8] = b3
        /\ list[9] = b4
    OBVIOUS
  <1>4. list \in Seq(S)
    OBVIOUS
  <1>5. Coercions \in Seq(S)
    <2>1. CoercedA = <<a1, a2, a3, a4, a5>> /\ CoercedB = <<b1, b2, b3, b4>>
      BY DEF CoercedA, CoercedB, a1, a2, a3, a4, a5, b1, b2, b3, b4
    <2>2. CoercedA \in Seq(S) /\ CoercedB \in Seq(S)
      BY <2>1
    <2> HIDE DEF S
    <2> QED
      BY <2>2, ConcatAt DEF Coercions
  <1> HIDE DEF list, S
  <1>6. \A n \in 1..9 : list[n] = Coercions[n]
    <2>1. ASSUME NEW n \in 1..9
          PROVE  n \in {1, 2, 3, 4, 5, 6, 7, 8, 9}
      OBVIOUS
    <2> QED
      BY <1>2, <1>3, <2>1
  <1>7. list = Coercions
    BY <1>2, <1>3, <1>4, <1>5, <1>6, SeqEqual
  <1> QED
    BY <1>1, <1>7

LEMMA CoercionEnds ==
    /\ Coercions[1][1] = <<"destination", "address">> /\ Coercions[1][2] = <<"destination", "ip">>
    /\ Coercions[2][1] = <<"destination", "port">> /\ Coercions[2][2] = <<"destination", "port">>
    /\ Coercions[3][1] = <<"source", "address">> /\ Coercions[3][2] = <<"source", "ip">>
    /\ Coercions[4][1] = <<"source", "port">> /\ Coercions[4][2] = <<"source", "port">>
    /\ Coercions[5][1] = <<"source", "packets">> /\ Coercions[5][2] = <<"source", "packets">>
    /\ Coercions[6][1] = <<"source", "packets">> /\ Coercions[6][2] = <<"network", "packets">>
    /\ Coercions[7][1] = <<"icmp", "type">> /\ Coercions[7][2] = <<"icmp", "type">>
    /\ Coercions[8][1] = <<"icmp", "code">> /\ Coercions[8][2] = <<"icmp", "code">>
    /\ Coercions[9][1] = <<"igmp", "type">> /\ Coercions[9][2] = <<"igmp", "type">>
    /\ Coercions[1][3] = "ip" /\ Coercions[3][3] = "ip"
    /\ \A k \in {2, 4, 5, 6, 7, 8, 9} : Coercions[k][3] = "long"
  BY CoercionsAre DEF InPlaceLong, Typed

LEMMA CoercionsTyped ==
    /\ AreFields(Coercions)
    /\ \A k \in 1..9 : Coercions[k][3] \in {"long", "ip"}
    /\ \A k \in 1..9 : Coercions[k][1] \in TrafficPaths /\ Coercions[k][2] \in TrafficPaths
  <1>1. \A k \in 1..9 : k \in {1, 2, 3, 4, 5, 6, 7, 8, 9}
    OBVIOUS
  <1>2. \A k \in 1..9 : Coercions[k][3] \in {"long", "ip"}
    BY <1>1, CoercionEnds
  <1>3. \A k \in 1..9 : Coercions[k][1] \in TrafficPaths
    BY <1>1, CoercionEnds DEF TrafficPaths
  <1>4. \A k \in 1..9 : Coercions[k][2] \in TrafficPaths
    BY <1>1, CoercionEnds DEF TrafficPaths
  <1>5. AreFields(Coercions)
    BY <1>3, <1>4, CoercionsAre, PairsClear DEF AreFields, Clear
  <1> QED
    BY <1>2, <1>3, <1>4, <1>5

(* Nothing is converted into a place twice, and only the packets are read    *)
(* where a conversion wrote.                                                 *)
LEMMA CoercionsApart ==
    ASSUME NEW k \in 1..9, NEW n \in 1..9, n # k
    PROVE  /\ Apart(Coercions[n][2], Coercions[k][2])
           /\ k # 6 => Apart(Coercions[n][2], Coercions[k][1])
  <1> DEFINE C == Coercions
  <1>1. k \in {1, 2, 3, 4, 5, 6, 7, 8, 9} /\ n \in {1, 2, 3, 4, 5, 6, 7, 8, 9}
    OBVIOUS
  <1>2. C[n][2] # C[k][2]
    BY <1>1, CoercionEnds
  <1>3. k # 6 => C[n][2] # C[k][1]
    BY <1>1, CoercionEnds
  <1>4. C[n][2] \in TrafficPaths /\ C[k][2] \in TrafficPaths /\ C[k][1] \in TrafficPaths
    BY CoercionsTyped
  <1> HIDE DEF C
  <1>5. Apart(C[n][2], C[k][2])
    BY <1>2, <1>4, AclApart
  <1>6. k # 6 => Apart(C[n][2], C[k][1])
    BY <1>3, <1>4, AclApart
  <1> QED
    BY <1>5, <1>6 DEF C

LEMMA CoercedClear ==
    ASSUME NEW e, IsEvent(e)
    PROVE  /\ IsEvent(From(e, e, Coercions, "copy"))
           /\ \A q \in Watched : Same(e, From(e, e, Coercions, "copy"), q)
  <1>1. IsEvent(From(e, e, Coercions, "copy"))
    BY CoercionsTyped, FromIsEvent
  <1>2. ASSUME NEW q \in Watched
        PROVE  Same(e, From(e, e, Coercions, "copy"), q)
    BY CoercionsTyped, PairsClear, ApartSymmetric, CoercionsAre, WatchedPaths, FromSpares DEF
       Clear, Spared, Touched
  <1> QED
    BY <1>1, <1>2

LEMMA CoercedAlone ==
    ASSUME NEW e, IsEvent(e), NEW fields, AreFields(fields)
    PROVE  \A x \in 1..Len(fields) :
             /\ Usable(e, fields[x]) /\ Has(e, fields[x][1]) /\ fields[x][3] \in {"long", "ip"}
             /\ \A n \in 1..Len(fields) :
                   n # x => Apart(fields[n][2], fields[x][1]) /\ Apart(fields[n][2], fields[x][2])
             => /\ Has(From(e, e, fields, "copy"), fields[x][2])
                /\ Get(From(e, e, fields, "copy"), fields[x][2])
                       = Converted(e[fields[x][1]], fields[x][3])
  <1> TAKE x \in 1..Len(fields)
  <1>1. HAVE /\ Usable(e, fields[x]) /\ Has(e, fields[x][1]) /\ fields[x][3] \in {"long", "ip"}
             /\ \A n \in 1..Len(fields) :
                   n # x => Apart(fields[n][2], fields[x][1]) /\ Apart(fields[n][2], fields[x][2])
  <1> QED
    BY <1>1, CopiesAlone

(* A field that coerceNumbers converts has its number or address after it.   *)
LEMMA CoercedOne ==
    ASSUME NEW e, IsEvent(e), NEW k \in 1..9, k # 6, Usable(e, Coercions[k]),
           Has(e, Coercions[k][1])
    PROVE  LET f == From(e, e, Coercions, "copy")
           IN  /\ Has(f, Coercions[k][2])
               /\ Get(f, Coercions[k][2]) = Converted(e[Coercions[k][1]], Coercions[k][3])
  <1> DEFINE C == Coercions
  <1>1. \A n \in 1..Len(C) : n # k => Apart(C[n][2], C[k][1]) /\ Apart(C[n][2], C[k][2])
    BY CoercionsApart, CoercionsAre, Zenon
  <1>2. k \in 1..Len(C) /\ C[k][3] \in {"long", "ip"} /\ AreFields(C)
    BY CoercionsTyped, CoercionsAre
  <1>3. Usable(e, C[k]) /\ Has(e, C[k][1])
    OBVIOUS
  <1> HIDE DEF C
  <1>4. /\ Has(From(e, e, C, "copy"), C[k][2])
        /\ Get(From(e, e, C, "copy"), C[k][2]) = Converted(e[C[k][1]], C[k][3])
    BY <1>1, <1>2, <1>3, CoercedAlone, Zenon
  <1> QED
    BY <1>4 DEF C

LEMMA CoercedNone ==
    ASSUME NEW e, IsEvent(e), NEW k \in 1..9, Coercions[k][1] = Coercions[k][2],
           ~Has(e, Coercions[k][2])
    PROVE  ~Has(From(e, e, Coercions, "copy"), Coercions[k][2])
  <1> DEFINE q == Coercions[k][2]
  <1>1. ~Usable(e, Coercions[k])
    BY DEF Usable, Missing
  <1>2. \A n \in 1..Len(Coercions) : Spared(Coercions[n], "copy", q) \/ ~Usable(e, Coercions[n])
    BY <1>1, CoercionsApart, CoercionsAre, Zenon DEF Spared, Touched
  <1>3. q \in Paths /\ AreFields(Coercions)
    BY CoercionsTyped, PairsClear DEF Clear
  <1> HIDE DEF q
  <1>4. Same(e, From(e, e, Coercions, "copy"), q)
    BY <1>2, <1>3, FromSpares
  <1> QED
    BY <1>4 DEF q, Same

LEMMA CoercedHalves ==
    /\ Len(CoercedA) = 5 /\ DOMAIN CoercedA = 1..5 /\ \A n \in 1..5 : CoercedA[n] = Coercions[n]
    /\ Len(CoercedB) = 4 /\ DOMAIN CoercedB = 1..4
    /\ \A n \in 1..4 : CoercedB[n] = Coercions[5 + n]
    /\ AreFields(CoercedA) /\ AreFields(CoercedB)
    /\ \E S : CoercedA \in Seq(S) /\ CoercedB \in Seq(S)
  <1>1. \E S : /\ CoercedA \in Seq(S) /\ CoercedB \in Seq(S)
               /\ Len(CoercedA) = 5 /\ Len(CoercedB) = 4
    <2> DEFINE a1 == Typed(<<"destination", "address">>, <<"destination", "ip">>, "ip")
               a2 == InPlaceLong(<<"destination", "port">>)
               a3 == Typed(<<"source", "address">>, <<"source", "ip">>, "ip")
               a4 == InPlaceLong(<<"source", "port">>)
               a5 == InPlaceLong(<<"source", "packets">>)
               b1 == Typed(<<"source", "packets">>, <<"network", "packets">>, "long")
               b2 == InPlaceLong(<<"icmp", "type">>)
               b3 == InPlaceLong(<<"icmp", "code">>)
               b4 == InPlaceLong(<<"igmp", "type">>)
    <2>1. CoercedA = <<a1, a2, a3, a4, a5>> /\ CoercedB = <<b1, b2, b3, b4>>
      BY DEF CoercedA, CoercedB
    <2> HIDE DEF a1, a2, a3, a4, a5, b1, b2, b3, b4
    <2> DEFINE S == {a1, a2, a3, a4, a5, b1, b2, b3, b4}
    <2>2. /\ CoercedA \in Seq(S) /\ CoercedB \in Seq(S)
          /\ Len(CoercedA) = 5 /\ Len(CoercedB) = 4
      BY <2>1
    <2> HIDE DEF S
    <2> QED
      BY <2>2
  <1>2. PICK S : /\ CoercedA \in Seq(S) /\ CoercedB \in Seq(S)
                 /\ Len(CoercedA) = 5 /\ Len(CoercedB) = 4
    BY <1>1
  <1>3. /\ \A n \in 1..Len(CoercedA) : Coercions[n] = CoercedA[n]
        /\ \A n \in 1..Len(CoercedB) : Coercions[Len(CoercedA) + n] = CoercedB[n]
    <2>1. CoercedA \in Seq(S) /\ CoercedB \in Seq(S)
      BY <1>2
    <2> QED
      BY <2>1, ConcatAt DEF Coercions
  <1>4. DOMAIN CoercedA = 1..5 /\ DOMAIN CoercedB = 1..4
    BY <1>2
  <1>5. \A n \in 1..4 : 5 + n \in 1..9
    OBVIOUS
  <1>6. /\ \A n \in 1..5 : CoercedA[n] = Coercions[n]
        /\ \A n \in 1..4 : CoercedB[n] = Coercions[5 + n]
    BY <1>2, <1>3
  <1>7. \A k \in 1..9 : Coercions[k][1] \in Paths /\ Coercions[k][2] \in Paths
    BY CoercionsTyped, CoercionsAre DEF AreFields
  <1>8. AreFields(CoercedA) /\ AreFields(CoercedB)
    BY <1>2, <1>4, <1>5, <1>6, <1>7 DEF AreFields
  <1> QED
    BY <1>2, <1>4, <1>6, <1>8

(* The packets of the source and of the network are the same number.         *)
LEMMA CoercedPackets ==
    ASSUME NEW e, IsEvent(e), Has(e, <<"source", "packets">>),
           Usable(e, Coercions[5]), Usable(e, Coercions[6])
    PROVE  LET f == From(e, e, Coercions, "copy")
           IN  /\ Get(f, <<"source", "packets">>) = Long(e[<<"source", "packets">>][2])
               /\ Get(f, <<"network", "packets">>) = Long(e[<<"source", "packets">>][2])
  <1> DEFINE packets == <<"source", "packets">>
             total == <<"network", "packets">>
             A == CoercedA
             B == CoercedB
             C == Coercions
             h == From(e, e, A, "copy")
             f == From(e, e, C, "copy")
  <1>1. /\ C[5][1] = packets /\ C[5][2] = packets /\ C[5][3] = "long"
        /\ C[6][1] = packets /\ C[6][2] = total /\ C[6][3] = "long"
    BY CoercionEnds
  <1>2. Get(f, packets) = Long(e[packets][2])
    <2>1. Get(f, C[5][2]) = Converted(e[C[5][1]], C[5][3])
      BY <1>1, CoercedOne
    <2> QED
      BY <1>1, <2>1, LongConverted
  <1>3. f = From(e, h, B, "copy")
    BY CoercedHalves, FromConcat DEF Coercions
  <1>4. /\ Len(A) = 5 /\ AreFields(A) /\ \A n \in 1..5 : A[n] = C[n]
        /\ Len(B) = 4 /\ AreFields(B) /\ \A n \in 1..4 : B[n] = C[5 + n]
    BY CoercedHalves
  <1>5. \A k, n \in 1..9 : n # k => /\ Apart(C[n][2], C[k][2])
                                    /\ k # 6 => Apart(C[n][2], C[k][1])
    BY CoercionsApart, Zenon
  <1>6. Usable(e, C[5]) /\ Usable(e, C[6]) /\ Has(e, packets)
    OBVIOUS
  <1>13. AreFields(A)
    BY <1>4
  <1>14. AreFields(B)
    BY <1>4
  <1> HIDE DEF A, B, C, packets, total
  <1>7. IsEvent(h) /\ Has(h, packets) /\ Get(h, packets) = Long(e[packets][2])
    <2>1. IsEvent(h)
      BY <1>4, FromIsEvent
    <2>2. A[5] = C[5] /\ 5 \in 1..Len(A)
      BY <1>4
    <2>3. A[5][1] = packets /\ A[5][2] = packets /\ A[5][3] \in {"long", "ip"}
      BY <1>1, <2>2
    <2>4. \A n \in 1..Len(A) : n # 5 => Apart(A[n][2], A[5][1]) /\ Apart(A[n][2], A[5][2])
      <3>1. ASSUME NEW n \in 1..Len(A), n # 5
            PROVE  Apart(A[n][2], A[5][1]) /\ Apart(A[n][2], A[5][2])
        <4>1. n \in 1..9 /\ 5 \in 1..9 /\ A[n] = C[n] /\ 5 # 6
          BY <1>4
        <4>2. Apart(C[n][2], C[5][2]) /\ Apart(C[n][2], C[5][1])
          BY <1>5, <3>1, <4>1, Zenon
        <4> QED
          BY <2>2, <4>1, <4>2
      <3> QED
        BY <3>1
    <2>5. ASSUME NEW x \in 1..Len(A), Usable(e, A[x]), Has(e, A[x][1]), A[x][3] \in {"long", "ip"},
                 \A n \in 1..Len(A) : n # x => Apart(A[n][2], A[x][1]) /\ Apart(A[n][2], A[x][2])
          PROVE  /\ Has(h, A[x][2])
                 /\ Get(h, A[x][2]) = Converted(e[A[x][1]], A[x][3])
      BY <1>13, <2>5, CopiesAlone
    <2>6. Has(h, A[5][2]) /\ Get(h, A[5][2]) = Converted(e[A[5][1]], A[5][3])
      BY <1>6, <2>2, <2>3, <2>4, <2>5
    <2>7. A[5][3] = "long"
      BY <1>1, <2>2
    <2> QED
      BY <2>1, <2>3, <2>6, <2>7, LongConverted
  <1> HIDE DEF h
  <1>8. Get(From(e, h, B, "copy"), total) = Long(h[packets][2])
    <2>2. B[1] = C[6] /\ 1 \in 1..Len(B)
      BY <1>4
    <2>3. B[1][1] = packets /\ B[1][2] = total /\ B[1][3] \in {"long", "ip"}
      BY <1>1, <2>2
    <2>4. \A n \in 1..Len(B) : n # 1 => Apart(B[n][2], B[1][1]) /\ Apart(B[n][2], B[1][2])
      <3>1. ASSUME NEW n \in 1..Len(B), n # 1
            PROVE  Apart(B[n][2], B[1][1]) /\ Apart(B[n][2], B[1][2])
        <4>1. 5 + n \in 1..9 /\ 5 + n # 6 /\ B[n] = C[5 + n] /\ 5 + n # 5 /\ 5 \in 1..9 /\ 6 \in 1..9
              /\ 5 # 6
          BY <1>4, <3>1
        <4>2. Apart(C[5 + n][2], C[6][2]) /\ Apart(C[5 + n][2], C[5][1])
          BY <1>5, <4>1, Zenon
        <4> QED
          BY <1>1, <2>2, <4>1, <4>2
      <3> QED
        BY <3>1
    <2>5. ASSUME NEW x \in 1..Len(B), Usable(e, B[x]), Has(h, B[x][1]), B[x][3] \in {"long", "ip"},
                 \A n \in 1..Len(B) : n # x => Apart(B[n][2], B[x][1]) /\ Apart(B[n][2], B[x][2])
          PROVE  /\ Has(From(e, h, B, "copy"), B[x][2])
                 /\ Get(From(e, h, B, "copy"), B[x][2]) = Converted(h[B[x][1]], B[x][3])
      BY <1>7, <1>14, <2>5, CopiesAlone
    <2>6. /\ Has(From(e, h, B, "copy"), B[1][2])
          /\ Get(From(e, h, B, "copy"), B[1][2]) = Converted(h[B[1][1]], B[1][3])
      BY <1>6, <1>7, <2>2, <2>3, <2>4, <2>5
    <2>7. B[1][3] = "long"
      BY <1>1, <2>2
    <2> QED
      BY <2>3, <2>6, <2>7, LongConverted
  <1>9. h[packets] = Long(e[packets][2])
    BY <1>7 DEF Get
  <1>10. \A t : Long(t)[2] = t
    BY DEF Long
  <1>11. Get(f, total) = Long(e[packets][2])
    BY <1>3, <1>8, <1>9, <1>10
  <1> HIDE DEF f
  <1>12. /\ Get(f, packets) = Long(e[packets][2]) /\ Get(f, total) = Long(e[packets][2])
    BY <1>2, <1>11
  <1> QED
    BY <1>12 DEF f, C, packets, total

LEMMA IPStays ==
    ASSUME NEW v
    PROVE  Converted(v, "ip") = v
  <1>1. "ip" # "long" /\ "ip" # "string"
    OBVIOUS
  <1> QED
    BY <1>1, Zenon DEF Converted

(* What goes through coerceNumbers has the addresses and the numbers.        *)
LEMMA Coerced ==
    ASSUME NEW e, IsEvent(e), Has(e, <<"source", "address">>),
           Has(e, <<"destination", "address">>), Has(e, <<"source", "packets">>)
    PROVE  LET c == Cisco!coerceNumbers(e)
           IN  \/ c = Throw(e)
               \/ \E f : /\ c = Ok(f) /\ IsEvent(f) /\ TrafficConverted(f)
                         /\ \A q \in Watched : Same(e, f, q)
  <1> DEFINE C == Coercions
             f == From(e, e, C, "copy")
             c == Convert(e, C, "copy", TRUE, TRUE)
  <1>1. CASE \E k \in 1..9 : Bad(e, C[k])
    BY <1>1, CoercionsAre, CoerceNumbersIs DEF Convert
  <1>2. CASE ~\E k \in 1..9 : Bad(e, C[k])
    <2>1. c = Ok(f)
      BY <1>2, CoercionsAre, ConvertGoes
    <2>2. IsEvent(f) /\ \A q \in Watched : Same(e, f, q)
      BY CoercedClear
    <2>3. \A k \in 1..9 : Has(e, C[k][1]) => Usable(e, C[k])
      BY <1>2 DEF Usable, Missing
    <2>4. \A k \in 1..9 : k # 6 /\ Has(e, C[k][1]) =>
              Has(f, C[k][2]) /\ Get(f, C[k][2]) = Converted(e[C[k][1]], C[k][3])
      BY <2>3, CoercedOne
    <2>5. \A k \in 1..9 : C[k][1] = C[k][2] /\ ~Has(e, C[k][2]) => ~Has(f, C[k][2])
      BY CoercedNone
    <2>6. Get(f, <<"network", "packets">>) = Get(f, <<"source", "packets">>)
      <3>1. Usable(e, C[5]) /\ Usable(e, C[6])
        BY CoercionEnds, <2>3
      <3> QED
        BY <3>1, CoercedPackets
    <2>7. ASSUME NEW k \in {1, 3}, NEW x \in {"source", "destination"},
                 C[k][1] = <<x, "address">>, C[k][2] = <<x, "ip">>
          PROVE  IsIP(Get(f, <<x, "ip">>)) /\ Get(f, <<x, "ip">>) = Get(f, <<x, "address">>)
      <3>1. k \in 1..9 /\ k # 6 /\ C[k][3] = "ip" /\ Has(e, C[k][1])
        BY <2>7, CoercionEnds
      <3>2. Get(f, <<x, "ip">>) = e[<<x, "address">>]
        BY <2>4, <2>7, <3>1, IPStays
      <3>3. IsIP(e[<<x, "address">>])
        BY <1>2, <3>1, <2>7, IPConvertible DEF Missing, Bad
      <3>4. Same(e, f, <<x, "address">>)
        <4>1. <<x, "address">> \in TrafficPaths
          BY <2>7 DEF TrafficPaths
        <4>2. \A n \in 1..9 : n \in {1, 2, 3, 4, 5, 6, 7, 8, 9}
          OBVIOUS
        <4>3. \A n \in 1..9 : C[n][2] # <<x, "address">>
          BY <4>2, <2>7, CoercionEnds
        <4>4. \A n \in 1..9 : Apart(C[n][2], <<x, "address">>)
          BY <4>1, <4>3, CoercionsTyped, AclApart
        <4>5. \A n \in 1..Len(C) : Spared(C[n], "copy", <<x, "address">>) \/ ~Usable(e, C[n])
          BY <4>4, CoercionsAre DEF Spared, Touched
        <4>6. AreFields(C) /\ <<x, "address">> \in Paths
          BY <4>1, CoercionsTyped, PairsClear DEF Clear
        <4> HIDE DEF C
        <4> QED
          BY <4>5, <4>6, FromSpares
      <3>5. Get(f, <<x, "address">>) = e[<<x, "address">>]
        BY <2>7, <3>1, <3>4 DEF Same, Get
      <3> QED
        BY <3>2, <3>3, <3>5
    <2>8. ASSUME NEW k \in {2, 4, 5, 7, 8, 9}, Has(f, C[k][2])
          PROVE  Get(f, C[k][2])[1] = "long"
      <3>1. k \in 1..9 /\ k # 6 /\ C[k][1] = C[k][2] /\ C[k][3] = "long"
        <4>1. k \in 1..9 /\ k # 6
          BY <2>8
        <4>2. C[k][1] = C[k][2]
          BY <2>8, CoercionEnds
        <4>3. C[k][3] = "long"
          BY <2>8, CoercionEnds
        <4> QED
          BY <4>1, <4>2, <4>3
      <3>2. Has(e, C[k][1])
        BY <2>5, <2>8, <3>1
      <3>3. Get(f, C[k][2]) = Long(e[C[k][1]][2])
        BY <2>4, <3>1, <3>2, LongConverted
      <3> QED
        BY <3>3 DEF Long
    <2> HIDE DEF f
    <2>9. \A x \in {"source", "destination"} :
              IsIP(Get(f, <<x, "ip">>)) /\ Get(f, <<x, "ip">>) = Get(f, <<x, "address">>)
      BY <2>7, CoercionEnds
    <2>10. \A p \in {<<"source", "port">>, <<"source", "packets">>, <<"destination", "port">>,
                     <<"icmp", "type">>, <<"icmp", "code">>, <<"igmp", "type">>} :
               Has(f, p) => Get(f, p)[1] = "long"
      BY <2>8, CoercionEnds, Zenon
    <2>11. TrafficConverted(f)
      BY <2>6, <2>9, <2>10 DEF TrafficConverted
    <2> HIDE DEF c
    <2>12. c = Throw(e) \/ \E g : /\ c = Ok(g) /\ IsEvent(g) /\ TrafficConverted(g)
                                  /\ \A q \in Watched : Same(e, g, q)
      BY <2>1, <2>2, <2>11
    <2> QED
      BY <2>12, CoerceNumbersIs DEF c
  <1> QED
    BY <1>1, <1>2

(* What follows writes beside the traffic and the text.                      *)
Later(e, f) ==
    IsEvent(f) /\ \A q \in TrafficPaths \union (Watched \ {Category}) : Same(e, f, q)
LaterPlaces ==
    {<<"event", "outcome">>, <<"event", "category">>, <<"event", "type">>,
     <<"network", "type">>, <<"network", "community_id">>, <<"related", "ip">>}

LEMMA LaterApart ==
    ASSUME NEW p \in LaterPlaces
    PROVE  p \in Paths /\ \A q \in TrafficPaths \union (Watched \ {Category}) : Apart(p, q)
  <1>1. PICK a \in STRING, b \in STRING :
            /\ p = <<a, b>> /\ a \in {"event", "network", "related"}
            /\ a = "network" => b # "packets"
    BY StringsAssumption DEF LaterPlaces
  <1>2. ASSUME NEW q \in TrafficPaths
        PROVE  Apart(p, q)
    <2>1. \E c, d \in STRING : /\ q = <<c, d>> /\ c \notin {"event", "related"}
                               /\ c = "network" => d = "packets"
      BY StringsAssumption DEF TrafficPaths
    <2>2. PICK c \in STRING, d \in STRING : /\ q = <<c, d>> /\ c \notin {"event", "related"}
                                            /\ c = "network" => d = "packets"
      BY <2>1
    <2>3. a # c \/ b # d
      BY <1>1, <2>2
    <2>4. Apart(<<a, b>>, <<c, d>>)
      BY <2>3, PairsApart
    <2> QED
      BY <1>1, <2>2, <2>4
  <1>3. p = Category \/ Clear(p)
    <2>1. CASE p = Category
      BY <2>1
    <2>2. CASE p # Category
      BY <1>1, <2>2, ClearPair DEF LaterPlaces, Category
    <2> QED
      BY <2>1, <2>2
  <1>4. ASSUME NEW q \in Watched \ {Category}
        PROVE  Apart(p, q)
    <2>1. CASE p = Category
      BY <2>1, WatchedApart DEF Watched
    <2>2. CASE Clear(p)
      BY <2>2 DEF Clear
    <2> QED
      BY <1>3, <2>1, <2>2
  <1>5. p \in Paths
    BY <1>1, PairIsPath
  <1> QED
    BY <1>2, <1>4, <1>5

LEMMA LaterSame ==
    ASSUME NEW e, IsEvent(e)
    PROVE  Later(e, e)
  BY DEF Later, Same

LEMMA LaterTransitive ==
    ASSUME NEW e, NEW f, NEW g, Later(e, f), Later(f, g)
    PROVE  Later(e, g)
  BY DEF Later, Same

LEMMA LaterPut ==
    ASSUME NEW e, IsEvent(e), NEW p \in LaterPlaces, NEW v
    PROVE  Later(e, Put(e, p, v))
  <1>1. p \in Paths /\ \A q \in TrafficPaths \union (Watched \ {Category}) : Apart(p, q)
    BY LaterApart
  <1>2. IsEvent(Put(e, p, v)) /\ Confined({p}, e, Put(e, p, v))
    BY <1>1, PutAt
  <1>3. \A q \in TrafficPaths \union (Watched \ {Category}) : q \in Paths
    BY WatchedPaths, PairsClear DEF Clear
  <1> QED
    BY <1>1, <1>2, <1>3 DEF Later, Same, Confined

LEMMA LaterConverted ==
    ASSUME NEW e, NEW f, Later(e, f), TrafficConverted(e)
    PROVE  TrafficConverted(f)
  <1>1. \A q \in TrafficPaths : Same(e, f, q)
    BY DEF Later
  <1>2. \A x \in {"source", "destination"} :
            <<x, "ip">> \in TrafficPaths /\ <<x, "address">> \in TrafficPaths
    BY DEF TrafficPaths
  <1>3. <<"network", "packets">> \in TrafficPaths /\ <<"source", "packets">> \in TrafficPaths
    BY DEF TrafficPaths
  <1>4. \A p \in {<<"source", "port">>, <<"source", "packets">>, <<"destination", "port">>,
                  <<"icmp", "type">>, <<"icmp", "code">>, <<"igmp", "type">>} :
            p \in TrafficPaths
    BY DEF TrafficPaths
  <1>5. \A x \in {"source", "destination"} :
            IsIP(Get(f, <<x, "ip">>)) /\ Get(f, <<x, "ip">>) = Get(f, <<x, "address">>)
    BY <1>1, <1>2 DEF TrafficConverted, Same
  <1>6. Get(f, <<"network", "packets">>) = Get(f, <<"source", "packets">>)
    BY <1>1, <1>3 DEF TrafficConverted, Same
  <1>7. \A p \in {<<"source", "port">>, <<"source", "packets">>, <<"destination", "port">>,
                  <<"icmp", "type">>, <<"icmp", "code">>, <<"igmp", "type">>} :
            Has(f, p) => Get(f, p)[1] = "long"
    BY <1>1, <1>4 DEF TrafficConverted, Same
  <1> QED
    BY <1>5, <1>6, <1>7 DEF TrafficConverted

LEMMA OutcomeLater ==
    ASSUME NEW e, IsEvent(e)
    PROVE  Later(e, Cisco!normalizeEventOutcome(e))
  <1> DEFINE p == <<"event", "outcome">>
             f == Cisco!normalizeEventOutcome(e)
             denied == Get(e, p) = Str("denied")
             permitted == Get(e, p) = Str("permitted")
  <1>1. p \in LaterPlaces
    BY DEF LaterPlaces
  <1>2. \A v : Later(e, Put(e, p, v))
    BY <1>1, LaterPut
  <1>3. \E v : f \in {e, Put(e, p, v)}
    <2>1. f = CASE denied -> Put(e, p, Str("deny")) [] permitted -> Put(e, p, Str("allow"))
                [] OTHER -> e
      BY CiscoSame DEF Cisco!normalizeEventOutcome
    <2>2. ~(denied /\ permitted)
      BY  DEF Str
    <2> DEFINE a == Put(e, p, Str("deny"))
               b == Put(e, p, Str("allow"))
    <2> HIDE DEF denied, permitted, f
    <2>3. f = a \/ f = b \/ f = e
      <3> HIDE DEF a, b
      <3>1. CASE denied
        BY <2>1, <2>2, <3>1, Zenon DEF a, b
      <3>2. CASE permitted
        BY <2>1, <2>2, <3>2, Zenon DEF a, b
      <3>3. CASE ~denied /\ ~permitted
        BY <2>1, <3>3, Zenon DEF a, b
      <3> QED
        BY <3>1, <3>2, <3>3
    <2> QED
      BY <2>3
  <1> HIDE DEF f
  <1>4. Later(e, f)
    BY <1>2, <1>3, LaterSame
  <1> QED
    BY <1>4 DEF f

LEMMA NetworkLater ==
    ASSUME NEW e, IsEvent(e)
    PROVE  Later(e, Cisco!setNetworkType(e))
  BY LaterPut, CiscoSame, LaterSame DEF LaterPlaces, Cisco!setNetworkType

LEMMA AppendLater ==
    ASSUME NEW e, IsEvent(e), NEW p \in LaterPlaces, NEW v
    PROVE  Later(e, AppendTo(e, p, v))
  BY LaterSame, LaterPut DEF AppendTo

LEMMA RelatedLater ==
    ASSUME NEW e, IsEvent(e)
    PROVE  Later(e, Cisco!setRelatedIP(e))
  <1> DEFINE p == <<"related", "ip">>
             f == AppendTo(e, p, Get(e, <<"source", "ip">>))
             g == AppendTo(f, p, Get(f, <<"destination", "ip">>))
  <1>1. p \in LaterPlaces
    BY DEF LaterPlaces
  <1>2. Cisco!setRelatedIP(e) = g
    BY CiscoSame DEF Cisco!setRelatedIP
  <1>3. Later(e, f)
    BY <1>1, AppendLater
  <1>4. IsEvent(f)
    BY <1>3 DEF Later
  <1>5. Later(f, g)
    BY <1>1, <1>4, AppendLater
  <1> QED
    BY <1>2, <1>3, <1>5, LaterTransitive

LEMMA CategorizedLater ==
    ASSUME NEW e, IsEvent(e)
    PROVE  Later(e, Cisco!Categorized(e))
  <1> DEFINE fields == <<<<<<"event", "category">>, Str("network_traffic")>>,
                         <<<<"event", "type">>, Str("firewall")>>>>
             f == PutAll(e, fields)
  <1>1. Cisco!Categorized(e) = f
    BY CiscoSame DEF Cisco!Categorized
  <1>2. /\ Len(fields) = 2 /\ DOMAIN fields = 1..2
        /\ fields[1][1] = <<"event", "category">> /\ fields[2][1] = <<"event", "type">>
    OBVIOUS
  <1>3. <<"event", "category">> \in LaterPlaces /\ <<"event", "type">> \in LaterPlaces
    BY DEF LaterPlaces
  <1> HIDE DEF fields
  <1>4. \A n \in 1..Len(fields) : fields[n][1] \in LaterPlaces
    BY <1>2, <1>3
  <1>5. ArePuts(fields)
    BY <1>2, <1>4, LaterApart DEF ArePuts
  <1>6. IsEvent(f)
    BY <1>5, PutAllKeeps
  <1>7. ASSUME NEW q \in TrafficPaths \union (Watched \ {Category})
        PROVE  Same(e, f, q)
    BY WatchedPaths, PairsClear, <1>4, LaterApart, <1>5, PutAllKeeps DEF Clear
  <1>8. Later(e, f)
    BY <1>6, <1>7 DEF Later
  <1> QED
    BY <1>1, <1>8

LEMMA CommunityLater ==
    ASSUME NEW e, IsEvent(e), NEW transport
    PROVE  Later(e, CommunityID(e, transport))
  BY LaterPut, LaterSame DEF LaterPlaces, CommunityID

(* The last two steps may say what the event is: it has been converted.      *)
LEMMA CiscoEnds ==
    ASSUME NEW i, NEW e, NEW n, n \in {6 + HeaderOf(i), 7 + HeaderOf(i)}, CiscoAt(i, e, n),
           NEW f, IsEvent(f), \A q \in Watched \ {Category} : Same(e, f, q),
           Has(f, Category) => TrafficConverted(f)
    PROVE  CiscoAt(i, f, n + 1)
  <1>1. /\ Same(e, f, LogOriginal) /\ Same(e, f, Severity) /\ Same(e, f, MessagePath)
        /\ Same(e, f, Scratch) /\ Same(e, f, BesideText) /\ Same(e, f, BesideSeverity)
    BY DEF Watched, LogOriginal, Category, Severity, MessagePath, Scratch, BesideText,
           BesideSeverity
  <1>2. CiscoText(i, e, n) /\ CiscoClean(i, e, n) /\ HeaderOf(i) \in {0, 5}
        /\ (FileInput(i) <=> HeaderOf(i) = 5)
    BY HeaderIs DEF CiscoAt
  <1>3. /\ Held(e, LogOriginal, MessageOf(i))
        /\ FileInput(i) => MessageOf(i)[1] = "line"
        /\ Held(e, MessagePath, TextOf(i)[2].body)
        /\ Held(e, Severity, Long(TextOf(i)[2].severity[2]))
    BY <1>2 DEF CiscoText
  <1>4. ~Has(e, Scratch) /\ ~Has(e, BesideText) /\ ~Has(e, BesideSeverity)
    BY <1>2 DEF CiscoClean
  <1>5. /\ Held(f, LogOriginal, MessageOf(i))
        /\ Held(f, MessagePath, TextOf(i)[2].body)
        /\ Held(f, Severity, Long(TextOf(i)[2].severity[2]))
        /\ ~Has(f, Scratch) /\ ~Has(f, BesideText) /\ ~Has(f, BesideSeverity)
    BY <1>1, <1>3, <1>4 DEF Held, Same
  <1>6. CiscoText(i, f, n + 1)
    BY <1>2, <1>3, <1>5 DEF CiscoText
  <1>7. CiscoClean(i, f, n + 1)
    BY <1>5 DEF CiscoClean
  <1> QED
    BY <1>2, <1>6, <1>7 DEF CiscoAt

(* accessList *)
LEMMA CiscoAccessList ==
    ASSUME NEW i, NEW n, n = 6 + HeaderOf(i), CiscoAt(i, evt, n), NEW code
    PROVE  CiscoFares(i, n, AccessListed(code))
  <1>1. IsEvent(evt) /\ ~Has(evt, Category) /\ Held(evt, LogOriginal, MessageOf(i))
    BY HeaderIs DEF CiscoAt, CiscoText
  <1>2. CiscoFares(i, n, Throw(evt))
    BY HeaderIs, CiscoThrowHere
  <1>3. CiscoFares(i, n, Ok(evt))
    <2>1. CiscoAt(i, evt, n + 1)
      BY <1>1, CiscoEnds DEF Same
    <2> QED
      BY <2>1, CiscoOk
  <1>4. ASSUME NEW P, AclPattern(P)
        PROVE  CiscoFares(i, n, Cisco!AccessList(P))
    <2> DEFINE d == Dissect(evt, Cisco!BodyFields(Get(evt, <<"message">>), P))
               c == Cisco!coerceNumbers(d.evt)
               e1 == Cisco!normalizeEventOutcome(c.evt)
               e2 == Cisco!setNetworkType(e1)
               e3 == Cisco!setRelatedIP(e2)
               e4 == Cisco!Categorized(e3)
               r == Cisco!AccessList(P)
    <2>1. r = IF d.ok /\ c.ok THEN Ok(e4) ELSE IF d.ok THEN c ELSE d
      BY CiscoSame DEF Cisco!AccessList
    <2>2. \/ d = Throw(evt)
          \/ \E f : /\ d = Ok(f) /\ IsEvent(f)
                    /\ \A q \in Watched : Same(evt, f, q)
                    /\ Has(f, <<"source", "address">>)
                    /\ Has(f, <<"destination", "address">>)
                    /\ Has(f, <<"source", "packets">>)
      BY <1>1, <1>4, AclDissected
    <2> HIDE DEF d, r
    <2>3. ASSUME d = Throw(evt)
          PROVE  CiscoFares(i, n, r)
      BY <2>1, <2>3, Results, <1>2
    <2>4. ASSUME NEW f, d = Ok(f), IsEvent(f), \A q \in Watched : Same(evt, f, q),
                 Has(f, <<"source", "address">>), Has(f, <<"destination", "address">>),
                 Has(f, <<"source", "packets">>)
          PROVE  CiscoFares(i, n, r)
      <3>1. d.ok = TRUE /\ d.evt = f
        BY <2>4, Results
      <3>2. \/ c = Throw(f)
            \/ \E g : /\ c = Ok(g) /\ IsEvent(g) /\ TrafficConverted(g)
                      /\ \A q \in Watched : Same(f, g, q)
        BY <2>4, <3>1, Coerced
      <3> HIDE DEF c
      <3>3. ASSUME c = Throw(f)
            PROVE  CiscoFares(i, n, r)
        BY <2>1, <3>1, <3>3, Results, <2>4, <1>1, CiscoThrow DEF Watched, CiscoThrown, Same,
           Held
      <3>4. ASSUME NEW g, c = Ok(g), IsEvent(g), TrafficConverted(g),
                   \A q \in Watched : Same(f, g, q)
            PROVE  CiscoFares(i, n, r)
        <4>1. c.ok = TRUE /\ c.evt = g
          BY <3>4, Results
        <4>2. r = Ok(e4)
          BY <2>1, <3>1, <4>1
        <4>3. Later(g, e1)
          BY <3>4, <4>1, OutcomeLater
        <4>4. IsEvent(e1)
          BY <4>3 DEF Later
        <4> HIDE DEF e1
        <4>5. Later(e1, e2)
          BY <4>4, NetworkLater
        <4>6. IsEvent(e2)
          BY <4>5 DEF Later
        <4> HIDE DEF e2
        <4>7. Later(e2, e3)
          BY <4>6, RelatedLater
        <4>8. IsEvent(e3)
          BY <4>7 DEF Later
        <4> HIDE DEF e3
        <4>9. Later(e3, e4)
          BY <4>8, CategorizedLater
        <4> HIDE DEF e4
        <4>10. Later(g, e4)
          BY <4>3, <4>5, <4>7, <4>9, LaterTransitive
        <4>11. IsEvent(e4) /\ TrafficConverted(e4)
          BY <3>4, <4>10, LaterConverted DEF Later
        <4>12. \A q \in Watched \ {Category} : Same(evt, e4, q)
          BY <2>4, <3>4, <4>10 DEF Later, Same
        <4>13. CiscoAt(i, e4, n + 1)
          BY <4>11, <4>12, CiscoEnds
        <4> QED
          BY <4>2, <4>13, CiscoOk
      <3> QED
        BY <3>2, <3>3, <3>4
    <2>5. CiscoFares(i, n, r)
      BY <2>2, <2>3, <2>4
    <2> QED
      BY <2>5 DEF r
  <1> QED
    BY <1>3, <1>4, PatternsAre DEF AccessListed

(* communityId *)
LEMMA CiscoCommunity ==
    ASSUME NEW i, NEW e, NEW n, n = 7 + HeaderOf(i), CiscoAt(i, e, n), NEW transport
    PROVE  CiscoFares(i, n, Ok(CommunityID(e, transport)))
  <1> DEFINE f == CommunityID(e, transport)
  <1>1. IsEvent(e) /\ (Has(e, Category) => TrafficConverted(e))
    BY DEF CiscoAt
  <1>2. Later(e, f)
    BY <1>1, CommunityLater
  <1>3. Has(f, Category) => Has(e, Category)
    <2>1. Apart(<<"network", "community_id">>, Category)
      BY FirstsApart DEF Category
    <2>2. <<"network", "community_id">> \in LaterPlaces
      BY DEF LaterPlaces
    <2>3. <<"network", "community_id">> \in Paths
      BY <2>2, LaterApart
    <2>4. \A v : Has(Put(e, <<"network", "community_id">>, v), Category) => Has(e, Category)
      <3> DEFINE p == <<"network", "community_id">>
      <3>1. p \in Paths /\ Apart(p, Category)
        BY <2>1, <2>3
      <3> HIDE DEF p
      <3>2. \A v : Confined({p}, e, Put(e, p, v))
        BY <3>1, PutAt
      <3>3. \A v : Has(Put(e, p, v), Category) => Has(e, Category)
        BY <3>1, <3>2, WatchedPaths DEF Confined
      <3> QED
        BY <3>3 DEF p
    <2>5. f = e \/ \E v : f = Put(e, <<"network", "community_id">>, v)
      BY DEF CommunityID
    <2> HIDE DEF f
    <2> QED
      BY <2>4, <2>5
  <1> HIDE DEF f
  <1>4. Has(f, Category) => TrafficConverted(f)
    BY <1>1, <1>2, <1>3, LaterConverted
  <1>5. IsEvent(f) /\ \A q \in Watched \ {Category} : Same(e, f, q)
    BY <1>2 DEF Later
  <1>6. CiscoAt(i, f, n + 1)
    BY <1>4, <1>5, CiscoEnds
  <1> QED
    BY <1>6, CiscoOk DEF f

CiscoReady == IsInput(input) /\ input.dataset = "ios" /\ CiscoAt(input, evt, at) /\ at \in Nat

LEMMA HeaderAgrees ==
    Header = HeaderOf(input) /\ (Cisco!FromFile <=> FileInput(input))
  BY CiscoSame DEF Header, HeaderOf, Cisco!FromFile, FileInput

(* Each step of cisco fares well.                                            *)
LEMMA CiscoFaresAll ==
    ASSUME CiscoReady, at \in 1..(7 + Header), Cisco!Next
    PROVE  \E r : Goes(at, 7 + Header, r) /\ CiscoFares(input, at, r)
  <1> DEFINE F(n, r) == Goes(n, 7 + Header, r) => /\ Goes(at, 7 + Header, r)
                                                  /\ CiscoFares(input, at, r)
             transport == IF Has(evt, <<"network", "transport">>)
                          THEN evt[<<"network", "transport">>]
                          ELSE Get(evt, <<"network", "iana_number">>)
  <1>b. ASSUME NEW n, NEW r, at = n => CiscoFares(input, n, r)
        PROVE  F(n, r)
    BY <1>b DEF Goes
  <1>0. IsInput(input) /\ CiscoAt(input, evt, at)
    BY DEF CiscoReady
  <1>h. Header = HeaderOf(input) /\ (Cisco!FromFile <=> FileInput(input))
    BY HeaderAgrees
  <1>1. F(1, Convert(evt, Logged, "copy", FALSE, TRUE))
    <2>1. at = 1 => CiscoFares(input, 1, Convert(evt, Logged, "copy", FALSE, TRUE))
      BY <1>0, CiscoOriginal
    <2> QED
      BY <2>1, <1>b
  <1>2. Cisco!FromFile => F(2, Dissect(evt, Cisco!HeaderOf(Get(evt, <<"message">>))))
    BY <1>0, CiscoHeader, <1>h, <1>b DEF MessagePath
  <1>3. Cisco!FromFile => F(3, Convert(evt, Taken, "rename", FALSE, TRUE))
    <2>1. FileInput(input) /\ at = 3 =>
              CiscoFares(input, 3, Convert(evt, Taken, "rename", FALSE, TRUE))
      BY <1>0, CiscoTake
    <2> QED
      BY <1>h, <2>1, <1>b
  <1>4. Cisco!FromFile =>
            F(4, Convert(evt, <<Cisco!InPlace(<<"event", "sequence">>)>>, "copy", TRUE, TRUE))
    <2>1. FileInput(input) /\ at = 4 =>
              CiscoFares(input, 4, Convert(evt, <<Cisco!InPlace(<<"event", "sequence">>)>>,
                                           "copy", TRUE, TRUE))
      BY <1>0, CiscoSequence
    <2> QED
      BY <1>h, <2>1, <1>b
  <1>5. Cisco!FromFile => F(5, Timestamp(evt, <<"_tmp", "timestamp">>))
    BY <1>0, CiscoTimestamp, <1>h, <1>b
  <1>6. Cisco!FromFile => F(6, Ok(Delete(evt, <<"_tmp">>)))
    BY <1>0, CiscoDeleteTmp, <1>h, <1>b DEF Scratch
  <1>7. F(2 + Header, Dissect(evt, Cisco!MessageFields(Get(evt, <<"message">>))))
    BY <1>0, CiscoMessage, <1>h, <1>b DEF MessagePath
  <1>8. F(3 + Header,
          Ok(Replaced(Replaced(evt, <<"_message">>, <<"message">>), <<"_event_severity">>,
                      <<"event", "severity">>)))
    BY <1>0, CiscoReplace, <1>h, <1>b DEF BesideText, MessagePath, BesideSeverity, Severity
  <1>9. F(4 + Header, Convert(evt, <<Cisco!InPlace(<<"event", "severity">>)>>, "copy", FALSE, TRUE))
    BY <1>0, CiscoSeverity, <1>h, <1>b DEF Severity
  <1>10. F(5 + Header, Ok(Levelled(Get(evt, <<"event", "severity">>)[2])))
    BY <1>0, CiscoLevel, <1>h, <1>b
  <1>11. F(6 + Header, AccessListed(Get(evt, <<"event", "code">>)))
    BY <1>0, CiscoAccessList, <1>h, <1>b
  <1>12. F(7 + Header, Ok(CommunityID(evt, transport)))
    BY <1>0, CiscoCommunity, <1>h, <1>b
  <1> HIDE DEF F
  <1> QED
    BY <1>1, <1>2, <1>3, <1>4, <1>5, <1>6, <1>7, <1>8, <1>9, <1>10, <1>11, <1>12, CiscoSteps,
       Zenon DEF F

-----------------------------------------------------------------------------
(*                         What is published                                 *)

(* The inductive invariant: what the event has become before each step, for  *)
(* each kind of script, and why a script threw.                              *)
CloudHolds ==
    /\ CloudInput(input)
    /\ at \in 1..(LastAt(input) + 1) /\ (status = "done" <=> at = LastAt(input) + 1)
    /\ CloudAt(input, evt, at)
    /\ input.dataset = "audit" => AuditAt(input, evt, at)
    /\ status = "exception" => CauseOf(input) /\ ThrownAt(input, at)
MispHolds ==
    /\ IsInput(input) /\ input.dataset = "threat"
    /\ at \in 1..6 /\ (status = "done" <=> at = 6)
    /\ status = "running" => MispAt(input, evt, at)
    /\ status = "exception" => CauseOf(input)
CiscoHolds ==
    /\ IsInput(input) /\ input.dataset = "ios"
    /\ at \in 1..(8 + HeaderOf(input)) /\ (status = "done" <=> at = 8 + HeaderOf(input))
    /\ status # "exception" => CiscoAt(input, evt, at)
    /\ status = "exception" => CiscoThrown(input, evt, at)
Waits == input = NoInput /\ status = "waiting" /\ evt = << >> /\ at = 1
Holds ==
    \/ Waits
    \/ /\ status \in {"running", "done", "exception"}
       /\ CloudHolds \/ MispHolds \/ CiscoHolds

(* What a step leaves in the state.                                          *)
LEMMA AfterGoes ==
    ASSUME NEW n \in Nat, NEW last \in Nat, NEW r, r.ok \in BOOLEAN, Goes(n, last, r)
    PROVE  /\ status = "running" /\ at = n /\ input' = input /\ evt' = r.evt
           /\ r.ok => at' = n + 1 /\ status' = (IF n = last THEN "done" ELSE "running")
           /\ ~r.ok => at' = n /\ status' = "exception"
  <1>1. /\ status = "running" /\ at = n /\ input' = input /\ evt' = r.evt
        /\ at' = IF r.ok THEN n + 1 ELSE n
    BY DEF Goes
  <1>2. CASE r.ok /\ n = last
    BY <1>2, Zenon, <1>1 DEF Goes
  <1>3. CASE r.ok /\ n # last
    BY <1>3, Zenon, <1>1 DEF Goes
  <1>4. CASE ~r.ok
    BY <1>4, Zenon, <1>1 DEF Goes
  <1> QED
    BY <1>2, <1>3, <1>4

(* An event that is received meets the invariant.                            *)
LEMMA Received ==
    ASSUME NEW i \in Inputs, Waits, Receive(i)
    PROVE  Holds'
  <1>1. IsInput(i) /\ input' = i /\ evt' = i.evt /\ status' = "running" /\ at' = 1
    BY InputsAssumption DEF Waits, Receive
  <1>2. i.dataset \in Googlecloud \/ i.dataset = "ios" \/ i.dataset = "threat"
    BY <1>1 DEF IsInput, Datasets
  <1>3. ASSUME i.dataset \in Googlecloud
        PROVE  CloudHolds'
    <2>1. CloudInput(i)
      BY <1>1, <1>3 DEF CloudInput
    <2>2. CloudAt(i, i.evt, 1)
      BY <2>1, CloudStart
    <2>3. LastAt(i) \in 12..20
      BY <2>1, Thresholds
    <2>4. 1 \in 1..(LastAt(i) + 1) /\ 1 # LastAt(i) + 1
      BY <2>3
    <2>5. AuditAt(i, i.evt, 1)
      BY DEF AuditAt
    <2> QED
      BY <1>1, <2>1, <2>2, <2>4, <2>5 DEF CloudHolds
  <1>4. ASSUME i.dataset = "ios"
        PROVE  CiscoHolds'
    BY <1>1, CiscoStart, HeaderIs, <1>4 DEF CiscoHolds
  <1>5. ASSUME i.dataset = "threat"
        PROVE  MispHolds'
    BY <1>1, <1>5 DEF MispAt, IsInput, MispHolds
  <1> QED
    BY <1>1, <1>2, <1>3, <1>4, <1>5 DEF Holds

(* A step of a script of googlecloud.                                        *)
LEMMA CloudGoes ==
    ASSUME CloudHolds, NEW r, Goes(at, LastAt(input), r), Fares(input, evt, at, r),
           input.dataset = "audit" => AuditFares(input, at, r)
    PROVE  Holds'
  <1>1. at \in Nat /\ LastAt(input) \in Nat /\ LastAt(input) > 0
    BY Thresholds DEF CloudHolds
  <1>2. r.ok \in BOOLEAN
    BY DEF Fares
  <1>3. /\ status = "running" /\ input' = input /\ evt' = r.evt
        /\ r.ok => at' = at + 1 /\ status' = (IF at = LastAt(input) THEN "done" ELSE "running")
        /\ ~r.ok => at' = at /\ status' = "exception"
    BY <1>1, <1>2, AfterGoes
  <1>4. at <= LastAt(input)
    BY <1>1, <1>3 DEF CloudHolds
  <1>5. CASE r.ok
    BY <1>5, <1>1, <1>4, <1>3 DEF Fares, AuditFares, CloudHolds, Holds
  <1>6. CASE ~r.ok
    BY <1>6, <1>1, <1>4, <1>3 DEF Fares, CloudHolds, Holds
  <1> QED
    BY <1>2, <1>5, <1>6

(* A script takes a step of an event that goes through it.                   *)
LEMMA FirewallRuns ==
    ASSUME Firewall!Next
    PROVE  status = "running"
  <1>1. ASSUME NEW name, NEW r, Firewall!Do(name, r)
        PROVE  status = "running"
    BY <1>1 DEF Firewall!Do, Firewall!Step
  <1> QED
    BY <1>1, Zenon
       DEF Firewall!Next, Firewall!decodeJson, Firewall!parseTimestamp,
           Firewall!saveOriginalMessage, Firewall!dropPubSubFields,
           Firewall!categorizeEvent, Firewall!saveMetadata,
           Firewall!convertLogEntry, Firewall!addOutcome, Firewall!addDirection,
           Firewall!conditionalRename, Firewall!ianaNumber,
           Firewall!transportFromIANA, Firewall!convertJsonPayload,
           Firewall!dropEmptyObjects, Firewall!copyAddressFields,
           Firewall!setCloudMetadata, Firewall!communityId,
           Firewall!setInternalDirection, Firewall!setNetworkType,
           Firewall!setRelatedIP

LEMMA VpcflowRuns ==
    ASSUME Vpcflow!Next
    PROVE  status = "running"
  <1>1. ASSUME NEW name, NEW r, Vpcflow!Do(name, r)
        PROVE  status = "running"
    BY <1>1 DEF Vpcflow!Do, Vpcflow!Step
  <1> QED
    BY <1>1, Zenon
       DEF Vpcflow!Next, Vpcflow!decodeJson, Vpcflow!parseTimestamp,
           Vpcflow!saveOriginalMessage, Vpcflow!dropPubSubFields,
           Vpcflow!categorizeEvent, Vpcflow!saveMetadata,
           Vpcflow!convertLogEntry, Vpcflow!convertJsonPayload,
           Vpcflow!dropEmptyObjects, Vpcflow!copyAddressFields,
           Vpcflow!setCloudMetadata, Vpcflow!communityId,
           Vpcflow!setNetworkBytesPackets, Vpcflow!setNetworkTransport,
           Vpcflow!setNetworkDirection, Vpcflow!setNetworkType,
           Vpcflow!setRelatedIP

LEMMA AuditRuns ==
    ASSUME Audit!Next
    PROVE  status = "running"
  <1>1. ASSUME NEW name, NEW r, Audit!Do(name, r)
        PROVE  status = "running"
    BY <1>1 DEF Audit!Do, Audit!Step
  <1> QED
    BY <1>1, Zenon
       DEF Audit!Next, Audit!decodeJson, Audit!parseTimestamp,
           Audit!saveOriginalMessage, Audit!dropPubSubFields, Audit!saveMetadata,
           Audit!setCloudMetadata, Audit!convertLogEntry,
           Audit!convertProtoPayload, Audit!copyFields, Audit!dropExtraFields,
           Audit!RenameNestedFields, Audit!setEventOutcome

LEMMA CiscoRuns ==
    ASSUME Cisco!Next
    PROVE  status = "running"
  <1>1. ASSUME NEW name, NEW r, Cisco!Do(name, r)
        PROVE  status = "running"
    BY <1>1 DEF Cisco!Do, Cisco!Step
  <1> QED
    BY <1>1, Zenon
       DEF Cisco!Next, Cisco!copyOriginalMessage, Cisco!dissectHeader,
           Cisco!takeMessage, Cisco!convertSequence, Cisco!parseTimestamp,
           Cisco!deleteTmp, Cisco!dissectMessage, Cisco!replaceFields,
           Cisco!convertSeverity, Cisco!setLogLevel, Cisco!accessList,
           Cisco!communityId

LEMMA MispRuns ==
    ASSUME Misp!Next
    PROVE  status = "running"
  <1>1. ASSUME NEW name, NEW r, Misp!Do(name, r)
        PROVE  status = "running"
    BY <1>1 DEF Misp!Do, Misp!Step
  <1> QED
    BY <1>1, Zenon
       DEF Misp!Next, Misp!decodeJson, Misp!categorizeEvent,
           Misp!setThreatFeedField, Misp!convertFields, Misp!setAttackPattern

LEMMA LastSteps ==
    ASSUME CloudInput(input)
    PROVE  /\ input.dataset = "firewall" => LastAt(input) = 19 + Shift
           /\ input.dataset = "vpcflow" => LastAt(input) = 17
           /\ input.dataset = "audit" => LastAt(input) = 12
  <1>1. ASSUME input.dataset = "firewall"
        PROVE  LastAt(input) = 19 + Shift
    BY <1>1, Zenon DEF LastAt, CloudInput, IsInput, Offset, Shift
  <1>2. ASSUME input.dataset = "vpcflow"
        PROVE  LastAt(input) = 17
    BY <1>2, Zenon DEF LastAt
  <1>3. ASSUME input.dataset = "audit"
        PROVE  LastAt(input) = 12
    BY <1>3, Zenon DEF LastAt
  <1> QED
    BY <1>1, <1>2, <1>3

LEMMA CloudSteps ==
    ASSUME CloudHolds, Script
    PROVE  Holds'
  <1>1. /\ CloudInput(input) /\ input.dataset \in Googlecloud /\ LastAt(input) \in 12..20
        /\ at \in 1..(LastAt(input) + 1) /\ at \in Nat /\ Ready(input.dataset)
    BY Thresholds DEF CloudHolds, CloudInput, Ready
  <1>2. status = "running" => at \in 1..LastAt(input)
    BY <1>1 DEF CloudHolds
  <1>3. CASE input.dataset = "firewall" /\ Firewall!Next
    <2>1. status = "running"
      BY <1>3, FirewallRuns
    <2>2. at \in 1..(19 + Shift) /\ LastAt(input) = 19 + Shift
      BY <1>1, <1>2, <1>3, <2>1, LastSteps
    <2>3. PICK r : Goes(at, 19 + Shift, r) /\ Fares(input, evt, at, r)
      BY <1>1, <1>3, <2>2, FirewallFares
    <2> QED
      BY <1>3, <2>2, <2>3, CloudGoes
  <1>4. CASE input.dataset = "vpcflow" /\ Vpcflow!Next
    <2>1. status = "running"
      BY <1>4, VpcflowRuns
    <2>2. at \in 1..17 /\ LastAt(input) = 17
      BY <1>1, <1>2, <1>4, <2>1, LastSteps
    <2>3. PICK r : Goes(at, 17, r) /\ Fares(input, evt, at, r)
      BY <1>1, <1>4, <2>2, VpcflowFares
    <2> QED
      BY <1>4, <2>2, <2>3, CloudGoes
  <1>5. CASE input.dataset = "audit" /\ Audit!Next
    <2>1. status = "running"
      BY <1>5, AuditRuns
    <2>2. at \in 1..12 /\ LastAt(input) = 12
      BY <1>1, <1>2, <1>5, <2>1, LastSteps
    <2>3. AuditAt(input, evt, at)
      BY <1>5 DEF CloudHolds
    <2>4. PICK r : Goes(at, 12, r) /\ Fares(input, evt, at, r) /\ AuditFares(input, at, r)
      BY <1>1, <1>5, <2>2, <2>3, AuditFaresAll
    <2> QED
      BY <2>2, <2>4, CloudGoes
  <1> QED
    BY <1>1, <1>3, <1>4, <1>5 DEF Script, Googlecloud

LEMMA MispGoesOn ==
    ASSUME MispHolds, Script
    PROVE  Holds'
  <1>1. IsInput(input) /\ input.dataset = "threat" /\ at \in 1..6
    BY DEF MispHolds
  <1>2. Misp!Next
    BY <1>1, Zenon DEF Script
  <1>3. status = "running"
    BY <1>2, MispRuns
  <1>4. at \in 1..5 /\ MispAt(input, evt, at)
    BY <1>3 DEF MispHolds
  <1>5. PICK r : Goes(at, 5, r) /\ MispFares(input, at, r)
    BY <1>1, <1>2, <1>4, MispFaresAll
  <1>6. r.ok \in BOOLEAN
    BY <1>5 DEF MispFares
  <1>7. /\ input' = input /\ evt' = r.evt
        /\ r.ok => at' = at + 1 /\ status' = (IF at = 5 THEN "done" ELSE "running")
        /\ ~r.ok => at' = at /\ status' = "exception"
    BY <1>4, <1>5, <1>6, AfterGoes
  <1>8. CASE r.ok
    BY <1>5, <1>8, <1>1, <1>4, <1>7 DEF MispFares, MispHolds, Holds
  <1>9. CASE ~r.ok
    BY <1>5, <1>9, <1>1, <1>4, <1>7 DEF MispFares, MispHolds, Holds
  <1> QED
    BY <1>6, <1>8, <1>9

LEMMA CiscoGoesOn ==
    ASSUME CiscoHolds, Script
    PROVE  Holds'
  <1>1. IsInput(input) /\ input.dataset = "ios" /\ at \in 1..(8 + Header) /\ Header \in {0, 5}
    BY HeaderAgrees, HeaderIs DEF CiscoHolds
  <1>2. Cisco!Next
    BY <1>1, Zenon DEF Script
  <1>3. status = "running"
    BY <1>2, CiscoRuns
  <1>4. at \in 1..(7 + Header) /\ CiscoAt(input, evt, at) /\ at \in Nat /\ HeaderOf(input) = Header
    BY <1>1, <1>3, HeaderAgrees DEF CiscoHolds
  <1>5. PICK r : Goes(at, 7 + Header, r) /\ CiscoFares(input, at, r)
    BY <1>1, <1>2, <1>4, CiscoFaresAll DEF CiscoReady
  <1>6. r.ok \in BOOLEAN /\ 7 + Header \in Nat
    BY <1>1, <1>5 DEF CiscoFares
  <1>7. /\ input' = input /\ evt' = r.evt
        /\ r.ok => at' = at + 1 /\ status' = (IF at = 7 + Header THEN "done" ELSE "running")
        /\ ~r.ok => at' = at /\ status' = "exception"
    BY <1>4, <1>5, <1>6, AfterGoes
  <1>8. CASE r.ok
    BY <1>5, <1>8, <1>1, <1>4, <1>7 DEF CiscoFares, CiscoHolds, Holds
  <1>9. CASE ~r.ok
    BY <1>5, <1>9, <1>1, <1>4, <1>7 DEF CiscoFares, CiscoHolds, Holds
  <1> QED
    BY <1>6, <1>8, <1>9

(* The scripts keep the invariant, and so do an event that comes and one     *)
(* that is published.                                                        *)
LEMMA HoldsStays == Holds /\ [Next]_vars => Holds'
  <1> SUFFICES ASSUME Holds, [Next]_vars
               PROVE  Holds'
    OBVIOUS
  <1>1. ASSUME NEW i \in Inputs, Receive(i)
        PROVE  Holds'
    <2>1. Waits
      BY <1>1 DEF Receive, Holds
    <2> QED
      BY <1>1, <2>1, Received
  <1>2. CASE Script
    BY <1>2, CloudSteps, MispGoesOn, CiscoGoesOn DEF Waits, Script, NoInput, Holds
  <1>3. CASE Publish
    BY <1>3 DEF Publish, Holds, Waits
  <1>4. CASE UNCHANGED vars
    BY <1>4 DEF vars, Waits, CloudHolds, MispHolds, CiscoHolds, Holds
  <1> QED
    BY <1>1, <1>2, <1>3, <1>4 DEF Next

(* The invariant holds of every event, whatever its input, before and after  *)
(* every step.                                                               *)
THEOREM EventInvariant == Spec => []Holds
  <1>1. Init => Holds
    BY DEF Init, Holds, Waits
  <1> QED
    BY <1>1, HoldsStays, PTL DEF Spec

(* Which part of the invariant is about an event.                            *)
LEMMA WhoseEvent ==
    ASSUME Holds
    PROVE  /\ input.dataset \in Googlecloud => CloudHolds
           /\ input.dataset = "ios" => CiscoHolds
           /\ input.dataset = "threat" => MispHolds
           /\ status # "waiting" => input.dataset \in Datasets
           /\ status = "waiting" => Waits
  BY DEF Holds, Waits, NoInput, CloudHolds, CloudInput, CiscoHolds, MispHolds, Googlecloud, Datasets

LEMMA SameEntry ==
    Message = MessageOf(input) /\ Document = DocumentOf(input)
  BY DEF Message, MessageOf, Document, DocumentOf

LEMMA CloudDone ==
    ASSUME CloudHolds, status = "done"
    PROVE  /\ at = LastAt(input) + 1 /\ at > 3 /\ at > DropAt(input) /\ at > PayloadAt(input)
           /\ CloudAt(input, evt, at)
  BY Thresholds DEF CloudHolds

LEMMA CiscoDone ==
    ASSUME CiscoHolds, status = "done"
    PROVE  /\ at = 8 + HeaderOf(input) /\ at > 6
           /\ at > 3 + HeaderOf(input) /\ at > 4 + HeaderOf(input)
           /\ CiscoAt(input, evt, at)
  BY HeaderIs DEF CiscoHolds

(* What a script of googlecloud leaves under json when it throws.            *)
LEMMA JsonIsWhole ==
    ASSUME Holds, input.dataset \in Googlecloud, status = "exception", Has(evt, <<"json">>)
    PROVE  LET name == IF input.dataset = "audit" THEN <<"protoPayload">> ELSE <<"jsonPayload">>
           IN  \/ Parsed(Document)
               \/ Has(Document, name) /\ Parsed(Delete(Tree(Document, name), name))
  <1> DEFINE name == <<PayloadName(input)>>
  <1>1. name = IF input.dataset = "audit" THEN <<"protoPayload">> ELSE <<"jsonPayload">>
    BY DEF PayloadName
  <1>2. /\ CloudInput(input) /\ at \in 1..(LastAt(input) + 1) /\ CloudAt(input, evt, at)
        /\ ThrownAt(input, at)
    BY WhoseEvent DEF CloudHolds
  <1>3. at # 1
    BY <1>2, InputFacts DEF CloudAt, CloudInput, OwnNames, Has
  <1>4. LastAt(input) \in 12..20 /\ EntryAt(input) \in 6..7 /\ PayloadAt(input) \in 8..13
    BY <1>2, Thresholds
  <1>5. at \in 2..PayloadAt(input)
    BY <1>2, <1>3, <1>4 DEF CloudAt
  <1>6. DOMAIN Document \subseteq Names
    BY <1>2, InputFacts, SameEntry DEF CloudInput, DocumentOf, IsTree
  <1>7. CASE at <= EntryAt(input)
    <2>1. Shows(evt, <<"json">>, Document, << >>)
      BY <1>2, <1>4, <1>5, <1>7, SameEntry DEF CloudAt
    <2>2. ASSUME NEW r \in DOMAIN Document
          PROVE  Get(evt, <<"json">> \o r) = Document[r]
      <3>1. r \in Names /\ << >> \o r = r
        BY <1>6, ConcatEmptySeq DEF Names
      <3> QED
        BY <2>1, <3>1 DEF Shows, Get, Has
    <2> QED
      BY <2>2 DEF Parsed
  <1>8. CASE at > EntryAt(input)
    <2>1. at \in (EntryAt(input) + 1)..TouchedAt(input)
      BY <1>2, <1>4, <1>5, <1>8 DEF ThrownAt, TouchedAt, PayloadAt
    <2>2. ShowsBut(evt, <<"json">>, Document, name, PayloadName(input))
      BY <1>2, <2>1, SameEntry DEF CloudAt
    <2>3. PayloadName(input) \in STRING
      BY StringsAssumption DEF PayloadName
    <2>4. name \in Names /\ << >> \in Names /\ <<"json">> \o << >> = <<"json">> /\ name \o << >> = name
      BY <2>3, JsonNames
    <2>5. Has(Document, name)
      BY <2>2, <2>4 DEF ShowsBut
    <2>6. ASSUME NEW r \in DOMAIN Delete(Tree(Document, name), name)
          PROVE  Get(evt, <<"json">> \o r) = Delete(Tree(Document, name), name)[r]
      <3>1. /\ r \in DOMAIN Tree(Document, name) /\ ~IsPrefix(name, r)
            /\ Delete(Tree(Document, name), name)[r] = Tree(Document, name)[r]
        BY DEF Delete, Below
      <3>2. /\ r \in Names /\ Has(Document, name \o r)
            /\ Tree(Document, name)[r] = Document[name \o r]
        BY <1>6, <2>4, <3>1, TreeShows
      <3>3. r = << >> \/ r[1] # PayloadName(input)
        BY <2>3, <3>1, <3>2, HeadPrefix
      <3> QED
        BY <2>2, <3>1, <3>2, <3>3 DEF ShowsBut, Get, Has
    <2> QED
      BY <1>1, <2>5, <2>6 DEF Parsed
  <1> QED
    BY <1>2, <1>4, <1>7, <1>8

(* What the log said is never lost, whatever throws (EntryKept).  Every step *)
(* of googlecloud leaves the text, or the document, or the fields under the  *)
(* name of the dataset; only the document's removal ends one of them, and    *)
(* the next is there by then.                                                *)
THEOREM EntryIsKept == Spec => []EntryKept
  <1>1. ASSUME Holds
        PROVE  EntryKept
    <2> USE <1>1
    <2>1. ASSUME input.dataset \in Googlecloud
          PROVE  \/ Get(evt, <<"message">>) = Message
                 \/ Has(evt, <<"json">>)
                 \/ Has(evt, <<"googlecloud", input.dataset>>)
      <3>1. CloudInput(input) /\ at \in 1..(LastAt(input) + 1) /\ CloudAt(input, evt, at)
        BY <2>1, WhoseEvent DEF CloudHolds
      <3>2. LastAt(input) \in 12..20 /\ PayloadAt(input) \in 8..13
        BY <3>1, Thresholds
      <3>3. at = 1 \/ at \in 2..PayloadAt(input) \/ at > PayloadAt(input)
        BY <3>1, <3>2
      <3>4. CASE at = 1
        BY <3>1, <3>4 DEF CloudAt, Message
      <3>5. CASE at \in 2..PayloadAt(input)
        BY <3>1, <3>5 DEF CloudAt
      <3>6. CASE at > PayloadAt(input)
        BY <3>1, <3>6 DEF CloudAt
      <3> QED
        BY <3>3, <3>4, <3>5, <3>6
    <2>2. ASSUME Done(Googlecloud)
          PROVE  Get(evt, <<"event", "original">>) = IF input.keep THEN Message ELSE Null
      BY <2>2, WhoseEvent, CloudDone, SameEntry DEF Done, CloudAt
    <2>3. ASSUME input.dataset = "ios", at > 1
          PROVE  evt[<<"log", "original">>] = Message
      <3>1. CiscoHolds /\ status \in {"running", "done", "exception"}
        BY <2>3, WhoseEvent DEF Holds, Waits, NoInput
      <3>2. Held(evt, LogOriginal, MessageOf(input))
        BY <2>3, <3>1 DEF CiscoHolds, CiscoAt, CiscoText, CiscoThrown
      <3> QED
        BY <3>2, SameEntry DEF Held, Get, LogOriginal
    <2>4. ASSUME input.dataset \in Googlecloud, status = "exception", Has(evt, <<"json">>)
          PROVE  LET name == IF input.dataset = "audit" THEN <<"protoPayload">>
                             ELSE <<"jsonPayload">>
                 IN  \/ Parsed(Document)
                     \/ Has(Document, name) /\ Parsed(Delete(Tree(Document, name), name))
      BY <2>4, JsonIsWhole
    <2> QED
      BY <2>1, <2>2, <2>3, <2>4 DEF EntryKept
  <1> QED
    BY <1>1, EventInvariant, PTL

(* What a script needs for a while does not stay, and what it replaces is    *)
(* replaced (ReplacedCleanly): the last step that writes a scratch field     *)
(* comes before the one that deletes it, in each order the flags give.       *)
THEOREM IsReplacedCleanly == Spec => []ReplacedCleanly
  <1>1. ASSUME Holds
        PROVE  ReplacedCleanly
    <2> USE <1>1
    <2>1. ASSUME Done(Googlecloud)
          PROVE  ~Has(evt, <<"json">>) /\ ~Has(evt, <<"message">>)
      BY <2>1, WhoseEvent, CloudDone DEF Done, CloudAt
    <2>2. ASSUME Done({"ios"})
          PROVE  LET m == IF Message[1] = "line" THEN Message[2].message ELSE Message
                 IN  /\ ~Has(evt, <<"_tmp">>) /\ ~Has(evt, <<"_message">>)
                     /\ ~Has(evt, <<"_event_severity">>)
                     /\ evt[<<"event", "severity">>] = Long(m[2].severity[2])
                     /\ evt[<<"message">>] = m[2].body
      <3> DEFINE m == IF Message[1] = "line" THEN Message[2].message ELSE Message
      <3>1. /\ at > 6 /\ at > 3 + HeaderOf(input) /\ at > 4 + HeaderOf(input)
            /\ CiscoText(input, evt, at) /\ CiscoClean(input, evt, at)
        BY <2>2, WhoseEvent, CiscoDone DEF Done, CiscoAt
      <3>2. m = TextOf(input)
        BY SameEntry DEF TextOf
      <3>3. ~Has(evt, Scratch) /\ ~Has(evt, BesideText) /\ ~Has(evt, BesideSeverity)
        BY <3>1 DEF CiscoClean
      <3>4. Held(evt, MessagePath, TextOf(input)[2].body)
        BY <3>1 DEF CiscoText
      <3>5. Held(evt, Severity, Long(TextOf(input)[2].severity[2]))
        BY <3>1 DEF CiscoText
      <3> HIDE DEF m
      <3>6. evt[<<"message">>] = m[2].body
        BY <3>2, <3>4 DEF Held, Get, MessagePath
      <3>7. evt[<<"event", "severity">>] = Long(m[2].severity[2])
        BY <3>2, <3>5 DEF Held, Get, Severity
      <3> QED
        BY <3>3, <3>6, <3>7 DEF m, Scratch, BesideText, BesideSeverity
    <2> QED
      BY <2>1, <2>2 DEF ReplacedCleanly
  <1> QED
    BY <1>1, EventInvariant, PTL

(* An event that is published as traffic of a firewall has its numbers and   *)
(* addresses converted (CategorisedMeansConverted): what throws on the way   *)
(* throws before the category is set.                                        *)
THEOREM CategorisedIsConverted == Spec => []CategorisedMeansConverted
  <1>1. ASSUME Holds
        PROVE  CategorisedMeansConverted
    <2> SUFFICES ASSUME input.dataset = "ios", Has(evt, <<"event", "category">>)
                 PROVE  /\ \A x \in {<<"source">>, <<"destination">>} :
                              /\ IsIP(Get(evt, x \o <<"ip">>))
                              /\ evt[x \o <<"ip">>] = Get(evt, x \o <<"address">>)
                        /\ Get(evt, <<"network", "packets">>) = Get(evt, <<"source", "packets">>)
                        /\ \A p \in {<<"source", "port">>, <<"source", "packets">>,
                                     <<"destination", "port">>, <<"icmp", "type">>,
                                     <<"icmp", "code">>, <<"igmp", "type">>} :
                              Has(evt, p) => evt[p][1] = "long"
      BY DEF CategorisedMeansConverted
    <2>1. CiscoHolds /\ status \in {"running", "done", "exception"} /\ Has(evt, Category)
      BY <1>1, WhoseEvent DEF Holds, Waits, NoInput, Category
    <2>2. TrafficConverted(evt)
      BY <2>1 DEF CiscoHolds, CiscoAt, CiscoThrown
    <2>3. ASSUME NEW x \in {"source", "destination"}
          PROVE  /\ IsIP(Get(evt, <<x>> \o <<"ip">>))
                 /\ evt[<<x>> \o <<"ip">>] = Get(evt, <<x>> \o <<"address">>)
      <3>1. IsIP(Get(evt, <<x, "ip">>)) /\ Get(evt, <<x, "ip">>) = Get(evt, <<x, "address">>)
        BY <2>2 DEF TrafficConverted
      <3>2. Has(evt, <<x, "ip">>)
        BY <3>1 DEF Get, IsIP, IsText, Null
      <3>3. <<x>> \o <<"ip">> = <<x, "ip">> /\ <<x>> \o <<"address">> = <<x, "address">>
        BY TwoConcat, StringsAssumption
      <3> QED
        BY <3>1, <3>2, <3>3 DEF Get
    <2>4. ASSUME NEW p \in {<<"source", "port">>, <<"source", "packets">>,
                            <<"destination", "port">>, <<"icmp", "type">>,
                            <<"icmp", "code">>, <<"igmp", "type">>}, Has(evt, p)
          PROVE  evt[p][1] = "long"
      BY <2>2, <2>4 DEF TrafficConverted, Get
    <2> QED
      BY <2>2, <2>3, <2>4 DEF TrafficConverted
  <1> QED
    BY <1>1, EventInvariant, PTL

(* What the authorizations of an entry are: a list of records.               *)
LEMMA GrantsShape ==
    ASSUME CloudInput(input), GrantsOf(input) # Null
    PROVE  LET arr == GrantsOf(input)[2]
           IN  /\ Len(arr) \in Nat /\ DOMAIN arr = 1..Len(arr)
               /\ \A n \in DOMAIN arr : arr[n] \in [fields : SUBSET STRING, granted : Granting]
  <1> DEFINE grants == <<"protoPayload", "authorizationInfo">>
  <1>1. MessageOf(input)[1] = "json"
    BY DEF GrantsOf, DocumentOf, Get, Has
  <1>2. Has(input.evt, <<"message">>)
    BY DEF CloudInput, IsInput
  <1>3. input.evt[<<"message">>][1] = "json" /\ GrantsOf(input) = Get(input.evt[<<"message">>][2],
                                                                      grants)
    BY <1>1, <1>2 DEF MessageOf, DocumentOf, GrantsOf, Get
  <1> QED
    BY <1>3 DEF CloudInput, IsInput

LEMMA RenamedGrantsShape ==
    ASSUME CloudInput(input), GrantsOf(input) # Null
    PROVE  LET arr == GrantsOf(input)[2]
               renamed == RenamedGrants(GrantsOf(input))[2]
           IN  /\ Len(renamed) = Len(arr)
               /\ Len(arr) = 1 => /\ DOMAIN arr = {1}
                                  /\ arr[1].granted \in Granting
                                  /\ renamed[1].granted = arr[1].granted
  <1> DEFINE arr == GrantsOf(input)[2]
             renamed == RenamedGrants(GrantsOf(input))[2]
             Grants == [fields : SUBSET STRING, granted : Granting]
  <1>1. /\ Len(arr) \in Nat /\ DOMAIN arr = 1..Len(arr)
        /\ \A n \in DOMAIN arr : arr[n] \in Grants
    BY GrantsShape
  <1>2. renamed = [x \in DOMAIN arr |-> Audit!Renamed(arr[x])]
    BY DEF RenamedGrants
  <1>3. ASSUME NEW a \in Grants
        PROVE  Audit!Renamed(a) \in [fields : SUBSET (STRING \union {"resource_attributes"}),
                                     granted : Granting]
               /\ Audit!Renamed(a).granted = a.granted
    BY <1>3 DEF Audit!Renamed
  <1> DEFINE T == [fields : SUBSET (STRING \union {"resource_attributes"}), granted : Granting]
  <1> HIDE DEF arr, renamed, T, Grants
  <1>4. renamed \in [1..Len(arr) -> T]
    BY <1>1, <1>2, <1>3 DEF T
  <1>5. Len(renamed) = Len(arr)
    BY <1>1, <1>4
  <1>6. ASSUME Len(arr) = 1
        PROVE  DOMAIN arr = {1} /\ arr[1].granted \in Granting /\ renamed[1].granted = arr[1].granted
    BY <1>1, <1>6, <1>2, <1>3 DEF Grants
  <1> QED
    BY <1>5, <1>6 DEF arr, renamed

(* The outcome of an entry is that of its status, and without one that of    *)
(* its one authorization (OutcomeAgrees): setEventOutcome reads fields that  *)
(* five steps before it have moved, copied and rewritten.                    *)
THEOREM OutcomeIsRight == Spec => []OutcomeAgrees
  <1>1. ASSUME Holds
        PROVE  OutcomeAgrees
    <2> DEFINE code == Get(Document, <<"protoPayload", "status", "code">>)
               arr == Get(Document, <<"protoPayload", "authorizationInfo">>)[2]
               Granted(g) == {x \in DOMAIN arr : arr[x].granted = g}
               renamed == RenamedGrants(GrantsOf(input))[2]
               given == CASE code = Long("0") -> "success"
                          [] code \notin {Null, Long("0")} -> "failure"
                          [] code = Null /\ Len(arr) = 1 /\ Granted("true") # {} -> "success"
                          [] code = Null /\ Len(arr) = 1 /\ Granted("false") # {} -> "failure"
                          [] OTHER -> "unknown"
    <2> SUFFICES ASSUME Done({"audit"})
                 PROVE  Get(evt, <<"event", "outcome">>) = Str(given)
      BY Zenon DEF OutcomeAgrees
    <2>1. CloudHolds /\ input.dataset = "audit"
      BY <1>1, WhoseEvent DEF Done, Googlecloud
    <2>2. CloudInput(input) /\ at = 13 /\ AuditAt(input, evt, at)
      BY <2>1, LastSteps DEF CloudHolds, Done
    <2>3. /\ GrantsOf(input) # Null
          /\ Get(evt, <<"event", "outcome">>) = Str(Audit!OutcomeOf(CodeOf(input), renamed))
      BY <2>2 DEF AuditAt
    <2>4. code = CodeOf(input) /\ arr = GrantsOf(input)[2]
      <3>1. <<"protoPayload">> \o StatusCode = <<"protoPayload", "status", "code">>
        BY ThreeConcat, StringsAssumption DEF StatusCode
      <3> QED
        BY <3>1, SameEntry DEF CodeOf, GrantsOf
    <2>5. /\ Len(renamed) = Len(arr)
          /\ Len(arr) = 1 => /\ DOMAIN arr = {1}
                             /\ arr[1].granted \in Granting
                             /\ renamed[1].granted = arr[1].granted
      BY <2>2, <2>3, <2>4, RenamedGrantsShape
    <2>6. Null # Long("0")
      BY DEF Null, Long
    <2> DEFINE outcome == Audit!OutcomeOf(code, renamed)
    <2> HIDE DEF code, arr, renamed
    <2>7. ASSUME code = Long("0")
          PROVE  outcome = given
      BY <2>6, <2>7, Zenon DEF Audit!OutcomeOf, Audit!Null, Audit!Long, Null, Long
    <2>8. ASSUME code # Null, code # Long("0")
          PROVE  outcome = given
      BY <2>8, Zenon DEF Audit!OutcomeOf, Audit!Null, Audit!Long, Null, Long
    <2>9. ASSUME code = Null, Len(arr) # 1
          PROVE  outcome = given
      BY <2>6, <2>9, Zenon, <2>5 DEF Audit!OutcomeOf, Audit!Null, Audit!Long, Null, Long
    <2>10. ASSUME code = Null, Len(arr) = 1
           PROVE  outcome = given
      <3>1. DOMAIN arr = {1} /\ renamed[1].granted = arr[1].granted /\ Len(renamed) = 1
        BY <2>5, <2>10
      <3>2. /\ Granted("true") # {} <=> arr[1].granted = "true"
            /\ Granted("false") # {} <=> arr[1].granted = "false"
        BY <3>1
      <3>3. outcome = CASE renamed[1].granted = "unset" -> "unknown"
                        [] renamed[1].granted = "true" -> "success"
                        [] OTHER -> "failure"
        BY <2>6, <2>10, <3>1, Zenon DEF Audit!OutcomeOf, Audit!Null, Audit!Long, Null, Long
      <3>4. arr[1].granted \in {"unset", "true", "false"}
        BY <2>5, <2>10 DEF Granting
      <3> DEFINE true == Granted("true") # {}
                 false == Granted("false") # {}
      <3>5. given = CASE code = Long("0") -> "success"
                      [] code \notin {Null, Long("0")} -> "failure"
                      [] code = Null /\ Len(arr) = 1 /\ true -> "success"
                      [] code = Null /\ Len(arr) = 1 /\ false -> "failure"
                      [] OTHER -> "unknown"
        OBVIOUS
      <3> HIDE DEF given, outcome, true, false, Granted
      <3>6. CASE arr[1].granted = "unset"
        BY <3>2, <3>6, <2>6, <2>10, <3>5, Zenon, <3>1, <3>3 DEF true, false
      <3>7. CASE arr[1].granted = "true"
        BY <3>2, <3>7, <2>6, <2>10, <3>5, Zenon, <3>1, <3>3 DEF true, false
      <3>8. CASE arr[1].granted = "false"
        BY <3>2, <3>8, <2>6, <2>10, <3>5, Zenon, <3>1, <3>3 DEF true, false
      <3> QED
        BY <3>4, <3>6, <3>7, <3>8
    <2>11. outcome = given
      BY <2>7, <2>8, <2>9, <2>10
    <2> QED
      BY <2>3, <2>4, <2>11
  <1> QED
    BY <1>1, EventInvariant, PTL

(* A script throws only on what it cannot read (ThrowsForCause).             *)
THEOREM ThrowsOnlyForCause == Spec => []ThrowsForCause
  <1>1. ASSUME Holds
        PROVE  ThrowsForCause
    <2> SUFFICES ASSUME status = "exception"
                 PROVE  ThrowsForCause
      BY DEF ThrowsForCause
    <2> DEFINE timed == Told(<<"timestamp">>) => Document[<<"timestamp">>][2] \in Instants
               caller == <<"protoPayload", "requestMetadata", "callerIp">>
               Firewalled == ~timed \/ Payload(<< >>) = Null
               Flowed == ~timed \/ Payload(<< >>) = Null \/ \E f \in VpcflowNumbers : NoNumber(f)
               Audited == \/ ~timed
                          \/ Get(Document, <<"protoPayload", "authorizationInfo">>) = Null
                          \/ NoNumber(<<"protoPayload", "numResponseItems">>)
                          \/ Told(caller) /\ ~IsIP(Document[caller])
               Threatened == Get(Document, <<"value">>) = Null
    <2>1. input.dataset \in Datasets
      BY <1>1, WhoseEvent
    <2>2. input.dataset # "ios" => CauseOf(input)
      BY <1>1, <2>1, WhoseEvent DEF Datasets, CloudHolds, MispHolds
    <2>3. timed <=> TimedOf(input)
      BY SameEntry DEF TimedOf, Told
    <2>4. \A f : NoNumber(f) <=> NoNumberOf(input, f)
      BY SameEntry DEF NoNumber, Told, NoNumberOf
    <2>5. Payload(<< >>) = Get(DocumentOf(input), <<"jsonPayload">>)
      <3>1. <<"jsonPayload">> \o << >> = <<"jsonPayload">>
        OBVIOUS
      <3> QED
        BY <3>1, SameEntry DEF Payload
    <2>6. input.dataset = "firewall" => Firewalled
      BY <2>2, <2>3, <2>5 DEF CauseOf
    <2>7. input.dataset = "vpcflow" => Flowed
      BY <2>2, <2>3, <2>4, <2>5 DEF CauseOf
    <2>8. input.dataset = "audit" => Audited
      BY <2>2, <2>3, <2>4, SameEntry DEF CauseOf, Told, Caller
    <2>9. input.dataset = "threat" => Threatened
      BY <2>2, SameEntry DEF CauseOf
    <2> HIDE DEF Firewalled, Flowed, Audited, Threatened
    <2>10. (CASE input.dataset = "firewall" -> Firewalled
              [] input.dataset = "vpcflow" -> Flowed
              [] input.dataset = "audit" -> Audited
              [] input.dataset = "threat" -> Threatened
              [] OTHER -> TRUE)
      BY <2>6, <2>7, <2>8, <2>9
    <2> QED
      BY <2>10, Zenon DEF ThrowsForCause, Firewalled, Flowed, Audited, Threatened
  <1> QED
    BY <1>1, EventInvariant, PTL
=============================================================================
