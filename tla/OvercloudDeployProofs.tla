----------------------- MODULE OvercloudDeployProofs -----------------------
(***************************************************************************)
(* Theorems about OvercloudDeploy for every set of roles and hosts, every  *)
(* number of edits and every pattern of failures: while ooo_names are only *)
(* added, hosts are paired with their own servers, and servers stay.       *)
(***************************************************************************)
EXTENDS OvercloudDeploy, FiniteSetTheorems, TLAPS

(* ooo_names without gaps belong to one host each.                           *)
LEMMA DenseInjective ==
    ASSUME NEW g \in Seq(Entry), Dense(g)
    PROVE  \A x, y \in DOMAIN g : g[x].idx = g[y].idx => x = y
  <1> DEFINE n == Len(g)
             f == [x \in 1..n |-> g[x].idx]
  <1>1. n \in Nat /\ DOMAIN g = 1..n
    OBVIOUS
  <1>2. \A x \in 1..n : g[x].idx \in 0..(n - 1)
    BY <1>1 DEF Dense
  <1>3. \A i \in 0..(n - 1) : \E x \in 1..n : g[x].idx = i
    BY <1>1 DEF Dense
  <1>4. f \in Surjection(1..n, 0..(n - 1))
    BY <1>2, <1>3 DEF Surjection
  <1>5. IsFiniteSet(1..n) /\ Cardinality(1..n) = Cardinality(0..(n - 1))
    <2>1. 0 \in Int /\ 1 \in Int /\ n \in Int /\ n - 1 \in Int
      BY <1>1
    <2>2. IsFiniteSet(1..n) /\ Cardinality(1..n) = IF 1 > n THEN 0 ELSE n - 1 + 1
      BY <2>1, FS_Interval
    <2>3. Cardinality(0..(n - 1)) = IF 0 > n - 1 THEN 0 ELSE (n - 1) - 0 + 1
      BY <2>1, FS_Interval
    <2> QED
      BY <1>1, <2>2, <2>3
  <1>6. f \in Injection(1..n, 0..(n - 1))
    BY <1>4, <1>5, FS_SurjSameCardinalityImpliesInj
  <1> QED
    BY <1>1, <1>6 DEF Injection, IsInjective

(* Of ooo_names without gaps, as many are below number i as i says.          *)
LEMMA DenseRank ==
    ASSUME NEW g \in Seq(Entry), Dense(g), NEW x \in DOMAIN g
    PROVE  Rank(g, x) = g[x].idx
  <1> DEFINE n == Len(g)
             B == {y \in DOMAIN g : g[y].idx < g[x].idx \/ (g[y].idx = g[x].idx /\ y < x)}
             C == 0..(g[x].idx - 1)
             f == [y \in B |-> g[y].idx]
  <1>1. /\ n \in Nat /\ DOMAIN g = 1..n
        /\ \A y \in DOMAIN g : g[y].idx \in 0..(n - 1)
        /\ \A i \in 0..(n - 1) : \E y \in DOMAIN g : g[y].idx = i
    <2>1. n \in Nat /\ DOMAIN g = 1..n
      OBVIOUS
    <2>2. \A y \in DOMAIN g : g[y].idx \in 0..(n - 1)
      BY DEF Dense
    <2>3. \A i \in 0..(n - 1) : \E y \in DOMAIN g : g[y].idx = i
      BY DEF Dense
    <2> QED
      BY <2>1, <2>2, <2>3
  <1>2. \A y, z \in DOMAIN g : g[y].idx = g[z].idx => y = z
    BY DenseInjective
  <1>3. B = {y \in DOMAIN g : g[y].idx < g[x].idx}
    BY <1>1, <1>2
  <1>4. f \in [B -> C]
    BY <1>1, <1>3
  <1>5. f \in Surjection(B, C)
    <2>1. ASSUME NEW i \in C
          PROVE  \E y \in B : f[y] = i
      <3>1. PICK y \in DOMAIN g : g[y].idx = i
        BY <1>1
      <3> QED
        BY <1>1, <1>3, <3>1
    <2> QED
      BY <1>4, <2>1 DEF Surjection
  <1>6. f \in Injection(B, C)
    BY <1>2, <1>4 DEF Injection, IsInjective
  <1>7. IsFiniteSet(B)
    <2>1. 1 \in Int /\ n \in Int
      BY <1>1
    <2>2. IsFiniteSet(1..n)
      BY <2>1, FS_Interval
    <2>3. B \subseteq 1..n
      BY <1>1
    <2> QED
      BY <2>2, <2>3, FS_Subset
  <1>8. Cardinality(C) = Cardinality(B)
    BY <1>5, <1>6, <1>7, FS_Surjection
  <1>9. Cardinality(C) = g[x].idx
    <2>1. g[x].idx \in Nat /\ 0 \in Int /\ g[x].idx - 1 \in Int
      BY <1>1
    <2>2. Cardinality(C) = IF 0 > g[x].idx - 1 THEN 0 ELSE (g[x].idx - 1) - 0 + 1
      BY <2>1, FS_Interval
    <2> QED
      BY <2>1, <2>2
  <1> QED
    BY <1>8, <1>9 DEF Rank

(* hostname_sort puts the host with ooo_name i at place i, counted from 0:   *)
(* the order in overcloud-env.sh is the order of the names.                  *)
THEOREM SortedByName ==
    ASSUME NEW g \in Seq(Entry), Dense(g), NEW p \in DOMAIN g
    PROVE  \E x \in DOMAIN g : g[x].idx = p - 1 /\ hostname_sort(g)[p] = g[x]
  <1>1. p - 1 \in 0..(Len(g) - 1)
    OBVIOUS
  <1>2. PICK x \in DOMAIN g : g[x].idx = p - 1
    BY <1>1 DEF Dense
  <1>3. Rank(g, x) = p - 1
    BY <1>2, DenseRank
  <1> DEFINE c == CHOOSE z \in DOMAIN g : Rank(g, z) = p - 1
  <1>4. c \in DOMAIN g /\ Rank(g, c) = p - 1
    BY <1>3
  <1>5. g[c].idx = p - 1
    BY <1>4, DenseRank
  <1> QED
    BY <1>4, <1>5 DEF hostname_sort
-----------------------------------------------------------------------------
(* The inductive invariant.  Everything that says which host has a name      *)
(* agrees with the inventory as it is now, although it was written from an   *)
(* older one: the lists of overcloud-env.sh, the copy overcloud-continue.sh  *)
(* works with, Heat's servers and what the hosts poll.                       *)
Agrees(r, i, h) == \E x \in DOMAIN inv[r] : inv[r][x].host = h /\ inv[r][x].idx = i
ListsAgree(e) ==
    /\ e \in [Roles -> Seq(Hosts)]
    /\ \A r \in Roles : \A p \in DOMAIN e[r] : Agrees(r, p - 1, e[r][p])

InvInv == inv \in [Roles -> Seq(Entry)] /\ Sound(inv)
LoadedInv ==
    /\ loaded \in [Roles -> Seq(Entry)]
    /\ \A r \in Roles : Dense(loaded[r]) /\ DOMAIN loaded[r] \subseteq DOMAIN inv[r]
    /\ \A r \in Roles : \A x \in DOMAIN loaded[r] : Agrees(r, loaded[r][x].idx, loaded[r][x].host)

(* A deploy that has come to Heat has rendered all files: a script that      *)
(* renders a single one ends there.                                          *)
RenderInv ==
    /\ script # "playbook" => only = 0
    /\ pc \in {"ssh", "heat", "update"} => script # "playbook"
    /\ task \in 1..Len(Tasks) /\ only \in 0..Len(Tasks)
    /\ pc = "gather" /\ only = 0 => task = 1
    /\ only = 0 /\ ((pc = "render" /\ task > 2) \/ pc \in {"ssh", "heat"}) =>
          hostnamemap = HostnameMapOf(loaded)
    /\ only = 0 /\ ((pc = "render" /\ task > 5) \/ pc \in {"ssh", "heat"}) =>
          rolecount = RoleCountOf(loaded)
    /\ pc = "update" => /\ plan.hostnamemap = HostnameMapOf(loaded)
                        /\ plan.rolecount = RoleCountOf(loaded)

StackInv ==
    /\ DOMAIN stack = Roles
    /\ \A r \in Roles :
          /\ \A x \in DOMAIN stack[r] : Agrees(r, x - 1, stack[r][x].host)
          /\ DOMAIN stack[r] \subseteq DOMAIN inv[r]
          /\ pc # "idle" => DOMAIN stack[r] \subseteq DOMAIN loaded[r]
OccInv ==
    /\ DOMAIN occ = Hosts
    /\ \A h \in Hosts, r \in Roles, i \in Nat : occ[h] = <<r, i>> => Agrees(r, i, h)
Inv ==
    /\ InvInv /\ LoadedInv /\ ListsAgree(env) /\ ListsAgree(cenv)
    /\ RenderInv /\ StackInv /\ OccInv /\ ctodo \in Seq(Roles)

(* A name has one host.                                                      *)
LEMMA OneHost ==
    ASSUME InvInv, NEW r \in Roles, NEW i, NEW h1, NEW h2, Agrees(r, i, h1), Agrees(r, i, h2)
    PROVE  h1 = h2
  <1>1. inv[r] \in Seq(Entry) /\ Dense(inv[r])
    BY DEF InvInv, Sound
  <1>2. \A x, y \in DOMAIN inv[r] : inv[r][x].idx = inv[r][y].idx => x = y
    BY <1>1, DenseInjective
  <1> QED
    BY <1>2 DEF Agrees

(* A list of hosts with one more entry: it has the old entries and the new   *)
(* one, no other, and no host twice if the new one is not in the old list.   *)
Grown(s, e, g) ==
    /\ g \in Seq(Entry) /\ Len(g) = Len(s) + 1
    /\ \A x \in DOMAIN s : \E y \in DOMAIN g : g[y] = s[x]
    /\ \E y \in DOMAIN g : g[y] = e
    /\ \A y \in DOMAIN g : g[y] = e \/ \E x \in DOMAIN s : g[y] = s[x]
    /\ (\A x, y \in DOMAIN s : s[x].host = s[y].host => x = y)
       /\ (\A x \in DOMAIN s : s[x].host # e.host)
       => \A x, y \in DOMAIN g : g[x].host = g[y].host => x = y

LEMMA AddedLast ==
    ASSUME NEW s \in Seq(Entry), NEW e \in Entry
    PROVE  Grown(s, e, Append(s, e))
  <1> DEFINE g == Append(s, e)
             n == Len(s)
  <1>1. n \in Nat /\ DOMAIN s = 1..n
    OBVIOUS
  <1>2. g \in Seq(Entry) /\ Len(g) = n + 1 /\ DOMAIN g = 1..(n + 1)
    BY <1>1
  <1>3. g[n + 1] = e /\ \A x \in 1..n : g[x] = s[x]
    BY <1>1
  <1>4. \A x \in DOMAIN s : x \in DOMAIN g /\ g[x] = s[x]
    BY <1>1, <1>2, <1>3
  <1>5. n + 1 \in DOMAIN g
    BY <1>1, <1>2
  <1>6. \A y \in DOMAIN g : y = n + 1 \/ y \in DOMAIN s
    BY <1>1, <1>2
  <1> HIDE DEF g, n
  <1>7. \A y \in DOMAIN g : g[y] = e \/ \E x \in DOMAIN s : g[y] = s[x]
    BY <1>3, <1>4, <1>6
  <1>8. ASSUME \A x, y \in DOMAIN s : s[x].host = s[y].host => x = y,
               \A x \in DOMAIN s : s[x].host # e.host,
               NEW x \in DOMAIN g, NEW y \in DOMAIN g, g[x].host = g[y].host
        PROVE  x = y
    BY <1>3, <1>4, <1>6, <1>8
  <1>9. Len(g) = Len(s) + 1
    BY <1>2 DEF n
  <1>10. Grown(s, e, g)
    BY <1>2, <1>9, <1>3, <1>4, <1>5, <1>7, <1>8 DEF Grown
  <1> QED
    BY <1>10 DEF g

LEMMA AddedFirst ==
    ASSUME NEW s \in Seq(Entry), NEW e \in Entry
    PROVE  Grown(s, e, <<e>> \o s)
  <1> DEFINE g == <<e>> \o s
             n == Len(s)
  <1>1. n \in Nat /\ DOMAIN s = 1..n
    OBVIOUS
  <1>2. g \in Seq(Entry) /\ Len(g) = n + 1 /\ DOMAIN g = 1..(n + 1)
    <2>1. <<e>> \in Seq(Entry) /\ Len(<<e>>) = 1
      OBVIOUS
    <2> QED
      BY <1>1, <2>1
  <1>3. g[1] = e /\ \A x \in 1..n : g[x + 1] = s[x]
    BY <1>1
  <1>4. \A x \in DOMAIN s : x + 1 \in DOMAIN g /\ g[x + 1] = s[x]
    BY <1>1, <1>2, <1>3
  <1>5. 1 \in DOMAIN g
    BY <1>1, <1>2
  <1>6. \A y \in DOMAIN g : y = 1 \/ (y - 1 \in DOMAIN s /\ y = (y - 1) + 1)
    BY <1>1, <1>2
  <1>7. \A y \in DOMAIN g : y = 1 \/ \E x \in DOMAIN s : y = x + 1
    BY <1>6
  <1> HIDE DEF g, n
  <1>8. \A y \in DOMAIN g : g[y] = e \/ \E x \in DOMAIN s : g[y] = s[x]
    BY <1>3, <1>4, <1>7
  <1>9. ASSUME \A x, y \in DOMAIN s : s[x].host = s[y].host => x = y,
               \A x \in DOMAIN s : s[x].host # e.host,
               NEW x \in DOMAIN g, NEW y \in DOMAIN g, g[x].host = g[y].host
        PROVE  x = y
    <2>1. CASE x = 1 /\ y = 1
      BY <2>1
    <2>2. CASE x = 1 /\ y # 1
      BY <1>3, <1>4, <1>7, <1>9, <2>2
    <2>3. CASE x # 1 /\ y = 1
      BY <1>3, <1>4, <1>7, <1>9, <2>3
    <2>4. CASE x # 1 /\ y # 1
      <3>1. PICK u \in DOMAIN s : x = u + 1 /\ g[x] = s[u]
        BY <1>4, <1>7, <2>4
      <3>2. PICK v \in DOMAIN s : y = v + 1 /\ g[y] = s[v]
        BY <1>4, <1>7, <2>4
      <3> QED
        BY <1>9, <3>1, <3>2
    <2> QED
      BY <2>1, <2>2, <2>3, <2>4
  <1>10. Len(g) = Len(s) + 1
    BY <1>2 DEF n
  <1>11. Grown(s, e, g)
    BY <1>2, <1>10, <1>3, <1>4, <1>5, <1>8, <1>9 DEF Grown
  <1> QED
    BY <1>11 DEF g

(* A host that is added changes no name there was, and gets one that fits.   *)
LEMMA AddKeeps ==
    ASSUME InvInv, NEW r \in Roles, NEW h \in Hosts, AddHost(r, h)
    PROVE  /\ InvInv'
           /\ \A s \in Roles : DOMAIN inv[s] \subseteq DOMAIN inv'[s]
           /\ \A s \in Roles : \A i, k : Agrees(s, i, k) => Agrees(s, i, k)'
  <1> DEFINE n == Len(inv[r])
             e == [host |-> h, idx |-> n]
  <1>1. inv[r] \in Seq(Entry) /\ Dense(inv[r]) /\ n \in Nat /\ DOMAIN inv[r] = 1..n
    BY DEF InvInv, Sound
  <1>2. e \in Entry
    BY <1>1 DEF Entry
  <1>3. PICK g : g \in {Append(inv[r], e), <<e>> \o inv[r]} /\ inv' = [inv EXCEPT ![r] = g]
    BY DEF AddHost
  <1>4. Grown(inv[r], e, g)
    BY <1>1, <1>2, <1>3, AddedLast, AddedFirst
  <1>5. g \in Seq(Entry) /\ Len(g) = n + 1 /\ DOMAIN g = 1..(n + 1)
    BY <1>1, <1>4 DEF Grown
  <1>6. inv' \in [Roles -> Seq(Entry)] /\ inv'[r] = g /\ \A s \in Roles : s # r => inv'[s] = inv[s]
    BY <1>3, <1>5 DEF InvInv
  <1>7. e.host = h /\ e.idx = n
    OBVIOUS
  <1> HIDE DEF e
  <1>8. Dense(g)
    <2>1. ASSUME NEW y \in DOMAIN g
          PROVE  g[y].idx \in 0..n
      <3>1. \A x \in DOMAIN inv[r] : inv[r][x].idx \in 0..(n - 1)
        BY <1>1 DEF Dense
      <3>2. g[y] = e \/ \E x \in DOMAIN inv[r] : g[y] = inv[r][x]
        BY <1>4 DEF Grown
      <3> QED
        BY <1>1, <1>7, <3>1, <3>2
    <2>2. ASSUME NEW i \in 0..n
          PROVE  \E y \in DOMAIN g : g[y].idx = i
      <3>1. CASE i = n
        BY <1>4, <1>7, <3>1 DEF Grown
      <3>2. CASE i # n
        <4>1. i \in 0..(n - 1)
          BY <1>1, <3>2
        <4>2. PICK x \in DOMAIN inv[r] : inv[r][x].idx = i
          BY <1>1, <4>1 DEF Dense
        <4> QED
          BY <1>4, <4>2 DEF Grown
      <3> QED
        BY <3>1, <3>2
    <2>3. Len(g) - 1 = n
      BY <1>1, <1>5
    <2>4. {g[y].idx : y \in DOMAIN g} = 0..n
      BY <2>1, <2>2
    <2> QED
      BY <2>3, <2>4 DEF Dense
  <1>9. OneRole(inv')
    <2>1. \A u \in Roles : \A x \in DOMAIN inv[u] : inv[u][x].host # h
      BY DEF AddHost, HostsIn
    <2>2. OneRole(inv)
      BY DEF InvInv, Sound
    <2>3. \A x, y \in DOMAIN inv[r] : inv[r][x].host = inv[r][y].host => x = y
      BY <2>2 DEF OneRole
    <2>4. \A x, y \in DOMAIN g : g[x].host = g[y].host => x = y
      BY <1>4, <1>7, <2>1, <2>3 DEF Grown
    <2>5. \A y \in DOMAIN g : g[y].host = h \/ \E x \in DOMAIN inv[r] : g[y].host = inv[r][x].host
      BY <1>4, <1>7 DEF Grown
    <2> SUFFICES ASSUME NEW s \in Roles, NEW t \in Roles,
                        NEW y \in DOMAIN inv'[s], NEW z \in DOMAIN inv'[t],
                        inv'[s][y].host = inv'[t][z].host
                 PROVE  s = t /\ y = z
      BY DEF OneRole
    <2>6. CASE s = r /\ t = r
      BY <1>6, <2>4, <2>6
    <2>7. CASE s = r /\ t # r
      BY <1>6, <2>1, <2>2, <2>5, <2>7 DEF OneRole
    <2>8. CASE s # r /\ t = r
      BY <1>6, <2>1, <2>2, <2>5, <2>8 DEF OneRole
    <2>9. CASE s # r /\ t # r
      BY <1>6, <2>2, <2>9 DEF OneRole
    <2> QED
      BY <2>6, <2>7, <2>8, <2>9
  <1>10. InvInv'
    BY <1>6, <1>8, <1>9 DEF InvInv, Sound
  <1>11. \A s \in Roles : DOMAIN inv[s] \subseteq DOMAIN inv'[s]
    <2>1. DOMAIN inv[r] \subseteq DOMAIN g
      BY <1>1, <1>5
    <2> QED
      BY <1>6, <2>1
  <1>12. \A s \in Roles : \A i, k : Agrees(s, i, k) => Agrees(s, i, k)'
    <2>1. \A s \in Roles : \A x \in DOMAIN inv[s] : \E y \in DOMAIN inv'[s] : inv'[s][y] = inv[s][x]
      BY <1>4, <1>6 DEF Grown
    <2> QED
      BY <2>1 DEF Agrees
  <1> QED
    BY <1>10, <1>11, <1>12

(* The lists that are rendered agree with the inventory they were rendered   *)
(* from, hence with every later one.                                         *)
LEMMA EnvAgrees ==
    ASSUME LoadedInv
    PROVE  ListsAgree(EnvOf(loaded))
  <1>1. ASSUME NEW r \in Roles, NEW p \in DOMAIN loaded[r]
        PROVE  /\ hostname_sort(loaded[r])[p].host \in Hosts
               /\ Agrees(r, p - 1, hostname_sort(loaded[r])[p].host)
    <2>1. loaded[r] \in Seq(Entry) /\ Dense(loaded[r])
      BY DEF LoadedInv
    <2>2. PICK x \in DOMAIN loaded[r] :
             loaded[r][x].idx = p - 1 /\ hostname_sort(loaded[r])[p] = loaded[r][x]
      BY <2>1, SortedByName
    <2>3. loaded[r][x] \in Entry
      BY <2>1
    <2> QED
      BY <2>2, <2>3 DEF LoadedInv, Entry
  <1>2. \A r \in Roles : EnvOf(loaded)[r] \in Seq(Hosts) /\ DOMAIN EnvOf(loaded)[r] = DOMAIN loaded[r]
    <2>1. ASSUME NEW r \in Roles
          PROVE  EnvOf(loaded)[r] \in Seq(Hosts) /\ DOMAIN EnvOf(loaded)[r] = DOMAIN loaded[r]
      <3> DEFINE q == [p \in DOMAIN loaded[r] |-> hostname_sort(loaded[r])[p].host]
                 n == Len(loaded[r])
      <3>1. EnvOf(loaded)[r] = q
        BY DEF EnvOf
      <3>2. n \in Nat /\ DOMAIN loaded[r] = 1..n
        BY DEF LoadedInv
      <3>3. q \in [1..n -> Hosts]
        BY <1>1, <3>2
      <3>4. q \in Seq(Hosts)
        BY <3>2, <3>3
      <3>5. DOMAIN q = DOMAIN loaded[r]
        OBVIOUS
      <3> QED
        BY <3>1, <3>4, <3>5
    <2> QED
      BY <2>1
  <1> QED
    BY <1>1, <1>2 DEF ListsAgree, EnvOf

(* HostnameMap has an entry for every server that is counted, and it agrees. *)
LEMMA MapAgrees ==
    ASSUME LoadedInv, NEW r \in Roles, NEW x \in 1..RoleCountOf(loaded)[r]
    PROVE  /\ <<r, x - 1>> \in DOMAIN HostnameMapOf(loaded)
           /\ Agrees(r, x - 1, HostnameMapOf(loaded)[<<r, x - 1>>])
           /\ x \in DOMAIN loaded[r]
  <1> DEFINE g == loaded[r]
  <1>1. g \in Seq(Entry) /\ Dense(g) /\ Len(g) \in Nat /\ x \in 1..Len(g)
    BY DEF LoadedInv, RoleCountOf
  <1>2. PICK y \in DOMAIN g : g[y].idx = x - 1
    <2>1. x - 1 \in 0..(Len(g) - 1)
      BY <1>1
    <2> QED
      BY <1>1, <2>1 DEF Dense
  <1>3. <<r, x - 1>> \in NamesIn(loaded)
    BY <1>2 DEF NamesIn
  <1> DEFINE c == CHOOSE z \in DOMAIN g : g[z].idx = x - 1
  <1>4. c \in DOMAIN g /\ g[c].idx = x - 1
    BY <1>2
  <1>5. HostnameMapOf(loaded)[<<r, x - 1>>] = g[c].host
    BY <1>3 DEF HostnameMapOf
  <1> QED
    BY <1>1, <1>3, <1>4, <1>5 DEF HostnameMapOf, LoadedInv
-----------------------------------------------------------------------------
LEMMA InvInit ==
    ASSUME Init
    PROVE  Inv
  <1>1. InvInv
    BY InventoryAssumption DEF Init, InvInv
  <1>2. NoLists \in [Roles -> Seq(Entry)] /\ NoLists \in [Roles -> Seq(Hosts)]
        /\ \A r \in Roles : DOMAIN NoLists[r] = {} /\ NoLists[r] = << >>
    BY DEF NoLists
  <1>3. \A r \in Roles : Dense(NoLists[r])
    BY <1>2 DEF Dense
  <1>4. LoadedInv
    BY <1>2, <1>3 DEF Init, LoadedInv
  <1>5. ListsAgree(env) /\ ListsAgree(cenv)
    BY <1>2 DEF Init, ListsAgree
  <1>6. RenderInv
    BY DEF Init, RenderInv, Tasks
  <1>7. StackInv
    BY <1>2 DEF Init, StackInv, NoLists
  <1>8. OccInv
    BY SentinelAssumption DEF Init, OccInv
  <1>9. ctodo \in Seq(Roles)
    BY DEF Init
  <1> QED
    BY <1>1, <1>4, <1>5, <1>6, <1>7, <1>8, <1>9 DEF Inv

(* A step that leaves the names as they are, or adds one, does no harm to    *)
(* what it leaves alone.                                                     *)
NamesStay ==
    /\ InvInv'
    /\ \A s \in Roles : DOMAIN inv[s] \subseteq DOMAIN inv'[s]
    /\ \A s \in Roles : \A i, k : Agrees(s, i, k) => Agrees(s, i, k)'
LEMMA LoadedStays ==
    ASSUME LoadedInv, NamesStay, UNCHANGED loaded
    PROVE  LoadedInv'
  BY DEF LoadedInv, NamesStay
LEMMA ListsStay ==
    ASSUME NEW e, NamesStay, ListsAgree(e)
    PROVE  /\ e \in [Roles -> Seq(Hosts)]
           /\ \A r \in Roles : \A p \in DOMAIN e[r] : Agrees(r, p - 1, e[r][p])'
  BY DEF ListsAgree, NamesStay
LEMMA EnvStays ==
    ASSUME ListsAgree(env), NamesStay, UNCHANGED env
    PROVE  ListsAgree(env)'
  BY ListsStay DEF ListsAgree
LEMMA CenvStays ==
    ASSUME ListsAgree(cenv), NamesStay, UNCHANGED cenv
    PROVE  ListsAgree(cenv)'
  BY ListsStay DEF ListsAgree
LEMMA StackStays ==
    ASSUME StackInv, NamesStay, UNCHANGED <<stack, loaded>>, pc' # "idle" => pc # "idle"
    PROVE  StackInv'
  BY DEF StackInv, NamesStay
LEMMA OccStays ==
    ASSUME OccInv, NamesStay, UNCHANGED occ
    PROVE  OccInv'
  BY DEF OccInv, NamesStay
LEMMA SameNames ==
    ASSUME InvInv, UNCHANGED inv
    PROVE  NamesStay
  BY DEF NamesStay, InvInv, Agrees

(* Every step preserves the invariant. *)
LEMMA InvNext ==
    ASSUME MayReassign = FALSE, Inv, [Next]_vars
    PROVE  Inv'
  <1> USE DEF world, files, args, deploying, continuing
  <1>1. /\ InvInv /\ LoadedInv /\ ListsAgree(env) /\ ListsAgree(cenv)
        /\ RenderInv /\ StackInv /\ OccInv /\ ctodo \in Seq(Roles)
    BY DEF Inv
  <1>2. ASSUME NEW r \in Roles, NEW h \in Hosts, AddHost(r, h)
        PROVE  Inv'
    <2>1. NamesStay
      BY <1>1, <1>2, AddKeeps DEF NamesStay
    <2>2. UNCHANGED <<facts, files, deploying, stack, continuing, occ>>
      BY <1>2 DEF AddHost
    <2>3. RenderInv'
      BY <1>1, <2>2 DEF RenderInv
    <2> QED
      BY <1>1, <2>1, <2>2, <2>3, LoadedStays, EnvStays, CenvStays, StackStays, OccStays
         DEF NamesStay, Inv
  <1>3. CASE \E h \in Hosts, a \in Addrs : Move(h, a)
    <2>1. UNCHANGED <<inv, loaded, env, cenv, stack, occ, ctodo>>
      BY <1>3 DEF Move
    <2>2. pc' # "idle" => pc # "idle"
      BY <1>3 DEF Move
    <2>3. RenderInv'
      BY <1>1, <1>3 DEF Move, RenderInv
    <2> QED
      BY <1>1, <2>1, <2>2, <2>3, SameNames, LoadedStays, EnvStays, CenvStays, StackStays, OccStays
         DEF NamesStay, Inv
  <1>4. CASE Gather
    <2>1. UNCHANGED <<inv, loaded, env, cenv, stack, occ, ctodo>>
      BY <1>4 DEF Gather
    <2>2. pc' # "idle" => pc # "idle"
      BY <1>4 DEF Gather
    <2>3. RenderInv'
      BY <1>1, <1>4 DEF Gather, RenderInv
    <2> QED
      BY <1>1, <2>1, <2>2, <2>3, SameNames, LoadedStays, EnvStays, CenvStays, StackStays, OccStays
         DEF NamesStay, Inv
  <1>5. CASE GatherFails
    <2>1. UNCHANGED <<inv, loaded, env, cenv, stack, occ, ctodo>>
      BY <1>5 DEF GatherFails
    <2>2. pc' # "idle" => pc # "idle"
      BY <1>5 DEF GatherFails
    <2>3. RenderInv'
      BY <1>1, <1>5 DEF GatherFails, RenderInv
    <2> QED
      BY <1>1, <2>1, <2>2, <2>3, SameNames, LoadedStays, EnvStays, CenvStays, StackStays, OccStays
         DEF NamesStay, Inv
  <1>6. CASE RenderFails
    <2>1. UNCHANGED <<inv, loaded, env, cenv, stack, occ, ctodo>>
      BY <1>6 DEF RenderFails
    <2>2. pc' # "idle" => pc # "idle"
      BY <1>6 DEF RenderFails
    <2>3. RenderInv'
      BY <1>1, <1>6 DEF RenderFails, RenderInv
    <2> QED
      BY <1>1, <2>1, <2>2, <2>3, SameNames, LoadedStays, EnvStays, CenvStays, StackStays, OccStays
         DEF NamesStay, Inv
  <1>7. CASE EnableSsh
    <2>1. UNCHANGED <<inv, loaded, env, cenv, stack, occ, ctodo>>
      BY <1>7 DEF EnableSsh
    <2>2. pc' # "idle" => pc # "idle"
      BY <1>7 DEF EnableSsh
    <2>3. RenderInv'
      BY <1>1, <1>7 DEF EnableSsh, RenderInv
    <2> QED
      BY <1>1, <2>1, <2>2, <2>3, SameNames, LoadedStays, EnvStays, CenvStays, StackStays, OccStays
         DEF NamesStay, Inv
  <1>8. CASE ScriptFails
    <2>1. UNCHANGED <<inv, loaded, env, cenv, stack, occ, ctodo>>
      BY <1>8 DEF ScriptFails
    <2>2. pc' # "idle" => pc # "idle"
      BY <1>8 DEF ScriptFails
    <2>3. RenderInv'
      BY <1>1, <1>8 DEF ScriptFails, RenderInv
    <2> QED
      BY <1>1, <2>1, <2>2, <2>3, SameNames, LoadedStays, EnvStays, CenvStays, StackStays, OccStays
         DEF NamesStay, Inv
  <1>9. CASE HeatStart
    <2>1. UNCHANGED <<inv, loaded, env, cenv, stack, occ, ctodo>>
      BY <1>9 DEF HeatStart
    <2>2. pc' # "idle" => pc # "idle"
      BY <1>9 DEF HeatStart
    <2>3. RenderInv'
      BY <1>1, <1>9 DEF HeatStart, RenderInv
    <2> QED
      BY <1>1, <2>1, <2>2, <2>3, SameNames, LoadedStays, EnvStays, CenvStays, StackStays, OccStays
         DEF NamesStay, Inv
  <1>10. CASE HeatDone
    <2>1. UNCHANGED <<inv, loaded, env, cenv, stack, occ, ctodo>>
      BY <1>10 DEF HeatDone
    <2>2. pc' # "idle" => pc # "idle"
      BY <1>10 DEF HeatDone
    <2>3. RenderInv'
      BY <1>1, <1>10 DEF HeatDone, RenderInv
    <2> QED
      BY <1>1, <2>1, <2>2, <2>3, SameNames, LoadedStays, EnvStays, CenvStays, StackStays, OccStays
         DEF NamesStay, Inv
  <1>11. CASE HeatFails
    <2>1. UNCHANGED <<inv, loaded, env, cenv, stack, occ, ctodo>>
      BY <1>11 DEF HeatFails
    <2>2. pc' # "idle" => pc # "idle"
      BY <1>11 DEF HeatFails
    <2>3. RenderInv'
      BY <1>1, <1>11 DEF HeatFails, RenderInv
    <2> QED
      BY <1>1, <2>1, <2>2, <2>3, SameNames, LoadedStays, EnvStays, CenvStays, StackStays, OccStays
         DEF NamesStay, Inv
  <1>12. CASE UNCHANGED vars
    <2>1. UNCHANGED <<inv, loaded, env, cenv, stack, occ, ctodo>>
      BY <1>12 DEF vars
    <2>2. pc' # "idle" => pc # "idle"
      BY <1>12 DEF vars
    <2>3. RenderInv'
      BY <1>1, <1>12 DEF vars, RenderInv
    <2> QED
      BY <1>1, <2>1, <2>2, <2>3, SameNames, LoadedStays, EnvStays, CenvStays, StackStays, OccStays
         DEF NamesStay, Inv
  <1>13. ASSUME NEW sc \in Scripts, NEW skip \in BOOLEAN, NEW one \in Tagged, Start(sc, skip, one)
        PROVE  Inv'
    <2>1. UNCHANGED <<inv, env, cenv, stack, occ, ctodo>> /\ loaded' = inv
      BY <1>13 DEF Start
    <2>2. NamesStay
      BY <1>1, <2>1, SameNames
    <2>3. LoadedInv'
      BY <1>1, <2>1 DEF InvInv, Sound, LoadedInv, Agrees
    <2>4. RenderInv'
      BY <1>13, TagAssumption DEF Start, RenderInv, Tasks
    <2>5. StackInv'
      BY <1>1, <2>1 DEF StackInv, Agrees
    <2> QED
      BY <1>1, <2>1, <2>2, <2>3, <2>4, <2>5, EnvStays, CenvStays, OccStays DEF NamesStay, Inv
  <1>14. CASE Render
    <2>1. /\ UNCHANGED <<inv, loaded, cenv, stack, occ, ctodo, script, only, plan>>
          /\ pc = "render" /\ pc' # "idle"
      BY <1>14 DEF Render, Write
    <2>2. NamesStay
      BY <1>1, <2>1, SameNames
    <2>3. ListsAgree(env)'
      <3>1. CASE env' = env
        BY <1>1, <2>2, <3>1, EnvStays
      <3>2. CASE env' = EnvOf(loaded)
        <4>1. ListsAgree(EnvOf(loaded))
          BY <1>1, EnvAgrees
        <4> QED
          BY <2>1, <3>2, <4>1 DEF ListsAgree, Agrees
      <3> QED
        BY <1>14, <3>1, <3>2 DEF Render, Write
    <2>4. RenderInv'
      <3>1. task \in 1..7 /\ only \in 0..7 /\ Len(Tasks) = 7
        BY <1>1 DEF RenderInv, Tasks
      <3>2. (Tasks[task] = "hostnamemap" <=> task = 2) /\ (Tasks[task] = "rolecount" <=> task = 5)
        BY <3>1 DEF Tasks
      <3>3. /\ hostnamemap' = IF task = 2 THEN HostnameMapOf(loaded) ELSE hostnamemap
            /\ rolecount' = IF task = 5 THEN RoleCountOf(loaded) ELSE rolecount
        BY <1>14, <3>2 DEF Render, Write
      <3>4. \/ task < 7 /\ task' = task + 1 /\ pc' = "render"
            \/ only # 0 /\ task' = task /\ pc' \in {"done", "ssh"}
            \/ task = 7 /\ task' = task /\ pc' \in {"done", "ssh"}
        BY <1>14, <3>1 DEF Render, LastTask
      <3>5. pc' = "ssh" => script # "playbook"
        BY <1>14 DEF Render
      <3> QED
        BY <1>1, <2>1, <3>1, <3>3, <3>4, <3>5 DEF RenderInv
    <2> QED
      BY <1>1, <2>1, <2>2, <2>3, <2>4, LoadedStays, CenvStays, StackStays, OccStays
         DEF NamesStay, Inv
  <1>15. ASSUME NEW r \in Roles, HeatRole(r)
        PROVE  Inv'
    <2>1. /\ UNCHANGED <<inv, loaded, env, cenv, occ, ctodo, pc, script, only, task, plan>>
          /\ UNCHANGED <<hostnamemap, rolecount>> /\ pc = "update"
      BY <1>15 DEF HeatRole
    <2>2. NamesStay
      BY <1>1, <2>1, SameNames
    <2>3. RenderInv'
      BY <1>1, <2>1 DEF RenderInv
    <2>4. StackInv'
      <3> DEFINE q == [x \in 1..plan.rolecount[r] |-> ServerOf(r, x - 1)]
      <3>1. stack' = [stack EXCEPT ![r] = q]
        BY <1>15 DEF HeatRole
      <3>2. DOMAIN stack' = Roles /\ stack'[r] = q /\ \A s \in Roles : s # r => stack'[s] = stack[s]
        BY <1>1, <3>1 DEF StackInv
      <3>3. plan.hostnamemap = HostnameMapOf(loaded) /\ plan.rolecount = RoleCountOf(loaded)
        BY <1>1, <2>1 DEF RenderInv
      <3>4. ASSUME NEW x \in DOMAIN q
            PROVE  Agrees(r, x - 1, q[x].host) /\ x \in DOMAIN loaded[r]
        <4>1. x \in 1..RoleCountOf(loaded)[r]
          BY <3>3
        <4>2. /\ <<r, x - 1>> \in DOMAIN HostnameMapOf(loaded)
              /\ Agrees(r, x - 1, HostnameMapOf(loaded)[<<r, x - 1>>])
              /\ x \in DOMAIN loaded[r]
          BY <1>1, <4>1, MapAgrees
        <4>3. q[x] = ServerOf(r, x - 1)
          OBVIOUS
        <4>4. q[x].host = HostnameMapOf(loaded)[<<r, x - 1>>]
          BY <3>3, <4>2, <4>3 DEF ServerOf
        <4> QED
          BY <4>2, <4>4
      <3> HIDE DEF q
      <3>5. DOMAIN loaded[r] \subseteq DOMAIN inv[r]
        BY <1>1 DEF LoadedInv
      <3>7. ASSUME NEW s \in Roles
            PROVE  /\ \A x \in DOMAIN stack'[s] : Agrees(s, x - 1, stack'[s][x].host)
                   /\ DOMAIN stack'[s] \subseteq DOMAIN inv'[s]
                   /\ pc' # "idle" => DOMAIN stack'[s] \subseteq DOMAIN loaded'[s]
        <4>1. CASE s = r
          BY <2>1, <3>2, <3>4, <3>5, <4>1
        <4>2. CASE s # r
          BY <1>1, <2>1, <3>2, <4>2 DEF StackInv
        <4> QED
          BY <4>1, <4>2
      <3> QED
        BY <2>1, <3>2, <3>7 DEF StackInv, Agrees
    <2> QED
      BY <1>1, <2>1, <2>2, <2>3, <2>4, LoadedStays, EnvStays, CenvStays, OccStays
         DEF NamesStay, Inv
  <1>16. CASE End
    <2>1. UNCHANGED <<inv, env, cenv, stack, occ, ctodo>> /\ loaded' = NoLists /\ pc' = "idle"
      BY <1>16 DEF End
    <2>2. NamesStay
      BY <1>1, <2>1, SameNames
    <2>3. LoadedInv'
      <3>1. NoLists \in [Roles -> Seq(Entry)] /\ \A r \in Roles : DOMAIN NoLists[r] = {} /\ NoLists[r] = << >>
        BY DEF NoLists
      <3>2. \A r \in Roles : Dense(NoLists[r])
        BY <3>1 DEF Dense
      <3> QED
        BY <2>1, <3>1, <3>2 DEF LoadedInv
    <2>4. RenderInv'
      BY <1>16 DEF End, RenderInv, Tasks
    <2>5. StackInv'
      BY <1>1, <2>1 DEF StackInv, Agrees
    <2> QED
      BY <1>1, <2>1, <2>2, <2>3, <2>4, <2>5, EnvStays, CenvStays, OccStays DEF NamesStay, Inv
  <1>17. CASE ContinueStart
    <2>1. /\ UNCHANGED <<inv, loaded, env, stack, occ, deploying, files>>
          /\ cenv' = env /\ ctodo' = OvercloudRoles
      BY <1>17 DEF ContinueStart
    <2>2. NamesStay
      BY <1>1, <2>1, SameNames
    <2>3. RenderInv'
      BY <1>1, <2>1 DEF RenderInv
    <2>4. ListsAgree(cenv)'
      BY <1>1, <2>1 DEF ListsAgree, Agrees
    <2> QED
      BY <1>1, <2>1, <2>2, <2>3, <2>4, RoleAssumption, LoadedStays, EnvStays, StackStays, OccStays
         DEF NamesStay, Inv
  <1>18. ASSUME NEW r \in Roles, ContinueRole(r) \/ ContinuePartly(r)
        PROVE  Inv'
    <2>1. /\ UNCHANGED <<inv, loaded, env, cenv, stack, deploying, files>>
          /\ ctodo' = Tail(ctodo) /\ ctodo # << >>
          /\ \E S \in SUBSET PairsOf(r) : Pair(r, S)
      BY <1>18 DEF ContinueRole, ContinuePartly
    <2>2. NamesStay
      BY <1>1, <2>1, SameNames
    <2>3. RenderInv'
      BY <1>1, <2>1 DEF RenderInv
    <2>4. ctodo' \in Seq(Roles)
      BY <1>1, <2>1
    <2>5. OccInv'
      <3>1. PICK S \in SUBSET PairsOf(r) : Pair(r, S)
        BY <2>1
      <3>2. DOMAIN occ' = Hosts
        BY <3>1 DEF Pair
      <3>3. ASSUME NEW h \in Hosts, NEW s \in Roles, NEW i \in Nat, occ'[h] = <<s, i>>
            PROVE  Agrees(s, i, h)
        <4>1. CASE \E x \in S : cenv[r][x] = h
          <5> DEFINE c == CHOOSE x \in S : cenv[r][x] = h
          <5>1. c \in S /\ cenv[r][c] = h
            BY <4>1
          <5>2. occ'[h] = <<r, c - 1>>
            BY <3>1, <4>1 DEF Pair
          <5>3. s = r /\ i = c - 1
            BY <3>3, <5>2
          <5>4. c \in DOMAIN cenv[r]
            BY <5>1 DEF PairsOf
          <5> QED
            BY <1>1, <5>1, <5>3, <5>4 DEF ListsAgree
        <4>2. CASE ~ \E x \in S : cenv[r][x] = h
          BY <1>1, <3>1, <3>3, <4>2 DEF Pair, OccInv
        <4> QED
          BY <4>1, <4>2
      <3> QED
        BY <2>2, <3>2, <3>3 DEF NamesStay, OccInv
    <2> QED
      BY <1>1, <2>1, <2>2, <2>3, <2>4, <2>5, LoadedStays, EnvStays, CenvStays, StackStays
         DEF NamesStay, Inv
  <1>19. CASE ContinueEnd
    <2>1. /\ UNCHANGED <<inv, loaded, env, stack, occ, deploying, files>>
          /\ cenv' = NoLists /\ ctodo' = << >>
      BY <1>19 DEF ContinueEnd
    <2>2. NamesStay
      BY <1>1, <2>1, SameNames
    <2>3. RenderInv'
      BY <1>1, <2>1 DEF RenderInv
    <2>4. ListsAgree(cenv)'
      BY <2>1 DEF ListsAgree, NoLists
    <2> QED
      BY <1>1, <2>1, <2>2, <2>3, <2>4, LoadedStays, EnvStays, StackStays, OccStays
         DEF NamesStay, Inv
  <1> QED
    BY <1>2, <1>3, <1>4, <1>5, <1>6, <1>7, <1>8, <1>9, <1>10, <1>11, <1>12, <1>13, <1>14, <1>15, <1>16, <1>17, <1>18, <1>19
       DEF Next, Edit, Begin, Work, Continue, Reassign, RemoveLast

THEOREM Invariance ==
    ASSUME MayReassign = FALSE
    PROVE  Spec => []Inv
  <1>1. Init => Inv
    BY InvInit
  <1>2. Inv /\ [Next]_vars => Inv'
    BY InvNext
  <1> QED
    BY <1>1, <1>2, PTL DEF Spec

(* While ooo_names are only added, no host polls the metadata of a server    *)
(* that Heat has under another host's name, whatever fails and whichever     *)
(* overcloud-env.sh overcloud-continue.sh sources.                           *)
THEOREM HostsPairedRight ==
    ASSUME MayReassign = FALSE
    PROVE  Spec => []PairingSound
  <1>1. Inv => PairingSound
    <2> SUFFICES ASSUME Inv, NEW h \in Hosts, NEW r \in Roles, NEW x \in DOMAIN stack[r],
                        occ[h] = <<r, x - 1>>
                 PROVE  stack[r][x].host = h
      BY DEF PairingSound
    <2>1. InvInv /\ inv[r] \in Seq(Entry) /\ x \in DOMAIN inv[r]
      BY DEF Inv, InvInv, StackInv
    <2>2. x - 1 \in Nat
      BY <2>1
    <2>3. Agrees(r, x - 1, h) /\ Agrees(r, x - 1, stack[r][x].host)
      BY <2>2 DEF Inv, OccInv, StackInv
    <2> QED
      BY <2>1, <2>3, OneHost
  <1> QED
    BY <1>1, Invariance, PTL

(* While ooo_names are only added, a deploy keeps every server there is for  *)
(* the host it was made for.                                                 *)
THEOREM ServersKept ==
    ASSUME MayReassign = FALSE
    PROVE  Spec => ServersStay
  <1> DEFINE Stay == \A r \in Roles : \A x \in DOMAIN stack[r] :
                        x \in DOMAIN stack'[r] /\ stack'[r][x].host = stack[r][x].host
  <1>1. Inv /\ Inv' /\ [Next]_vars => [Stay]_vars
    <2> SUFFICES ASSUME Inv, Inv', Next
                 PROVE  Stay
      OBVIOUS
    <2>1. CASE \E r \in Roles : HeatRole(r)
      <3>1. PICK r \in Roles : HeatRole(r)
        BY <2>1
      <3>2. UNCHANGED <<inv, loaded>> /\ pc = "update"
            /\ stack' = [stack EXCEPT ![r] = [x \in 1..plan.rolecount[r] |-> ServerOf(r, x - 1)]]
        BY <3>1 DEF HeatRole, world, args
      <3>3. DOMAIN stack = Roles /\ plan.rolecount = RoleCountOf(loaded)
        BY <3>2 DEF Inv, StackInv, RenderInv
      <3>4. DOMAIN stack'[r] = 1..Len(loaded[r]) /\ \A s \in Roles : s # r => stack'[s] = stack[s]
        BY <3>2, <3>3 DEF RoleCountOf
      <3>5. DOMAIN stack[r] \subseteq DOMAIN loaded[r] /\ loaded[r] \in Seq(Entry)
        BY <3>2 DEF Inv, StackInv, LoadedInv
      <3>6. ASSUME NEW x \in DOMAIN stack[r]
            PROVE  x \in DOMAIN stack'[r] /\ stack'[r][x].host = stack[r][x].host
        <4>1. x \in DOMAIN stack'[r]
          BY <3>4, <3>5
        <4>2. Agrees(r, x - 1, stack[r][x].host)
          BY DEF Inv, StackInv
        <4>3. Agrees(r, x - 1, stack'[r][x].host)
          <5>1. StackInv'
            BY DEF Inv
          <5>2. \A y \in DOMAIN stack'[r] : Agrees(r, y - 1, stack'[r][y].host)
            BY <3>2, <5>1 DEF StackInv, Agrees
          <5> QED
            BY <4>1, <5>2
        <4> QED
          BY <4>1, <4>2, <4>3, OneHost DEF Inv
      <3> QED
        BY <3>4, <3>6
    <2>2. CASE ~ \E r \in Roles : HeatRole(r)
      <3>1. stack' = stack
        BY <2>2 DEF Next, Edit, Begin, Work, Continue, AddHost, Reassign, RemoveLast, Move,
                    Start, Gather, GatherFails, Render, RenderFails, EnableSsh, ScriptFails,
                    HeatStart, HeatDone, HeatFails, End, ContinueStart, ContinueRole,
                    ContinuePartly, ContinueEnd
      <3> QED
        BY <3>1
    <2> QED
      BY <2>1, <2>2
  <1> QED
    BY <1>1, Invariance, PTL DEF ServersStay, Spec

-----------------------------------------------------------------------------
(***************************************************************************)
(* What OvercloudDeploy gives to Heat and gets from it, however the        *)
(* inventory is edited and whatever failed before: all the files of a      *)
(* deploy are of one load of the inventory, every file and server has its  *)
(* type, and the servers of a deploy that succeeds are those of the        *)
(* inventory.                                                              *)
(***************************************************************************)
(* The files of the tasks before task n hold what was loaded and gathered.   *)
RenderedTo(n) ==
    /\ n > 2 => hostnamemap = HostnameMapOf(loaded)
    /\ n > 3 => portmap = PortMapOf(loaded, facts)
    /\ n > 4 => fencing = FencingOf(loaded)
    /\ n > 5 => rolecount = RoleCountOf(loaded)

(* The inductive invariant: a script that goes on to Heat renders all files, *)
(* in order, and nothing gathers facts between the first and Heat.           *)
OneLoad ==
    /\ task \in 1..Len(Tasks) /\ only \in 0..Len(Tasks)
    /\ script # "playbook" => only = 0
    /\ script # "playbook" /\ pc = "gather" => task = 1
    /\ script # "playbook" /\ pc = "render" => RenderedTo(task)
    /\ script # "playbook" /\ pc \in {"ssh", "heat"} => RenderedTo(Len(Tasks))
    /\ pc = "heat" => script # "playbook"
    /\ PlanFromOneLoad

(* The plan is sent in one step and changed by no later one.                 *)
LEMMA OneLoadNext ==
    ASSUME OneLoad, [Next]_vars
    PROVE  OneLoad'
  <1> USE DEF world, files, args, deploying, continuing
  <1>0. Len(Tasks) = 7
    BY DEF Tasks
  <1>1. CASE \E sc \in Scripts, skip \in BOOLEAN, one \in Tagged : Start(sc, skip, one)
    <2>1. PICK sc \in Scripts, skip \in BOOLEAN, one \in Tagged : Start(sc, skip, one)
      BY <1>1
    <2>2. one \in 0..7
      BY <1>0, TagAssumption
    <2>3. /\ script' = sc /\ only' = one /\ task' = IF one = 0 THEN 1 ELSE one
          /\ pc' = IF skip THEN "render" ELSE "gather"
          /\ skip \/ one # 0 => sc = "playbook"
      BY <2>1 DEF Start
    <2> QED
      BY <1>0, <2>2, <2>3 DEF OneLoad, PlanFromOneLoad
  <1>2. CASE Gather
    <2>1. /\ pc = "gather" /\ pc' = "render" /\ UNCHANGED <<task, only, script>>
      BY <1>2 DEF Gather
    <2> QED
      BY <1>0, <2>1 DEF OneLoad, RenderedTo, PlanFromOneLoad
  <1>3. CASE Render
    <2>1. /\ pc = "render" /\ Write(Tasks[task])
          /\ UNCHANGED <<script, only, loaded, facts, plan>>
          /\ task < LastTask => task' = task + 1 /\ pc' = pc
          /\ ~(task < LastTask) => /\ task' = task
                                   /\ pc' = IF script = "playbook" THEN "done" ELSE "ssh"
      BY <1>3 DEF Render
    <2>2. task \in 1..7 /\ only \in 0..7
      BY <1>0 DEF OneLoad
    <2>3. CASE script = "playbook"
      <3>1. pc' \in {"render", "done"} /\ task' \in 1..7
        BY <1>0, <2>1, <2>2, <2>3 DEF LastTask
      <3> QED
        BY <1>0, <2>1, <2>2, <2>3, <3>1 DEF OneLoad, PlanFromOneLoad
    <2>4. CASE script # "playbook"
      <3>1. only = 0 /\ LastTask = 7 /\ RenderedTo(task)
        BY <1>0, <2>1, <2>4 DEF OneLoad, LastTask
      <3>2. PICK n \in 1..7 : n = task
        BY <2>2
      <3>3. /\ Tasks[n] = "hostnamemap" <=> n = 2
            /\ Tasks[n] = "deployedserverportmap" <=> n = 3
            /\ Tasks[n] = "fencing" <=> n = 4
            /\ Tasks[n] = "rolecount" <=> n = 5
        BY DEF Tasks
      <3>4. RenderedTo(n + 1)'
        BY <2>1, <3>1, <3>2, <3>3 DEF RenderedTo, Write
      <3>5. CASE task < 7
        BY <1>0, <2>1, <2>2, <2>4, <3>1, <3>2, <3>4, <3>5 DEF OneLoad, PlanFromOneLoad, RenderedTo
      <3>6. CASE ~(task < 7)
        <4>1. RenderedTo(7)'
          BY <3>2, <3>4, <3>6 DEF RenderedTo
        <4> QED
          BY <1>0, <2>1, <2>2, <2>4, <3>1, <3>6, <4>1 DEF OneLoad, PlanFromOneLoad, RenderedTo
      <3> QED
        BY <3>5, <3>6
    <2> QED
      BY <2>3, <2>4
  <1>4. CASE EnableSsh
    BY <1>4 DEF EnableSsh, OneLoad, RenderedTo, PlanFromOneLoad
  <1>5. CASE HeatStart
    <2>1. /\ pc = "heat" /\ pc' = "update" /\ UNCHANGED <<task, only, script, loaded, facts>>
          /\ plan' = [hostnamemap |-> hostnamemap, portmap |-> portmap, fencing |-> fencing,
                      rolecount |-> rolecount]
      BY <1>5 DEF HeatStart
    <2>2. RenderedTo(7) /\ script # "playbook"
      BY <1>0, <2>1 DEF OneLoad
    <2> QED
      BY <1>0, <2>1, <2>2 DEF OneLoad, RenderedTo, PlanFromOneLoad
  <1>6. CASE HeatDone
    BY <1>6 DEF HeatDone, OneLoad, PlanFromOneLoad
  <1>7. CASE GatherFails \/ RenderFails \/ ScriptFails \/ HeatFails
    <2>1. pc' = "failed" /\ UNCHANGED <<task, only, script>>
      BY <1>7 DEF GatherFails, RenderFails, ScriptFails, HeatFails
    <2> QED
      BY <2>1 DEF OneLoad, PlanFromOneLoad
  <1>8. CASE End
    <2>1. pc' = "idle" /\ task' = 1 /\ only' = 0 /\ script' = "deploy"
      BY <1>8 DEF End
    <2> QED
      BY <1>0, <2>1 DEF OneLoad, PlanFromOneLoad
  <1>9. CASE UNCHANGED <<facts, files, pc, args, plan>>
    BY <1>9 DEF OneLoad, RenderedTo, PlanFromOneLoad
  <1>10. CASE Edit \/ Continue \/ \E r \in Roles : HeatRole(r)
    <2>1. UNCHANGED <<facts, files, pc, args, plan>>
      BY <1>10 DEF Edit, Continue, AddHost, Reassign, RemoveLast, Move, ContinueStart,
                   ContinueRole, ContinuePartly, ContinueEnd, HeatRole
    <2> QED
      BY <1>9, <2>1
  <1>11. CASE UNCHANGED vars
    BY <1>9, <1>11 DEF vars
  <1> QED
    BY <1>1, <1>2, <1>3, <1>4, <1>5, <1>6, <1>7, <1>8, <1>10, <1>11 DEF Next, Begin, Work

(* Every file a deploy gives to Heat was rendered by this deploy from the    *)
(* one inventory it loaded, with the facts it gathered: also when names are  *)
(* moved, runs before it failed half way, or single tasks were run by tag.   *)
THEOREM FilesOfOneLoad == Spec => []PlanFromOneLoad
  <1>1. Init => OneLoad
    BY DEF Init, OneLoad, PlanFromOneLoad, Tasks
  <1>2. OneLoad /\ [Next]_vars => OneLoad'
    BY OneLoadNext
  <1>3. OneLoad => PlanFromOneLoad
    BY DEF OneLoad
  <1> QED
    BY <1>1, <1>2, <1>3, PTL DEF Spec
(* ------------------------------- the types ------------------------------- *)
(* The inductive invariant of the types: what is rendered has its type only  *)
(* when the names loaded have no gaps and every fact needed is there, and    *)
(* servers have theirs only when the plan has.                               *)
PlanTypes ==
    /\ DOMAIN plan.hostnamemap \subseteq Roles \X Nat
    /\ \A nm \in DOMAIN plan.hostnamemap : plan.hostnamemap[nm] \in Hosts
    /\ \A h \in DOMAIN plan.portmap : plan.portmap[h] \in Addrs
    /\ plan.rolecount \in [Roles -> Nat]
WellTyped ==
    /\ TypeOK /\ InvInv /\ PlanTypes
    /\ \A r \in Roles : Dense(loaded[r])

(* A host that takes over an ooo_name leaves the names as they are.          *)
LEMMA ReassignKeeps ==
    ASSUME InvInv, NEW r \in Roles, NEW x \in DOMAIN inv[r], NEW h \in Hosts, Reassign(r, x, h)
    PROVE  InvInv'
  <1> DEFINE s == inv[r]
             g == [s EXCEPT ![x].host = h]
  <1>1. s \in Seq(Entry) /\ Dense(s) /\ OneRole(inv) /\ inv \in [Roles -> Seq(Entry)]
    BY DEF InvInv, Sound
  <1>2. inv' = [inv EXCEPT ![r] = g]
    BY DEF Reassign
  <1>3. DOMAIN g = DOMAIN s /\ g[x] = [s[x] EXCEPT !.host = h] /\ \A y \in DOMAIN s : y # x => g[y] = s[y]
    BY <1>1
  <1>4. s[x] \in Entry
    BY <1>1
  <1>5. g[x] \in Entry /\ g[x].idx = s[x].idx /\ g[x].host = h
    BY <1>3, <1>4 DEF Entry
  <1>6. g \in Seq(Entry) /\ Len(g) = Len(s)
    BY <1>1, <1>3, <1>5
  <1>7. Dense(g)
    <2>1. \A y \in DOMAIN s : g[y].idx = s[y].idx
      BY <1>3, <1>5
    <2> QED
      BY <1>1, <1>3, <1>6, <2>1 DEF Dense
  <1>8. inv' \in [Roles -> Seq(Entry)] /\ inv'[r] = g /\ \A u \in Roles : u # r => inv'[u] = inv[u]
    BY <1>1, <1>2, <1>6
  <1>9. \A u \in Roles : \A y \in DOMAIN inv[u] : inv[u][y].host # h
    BY DEF Reassign, HostsIn
  <1>10. \A u \in Roles : \A y \in DOMAIN inv'[u] :
            /\ y \in DOMAIN inv[u]
            /\ (u = r /\ y = x /\ inv'[u][y].host = h) \/ inv'[u][y].host = inv[u][y].host
    BY <1>3, <1>5, <1>8
  <1>11. OneRole(inv')
    BY <1>1, <1>9, <1>10 DEF OneRole
  <1> QED
    BY <1>7, <1>8, <1>11, <1>1 DEF InvInv, Sound

(* When the host with the last ooo_name is taken out, the names of the role  *)
(* still have no gaps, as no other host has that name.                       *)
LEMMA RemoveKeeps ==
    ASSUME InvInv, NEW r \in Roles, RemoveLast(r)
    PROVE  InvInv'
  <1> DEFINE s == inv[r]
             n == Len(s)
  <1>1. s \in Seq(Entry) /\ Dense(s) /\ OneRole(inv) /\ inv \in [Roles -> Seq(Entry)]
    BY DEF InvInv, Sound
  <1>2. PICK x \in DOMAIN s : s[x].idx = n - 1 /\ inv' = [inv EXCEPT ![r] = Without(s, x)]
    BY DEF RemoveLast
  <1> DEFINE g == Without(s, x)
             at(p) == IF p < x THEN p ELSE p + 1
  <1>3. n \in Nat /\ DOMAIN s = 1..n /\ x \in 1..n /\ n - 1 \in Nat
    BY <1>1, <1>2
  <1>4. \A y \in 1..n : s[y] \in Entry /\ s[y].idx \in 0..(n - 1)
    BY <1>1, <1>3 DEF Dense
  <1>5. \A i \in 0..(n - 1) : \E y \in 1..n : s[y].idx = i
    BY <1>1, <1>3 DEF Dense
  <1>6. \A y, z \in 1..n : s[y].idx = s[z].idx => y = z
    BY <1>1, <1>3, DenseInjective
  <1>7. \A p \in 1..(n - 1) : at(p) \in 1..n /\ at(p) # x
    BY <1>3
  <1>8. g = [p \in 1..(n - 1) |-> s[at(p)]]
    BY DEF Without
  <1>9. \A p \in 1..(n - 1) : g[p] = s[at(p)]
    BY <1>8
  <1>10. \A y \in 1..n : y # x => \E p \in 1..(n - 1) : at(p) = y
    <2> TAKE y \in 1..n
    <2> HAVE y # x
    <2>1. CASE y < x
      BY <1>3, <2>1
    <2>2. CASE ~(y < x)
      <3>1. y - 1 \in 1..(n - 1) /\ ~(y - 1 < x) /\ (y - 1) + 1 = y
        BY <1>3, <2>2
      <3> QED
        BY <3>1
    <2> QED
      BY <2>1, <2>2
  <1>11. \A p, q \in 1..(n - 1) : at(p) = at(q) => p = q
    BY <1>3
  <1> HIDE DEF at
  <1>12. g \in [1..(n - 1) -> Entry]
    BY <1>4, <1>7, <1>8
  <1>13. g \in Seq(Entry) /\ DOMAIN g = 1..(n - 1) /\ Len(g) = n - 1
    BY <1>3, <1>12
  <1> HIDE DEF g
  <1>14. Dense(g)
    <2>1. \A p \in 1..(n - 1) : g[p].idx \in 0..((n - 1) - 1)
      <3> TAKE p \in 1..(n - 1)
      <3>1. s[at(p)].idx \in 0..(n - 1) /\ s[at(p)].idx # n - 1
        BY <1>2, <1>3, <1>4, <1>6, <1>7
      <3> QED
        BY <1>3, <1>9, <3>1
    <2>2. \A i \in 0..((n - 1) - 1) : \E p \in 1..(n - 1) : g[p].idx = i
      <3> TAKE i \in 0..((n - 1) - 1)
      <3>1. i \in 0..(n - 1) /\ i # n - 1
        BY <1>3
      <3>2. PICK y \in 1..n : s[y].idx = i
        BY <1>5, <3>1
      <3>3. y # x
        BY <1>2, <3>1, <3>2
      <3> QED
        BY <1>9, <1>10, <3>2, <3>3
    <2>3. {g[p].idx : p \in DOMAIN g} = 0..((n - 1) - 1)
      BY <1>13, <2>1, <2>2
    <2> QED
      BY <1>13, <2>3 DEF Dense
  <1>15. inv' \in [Roles -> Seq(Entry)] /\ inv'[r] = g /\ \A u \in Roles : u # r => inv'[u] = inv[u]
    BY <1>1, <1>2, <1>13 DEF g
  <1>16. OneRole(inv')
    <2>1. \A p \in DOMAIN g : at(p) \in DOMAIN s /\ g[p] = s[at(p)]
      BY <1>3, <1>7, <1>9, <1>13
    <2>2. \A p, q \in DOMAIN g : at(p) = at(q) => p = q
      BY <1>11, <1>13
    <2> SUFFICES ASSUME NEW u \in Roles, NEW v \in Roles,
                        NEW y \in DOMAIN inv'[u], NEW z \in DOMAIN inv'[v],
                        inv'[u][y].host = inv'[v][z].host
                 PROVE  u = v /\ y = z
      BY DEF OneRole
    <2>3. CASE u = r /\ v = r
      BY <1>1, <1>15, <2>1, <2>2, <2>3 DEF OneRole
    <2>4. CASE u = r /\ v # r
      BY <1>1, <1>15, <2>1, <2>4 DEF OneRole
    <2>5. CASE u # r /\ v = r
      BY <1>1, <1>15, <2>1, <2>5 DEF OneRole
    <2>6. CASE u # r /\ v # r
      BY <1>1, <1>15, <2>6 DEF OneRole
    <2> QED
      BY <2>3, <2>4, <2>5, <2>6
  <1>17. \A u \in Roles : Dense(inv'[u])
    BY <1>1, <1>14, <1>15 DEF InvInv, Sound
  <1> QED
    BY <1>15, <1>16, <1>17 DEF InvInv, Sound
(* What the tasks write has its type; for the port map this is so because    *)
(* the task fails when a fact is missing.                                    *)
LEMMA RenderedTypes ==
    ASSUME NEW l \in [Roles -> Seq(Entry)], \A r \in Roles : Dense(l[r])
    PROVE  /\ EnvOf(l) \in [Roles -> Seq(Hosts)]
           /\ DOMAIN HostnameMapOf(l) \subseteq Roles \X Nat
           /\ \A nm \in DOMAIN HostnameMapOf(l) : HostnameMapOf(l)[nm] \in Hosts
           /\ HostnameMapOf(l) \in [DOMAIN HostnameMapOf(l) -> Hosts]
           /\ HostsIn(l) \subseteq Hosts /\ FencingOf(l) \subseteq Hosts
           /\ RoleCountOf(l) \in [Roles -> Nat]
  <1>1. \A r \in Roles : /\ l[r] \in Seq(Entry) /\ Dense(l[r])
                         /\ Len(l[r]) \in Nat /\ DOMAIN l[r] = 1..Len(l[r])
    OBVIOUS
  <1>2. \A r \in Roles : \A x \in DOMAIN l[r] : l[r][x].host \in Hosts /\ l[r][x].idx \in Nat
    <2>1. \A r \in Roles : \A x \in DOMAIN l[r] : l[r][x] \in Entry
      BY <1>1
    <2> QED
      BY <2>1 DEF Entry
  <1>3. ASSUME NEW r \in Roles
        PROVE  [p \in DOMAIN l[r] |-> hostname_sort(l[r])[p].host] \in Seq(Hosts)
    <2> DEFINE q == [p \in DOMAIN l[r] |-> hostname_sort(l[r])[p].host]
               n == Len(l[r])
    <2>1. n \in Nat /\ DOMAIN l[r] = 1..n
      BY <1>1
    <2>2. \A p \in DOMAIN l[r] : hostname_sort(l[r])[p].host \in Hosts
      BY <1>1, <1>2, SortedByName
    <2>3. q \in [1..n -> Hosts]
      BY <2>1, <2>2
    <2> QED
      BY <2>1, <2>3
  <1>4. EnvOf(l) \in [Roles -> Seq(Hosts)]
    BY <1>3 DEF EnvOf
  <1>5. NamesIn(l) \subseteq Roles \X Nat
    BY <1>2 DEF NamesIn
  <1>6. DOMAIN HostnameMapOf(l) = NamesIn(l)
    BY DEF HostnameMapOf
  <1>7. ASSUME NEW nm \in NamesIn(l)
        PROVE  HostnameMapOf(l)[nm] \in Hosts
    <2>1. PICK r \in Roles : \E x \in DOMAIN l[r] : nm = <<r, l[r][x].idx>>
      BY DEF NamesIn
    <2> DEFINE c == CHOOSE x \in DOMAIN l[nm[1]] : l[nm[1]][x].idx = nm[2]
    <2>2. nm[1] \in Roles /\ \E x \in DOMAIN l[nm[1]] : l[nm[1]][x].idx = nm[2]
      BY <2>1
    <2>3. c \in DOMAIN l[nm[1]]
      BY <2>2
    <2>4. HostnameMapOf(l)[nm] = l[nm[1]][c].host
      BY DEF HostnameMapOf
    <2> QED
      BY <1>2, <2>2, <2>3, <2>4
  <1>8. HostnameMapOf(l) \in [DOMAIN HostnameMapOf(l) -> Hosts]
    <2>1. HostnameMapOf(l) = [nm \in NamesIn(l) |-> HostnameMapOf(l)[nm]]
      BY DEF HostnameMapOf
    <2> QED
      BY <1>6, <1>7, <2>1
  <1>9. HostsIn(l) \subseteq Hosts /\ FencingOf(l) \subseteq Hosts
    BY <1>2, RoleAssumption DEF HostsIn, FencingOf
  <1>10. RoleCountOf(l) \in [Roles -> Nat]
    BY <1>1 DEF RoleCountOf
  <1> QED
    BY <1>4, <1>5, <1>6, <1>7, <1>8, <1>9, <1>10

LEMMA PortMapTyped ==
    ASSUME WellTyped, Renderable("deployedserverportmap")
    PROVE  /\ DOMAIN PortMapOf(loaded, facts) \subseteq Hosts
           /\ PortMapOf(loaded, facts) \in [DOMAIN PortMapOf(loaded, facts) -> Addrs]
  <1>1. HostsIn(loaded) \subseteq Hosts
    BY RenderedTypes DEF WellTyped, TypeOK
  <1>2. \A h \in HostsIn(loaded) : facts[h] # NoAddr
    BY DEF Renderable
  <1>3. \A h \in HostsIn(loaded) : facts[h] \in Addrs
    BY <1>1, <1>2 DEF WellTyped, TypeOK
  <1> QED
    BY <1>1, <1>3 DEF PortMapOf

LEMMA WellTypedInit ==
    ASSUME Init
    PROVE  WellTyped
  <1>1. InvInv /\ inv \in [Roles -> Seq(Entry)]
    BY InventoryAssumption DEF Init, InvInv
  <1>2. /\ NoLists \in [Roles -> Seq(Entry)] /\ NoLists \in [Roles -> Seq(Hosts)]
        /\ NoLists \in [Roles -> Seq([host : Hosts \union {NoHost}, addr : Addrs \union {NoAddr}])]
        /\ \A r \in Roles : NoLists[r] = << >>
    BY DEF NoLists
  <1>3. \A r \in Roles : Dense(NoLists[r])
    BY <1>2 DEF Dense
  <1>4. DOMAIN Empty = {} /\ Empty \in [{} -> Hosts] /\ Empty \in [{} -> Addrs]
    BY DEF Empty
  <1>5. PlanTypes
    <2>1. plan = NoPlan
      BY DEF Init
    <2> QED
      BY <1>4, <2>1 DEF PlanTypes, NoPlan
  <1>6. edits \in 0..MaxEdits /\ addr \in [Hosts -> Addrs] /\ facts \in [Hosts -> Addrs \union {NoAddr}]
    BY EditAssumption, MovableAssumption DEF Init
  <1>7. task \in 1..Len(Tasks) /\ only \in 0..Len(Tasks)
    BY DEF Init, Tasks
  <1>8. occ \in [Hosts -> (Roles \X Nat) \union {Nobody}] /\ rolecount \in [Roles -> Nat]
    BY DEF Init
  <1>9. TypeOK
    BY <1>1, <1>2, <1>4, <1>6, <1>7, <1>8 DEF Init, TypeOK, Scripts
  <1> QED
    BY <1>1, <1>2, <1>3, <1>5, <1>9 DEF WellTyped, Init

LEMMA WellTypedNext ==
    ASSUME WellTyped, [Next]_vars
    PROVE  WellTyped'
  <1> DEFINE Servers == [host : Hosts \union {NoHost}, addr : Addrs \union {NoAddr}]
  <1> USE DEF world, files, args, deploying, continuing
  <1>0. Len(Tasks) = 7
    BY DEF Tasks
  <1>1. CASE Edit
    <2>1. UNCHANGED <<facts, files, deploying, stack, continuing, occ>>
      BY <1>1 DEF Edit, AddHost, Reassign, RemoveLast, Move
    <2>2. InvInv'
      <3>1. ASSUME NEW r \in Roles, NEW h \in Hosts, AddHost(r, h)
            PROVE  InvInv'
        BY <3>1, AddKeeps DEF WellTyped
      <3>2. ASSUME NEW r \in Roles, NEW x \in DOMAIN inv[r], NEW h \in Hosts, Reassign(r, x, h)
            PROVE  InvInv'
        BY <3>2, ReassignKeeps DEF WellTyped
      <3>3. ASSUME NEW r \in Roles, RemoveLast(r)
            PROVE  InvInv'
        BY <3>3, RemoveKeeps DEF WellTyped
      <3>4. ASSUME NEW h \in Hosts, NEW a \in Addrs, Move(h, a)
            PROVE  InvInv'
        BY <3>4 DEF Move, WellTyped, InvInv
      <3> QED
        BY <1>1, <3>1, <3>2, <3>3, <3>4 DEF Edit
    <2>3. edits' \in 0..MaxEdits
      <3>1. edits \in 0..MaxEdits
        BY DEF WellTyped, TypeOK
      <3>2. edits < MaxEdits /\ edits' = edits + 1
        BY <1>1 DEF Edit, AddHost, Reassign, RemoveLast, Move
      <3> QED
        BY <3>1, <3>2, EditAssumption
    <2>4. addr' \in [Hosts -> Addrs]
      BY <1>1 DEF Edit, AddHost, Reassign, RemoveLast, Move, WellTyped, TypeOK
    <2>5. TypeOK'
      BY <2>1, <2>2, <2>3, <2>4 DEF WellTyped, TypeOK, InvInv
    <2> QED
      BY <2>1, <2>2, <2>5 DEF WellTyped, PlanTypes
  <1>2. CASE Begin
    <2>1. PICK sc \in Scripts, skip \in BOOLEAN, one \in Tagged : Start(sc, skip, one)
      BY <1>2 DEF Begin
    <2>2. /\ script' = sc /\ loaded' = inv /\ only' = one /\ task' = IF one = 0 THEN 1 ELSE one
          /\ pc' \in {"render", "gather"}
          /\ UNCHANGED <<world, facts, files, plan, pending, stack, continuing, occ>>
      BY <2>1 DEF Start
    <2>3. only' \in 0..7 /\ task' \in 1..7
      BY <1>0, <2>2, TagAssumption
    <2>4. loaded' \in [Roles -> Seq(Entry)] /\ \A r \in Roles : Dense(loaded'[r])
      BY <2>2 DEF WellTyped, InvInv, Sound
    <2>5. TypeOK'
      BY <1>0, <2>2, <2>3, <2>4 DEF WellTyped, TypeOK
    <2> QED
      BY <2>2, <2>4, <2>5 DEF WellTyped, PlanTypes, InvInv
  <1>3. CASE Gather \/ GatherFails
    <2>1. PICK S \in SUBSET HostsIn(loaded) : facts' = Gathered(S)
      BY <1>3 DEF Gather, GatherFails
    <2>2. pc' \in {"render", "failed"}
          /\ UNCHANGED <<world, files, args, plan, pending, stack, continuing, occ>>
      BY <1>3 DEF Gather, GatherFails
    <2>3. facts' \in [Hosts -> Addrs \union {NoAddr}]
      BY <2>1 DEF Gathered, WellTyped, TypeOK
    <2>4. TypeOK'
      BY <2>2, <2>3 DEF WellTyped, TypeOK
    <2> QED
      BY <2>2, <2>4 DEF WellTyped, PlanTypes, InvInv
  <1>4. CASE Render
    <2>1. /\ Renderable(Tasks[task]) /\ Write(Tasks[task])
          /\ UNCHANGED <<world, facts, script, loaded, only, plan, pending, stack, continuing, occ>>
          /\ pc' \in {"render", "done", "ssh"}
          /\ task' = IF task < LastTask THEN task + 1 ELSE task
      BY <1>4 DEF Render
    <2>2. task \in 1..7 /\ only \in 0..7
      BY <1>0 DEF WellTyped, TypeOK
    <2>3. task' \in 1..7
      BY <1>0, <2>1, <2>2 DEF LastTask
    <2>4. loaded \in [Roles -> Seq(Entry)] /\ \A r \in Roles : Dense(loaded[r])
      BY DEF WellTyped, TypeOK
    <2>5. PICK t : t = Tasks[task]
      OBVIOUS
    <2>6. Write(t) /\ Renderable(t)
      BY <2>1, <2>5
    <2>7. env' \in [Roles -> Seq(Hosts)]
      BY <2>4, <2>6, RenderedTypes DEF Write, WellTyped, TypeOK
    <2>8. DOMAIN hostnamemap' \subseteq Roles \X Nat /\ hostnamemap' \in [DOMAIN hostnamemap' -> Hosts]
      BY <2>4, <2>6, RenderedTypes DEF Write, WellTyped, TypeOK
    <2>9. DOMAIN portmap' \subseteq Hosts /\ portmap' \in [DOMAIN portmap' -> Addrs]
      BY <2>6, PortMapTyped DEF Write, WellTyped, TypeOK
    <2>10. fencing' \subseteq Hosts
      BY <2>4, <2>6, RenderedTypes DEF Write, WellTyped, TypeOK
    <2>11. rolecount' \in [Roles -> Nat]
      BY <2>4, <2>6, RenderedTypes DEF Write, WellTyped, TypeOK
    <2>12. rendered' \subseteq {Tasks[x] : x \in DOMAIN Tasks}
      <3>1. t \in {Tasks[x] : x \in DOMAIN Tasks}
        BY <2>2, <2>5 DEF Tasks
      <3> QED
        BY <2>6, <3>1 DEF Write, WellTyped, TypeOK
    <2>13. TypeOK'
      BY <1>0, <2>1, <2>3, <2>7, <2>8, <2>9, <2>10, <2>11, <2>12 DEF WellTyped, TypeOK
    <2> QED
      BY <2>1, <2>13 DEF WellTyped, PlanTypes, InvInv
  <1>5. CASE RenderFails \/ EnableSsh \/ ScriptFails \/ HeatDone \/ HeatFails
    <2>1. pc' \in {"failed", "heat", "udpate", "done"}
          /\ UNCHANGED <<world, facts, files, args, plan, pending, stack, continuing, occ>>
      BY <1>5 DEF RenderFails, EnableSsh, ScriptFails, HeatDone, HeatFails
    <2>2. TypeOK'
      BY <2>1 DEF WellTyped, TypeOK
    <2> QED
      BY <2>1, <2>2 DEF WellTyped, PlanTypes, InvInv
  <1>6. CASE HeatStart
    <2>1. /\ plan' = [hostnamemap |-> hostnamemap, portmap |-> portmap, fencing |-> fencing,
                      rolecount |-> rolecount]
          /\ pending' = Roles /\ pc' = "update"
          /\ UNCHANGED <<world, facts, files, args, stack, continuing, occ>>
      BY <1>6 DEF HeatStart
    <2>2. TypeOK'
      BY <2>1 DEF WellTyped, TypeOK
    <2>3. PlanTypes'
      BY <2>1 DEF WellTyped, TypeOK, PlanTypes
    <2> QED
      BY <2>1, <2>2, <2>3 DEF WellTyped, InvInv
  <1>7. CASE \E r \in Roles : HeatRole(r)
    <2>1. PICK r \in Roles : HeatRole(r)
      BY <1>7
    <2>2. /\ stack' = [stack EXCEPT ![r] = [x \in 1..plan.rolecount[r] |-> ServerOf(r, x - 1)]]
          /\ pending' = pending \ {r}
          /\ UNCHANGED <<world, facts, files, pc, args, plan, continuing, occ>>
      BY <2>1 DEF HeatRole
    <2>3. \A i : ServerOf(r, i) \in Servers
      BY DEF ServerOf, WellTyped, PlanTypes
    <2>4. [x \in 1..plan.rolecount[r] |-> ServerOf(r, x - 1)] \in Seq(Servers)
      <3>1. plan.rolecount[r] \in Nat
        BY DEF WellTyped, PlanTypes
      <3> HIDE DEF Servers
      <3>2. ASSUME NEW n \in Nat
            PROVE  [x \in 1..n |-> ServerOf(r, x - 1)] \in Seq(Servers)
        <4>1. [x \in 1..n |-> ServerOf(r, x - 1)] \in [1..n -> Servers]
          BY <2>3
        <4> QED
          BY <4>1
      <3> QED
        BY <3>1, <3>2
    <2>5. stack' \in [Roles -> Seq(Servers)]
      <3> HIDE DEF Servers
      <3>1. stack \in [Roles -> Seq(Servers)]
        BY DEF WellTyped, TypeOK, Servers
      <3> QED
        BY <2>2, <2>4, <3>1
    <2>6. TypeOK'
      BY <2>2, <2>5 DEF WellTyped, TypeOK
    <2> QED
      BY <2>2, <2>6 DEF WellTyped, PlanTypes, InvInv
  <1>8. CASE End
    <2>1. /\ pc' = "idle" /\ script' = "deploy" /\ loaded' = NoLists /\ task' = 1 /\ only' = 0
          /\ plan' = NoPlan /\ pending' = {}
          /\ UNCHANGED <<world, facts, files, stack, continuing, occ>>
      BY <1>8 DEF End
    <2>2. NoLists \in [Roles -> Seq(Entry)] /\ \A r \in Roles : NoLists[r] = << >>
      BY DEF NoLists
    <2>3. \A r \in Roles : Dense(NoLists[r])
      BY <2>2 DEF Dense
    <2>4. PlanTypes'
      <3>1. DOMAIN Empty = {}
        BY DEF Empty
      <3> QED
        BY <2>1, <3>1 DEF PlanTypes, NoPlan
    <2>5. TypeOK'
      <3>1. task' \in 1..7 /\ only' \in 0..7 /\ script' \in Scripts /\ pending' \subseteq Roles
        BY <2>1 DEF Scripts
      <3>2. loaded' \in [Roles -> Seq(Entry)] /\ pc' = "idle"
        BY <2>1, <2>2
      <3> QED
        BY <1>0, <2>1, <3>1, <3>2 DEF WellTyped, TypeOK
    <2> QED
      BY <2>1, <2>3, <2>4, <2>5 DEF WellTyped, InvInv
  <1>9. CASE Continue
    <2>1. UNCHANGED <<world, facts, files, deploying, stack>>
      BY <1>9 DEF Continue, ContinueStart, ContinueRole, ContinuePartly, ContinueEnd
    <2>2. cpc' \in {"idle", "pairing"} /\ cenv' \in [Roles -> Seq(Hosts)]
      <3>1. NoLists \in [Roles -> Seq(Hosts)]
        BY DEF NoLists
      <3> QED
        BY <1>9, <3>1 DEF Continue, ContinueStart, ContinueRole, ContinuePartly, ContinueEnd,
                          WellTyped, TypeOK
    <2>3. ctodo' \in Seq(Roles)
      <3>1. ctodo \in Seq(Roles) /\ (ctodo # << >> => Tail(ctodo) \in Seq(Roles))
        BY DEF WellTyped, TypeOK
      <3>2. << >> \in Seq(Roles)
        OBVIOUS
      <3> QED
        BY <1>9, <3>1, <3>2, RoleAssumption
           DEF Continue, ContinueStart, ContinueRole, ContinuePartly, ContinueEnd
    <2>4. occ' \in [Hosts -> (Roles \X Nat) \union {Nobody}]
      <3>1. occ \in [Hosts -> (Roles \X Nat) \union {Nobody}]
        BY DEF WellTyped, TypeOK
      <3>2. occ' = occ \/ \E r \in Roles : \E S \in SUBSET PairsOf(r) : Pair(r, S)
        BY <1>9 DEF Continue, ContinueStart, ContinueRole, ContinuePartly, ContinueEnd
      <3>3. ASSUME NEW r \in Roles, NEW S \in SUBSET PairsOf(r), Pair(r, S)
            PROVE  occ' \in [Hosts -> (Roles \X Nat) \union {Nobody}]
        <4>1. cenv[r] \in Seq(Hosts)
          BY DEF WellTyped, TypeOK
        <4>2. \A x \in S : x - 1 \in Nat
          BY <4>1 DEF PairsOf
        <4>3. ASSUME NEW h \in Hosts
              PROVE  (IF \E x \in S : cenv[r][x] = h
                      THEN <<r, (CHOOSE x \in S : cenv[r][x] = h) - 1>>
                      ELSE occ[h]) \in (Roles \X Nat) \union {Nobody}
          BY <3>1, <4>2
        <4> QED
          BY <3>3, <4>3 DEF Pair
      <3> QED
        BY <3>1, <3>2, <3>3
    <2>5. TypeOK'
      BY <2>1, <2>2, <2>3, <2>4 DEF WellTyped, TypeOK
    <2> QED
      BY <2>1, <2>5 DEF WellTyped, PlanTypes, InvInv
  <1>10. CASE UNCHANGED vars
    <2>1. TypeOK'
      BY <1>10 DEF vars, WellTyped, TypeOK
    <2> QED
      BY <1>10, <2>1 DEF vars, WellTyped, PlanTypes, InvInv
  <1> QED
    BY <1>1, <1>2, <1>3, <1>4, <1>5, <1>6, <1>7, <1>8, <1>9, <1>10 DEF Next, Work

LEMMA TypesInvariance == Spec => []WellTyped
  BY WellTypedInit, WellTypedNext, PTL DEF Spec

(* Every variable has its type, however the inventory is edited: above all,  *)
(* the files and Heat's servers only have hosts and addresses in them, and   *)
(* no missing fact.                                                          *)
THEOREM TypeCorrect == Spec => []TypeOK
  <1>1. WellTyped => TypeOK
    BY DEF WellTyped
  <1> QED
    BY <1>1, TypesInvariance, PTL
-----------------------------------------------------------------------------
(* What Heat has made of the plan so far. *)
Updated(r) == stack[r] = [x \in 1..plan.rolecount[r] |-> ServerOf(r, x - 1)]
UpdatedInv ==
    /\ DOMAIN stack = Roles
    /\ pc = "update" => \A r \in Roles \ pending : Updated(r)
    /\ script = "deploy" /\ pc = "done" => \A r \in Roles : Updated(r)
    /\ pc \in {"ssh", "heat", "update"} => script # "playbook"

LEMMA UpdatedNext ==
    ASSUME UpdatedInv, OneLoad, [Next]_vars
    PROVE  UpdatedInv'
  <1> USE DEF world, files, args, deploying, continuing
  <1>1. CASE \E r \in Roles : HeatRole(r)
    <2>1. PICK r \in Roles : HeatRole(r)
      BY <1>1
    <2>2. /\ pc = "update" /\ pc' = "update" /\ plan' = plan /\ script' = script
          /\ stack' = [stack EXCEPT ![r] = [x \in 1..plan.rolecount[r] |-> ServerOf(r, x - 1)]]
          /\ pending' = pending \ {r}
      BY <2>1 DEF HeatRole
    <2>3. DOMAIN stack = Roles /\ \A s \in Roles \ pending : Updated(s)
      BY <2>2 DEF UpdatedInv
    <2>4. \A s \in Roles : s # r => stack'[s] = stack[s]
      BY <2>2, <2>3
    <2>5. stack'[r] = [x \in 1..plan.rolecount[r] |-> ServerOf(r, x - 1)]
      BY <2>2, <2>3
    <2>6. \A s \in Roles \ pending' : Updated(s)'
      <3> TAKE s \in Roles \ pending'
      <3>1. CASE s = r
        BY <2>2, <2>5, <3>1 DEF Updated, ServerOf
      <3>2. CASE s # r
        <4>1. stack'[s] = stack[s] /\ Updated(s)
          BY <2>2, <2>3, <2>4, <3>2
        <4> QED
          BY <2>2, <4>1 DEF Updated, ServerOf
      <3> QED
        BY <3>1, <3>2
    <2> QED
      BY <2>2, <2>3, <2>6 DEF UpdatedInv
  <1>2. CASE HeatStart
    BY <1>2 DEF HeatStart, UpdatedInv
  <1>3. CASE HeatDone
    BY <1>3 DEF HeatDone, UpdatedInv, Updated, ServerOf
  <1>4. CASE Render
    <2>1. /\ UNCHANGED <<stack, script>> /\ pc' \in {"render", "done", "ssh"}
          /\ pc' = "done" => script = "playbook"
          /\ pc' = "ssh" => script # "playbook"
      BY <1>4 DEF Render
    <2> QED
      BY <2>1 DEF UpdatedInv
  <1>5. CASE EnableSsh
    BY <1>5 DEF EnableSsh, UpdatedInv
  <1>6. CASE Begin \/ Gather \/ GatherFails \/ RenderFails \/ ScriptFails \/ HeatFails \/ End
    <2>1. UNCHANGED stack /\ pc' \in {"gather", "render", "failed", "idle"}
      BY <1>6 DEF Begin, Start, Gather, GatherFails, RenderFails, ScriptFails, HeatFails, End
    <2> QED
      BY <2>1 DEF UpdatedInv
  <1>7. CASE Edit \/ Continue \/ UNCHANGED vars
    <2>1. UNCHANGED <<stack, pc, script, plan, pending>>
      BY <1>7 DEF Edit, Continue, AddHost, Reassign, RemoveLast, Move, ContinueStart,
                  ContinueRole, ContinuePartly, ContinueEnd, vars
    <2> QED
      BY <2>1 DEF UpdatedInv, Updated, ServerOf
  <1> QED
    BY <1>1, <1>2, <1>3, <1>4, <1>5, <1>6, <1>7 DEF Next, Work

(* A server that was made of the plan is the one the inventory names.        *)
LEMMA ServerAsInventoried ==
    ASSUME WellTyped, NEW r \in Roles, NEW x \in DOMAIN loaded[r],
           plan.hostnamemap = HostnameMapOf(loaded), plan.portmap = PortMapOf(loaded, facts)
    PROVE  ServerOf(r, loaded[r][x].idx)
               = [host |-> loaded[r][x].host, addr |-> facts[loaded[r][x].host]]
  <1> DEFINE g == loaded[r]
             i == g[x].idx
             c == CHOOSE z \in DOMAIN g : g[z].idx = i
  <1>1. g \in Seq(Entry) /\ Dense(g)
    BY DEF WellTyped, TypeOK
  <1>2. c \in DOMAIN g /\ g[c].idx = i
    OBVIOUS
  <1>3. c = x
    BY <1>1, <1>2, DenseInjective
  <1>4. <<r, i>> \in NamesIn(loaded)
    BY DEF NamesIn
  <1>5. <<r, i>> \in DOMAIN plan.hostnamemap /\ plan.hostnamemap[<<r, i>>] = g[x].host
    <2>1. <<r, i>> \in DOMAIN HostnameMapOf(loaded)
      BY <1>4 DEF HostnameMapOf
    <2>2. HostnameMapOf(loaded)[<<r, i>>] = g[c].host
      BY <1>4 DEF HostnameMapOf
    <2> QED
      BY <1>3, <2>1, <2>2
  <1>6. g[x].host \in HostsIn(loaded)
    BY DEF HostsIn
  <1>7. g[x].host \in DOMAIN plan.portmap /\ plan.portmap[g[x].host] = facts[g[x].host]
    BY <1>6 DEF PortMapOf
  <1> QED
    BY <1>5, <1>7 DEF ServerOf

(* A deploy that succeeds has made as many servers of every role as the      *)
(* inventory it loaded has names, each for the host of its name, at the      *)
(* address that was gathered from that host; also when ooo_names have been   *)
(* given to other hosts or taken away, before the deploy or during it.       *)
THEOREM MadeAsInventoried == Spec => []DeployedAsInventoried
  <1>1. Init => OneLoad /\ UpdatedInv
    BY DEF Init, OneLoad, PlanFromOneLoad, Tasks, UpdatedInv, NoLists
  <1>2. OneLoad /\ UpdatedInv /\ [Next]_vars => OneLoad' /\ UpdatedInv'
    BY OneLoadNext, UpdatedNext
  <1>3. WellTyped /\ OneLoad /\ UpdatedInv => DeployedAsInventoried
    <2> SUFFICES ASSUME WellTyped, OneLoad, UpdatedInv, script = "deploy", pc = "done",
                        NEW r \in Roles
                 PROVE  /\ Len(stack[r]) = Len(loaded[r])
                        /\ \A x \in DOMAIN loaded[r] :
                              stack[r][loaded[r][x].idx + 1]
                                = [host |-> loaded[r][x].host, addr |-> facts[loaded[r][x].host]]
      BY DEF DeployedAsInventoried
    <2>1. /\ plan.hostnamemap = HostnameMapOf(loaded) /\ plan.portmap = PortMapOf(loaded, facts)
          /\ plan.rolecount = RoleCountOf(loaded)
      BY DEF OneLoad, PlanFromOneLoad
    <2>2. loaded[r] \in Seq(Entry) /\ Dense(loaded[r]) /\ Len(loaded[r]) \in Nat
      BY DEF WellTyped, TypeOK
    <2>3. stack[r] = [x \in 1..Len(loaded[r]) |-> ServerOf(r, x - 1)]
      BY <2>1 DEF UpdatedInv, Updated, RoleCountOf
    <2>4. Len(stack[r]) = Len(loaded[r])
      BY <2>2, <2>3
    <2>5. ASSUME NEW x \in DOMAIN loaded[r]
          PROVE  stack[r][loaded[r][x].idx + 1]
                   = [host |-> loaded[r][x].host, addr |-> facts[loaded[r][x].host]]
      <3>1. loaded[r][x].idx \in 0..(Len(loaded[r]) - 1)
        BY <2>2 DEF Dense
      <3>2. stack[r][loaded[r][x].idx + 1] = ServerOf(r, (loaded[r][x].idx + 1) - 1)
        BY <2>2, <2>3, <3>1
      <3>3. (loaded[r][x].idx + 1) - 1 = loaded[r][x].idx
        BY <2>2, <3>1
      <3> QED
        BY <2>1, <2>2, <3>2, <3>3, ServerAsInventoried
    <2> QED
      BY <2>4, <2>5
  <1> QED
    BY <1>1, <1>2, <1>3, TypesInvariance, PTL DEF Spec
=============================================================================
