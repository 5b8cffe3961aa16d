------------------------- MODULE AllocateIPsProofs -------------------------
(***************************************************************************)
(* Theorems about AllocateIPs for every set of networks and roles, every   *)
(* size of a network, every file and every count.                          *)
(***************************************************************************)
EXTENDS AllocateIPs, FiniteSetTheorems, TLAPS

(* Appending an address to a list of the lists keeps them lists (`append').  *)
LEMMA AppendLists ==
    ASSUME NEW l, IsLists(l), NEW n \in DOMAIN l, NEW a \in Addr
    PROVE  IsLists([l EXCEPT ![n] = Append(@, a)])
  BY DEF IsLists

(* Replacing the lists of a role by other lists keeps the file a file.       *)
LEMMA FileWithLists ==
    ASSUME NEW vs, NEW p, IsFile(vs, p), NEW r, NEW l, IsLists(l)
    PROVE  IsFile(vs, [p EXCEPT ![r] = l])
  BY DEF IsFile

(* The scan finds addresses only.                                            *)
LEMMA ScannedType ==
    ASSUME TypeOK, Readable
    PROVE  Scanned \subseteq Addr
  <1>0. IsFile(vips, ips)
    BY DEF TypeOK
  <1>1. VipsRead(vips) \subseteq Addr
    <2>1. ASSUME NEW v \in Vips
          PROVE  vips[v][1] \in Addr
      <3>1. vips[v] \in Seq(Addr) /\ vips[v] # << >>
        BY <1>0 DEF IsFile, Readable
      <3> QED
        BY <3>1
    <2> QED
      BY <2>1 DEF VipsRead
  <1>2. NodeAddrs(ips) \subseteq Addr
    <2>1. ASSUME NEW r \in DOMAIN ips, NEW n \in DOMAIN ips[r], NEW x \in DOMAIN ips[r][n]
          PROVE  ips[r][n][x] \in Addr
      <3>1. ips[r][n] \in Seq(Addr)
        BY <1>0 DEF IsFile, IsLists
      <3> QED
        BY <3>1
    <2> QED
      BY <2>1 DEF NodeAddrs, Elems
  <1> QED
    BY <1>1, <1>2 DEF Scanned

(* The first file and the idle script have the types.                        *)
LEMMA InitTypeOK == Init => TypeOK
  <1> SUFFICES ASSUME Init PROVE TypeOK
    OBVIOUS
  <1>1. IsFile(vips, ips)
    BY FileAssumption DEF Init, FileAssumption
  <1>2. k \in DOMAIN AllocOrder /\ j \in 0..Size
    BY NetworkAssumption, SizeAssumption DEF Init, NetworkAssumption, SizeAssumption
  <1>3. IsLists(compute)
    BY DEF Init, IsLists, NoLists
  <1> QED
    BY <1>1, <1>2, <1>3 DEF Init, TypeOK

(* Every step keeps the types.                                              *)
LEMMA NextTypeOK == TypeOK /\ [Next]_vars => TypeOK'
  <1> SUFFICES ASSUME TypeOK, [Next]_vars
               PROVE  TypeOK'
    OBVIOUS
  <1>a. k \in DOMAIN AllocOrder /\ j \in 0..Size /\ i \in Int \union {NoCount}
    BY DEF TypeOK
  <1>b. AllocOrder \in Seq(Networks) /\ Size \in Nat /\ Skip \in Nat
    BY NetworkAssumption, SizeAssumption DEF NetworkAssumption, SizeAssumption
  <1>0. network \in Networks
    BY <1>a, <1>b DEF network
  <1>00. 1 \in DOMAIN AllocOrder /\ 0 \in 0..Size
    BY NetworkAssumption, SizeAssumption DEF NetworkAssumption, SizeAssumption
  <1>1. ASSUME NEW c \in Counts, Start(c)
        PROVE  TypeOK'
    <2>1. IsLists(ips[Compute])
      BY <1>1, RoleAssumption DEF Start, Readable, TypeOK, IsFile, RoleAssumption
    <2>2. find_existing_ips \in [Networks -> SUBSET Addr]
      BY <1>1, ScannedType DEF find_existing_ips, Start
    <2>3. c \in Int \union {NoCount}
      BY CountAssumption DEF CountAssumption
    <2> QED
      BY <1>00, <1>1, <2>1, <2>2, <2>3 DEF Start, TypeOK, file
  <1>2. CASE LoadFails
    BY <1>2, <1>00 DEF LoadFails, Idle, TypeOK, IsLists, NoLists, file
  <1>3. CASE PassOver
    <2>1. j' \in 0..Size
      BY <1>3, <1>a, <1>b DEF PassOver
    <2> QED
      BY <1>3, <2>1 DEF PassOver, TypeOK, file
  <1>4. CASE Take
    <2>1. addr \in Addr
      <3>1. j \in 0..(Size - 1)
        BY <1>4, <1>a, <1>b DEF Take, Wanted
      <3> QED
        BY <1>0, <3>1 DEF addr, Host, Addr
    <2>2. IsLists(compute')
      BY <1>4, <2>1, AppendLists DEF Take, TypeOK
    <2>3. allocated' \in [Networks -> SUBSET Addr]
      BY <1>0, <1>4, <2>1 DEF Take, TypeOK
    <2>4. j < Size /\ i \in Int /\ i # NoCount
      BY <1>4 DEF Take, Wanted, TypeOK
    <2>5. CASE i - 1 = 0 /\ NextNetwork
      <3>1. CASE k < Len(AllocOrder)
        <4>1. k' \in DOMAIN AllocOrder
          BY <1>a, <1>b, <2>5, <3>1 DEF NextNetwork
        <4> QED
          BY <1>00, <1>4, <2>2, <2>3, <2>5, <3>1, <4>1 DEF Take, NextNetwork, TypeOK, file
      <3>2. CASE ~(k < Len(AllocOrder))
        BY <1>4, <2>2, <2>3, <2>5, <3>2 DEF Take, NextNetwork, TypeOK, file
      <3> QED
        BY <3>1, <3>2
    <2>6. CASE i' = i - 1 /\ j' = j + 1 /\ UNCHANGED <<pc, k>>
      <3>1. j' \in 0..Size /\ i' \in Int
        BY <1>a, <1>b, <2>4, <2>6
      <3> QED
        BY <1>4, <2>2, <2>3, <2>6, <3>1 DEF Take, TypeOK, file
    <2> QED
      BY <1>4, <2>5, <2>6 DEF Take
  <1>5. CASE TakeFails
    BY <1>5 DEF TakeFails, TypeOK, file
  <1>6. CASE RanOut
    BY <1>6 DEF RanOut, TypeOK, file
  <1>7. CASE Install
    <2>1. IsFile(vips, Output)
      BY FileWithLists DEF Output, TypeOK
    <2> QED
      BY <1>00, <1>7, <2>1 DEF Install, Idle, TypeOK, IsLists, NoLists
  <1>8. CASE Discard
    BY <1>00, <1>8 DEF Discard, Idle, TypeOK, IsLists, NoLists, file
  <1>9. ASSUME NEW v \in Vips, NEW s \in VipLists, SetVips(v, s)
        PROVE  TypeOK'
    <2>1. s \in Seq(Addr)
      BY DEF VipLists
    <2>2. IsFile(vips', ips')
      BY <1>9, <2>1 DEF SetVips, IsFile, TypeOK
    <2> QED
      BY <1>9, <2>2 DEF SetVips, run, TypeOK
  <1>10. CASE RetireCompute
    <2> DEFINE old == ips[Compute]
               l == [n \in DOMAIN old |-> SubSeq(old[n], 1, Len(old[n]) - 1)]
    <2>1. IsLists(old)
      BY <1>10 DEF RetireCompute, TypeOK, IsFile
    <2>2. IsLists(l)
      <3>1. ASSUME NEW n \in DOMAIN old
            PROVE  SubSeq(old[n], 1, Len(old[n]) - 1) \in Seq(Addr)
        <4>1. old[n] \in Seq(Addr) /\ old[n] # << >>
          BY <1>10, <2>1 DEF RetireCompute, IsLists
        <4> QED
          BY <4>1
      <3> QED
        BY <2>1, <3>1 DEF IsLists
    <2>3. IsFile(vips', ips')
      BY <1>10, <2>2, FileWithLists DEF RetireCompute, TypeOK
    <2> QED
      BY <1>10, <2>3 DEF RetireCompute, run, TypeOK
  <1>11. CASE UNCHANGED vars
    BY <1>11 DEF vars, run, file, TypeOK
  <1> QED
    BY <1>1, <1>2, <1>3, <1>4, <1>5, <1>6, <1>7, <1>8, <1>9, <1>10, <1>11 DEF Next, Loop

(* Type correctness: the cursor never leaves the networks and their hosts,   *)
(* and the file is always one the script could be given.                     *)
THEOREM TypeCorrect == Spec => []TypeOK
  <1> QED
    BY InitTypeOK, NextTypeOK, PTL DEF Spec
-----------------------------------------------------------------------------
(* The inductive invariant behind NoDoubleAllocation.  While a run is under  *)
(* way, `allocated' holds every address that was scanned; the run's copy of  *)
(* the lists has what the file has and, behind it, addresses that were not   *)
(* scanned, each of them once and each under its own network.                *)
Known == \A a \in Scanned : a \in allocated[a.net]
NewIsFresh(n) ==
    /\ \A x \in New(n) :
          /\ compute[n][x] \in allocated[n]
          /\ compute[n][x] \notin Scanned
          /\ compute[n][x].net = n
    /\ \A x, y \in New(n) : compute[n][x] = compute[n][y] => x = y
KeepsOld(n) ==
    /\ Len(ips[Compute][n]) <= Len(compute[n])
    /\ \A x \in DOMAIN ips[Compute][n] : compute[n][x] = ips[Compute][n][x]
RunInv ==
    pc \in {"allocating", "printed"} =>
        /\ Readable
        /\ Known
        /\ DOMAIN compute = DOMAIN ips[Compute]
        /\ \A n \in DOMAIN compute : KeepsOld(n) /\ NewIsFresh(n)

(* With lists of at most one virtual address, what the script reads of them  *)
(* is all there is.                                                          *)
ShortVips == \A v \in Vips : Len(vips[v]) <= MaxVipLen
Base == TypeOK /\ RunInv
Inv == Base /\ ShortVips /\ Clean(vips, ips)

(* Every address of the file is scanned (find_existing_ips reads v[0] only). *)
LEMMA AllScanned ==
    ASSUME Inv, MaxVipLen = 1, Readable
    PROVE  NodeAddrs(ips) \union VipAddrs(vips) \subseteq Scanned
  <1>1. ASSUME NEW v \in Vips, NEW x \in DOMAIN vips[v]
        PROVE  vips[v][x] \in VipsRead(vips)
    <2>1. vips[v] \in Seq(Addr) /\ Len(vips[v]) <= 1
      BY DEF Inv, Base, ShortVips, TypeOK, IsFile
    <2>2. x = 1
      BY <2>1
    <2> QED
      BY <2>2 DEF VipsRead
  <1> QED
    BY <1>1 DEF Scanned, VipAddrs, Elems

(* What a list of the output holds at an index: what the file has there, or  *)
(* an address that is nowhere in the file and belongs to the list's network. *)
LEMMA OutputSlot ==
    ASSUME Inv, pc \in {"allocating", "printed"},
           NEW r \in DOMAIN Output, NEW n \in DOMAIN Output[r], NEW x \in DOMAIN Output[r][n]
    PROVE  \/ /\ r \in DOMAIN ips /\ n \in DOMAIN ips[r] /\ x \in DOMAIN ips[r][n]
              /\ Output[r][n][x] = ips[r][n][x]
           \/ /\ r = Compute /\ n \in DOMAIN compute /\ x \in New(n)
              /\ Output[r][n][x] = compute[n][x]
  <1>1. /\ Readable /\ DOMAIN compute = DOMAIN ips[Compute]
        /\ \A m \in DOMAIN compute : KeepsOld(m)
        /\ IsFile(vips, ips) /\ IsLists(compute)
    BY DEF Inv, Base, RunInv, TypeOK
  <1>2. DOMAIN Output = DOMAIN ips /\ Compute \in DOMAIN ips
    BY <1>1, RoleAssumption DEF Output, Readable, RoleAssumption
  <1>3. CASE r # Compute
    BY <1>2, <1>3 DEF Output
  <1>4. CASE r = Compute
    <2>1. Output[r] = compute /\ n \in DOMAIN compute /\ x \in DOMAIN compute[n]
      BY <1>2, <1>4 DEF Output
    <2>2. compute[n] \in Seq(Addr) /\ ips[Compute][n] \in Seq(Addr)
      BY <1>1, <1>2, <2>1 DEF IsLists, IsFile
    <2>3. CASE x <= Len(ips[Compute][n])
      BY <1>1, <1>2, <1>4, <2>1, <2>2, <2>3 DEF KeepsOld
    <2>4. CASE x > Len(ips[Compute][n])
      <3>1. x \in New(n)
        BY <2>1, <2>2, <2>4 DEF New
      <3> QED
        BY <1>4, <2>1, <3>1
    <2> QED
      BY <2>1, <2>2, <2>3, <2>4
  <1> QED
    BY <1>3, <1>4

(* The printed file is clean when the file is.                               *)
LEMMA OutputClean ==
    ASSUME Inv, MaxVipLen = 1, pc \in {"allocating", "printed"}
    PROVE  Clean(vips, Output)
  <1>1. /\ Readable /\ Clean(vips, ips)
        /\ \A n \in DOMAIN compute : NewIsFresh(n)
    BY DEF Inv, Base, RunInv
  <1>2. NodeAddrs(ips) \union VipAddrs(vips) \subseteq Scanned
    BY <1>1, AllScanned
  <1>3. \A r \in DOMAIN ips : \A n \in DOMAIN ips[r] : \A x \in DOMAIN ips[r][n] :
            ips[r][n][x] \in NodeAddrs(ips)
    BY DEF NodeAddrs, Elems
  <1>4. UniqueNodes(Output)
    <2> SUFFICES ASSUME NEW r1 \in DOMAIN Output, NEW r2 \in DOMAIN Output,
                        NEW n1 \in DOMAIN Output[r1], NEW n2 \in DOMAIN Output[r2],
                        NEW x1 \in DOMAIN Output[r1][n1], NEW x2 \in DOMAIN Output[r2][n2],
                        Output[r1][n1][x1] = Output[r2][n2][x2]
                 PROVE  r1 = r2 /\ n1 = n2 /\ x1 = x2
      BY DEF UniqueNodes
    <2> DEFINE Old(r, n, x) == /\ r \in DOMAIN ips /\ n \in DOMAIN ips[r] /\ x \in DOMAIN ips[r][n]
                               /\ Output[r][n][x] = ips[r][n][x]
               Fresh(r, n, x) == /\ r = Compute /\ n \in DOMAIN compute /\ x \in New(n)
                                 /\ Output[r][n][x] = compute[n][x]
    <2>1. Old(r1, n1, x1) \/ Fresh(r1, n1, x1)
      BY OutputSlot
    <2>2. Old(r2, n2, x2) \/ Fresh(r2, n2, x2)
      BY OutputSlot
    <2>3. CASE Old(r1, n1, x1) /\ Old(r2, n2, x2)
      <3>1. ips[r1][n1][x1] = ips[r2][n2][x2]
        BY <2>3
      <3>2. <<r1, n1, x1>> = <<r2, n2, x2>>
        BY <1>1, <2>3, <3>1 DEF Clean, UniqueNodes
      <3> QED
        BY <3>2
    <2>a. ASSUME NEW r, NEW n, NEW x, Old(r, n, x)
          PROVE  Output[r][n][x] \in Scanned
      BY <1>2, <1>3, <2>a
    <2>b. ASSUME NEW r, NEW n, NEW x, Fresh(r, n, x)
          PROVE  Output[r][n][x] \notin Scanned
      BY <1>1, <2>b DEF NewIsFresh
    <2>4. ~(Old(r1, n1, x1) /\ Fresh(r2, n2, x2))
      BY <2>a, <2>b
    <2>5. ~(Fresh(r1, n1, x1) /\ Old(r2, n2, x2))
      BY <2>a, <2>b
    <2>6. CASE Fresh(r1, n1, x1) /\ Fresh(r2, n2, x2)
      <3>1. n1 = n2
        BY <1>1, <2>6 DEF NewIsFresh
      <3> QED
        BY <1>1, <2>6, <3>1 DEF NewIsFresh
    <2> QED
      BY <2>1, <2>2, <2>3, <2>4, <2>5, <2>6
  <1>5. NodeAddrs(Output) \cap VipAddrs(vips) = {}
    <2>1. ASSUME NEW r \in DOMAIN Output, NEW n \in DOMAIN Output[r], NEW x \in DOMAIN Output[r][n]
          PROVE  Output[r][n][x] \notin VipAddrs(vips)
      BY <1>1, <1>2, <1>3, OutputSlot DEF Clean, NewIsFresh
    <2> QED
      BY <2>1 DEF NodeAddrs, Elems
  <1> QED
    BY <1>4, <1>5 DEF Clean

(* A step of the inner loop that leaves the lists as they are keeps RunInv.  *)
LEMMA RunUnchanged ==
    ASSUME Base, UNCHANGED <<vips, ips, allocated, compute>>, pc \in {"allocating", "printed"}
    PROVE  RunInv'
  BY DEF Base, RunInv, Readable, Known, Scanned, VipsRead, NodeAddrs, Elems, KeepsOld, NewIsFresh, New

(* Taking an address that is not in `allocated' keeps it fresh and unique.   *)
LEMMA TakeKeepsRunInv ==
    ASSUME Base, Take
    PROVE  RunInv'
  <1> DEFINE n0 == network
             new == Append(compute[n0], addr)
  <1>1. /\ Readable /\ Known /\ DOMAIN compute = DOMAIN ips[Compute]
        /\ \A n \in DOMAIN compute : KeepsOld(n) /\ NewIsFresh(n)
        /\ IsFile(vips, ips) /\ IsLists(compute)
        /\ allocated \in [Networks -> SUBSET Addr] /\ k \in DOMAIN AllocOrder
        /\ j \in 0..Size
    BY DEF Base, RunInv, TypeOK, Take
  <1>2. /\ n0 \in DOMAIN compute /\ n0 \in Networks /\ addr \notin allocated[n0]
        /\ allocated' = [allocated EXCEPT ![n0] = @ \union {addr}]
        /\ compute' = [compute EXCEPT ![n0] = new]
        /\ vips' = vips /\ ips' = ips
    BY <1>1 DEF Take, Wanted, file, IsLists
  <1>3. Compute \in DOMAIN ips /\ addr.net = n0
    BY <1>1, RoleAssumption DEF Readable, RoleAssumption, addr, Host
  <1>4. Readable' /\ Scanned' = Scanned
    BY <1>1, <1>2 DEF Readable, Scanned, VipsRead, NodeAddrs, Elems
  <1>5. \A n \in Networks : allocated[n] \subseteq allocated'[n]
    BY <1>1, <1>2
  <1>6. addr \notin Scanned /\ addr \in allocated'[n0]
    BY <1>1, <1>2, <1>3 DEF Known
  <1>7. Known'
    <2>1. \A a \in Scanned : a.net \in Networks
      BY <1>1, ScannedType DEF Base, Addr
    <2> QED
      BY <1>1, <1>4, <1>5, <2>1 DEF Known
  <1>8. DOMAIN compute' = DOMAIN ips'[Compute]
    BY <1>1, <1>2
  <1>9. ASSUME NEW n \in DOMAIN compute'
        PROVE  KeepsOld(n)' /\ NewIsFresh(n)'
    <2>1. n \in DOMAIN compute /\ n \in Networks
      BY <1>1, <1>2 DEF IsLists
    <2>2. compute[n] \in Seq(Addr) /\ ips[Compute][n] \in Seq(Addr)
      BY <1>1, <1>3, <2>1 DEF IsLists, IsFile
    <2>3. KeepsOld(n) /\ NewIsFresh(n)
      BY <1>1, <2>1
    <2>4. CASE n # n0
      <3>1. compute'[n] = compute[n] /\ New(n)' = New(n)
        BY <1>2, <2>1, <2>4 DEF New
      <3> QED
        BY <1>2, <1>4, <1>5, <2>1, <2>3, <3>1 DEF KeepsOld, NewIsFresh
    <2>5. CASE n = n0
      <3> DEFINE last == Len(compute[n]) + 1
      <3>1. compute'[n] = Append(compute[n], addr)
        BY <1>2, <2>5
      <3>2. /\ Len(compute'[n]) = last
            /\ \A x \in DOMAIN compute[n] : compute'[n][x] = compute[n][x]
            /\ compute'[n][last] = addr
        BY <2>2, <3>1
      <3>3. /\ DOMAIN compute[n] = 1..Len(compute[n]) /\ Len(compute[n]) \in Nat
            /\ DOMAIN ips[Compute][n] = 1..Len(ips[Compute][n]) /\ Len(ips[Compute][n]) \in Nat
            /\ Len(ips[Compute][n]) <= Len(compute[n])
        BY <2>2, <2>3 DEF KeepsOld
      <3>4. /\ New(n)' = (Len(ips[Compute][n]) + 1)..last
            /\ New(n) = (Len(ips[Compute][n]) + 1)..Len(compute[n])
        BY <1>2, <3>2 DEF New
      <3>5. New(n)' = New(n) \union {last} /\ New(n) \subseteq DOMAIN compute[n]
        BY <3>3, <3>4
      <3>6. KeepsOld(n)'
        BY <1>2, <2>3, <3>2, <3>3 DEF KeepsOld
      <3>7. ASSUME NEW x \in New(n)
            PROVE  /\ compute'[n][x] = compute[n][x]
                   /\ compute'[n][x] \in allocated[n] /\ compute'[n][x] \notin Scanned
                   /\ compute'[n][x].net = n
        BY <2>3, <3>2, <3>5 DEF NewIsFresh
      <3>8. \A x \in New(n)' :
               /\ compute'[n][x] \in allocated'[n]
               /\ compute'[n][x] \notin Scanned'
               /\ compute'[n][x].net = n
        BY <1>3, <1>4, <1>5, <1>6, <2>1, <2>5, <3>2, <3>5, <3>7
      <3>9. \A x, y \in New(n)' : compute'[n][x] = compute'[n][y] => x = y
        <4>1. \A x \in New(n) : compute'[n][x] # addr
          BY <1>2, <2>5, <3>7
        <4>2. \A x, y \in New(n) : compute'[n][x] = compute'[n][y] => x = y
          BY <2>3, <3>7 DEF NewIsFresh
        <4> QED
          BY <3>2, <3>5, <4>1, <4>2
      <3> QED
        BY <3>6, <3>8, <3>9 DEF NewIsFresh
    <2> QED
      BY <2>4, <2>5
  <1> QED
    BY <1>4, <1>7, <1>8, <1>9 DEF RunInv

(* Retiring the last compute node leaves lists that are shorter: the file    *)
(* stays clean.                                                              *)
LEMMA RetireClean ==
    ASSUME Inv, RetireCompute
    PROVE  Clean(vips, ips)'
  <1>1. /\ IsFile(vips, ips) /\ UniqueNodes(ips) /\ NodeAddrs(ips) \cap VipAddrs(vips) = {}
        /\ Compute \in DOMAIN ips /\ vips' = vips
        /\ \A n \in DOMAIN ips[Compute] : ips[Compute][n] # << >>
        /\ ips' = [ips EXCEPT ![Compute] =
                     [n \in DOMAIN @ |-> SubSeq(@[n], 1, Len(@[n]) - 1)]]
    BY DEF Inv, Base, TypeOK, Clean, RetireCompute
  <1>2. DOMAIN ips' = DOMAIN ips
    BY <1>1
  <1>3. ASSUME NEW r \in DOMAIN ips', NEW n \in DOMAIN ips'[r], NEW x \in DOMAIN ips'[r][n]
        PROVE  /\ n \in DOMAIN ips[r] /\ x \in DOMAIN ips[r][n]
               /\ ips'[r][n][x] = ips[r][n][x]
    <2>1. CASE r # Compute
      BY <1>1, <1>2, <2>1
    <2>2. CASE r = Compute
      <3>1. n \in DOMAIN ips[r] /\ ips'[r][n] = SubSeq(ips[r][n], 1, Len(ips[r][n]) - 1)
        BY <1>1, <2>2
      <3>2. ips[r][n] \in Seq(Addr) /\ ips[r][n] # << >>
        BY <1>1, <2>2, <3>1 DEF IsFile, IsLists
      <3>3. x \in 1..(Len(ips[r][n]) - 1) /\ ips'[r][n][x] = ips[r][n][x]
        BY <3>1, <3>2
      <3> QED
        BY <3>1, <3>2, <3>3
    <2> QED
      BY <2>1, <2>2
  <1>4. UniqueNodes(ips)'
    <2> SUFFICES ASSUME NEW r1 \in DOMAIN ips', NEW r2 \in DOMAIN ips',
                        NEW n1 \in DOMAIN ips'[r1], NEW n2 \in DOMAIN ips'[r2],
                        NEW x1 \in DOMAIN ips'[r1][n1], NEW x2 \in DOMAIN ips'[r2][n2],
                        ips'[r1][n1][x1] = ips'[r2][n2][x2]
                 PROVE  <<r1, n1, x1>> = <<r2, n2, x2>>
      BY DEF UniqueNodes
    <2>1. ips[r1][n1][x1] = ips[r2][n2][x2]
      BY <1>3
    <2> QED
      BY <1>1, <1>2, <1>3, <2>1 DEF UniqueNodes
  <1>5. NodeAddrs(ips)' \subseteq NodeAddrs(ips)
    BY <1>2, <1>3 DEF NodeAddrs, Elems
  <1> QED
    BY <1>1, <1>4, <1>5 DEF Clean

(* Every step keeps what a run knows, however many virtual addresses a key   *)
(* of the file has.                                                          *)
LEMMA BaseStep ==
    ASSUME Base, [Next]_vars
    PROVE  Base'
  <1> SUFFICES RunInv'
    BY NextTypeOK DEF Base
  <1>1. ASSUME NEW c \in Counts, Start(c)
        PROVE  RunInv'
    <2>1. /\ Readable /\ vips' = vips /\ ips' = ips
          /\ compute' = ips[Compute] /\ allocated' = find_existing_ips
      BY <1>1 DEF Start, file
    <2>2. Readable' /\ Scanned' = Scanned
      BY <2>1 DEF Readable, Scanned, VipsRead, NodeAddrs, Elems
    <2>3. Known'
      BY <2>1, <2>2, ScannedType DEF Known, find_existing_ips, Base, Addr
    <2>4. IsLists(ips[Compute])
      BY <2>1, RoleAssumption DEF Base, TypeOK, IsFile, Readable, RoleAssumption
    <2>5. ASSUME NEW n \in DOMAIN compute'
          PROVE  KeepsOld(n)' /\ NewIsFresh(n)'
      <3>1. ips[Compute][n] \in Seq(Addr)
        BY <2>1, <2>4, <2>5 DEF IsLists
      <3>2. New(n)' = {}
        BY <2>1, <3>1 DEF New
      <3> QED
        BY <2>1, <3>1, <3>2 DEF KeepsOld, NewIsFresh
    <2> QED
      BY <2>1, <2>2, <2>3, <2>5 DEF RunInv
  <1>2. CASE PassOver \/ UNCHANGED vars
    <2>1. UNCHANGED <<vips, ips, allocated, compute, pc>>
      BY <1>2 DEF PassOver, vars, file, run
    <2> QED
      BY <2>1, RunUnchanged DEF RunInv
  <1>3. CASE Take
    BY <1>3, TakeKeepsRunInv
  <1>4. CASE LoadFails \/ TakeFails \/ RanOut \/ Install \/ Discard
    <2>1. pc' \in {"idle", "failed"}
      BY <1>4 DEF LoadFails, TakeFails, RanOut, Install, Discard, Idle
    <2> QED
      BY <2>1 DEF RunInv
  <1>5. CASE RetireCompute \/ \E v \in Vips, s \in VipLists : SetVips(v, s)
    <2>1. pc' = "idle"
      BY <1>5 DEF RetireCompute, SetVips
    <2> QED
      BY <2>1 DEF RunInv
  <1> QED
    BY <1>1, <1>2, <1>3, <1>4, <1>5 DEF Next, Loop

LEMMA BaseInvariance == Spec => []Base
  <1>1. Init => Base
    BY InitTypeOK DEF Base, Init, RunInv
  <1>2. Base /\ [Next]_vars => Base'
    BY BaseStep
  <1> QED
    BY <1>1, <1>2, PTL DEF Spec

(* The invariant holds throughout when no list of virtual addresses gets     *)
(* longer than what the script reads of it: that is why the theorems that    *)
(* need it say MaxVipLen = 1.                                                *)
LEMMA Invariance ==
    ASSUME MaxVipLen = 1
    PROVE  Spec => []Inv
  <1>1. Init => Inv
    <2> SUFFICES ASSUME Init PROVE ShortVips /\ Clean(vips, ips) /\ Base
      BY DEF Inv
    <2>1. ShortVips /\ Clean(vips, ips)
      BY FileAssumption DEF Init, FileAssumption, ShortVips
    <2> QED
      BY <2>1, InitTypeOK DEF Base, Init, RunInv
  <1>2. Inv /\ [Next]_vars => Inv'
    <2> SUFFICES ASSUME Inv, [Next]_vars
                 PROVE  ShortVips' /\ Clean(vips, ips)'
      BY BaseStep DEF Inv
    <2>0. ShortVips /\ Clean(vips, ips)
      BY DEF Inv
    <2>1. CASE UNCHANGED file
      BY <2>0, <2>1 DEF file, ShortVips
    <2>2. CASE Install
      <3>1. vips' = vips /\ ips' = Output /\ pc = "printed"
        BY <2>2 DEF Install
      <3>2. Clean(vips, ips)'
        BY <3>1, OutputClean
      <3> QED
        BY <2>0, <3>1, <3>2 DEF ShortVips
    <2>3. ASSUME NEW v \in Vips, NEW s \in VipLists, SetVips(v, s)
          PROVE  ShortVips' /\ Clean(vips, ips)'
      <3>1. /\ ips' = ips /\ vips' = [vips EXCEPT ![v] = s]
            /\ Len(s) <= MaxVipLen /\ Elems(s) \cap NodeAddrs(ips) = {}
            /\ DOMAIN vips = Vips
        BY <2>3 DEF SetVips, Inv, Base, TypeOK, IsFile
      <3>2. VipAddrs(vips)' \subseteq VipAddrs(vips) \union Elems(s)
        BY <3>1 DEF VipAddrs
      <3>3. Clean(vips, ips)'
        BY <2>0, <3>1, <3>2 DEF Clean
      <3> QED
        BY <2>0, <3>1, <3>3 DEF ShortVips
    <2>4. CASE RetireCompute
      BY <2>0, <2>4, RetireClean DEF RetireCompute, ShortVips
    <2> QED
      BY <2>1, <2>2, <2>3, <2>4
        DEF Next, Loop, Start, LoadFails, PassOver, Take, TakeFails, RanOut, Discard, vars
  <1> QED
    BY <1>1, <1>2, PTL DEF Spec

(* No address is given out twice, whatever the networks, the roles and the   *)
(* counts, when no list-valued parameter has more than one address: the      *)
(* promise of find_existing_ips and of `addr not in allocated[network]'.     *)
THEOREM NoAddressTwice ==
    ASSUME MaxVipLen = 1
    PROVE  Spec => []NoDoubleAllocation
  <1>1. Inv => NoDoubleAllocation
    BY OutputClean DEF NoDoubleAllocation, Inv, Base
  <1> QED
    BY <1>1, Invariance, PTL
-----------------------------------------------------------------------------
(* The inductive invariant behind ExtendedAlike: how much each list has      *)
(* grown, by where its network stands in the order of main().                *)
Old(n) == Len(ips[Compute][n])
Done(x) == x < k \/ pc = "printed"
GrownBy(n, c) == Len(compute[n]) = Old(n) + c
Counted ==
    /\ count = NoCount <=> i = NoCount
    /\ count # NoCount => i <= count /\ (count >= 1 => i >= 1)
    /\ network \in DOMAIN compute =>
         GrownBy(network, IF count = NoCount THEN 0 ELSE count - i)
Grown ==
    /\ count \in Counts \union {NoCount}
    /\ pc = "printed" => count # NoCount /\ count >= 1 /\ k = Len(AllocOrder)
    /\ \A n \in DOMAIN compute : n \notin Elems(AllocOrder) => GrownBy(n, 0)
    /\ \A x \in DOMAIN AllocOrder :
         /\ Done(x) => /\ count # NoCount /\ AllocOrder[x] \in DOMAIN compute
                       /\ GrownBy(AllocOrder[x], count)
         /\ x > k /\ AllocOrder[x] \in DOMAIN compute => GrownBy(AllocOrder[x], 0)
    /\ pc = "allocating" => Counted
GrownInv == pc \in {"allocating", "printed"} => Grown

(* The inductive invariant behind LowestFree and RanOutMeansShort: what has  *)
(* been taken of the network under the cursor is what is free of the hosts   *)
(* the cursor is past; a network that is done was scanned up to some host.   *)
Taken(n) == IF n \in DOMAIN compute THEN {compute[n][x] : x \in New(n)} ELSE {}
Ascending(n) == \A x, y \in New(n) : x < y => compute[n][x].pos < compute[n][y].pos
LowestBelow(n, c) == Taken(n) = {a \in FreeHosts(n) : a.pos < c}
LowestTaken(n) == \E c \in 0..Size : LowestBelow(n, c)
ScanInv ==
    pc \in {"allocating", "printed"} =>
        /\ \A n \in Networks : allocated[n] \subseteq Scanned \union Taken(n)
        /\ \A n \in DOMAIN compute : Ascending(n)
        /\ \A x \in DOMAIN AllocOrder : Done(x) => LowestTaken(AllocOrder[x])
        /\ pc = "allocating" => LowestBelow(network, j)
ShortInv == RanOutMeansShort /\ (failure # "none" => pc = "failed")

(* The order of main() names each network once.                              *)
LEMMA OrderFacts ==
    /\ DOMAIN AllocOrder = 1..Len(AllocOrder) /\ Len(AllocOrder) \in Nat /\ Len(AllocOrder) >= 1
    /\ \A x \in DOMAIN AllocOrder : AllocOrder[x] \in Networks /\ AllocOrder[x] \in Elems(AllocOrder)
    /\ \A x, y \in DOMAIN AllocOrder : x # y => AllocOrder[x] # AllocOrder[y]
  BY NetworkAssumption DEF NetworkAssumption, Elems

(* During a run the lengths of the lists are numbers.                        *)
LEMMA ListLengths ==
    ASSUME Base, pc \in {"allocating", "printed"}, NEW n \in DOMAIN compute
    PROVE  Len(compute[n]) \in Nat /\ Old(n) \in Nat
  <1>1. /\ IsLists(compute) /\ IsFile(vips, ips) /\ Compute \in DOMAIN ips
        /\ DOMAIN compute = DOMAIN ips[Compute]
    BY RoleAssumption DEF RoleAssumption, Base, TypeOK, RunInv, Readable
  <1>2. compute[n] \in Seq(Addr) /\ ips[Compute][n] \in Seq(Addr)
    BY <1>1 DEF IsLists, IsFile
  <1> QED
    BY <1>2 DEF Old

(* Taking an address is counted once, for the network under the cursor.      *)
LEMMA TakeKeepsGrown ==
    ASSUME Base, GrownInv, Take
    PROVE  GrownInv'
  <1>1. /\ Grown /\ Counted /\ TypeOK /\ pc = "allocating"
        /\ network \in DOMAIN compute /\ i # NoCount
        /\ compute' = [compute EXCEPT ![network] = Append(@, addr)]
        /\ vips' = vips /\ ips' = ips /\ count' = count
    BY DEF Take, GrownInv, Grown, Base, file
  <1>2. count # NoCount /\ count \in Int /\ i \in Int /\ k \in DOMAIN AllocOrder /\ i <= count
    BY <1>1 DEF Counted, TypeOK
  <1>3. /\ DOMAIN compute' = DOMAIN compute
        /\ \A n \in DOMAIN compute : n # network => compute'[n] = compute[n]
        /\ \A n \in DOMAIN compute : Old(n)' = Old(n)
    BY <1>1 DEF Old
  <1>4. Len(compute'[network]) = Old(network) + (count - i) + 1
    <2>0. compute[network] \in Seq(Addr) /\ compute'[network] = Append(compute[network], addr)
      BY <1>1 DEF TypeOK, IsLists
    <2>1. Len(compute'[network]) = Len(compute[network]) + 1
      BY <2>0
    <2>2. Len(compute[network]) = Old(network) + (count - i)
      BY <1>1, <1>2 DEF Counted, GrownBy
    <2> QED
      BY <2>1, <2>2
  <1>5. \A x \in DOMAIN AllocOrder : x # k => AllocOrder[x] # network
    BY <1>2, OrderFacts DEF network
  <1>6. network \in Elems(AllocOrder)
    BY <1>2, OrderFacts DEF network
  <1>7. \A n \in DOMAIN compute' : n \notin Elems(AllocOrder) => GrownBy(n, 0)'
    BY <1>1, <1>3, <1>6 DEF Grown, GrownBy, Old
  <1>8. \A x \in DOMAIN AllocOrder :
           /\ x < k => AllocOrder[x] \in DOMAIN compute' /\ GrownBy(AllocOrder[x], count)'
           /\ x > k /\ AllocOrder[x] \in DOMAIN compute' => GrownBy(AllocOrder[x], 0)'
    <2> TAKE x \in DOMAIN AllocOrder
    <2> DEFINE n == AllocOrder[x]
    <2>1. CASE x < k
      <3>1. n \in DOMAIN compute /\ n # network /\ Len(compute[n]) = Old(n) + count
        BY <1>1, <1>2, <1>5, <2>1, OrderFacts DEF Grown, GrownBy, Done
      <3> QED
        BY <1>1, <1>3, <2>1, <3>1, <1>2, OrderFacts DEF GrownBy, Old
    <2>2. CASE x > k
      <3>1. n # network /\ (n \in DOMAIN compute => Len(compute[n]) = Old(n) + 0)
        BY <1>1, <1>2, <1>5, <2>2, OrderFacts DEF Grown, GrownBy
      <3> QED
        BY <1>1, <1>3, <2>2, <3>1, <1>2, OrderFacts DEF GrownBy, Old
    <2>3. CASE x = k
      BY <2>3, <1>2, OrderFacts
    <2> QED
      BY <2>1, <2>2, <2>3, <1>2, OrderFacts
  <1>9. Old(network) \in Nat
    BY <1>1, ListLengths
  <1>10. CASE i - 1 = 0 /\ NextNetwork
    <2>1. i = 1 /\ count >= 1
      BY <1>2, <1>10
    <2>2. Len(compute'[network]) = Old(network) + count
      BY <1>2, <1>4, <1>9, <2>1
    <2>3. \A x \in DOMAIN AllocOrder : x = k =>
              AllocOrder[x] \in DOMAIN compute' /\ GrownBy(AllocOrder[x], count)'
      BY <1>1, <1>3, <2>2 DEF GrownBy, Old, network
    <2>4. CASE k < Len(AllocOrder)
      <3>1. pc' = pc /\ k' = k + 1 /\ i' = count /\ k' \in DOMAIN AllocOrder
        BY <1>2, <1>10, <2>4, OrderFacts DEF NextNetwork
      <3>2. \A x \in DOMAIN AllocOrder : Done(x)' => x < k \/ x = k
        BY <1>1, <1>2, <3>1, OrderFacts DEF Done
      <3>3. \A x \in DOMAIN AllocOrder : x > k' => x > k
        BY <1>2, <3>1, OrderFacts
      <3>4. Counted'
        <4>1. \A x \in DOMAIN AllocOrder : x = k + 1 /\ AllocOrder[x] \in DOMAIN compute' =>
                  GrownBy(AllocOrder[x], 0)'
          BY <1>2, <1>8, OrderFacts
        <4>2. network' \in DOMAIN compute' =>
                  Len(compute'[network']) = Len(ips'[Compute][network']) + 0
          BY <3>1, <4>1 DEF network, GrownBy, Old
        <4>3. count' - i' = 0 /\ i' <= count' /\ (count' >= 1 => i' >= 1)
          BY <1>1, <1>2, <3>1
        <4>4. count' # NoCount /\ i' # NoCount
          BY <1>1, <1>2, <3>1
        <4> QED
          BY <4>2, <4>3, <4>4 DEF Counted, GrownBy, Old
      <3>5. Grown'
        BY <1>1, <1>2, <1>7, <1>8, <2>1, <2>3, <3>1, <3>2, <3>3, <3>4 DEF Grown, GrownBy
      <3> QED
        BY <3>5 DEF GrownInv
    <2>5. CASE ~(k < Len(AllocOrder))
      <3>1. pc' = "printed" /\ k' = k /\ k = Len(AllocOrder)
        BY <1>2, <1>10, <2>5, OrderFacts DEF NextNetwork
      <3>2. \A x \in DOMAIN AllocOrder : x < k \/ x = k
        BY <3>1, OrderFacts
      <3>3. Grown'
        BY <1>1, <1>2, <1>7, <1>8, <2>1, <2>3, <3>1, <3>2 DEF Grown, GrownBy
      <3> QED
        BY <3>3 DEF GrownInv
    <2> QED
      BY <2>4, <2>5
  <1>11. CASE i - 1 # 0 /\ i' = i - 1 /\ j' = j + 1 /\ UNCHANGED <<pc, k>>
    <2>1. \A x \in DOMAIN AllocOrder : Done(x)' => x < k
      BY <1>1, <1>11 DEF Done
    <2>2. Counted'
      <3>1. count - i' = (count - i) + 1
        BY <1>2, <1>11
      <3>2. network' = network /\ Len(compute'[network]) = Len(ips'[Compute][network]) + (count' - i')
        <4>1. network' = network /\ Len(ips'[Compute][network]) = Old(network)
          BY <1>1, <1>11 DEF Old, network
        <4>2. \A o \in Nat : o + (count - i) + 1 = o + (count' - i')
          BY <1>1, <1>2, <1>11
        <4> QED
          BY <1>4, <1>9, <4>1, <4>2
      <3>3. i' <= count /\ (count >= 1 => i' >= 1) /\ i' \in Int
        BY <1>1, <1>2, <1>11 DEF Counted
      <3>4. i' # NoCount /\ count' # NoCount
        BY <1>1, <1>2, <3>3, CountAssumption DEF CountAssumption
      <3> QED
        BY <1>1, <3>2, <3>3, <3>4 DEF Counted, GrownBy, Old
    <2>3. Grown'
      BY <1>1, <1>2, <1>7, <1>8, <1>11, <2>1, <2>2 DEF Grown, GrownBy
    <2> QED
      BY <2>3 DEF GrownInv
  <1> QED
    BY <1>10, <1>11 DEF Take

(* Every step keeps the count.                                               *)
LEMMA GrownStep ==
    ASSUME Base, GrownInv, [Next]_vars
    PROVE  GrownInv'
  <1>1. ASSUME NEW c \in Counts, Start(c)
        PROVE  GrownInv'
    <2>1. /\ Readable /\ pc' = "allocating" /\ count' = c /\ i' = c /\ k' = 1
          /\ compute' = ips[Compute] /\ ips' = ips
      BY <1>1 DEF Start, file
    <2>a. IsLists(ips[Compute])
      BY <2>1, RoleAssumption DEF RoleAssumption, Readable, Base, TypeOK, IsFile
    <2>2. \A n \in DOMAIN compute' : Len(compute'[n]) \in Nat /\ Old(n)' = Len(compute'[n])
      <3> TAKE n \in DOMAIN compute'
      <3>1. ips[Compute][n] \in Seq(Addr)
        BY <2>1, <2>a DEF IsLists
      <3> QED
        BY <2>1, <3>1 DEF Old
    <2>3. \A n \in DOMAIN compute' : GrownBy(n, 0)'
      BY <2>2 DEF GrownBy
    <2>4. \A x \in DOMAIN AllocOrder : ~Done(x)'
      BY <2>1, OrderFacts DEF Done
    <2>5. c \in Int \/ c = NoCount
      BY CountAssumption DEF CountAssumption
    <2>6. Counted'
      <3>1. CASE c = NoCount
        BY <2>1, <2>3, <3>1 DEF Counted, GrownBy
      <3>2. CASE c # NoCount
        BY <2>1, <2>3, <2>5, <3>2 DEF Counted, GrownBy
      <3> QED
        BY <3>1, <3>2
    <2> QED
      BY <2>1, <2>3, <2>4, <2>6 DEF GrownInv, Grown
  <1>2. CASE Take
    BY <1>2, TakeKeepsGrown
  <1>3. CASE PassOver \/ UNCHANGED vars
    <2>1. UNCHANGED <<pc, ips, count, compute, k, i>>
      BY <1>3 DEF PassOver, vars, file, run
    <2> QED
      BY <2>1 DEF GrownInv, Grown, Counted, Done, GrownBy, Old, network
  <1>4. CASE LoadFails \/ TakeFails \/ RanOut \/ Install \/ Discard
    <2>1. pc' \in {"idle", "failed"}
      BY <1>4 DEF LoadFails, TakeFails, RanOut, Install, Discard, Idle
    <2> QED
      BY <2>1 DEF GrownInv
  <1>5. CASE RetireCompute \/ \E v \in Vips, s \in VipLists : SetVips(v, s)
    <2>1. pc' = "idle"
      BY <1>5 DEF RetireCompute, SetVips
    <2> QED
      BY <2>1 DEF GrownInv
  <1> QED
    BY <1>1, <1>2, <1>3, <1>4, <1>5 DEF Next, Loop

(* A printed file is longer by the asked number of addresses in every list   *)
(* main() extends and in no other, and begins with what it had: for every    *)
(* order of the networks and every count.                                    *)
THEOREM ListsGrowAlike == Spec => []ExtendedAlike
  <1>1. Init => GrownInv
    BY DEF Init, GrownInv
  <1>2. Base /\ GrownInv => ExtendedAlike
    <2> SUFFICES ASSUME Base, GrownInv, pc = "printed"
                 PROVE  /\ DOMAIN compute = DOMAIN ips[Compute]
                        /\ \A n \in DOMAIN compute :
                             /\ Len(compute[n]) = Len(ips[Compute][n]) +
                                   IF n \in Elems(AllocOrder) THEN count ELSE 0
                             /\ \A x \in DOMAIN ips[Compute][n] : compute[n][x] = ips[Compute][n][x]
      BY DEF ExtendedAlike
    <2>1. /\ DOMAIN compute = DOMAIN ips[Compute] /\ \A n \in DOMAIN compute : KeepsOld(n)
          /\ Grown
      BY DEF Base, RunInv, GrownInv
    <2>2. \A n \in DOMAIN compute : Len(compute[n]) = Old(n) +
                                       IF n \in Elems(AllocOrder) THEN count ELSE 0
      BY <2>1 DEF Grown, GrownBy, Done, Elems
    <2> QED
      BY <2>1, <2>2 DEF KeepsOld, Old
  <1>3. GrownInv /\ Base /\ [Next]_vars => GrownInv'
    BY GrownStep
  <1> QED
    BY <1>1, <1>2, <1>3, BaseInvariance, PTL DEF Spec
-----------------------------------------------------------------------------
(* In a clean file every address of a compute node is that node's alone.     *)
LEMMA CleanOneOwner == TypeOK /\ Clean(vips, ips) => Pool!OneOwner
  <1> SUFFICES ASSUME TypeOK, Clean(vips, ips),
                      NEW n \in DOMAIN Held, NEW m \in DOMAIN Held,
                      NEW x \in DOMAIN Held[n], NEW y \in DOMAIN Held[m]
               PROVE  /\ Held[n][x] \notin Others
                      /\ Held[n][x] = Held[m][y] => n = m /\ x = y
    BY DEF Pool!OneOwner
  <1>1. Compute \in DOMAIN ips /\ Held = ips[Compute]
    BY DEF Held, NoLists
  <1>2. Held[n][x] \in NodeAddrs(ips)
    BY <1>1 DEF NodeAddrs, Elems
  <1>3. Held[n][x] \notin NodeAddrs([r \in DOMAIN ips \ {Compute} |-> ips[r]])
    <2> SUFFICES ASSUME NEW r \in DOMAIN ips \ {Compute}, NEW l \in DOMAIN ips[r],
                        NEW z \in DOMAIN ips[r][l], Held[n][x] = ips[r][l][z]
                 PROVE  FALSE
      BY DEF NodeAddrs, Elems
    <2>1. <<Compute, n, x>> = <<r, l, z>>
      BY <1>1 DEF Clean, UniqueNodes
    <2> QED
      BY <2>1
  <1>4. Held[n][x] = Held[m][y] => <<Compute, n, x>> = <<Compute, m, y>>
    BY <1>1 DEF Clean, UniqueNodes
  <1> QED
    BY <1>2, <1>3, <1>4 DEF Clean, Others

(* Everything but the compute nodes keeps its addresses when only their      *)
(* lists change.                                                             *)
LEMMA OthersKept ==
    ASSUME UNCHANGED vips, NEW l, Compute \in DOMAIN ips, ips' = [ips EXCEPT ![Compute] = l]
    PROVE  Others' = Others /\ Held = ips[Compute] /\ Held' = l
  <1>1. [r \in DOMAIN ips \ {Compute} |-> ips[r]]' = [r \in DOMAIN ips \ {Compute} |-> ips[r]]
    OBVIOUS
  <1> QED
    BY <1>1 DEF Others, Held, VipAddrs, Elems

(* Installing the printed file is one extension of the pool.                 *)
LEMMA InstallExtends ==
    ASSUME Inv, GrownInv, Install, Pool!OneOwner'
    PROVE  Pool!Next
  <1>1. /\ Readable /\ DOMAIN compute = DOMAIN ips[Compute] /\ pc = "printed" /\ Grown
        /\ \A n \in DOMAIN compute : KeepsOld(n)
        /\ UNCHANGED vips /\ ips' = [ips EXCEPT ![Compute] = compute] /\ Compute \in DOMAIN ips
    BY RoleAssumption DEF RoleAssumption, Inv, Base, RunInv, GrownInv, Install, Output, Readable
  <1>2. Others' = Others /\ Held = ips[Compute] /\ Held' = compute
    BY <1>1, OthersKept
  <1>3. count \in Counts \ {NoCount} /\ count > 0 /\ count # 0
    BY <1>1, CountAssumption DEF CountAssumption, Grown
  <1>4. Elems(AllocOrder) \subseteq DOMAIN Held
    BY <1>1, <1>2 DEF Grown, Done, Elems
  <1>5. ASSUME NEW n \in DOMAIN Held
        PROVE  /\ Len(Held'[n]) = Len(Held[n]) + (IF n \in Elems(AllocOrder) THEN count ELSE 0)
               /\ \A x \in DOMAIN Held[n] : Held'[n][x] = Held[n][x]
               /\ \A x \in DOMAIN Held'[n] \ DOMAIN Held[n] : Held'[n][x] \notin Pool!InUse
    <2>1. Len(Held'[n]) = Len(Held[n]) + (IF n \in Elems(AllocOrder) THEN count ELSE 0)
      BY <1>1, <1>2 DEF Grown, GrownBy, Done, Elems, Old
    <2>2. \A m \in DOMAIN Held : \A x \in DOMAIN Held[m] :
              x \in DOMAIN Held'[m] /\ Held'[m][x] = Held[m][x]
      <3> TAKE m \in DOMAIN Held
      <3>1. KeepsOld(m) /\ compute[m] \in Seq(Addr) /\ ips[Compute][m] \in Seq(Addr)
        BY <1>1, <1>2 DEF Inv, Base, TypeOK, IsFile, IsLists
      <3> QED
        BY <1>1, <1>2, <3>1 DEF KeepsOld
    <2>3. ASSUME NEW x \in DOMAIN Held'[n] \ DOMAIN Held[n]
          PROVE  Held'[n][x] \notin Pool!InUse
      <3>1. Held'[n][x] \notin Others
        BY <1>1, <1>2 DEF Pool!OneOwner
      <3>2. ASSUME NEW m \in DOMAIN Held, NEW y \in DOMAIN Held[m]
            PROVE  Held'[n][x] # Held[m][y]
        <4>1. Held[m][y] = Held'[m][y] /\ y \in DOMAIN Held'[m] /\ m \in DOMAIN Held'
          BY <1>1, <1>2, <2>2
        <4>2. ~(n = m /\ x = y)
          OBVIOUS
        <4> QED
          BY <1>1, <1>2, <4>1, <4>2 DEF Pool!OneOwner
      <3> QED
        BY <3>1, <3>2 DEF Pool!InUse
    <2> QED
      BY <2>1, <2>2, <2>3
  <1>6. Pool!Extend(count)
    BY <1>1, <1>2, <1>4, <1>5 DEF Pool!Extend
  <1> QED
    BY <1>3, <1>6 DEF Pool!Next

(* Taking the last compute node out is what the pool calls Retire.           *)
LEMMA RetireShortens ==
    ASSUME Inv, RetireCompute
    PROVE  Pool!Retire
  <1> DEFINE l == [n \in DOMAIN ips[Compute] |-> SubSeq(ips[Compute][n], 1, Len(ips[Compute][n]) - 1)]
  <1>1. /\ UNCHANGED vips /\ Compute \in DOMAIN ips /\ ips' = [ips EXCEPT ![Compute] = l]
        /\ \A n \in DOMAIN ips[Compute] : ips[Compute][n] # << >>
    BY DEF RetireCompute
  <1>2. Others' = Others /\ Held = ips[Compute] /\ Held' = l
    BY <1>1, OthersKept
  <1>3. ASSUME NEW n \in DOMAIN Held
        PROVE  /\ Len(Held'[n]) = Len(Held[n]) - 1
               /\ \A x \in DOMAIN Held'[n] : Held'[n][x] = Held[n][x]
    <2>1. Held[n] \in Seq(Addr) /\ Held[n] # << >> /\ Held'[n] = SubSeq(Held[n], 1, Len(Held[n]) - 1)
      BY <1>1, <1>2 DEF Inv, Base, TypeOK, IsFile, IsLists
    <2>2. ASSUME NEW s \in Seq(Addr), s # << >>, NEW t, t = SubSeq(s, 1, Len(s) - 1)
          PROVE  Len(t) = Len(s) - 1 /\ \A x \in DOMAIN t : t[x] = s[x]
      <3>1. Len(s) \in Nat /\ Len(s) >= 1 /\ DOMAIN s = 1..Len(s)
        BY <2>2
      <3>2. t = [x \in 1..(Len(s) - 1) |-> s[x]]
        BY <2>2, <3>1
      <3>3. t \in Seq(Addr) /\ DOMAIN t = 1..(Len(s) - 1)
        BY <2>2, <3>1, <3>2
      <3> QED
        BY <3>1, <3>2, <3>3
    <2> QED
      BY <2>1, <2>2
  <1> QED
    BY <1>2, <1>3 DEF Pool!Retire

(* The runs and the edits implement an address pool that is extended as a    *)
(* whole or not at all, by the same number of unused addresses in each       *)
(* network: every step of the script but Install is invisible to the pool.   *)
THEOREM ImplementsPool ==
    ASSUME MaxVipLen = 1
    PROVE  Spec => PoolSpec
  <1>1. Init /\ Inv => Pool!Init
    BY CleanOneOwner DEF Inv, Base, Pool!Init
  <1>2. Inv /\ Inv' /\ GrownInv /\ [Next]_vars => [Pool!Next]_<<Held, Others>>
    <2> SUFFICES ASSUME Inv, Inv', GrownInv, [Next]_vars
                 PROVE  [Pool!Next]_<<Held, Others>>
      OBVIOUS
    <2>0. Pool!OneOwner'
      <3>1. (TypeOK /\ Clean(vips, ips) => Pool!OneOwner)'
        BY CleanOneOwner, PTL
      <3> QED
        BY <3>1 DEF Inv, Base
    <2>1. CASE UNCHANGED file
      BY <2>1 DEF file, Held, Others, VipAddrs, NodeAddrs, Elems
    <2>2. CASE Install
      BY <2>0, <2>2, InstallExtends
    <2>3. ASSUME NEW v \in Vips, NEW s \in VipLists, SetVips(v, s)
          PROVE  Pool!Next
      <3>1. Held' = Held
        BY <2>3 DEF SetVips, Held
      <3> QED
        BY <2>0, <3>1 DEF Pool!Reassign, Pool!Next
    <2>4. CASE RetireCompute
      BY <2>4, RetireShortens DEF Pool!Next
    <2> QED
      BY <2>1, <2>2, <2>3, <2>4
        DEF Next, Loop, Start, LoadFails, PassOver, Take, TakeFails, RanOut, Discard, vars
  <1>3. Init => GrownInv
    BY DEF Init, GrownInv
  <1>4. GrownInv /\ Inv /\ [Next]_vars => GrownInv'
    BY GrownStep DEF Inv
  <1> QED
    BY <1>1, <1>2, <1>3, <1>4, Invariance, PTL DEF Spec, PoolSpec, Pool!Spec
-----------------------------------------------------------------------------
(* A network has finitely many free hosts.                                   *)
LEMMA FreeFinite ==
    ASSUME NEW n
    PROVE  /\ IsFiniteSet(FreeHosts(n))
           /\ \A a \in FreeHosts(n) : a.pos \in Nat /\ a.pos < Size /\ a = Host(n, a.pos)
  <1> DEFINE S == Skip..(Size - 1)
             T == {Host(n, p) : p \in S}
             f == [p \in S |-> Host(n, p)]
  <1>1. Skip \in Nat /\ Size \in Nat
    BY SizeAssumption DEF SizeAssumption
  <1>2. IsFiniteSet(S)
    BY <1>1, FS_Interval
  <1>3. f \in Surjection(S, T)
    BY DEF Surjection
  <1>4. IsFiniteSet(T)
    BY <1>2, <1>3, FS_Surjection
  <1>5. FreeHosts(n) \subseteq T
    BY DEF FreeHosts
  <1>6. \A a \in T : a.pos \in Nat /\ a.pos < Size /\ a = Host(n, a.pos)
    BY <1>1 DEF Host
  <1> QED
    BY <1>4, <1>5, <1>6, FS_Subset

(* The elements below a cut are those that have fewer elements below them    *)
(* than there are below the cut.                                             *)
LEMMA CutCounts ==
    ASSUME NEW F, IsFiniteSet(F), \A a \in F : a.pos \in Nat, NEW c \in Nat,
           NEW T, T = {a \in F : a.pos < c}
    PROVE  /\ IsFiniteSet(T) /\ Cardinality(T) \in Nat
           /\ T = {a \in F : Cardinality({b \in F : b.pos < a.pos}) < Cardinality(T)}
  <1>1. IsFiniteSet(T) /\ Cardinality(T) \in Nat
    BY FS_Subset, FS_CardinalityType
  <1>2. ASSUME NEW a \in F
        PROVE  a \in T <=> Cardinality({b \in F : b.pos < a.pos}) < Cardinality(T)
    <2> DEFINE B == {b \in F : b.pos < a.pos}
    <2>1. IsFiniteSet(B) /\ Cardinality(B) \in Nat
      BY FS_Subset, FS_CardinalityType
    <2>2. CASE a \in T
      <3>1. B \subseteq T /\ a \notin B
        BY <2>2
      <3>2. Cardinality(B) <= Cardinality(T) /\ Cardinality(B) # Cardinality(T)
        BY <1>1, <2>2, <3>1, FS_Subset
      <3> QED
        BY <1>1, <2>1, <2>2, <3>2
    <2>3. CASE a \notin T
      <3>1. T \subseteq B
        BY <2>3
      <3>2. Cardinality(T) <= Cardinality(B)
        BY <2>1, <3>1, FS_Subset
      <3> QED
        BY <1>1, <2>1, <2>3, <3>2
    <2> QED
      BY <2>2, <2>3
  <1> QED
    BY <1>1, <1>2

(* As many different addresses were taken as the list has grown by.          *)
LEMMA TakenCount ==
    ASSUME Inv, pc \in {"allocating", "printed"}, NEW n \in DOMAIN compute,
           NEW c \in Nat, GrownBy(n, c)
    PROVE  IsFiniteSet(Taken(n)) /\ Cardinality(Taken(n)) = c
  <1> DEFINE f == [x \in New(n) |-> compute[n][x]]
  <1>1. Len(compute[n]) \in Nat /\ Old(n) \in Nat /\ Len(compute[n]) = Old(n) + c
    BY ListLengths DEF Inv, GrownBy
  <1>2. IsFiniteSet(New(n)) /\ Cardinality(New(n)) = c
    <2>1. New(n) = (Old(n) + 1)..(Old(n) + c)
      BY <1>1 DEF New, Old
    <2> QED
      BY <1>1, <2>1, FS_Interval
  <1>3. NewIsFresh(n)
    BY DEF Inv, Base, RunInv
  <1>4. Taken(n) = {compute[n][x] : x \in New(n)}
    BY DEF Taken
  <1>5. f \in Bijection(New(n), Taken(n))
    <2>1. f \in [New(n) -> Taken(n)] /\ \A t \in Taken(n) : \E x \in New(n) : f[x] = t
      BY <1>4
    <2>2. \A x, y \in New(n) : f[x] = f[y] => x = y
      BY <1>3 DEF NewIsFresh
    <2> QED
      BY <2>1, <2>2 DEF Bijection, Injection, Surjection, IsInjective
  <1> QED
    BY <1>2, <1>5, FS_Bijection DEF ExistsBijection

(* The scan finds the addresses of the file, and nothing else.               *)
LEMMA ScannedIsFile ==
    ASSUME Inv, MaxVipLen = 1, Readable
    PROVE  Scanned = NodeAddrs(ips) \union VipAddrs(vips)
  <1>1. VipsRead(vips) \subseteq VipAddrs(vips)
    <2>1. \A v \in Vips : 1 \in DOMAIN vips[v]
      <3> TAKE v \in Vips
      <3>1. vips[v] \in Seq(Addr) /\ vips[v] # << >>
        BY DEF Inv, Base, TypeOK, IsFile, Readable
      <3> QED
        BY <3>1
    <2> QED
      BY <2>1 DEF VipsRead, VipAddrs, Elems
  <1> QED
    BY <1>1, AllScanned DEF Scanned

(* The inner loop wants a host when and only when it is free.                *)
LEMMA WantedIsFree ==
    ASSUME Inv, ScanInv, MaxVipLen = 1, pc = "allocating", j < Size
    PROVE  Wanted <=> addr \in FreeHosts(network)
  <1>1. /\ Readable /\ Known /\ k \in DOMAIN AllocOrder /\ j \in 0..Size
        /\ allocated[network] \subseteq Scanned \union Taken(network)
        /\ LowestBelow(network, j)
    BY OrderFacts DEF Inv, Base, TypeOK, RunInv, ScanInv, network
  <1>2. Skip \in Nat /\ Size \in Nat
    BY SizeAssumption DEF SizeAssumption
  <1>3. addr.net = network /\ addr.pos = j
    BY DEF addr, Host
  <1>4. Scanned = NodeAddrs(ips) \union VipAddrs(vips)
    BY <1>1, ScannedIsFile
  <1>5. addr \in {Host(network, p) : p \in Skip..(Size - 1)} <=> j >= Skip
    <2>1. CASE j >= Skip
      BY <1>1, <1>2, <2>1 DEF addr
    <2>2. CASE ~(j >= Skip)
      <3>1. \A p \in Skip..(Size - 1) : Host(network, p).pos # addr.pos
        BY <1>1, <1>2, <1>3, <2>2 DEF Host
      <3> QED
        BY <2>2, <3>1
    <2> QED
      BY <2>1, <2>2
  <1>6. addr \notin Taken(network)
    BY <1>1, <1>3 DEF LowestBelow
  <1>7. addr \in allocated[network] <=> addr \in Scanned
    BY <1>1, <1>3, <1>6 DEF Known
  <1> QED
    BY <1>4, <1>5, <1>7 DEF Wanted, FreeHosts

(* Moving the cursor by one adds one host to what it is past.                *)
LEMMA CursorPast ==
    ASSUME NEW n, NEW c \in Nat
    PROVE  {a \in FreeHosts(n) : a.pos < c + 1} =
              {a \in FreeHosts(n) : a.pos < c} \union ({Host(n, c)} \cap FreeHosts(n))
  <1>1. \A a \in FreeHosts(n) : a.pos < c + 1 <=> a.pos < c \/ a.pos = c
    BY FreeFinite
  <1>2. \A a \in FreeHosts(n) : a.pos = c <=> a = Host(n, c)
    BY FreeFinite DEF Host
  <1> QED
    BY <1>1, <1>2

(* Taking a candidate appends it to the list of its network.                 *)
LEMMA TakeAppends ==
    ASSUME Inv, Take, NEW n \in DOMAIN compute
    PROVE  /\ n # network => compute'[n] = compute[n] /\ New(n)' = New(n)
           /\ n = network =>
                /\ \A x \in New(n) : compute'[n][x] = compute[n][x] /\ x < Len(compute'[n])
                /\ compute'[n][Len(compute'[n])] = addr
                /\ New(n)' = New(n) \union {Len(compute'[n])}
  <1>1. /\ compute' = [compute EXCEPT ![network] = Append(@, addr)] /\ ips' = ips
        /\ pc = "allocating" /\ IsLists(compute) /\ KeepsOld(n)
    BY DEF Take, Inv, Base, TypeOK, RunInv, file
  <1>2. CASE n # network
    BY <1>1, <1>2 DEF New
  <1>3. CASE n = network
    <2>1. compute[n] \in Seq(Addr) /\ compute'[n] = Append(compute[n], addr)
      BY <1>1, <1>3 DEF IsLists
    <2>2. /\ Len(compute'[n]) = Len(compute[n]) + 1 /\ compute'[n][Len(compute[n]) + 1] = addr
          /\ \A x \in 1..Len(compute[n]) : compute'[n][x] = compute[n][x]
          /\ Len(compute[n]) \in Nat
      BY <2>1
    <2>3. Old(n) \in Nat /\ Old(n) <= Len(compute[n])
      BY <1>1, ListLengths DEF KeepsOld, Old
    <2>4. New(n) = (Old(n) + 1)..Len(compute[n]) /\ New(n)' = (Old(n) + 1)..(Len(compute[n]) + 1)
      BY <1>1, <2>2 DEF New, Old
    <2> QED
      BY <1>3, <2>2, <2>3, <2>4
  <1> QED
    BY <1>2, <1>3

(* Taking the lowest free host keeps the scan in order.                      *)
LEMMA TakeKeepsScan ==
    ASSUME Inv, GrownInv, ScanInv, MaxVipLen = 1, Take
    PROVE  ScanInv'
  <1>1. /\ pc = "allocating" /\ Wanted /\ network \in DOMAIN compute /\ j \in 0..Size /\ j < Size
        /\ allocated' = [allocated EXCEPT ![network] = @ \union {addr}]
        /\ allocated \in [Networks -> SUBSET Addr] /\ DOMAIN compute \subseteq Networks
        /\ compute' = [compute EXCEPT ![network] = Append(@, addr)]
        /\ UNCHANGED <<vips, ips, count>>
        /\ k \in DOMAIN AllocOrder /\ Size \in Nat
        /\ i \in Int /\ count # NoCount
    BY SizeAssumption
      DEF SizeAssumption, Take, Wanted, file, Inv, Base, TypeOK, IsLists, GrownInv, Grown, Counted
  <1>2. /\ \A n \in Networks : allocated[n] \subseteq Scanned \union Taken(n)
        /\ \A n \in DOMAIN compute : Ascending(n)
        /\ \A x \in DOMAIN AllocOrder : x < k => LowestTaken(AllocOrder[x])
        /\ LowestBelow(network, j)
    BY <1>1 DEF ScanInv, Done
  <1>3. addr \in FreeHosts(network) /\ addr.pos = j
    BY <1>1, WantedIsFree DEF addr, Host
  <1>4. Scanned' = Scanned /\ DOMAIN compute' = DOMAIN compute /\ \A n : FreeHosts(n)' = FreeHosts(n)
    BY <1>1 DEF Scanned, VipsRead, VipAddrs, NodeAddrs, Elems, FreeHosts
  <1>5. ASSUME NEW n \in DOMAIN compute
        PROVE  /\ n # network => Taken(n)' = Taken(n)
               /\ n = network => Taken(n)' = Taken(n) \union {addr}
    <2>1. /\ Taken(n) = {compute[n][x] : x \in New(n)}
          /\ Taken(n)' = {compute'[n][x] : x \in New(n)'}
      BY <1>4 DEF Taken
    <2> QED
      BY <2>1, TakeAppends
  <1>6. ASSUME NEW n, n \notin DOMAIN compute
        PROVE  Taken(n)' = Taken(n) /\ n # network
    BY <1>1, <1>4, <1>6 DEF Taken
  <1>7. \A n \in Networks : allocated'[n] \subseteq Scanned' \union Taken(n)'
    BY <1>1, <1>2, <1>4, <1>5, <1>6
  <1>8. ASSUME NEW n \in DOMAIN compute
        PROVE  Ascending(n)'
    <2>1. CASE n # network
      BY <1>2, <2>1, TakeAppends DEF Ascending
    <2>2. CASE n = network
      <3> DEFINE last == Len(compute'[n])
      <3>1. /\ \A x \in New(n) : compute'[n][x] = compute[n][x] /\ x < last
            /\ compute'[n][last] = addr /\ New(n)' = New(n) \union {last}
        BY <2>2, TakeAppends
      <3>2. \A x \in New(n) : compute[n][x].pos < j
        <4>1. \A x \in New(n) : compute[n][x] \in Taken(n)
          BY DEF Taken
        <4> QED
          BY <1>2, <2>2, <4>1 DEF LowestBelow
      <3>3. last \in Int /\ New(n) \subseteq Int
        <4>1. compute[n] \in Seq(Addr) /\ compute'[n] = Append(compute[n], addr)
          BY <1>1, <2>2 DEF Inv, Base, TypeOK, IsLists
        <4> QED
          BY <4>1 DEF New
      <3>4. ASSUME NEW x \in New(n)', NEW y \in New(n)', x < y
            PROVE  compute'[n][x].pos < compute'[n][y].pos
        <4>1. x \in New(n)
          BY <3>1, <3>3, <3>4
        <4>2. CASE y \in New(n)
          BY <1>2, <3>1, <3>4, <4>1, <4>2 DEF Ascending
        <4>3. CASE y = last
          BY <1>3, <3>1, <3>2, <4>1, <4>3
        <4> QED
          BY <3>1, <4>2, <4>3
      <3> QED
        BY <3>4 DEF Ascending
    <2> QED
      BY <2>1, <2>2
  <1>9. Taken(network)' = Taken(network) \union {addr} \/ network' # network
    BY <1>1, <1>5
  <1>10. ASSUME NEW n, n = network
         PROVE  Taken(n)' = {a \in FreeHosts(n)' : a.pos < j + 1}
    <2>1. {a \in FreeHosts(n) : a.pos < j + 1} = {a \in FreeHosts(n) : a.pos < j} \union {addr}
      BY <1>1, <1>3, <1>10, CursorPast DEF addr
    <2> QED
      BY <1>1, <1>2, <1>4, <1>5, <1>10, <2>1 DEF LowestBelow
  <1>11. \A x \in DOMAIN AllocOrder : x # k => AllocOrder[x] # network
    BY <1>1, OrderFacts DEF network
  <1>12. ASSUME NEW x \in DOMAIN AllocOrder, x < k \/ x = k
         PROVE  LowestTaken(AllocOrder[x])'
    <2>1. CASE x < k
      <3>1. PICK c \in 0..Size : LowestBelow(AllocOrder[x], c)
        BY <1>2, <2>1 DEF LowestTaken
      <3>2. Taken(AllocOrder[x])' = Taken(AllocOrder[x])
        BY <1>1, <1>5, <1>6, <1>11, <2>1, OrderFacts
      <3> QED
        BY <1>4, <3>1, <3>2 DEF LowestBelow, LowestTaken
    <2>2. CASE x = k
      <3>1. j + 1 \in 0..Size
        BY <1>1
      <3>2. ASSUME NEW c \in 0..Size, c = j + 1
            PROVE  LowestBelow(AllocOrder[x], c)'
        BY <1>10, <2>2, <3>2 DEF LowestBelow, network
      <3> QED
        BY <3>1, <3>2 DEF LowestTaken
    <2> QED
      BY <1>1, <1>12, <2>1, <2>2, OrderFacts
  <1>13. ASSUME NEW x \in DOMAIN AllocOrder, x > k
         PROVE  Taken(AllocOrder[x])' = {}
    <2> DEFINE n == AllocOrder[x]
    <2>1. n # network
      BY <1>1, <1>11, <1>13, OrderFacts
    <2>2. CASE n \in DOMAIN compute
      <3>1. GrownBy(n, 0)
        BY <1>1, <1>13, <2>2 DEF GrownInv, Grown
      <3>2. New(n) = {}
        BY <1>1, <2>2, <3>1, ListLengths DEF GrownBy, New, Old
      <3> QED
        BY <1>5, <2>1, <2>2, <3>2 DEF Taken
    <2>3. CASE n \notin DOMAIN compute
      BY <1>6, <2>3 DEF Taken
    <2> QED
      BY <2>2, <2>3
  <1>a. \A n \in DOMAIN compute' : Ascending(n)'
    BY <1>4, <1>8
  <1>14. CASE i - 1 = 0 /\ NextNetwork
    <2>1. CASE k < Len(AllocOrder)
      <3>1. pc' = pc /\ k' = k + 1 /\ j' = 0 /\ k' \in DOMAIN AllocOrder
        BY <1>1, <1>14, <2>1, OrderFacts DEF NextNetwork
      <3>2. \A x \in DOMAIN AllocOrder : Done(x)' => x < k \/ x = k
        BY <1>1, <3>1, OrderFacts DEF Done
      <3>3. LowestBelow(network, j)'
        <4>1. \A x \in DOMAIN AllocOrder : x = k + 1 => Taken(AllocOrder[x])' = {}
          BY <1>1, <1>13, OrderFacts
        <4>2. \A n : {a \in FreeHosts(n) : a.pos < 0} = {}
          BY FreeFinite
        <4>3. \A x \in DOMAIN AllocOrder : x = k + 1 => LowestBelow(AllocOrder[x], 0)'
          BY <1>4, <4>1, <4>2 DEF LowestBelow
        <4> QED
          BY <3>1, <4>3 DEF network, LowestBelow, Taken, FreeHosts, New
      <3>4. \A x \in DOMAIN AllocOrder : Done(x)' => LowestTaken(AllocOrder[x])'
        BY <1>12, <3>1, <3>2
      <3> QED
        BY <1>7, <1>a, <3>3, <3>4 DEF ScanInv
    <2>2. CASE ~(k < Len(AllocOrder))
      <3>1. pc' = "printed" /\ \A x \in DOMAIN AllocOrder : x < k \/ x = k
        BY <1>1, <1>14, <2>2, OrderFacts DEF NextNetwork
      <3>2. \A x \in DOMAIN AllocOrder : LowestTaken(AllocOrder[x])'
        BY <1>12, <3>1
      <3> QED
        BY <1>7, <1>a, <3>1, <3>2 DEF ScanInv
    <2> QED
      BY <2>1, <2>2
  <1>15. CASE i - 1 # 0 /\ i' = i - 1 /\ j' = j + 1 /\ UNCHANGED <<pc, k>>
    <2>1. \A x \in DOMAIN AllocOrder : Done(x)' => x < k
      BY <1>1, <1>15 DEF Done
    <2>2. LowestBelow(network, j)'
      BY <1>10, <1>15 DEF LowestBelow, network
    <2>3. \A x \in DOMAIN AllocOrder : Done(x)' => LowestTaken(AllocOrder[x])'
      BY <1>12, <2>1
    <2> QED
      BY <1>7, <1>a, <2>2, <2>3 DEF ScanInv
  <1> QED
    BY <1>14, <1>15 DEF Take

(* A step that takes nothing keeps the scan in order, if the cursor has not  *)
(* passed a free host.                                                       *)
LEMMA ScanKept ==
    ASSUME ScanInv, UNCHANGED <<vips, ips, pc, allocated, compute, k>>,
           (pc = "allocating" /\ LowestBelow(network, j)') \/ pc = "printed"
    PROVE  ScanInv'
  <1>1. /\ UNCHANGED <<vips, ips, pc, allocated, compute, k>> /\ pc \in {"allocating", "printed"}
        /\ pc = "allocating" => LowestBelow(network, j)'
    OBVIOUS
  <1>5. /\ Scanned' = Scanned /\ DOMAIN compute' = DOMAIN compute
        /\ \A n : Taken(n)' = Taken(n) /\ LowestTaken(n)' = LowestTaken(n)
        /\ \A n : Ascending(n)' = Ascending(n)
        /\ \A x : Done(x)' = Done(x)
    BY <1>1 DEF Scanned, VipsRead, NodeAddrs, VipAddrs, Elems, Taken, New, Ascending, Done,
       LowestTaken, LowestBelow, FreeHosts
  <1>6. /\ \A n \in Networks : allocated[n] \subseteq Scanned \union Taken(n)
        /\ \A n \in DOMAIN compute : Ascending(n)
        /\ \A x \in DOMAIN AllocOrder : Done(x) => LowestTaken(AllocOrder[x])
    BY <1>1 DEF ScanInv
  <1>7. \A n \in Networks : allocated'[n] \subseteq Scanned' \union Taken(n)'
    BY <1>1, <1>5, <1>6
  <1>8. \A n \in DOMAIN compute' : Ascending(n)'
    BY <1>5, <1>6
  <1>9. \A x \in DOMAIN AllocOrder : Done(x)' => LowestTaken(AllocOrder[x])'
    BY <1>5, <1>6
  <1> QED
    BY <1>1, <1>7, <1>8, <1>9 DEF ScanInv

(* Every step keeps the scan in order.                                       *)
LEMMA ScanStep ==
    ASSUME Inv, GrownInv, ScanInv, MaxVipLen = 1, [Next]_vars
    PROVE  ScanInv'
  <1>1. ASSUME NEW c \in Counts, Start(c)
        PROVE  ScanInv'
    <2>1. /\ Readable /\ pc' = "allocating" /\ k' = 1 /\ j' = 0
          /\ compute' = ips[Compute] /\ ips' = ips /\ vips' = vips
          /\ allocated' = find_existing_ips
      BY <1>1 DEF Start, file
    <2>2. IsLists(ips[Compute])
      BY <2>1, RoleAssumption DEF RoleAssumption, Readable, Inv, Base, TypeOK, IsFile
    <2>3. ASSUME NEW n \in DOMAIN compute'
          PROVE  New(n)' = {}
      <3>1. ips[Compute][n] \in Seq(Addr)
        BY <2>1, <2>2 DEF IsLists
      <3> QED
        BY <2>1, <3>1 DEF New
    <2>4. \A n : Taken(n)' = {}
      BY <2>3 DEF Taken
    <2>5. \A x \in DOMAIN AllocOrder : ~Done(x)'
      BY <2>1, OrderFacts DEF Done
    <2>6. Scanned' = Scanned /\ \A n : FreeHosts(n)' = FreeHosts(n)
      BY <2>1 DEF Scanned, VipsRead, VipAddrs, NodeAddrs, Elems, FreeHosts
    <2>7. \A n \in Networks : allocated'[n] \subseteq Scanned' \union Taken(n)'
      BY <2>1, <2>6 DEF find_existing_ips
    <2>8. \A n \in DOMAIN compute' : Ascending(n)'
      BY <2>3 DEF Ascending
    <2>9. LowestBelow(network, j)'
      <3>1. \A n : {a \in FreeHosts(n) : a.pos < 0} = {}
        BY FreeFinite
      <3>2. ASSUME NEW n
            PROVE  LowestBelow(n, 0)'
        BY <2>4, <2>6, <3>1 DEF LowestBelow
      <3>3. network' = AllocOrder[1]
        BY <2>1 DEF network
      <3>4. LowestBelow(AllocOrder[1], 0)'
        BY <3>2
      <3> QED
        BY <2>1, <3>3, <3>4 DEF LowestBelow, Taken, FreeHosts, New
    <2> QED
      BY <2>1, <2>5, <2>7, <2>8, <2>9 DEF ScanInv
  <1>2. CASE Take
    BY <1>2, TakeKeepsScan
  <1>3. CASE PassOver
    <2>1. /\ pc = "allocating" /\ j < Size /\ ~Wanted /\ j' = j + 1 /\ j \in Nat
          /\ UNCHANGED <<vips, ips, pc, allocated, compute, k>>
      <3>1. pc = "allocating" /\ j < Size /\ j' = j + 1 /\ UNCHANGED <<vips, ips, pc, allocated, compute, k>>
        BY <1>3 DEF PassOver, file
      <3>2. ~Wanted
        BY <1>3 DEF PassOver
      <3>3. j \in Nat
        <4>1. j \in 0..Size
          BY DEF Inv, Base, TypeOK
        <4> QED
          BY <4>1
      <3> QED
        BY <3>1, <3>2, <3>3
    <2>2. Host(network, j) \notin FreeHosts(network)
      BY <2>1, WantedIsFree DEF addr
    <2>3. {a \in FreeHosts(network) : a.pos < j + 1} = {a \in FreeHosts(network) : a.pos < j}
      BY <2>1, <2>2, CursorPast
    <2>4. LowestBelow(network, j)'
      <3>1. LowestBelow(network, j)
        BY <2>1 DEF ScanInv
      <3>2. network' = network /\ Taken(network)' = Taken(network) /\ FreeHosts(network)' = FreeHosts(network)
        BY <2>1 DEF network, Taken, New, FreeHosts, NodeAddrs, VipAddrs, Elems
      <3> QED
        BY <2>1, <2>3, <3>1, <3>2 DEF LowestBelow
    <2> QED
      BY <2>1, <2>4, ScanKept
  <1>4. CASE UNCHANGED vars
    <2>1. UNCHANGED <<vips, ips, pc, allocated, compute, k, j>>
      BY <1>4 DEF vars, file, run
    <2>2. LowestBelow(network, j)' = LowestBelow(network, j)
      BY <2>1 DEF LowestBelow, network, Taken, New, FreeHosts, NodeAddrs, VipAddrs, Elems
    <2>3. CASE pc = "allocating"
      BY <2>1, <2>2, <2>3, ScanKept DEF ScanInv
    <2>4. CASE pc = "printed"
      BY <2>1, <2>4, ScanKept
    <2>5. CASE pc \notin {"allocating", "printed"}
      BY <2>1, <2>5 DEF ScanInv
    <2> QED
      BY <2>3, <2>4, <2>5
  <1>5. CASE LoadFails \/ TakeFails \/ RanOut \/ Install \/ Discard
    <2>1. pc' \in {"idle", "failed"}
      BY <1>5 DEF LoadFails, TakeFails, RanOut, Install, Discard, Idle
    <2> QED
      BY <2>1 DEF ScanInv
  <1>6. CASE RetireCompute \/ \E v \in Vips, s \in VipLists : SetVips(v, s)
    <2>1. pc' = "idle"
      BY <1>6 DEF RetireCompute, SetVips
    <2> QED
      BY <2>1 DEF ScanInv
  <1> QED
    BY <1>1, <1>2, <1>3, <1>4, <1>5, <1>6 DEF Next, Loop

(* When the scan comes to the end of the network, all its free hosts were    *)
(* taken, and they are fewer than were asked for.                            *)
LEMMA EndMeansShort ==
    ASSUME Inv, GrownInv, ScanInv, RanOut, count # NoCount, count >= 1
    PROVE  Cardinality(FreeHosts(network)) < count
  <1>1. /\ pc = "allocating" /\ j = Size /\ Counted /\ count \in Int /\ i \in Int
        /\ LowestBelow(network, j)
    BY DEF RanOut, GrownInv, Grown, Counted, ScanInv, Inv, Base, TypeOK
  <1>2. Taken(network) = FreeHosts(network)
    BY <1>1, FreeFinite DEF LowestBelow
  <1>3. CASE network \in DOMAIN compute
    <2>1. GrownBy(network, count - i) /\ count - i \in Nat /\ count - i < count
      BY <1>1, <1>3 DEF Counted
    <2>2. Cardinality(Taken(network)) = count - i
      BY <1>1, <1>3, <2>1, TakenCount
    <2> QED
      BY <1>2, <2>1, <2>2
  <1>4. CASE network \notin DOMAIN compute
    BY <1>1, <1>2, <1>4, FS_EmptySet DEF Taken
  <1> QED
    BY <1>3, <1>4

LEMMA ShortStep ==
    ASSUME Inv, GrownInv, ScanInv, ShortInv, [Next]_vars
    PROVE  ShortInv'
  <1>1. CASE RanOut
    <2>1. pc' = "failed" /\ UNCHANGED <<vips, ips, count, k>>
      BY <1>1 DEF RanOut, file
    <2>2. FreeHosts(network)' = FreeHosts(network)
      BY <2>1 DEF FreeHosts, network, NodeAddrs, VipAddrs, Elems
    <2> QED
      BY <1>1, <2>1, <2>2, EndMeansShort DEF ShortInv, RanOutMeansShort
  <1>2. CASE TakeFails \/ LoadFails \/ Install \/ Discard \/ \E c \in Counts : Start(c)
    <2>1. failure' \in {"key", "type", "load", "none"} /\ (failure' # "none" => pc' = "failed")
      BY <1>2 DEF TakeFails, LoadFails, Install, Discard, Start, Idle
    <2> QED
      BY <2>1 DEF ShortInv, RanOutMeansShort
  <1>3. CASE PassOver \/ Take \/ RetireCompute \/ \E v \in Vips, s \in VipLists : SetVips(v, s)
    <2>1. pc # "failed" /\ failure' = failure
      BY <1>3 DEF PassOver, Take, RetireCompute, SetVips, run
    <2> QED
      BY <2>1 DEF ShortInv, RanOutMeansShort
  <1>4. CASE UNCHANGED vars
    <2>1. FreeHosts(network)' = FreeHosts(network)
      BY <1>4 DEF vars, file, run, FreeHosts, network, NodeAddrs, VipAddrs, Elems
    <2> QED
      BY <1>4, <2>1 DEF vars, run, ShortInv, RanOutMeansShort
  <1> QED
    BY <1>1, <1>2, <1>3, <1>4 DEF Next, Loop

(* The three invariants hold together.                                       *)
LEMMA ScanInvariance ==
    ASSUME MaxVipLen = 1
    PROVE  Spec => [](Inv /\ GrownInv /\ ScanInv /\ ShortInv)
  <1>1. Init => GrownInv /\ ScanInv /\ ShortInv
    BY DEF Init, GrownInv, ScanInv, ShortInv, RanOutMeansShort
  <1>2. Inv /\ GrownInv /\ ScanInv /\ ShortInv /\ [Next]_vars => GrownInv' /\ ScanInv' /\ ShortInv'
    BY GrownStep, ScanStep, ShortStep DEF Inv
  <1> QED
    BY <1>1, <1>2, Invariance, PTL DEF Spec

(* The new addresses of a network are its lowest free ones, in ascending     *)
(* order, in whatever order the file lists the addresses it has.             *)
THEOREM TakesLowestFree ==
    ASSUME MaxVipLen = 1
    PROVE  Spec => []LowestFree
  <1>1. Inv /\ GrownInv /\ ScanInv => LowestFree
    <2> SUFFICES ASSUME Inv, GrownInv, ScanInv, pc = "printed", NEW n \in Elems(AllocOrder)
                 PROVE  /\ {compute[n][x] : x \in New(n)} =
                              {a \in FreeHosts(n) :
                                  Cardinality({b \in FreeHosts(n) : b.pos < a.pos}) < count}
                        /\ \A x, y \in New(n) : x < y => compute[n][x].pos < compute[n][y].pos
      BY DEF LowestFree
    <2>1. /\ n \in DOMAIN compute /\ GrownBy(n, count) /\ LowestTaken(n) /\ Ascending(n)
          /\ count \in Nat
      <3>1. PICK x \in DOMAIN AllocOrder : n = AllocOrder[x]
        BY DEF Elems
      <3>2. n \in DOMAIN compute /\ GrownBy(n, count) /\ count # NoCount /\ count >= 1
        BY <3>1 DEF GrownInv, Grown, Done
      <3>3. LowestTaken(n) /\ Ascending(n)
        BY <3>1, <3>2 DEF ScanInv, Done
      <3>4. count \in Nat
        <4>1. count \in Int \union {NoCount}
          BY DEF Inv, Base, TypeOK
        <4> QED
          BY <3>2, <4>1
      <3> QED
        BY <3>2, <3>3, <3>4
    <2>2. PICK c \in 0..Size : Taken(n) = {a \in FreeHosts(n) : a.pos < c}
      BY <2>1 DEF LowestTaken, LowestBelow
    <2>3. Cardinality(Taken(n)) = count
      BY <2>1, TakenCount
    <2>4. Taken(n) = {a \in FreeHosts(n) : Cardinality({b \in FreeHosts(n) : b.pos < a.pos}) < count}
      <3>1. c \in Nat /\ IsFiniteSet(FreeHosts(n)) /\ \A a \in FreeHosts(n) : a.pos \in Nat
        BY FreeFinite
      <3> HIDE DEF FreeHosts, Taken
      <3> QED
        BY <2>2, <2>3, <3>1, CutCounts
    <2> QED
      BY <2>1, <2>4 DEF Taken, Ascending
  <1> QED
    BY <1>1, ScanInvariance, PTL

(* The message `ran out of ip addresses' is true: the network has fewer free *)
(* addresses than were asked for.                                            *)
THEOREM RanOutIsTrue ==
    ASSUME MaxVipLen = 1
    PROVE  Spec => []RanOutMeansShort
  <1>1. ShortInv => RanOutMeansShort
    BY DEF ShortInv
  <1> QED
    BY <1>1, ScanInvariance, PTL
=============================================================================
