---------------------------- MODULE AllocateIPs ----------------------------
(***************************************************************************)
(* scripts/allocate-new-ips.py: extends the address lists of the compute   *)
(* role in templates/use_fixed_ips.yaml by `count' addresses in each of    *)
(* four networks, and prints the extended file.  An operator then installs *)
(* the printed file over the old one, or drops it, and edits the file by   *)
(* hand between two runs.                                                  *)
(*                                                                         *)
(* An address is the pair of its network and its index in that network's   *)
(* hosts(); a list of the file may hold an address of any network, as the  *)
(* script sorts addresses by CIDR and not by the key they are found under. *)
(***************************************************************************)
EXTENDS Integers, Sequences, FiniteSets

CONSTANTS
    Networks,    \* the keys of NETWORKS
    AllocOrder,  \* the networks main() extends, in its order
    Size,        \* number of hosts of a network
    Skip,        \* hosts left alone at the start of a network (10 in the code)
    Roles,       \* ROLES
    Compute,     \* ComputeDeployedServer, the role that is extended
    Vips,        \* keys of parameter_defaults whose value is a list
    MaxVipLen,   \* bound: longest list under such a key
    Files,       \* the contents the file starts with
    Counts,      \* the values of -c, NoCount among them
    NoCount      \* -c was not given: click passes None

ASSUME NetworkAssumption ==
    /\ AllocOrder \in Seq(Networks)
    /\ AllocOrder # << >>
    /\ \A x, y \in DOMAIN AllocOrder : AllocOrder[x] = AllocOrder[y] => x = y
ASSUME SizeAssumption == Size \in Nat /\ Skip \in Nat /\ MaxVipLen \in Nat
ASSUME RoleAssumption == Compute \in Roles
ASSUME CountAssumption == NoCount \notin Int /\ Counts \subseteq Int \union {NoCount}

VARIABLES
    vips,       \* use_fixed_ips.yaml: the list-valued keys
    ips,        \* use_fixed_ips.yaml: role -> network -> list of addresses
    pc,         \* "idle", "allocating", "printed" or "failed"
    failure,    \* how the last run failed
    count,      \* -c of this run
    allocated,  \* per network, the addresses the run holds to be in use
    compute,    \* the run's copy of the compute role's lists
    k,          \* index in AllocOrder of the network being extended
    j,          \* index in hosts() of the next candidate
    i           \* addresses still to take in this network

file == <<vips, ips>>
run == <<failure, count, allocated, compute, k, j, i>>
vars == <<file, pc, run>>
-----------------------------------------------------------------------------
Addr == [net : Networks, pos : 0..(Size - 1)]
Host(n, p) == [net |-> n, pos |-> p]
Elems(s) == {s[x] : x \in DOMAIN s}
IsLists(l) == DOMAIN l \subseteq Networks /\ l \in [DOMAIN l -> Seq(Addr)]
IsFile(vs, p) ==
    /\ vs \in [Vips -> Seq(Addr)]
    /\ DOMAIN p \subseteq Roles
    /\ p = [r \in DOMAIN p |-> p[r]]
    /\ \A r \in DOMAIN p : IsLists(p[r])

(* The addresses under the list-valued keys of the file, of which the       *)
(* script reads the first element only, and those of every role's lists.    *)
VipsRead(vs) == {vs[v][1] : v \in Vips}
NodeAddrs(p) == UNION {UNION {Elems(p[r][n]) : n \in DOMAIN p[r]} : r \in DOMAIN p}
Scanned == VipsRead(vips) \union NodeAddrs(ips)
find_existing_ips_NodesOnly ==  \* slip: the virtual addresses are not scanned
    [n \in Networks |-> {a \in NodeAddrs(ips) : a.net = n}]
find_existing_ips == [n \in Networks |-> {a \in Scanned : a.net = n}]

(* The file can be scanned: no empty list to index with [0], no role absent. *)
Readable == DOMAIN ips = Roles /\ \A v \in Vips : vips[v] # << >>

NoLists == [n \in {} |-> << >>]
Idle(p) ==  \* no run in progress: nothing of the last one is kept
    /\ pc' = p
    /\ count' = NoCount
    /\ allocated' = [n \in Networks |-> {}]
    /\ compute' = NoLists
    /\ k' = 1 /\ j' = 0 /\ i' = NoCount
-----------------------------------------------------------------------------
Init ==
    /\ \E f \in Files : vips = f.vips /\ ips = f.ips
    /\ pc = "idle"
    /\ failure = "none"
    /\ count = NoCount
    /\ allocated = [n \in Networks |-> {}]
    /\ compute = NoLists
    /\ k = 1 /\ j = 0 /\ i = NoCount

(* The script starts: it loads the file and scans it. *)
Start(c) ==
    /\ pc = "idle"
    /\ Readable
    /\ pc' = "allocating"
    /\ failure' = "none"
    /\ count' = c
    /\ allocated' = find_existing_ips
    /\ compute' = ips[Compute]
    /\ k' = 1 /\ j' = 0 /\ i' = c
    /\ UNCHANGED file

(* IndexError on an empty list, or KeyError on a role that is not there. *)
LoadFails ==
    /\ pc = "idle"
    /\ ~Readable
    /\ failure' = "load"
    /\ Idle("failed")
    /\ UNCHANGED file

network == AllocOrder[k]
addr == Host(network, j)
Wanted == j < Size /\ j >= Skip /\ addr \notin allocated[network]

PassOver_Overruns ==  \* slip: the loop does not stop at the last host
    /\ pc = "allocating"
    /\ ~Wanted
    /\ j' = j + 1
    /\ UNCHANGED <<file, pc, failure, count, allocated, compute, k, i>>
PassOver_Sticks ==  \* slip: the cursor is not moved past an address in use
    /\ pc = "allocating"
    /\ j < Skip
    /\ j' = j + 1
    /\ UNCHANGED <<file, pc, failure, count, allocated, compute, k, i>>

(* One turn of the inner loop that does not take its candidate. *)
PassOver ==
    /\ pc = "allocating"
    /\ j < Size
    /\ ~Wanted
    /\ j' = j + 1
    /\ UNCHANGED <<file, pc, failure, count, allocated, compute, k, i>>

NextNetwork_KeepsCursor ==  \* slip: the scan goes on where the last one stopped
    IF k < Len(AllocOrder)
    THEN pc' = pc /\ k' = k + 1 /\ j' = j + 1 /\ i' = count
    ELSE pc' = "printed" /\ UNCHANGED <<k, j, i>>
NextNetwork_KeepsCount ==  \* slip: `i = count' stands before the outer loop
    IF k < Len(AllocOrder)
    THEN pc' = pc /\ k' = k + 1 /\ j' = 0 /\ i' = i - 1
    ELSE pc' = "printed" /\ UNCHANGED <<k, j, i>>

(* `break': the next network, or the result when there is none. *)
NextNetwork ==
    IF k < Len(AllocOrder)
    THEN pc' = pc /\ k' = k + 1 /\ j' = 0 /\ i' = count
    ELSE pc' = "printed" /\ UNCHANGED <<k, j, i>>

Take_OneMore ==  \* slip: `if not i' is tested before i is counted down
    /\ pc = "allocating"
    /\ Wanted
    /\ network \in DOMAIN compute
    /\ i # NoCount
    /\ allocated' = [allocated EXCEPT ![network] = @ \union {addr}]
    /\ compute' = [compute EXCEPT ![network] = Append(@, addr)]
    /\ \/ i = 0 /\ NextNetwork
       \/ i # 0 /\ i' = i - 1 /\ j' = j + 1 /\ UNCHANGED <<pc, k>>
    /\ UNCHANGED <<file, failure, count>>

(* One turn of the inner loop that takes its candidate. *)
Take ==
    /\ pc = "allocating"
    /\ Wanted
    /\ network \in DOMAIN compute
    /\ i # NoCount
    /\ allocated' = [allocated EXCEPT ![network] = @ \union {addr}]
    /\ compute' = [compute EXCEPT ![network] = Append(@, addr)]
    /\ \/ i - 1 = 0 /\ NextNetwork
       \/ i - 1 # 0 /\ i' = i - 1 /\ j' = j + 1 /\ UNCHANGED <<pc, k>>
    /\ UNCHANGED <<file, failure, count>>

(* KeyError: the compute role has no list for this network; TypeError: None  *)
(* is counted down.  Nothing was printed.                                   *)
TakeFails ==
    /\ pc = "allocating"
    /\ Wanted
    /\ network \notin DOMAIN compute \/ i = NoCount
    /\ pc' = "failed"
    /\ failure' = IF network \notin DOMAIN compute THEN "key" ELSE "type"
    /\ UNCHANGED <<file, count, allocated, compute, k, j, i>>

(* The for loop's else: `ran out of ip addresses'. *)
RanOut ==
    /\ pc = "allocating"
    /\ j = Size
    /\ pc' = "failed"
    /\ failure' = "ran out"
    /\ UNCHANGED <<file, count, allocated, compute, k, j, i>>

Output == [ips EXCEPT ![Compute] = compute]

Install_Partial ==  \* slip: what a failed run got is kept, as with a file edited in place
    /\ pc \in {"printed", "failed"}
    /\ Compute \in DOMAIN ips
    /\ DOMAIN compute = DOMAIN ips[Compute]
    /\ ips' = Output
    /\ UNCHANGED vips
    /\ failure' = "none"
    /\ Idle("idle")

(* The operator replaces the file by the printed one ... *)
Install ==
    /\ pc = "printed"
    /\ ips' = Output
    /\ UNCHANGED vips
    /\ failure' = "none"
    /\ Idle("idle")

(* ... or does not. *)
Discard ==
    /\ pc \in {"printed", "failed"}
    /\ failure' = "none"
    /\ Idle("idle")
    /\ UNCHANGED file

(* What whoever edits the file has to keep: a node's address is its alone.   *)
(* Virtual addresses may be equal to each other: in the repository's file    *)
(* ControlFixedIPs and StorageMgmtVirtualFixedIPs are.                       *)
VipAddrs(vs) == UNION {Elems(vs[v]) : v \in Vips}
UniqueNodes(p) ==
    \A r1, r2 \in DOMAIN p :
      \A n1 \in DOMAIN p[r1], n2 \in DOMAIN p[r2] :
        \A x1 \in DOMAIN p[r1][n1], x2 \in DOMAIN p[r2][n2] :
           p[r1][n1][x1] = p[r2][n2][x2] => <<r1, n1, x1>> = <<r2, n2, x2>>
Clean(vs, p) == UniqueNodes(p) /\ NodeAddrs(p) \cap VipAddrs(vs) = {}
ASSUME FileAssumption ==
    \A f \in Files :
        /\ IsFile(f.vips, f.ips)
        /\ Clean(f.vips, f.ips)
        /\ \A v \in Vips : Len(f.vips[v]) <= MaxVipLen

(* The operator gives a list-valued key another list of addresses. *)
SetVips(v, s) ==
    /\ pc = "idle"
    /\ Len(s) <= MaxVipLen
    /\ Elems(s) \cap NodeAddrs(ips) = {}
    /\ vips' = [vips EXCEPT ![v] = s]
    /\ UNCHANGED <<ips, pc, run>>

(* The operator takes the last compute node out. *)
RetireCompute ==
    /\ pc = "idle"
    /\ Compute \in DOMAIN ips
    /\ \A n \in DOMAIN ips[Compute] : ips[Compute][n] # << >>
    /\ ips' = [ips EXCEPT ![Compute] =
                  [n \in DOMAIN @ |-> SubSeq(@[n], 1, Len(@[n]) - 1)]]
    /\ UNCHANGED <<vips, pc, run>>

Loop == PassOver \/ Take \/ TakeFails \/ RanOut
VipLists == UNION {[1..m -> Addr] : m \in 0..MaxVipLen}
Next ==
    \/ \E c \in Counts : Start(c)
    \/ LoadFails
    \/ Loop
    \/ Install
    \/ Discard
    \/ \E v \in Vips, s \in VipLists : SetVips(v, s)
    \/ RetireCompute

(* A run that has started keeps running; nobody has to start one. *)
Spec == Init /\ [][Next]_vars /\ WF_vars(Loop)
-----------------------------------------------------------------------------
(* The variables have their types, and the cursor its range. *)
TypeOK ==
    /\ IsFile(vips, ips)
    /\ pc \in {"idle", "allocating", "printed", "failed"}
    /\ failure \in {"none", "load", "key", "type", "ran out"}
    /\ count \in Int \union {NoCount}
    /\ allocated \in [Networks -> SUBSET Addr]
    /\ IsLists(compute)
    /\ k \in DOMAIN AllocOrder
    /\ j \in 0..Size
    /\ i \in Int \union {NoCount}

(* No address is given out twice: neither the file nor what a run prints for *)
(* it has a node address that another node or a virtual address has, however *)
(* many runs and edits came before (find_existing_ips, and the test          *)
(* `addr not in allocated[network]').                                        *)
NoDoubleAllocation == Clean(vips, ips) /\ (pc = "printed" => Clean(vips, Output))

New(n) == (Len(ips[Compute][n]) + 1)..Len(compute[n])

(* A printed file has exactly the asked number of addresses more, in every   *)
(* one of the networks and in none besides, behind the addresses it had: the *)
(* host that has index x on one network has it on all (Heat pairs the lists  *)
(* by index), and no host that is deployed changes address.                  *)
ExtendedAlike ==
    pc = "printed" =>
        /\ DOMAIN compute = DOMAIN ips[Compute]
        /\ \A n \in DOMAIN compute :
            /\ Len(compute[n]) =
                  Len(ips[Compute][n]) + IF n \in Elems(AllocOrder) THEN count ELSE 0
            /\ \A x \in DOMAIN ips[Compute][n] : compute[n][x] = ips[Compute][n][x]

FreeHosts(n) == {Host(n, p) : p \in Skip..(Size - 1)} \ (NodeAddrs(ips) \union VipAddrs(vips))

(* The new addresses of a network are the lowest free ones, in ascending     *)
(* order, and never among the first hosts, which may be routers: compared    *)
(* with a definition that does not scan.                                     *)
LowestFree ==
    pc = "printed" =>
        \A n \in Elems(AllocOrder) :
            /\ {compute[n][x] : x \in New(n)} =
                  {a \in FreeHosts(n) :
                      Cardinality({b \in FreeHosts(n) : b.pos < a.pos}) < count}
            /\ \A x, y \in New(n) : x < y => compute[n][x].pos < compute[n][y].pos

(* What the message `ran out of ip addresses for <network> network' says: so *)
(* many addresses were asked for that the network has not got them free.     *)
(* Of a count of zero or less, which asks for nothing, it says nothing.      *)
RanOutMeansShort ==
    failure = "ran out" /\ count # NoCount /\ count >= 1 =>
        Cardinality(FreeHosts(network)) < count

(* Every run ends, whatever count it is given.                               *)
RunEnds == pc = "allocating" ~> pc \in {"printed", "failed"}

(* The runs and the edits together do to the file what an address pool       *)
(* promises: the addresses of the compute nodes are held, those of the       *)
(* virtual addresses and of the other roles are in use by others.            *)
Held == IF Compute \in DOMAIN ips THEN ips[Compute] ELSE NoLists
Others == VipAddrs(vips) \union NodeAddrs([r \in DOMAIN ips \ {Compute} |-> ips[r]])
Pool == INSTANCE IPPool
    WITH Extended <- Elems(AllocOrder), Amounts <- {c \in Counts \ {NoCount} : c > 0},
         held <- Held, others <- Others
PoolSpec == Pool!Spec
=============================================================================
