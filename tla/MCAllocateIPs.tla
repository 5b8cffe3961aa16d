--------------------------- MODULE MCAllocateIPs ---------------------------
(***************************************************************************)
(* A small instance of AllocateIPs: two extended networks and one that is  *)
(* not, five hosts each of which one is skipped, one list of virtual       *)
(* addresses.                                                              *)
(***************************************************************************)
EXTENDS AllocateIPs, TLC

CONSTANTS ctlplane, storage, external, ctl, cmp

MCNetworks == {ctlplane, storage, external}
MCAllocOrder == <<ctlplane, storage>>
MCRoles == {ctl, cmp}
MCVips == {"RedisVirtualFixedIPs"}

Nodes(ctlLists, cmpLists) == (ctl :> ctlLists) @@ (cmp :> cmpLists)
Vip(s) == [v \in MCVips |-> s]

(* As in the repository: the lists of the roles are not the same networks,   *)
(* the compute nodes' addresses have gaps and are not sorted, and a          *)
(* controller has an address among those that are skipped.                   *)
Usual ==
    [vips |-> Vip(<<Host(storage, 2)>>),
     ips |-> Nodes((ctlplane :> <<Host(ctlplane, 0)>>) @@ (external :> <<Host(external, 1)>>),
                   (ctlplane :> <<Host(ctlplane, 3)>>) @@ (storage :> <<Host(storage, 1)>>))]

(* An address that stands under the wrong network. *)
Misplaced ==
    [Usual EXCEPT !.ips[cmp][ctlplane] = <<Host(storage, 3)>>]

(* No list for a network; a role that is not there; an empty list. *)
NoStorage == [Usual EXCEPT !.ips[cmp] = (ctlplane :> << >>)]
NoRole == [Usual EXCEPT !.ips = (cmp :> Usual.ips[cmp])]
NoVip == [Usual EXCEPT !.vips = Vip(<< >>)]

MCFiles == {Usual, Misplaced, NoStorage, NoRole, NoVip}
MCCounts == {NoCount, -1, 0, 1, 2, 3}
=============================================================================
