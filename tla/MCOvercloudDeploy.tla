------------------------- MODULE MCOvercloudDeploy -------------------------
(***************************************************************************)
(* A small instance of OvercloudDeploy: a controller, and a compute role   *)
(* that is listed in the inventory in another order than its ooo_names and *)
(* grows by one or two hosts.                                              *)
(***************************************************************************)
EXTENDS OvercloudDeploy

CONSTANTS controller, compute, c0, n0, n1, n2

MCRoles == {controller, compute}
MCOvercloudRoles == <<controller, compute>>
MCHosts == {c0, n0, n1, n2}
At(h, i) == [host |-> h, idx |-> i]
Start1 == [r \in MCRoles |-> IF r = controller THEN <<At(c0, 0)>> ELSE <<At(n0, 0)>>]
Start2 == [Start1 EXCEPT ![compute] = <<At(n1, 1), At(n0, 0)>>]
MCInventories == {Start2}
FewHosts == {c0, n0, n1}
FewInventories == {Start1}
MCHomeAddr == [h \in {c0, n0, n1, n2} |-> 1]
FewHomeAddr == [h \in FewHosts |-> 1]
MCAddrs == {1, 2}
MCAddr == {1}
=============================================================================
