------------------------------- MODULE IPPool -------------------------------
(***************************************************************************)
(* What an extension of the compute role's address lists promises, with no *)
(* word on how the addresses are found: it is made as a whole or not at    *)
(* all, it gives every extended network the same number of new addresses,  *)
(* and gives out none that is in use.                                      *)
(***************************************************************************)
EXTENDS Naturals, Sequences

CONSTANTS
    Extended,  \* the networks an extension adds to
    Amounts    \* how many nodes an extension may be for

VARIABLES
    held,      \* network -> the addresses of the compute nodes, by node index
    others     \* the addresses of everything else

InUse == others \union UNION {{held[n][x] : x \in DOMAIN held[n]} : n \in DOMAIN held}
-----------------------------------------------------------------------------
(* Nobody but one compute node has the address of a compute node. *)
OneOwner ==
    \A n, m \in DOMAIN held : \A x \in DOMAIN held[n], y \in DOMAIN held[m] :
        /\ held[n][x] \notin others
        /\ held[n][x] = held[m][y] => n = m /\ x = y

Init == OneOwner

(* c nodes more: every list keeps what it has and grows by c unused addresses. *)
Extend(c) ==
    /\ others' = others
    /\ DOMAIN held' = DOMAIN held
    /\ Extended \subseteq DOMAIN held
    /\ \A n \in DOMAIN held :
        /\ Len(held'[n]) = Len(held[n]) + (IF n \in Extended THEN c ELSE 0)
        /\ \A x \in DOMAIN held[n] : held'[n][x] = held[n][x]
        /\ \A x \in DOMAIN held'[n] \ DOMAIN held[n] : held'[n][x] \notin InUse
    /\ OneOwner'

(* Nodes are retired from the end of the lists ... *)
Retire ==
    /\ others' = others
    /\ DOMAIN held' = DOMAIN held
    /\ \A n \in DOMAIN held :
        /\ Len(held'[n]) = Len(held[n]) - 1
        /\ \A x \in DOMAIN held'[n] : held'[n][x] = held[n][x]

(* ... and everything else takes and returns addresses the nodes do not have. *)
Reassign == held' = held /\ OneOwner'

Next == (\E c \in Amounts \ {0} : Extend(c)) \/ Retire \/ Reassign
Spec == Init /\ [][Next]_<<held, others>>
=============================================================================
