--------------------------- MODULE RollingUpgrade ---------------------------
(***************************************************************************)
(* What the operator of a rolling upgrade may count on: the services are   *)
(* upgraded one after another in a fixed order, at most one of them is out *)
(* at any time, and none goes out before all that come earlier are done.   *)
(* One may come back broken: then the upgrade halts at once, and it is for *)
(* the operator to see to the broken one before it goes on.                *)
(***************************************************************************)
EXTENDS Integers

CONSTANTS Slots, Earlier(_, _)  \* the services; which comes before which
VARIABLES upgraded, out, broken, halted
vars == <<upgraded, out, broken, halted>>

Free(s) == \A t \in Slots : Earlier(t, s) => t \in upgraded

Init == upgraded \subseteq Slots /\ out = {} /\ broken = {} /\ halted = TRUE

TakeOut(s) ==
    /\ ~ halted /\ out = {} /\ s \notin upgraded /\ Free(s)
    /\ out' = {s} /\ halted' \in BOOLEAN
    /\ UNCHANGED <<upgraded, broken>>

(* An upgraded service comes in; it need not have been out. *)
PutIn(s) ==
    /\ ~ halted /\ out \subseteq {s} /\ Free(s)
    /\ upgraded' = upgraded \union {s} /\ out' = {} /\ halted' \in BOOLEAN
    /\ UNCHANGED broken

(* It comes in and does not work. *)
PutInBroken(s) ==
    /\ ~ halted /\ out = {s}
    /\ upgraded' = upgraded \union {s} /\ out' = {}
    /\ broken' = broken \union {s} /\ halted' = TRUE

(* It halts for any reason; the operator lets it go on. *)
Halt == halted' = ~ halted /\ UNCHANGED <<upgraded, out, broken>>

(* Everything is deployed anew. *)
Reset ==
    /\ halted /\ UNCHANGED halted
    /\ upgraded' \in SUBSET Slots /\ out' = {} /\ broken' = {}

Next ==
    \/ \E s \in Slots : TakeOut(s) \/ PutIn(s) \/ PutInBroken(s)
    \/ Halt \/ Reset
Spec == Init /\ [][Next]_vars
=============================================================================
