------------------------ MODULE RollingHotfixProofs ------------------------
(***************************************************************************)
(* Theorems about RollingHotfix for any number of hosts, replacements,     *)
(* runs and overcloud deploys between them.                                *)
(***************************************************************************)
EXTENDS RollingHotfix, FiniteSetTheorems, TLAPS

(* The play passes the services in order: those before the one it is at are  *)
(* replaced.  A service that is missing was reached by a run, so those       *)
(* before it are replaced as well, and stay so.  A run leaves at most one    *)
(* broken or missing, and a run that works still may.                        *)
TaskInv ==
    /\ pc = "remove" => cont[at] \in {"old", "dead"}
    /\ pc = "run" => cont[at] \notin Labelled
PassedInv ==
    /\ ~ Halted => \A s \in Slots : Earlier(s, at) => s \in Replaced
    /\ pc = "done" => Replaced = Slots
OutInv == \A s \in Missing, t \in Slots : Earlier(t, s) => t \in Replaced
CountInv ==
    /\ IsFiniteSet(Broken) /\ Cardinality(Broken) <= runs
    /\ ~ Halted \/ Missing # {} => Cardinality(Broken) + 1 <= runs
Inv == TypeOK /\ TaskInv /\ PassedInv /\ OutInv /\ CountInv

(* The play's order of the services is total, and First comes first.         *)
LEMMA Order ==
    /\ First \in Slots
    /\ \A s, t \in Slots : s = t \/ Earlier(s, t) \/ Earlier(t, s)
    /\ \A s \in Slots : ~ Earlier(s, First)
  BY SizeAssumption DEF Slots, Earlier, First

(* A service that is missing is not replaced, one that is broken is. *)
LEMMA MissingNotReplaced ==
    /\ \A s \in Missing : s \in Slots /\ s \notin Replaced
    /\ Broken \subseteq Replaced
  BY DEF Missing, Broken, Replaced, Labelled

(* Those before the one at hand being replaced, no other one is missing.     *)
LEMMA NoneElse ==
    ASSUME at \in Slots, OutInv, at \notin Replaced,
           \A s \in Slots : Earlier(s, at) => s \in Replaced
    PROVE  Missing \subseteq {at}
  BY Order, MissingNotReplaced DEF OutInv

(* What Advance does: those before the next service are those before this    *)
(* one, and this one.                                                        *)
LEMMA Advances ==
    ASSUME at \in Slots, Advance
    PROVE  /\ at' \in Slots /\ pc' \in {"inspect", "done"}
           /\ pc' = "inspect" => \A s \in Slots : Earlier(s, at') => s = at \/ Earlier(s, at)
           /\ pc' = "done" => \A s \in Slots : s = at \/ Earlier(s, at)
  <1>1. PICK h \in 1..NHosts, c \in 1..NRepl : at = <<h, c>>
    BY DEF Slots
  <1>2. CASE c < NRepl
    <2>1. at' = <<h, c + 1>> /\ pc' = "inspect"
      BY <1>1, <1>2 DEF Advance
    <2> QED
      BY <1>1, <1>2, <2>1, SizeAssumption DEF Slots, Earlier
  <1>3. CASE ~ (c < NRepl) /\ h < NHosts
    <2>1. at' = <<h + 1, 1>> /\ pc' = "inspect"
      BY <1>1, <1>3 DEF Advance
    <2> QED
      BY <1>1, <1>3, <2>1, SizeAssumption DEF Slots, Earlier
  <1>4. CASE ~ (c < NRepl) /\ ~ (h < NHosts)
    <2>1. at' = at /\ pc' = "done"
      BY <1>1, <1>4 DEF Advance
    <2> QED
      BY <1>1, <1>4, <2>1, SizeAssumption DEF Slots, Earlier
  <1> QED
    BY <1>2, <1>3, <1>4

LEMMA InvInit == Init => Inv
  <1> SUFFICES ASSUME Init PROVE Inv
    OBVIOUS
  <1>1. TypeOK
    BY Order, BoundAssumption DEF Init, TypeOK, Conditions
  <1>2. TaskInv /\ PassedInv
    BY DEF Init, TaskInv, PassedInv, Halted
  <1>3. Missing = {} /\ Broken = {}
    BY DEF Init, Missing, Broken
  <1> QED
    BY <1>1, <1>2, <1>3, FS_EmptySet DEF Init, Halted, Inv, OutInv, CountInv

(* What the two tasks do to the services that are replaced and out.          *)
LEMMA Replacing ==
    ASSUME TypeOK, TaskInv, pc = "run", Replace
    PROVE  /\ Replaced' = Replaced \union {at} /\ Missing' = Missing \ {at} /\ Broken' = Broken
           /\ cont' \in [Slots -> Conditions] /\ copy' \subseteq Slots
  BY DEF TypeOK, TaskInv, Replace, Replaced, Missing, Broken, Conditions, Labelled
LEMMA Breaking ==
    ASSUME TypeOK, Breaks
    PROVE  /\ Replaced' = Replaced \union {at} /\ Missing' = Missing \ {at}
           /\ Broken' = IF at \in copy THEN Broken ELSE Broken \union {at}
           /\ at \notin copy => at \in Missing
           /\ cont' \in [Slots -> Conditions] /\ copy' \subseteq Slots
  BY DEF TypeOK, Breaks, Replaced, Missing, Broken, Conditions, Labelled
LEMMA Removing ==
    ASSUME TypeOK, cont[at] \in {"old", "dead"}, NEW v \in {"none", "dead"},
           cont' = [cont EXCEPT ![at] = v], copy' = copy
    PROVE  /\ Replaced' = Replaced /\ Broken' = Broken
           /\ Missing' = IF at \in copy THEN Missing ELSE Missing \union {at}
           /\ cont' \in [Slots -> Conditions] /\ cont'[at] = v
  BY DEF TypeOK, Replaced, Missing, Broken, Conditions, Labelled

(* A step that only adds to what is replaced, takes nothing out, breaks      *)
(* nothing and does not start a run keeps the last two parts.                *)
LEMMA OutStays ==
    ASSUME Inv, Replaced \subseteq Replaced', Missing' \subseteq Missing, Broken' = Broken,
           runs' = runs, Halted => Halted'
    PROVE  OutInv' /\ CountInv'
  BY DEF Inv, OutInv, CountInv

LEMMA InvNext == Inv /\ [Next]_vars => Inv'
  <1> SUFFICES ASSUME Inv, [Next]_vars PROVE Inv'
    OBVIOUS
  <1> USE DEF Inv
  <1>0. /\ at \in Slots /\ pc \in {"idle", "inspect", "remove", "run", "done", "failed"}
        /\ runs \in Nat /\ Cardinality(Broken) \in Nat
        /\ Missing \subseteq Slots /\ Replaced \subseteq Slots
    BY BoundAssumption, FS_CardinalityType DEF TypeOK, CountInv, Missing, Replaced
  <1>1. CASE Start
    <2>1. TypeOK' /\ TaskInv'
      BY <1>1, Order, BoundAssumption DEF Start, TypeOK, TaskInv
    <2>2. PassedInv'
      BY <1>1, Order DEF Start, PassedInv, Halted
    <2>3. Replaced' = Replaced /\ Missing' = Missing /\ Broken' = Broken
      BY <1>1 DEF Start, Replaced, Missing, Broken
    <2>4. OutInv' /\ CountInv'
      BY <1>0, <1>1, <2>3 DEF Start, OutInv, CountInv, Halted
    <2> QED
      BY <2>1, <2>2, <2>4
  <1>2. CASE Inspect
    <2>1. /\ UNCHANGED <<cont, copy, runs>> /\ ~ Halted
          /\ Replaced' = Replaced /\ Missing' = Missing /\ Broken' = Broken
      BY <1>2 DEF Inspect, Halted, Replaced, Missing, Broken
    <2>2. CASE cont[at] \in Labelled /\ Advance
      <3>1. TypeOK' /\ TaskInv'
        BY <1>0, <1>2, <2>1, <2>2, Advances DEF Inspect, TypeOK, TaskInv
      <3>2. at \in Replaced
        BY <1>0, <2>2 DEF Replaced
      <3>3. PassedInv'
        <4>1. \A s \in Slots : Earlier(s, at) => s \in Replaced
          BY <2>1 DEF PassedInv
        <4> QED
          BY <1>0, <2>1, <2>2, <3>2, <4>1, Advances DEF PassedInv, Halted
      <3> QED
        BY <2>1, <3>1, <3>3, OutStays
    <2>3. CASE cont[at] \notin Labelled /\ pc' = "remove" /\ at' = at
      <3>1. cont[at] \in {"old", "dead"}
        BY <1>0, <1>2, <2>3 DEF Inspect, TypeOK, Conditions, Labelled
      <3>2. TypeOK' /\ TaskInv' /\ PassedInv'
        BY <1>2, <2>1, <2>3, <3>1 DEF Inspect, TypeOK, TaskInv, PassedInv, Halted
      <3> QED
        BY <2>1, <3>2, OutStays
    <2> QED
      BY <1>2, <2>2, <2>3 DEF Inspect
  <1>3. CASE InspectFails
    <2>1. /\ Replaced' = Replaced /\ Missing' = Missing /\ Broken' = Broken /\ runs' = runs
          /\ ~ Halted
      BY <1>3 DEF InspectFails, Halted, Replaced, Missing, Broken
    <2>2. TypeOK' /\ TaskInv' /\ PassedInv'
      BY <1>3 DEF InspectFails, TypeOK, TaskInv, PassedInv, Halted
    <2> QED
      BY <2>1, <2>2, OutStays
  <1>4. ASSUME Remove \/ RemoveFails
        PROVE  Inv'
    <2>1. /\ pc = "remove" /\ pc' \in {"run", "failed"} /\ UNCHANGED <<copy, at, runs, resets>>
          /\ cont' = cont \/ \E v \in {"none", "dead"} : cont' = [cont EXCEPT ![at] = v]
      BY <1>4 DEF Remove, RemoveFails
    <2>2. cont[at] \in {"old", "dead"} /\ \A s \in Slots : Earlier(s, at) => s \in Replaced
      BY <2>1 DEF TaskInv, PassedInv, Halted
    <2>3. /\ Replaced' = Replaced /\ Broken' = Broken /\ Missing' \in {Missing, Missing \union {at}}
          /\ cont' \in [Slots -> Conditions] /\ cont'[at] \notin Labelled
      <3>1. CASE cont' = cont
        BY <2>1, <2>2, <3>1 DEF Replaced, Missing, Broken, TypeOK, Labelled
      <3>2. CASE cont' # cont
        <4>1. PICK v \in {"none", "dead"} : cont' = [cont EXCEPT ![at] = v]
          BY <2>1, <3>2
        <4>2. /\ Replaced' = Replaced /\ Broken' = Broken
              /\ Missing' = IF at \in copy THEN Missing ELSE Missing \union {at}
              /\ cont' \in [Slots -> Conditions] /\ cont'[at] = v
          BY <2>1, <2>2, <4>1, Removing
        <4> QED
          BY <4>2 DEF Labelled
      <3> QED
        BY <3>1, <3>2
    <2>4. TypeOK' /\ TaskInv' /\ PassedInv'
      BY <2>1, <2>2, <2>3 DEF TypeOK, TaskInv, PassedInv, Halted
    <2>5. OutInv'
      BY <2>2, <2>3 DEF OutInv
    <2>6. CountInv'
      BY <2>1, <2>3 DEF CountInv, Halted
    <2> QED
      BY <2>4, <2>5, <2>6
  <1>5. ASSUME Run \/ RunFails
        PROVE  Inv'
    <2>1. /\ pc = "run" /\ ~ Halted /\ UNCHANGED <<runs, resets>>
          /\ \A s \in Slots : Earlier(s, at) => s \in Replaced
      BY <1>5 DEF Run, RunFails, PassedInv, Halted
    <2>2. CASE Replace /\ Advance
      <3>1. /\ Replaced' = Replaced \union {at} /\ Missing' \subseteq Missing /\ Broken' = Broken
            /\ cont' \in [Slots -> Conditions] /\ copy' \subseteq Slots
        BY <2>1, <2>2, Replacing
      <3>2. TypeOK' /\ TaskInv'
        BY <1>0, <2>1, <2>2, <3>1, Advances DEF TypeOK, TaskInv
      <3>3. PassedInv'
        BY <1>0, <2>1, <2>2, <3>1, Advances DEF PassedInv, Halted
      <3> QED
        BY <2>1, <3>1, <3>2, <3>3, OutStays
    <2>3. CASE Replace /\ pc' = "failed" /\ at' = at
      <3>1. /\ Replaced' = Replaced \union {at} /\ Missing' \subseteq Missing /\ Broken' = Broken
            /\ cont' \in [Slots -> Conditions] /\ copy' \subseteq Slots
        BY <2>1, <2>3, Replacing
      <3>2. TypeOK' /\ TaskInv' /\ PassedInv'
        BY <1>0, <2>1, <2>3, <3>1 DEF TypeOK, TaskInv, PassedInv, Halted
      <3> QED
        BY <2>1, <3>1, <3>2, OutStays
    <2>4. CASE Breaks /\ pc' = "failed" /\ at' = at
      <3>1. /\ Replaced' = Replaced \union {at} /\ Missing' = Missing \ {at}
            /\ Broken' = IF at \in copy THEN Broken ELSE Broken \union {at}
            /\ at \notin copy => at \in Missing
            /\ cont' \in [Slots -> Conditions] /\ copy' \subseteq Slots
        BY <2>4, Breaking
      <3>2. TypeOK' /\ TaskInv' /\ PassedInv'
        BY <1>0, <2>1, <2>4, <3>1 DEF TypeOK, TaskInv, PassedInv, Halted
      <3>3. CASE at \in copy
        BY <2>1, <3>1, <3>2, <3>3, OutStays
      <3>4. CASE at \notin copy
        <4>1. Missing = {at} /\ Missing' = {} /\ Broken' = Broken \union {at}
          BY <1>0, <2>1, <3>1, <3>4, MissingNotReplaced, NoneElse
        <4>2. IsFiniteSet(Broken') /\ Cardinality(Broken') <= Cardinality(Broken) + 1
          BY <1>0, <4>1, FS_AddElement DEF CountInv
        <4>3. Cardinality(Broken) + 1 <= runs
          BY <2>1 DEF CountInv
        <4>4. Cardinality(Broken') \in Nat
          BY <4>2, FS_CardinalityType
        <4>5. CountInv'
          BY <1>0, <2>1, <2>4, <4>1, <4>2, <4>3, <4>4 DEF CountInv, Halted
        <4> QED
          BY <3>2, <4>1, <4>5 DEF OutInv
      <3> QED
        BY <3>3, <3>4
    <2>5. CASE UNCHANGED <<cont, copy, at>> /\ pc' = "failed"
      <3>1. Replaced' = Replaced /\ Missing' = Missing /\ Broken' = Broken
        BY <2>5 DEF Replaced, Missing, Broken
      <3>2. TypeOK' /\ TaskInv' /\ PassedInv'
        BY <2>1, <2>5, <3>1 DEF TypeOK, TaskInv, PassedInv, Halted
      <3> QED
        BY <2>1, <3>1, <3>2, OutStays
    <2> QED
      BY <1>5, <2>2, <2>3, <2>4, <2>5 DEF Run, RunFails
  <1>6. CASE End
    <2>1. /\ Replaced' = Replaced /\ Missing' = Missing /\ Broken' = Broken /\ runs' = runs
          /\ Halted /\ Halted'
      BY <1>6 DEF End, Halted, Replaced, Missing, Broken
    <2>2. TypeOK' /\ TaskInv' /\ PassedInv'
      BY <1>6, Order DEF End, TypeOK, TaskInv, PassedInv, Halted
    <2> QED
      BY <2>1, <2>2, OutStays
  <1>7. ASSUME NEW image \in {"old", "new"}, Redeploy(image)
        PROVE  Inv'
    <2>1. TypeOK' /\ TaskInv' /\ PassedInv'
      BY <1>7, BoundAssumption DEF Redeploy, TypeOK, TaskInv, PassedInv, Halted, Conditions
    <2>2. Missing' = {} /\ Broken' = {} /\ Halted' /\ runs' = runs
      BY <1>7 DEF Redeploy, Missing, Broken, Halted
    <2> QED
      BY <1>0, <2>1, <2>2, FS_EmptySet DEF OutInv, CountInv
  <1>8. CASE UNCHANGED vars
    <2>1. /\ Replaced' = Replaced /\ Missing' = Missing /\ Broken' = Broken /\ runs' = runs
          /\ Halted' = Halted
      BY <1>8 DEF vars, Replaced, Missing, Broken, Halted
    <2>2. TypeOK' /\ TaskInv' /\ PassedInv'
      BY <1>8, <2>1 DEF vars, TypeOK, TaskInv, PassedInv
    <2> QED
      BY <2>1, <2>2, OutStays
  <1> QED
    BY <1>1, <1>2, <1>3, <1>4, <1>5, <1>6, <1>7, <1>8 DEF Next, Play

THEOREM Invariance == Spec => []Inv
  BY InvInit, InvNext, PTL DEF Spec

(* The variables have their types in every state.                            *)
THEOREM TypeCorrect == Spec => []TypeOK
  BY Invariance, PTL DEF Inv

(* At no time are two services out for want of a new container, on one host  *)
(* or on two, and no more are out than there were runs.                      *)
THEOREM AtMostOneOut == Spec => []OneServiceOut
  <1>1. Inv => OneServiceOut
    <2> SUFFICES ASSUME Inv PROVE OneServiceOut
      OBVIOUS
    <2>1. \A s, t \in Missing : s = t
      BY Order, MissingNotReplaced DEF Inv, OutInv
    <2>2. Cardinality(Broken) \in Nat /\ runs \in Nat
      BY BoundAssumption, FS_CardinalityType DEF Inv, CountInv, TypeOK
    <2>3. CASE Missing = {}
      <3>1. Out = Broken
        BY <2>3 DEF Out
      <3> QED
        BY <2>1, <3>1 DEF OneServiceOut, Inv, CountInv
    <2>4. CASE Missing # {}
      <3>1. PICK s : Missing = {s}
        BY <2>1, <2>4
      <3>2. Out = Broken \union {s}
        BY <3>1 DEF Out
      <3>3. IsFiniteSet(Out) /\ Cardinality(Out) <= Cardinality(Broken) + 1
        BY <2>2, <3>2, FS_AddElement DEF Inv, CountInv
      <3>4. Cardinality(Out) \in Nat /\ Cardinality(Broken) + 1 <= runs
        BY <2>4, <3>3, FS_CardinalityType DEF Inv, CountInv
      <3> QED
        BY <2>1, <2>2, <3>3, <3>4 DEF OneServiceOut
    <2> QED
      BY <2>3, <2>4
  <1> QED
    BY <1>1, Invariance, PTL

(* A run that ends well leaves everything with the new image.                *)
THEOREM DoneReplaced == Spec => []DoneMeansReplaced
  <1>1. Inv => DoneMeansReplaced
    BY DEF Inv, PassedInv, DoneMeansReplaced
  <1> QED
    BY <1>1, Invariance, PTL

(* A run leaves alone what is replaced.                                      *)
THEOREM LeftAlone == Spec => ReplacedStays
  <1> DEFINE Stays == pc # "idle" => \A s \in Slots : cont[s] \in Labelled => cont'[s] = cont[s]
  <1>1. Inv /\ [Next]_vars => [Stays]_vars
    <2> SUFFICES ASSUME Inv, Next, pc # "idle", NEW s \in Slots, cont[s] \in Labelled
                 PROVE  cont'[s] = cont[s]
      OBVIOUS
    <2>1. CASE cont' = cont
      BY <2>1
    <2>2. ASSUME NEW v, cont' = [cont EXCEPT ![at] = v], cont[at] \notin Labelled
          PROVE  cont'[s] = cont[s]
      BY <2>2 DEF Inv, TypeOK
    <2>3. CASE Remove \/ RemoveFails \/ Run \/ RunFails
      <3>1. pc \in {"remove", "run"} => cont[at] \notin Labelled
        BY DEF Inv, TaskInv, Labelled
      <3>2. cont' = cont \/ \E v : cont' = [cont EXCEPT ![at] = v]
        BY <2>3 DEF Remove, RemoveFails, Run, RunFails, Replace, Breaks
      <3> QED
        BY <2>1, <2>2, <2>3, <3>1, <3>2 DEF Remove, RemoveFails, Run, RunFails
    <2> QED
      BY <2>1, <2>3 DEF Next, Play, Start, Inspect, InspectFails, End, Redeploy
  <1> QED
    BY <1>1, Invariance, PTL DEF Spec, ReplacedStays

(* The play, its failures and its repetitions included, implements the       *)
(* rolling upgrade: one service after another, in order.                     *)
THEOREM ImplementsRollingUpgrade == Spec => UpgradeSpec
  <1> DEFINE UpVars == <<Replaced, Missing, Broken, Halted>>
  <1>1. Init => Upgrade!Init
    BY DEF Init, Upgrade!Init, Halted, Replaced, Missing, Broken, Labelled
  <1>2. Inv /\ [Next]_vars => [Upgrade!Next]_UpVars
    <2> SUFFICES ASSUME Inv, [Next]_vars PROVE [Upgrade!Next]_UpVars
      OBVIOUS
    <2> USE DEF Inv
    <2>0. at \in Slots /\ TypeOK /\ Halted \in BOOLEAN /\ Halted' \in BOOLEAN
      BY DEF TypeOK, Halted
    <2>1. ASSUME \A s \in Slots : Earlier(s, at) => s \in Replaced, at \notin Replaced
          PROVE  Missing \subseteq {at} /\ Upgrade!Free(at)
      BY <2>0, <2>1, NoneElse DEF Upgrade!Free
    <2>2. ASSUME Replaced' = Replaced, Missing' = Missing, Broken' = Broken
          PROVE  [Upgrade!Next]_UpVars
      <3>1. CASE Halted' = Halted
        BY <2>2, <3>1
      <3>2. CASE Halted' # Halted
        <4>1. Upgrade!Halt
          BY <2>0, <2>2, <3>2 DEF Upgrade!Halt
        <4> QED
          BY <4>1 DEF Upgrade!Next
      <3> QED
        BY <3>1, <3>2
    <2>3. CASE cont' = cont /\ copy' = copy
      <3>1. Replaced' = Replaced /\ Missing' = Missing /\ Broken' = Broken
        BY <2>3 DEF Replaced, Missing, Broken
      <3> QED
        BY <2>2, <3>1
    <2>4. ASSUME Remove \/ RemoveFails, cont' # cont
          PROVE  [Upgrade!Next]_UpVars
      <3>1. PICK v \in {"none", "dead"} : cont' = [cont EXCEPT ![at] = v] /\ copy' = copy
        BY <2>4 DEF Remove, RemoveFails
      <3>2. /\ ~ Halted /\ cont[at] \in {"old", "dead"}
            /\ \A s \in Slots : Earlier(s, at) => s \in Replaced
        BY <2>4 DEF Remove, RemoveFails, TaskInv, PassedInv, Halted
      <3>3. /\ Replaced' = Replaced /\ Broken' = Broken
            /\ Missing' = IF at \in copy THEN Missing ELSE Missing \union {at}
        BY <2>0, <3>1, <3>2, Removing
      <3>4. CASE at \in copy \/ at \in Missing
        <4>1. Missing' = Missing
          BY <3>3, <3>4
        <4> QED
          BY <2>2, <3>3, <4>1
      <3>5. CASE at \notin copy /\ at \notin Missing
        <4>1. at \notin Replaced
          BY <3>2, <3>5 DEF Replaced, Labelled
        <4>2. Missing = {} /\ Upgrade!Free(at)
          BY <2>1, <3>2, <3>5, <4>1
        <4>3. Upgrade!TakeOut(at)
          BY <2>0, <3>2, <3>3, <3>5, <4>1, <4>2 DEF Upgrade!TakeOut
        <4> QED
          BY <2>0, <4>3 DEF Upgrade!Next
      <3> QED
        BY <3>4, <3>5
    <2>5. ASSUME Run \/ RunFails
          PROVE  /\ pc = "run" /\ ~ Halted /\ \A s \in Slots : Earlier(s, at) => s \in Replaced
      BY <2>5 DEF Run, RunFails, PassedInv, Halted
    <2>6. ASSUME Run \/ RunFails, Replace
          PROVE  [Upgrade!Next]_UpVars
      <3>1. Replaced' = Replaced \union {at} /\ Missing' = Missing \ {at} /\ Broken' = Broken
        BY <2>0, <2>5, <2>6, Replacing
      <3>2. CASE at \in Replaced
        <4>1. Replaced' = Replaced /\ Missing' = Missing
          BY <3>1, <3>2, MissingNotReplaced
        <4> QED
          BY <2>2, <3>1, <4>1
      <3>3. CASE at \notin Replaced
        <4>1. Upgrade!PutIn(at)
          BY <2>0, <2>1, <2>5, <2>6, <3>1, <3>3 DEF Upgrade!PutIn
        <4> QED
          BY <2>0, <4>1 DEF Upgrade!Next
      <3> QED
        BY <3>2, <3>3
    <2>7. ASSUME RunFails, Breaks
          PROVE  [Upgrade!Next]_UpVars
      <3>1. /\ Replaced' = Replaced \union {at} /\ Missing' = Missing \ {at}
            /\ Broken' = IF at \in copy THEN Broken ELSE Broken \union {at}
            /\ at \notin copy => at \in Missing
        BY <2>0, <2>7, Breaking
      <3>2. CASE at \in copy
        <4>1. Replaced' = Replaced /\ Missing' = Missing /\ Broken' = Broken
          BY <2>0, <3>1, <3>2 DEF Replaced, Missing
        <4> QED
          BY <2>2, <4>1
      <3>3. CASE at \notin copy
        <4>1. at \notin Replaced
          BY <3>1, <3>3, MissingNotReplaced
        <4>2. Missing = {at} /\ Halted' = TRUE
          BY <2>1, <2>5, <2>7, <3>1, <3>3, <4>1 DEF RunFails, Halted
        <4>3. Upgrade!PutInBroken(at)
          BY <2>5, <2>7, <3>1, <3>3, <4>2 DEF Upgrade!PutInBroken
        <4> QED
          BY <2>0, <4>3 DEF Upgrade!Next
      <3> QED
        BY <3>2, <3>3
    <2>8. ASSUME NEW image \in {"old", "new"}, Redeploy(image)
          PROVE  [Upgrade!Next]_UpVars
      <3>1. Missing' = {} /\ Broken' = {} /\ Replaced' \subseteq Slots /\ Halted /\ Halted' = Halted
        BY <2>8 DEF Redeploy, Missing, Broken, Replaced, Halted
      <3> QED
        BY <3>1 DEF Upgrade!Next, Upgrade!Reset
    <2> QED
      BY <2>3, <2>4, <2>6, <2>7, <2>8
         DEF Next, Play, Start, Inspect, InspectFails, Remove, RemoveFails, Run, RunFails, End, vars
  <1> QED
    BY <1>1, <1>2, Invariance, PTL DEF Spec, UpgradeSpec, Upgrade!Spec, Upgrade!vars
=============================================================================
