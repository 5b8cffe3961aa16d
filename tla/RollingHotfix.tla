--------------------------- MODULE RollingHotfix ---------------------------
(***************************************************************************)
(* hotfix/hotfix-1678197.yml: the containers of the network hosts are      *)
(* replaced by patched ones, host by host (serial: 1) and container by     *)
(* container.  The play is run again after it failed, and an overcloud     *)
(* deploy may put other containers there between two runs.                 *)
(***************************************************************************)
EXTENDS Integers, FiniteSets

CONSTANTS
    NHosts,    \* the hosts, in the order of the play
    NRepl,     \* the replacements, in the order of the list
    MaxRuns,   \* bound: how often the play is started
    MaxResets  \* bound: how often the overcloud is deployed

ASSUME SizeAssumption == NHosts \in Nat \ {0} /\ NRepl \in Nat \ {0}
ASSUME BoundAssumption == MaxRuns \in Nat /\ MaxResets \in Nat

VARIABLES
    cont,    \* the container of a name: see Conditions
    copy,    \* there is another container, which paunch had to name differently
    pc,      \* the task the play is at
    at,      \* the host and the replacement it is at
    runs, resets

vars == <<cont, copy, pc, at, runs, resets>>
Slots == (1..NHosts) \X (1..NRepl)
Earlier(s, t) == s[1] < t[1] \/ (s[1] = t[1] /\ s[2] < t[2])
First == <<1, 1>>
(* It runs with the old or the new image, is an old one that does not run    *)
(* (dead), a new one that does not run (broken), or there is none.           *)
Conditions == {"old", "new", "dead", "broken", "none"}
Labelled == {"new", "broken"}  \* those with the release of the new image
-----------------------------------------------------------------------------
Init ==
    /\ cont = [s \in Slots |-> "old"]
    /\ copy = {}
    /\ pc = "idle" /\ at = First
    /\ runs = 0 /\ resets = 0

Start ==
    /\ pc = "idle" /\ runs < MaxRuns
    /\ pc' = "inspect" /\ at' = First /\ runs' = runs + 1
    /\ UNCHANGED <<cont, copy, resets>>

Advance_NextHost ==  \* slip: one replacement per host
    IF at[1] < NHosts THEN pc' = "inspect" /\ at' = <<at[1] + 1, at[2]>>
    ELSE pc' = "done" /\ at' = at
Advance_Overruns ==  \* slip: one replacement too many
    IF at[2] <= NRepl THEN pc' = "inspect" /\ at' = <<at[1], at[2] + 1>>
    ELSE pc' = "done" /\ at' = at
(* On to the next replacement, the next host, or the end. *)
Advance ==
    IF at[2] < NRepl THEN pc' = "inspect" /\ at' = <<at[1], at[2] + 1>>
    ELSE IF at[1] < NHosts THEN pc' = "inspect" /\ at' = <<at[1] + 1, 1>>
    ELSE pc' = "done" /\ at' = at

Inspect_Always ==  \* slip: no `when' on the block
    /\ pc = "inspect" /\ cont[at] # "none"
    /\ pc' = "remove" /\ at' = at
    /\ UNCHANGED <<cont, copy, runs, resets>>

(* docker inspect; a container with the label of the new image is passed     *)
(* over, whether it runs or not.                                             *)
Inspect ==
    /\ pc = "inspect" /\ cont[at] # "none"
    /\ IF cont[at] \in Labelled THEN Advance ELSE pc' = "remove" /\ at' = at
    /\ UNCHANGED <<cont, copy, runs, resets>>

InspectFails_Ignored ==  \* slip: a missing container is passed over
    /\ pc = "inspect"
    /\ Advance
    /\ UNCHANGED <<cont, copy, runs, resets>>
(* There is nothing to inspect, the host is out of reach or the operator     *)
(* interrupts: fatal for all hosts.                                          *)
InspectFails ==
    /\ pc = "inspect"
    /\ pc' = "failed"
    /\ UNCHANGED <<cont, copy, at, runs, resets>>

Remove ==
    /\ pc = "remove"
    /\ cont' = [cont EXCEPT ![at] = "none"]
    /\ pc' = "run"
    /\ UNCHANGED <<copy, at, runs, resets>>

(* docker rm fails, the container killed or not; ignore_errors goes on.  A   *)
(* host that is out of reach is no such error.                               *)
RemoveFails ==
    /\ pc = "remove"
    /\ \/ cont' \in {cont, [cont EXCEPT ![at] = "dead"]} /\ pc' \in {"run", "failed"}
       \/ cont' = [cont EXCEPT ![at] = "none"] /\ pc' = "failed"
    /\ UNCHANGED <<copy, at, runs, resets>>

(* paunch debug --action run: under another name if the name is taken. *)
Replace ==
    IF cont[at] = "none"
    THEN cont' = [cont EXCEPT ![at] = "new"] /\ copy' = copy
    ELSE copy' = copy \union {at} /\ cont' = cont
Run ==
    /\ pc = "run"
    /\ Replace
    /\ Advance
    /\ UNCHANGED <<runs, resets>>

(* docker run has made the container and cannot start it. *)
Breaks ==
    /\ cont[at] = "none"
    /\ cont' = [cont EXCEPT ![at] = "broken"] /\ UNCHANGED copy

RunFails_GoesOn ==  \* slip: ignore_errors here, too
    /\ pc = "run"
    /\ Replace \/ Breaks \/ UNCHANGED <<cont, copy>>
    /\ Advance
    /\ UNCHANGED <<runs, resets>>
(* It fails, before or after the container is made, or works and the answer  *)
(* is lost.  One that was made under another name and does not run changes   *)
(* nothing: the name is still that of the old one.                           *)
RunFails ==
    /\ pc = "run"
    /\ Replace \/ Breaks \/ UNCHANGED <<cont, copy>>
    /\ pc' = "failed"
    /\ UNCHANGED <<at, runs, resets>>

End ==
    /\ pc \in {"done", "failed"}
    /\ pc' = "idle" /\ at' = First
    /\ UNCHANGED <<cont, copy, runs, resets>>

(* An overcloud deploy starts all containers again, from the image it is     *)
(* given; it knows nothing of the copies.                                    *)
Redeploy(image) ==
    /\ pc = "idle" /\ resets < MaxResets
    /\ resets' = resets + 1
    /\ cont' = [s \in Slots |-> image]
    /\ UNCHANGED <<copy, pc, at, runs>>

Play == Inspect \/ InspectFails \/ Remove \/ RemoveFails \/ Run \/ RunFails \/ End
Next == Start \/ Play \/ \E image \in {"old", "new"} : Redeploy(image)
Spec == Init /\ [][Next]_vars
-----------------------------------------------------------------------------
(* The variables have their types. *)
TypeOK ==
    /\ cont \in [Slots -> Conditions]
    /\ copy \subseteq Slots
    /\ pc \in {"idle", "inspect", "remove", "run", "done", "failed"}
    /\ at \in Slots
    /\ runs \in 0..MaxRuns /\ resets \in 0..MaxResets

(* What has the new image, and what does not run: services taken out for     *)
(* a replacement that is not there, and those whose replacement is broken.   *)
Replaced == {s \in Slots : cont[s] \in Labelled \/ s \in copy}
Missing == {s \in Slots : cont[s] \in {"dead", "none"} /\ s \notin copy}
Broken == {s \in Slots : cont[s] = "broken" /\ s \notin copy}
Out == Missing \union Broken

(* Over all failures, interruptions and repetitions at most one service of   *)
(* one network host is out for want of a new container, and a run takes out  *)
(* at most one service more, which is what serial: 1, any_errors_fatal and   *)
(* the inspection of a missing container are for.  No more than that holds:  *)
(* the inspection looks at the label only, so that a new container that did  *)
(* not start stays out while the next run takes out the next one.            *)
OneServiceOut ==
    /\ \A s, t \in Missing : s = t
    /\ Cardinality(Out) <= runs

(* A run that ends well has every container on every host replaced, by it or *)
(* by an earlier run; beside one it could not remove there is a second one.  *)
(* That what an earlier run has put there works is not looked at.            *)
DoneMeansReplaced == pc = "done" => Replaced = Slots

(* A run does not restart what an earlier run has replaced; nor does it      *)
(* touch a new container that is broken.                                     *)
ReplacedStays ==
    [][pc # "idle" => \A s \in Slots : cont[s] \in Labelled => cont'[s] = cont[s]]_vars

(* Services go out one at a time and in order, each after all before it have *)
(* the new image, whatever fails and however often the play is run again;    *)
(* after a replacement that does not start nothing goes out until the play   *)
(* is started again.                                                         *)
Halted == pc \notin {"inspect", "remove", "run"}
Upgrade == INSTANCE RollingUpgrade
    WITH upgraded <- Replaced, out <- Missing, broken <- Broken, halted <- Halted
UpgradeSpec == Upgrade!Spec
=============================================================================
