--------------------------- MODULE CloudResources ---------------------------
(***************************************************************************)
(* create-overcloud-resources.yml: the roles that create what tenants use. *)
(* Some tasks call a module that makes a resource be there, others ask     *)
(* with the command line client whether it is there, take any failure for  *)
(* a no and create what seems missing.  A task is a loop over all items    *)
(* and fails at its end if one item failed; then the play ends.            *)
(***************************************************************************)
EXTENDS Integers, Sequences

CONSTANTS
    Runs,        \* runs of the play, by different people or one after the other
    Items,       \* length of the lists in the inventory
    Selections,  \* what --tags can select: sequences of tasks
    MaxBegins,   \* bound: how often a run begins
    MaxDeletes   \* bound: how often an operator deletes something

(* Tasks: look (a module asks), show (the client asks, a failure is no       *)
(* failure), download and create (for what was not found), ensure.           *)
Task(do, kind) == [do |-> do, kind |-> kind]
Show(kind) == Task("show", kind)
Create(kind) == Task("create", kind)
Ensure(kind) == Task("ensure", kind)
flavors == <<Ensure("flavor")>>
images == <<Task("look", "image"), Task("download", "image"), Task("create-by-module", "image")>>
volume_types == <<Show("type"), Create("type"), Show("qos"), Create("qos"), Ensure("association")>>
external_networks == <<Ensure("network"), Ensure("subnet")>>
keystone_federation ==
    <<Show("provider"), Create("provider"), Show("mapping"), Create("mapping"),
      Show("protocol"), Create("protocol")>>
ec2_compat == <<Ensure("service"), Ensure("endpoint")>>
Playbook ==
    flavors \o images \o volume_types \o external_networks \o keystone_federation \o ec2_compat

(* What must be there for a resource to be created. *)
Needs(kind) ==
    CASE kind = "association" -> {"type", "qos"}
      [] kind = "subnet" -> {"network"}
      [] kind = "protocol" -> {"provider", "mapping"}
      [] kind = "endpoint" -> {"service"}
      [] OTHER -> {}

Makes == {"create", "create-by-module", "ensure"}
Looks == {"look", "show"}
IfMissing == {"download", "create", "create-by-module"}
Tasks == [do : Looks \union IfMissing \union Makes,
          kind : {Playbook[t].kind : t \in DOMAIN Playbook}]
(* Tags are on roles, so what is selected has every role whole: a task that  *)
(* looks, with those that act on what it found; and what a task needs is     *)
(* made by one before it.                                                    *)
WholeRoles(s) ==
    /\ s \in Seq(Tasks) /\ s # <<>>
    /\ \A t \in DOMAIN s :
          /\ s[t].do \in IfMissing =>
                /\ t > 1 /\ s[t - 1].kind = s[t].kind
                /\ s[t - 1].do \in Looks \union ({"download"} \ {s[t].do})
          /\ s[t].do \in Looks \union {"download"} =>
                /\ t < Len(s) /\ s[t + 1].kind = s[t].kind
                /\ s[t + 1].do \in IfMissing \ {s[t].do}
          /\ s[t].do \in Makes => \A k \in Needs(s[t].kind) :
                \E u \in 1..(t - 1) : s[u].do \in Makes /\ s[u].kind = k

ASSUME BoundAssumption == Items \in Nat \ {0} /\ MaxBegins \in Nat /\ MaxDeletes \in Nat
ASSUME TagsAssumption == \A s \in Selections : WholeRoles(s)

VARIABLES
    there,      \* the resources of the cloud: <<kind, item>>
    state,      \* of each run
    selected,   \* the tasks of the run
    todo, item, \* the tasks left, and the item the first of them is at
    missing,    \* the items the last task that looked did not find
    bad,        \* an item of this task failed
    begins, deletes,
    disturbed,  \* observed: a call of the run failed, or the cloud changed under it
    gone        \* observed: what was deleted during the run

run == <<state, selected, todo, item, missing, bad>>
vars == <<there, run, begins, deletes, disturbed, gone>>
-----------------------------------------------------------------------------
(* ec2_compat has no loop: there is one service, with one endpoint.          *)
ItemsOf(kind) == 1..(IF kind \in {"service", "endpoint"} THEN 1 ELSE Items)
ResourcesOf(tasks) ==
    UNION {{<<tasks[t].kind, i>> : i \in ItemsOf(tasks[t].kind)} : t \in DOMAIN tasks}
Resources == ResourcesOf(Playbook)
Running(r) == state[r] = "running"

Init ==
    /\ there = {} /\ state = [r \in Runs |-> "done"]
    /\ selected = [r \in Runs |-> <<>>] /\ todo = [r \in Runs |-> <<>>]
    /\ item = [r \in Runs |-> 1] /\ missing = [r \in Runs |-> {}]
    /\ bad = [r \in Runs |-> FALSE] /\ begins = 0 /\ deletes = 0
    /\ disturbed = [r \in Runs |-> FALSE] /\ gone = [r \in Runs |-> {}]

Begin(r) ==
    /\ ~Running(r) /\ begins < MaxBegins /\ begins' = begins + 1
    /\ \E tasks \in Selections :
          selected' = [selected EXCEPT ![r] = tasks] /\ todo' = [todo EXCEPT ![r] = tasks]
    /\ state' = [state EXCEPT ![r] = "running"]
    /\ disturbed' = [disturbed EXCEPT ![r] = FALSE] /\ gone' = [gone EXCEPT ![r] = {}]
    /\ UNCHANGED <<there, item, missing, bad, deletes>>

(* Somebody deletes a resource; the cloud refuses while another needs it.    *)
Delete(x) ==
    /\ x \in there /\ deletes < MaxDeletes /\ deletes' = deletes + 1
    /\ \A y \in there : y[2] = x[2] => x[1] \notin Needs(y[1])
    /\ there' = there \ {x}
    /\ disturbed' = [r \in Runs |-> disturbed[r] \/ Running(r)]
    /\ gone' = [r \in Runs |-> IF Running(r) THEN gone[r] \union {x} ELSE gone[r]]
    /\ UNCHANGED <<run, begins>>

(* ------------------------- one item of a task ---------------------------- *)
Now(r) == Head(todo[r])
Target(r) == <<Now(r).kind, item[r]>>
Does(r, dos) == Running(r) /\ Now(r).do \in dos
Skipped(r) == Now(r).do \in IfMissing /\ item[r] \notin missing[r]
Possible(x) == \A k \in Needs(x[1]) : <<k, x[2]>> \in there

Ends(r, result) ==
    /\ state' = [state EXCEPT ![r] = result]
    /\ todo' = [todo EXCEPT ![r] = <<>>] /\ item' = [item EXCEPT ![r] = 1]
    /\ missing' = [missing EXCEPT ![r] = {}] /\ bad' = [bad EXCEPT ![r] = FALSE]
MoreItems_OnePast(r) == item[r] \in ItemsOf(Now(r).kind)  \* slip: off by one
MoreItems(r) == item[r] + 1 \in ItemsOf(Now(r).kind)
MoreTasks(r) == Len(todo[r]) > 1
NextItem_LastCounts(r, ok, m) ==  \* slip: only the last item can fail a task
    IF MoreItems(r)
    THEN /\ item' = [item EXCEPT ![r] = @ + 1] /\ missing' = [missing EXCEPT ![r] = m]
         /\ UNCHANGED <<state, todo, bad>>
    ELSE IF ok /\ MoreTasks(r)
    THEN /\ todo' = [todo EXCEPT ![r] = Tail(@)] /\ item' = [item EXCEPT ![r] = 1]
         /\ missing' = [missing EXCEPT ![r] = m]
         /\ UNCHANGED <<state, bad>>
    ELSE Ends(r, IF ok THEN "done" ELSE "failed")
(* The loop goes on to the next item, its last item to the next task, unless *)
(* an item failed; the last task ends the play.                              *)
NextItem(r, ok, m) ==
    LET failed == bad[r] \/ ~ok
    IN  IF MoreItems(r)
        THEN /\ item' = [item EXCEPT ![r] = @ + 1] /\ bad' = [bad EXCEPT ![r] = failed]
             /\ missing' = [missing EXCEPT ![r] = m]
             /\ UNCHANGED <<state, todo>>
        ELSE IF ~failed /\ MoreTasks(r)
        THEN /\ todo' = [todo EXCEPT ![r] = Tail(@)] /\ item' = [item EXCEPT ![r] = 1]
             /\ missing' = [missing EXCEPT ![r] = m]
             /\ UNCHANGED <<state, bad>>
        ELSE Ends(r, IF failed THEN "failed" ELSE "done")

Undisturbed == UNCHANGED <<there, disturbed>>
Rest == UNCHANGED <<selected, begins, deletes, gone>>
AddedBy(r, x) ==
    /\ there' = there \union {x}
    /\ disturbed' = [q \in Runs |-> disturbed[q] \/ (q # r /\ Running(q))]

Look_KeepsOld(r) ==  \* slip: an item once missing stays so
    /\ Does(r, Looks)
    /\ NextItem(r, TRUE, missing[r] \union ({item[r]} \ {i \in 1..Items : <<Now(r).kind, i>> \in there}))
    /\ Undisturbed /\ Rest
(* What the task registers for an item is what it finds. *)
Look(r) ==
    /\ Does(r, Looks)
    /\ NextItem(r, TRUE, IF Target(r) \in there THEN missing[r] \ {item[r]}
                         ELSE missing[r] \union {item[r]})
    /\ Undisturbed /\ Rest

Skip(r) ==
    /\ Does(r, Makes \union {"download"}) /\ Skipped(r)
    /\ NextItem(r, TRUE, missing[r]) /\ Undisturbed /\ Rest
Download(r) ==
    /\ Does(r, {"download"}) /\ ~Skipped(r)
    /\ NextItem(r, TRUE, missing[r]) /\ Undisturbed /\ Rest
Make(r) ==
    /\ Does(r, Makes) /\ ~Skipped(r) /\ Target(r) \notin there /\ Possible(Target(r))
    /\ NextItem(r, TRUE, missing[r]) /\ AddedBy(r, Target(r)) /\ Rest
(* A module sees that it is there; of the client's names only one can be.    *)
AlreadyThere(r) ==
    /\ Does(r, Makes) /\ ~Skipped(r) /\ Target(r) \in there
    /\ NextItem(r, Now(r).do # "create", missing[r]) /\ Undisturbed /\ Rest
Impossible(r) ==
    /\ Does(r, Makes) /\ ~Skipped(r) /\ Target(r) \notin there /\ ~Possible(Target(r))
    /\ NextItem(r, FALSE, missing[r]) /\ Undisturbed /\ Rest

(* A call fails, or its answer is lost: "show" takes that for a no.          *)
CallFails(r) ==
    /\ Running(r) /\ ~Skipped(r)
    /\ IF Now(r).do = "show" THEN NextItem(r, TRUE, missing[r] \union {item[r]})
       ELSE NextItem(r, FALSE, missing[r])
    /\ \/ there' = there
       \/ Now(r).do \in Makes /\ Possible(Target(r)) /\ there' = there \union {Target(r)}
    /\ disturbed' =
          [q \in Runs |-> disturbed[q] \/ q = r \/ (Running(q) /\ there' # there)]
    /\ Rest
(* The play is interrupted. *)
Interrupt(r) ==
    /\ Running(r) /\ Ends(r, "failed")
    /\ disturbed' = [disturbed EXCEPT ![r] = TRUE] /\ there' = there /\ Rest

Step(r) ==
    Look(r) \/ Skip(r) \/ Download(r) \/ Make(r) \/ AlreadyThere(r) \/ Impossible(r)
Next ==
    \/ \E r \in Runs : Begin(r) \/ Step(r) \/ CallFails(r) \/ Interrupt(r)
    \/ \E x \in Resources : Delete(x)
Spec == Init /\ [][Next]_vars
-----------------------------------------------------------------------------
(* The variables have their types; a resource has what it needs.             *)
TypeOK ==
    /\ there \subseteq Resources /\ \A x \in there : Possible(x)
    /\ state \in [Runs -> {"running", "done", "failed"}]
    /\ item \in [Runs -> 1..Items] /\ missing \in [Runs -> SUBSET (1..Items)]
    /\ bad \in [Runs -> BOOLEAN] /\ disturbed \in [Runs -> BOOLEAN]
    /\ begins \in 0..MaxBegins /\ deletes \in 0..MaxDeletes
    /\ \A r \in Runs :
          /\ selected[r] \in Selections \union {<<>>} /\ gone[r] \subseteq Resources
          /\ Running(r) => todo[r] # <<>>

(* A play that ends well leaves every item of the roles it ran in the cloud, *)
(* each volume type with its limits and each provider with its protocol, but *)
(* for what somebody deleted meanwhile.                                      *)
DoneMeansThere ==
    [][\A r \in Runs : Running(r) /\ state'[r] = "done" =>
          ResourcesOf(selected[r]) \subseteq there' \union gone'[r]]_vars

(* Whatever earlier runs left half made, a run goes wrong only if a call of  *)
(* its own failed or the cloud changed under it.                             *)
RetrySucceeds ==
    [][\A r \in Runs : Running(r) /\ state'[r] = "failed" => disturbed'[r]]_vars
=============================================================================
