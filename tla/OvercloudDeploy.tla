-------------------------- MODULE OvercloudDeploy --------------------------
(***************************************************************************)
(* From the inventory to the overcloud.  overcloud-deploy.sh runs          *)
(* playbooks/deploy.yml, which gathers facts and renders seven files from  *)
(* the inventory, and hands the files to Heat.  Heat creates the servers   *)
(* of each role by index and waits until a host polls the metadata of each *)
(* one.  overcloud-continue.sh tells the hosts which server they are: host *)
(* x of the role's list in overcloud-env.sh is told to be server x.  Two   *)
(* files therefore have to agree on the order of the hosts, one through    *)
(* the names in HostnameMap and one through hostname_sort.                 *)
(*                                                                         *)
(* overcloud-update-prepare.sh and the playbook run by hand render the     *)
(* same files and change nothing in Heat.  The operator edits the          *)
(* inventory, and hosts change their address, at any time.                 *)
(***************************************************************************)
EXTENDS Integers, Sequences, FiniteSets

CONSTANTS
    Roles,        \* controller, networker, compute
    OvercloudRoles,  \* OVERCLOUD_ROLES of overcloud-env.sh: the roles in order
    Controller,   \* the role that is fenced
    Hosts,        \* the machines there are
    Addrs,        \* control plane addresses
    HomeAddr,     \* the address each machine has at first
    Movable,      \* bound: the machines whose address may change
    NoAddr,       \* no fact is known of the host
    NoHost,       \* HostnameMap has no entry for a server
    Nobody,       \* the host has not been told which server it is
    Inventories,  \* the inventories to start with
    Tagged,       \* bound: the tasks that are run alone with --tags, 0 for all of them
    MaxEdits,     \* bound: how often the inventory is edited or a host moves
    MayReassign,  \* the operator may give an ooo_name to another host
    MayFail       \* hosts, tasks and Heat may fail

VARIABLES
    edits,    \* number of edits of the inventory and moves of hosts
    inv,      \* inventory: role -> its hosts in file order, with ooo_name's index
    addr,     \* the address each machine has
    facts,    \* the fact cache, playbooks/.facts
    env,            \* overcloud-env.sh: role -> its hosts, sorted
    hostnamemap,    \* hostnamemap.yaml: ooo_name, as <<role, index>> -> host
    portmap,        \* deployedserverportmap.yaml: host -> control plane address
    fencing,        \* fencing.yaml: the hosts there is a fence device for
    rolecount,      \* rolecount.yaml: role -> number of servers
    rendered,       \* the tasks whose file is there
    pc,       \* where the deploying script is
    script,   \* which script it is
    loaded,   \* the inventory Ansible read when it started
    task,     \* the next task of deploy-config
    only,     \* the one task selected with --tags, 0 when all are run
    plan,     \* the files Heat was given
    pending,  \* the roles Heat has not updated yet
    stack,    \* Heat: role -> its servers by index
    cpc,      \* where overcloud-continue.sh is
    cenv,     \* the host lists it sourced
    ctodo,    \* the roles it has not paired yet, in order
    occ       \* the server whose metadata each host polls

files == <<env, hostnamemap, portmap, fencing, rolecount, rendered>>
world == <<edits, inv, addr>>
args == <<script, loaded, task, only>>
deploying == <<pc, args, plan, pending>>
continuing == <<cpc, cenv, ctodo>>
vars == <<world, facts, files, deploying, stack, continuing, occ>>
-----------------------------------------------------------------------------
Entry == [host : Hosts, idx : Nat]
HostsIn(l) == UNION {{l[r][x].host : x \in DOMAIN l[r]} : r \in Roles}

(* The ooo_names of a role are numbered from 0 without gaps, as in the      *)
(* repository's production.yml, and no host has two.                        *)
Dense(g) == {g[x].idx : x \in DOMAIN g} = 0..(Len(g) - 1)
OneRole(l) ==
    \A r, s \in Roles : \A x \in DOMAIN l[r], y \in DOMAIN l[s] :
        l[r][x].host = l[s][y].host => r = s /\ x = y
Sound(l) == OneRole(l) /\ \A r \in Roles : Dense(l[r])

ASSUME InventoryAssumption ==
    \A l \in Inventories : l \in [Roles -> Seq(Entry)] /\ Sound(l)
ASSUME RoleAssumption ==
    Controller \in Roles /\ OvercloudRoles \in Seq(Roles)
ASSUME EditAssumption == MaxEdits \in Nat
ASSUME MovableAssumption == Movable \subseteq Hosts /\ HomeAddr \in [Hosts -> Addrs]
ASSUME SentinelAssumption ==
    NoAddr \notin Addrs /\ NoHost \notin Hosts /\ Nobody \notin Roles \X Nat

(* The filter: a stable sort on the number that ends ooo_name.              *)
Rank(g, x) ==
    Cardinality({y \in DOMAIN g : g[y].idx < g[x].idx \/ (g[y].idx = g[x].idx /\ y < x)})
hostname_sort(g) ==
    [p \in DOMAIN g |-> g[CHOOSE x \in DOMAIN g : Rank(g, x) = p - 1]]

(* The tasks of deploy-config and what each file holds of the inventory.    *)
Tasks == <<"overcloud-env.sh", "hostnamemap", "deployedserverportmap", "fencing",
           "rolecount", "credentials", "controller_extraconfig">>
ASSUME TagAssumption == Tagged \subseteq 0..Len(Tasks)
EnvOf_Unsorted(l) ==  \* slip: a loop without hostname_sort
    [r \in Roles |-> [p \in DOMAIN l[r] |-> l[r][p].host]]
EnvOf(l) == [r \in Roles |-> [p \in DOMAIN l[r] |-> hostname_sort(l[r])[p].host]]
NamesIn(l) == UNION {{<<r, l[r][x].idx>> : x \in DOMAIN l[r]} : r \in Roles}
HostnameMapOf_ByPosition(l) ==  \* slip: names made of the loop's index
    [nm \in NamesIn(l) |-> l[nm[1]][nm[2] + 1].host]
HostnameMapOf(l) ==
    [nm \in NamesIn(l) |-> LET g == l[nm[1]]
                           IN  g[CHOOSE x \in DOMAIN g : g[x].idx = nm[2]].host]
PortMapOf(l, f) == [h \in HostsIn(l) |-> f[h]]
FencingOf(l) == {l[Controller][x].host : x \in DOMAIN l[Controller]}
RoleCountOf(l) == [r \in Roles |-> Len(l[r])]

Renderable_Always(t) == t \in {Tasks[x] : x \in DOMAIN Tasks}  \* slip: default('')

(* The port map needs a fact of every host, the fence devices of the         *)
(* controllers only; a missing one is an undefined variable.                 *)
Renderable(t) ==
    CASE t = "deployedserverportmap" -> \A h \in HostsIn(loaded) : facts[h] # NoAddr
      [] t = "fencing" -> \A h \in FencingOf(loaded) : facts[h] # NoAddr
      [] OTHER -> TRUE

Empty == [nm \in {} |-> NoHost]
NoLists == [r \in Roles |-> << >>]
NoPlan == [hostnamemap |-> Empty, portmap |-> Empty, fencing |-> {},
           rolecount |-> [r \in Roles |-> 0]]
-----------------------------------------------------------------------------
Init ==
    /\ inv \in Inventories
    /\ edits = 0
    /\ addr = HomeAddr
    /\ facts = [h \in Hosts |-> NoAddr]
    /\ env = NoLists /\ hostnamemap = Empty /\ portmap = Empty /\ fencing = {}
    /\ rolecount = [r \in Roles |-> 0] /\ rendered = {}
    /\ pc = "idle" /\ script = "deploy" /\ loaded = NoLists /\ task = 1 /\ only = 0
    /\ plan = NoPlan /\ pending = {}
    /\ stack = NoLists
    /\ cpc = "idle" /\ cenv = NoLists /\ ctodo = << >>
    /\ occ = [h \in Hosts |-> Nobody]

(* ----------------------------- the operator ----------------------------- *)
(* A host gets the next ooo_name of a role; it may stand anywhere in the     *)
(* file, first and last here.                                               *)
AddHost(r, h) ==
    /\ edits < MaxEdits /\ edits' = edits + 1
    /\ h \notin HostsIn(inv)
    /\ LET e == [host |-> h, idx |-> Len(inv[r])]
       IN  \E g \in {Append(inv[r], e), <<e>> \o inv[r]} : inv' = [inv EXCEPT ![r] = g]
    /\ UNCHANGED <<addr, facts, files, deploying, stack, continuing, occ>>

(* The ooo_name of a host goes to another one. *)
Reassign(r, x, h) ==
    /\ edits < MaxEdits /\ edits' = edits + 1
    /\ MayReassign
    /\ h \notin HostsIn(inv)
    /\ inv' = [inv EXCEPT ![r] = [@ EXCEPT ![x].host = h]]
    /\ UNCHANGED <<addr, facts, files, deploying, stack, continuing, occ>>

(* The host with the last ooo_name of a role is taken out. *)
Without(g, x) == [p \in 1..(Len(g) - 1) |-> g[IF p < x THEN p ELSE p + 1]]
RemoveLast(r) ==
    /\ edits < MaxEdits /\ edits' = edits + 1
    /\ MayReassign
    /\ \E x \in DOMAIN inv[r] : /\ inv[r][x].idx = Len(inv[r]) - 1
                               /\ inv' = [inv EXCEPT ![r] = Without(@, x)]
    /\ UNCHANGED <<addr, facts, files, deploying, stack, continuing, occ>>

Move(h, a) ==
    /\ edits < MaxEdits /\ edits' = edits + 1
    /\ h \in Movable /\ a # addr[h]
    /\ addr' = [addr EXCEPT ![h] = a]
    /\ UNCHANGED <<inv, facts, files, deploying, stack, continuing, occ>>

(* ---------------- the scripts that render: playbooks/deploy.yml ---------- *)
(* A script starts Ansible, which reads the inventory once.  -e skip_facts   *)
(* leaves the first play out; --tags selects one task of the second.         *)
Start(sc, skip, one) ==
    /\ pc = "idle"
    /\ skip \/ one # 0 => sc = "playbook"
    /\ script' = sc
    /\ loaded' = inv
    /\ only' = one
    /\ task' = IF one = 0 THEN 1 ELSE one
    /\ pc' = IF skip THEN "render" ELSE "gather"
    /\ UNCHANGED <<world, facts, files, plan, pending, stack, continuing, occ>>

Gathered(S) == [h \in Hosts |-> IF h \in S THEN addr[h] ELSE facts[h]]

Gather ==
    /\ pc = "gather"
    /\ facts' = Gathered(HostsIn(loaded))
    /\ pc' = "render"
    /\ UNCHANGED <<world, files, args, plan, pending, stack, continuing, occ>>

(* any_errors_fatal: one host that is down ends the playbook, and set -e the *)
(* script; the facts of the others are in the cache.                         *)
GatherFails ==
    /\ pc = "gather" /\ MayFail
    /\ \E S \in SUBSET HostsIn(loaded) : S # HostsIn(loaded) /\ facts' = Gathered(S)
    /\ pc' = "failed"
    /\ UNCHANGED <<world, files, args, plan, pending, stack, continuing, occ>>

(* The next task writes its file. *)
Write(t) ==
    /\ env' = IF t = "overcloud-env.sh" THEN EnvOf(loaded) ELSE env
    /\ hostnamemap' = IF t = "hostnamemap" THEN HostnameMapOf(loaded) ELSE hostnamemap
    /\ portmap' = IF t = "deployedserverportmap" THEN PortMapOf(loaded, facts) ELSE portmap
    /\ fencing' = IF t = "fencing" THEN FencingOf(loaded) ELSE fencing
    /\ rolecount' = IF t = "rolecount" THEN RoleCountOf(loaded) ELSE rolecount
    /\ rendered' = rendered \union {t}
LastTask == IF only = 0 THEN Len(Tasks) ELSE only

Render ==
    /\ pc = "render"
    /\ Renderable(Tasks[task])
    /\ Write(Tasks[task])
    /\ IF task < LastTask
       THEN task' = task + 1 /\ pc' = pc
       ELSE task' = task /\ pc' = IF script = "playbook" THEN "done" ELSE "ssh"
    /\ UNCHANGED <<world, facts, script, loaded, only, plan, pending, stack, continuing, occ>>

RenderFails_GoesOn ==  \* slip: no set -e
    /\ pc = "render"
    /\ MayFail \/ ~Renderable(Tasks[task])
    /\ pc' = IF script = "playbook" THEN "failed" ELSE "ssh"
    /\ UNCHANGED <<world, facts, files, args, plan, pending, stack, continuing, occ>>

(* A task fails: for a fact that is not there, or any other reason.  The     *)
(* files of the tasks before it stay as they were written.                   *)
RenderFails ==
    /\ pc = "render"
    /\ MayFail \/ ~Renderable(Tasks[task])
    /\ pc' = "failed"
    /\ UNCHANGED <<world, facts, files, args, plan, pending, stack, continuing, occ>>

(* enable-ssh-admin.sh on the hosts of overcloud-env.sh. *)
EnableSsh ==
    /\ pc = "ssh"
    /\ pc' = IF script = "deploy" THEN "heat" ELSE "udpate"
    /\ UNCHANGED <<world, facts, files, args, plan, pending, stack, continuing, occ>>

(* The script fails at enable-ssh-admin.sh; or it is the one that says       *)
(* `openstack overcloud udpate prepare', which is no command.                *)
ScriptFails ==
    /\ (pc = "ssh" /\ MayFail) \/ pc = "udpate"
    /\ pc' = "failed"
    /\ UNCHANGED <<world, facts, files, args, plan, pending, stack, continuing, occ>>

(* ------------------- openstack overcloud deploy, and Heat ---------------- *)
(* The client reads the files and sends them. *)
HeatStart ==
    /\ pc = "heat"
    /\ plan' = [hostnamemap |-> hostnamemap, portmap |-> portmap, fencing |-> fencing,
                rolecount |-> rolecount]
    /\ pending' = Roles
    /\ pc' = "update"
    /\ UNCHANGED <<world, facts, files, args, stack, continuing, occ>>

ServerOf_FromOne(r, i) ==  \* slip: servers counted from 1
    LET nm == <<r, i + 1>>
        h == IF nm \in DOMAIN plan.hostnamemap THEN plan.hostnamemap[nm] ELSE NoHost
    IN  [host |-> h, addr |-> IF h \in DOMAIN plan.portmap THEN plan.portmap[h] ELSE NoAddr]
(* Server i of a role is named by HostnameMap and has the port that is       *)
(* mapped for that name.                                                     *)
ServerOf(r, i) ==
    LET h == IF <<r, i>> \in DOMAIN plan.hostnamemap THEN plan.hostnamemap[<<r, i>>] ELSE NoHost
    IN  [host |-> h, addr |-> IF h \in DOMAIN plan.portmap THEN plan.portmap[h] ELSE NoAddr]
HeatRole(r) ==
    /\ pc = "update"
    /\ r \in pending
    /\ stack' = [stack EXCEPT ![r] = [x \in 1..plan.rolecount[r] |-> ServerOf(r, x - 1)]]
    /\ pending' = pending \ {r}
    /\ UNCHANGED <<world, facts, files, pc, args, plan, continuing, occ>>

(* Every server has been polled for. *)
Polled == \A r \in Roles : \A x \in DOMAIN stack[r] : \E h \in Hosts : occ[h] = <<r, x - 1>>
HeatDone ==
    /\ pc = "update"
    /\ pending = {}
    /\ Polled
    /\ pc' = "done"
    /\ UNCHANGED <<world, facts, files, args, plan, pending, stack, continuing, occ>>

HeatFails ==
    /\ pc = "update" /\ MayFail
    /\ pc' = "failed"
    /\ UNCHANGED <<world, facts, files, args, plan, pending, stack, continuing, occ>>

(* The script has ended; nothing of it is left but what it wrote. *)
End ==
    /\ pc \in {"done", "failed"}
    /\ pc' = "idle" /\ script' = "deploy" /\ loaded' = NoLists /\ task' = 1 /\ only' = 0
    /\ plan' = NoPlan /\ pending' = {}
    /\ UNCHANGED <<world, facts, files, stack, continuing, occ>>

(* -------------------------- overcloud-continue.sh ------------------------ *)
ContinueStart_RoleMissing ==  \* slip: OVERCLOUD_ROLES lacks a role
    /\ cpc = "idle"
    /\ "overcloud-env.sh" \in rendered
    /\ cpc' = "pairing"
    /\ cenv' = env
    /\ ctodo' = <<Head(OvercloudRoles)>>
    /\ UNCHANGED <<world, facts, files, deploying, stack, occ>>

(* It sources overcloud-env.sh, which has to be there. *)
ContinueStart ==
    /\ cpc = "idle"
    /\ "overcloud-env.sh" \in rendered
    /\ cpc' = "pairing"
    /\ cenv' = env
    /\ ctodo' = OvercloudRoles
    /\ UNCHANGED <<world, facts, files, deploying, stack, occ>>

(* get-occ-config.sh, for a role Heat has servers of: host x is configured   *)
(* to poll the metadata of server x.                                         *)
PairsOf(r) == DOMAIN cenv[r] \intersect DOMAIN stack[r]
Pair(r, S) ==
    occ' = [h \in Hosts |->
              IF \E x \in S : cenv[r][x] = h
              THEN <<r, (CHOOSE x \in S : cenv[r][x] = h) - 1>>
              ELSE occ[h]]
ContinueRole(r) ==
    /\ cpc = "pairing"
    /\ ctodo # << >> /\ r = Head(ctodo)
    /\ stack[r] # << >>
    /\ Pair(r, PairsOf(r))
    /\ ctodo' = Tail(ctodo)
    /\ UNCHANGED <<world, facts, files, deploying, stack, cpc, cenv>>

(* Some hosts of the role are not reached. *)
ContinuePartly(r) ==
    /\ MayFail
    /\ cpc = "pairing"
    /\ ctodo # << >> /\ r = Head(ctodo)
    /\ stack[r] # << >>
    /\ \E S \in SUBSET PairsOf(r) : Pair(r, S)
    /\ ctodo' = Tail(ctodo)
    /\ UNCHANGED <<world, facts, files, deploying, stack, cpc, cenv>>

(* It has been through all roles, or the operator stops it. *)
ContinueEnd ==
    /\ cpc = "pairing"
    /\ ctodo = << >> \/ MayFail
    /\ cpc' = "idle" /\ cenv' = NoLists /\ ctodo' = << >>
    /\ UNCHANGED <<world, facts, files, deploying, stack, occ>>
-----------------------------------------------------------------------------
Scripts == {"deploy", "update-prepare", "playbook"}
Edit ==
    \/ \E r \in Roles, h \in Hosts : AddHost(r, h)
    \/ \E r \in Roles : \E x \in DOMAIN inv[r], h \in Hosts : Reassign(r, x, h)
    \/ \E r \in Roles : RemoveLast(r)
    \/ \E h \in Hosts, a \in Addrs : Move(h, a)
Begin == \E sc \in Scripts, skip \in BOOLEAN, one \in Tagged : Start(sc, skip, one)
Work ==
    \/ Gather \/ GatherFails \/ Render \/ RenderFails \/ EnableSsh \/ ScriptFails
    \/ HeatStart \/ (\E r \in Roles : HeatRole(r)) \/ HeatDone \/ HeatFails \/ End
Continue ==
    \/ ContinueStart
    \/ \E r \in Roles : ContinueRole(r) \/ ContinuePartly(r)
    \/ ContinueEnd
Next == Edit \/ Begin \/ Work \/ Continue
Spec == Init /\ [][Next]_vars

(* What goes wrong from outside: a host that is down, a task, a tool or Heat *)
(* that fails, hosts that are not reached, an operator who stops the script. *)
Failure ==
    \/ GatherFails \/ HeatFails
    \/ RenderFails /\ Renderable(Tasks[task])
    \/ ScriptFails /\ pc = "ssh"
    \/ \E r \in Roles : ContinuePartly(r) /\ ~ContinueRole(r)
    \/ ContinueEnd /\ ctodo # << >>

(* Failures stop at some time; the operator keeps running                    *)
(* overcloud-continue.sh while a deploy waits, as the README asks; and a     *)
(* script that has started goes on.                                          *)
FairSpec ==
    /\ Spec
    /\ WF_vars(Work /\ ~Failure) /\ WF_vars(Continue /\ ~Failure)
    /\ <>[][~Failure]_vars
-----------------------------------------------------------------------------
(* The variables have their types. *)
TypeOK ==
    /\ edits \in 0..MaxEdits
    /\ inv \in [Roles -> Seq(Entry)] /\ loaded \in [Roles -> Seq(Entry)]
    /\ addr \in [Hosts -> Addrs] /\ facts \in [Hosts -> Addrs \union {NoAddr}]
    /\ env \in [Roles -> Seq(Hosts)] /\ cenv \in [Roles -> Seq(Hosts)]
    /\ DOMAIN hostnamemap \subseteq Roles \X Nat
    /\ hostnamemap \in [DOMAIN hostnamemap -> Hosts]
    /\ DOMAIN portmap \subseteq Hosts /\ portmap \in [DOMAIN portmap -> Addrs]
    /\ fencing \subseteq Hosts /\ rolecount \in [Roles -> Nat]
    /\ rendered \subseteq {Tasks[t] : t \in DOMAIN Tasks}
    /\ pc \in {"idle", "gather", "render", "ssh", "udpate", "heat", "update", "done", "failed"}
    /\ script \in Scripts /\ task \in 1..Len(Tasks) /\ only \in 0..Len(Tasks)
    /\ pending \subseteq Roles
    /\ stack \in [Roles -> Seq([host : Hosts \union {NoHost}, addr : Addrs \union {NoAddr}])]
    /\ cpc \in {"idle", "pairing"} /\ ctodo \in Seq(Roles)
    /\ occ \in [Hosts -> (Roles \X Nat) \union {Nobody}]

(* All the files Heat is given were rendered by this run, from the one       *)
(* inventory it loaded: none is left over from a run that failed half way,   *)
(* or from one task run by its tag (set -e in overcloud-deploy.sh).          *)
PlanFromOneLoad ==
    script = "deploy" /\ pc \in {"update", "done"} =>
        plan = [hostnamemap |-> HostnameMapOf(loaded), portmap |-> PortMapOf(loaded, facts),
                fencing |-> FencingOf(loaded), rolecount |-> RoleCountOf(loaded)]

(* A deploy that succeeds made the servers the inventory names: as many of   *)
(* every role, server i being the host with ooo_name i, at the control plane *)
(* address that was gathered from that host.                                 *)
DeployedAsInventoried ==
    script = "deploy" /\ pc = "done" =>
        \A r \in Roles :
            /\ Len(stack[r]) = Len(loaded[r])
            /\ \A x \in DOMAIN loaded[r] :
                  LET e == loaded[r][x]
                  IN  stack[r][e.idx + 1] = [host |-> e.host, addr |-> facts[e.host]]

(* While ooo_names are only added: no host ever polls the metadata of a      *)
(* server that Heat has under another host's name.  It holds although        *)
(* overcloud-continue.sh may use an overcloud-env.sh that is older or newer  *)
(* than the files the stack was made from.                                   *)
PairingSound ==
    \A h \in Hosts, r \in Roles : \A x \in DOMAIN stack[r] :
        occ[h] = <<r, x - 1>> => stack[r][x].host = h

(* While ooo_names are only added: no deploy takes a server away or gives it *)
(* to another host, wherever in the file the new hosts were written.         *)
ServersStay ==
    [][\A r \in Roles : \A x \in DOMAIN stack[r] :
          x \in DOMAIN stack'[r] /\ stack'[r][x].host = stack[r][x].host]_vars

(* With overcloud-continue.sh being run, no deploy waits for ever: it fails  *)
(* by a failure of its own, or completes.  Whatever failed, was run in part  *)
(* or was edited before, each server Heat waits for finds its host.          *)
DeployEnds == script = "deploy" /\ pc = "gather" ~> pc \in {"done", "failed"}
=============================================================================
