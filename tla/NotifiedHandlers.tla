-------------------------- MODULE NotifiedHandlers --------------------------
(***************************************************************************)
(* The plays that change a file on a host and have a handler load it:      *)
(* keystone is restarted when its configuration was patched, filebeat when *)
(* its configuration was synchronised, systemd reloaded when a unit was    *)
(* copied, files relabelled when they were written.  Ansible runs the      *)
(* handlers at the end of a play, or where it flushes them; a host on      *)
(* which a task failed is out of the play and runs none.  Hosts do not     *)
(* affect each other, so there is one.                                     *)
(***************************************************************************)
EXTENDS Integers, Sequences

CONSTANTS
    None,        \* no handler, no play
    MaxEdits,    \* bound: how often the repository's files are edited
    MaxResets,   \* bound: how often an overcloud deploy writes keystone's files
    Used         \* the plays that are run

(* A task installs files and notifies a handler if one of them changed, runs *)
(* the handlers that are notified, or starts what has the files: docker      *)
(* reads them then, systemd has read them before.                            *)
Install(files, handler) == [do |-> "install", files |-> files, handler |-> handler]
Flush == [do |-> "flush", files |-> {}, handler |-> None]
StartUnits(files) == [do |-> "start-unit", files |-> files, handler |-> None]
StartContainer(files) == [do |-> "start-container", files |-> files, handler |-> None]

Units == {"containerized-libvirt-guests.service", "virt-guest-shutdown.target"}
LibvirtGuests_NoFlush ==  \* slip: no flush before the units are started
    <<Install(Units, "reload-systemd"), Install({"libvirt-guests"}, None), StartUnits(Units)>>
LibvirtGuests ==
    <<Install(Units, "reload-systemd"), Install({"libvirt-guests"}, None), Flush, StartUnits(Units)>>
KeystoneFiles == {"keystone", "puppet-generated-keystone"}
PatchKeystone == <<Install(KeystoneFiles, "restart-keystone")>>
Filebeat == <<Install({"filebeat"}, "restart-filebeat"), StartContainer({"filebeat"})>>
PrepareHost == <<Install({"sudoers.d-stack"}, "relabel-etc-files")>>
PrepareOvercloud == <<Install({"moc.repo"}, "relabel-etc-files")>>
Plays ==
    [guests |-> LibvirtGuests, keystone |-> PatchKeystone, filebeat |-> Filebeat,
     host |-> PrepareHost, overcloud |-> PrepareOvercloud]

Tasks(p) == {Plays[p][t] : t \in DOMAIN Plays[p]}
FilesOf(p) == UNION {t.files : t \in Tasks(p)}
Files == UNION {FilesOf(p) : p \in Used}
(* What the handlers load: restorecon is given all of /etc. *)
LoadedBy(hs) == UNION {t.files : t \in {u \in UNION {Tasks(p) : p \in Used} : u.handler \in hs}}
Handlers == {"reload-systemd", "restart-keystone", "restart-filebeat",
             "relabel-etc-files"}

ASSUME UsedAssumption == Used \subseteq DOMAIN Plays /\ None \notin Used \union Handlers
ASSUME BoundAssumption == MaxEdits \in Nat /\ MaxResets \in Nat

VARIABLES
    want,      \* version of each file in the repository
    have,      \* version on the host, 0 for what is there without the play
    loaded,    \* version its reader has loaded, 0 for none
    up,        \* the plays whose units or container are started
    play, task, pc,  \* the play that is run, its next task, and whether it is running
    notified,  \* handlers to run
    edits, resets,
    orphaned   \* observed: files that changed in a play that failed before the handler

vars == <<want, have, loaded, up, play, task, pc, notified, edits, resets, orphaned>>
-----------------------------------------------------------------------------
Init ==
    /\ want = [f \in Files |-> 1] /\ have = [f \in Files |-> 0]
    /\ loaded = [f \in Files |-> 0] /\ up = {}
    /\ play = None /\ task = 1 /\ pc = "idle" /\ notified = {}
    /\ edits = 0 /\ resets = 0 /\ orphaned = {}

Edit(f) ==
    /\ pc = "idle" /\ edits < MaxEdits /\ edits' = edits + 1
    /\ want' = [want EXCEPT ![f] = @ + 1]
    /\ UNCHANGED <<have, loaded, up, play, task, pc, notified, resets, orphaned>>

(* An overcloud deploy writes the configuration of keystone and restarts it. *)
Redeploy ==
    /\ pc = "idle" /\ resets < MaxResets /\ resets' = resets + 1
    /\ have' = [f \in Files |-> IF f \in KeystoneFiles THEN 0 ELSE have[f]]
    /\ loaded' = [f \in Files |-> IF f \in KeystoneFiles THEN 0 ELSE loaded[f]]
    /\ orphaned' = orphaned \ KeystoneFiles
    /\ UNCHANGED <<want, up, play, task, pc, notified, edits>>

(* Someone stops what a play has started; systemd keeps the unit it has loaded. *)
Stop(p) ==
    /\ pc = "idle" /\ p \in up
    /\ up' = up \ {p}
    /\ UNCHANGED <<want, have, loaded, play, task, pc, notified, edits, resets, orphaned>>

Begin(p) ==
    /\ pc = "idle"
    /\ play' = p /\ task' = 1 /\ pc' = "tasks" /\ notified' = {}
    /\ UNCHANGED <<want, have, loaded, up, edits, resets, orphaned>>

Current == Plays[play][task]
Advance_PastEnd ==  \* slip: one task too many
    IF task <= Len(Plays[play]) THEN task' = task + 1 /\ pc' = "tasks"
    ELSE task' = task /\ pc' = "handlers"
Advance == IF task < Len(Plays[play]) THEN task' = task + 1 /\ pc' = "tasks"
           ELSE task' = task /\ pc' = "handlers"
Update(S) == have' = [f \in Files |-> IF f \in S THEN want[f] ELSE have[f]]
Load(S) == loaded' = [f \in Files |-> IF f \in S THEN have[f] ELSE loaded[f]]
Outdated == {f \in Current.files : have[f] # want[f]}

InstallFiles_FirstOnly ==  \* slip: only the first item of the loop counts
    /\ pc = "tasks" /\ Current.do = "install"
    /\ Update(Outdated)
    /\ LET first == CHOOSE f \in Current.files : TRUE
       IN  notified' = IF first \in Outdated THEN notified \union ({Current.handler} \ {None})
                       ELSE notified
    /\ Advance
    /\ UNCHANGED <<want, loaded, up, play, edits, resets, orphaned>>
(* copy, template, synchronize and patch: what is there already is no change. *)
InstallFiles ==
    /\ pc = "tasks" /\ Current.do = "install"
    /\ Update(Outdated)
    /\ notified' = IF Outdated # {} THEN notified \union ({Current.handler} \ {None}) ELSE notified
    /\ Advance
    /\ UNCHANGED <<want, loaded, up, play, edits, resets, orphaned>>

(* The handlers run, each once, at the flush or at the end of the play. *)
Handle(h) ==
    /\ h \in notified
    /\ pc = "handlers" \/ (pc = "tasks" /\ Current.do = "flush")
    /\ Load(LoadedBy({h}))
    /\ notified' = notified \ {h}
    /\ orphaned' = orphaned \ LoadedBy({h})
    /\ UNCHANGED <<want, have, up, play, task, pc, edits, resets>>
Flushed ==
    /\ pc = "tasks" /\ Current.do = "flush" /\ notified = {}
    /\ Advance
    /\ UNCHANGED <<want, have, loaded, up, play, notified, edits, resets, orphaned>>

(* state: started.  Started already, it keeps what it has loaded.            *)
StartService ==
    /\ pc = "tasks" /\ Current.do \in {"start-unit", "start-container"}
    /\ IF play \in up THEN loaded' = loaded
       ELSE Load({f \in Current.files : Current.do = "start-container" \/ loaded[f] = 0})
    /\ up' = up \union {play}
    /\ Advance
    /\ UNCHANGED <<want, have, play, notified, edits, resets, orphaned>>

Finish ==
    /\ pc = "handlers" /\ notified = {}
    /\ pc' = "done"
    /\ UNCHANGED <<want, have, loaded, up, play, task, notified, edits, resets, orphaned>>

(* A task or a handler fails, the files of the task written or not: nothing  *)
(* is notified for the task, and what was notified before is forgotten.      *)
Fail ==
    /\ pc \in {"tasks", "handlers"}
    /\ \E S \in SUBSET (IF Current.do = "install" /\ pc = "tasks" THEN Outdated ELSE {}) :
          /\ Update(S)
          /\ orphaned' = orphaned \union S \union (LoadedBy(notified) \intersect FilesOf(play))
    /\ notified' = {}
    /\ pc' = "failed"
    /\ UNCHANGED <<want, loaded, up, play, task, edits, resets>>

End ==
    /\ pc \in {"done", "failed"}
    /\ pc' = "idle" /\ play' = None /\ task' = 1
    /\ UNCHANGED <<want, have, loaded, up, notified, edits, resets, orphaned>>

Next ==
    \/ (\E f \in Files : Edit(f)) \/ Redeploy \/ (\E p \in Used : Stop(p) \/ Begin(p))
    \/ InstallFiles \/ (\E h \in Handlers : Handle(h)) \/ Flushed \/ StartService
    \/ Finish \/ Fail \/ End
Spec == Init /\ [][Next]_vars
-----------------------------------------------------------------------------
(* The variables have their types. *)
TypeOK ==
    /\ want \in [Files -> 1..(1 + MaxEdits)]
    /\ have \in [Files -> 0..(1 + MaxEdits)] /\ loaded \in [Files -> 0..(1 + MaxEdits)]
    /\ up \subseteq Used
    /\ IF pc = "idle" THEN play = None ELSE play \in Used /\ task \in DOMAIN Plays[play]
    /\ pc \in {"idle", "tasks", "handlers", "done", "failed"}
    /\ notified \subseteq Handlers /\ edits \in 0..MaxEdits /\ resets \in 0..MaxResets
    /\ orphaned \subseteq Files

(* After a play ended well the host has its files, and their readers have    *)
(* loaded them; except a file that changed in an earlier play, which failed  *)
(* before the handler ran: no later play notifies the handler for it.        *)
AppliedUnlessOrphaned ==
    pc = "done" => \A f \in FilesOf(play) :
        /\ have[f] = want[f]
        /\ f \in LoadedBy(Handlers) => loaded[f] = have[f] \/ f \in orphaned

(* A unit or container is started with the files the play has just written,  *)
(* not with what was loaded before them.                                     *)
StartedFresh ==
    [][\A p \in Used : p \in up' \ up =>
          \A f \in FilesOf(p) \intersect LoadedBy(Handlers) :
              loaded'[f] = have[f] \/ f \in orphaned]_vars
=============================================================================
