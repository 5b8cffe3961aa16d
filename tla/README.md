# Verification of rhosp-director-config

TLA+ models of the scripts and playbooks with which the MOC deploys and runs
its Red Hat OpenStack Platform cloud, and of the scripts that
filebeat runs on its log events, the TLC runs that check them on small
instances, and proofs of the most important results for every size. Paths
below are relative to the root of the repository.

The repository is a collection of short programs (shell, Python, Ansible,
make) with no process that runs all the time. What is hard about it is not in
any one of them. It is in what they leave to each other: files that one
writes and another reads days later, an order of hosts two files have to
agree on, runs that fail half way and are started again, a person who edits
files between two runs or during one, and Heat and the hosts waiting for each
other while all this happens. The models are about that.

## 1. The system

### 1.1 Components

| component | code | state it keeps | operations |
|---|---|---|---|
| address allocation | `scripts/allocate-new-ips.py` | `templates/use_fixed_ips.yaml` (through the operator, who installs its output) | extend the compute role's address lists by `-c` hosts |
| deploy pipeline | `overcloud-deploy.sh`, `overcloud-update-prepare.sh`, `playbooks/deploy.yml`, role `deploy-config`, `hostname_sort.py`, `overcloud-continue.sh`, the inventory | fact cache, seven rendered files, the Heat stack, the agents on the hosts | gather, render, deploy, pair the hosts with servers |
| hotfix play | `hotfix/hotfix-1678197*.yml` | containers of the network hosts | replace each by a patched one, host by host |
| image preparation | `overcloud-prep.sh`, `scripts/build-images`, `patches/docker/` | lists of images, the undercloud's registry, `templates/overcloud_images.yaml` | prepare, upload, patch, push, write the deploy's file |
| files and handlers | roles `patch_keystone`, `filebeat`, `bug/1647828-libvirt-guests`, `all-prep`, `mocrepo`, `selinux_relabel` | files on a host, what a running service has loaded of them | install, notify, restart or reload |
| overcloud resources | `playbooks/create-overcloud-resources.yml` and its six roles | resources of the cloud | ask whether it is there, create what is not |
| roles | `Makefile.devel`, `scripts/merge-roles.py` | `roles/*DeployedServer.yaml`, `roles_data.yaml` and their times | merge role files, generate |
| filebeat scripts | `config/pipeline.js` of the filesets `googlecloud/firewall`, `googlecloud/vpcflow`, `googlecloud/audit`, `cisco/ios`, `misp/threat` below `playbooks/roles/filebeat/files/filebeat/module/` | the event they are called with; none between events | a chain of steps, each of which renames, converts, adds or drops fields |
| predeploy | `playbooks/predeploy.yml` and its roles | packages, keys, a clone, users on the hosts | prepare undercloud and hosts |
| deploy arguments | `overcloud-deploy-args.sh`, `templates/` | none (constant) | list the environment files in order |
| Foreman, power | `playbooks-management/`, `foreman/` | a build flag, the power state | create, rebuild, reset a host |
| undercloud installation | `undercloud-install.sh`, `undercloud.conf` | ports of br-ctlplane | install, move the port |
| octavia-ca | `octavia-ca/playbook.yml` | certificates on the controllers | issue, copy |
| log_martians, SELinux policies, sahara | roles | kernel settings, policies, routes | set, compile, install |
| credentials, IPMI hosts, restart and wipe scripts, seed, tests | `playbooks/fetch-*.yml`, `scripts/restart-*`, `seed/`, `infra-tests/` | none of their own | render, one command, read |

### 1.2 How they interact

- *By files.* The inventory is read by the deploy pipeline; its `ooo_name`s
  become the names in `hostnamemap.yaml`, its order becomes, through
  `hostname_sort`, the order in `overcloud-env.sh`. `use_fixed_ips.yaml`,
  `roles_data.yaml` and `overcloud_images.yaml` are written by the three
  tools above and go to Heat with the rendered files.
- *By waiting.* `openstack overcloud deploy` waits until a host polls the
  metadata of each server it made. The hosts are told which server they are
  by `overcloud-continue.sh`, a second script a person starts while the
  first waits, and which in turn waits for Heat to have the role's servers.
- *By the operator.* One person edits, runs, reads the error and runs again.
  No script locks anything, keeps a journal or takes back what it did:
  repetition is the only recovery there is. So most properties below are
  about a run that follows failed ones.
- *By a chain.* The role `filebeat` copies filebeat's modules to the hosts (the
  role's files disable the modules of the five scripts until someone enables
  them). There the steps of a script pass one event on: each
  reads what the earlier ones have left of it, under the names they gave.
- *By notification.* A task that changes a file on a host notifies a handler,
  within one play.

### 1.3 What is hard, and what correct means

For each component the behaviours that a test would hardly reach, and what
has to hold in spite of them. `PROJECT.json` lists them one by one ("hazards")
with the line of the code.

- **Address allocation.** Addresses are found free by scanning the file for
  used ones, under other keys, other roles and wrong networks; the loop ends
  by a counter that is decremented before it is tested; the third network
  may run out after two were extended. *No address is given out twice, over
  any sequence of runs and edits; all networks are extended alike, or none;
  the lowest free addresses are taken; the script ends, and its error is true.*
- **Deploy pipeline.** Two files order the hosts in two ways; files of
  different runs can be mixed by a run that fails or by `--tags`; the
  inventory is edited while Heat waits. *A host only ever polls the metadata
  of its own server; no server is renamed or lost while hosts are only
  added; Heat is given files of one rendering; a deploy completes.*
- **Hotfix.** A task may fail after each container, and the play is run again;
  what it finds it judges by a label alone. *At most one service is out for want
  of a new container, and a run takes out at most one more, whatever failed
  before; a run that ends well has replaced everything; what is replaced is not
  restarted.*
- **Images.** `overcloud-prep.sh` goes on after an error. *A deploy is pointed
  at patched images, made of what was prepared, that the registry has.*
- **Handlers.** Notifications live as long as a play on a host; a failure
  loses them, while the changed file stays. *After a play that ended well a
  service runs with the files it has.*
- **Resources.** "Is it there" and "create it" are two tasks apart, any
  failure of the first counts as a no, and a loop creates some items before
  one fails. *A run that ends well has made everything; whatever was left
  half made, the next undisturbed run succeeds.*
- **Roles.** make decides by times, files are edited while it works, and an
  output is emptied when it is opened. *`roles_data.yaml` says what role files
  and arguments say, but for what make cannot see.*
- **filebeat scripts.** A step that reads a field an earlier one has moved
  does nothing and reports nothing; a step that throws ends the script, and
  the event goes out as it is by then; numbers come as numbers or as text, and
  addresses may be names. *What is published agrees with the entry it was
  made of: the ends, the flow's id, the outcome, the severity, the pattern;
  whatever throws, what the entry said is not lost, and a script throws only on
  what it cannot read.*

## 2. Modules

One module per component; `MC...` modules give constants that a
configuration cannot write. In every module a definition with the comment
`slip:` is a plausible mistake in the code, of the same shape as the
definition that follows it; nothing refers to it. With the slip in place of
that definition TLC finds the property violated that the mistake breaks: that
is how the properties were tested.

| module | models | abstract specification |
|---|---|---|
| `AllocateIPs`, `MCAllocateIPs` | address allocation | `IPPool` |
| `OvercloudDeploy`, `MCOvercloudDeploy` | deploy pipeline, Heat and agents as far as the scripts rely on them | |
| `RollingHotfix` | hotfix play | `RollingUpgrade` |
| `ImagePrep`, `MCImagePrep` | image preparation | |
| `NotifiedHandlers` | five plays that install files | |
| `CloudResources`, `MCCloudResources` | overcloud resources | |
| `RolesBuild`, `MCRolesBuild` | roles | |
| `BeatEvent`, `ScriptProcessor` | events, and what libbeat offers to scripts (external) | |
| `GooglecloudFirewall`, `GooglecloudVpcflow` (with `VpcEnds`), `GooglecloudAudit`, `CiscoIos`, `MispThreat` | one filebeat script each | |
| `FilebeatModules`, `MCFilebeatModules` | filebeat with the five scripts; states the properties | |
| `AllocateIPsProofs`, `OvercloudDeployProofs`, `RollingHotfixProofs`, `NotifiedHandlersProofs`, `CloudResourcesProofs`, `ImagePrepProofs`, `RolesBuildProofs`, `FilebeatModulesProofs` | theorems | |

### 2.1 AllocateIPs

`vips` and `ips` are the file; the other variables are the locals of `main()`.
`Start` is the load and `find_existing_ips`, `LoadFails` its two exceptions.
The inner loop is stepped through host by host: `PassOver` is a turn that
takes nothing, `Take` one that does (with `NextNetwork` for its `break`),
`TakeFails` its KeyError and TypeError, `RanOut` the loop's `else`. `Install`
and `Discard` are the operator's, as are the edits between runs, `SetVips`
and `RetireCompute`. An address is a network and an index in its `hosts()`. A
list may hold an address of any network, because the script sorts addresses
by CIDR; of a list-valued key only the first element is read, as in the code.
The arithmetic of CIDRs is left to Python's `ipaddress`.

`IPPool` says what an extension promises: as a whole or not at all, alike in
all networks, of unused addresses only. `PoolSpec` instantiates it with the
compute role's lists as `held` and everything else in the file as `others`.

### 2.2 OvercloudDeploy

The inventory (`inv`) is for each role the list of hosts in file order, each
with the number its `ooo_name` ends in. `Start` reads it once (`loaded`), as
Ansible does; `Gather` fills the fact cache, `Render` is one task of
`deploy-config` and writes one file, `EnableSsh`, `HeatStart` and the rest
follow `overcloud-deploy.sh`. `overcloud-update-prepare.sh` goes the same way
until its misspelt `udpate`, and `playbook` is `ansible-playbook deploy.yml`
by hand, with `--tags` or `-e skip_facts`. `HeatRole` is external: it makes
server *i* of a role with the name and port the files map for it.
`ContinueRole` is `get-occ-config.sh` for one role, from the host list it
sourced when it started. Hosts may move, tasks, hosts and Heat may fail, and
`AddHost`, `Reassign`, `RemoveLast` edit the inventory at any moment.

`hostname_sort` is modelled as what a stable sort by number does; the model
assumes what `production.yml` does, that names of a role are numbered from 0
without gaps (`Sound`).

### 2.3 RollingHotfix

`cont` is the container that has the name, `copy` whether there is another
(paunch gives it another name if the name is taken). `Inspect`, `Remove` and
`Run` are the three tasks, each with its failing twin: inspection fails for a
missing container, a failing remove is ignored, a failing start is fatal for
all hosts (`any_errors_fatal`). A start that fails may have made nothing, a
container that works, or one with the new image that does not run (`Breaks`,
`broken`). The next run looks at the label, which such a container has
(`Labelled`), and passes it over: it stays out while the next service goes
out. So `OneServiceOut` says less than one might wish: at most one service is
out without a new container (`Missing`), and no more are out (`Out`) than
there were runs. `Redeploy` is an overcloud deploy between two runs.
`RollingUpgrade` knows only which services are upgraded, which are out, which
have a replacement that does not work, and whether the upgrade has halted;
`UpgradeSpec` maps `Replaced`, `Missing`, `Broken` and `Halted` to them.

### 2.4 ImagePrep

One action per command of `overcloud-prep.sh` and per step of
`build-images`, also when it is run by hand with image names, `--push`,
`--output` and `--force-revision`. A name has the parts that decide which
image it is: server, image, revision, build; `NewName` loses the build, and a
name with no revision is not parsed, both as the regular expression has it.
Upstream releases may appear between any two commands. The assumptions on the
constants are facts of `patches/docker/docker_images.yaml` and of the labels: no
parameter is given to two patched images (`ReplaceAssumption`), and what
`--force-revision` is given is a revision (`ReleaseAssumption`).

### 2.5 NotifiedHandlers

A play is a sequence of tasks that install files, flush, or start a unit or
container; `have` is what the host has of a file, `loaded` what its reader
has read. Handlers run at the end or at a flush, and a failure forgets
`notified`. Hosts do not influence each other, so there is one. Ansible's own
rules (order, changed, end of play) are external. `orphaned` records the
files that a failed play changed and whose handler was lost: the gap in the
code is stated by it and not hidden. Handlers are named as in the code, with a
hyphen for a blank.

### 2.6 CloudResources

A role is the sequence of its tasks, each a loop over items: *look* (a module
asks), *show* (the client asks and `failed_when: false` makes any failure a
no), *create* for what was missing, *ensure* (a module that asks and creates
by itself). A loop goes on after a failed item, and the play stops at the end
of that task. Calls fail or lose their answer, operators delete, two people
run the playbook. All lists have the same length, a network has one subnet,
no flavor is left out by `-e only_flavor` or `-e flavor_filter`,
and a resource is there or not: what it was configured with is not modelled.

### 2.7 RolesBuild

`OutOfDate` is make's rule, `ReadFile` and `Write` are `merge-roles.py`, with
`uniqify`, `sorted` and `extraconfig` as functions on sequences; `Generate` is
`openstack overcloud roles generate`, `Clean` the target `clean`. Both tools
open their output before they write it, and the makefile has no
`.DELETE_ON_ERROR`: when one fails (`WriteFails`, `GenerateFails`) the file may
stay, torn and newer than what it is made of. What a list
names is a number, since names are only compared; an element of the result
stands where the number of those before it says, so that neither function needs
recursion. A file that is missing (`Absent`) or was not written to its end
(`Torn`) is a content of its own. `IsMerged` says what the result has to
be by sets and order only, without the steps of the script. `behind` names the
roles for which make has no way to see that they are stale, and
`roles_data.yaml` while it is torn and make takes it for up to date; then, and
only then, a make that ends well may leave it so (`CurrentUnlessBehind`).

### 2.8 The filebeat scripts

An event is a function from paths to values, so that the names of fields are
those of the code; a value says whether it is a text, a number, an object, a
list or, for a message that is taken apart later, its structure. `BeatEvent`
has the operations of libbeat as the scripts rely on them: `Convert` looks at
all its fields before it writes any, and either throws or leaves out those that
fail; in mode rename it writes the new field and then deletes the old one; an
object is moved with what it holds at that moment; `Rename` and `Dissect` do not
overwrite; nothing is appended for a missing field; a flow has an id when
both addresses and the transport are there, the transport is a number or a
name libbeat knows (`Protocols`), and, for TCP, UDP and SCTP, both ports are
there. The type and code of an ICMP message are part of the id and not needed
for it. libbeat is not in the repository, so these are assumptions; that any
number will do agrees with `cisco/ios/pipeline_test.go:132-147`, which expects
an id for protocol 0 without ports. Numbers of protocols are taken to be of
eight bits.

`ScriptProcessor` is the chain: `at` is the next step, and `Step` applies it.
Each script module has one action per step, with the step's name; where the code
gives a step no name (in `cisco/ios`) the action is named after what it does. The
fields a log entry may have and no step treats differently are left out:
continent, region and city of a location go where country goes. In `MispThreat`
an attack pattern is the list of its comparisons, and its two spellings, which
the code writes side by side, are one value. `VpcEnds` is the part that the
code of `firewall` and `vpcflow` repeats.

`FilebeatModules` gives events to the scripts one after the other
(`Receive`, the script's actions, `Publish`). Its properties compare the event
with `input`, the entry as it came. `EntryKept` asks of a googlecloud script
that threw that what is under `json` is the document, or its payload, field by
field. Once the payload is under the names of the dataset it asks for those to
be there, not for each field: where the fields went that decide something is
what `EndsAsReported`, `AddressesRelated` and `OutcomeAgrees` say of events that
went through.

## 3. Runs

| run | shows | bounds |
|---|---|---|
| `allocate` | no address twice, networks alike, lowest free, a true error, termination, implements `IPPool` | 3 networks of which 2 are extended, 5 hosts with 1 skipped, 2 roles, 1 list of virtual addresses, 5 files (usual, misplaced address, list, role or element missing), counts -1 to 3 and none |
| `allocate_vip_list` | violation: with two virtual addresses under a key the second is given to a node | as above, lists of up to 2 |
| `deploy_append_only` | hosts are paired with their own servers and servers stay, while names are only added; every deploy ends, once failures do | 2 roles, 4 hosts, 2 edits, all scripts, single tasks 1, 2 and 5; any task, host or server may fail |
| `deploy_reassign` | Heat is given one rendering and makes what the inventory says, also when names are moved or taken away and a host changes its address | 3 hosts of which one has 2 addresses, 2 edits or moves |
| `hotfix` | one service without a new container, one more out per run, complete, nothing restarted, implements `RollingUpgrade` | 2 hosts, 3 replacements, 3 runs, 1 deploy between |
| `image_prep` | patched images in the registry, file written last | 2 images, 4 parameters, 3 releases, 2 versions of patches, 2 runs |
| `image_prep_stored` | violation: images not stored although the script ended well | as above |
| `handlers` | files applied, started fresh | 5 plays, 1 edit, 1 deploy that rewrites keystone's files |
| `resources` | everything made, a retry succeeds | 2 runners (symmetric), 3 begins, lists of 2, 1 deletion; `volume_types`, or the roles `images`, `external_networks` and `keystone_endpoint_ec2_compat` in a row |
| `roles` | `roles_data.yaml` is current | 2 custom roles of 2 and 1 files, 2 edits, 2 makes or `make clean`s |
| `filebeat` | what the five scripts publish agrees with the entry, also when they throw | firewall: every direction and disposition with every combination of known and unknown ends, 8 protocols (known, unknown, with and without ports), 4 kinds of source and 3 of destination address, 3 kinds of port; vpcflow alike with 3 reporters; audit: 3 statuses, 6 lists, 3 callers; cisco: 9 codes, each with the protocols it is written for and some without ports, 2 inputs, bad bodies, numbers, headers; misp: all 22 types, an unknown and none, 7 values; every googlecloud entry with and without `keep_original_message`; JSON, time or payload that cannot be read |
| `filebeat_cloud` | violation: `setCloudMetadata` of firewall sets nothing | as above |

Why the bounds suffice for the cases of interest: three runs of the hotfix are
a failure, a failing repetition and a good run; two edits let the files, the
stack and the agents be of three different inventories; five hosts with one
skipped have room for a gap, a used address, running out in the second network
and success. Two runners with three begins give two concurrent runs and a
repetition. Two images and two runs of the preparation give files of different
age. The scripts keep nothing from one event to the next, so one event at a
time is enough, and each branch of each step is taken by some entry.
`CHECK_DEADLOCK FALSE` stands where the bound on runs or edits is what
stops the model, or where nobody has to start a run: all programs here end. In
`allocate`, `deploy_*`, `handlers` and `filebeat` the operator can always go on and
deadlock is checked.

### 3.1 Fairness

- `AllocateIPs`: `WF(Loop)`: a script that was started goes on. Starting it,
  installing and editing are the operator's and have none.
- `OvercloudDeploy`: `FairSpec`. `WF(Work /\ ~Failure)` for the deploying script
  and Heat: a task that can go on does. `WF(Continue /\ ~Failure)` because
  README.md ("overcloud-continue.sh") makes running that script part of a
  deploy: without it Heat waits for ever. `<>[][~Failure]_vars`: tasks and hosts
  may fail any number of times, but not for ever; a person repeats what failed.
  `DeployEnds` says that a deploy that was started is then done or failed,
  though inventory and addresses may change meanwhile: nobody waits for ever.
- Everything else is safety: a failed script waits for a person, and no
  behaviour of a person is assumed.

### 3.2 Disagreements found

1. `scripts/allocate-new-ips.py:39` reads the first address of a list-valued
   parameter, while the comment at line 36 speaks of the list of vips
   (`allocate_vip_list`). The lists in the repository have one element each.
2. `overcloud-prep.sh` has no `set -e`: a failed or partial upload is followed
   by a build from what there is, and the script ends well, while README.md
   says that it stores all the necessary images (`image_prep_stored`).
3. `googlecloud/firewall/config/pipeline.js:259` chooses the branch of
   `setCloudMetadata` by `json.rule_details.direction`, and line 232 has moved
   `json` away: no cloud field is ever set (`filebeat_cloud`). vpcflow's step
   of that name works, and says at line 148 what it is for.

Read and not run: README.md names files that are gone (`credentials.yaml.in`,
`templates/postconfig.yaml`, the packaging of patched puppet modules); the
hotfix play is for the hosts `network` where the inventory says `networker`; a
count of zero or less makes `allocate-new-ips.py` use up the network and report
that it ran out of addresses; `disabled: true` in the inventory is read by
nothing; `scripts/build-images` parses and checks `--force-revision` (line 84)
and never uses it; the hotfix play passes over a new container that was made
and does not start (`hotfix-1678197-replace.yml:7`), and takes out the next
service; a failing `roles generate` (`Makefile.devel:29`) leaves a torn
`roles_data.yaml` that the next make takes for up to date. In the filebeat
scripts: firewall and vpcflow read `cloud.instance.name` from a `vm_name` that
has been moved to the end's domain; the audit script throws on an entry without
`authorizationInfo` and leaves it without an outcome; `cisco/ios` has no IPv6
twin of `IPACCESSLOGRP`; for an indicator without a value `misp/threat`
publishes a pattern that compares with the text `null`, or throws, depending on
the type.

## 4. Proofs

TLC checks the instances above; the theorems hold for every value of the
constants that the `ASSUME`s of the modules allow.

| module | theorem | says |
|---|---|---|
| `AllocateIPsProofs` | `TypeCorrect` | `Spec => []TypeOK` |
| | `NoAddressTwice` | `Spec => []NoDoubleAllocation`, if `MaxVipLen = 1` |
| | `ListsGrowAlike` | `Spec => []ExtendedAlike` |
| | `TakesLowestFree`, `RanOutIsTrue` | `Spec => []LowestFree` and `Spec => []RanOutMeansShort`, if `MaxVipLen = 1` |
| | `ImplementsPool` | `Spec => PoolSpec`, if `MaxVipLen = 1` |
| `OvercloudDeployProofs` | `SortedByName` | with names numbered without gaps `hostname_sort` puts host *i* at place *i* |
| | `HostsPairedRight` | `Spec => []PairingSound`, if `MayReassign = FALSE` |
| | `ServersKept` | `Spec => ServersStay`, if `MayReassign = FALSE` |
| | `FilesOfOneLoad` | `Spec => []PlanFromOneLoad` |
| | `TypeCorrect` | `Spec => []TypeOK` |
| | `MadeAsInventoried` | `Spec => []DeployedAsInventoried` |
| `RollingHotfixProofs` | `TypeCorrect`, `AtMostOneOut`, `DoneReplaced`, `LeftAlone` | the four properties of the run `hotfix` |
| | `ImplementsRollingUpgrade` | `Spec => UpgradeSpec` |
| `NotifiedHandlersProofs` | `TypeCorrect`, `AppliedOrOrphaned`, `StartsFresh` | the three properties of the run `handlers` |
| `CloudResourcesProofs` | `TypeCorrect`, `EndsComplete`, `RunsAgain` | the three properties of the run `resources`, for `Selections` that consist of whole roles |
| `ImagePrepProofs` | `TypeCorrect`, `PatchesReachDeploy`, `CleanRunStores`, `WrittenAfterPush` | the four properties of the run `image_prep` |
| `RolesBuildProofs` | `NewRoleMerged` | what `merge-roles.py` makes of its sources is what `IsMerged` asks for |
| | `TypeCorrect`, `MergedUnlessBehind` | the two properties of the run `roles` |
| `FilebeatModulesProofs` | `EventInvariant` | `Spec => []Holds`, the invariant of what a script has made of an event before each of its steps |
| | `EntryIsKept` | `Spec => []EntryKept` |
| | `IsReplacedCleanly` | `Spec => []ReplacedCleanly` |
| | `CategorisedIsConverted` | `Spec => []CategorisedMeansConverted` |
| | `OutcomeIsRight` | `Spec => []OutcomeAgrees` |
| | `ThrowsOnlyForCause` | `Spec => []ThrowsForCause` |

**Addresses.** `NoDoubleAllocation` speaks of the file and of a printed
output, and says nothing of a run that is half way; so it is not inductive.
`Inv` adds `ShortVips` (one address per key) and, for a run in progress,
`RunInv`: everything the file uses is in `allocated` (`Known`); the run's
lists begin with those of the file (`KeepsOld`); and the addresses behind
those are of the network being extended, in `allocated`, pairwise different
and not in the file (`NewIsFresh`). `Take` keeps it because it
appends an address that was not in `allocated`. `OutputClean` is the step
from `RunInv` to the property. `MaxVipLen = 1` is what the violation run
shows to be needed.

That networks are extended alike needs no such assumption. `GrownInv` counts:
a network behind the current one has grown by `count`, one ahead by nothing,
and the current one by `count - i`, `i` being the counter of the inner loop. For
the lowest free addresses the cursor has to be tied to what was taken. By
`ScanInv` the new addresses of the current network are exactly the free ones
below the cursor, and a network that is done was scanned up to some host
(`LowestTaken`), so that what was taken is a lower end of what was free; with
the count from `GrownInv` that is `LowestFree`. When the loop runs out, the free
addresses are all below the end of the network, so fewer than asked for
(`EndMeansShort`): the message is true. `ImplementsPool` maps the file to the
pool: only `Install` is a step of it, and takes its `Extend` from `ExtendedAlike`
and the freshness in `RunInv` (`InstallExtends`); `RetireCompute` is its
`Retire` (`RetireShortens`), and an edit of the virtual addresses changes only
what others hold.

**Pairing.** Three copies of the order of hosts are of different ages: the
list `overcloud-continue.sh` sourced, the names in the stack, and what the
agents were told. The assumption is that names are only added
(`MayReassign = FALSE`); the idea is that then every old copy agrees with the
present inventory. `Agrees(r, i, h)` says that the inventory has host *h* as
number *i* of role *r*. `Inv` says that `env`, `cenv`, the loaded inventory,
the stack and `occ` all agree, and that each file rendered so far is the one
the loaded inventory gives (`RenderInv`: needed, since Heat reads files, and
a run with `--tags` writes only one). Edits keep `Agrees` (`AddKeeps`,
`NamesStay`); rendering establishes it by `SortedByName` (`EnvAgrees`,
`MapAgrees`). Two hosts that agree with one name are the same (`OneHost`): if
agent and stack agree with the inventory, they agree with each other. That
`hostname_sort` works at all rests on `DenseRank`, a counting argument: as
many names come before name *i* as there are numbers below *i*.

**Plan.** `PlanFromOneLoad` speaks of the moment Heat has the files;
`OneLoad` follows them there: the files of the tasks before the current one
are of the loaded inventory and the gathered facts (`RenderedTo`), only a run
of the playbook alone skips tasks, and no task gathers again. It needs nothing
of edits, since the templates read what was loaded. `UpdatedInv` says that the
roles Heat has been through are as planned. The servers are then those of the
inventory because a name of a dense role has one host (`ServerAsInventoried`).
That what was loaded is dense at all, though names are moved and hosts taken
away between and during runs, is part of the type invariant `WellTyped`: a host
that takes over a name leaves the names as they are (`ReassignKeeps`), and of a
role only the last name goes (`RemoveKeeps`). `TypeOK` needs it, since a file
rendered from names with a gap would not be of its type.

**Hotfix.** `OutInv` (every slot before one that is missing is replaced) is
what makes the missing one unique, since two would each have to be before the
other; `TaskInv` ties the task to the container it is at; `PassedInv` says that
a run has replaced everything it has passed. `CountInv` counts the broken
ones: a run that goes on, or one that left a service missing, has broken none
yet, so that with the missing one there are no more out than runs.

**Handlers.** The property holds at the end of a play, so the invariant has to
follow every file there. `Written`: the files of the tasks that are behind are
on the host. `Accounted`: a file that has a reader and is not loaded is either
orphaned or `Pending`, that is, of the play that runs and with a handler
notified. `StartInv`: nothing is notified when units are started, which is
what the flush is for. That no file is installed by tasks with different
handlers (`OneHandler`) is a fact about the plays as they are; a play that
installed a file another one notifies for would break the proof there.

**Resources.** `Position` ties `todo` to a place in what was selected.
`Made`: all items of the tasks behind, and those of the current task before
`item` unless one failed, are there or were deleted during the run. `Found`
and `Missed` are the two halves of what a look is worth afterwards: an item
not in `missing` is there or deleted; an item in `missing` is still missing
when the task that creates it comes, unless the run was disturbed. `Blame`:
only a disturbed run has a failed item. `RetrySucceeds` follows from `Missed`
(the client never creates what is there) and `NeedsMet` (what a task needs was
made by one before it). Both need selections to be of whole roles
(`TagsAssumption`), which holds since the tags are on the roles; TLC evaluates
it for the selections of the run and, in `MCCloudResources`, for every set of
tags.

**Images.** `PatchesDelivered` holds although the script goes on after any
error, because `build-images` looks at the prepared list once and stops at its
first failure. `LoadedInv`: what is still to be built is built from that list.
`BuiltInv` is the loop's invariant: an image to patch is still in `todo`, or is
in the registry with the present patches and in the list under all its
parameters (`Delivered`); a later image does not undo that, as no parameter
belongs to two (`ReplaceAssumption`). `WrittenInv`: the file is the list when
nothing is left. `PushedInv` gives the action property, and `CleanInv` follows a
run without failures: what was prepared is uploaded, and then there.

**Roles.** What the script computes has to be known for lists of any length, so
`SetInduction` comes first: a set that has 0 and with each number the next
contains all numbers. It is a consequence of the theorem on finite sets that an
injection into itself is onto, and so needs no induction principle as a premise.
`LeastOf` (a least element), `Ranks` (in a finite ordered set each number of
predecessors is that of one element) and `Iterated` (a recursion has a solution)
rest on it. From these, `Uniqified`, `Sorted` and `AllRead` say what the
functions return, and `NewRoleMerged` that it is what `IsMerged` asks for. The
invariant is then about times. `MadeInv`: a custom role that is there, not
`behind` and not older than its sources is merged from them; an edit of a source
makes it older, whenever it comes. `DataInv`: a `roles_data.yaml` that is not
older than the custom roles, and not torn by a failing generate, has those
there are, `make clean` being the reason for the exception of a missing one;
`Data` is `behind` only when it is torn. `DoneInv`: those make has passed are
there, and at the end the data is made of them or is the torn file.

Induction over data is possible in this way only where the induction is over a
set; a statement with an operator as its parameter is out of the provers' reach.

**Filebeat.** The theorems hold for every entry an input may give, of which
`InputsAssumption` says only what the scripts rely on: it has a message and
none of the fields a script makes; a message that parses is a tree of named
fields, with the names of the logs; a list of authorizations is a list of
records. (`StringsAssumption` says that the names of fields in the code are
strings; the provers do not know that of a literal.) `Holds` says of each step
what the event is before it. `CloudAt` follows the three googlecloud scripts:
up to the step that drops it the message is the one that came, between
decoding and the last move the document is under `json`, and then under the
name of the dataset; below `json` there is at first the document (`Shows`),
then all of it but the payload (`ShowsBut`). `AuditAt` follows the status and the
list of authorizations through the moves that rename them; `MispAt` follows
the indicator's value. `CiscoAt` has the text, the severity and the scratch
fields, each from the step that writes it to the one that replaces or deletes it, and
that an event with a category is converted. `CauseOf`, `ThrownAt` and `CiscoThrown`
are what holds when a step throws: why, and that firewall throws only while its
entry is still whole, which `EntryKept` needs (`JsonIsWhole`).

To show that a step keeps `Holds`, it has to be known what a fold over a list of
fields does at one path, for lists of any length. `ConvertRuns` and
`PutRuns` unfold the folds by `SetInduction`; from these, `FromSpares` says that a
path that no field of the list touches, above or below, is as before,
`CopiesAlone` and `LastMoves` what comes to a path that one field
writes, and `FromIsEvent` that an event stays one: what has a field below
it is an object (`GraftIsEvent`, `DeleteIsEvent`). All of them rest on which paths are
above, below or apart from each other (`Apart`). For each script a lemma
(`FirewallSteps` and so on) lists its steps with what each makes of the event.

Three definitions were wrong in a way TLC does not show, and the proofs did: `CASE`s
whose guards overlap, for which TLC takes the first and TLA+ does not say
which (the outcome of an audit entry, the time of an entry, the end of a
script). Their guards are disjoint now.

Not proved, only checked:

- liveness (`RunEnds`, `DeployEnds`): fairness and `ENABLED` are out of the
  prover's reach;
- of the filebeat modules `TypeOK`, `EndsAsReported`, `FlowIdentified` and
  `AddressesRelated`, which follow single fields of the payload through their
  renames to the end of the script, and `PatternCoversValue`, about the lists that
  `misp/threat` takes values apart into: `Holds` says where the payload is as a
  whole and not yet where each field of it went.

## 5. Not modelled, and why

- Third-party and external: filebeat's dashboards, ingest pipelines and the
  modules without a script, libbeat, Heat,
  docker, paunch, make, Ansible and the OpenStack services beyond what the
  scripts rely on (marked external in `PROJECT.json`).
- Concurrency nobody guards against and nobody intends: two deploys in one
  checkout, two hotfix plays at once. The undercloud has one `stack` user,
  and the models have one of each. Two runs of the resources playbook need no
  checkout in common, and are modelled.
- Races inside one call of a module of Ansible (ask, then create).
- Configuration drift: a mapping or limit that changed in the inventory is
  not applied to a resource that exists; the code does not compare.
- `PrepareHost` and `PrepareOvercloud` stand for the relabelling role; the
  zabbix role has the same shape and is not repeated.
- Constant data, rendering without state, tests: section 1.1, last rows.

## 6. Plan

Order: what decides whether hosts get the right identity and address first
(`AllocateIPs`, `OvercloudDeploy`), then what changes a running cloud
(`RollingHotfix`, `NotifiedHandlers`, `CloudResources`), then what is made
before a deploy (`ImagePrep`, `RolesBuild`), then the scripts on the log events
(`FilebeatModules`). These are done. To come:

1. `AllocateIPs` composed with `OvercloudDeploy`: Heat gives server *i* the
   address at index *i* of `use_fixed_ips.yaml`, so the lists must be as long
   as the role's count, and a list must not be shortened under a server.
2. `ImagePrep` with the hosts' caches of images: a tag whose content changes
   is not pulled again.
3. `DeployArgs`: which file's value of a parameter wins, against the order
   the comment in `overcloud-deploy-args.sh` asks for.
4. `Predeploy`: the key one play registers for another, `--tags`, the clone
   that is made once, prerequisites of the plays.
5. `ForemanRebuild`: the build flag, the reset, the `built` callback that may
   be lost. `UndercloudInstall`: interrupted between `del-port` and
   `add-port`. `OctaviaCA`: certificates copied one by one. `LogMartians`: the
   running kernel against the next boot.
6. Proofs: what section 4 lists as only checked of the filebeat scripts
   (`TypeOK`, `EndsAsReported`, `FlowIdentified`, `AddressesRelated`,
   `PatternCoversValue`), for which `Holds` has to follow single fields of the
   payload through their renames.

The abstract specification worth adding with the first item is that of the
identity of a host: name, address and server are fixed once given.
