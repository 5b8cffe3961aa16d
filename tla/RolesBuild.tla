----------------------------- MODULE RolesBuild -----------------------------
(***************************************************************************)
(* make -f Makefile.devel: the roles of this deploy are merged from the    *)
(* stock roles by scripts/merge-roles.py and put into roles_data.yaml.     *)
(* make goes by modification times, and only by those of the role files:   *)
(* the arguments of merge-roles.py are in the makefile, which is no        *)
(* prerequisite, and files can be edited while make works.                 *)
(***************************************************************************)
EXTENDS Integers, Sequences, FiniteSets, SequencesExt

CONSTANTS
    CustomRoles,  \* CUSTOM_ROLES, in order
    SourcesOf,    \* the role files a custom role is merged from
    Fields,       \* ServicesDefault, networks, tags, default_route_networks
    Contents,     \* what a role file can say: field -> list
    Arguments,    \* of each custom role in the makefile: [add, exclude, extra]
    FlagChoices,  \* what they can be changed to
    MaxEdits,     \* bound: how often a file is edited
    MaxMakes      \* bound: how often make is run

Targets == ToSet(CustomRoles)
Sources == UNION {ToSet(SourcesOf[t]) : t \in Targets}
Data == "roles_data.yaml"
Files == Sources \union Targets \union {Data}
ASSUME FileAssumption ==
    /\ CustomRoles \in Seq(Targets) \ {<<>>}
    /\ \A t \in Targets : SourcesOf[t] \in Seq(Sources) \ {<<>>}
    /\ Sources \intersect Targets = {} /\ Data \notin Sources \union Targets
(* What a list names is a number here: all that counts is that it can be     *)
(* compared.                                                                 *)
Lists == [Fields -> Seq(Int)]
ASSUME ContentsAssumption == Contents \subseteq Lists
ASSUME ArgumentsAssumption ==
    /\ DOMAIN Arguments = Targets
    /\ \A fl \in FlagChoices \union {Arguments[t] : t \in Targets} : fl.add \in Lists
ASSUME BoundAssumption == MaxEdits \in Nat /\ MaxMakes \in Nat

(* A file that is not there, and one that was not written to its end. *)
Absent == [file |-> "absent"]
Torn == [file |-> "torn"]

VARIABLES
    source, flags,     \* what the role files and the makefile say
    custom, data,      \* what was made of it
    mtime, clock,      \* modification times, and the last one given
    pc, at,            \* what make does, for which custom role
    read,              \* the fields of the role files merge-roles.py has read so far
    files,             \* and how many those are
    edits, makes,
    behind             \* observed: custom roles that are not what their sources and
                       \* flags say, and Data when it is torn, with no newer file
                       \* that tells

made == <<custom, data, mtime, clock>>
work == <<pc, at, read, files>>
vars == <<source, flags, made, work, edits, makes, behind>>
-----------------------------------------------------------------------------
(* merge-roles.py *)
Before(l, x) == {y \in DOMAIN l : l[y] < l[x] \/ (l[y] = l[x] /\ y < x)}
sorted(l) ==
    [p \in DOMAIN l |-> l[CHOOSE x \in DOMAIN l : Cardinality(Before(l, x)) = p - 1]]
uniqify(l, exclude) ==
    LET kept == {i \in DOMAIN l : l[i] \notin exclude /\ \A j \in 1..(i - 1) : l[j] # l[i]}
    IN  [n \in 1..Cardinality(kept) |->
            l[CHOOSE i \in kept : Cardinality({j \in kept : j < i}) = n - 1]]
Nothing == [f \in Fields |-> <<>>]
Extended(lists, more) == [f \in Fields |-> lists[f] \o more[f]]
(* The pairs of the new role: -x replaces a default, the lists replace both. *)
extraconfig(fl) ==
    LET default == [HostnameFormatDefault |-> "from name", CountDefault |-> 1]
    IN  [k \in (DOMAIN default \union DOMAIN fl.extra) \ Fields |->
            IF k \in DOMAIN fl.extra THEN fl.extra[k] ELSE default[k]]
new_role(lists, fl) ==
    [lists |-> [f \in Fields |-> sorted(uniqify(Extended(lists, fl.add)[f], fl.exclude[f]))],
     extra |-> extraconfig(fl)]
ReadAll(t) ==
    LET from == SourcesOf[t]
        first[n \in 0..Len(from)] ==
            IF n = 0 THEN Nothing ELSE Extended(first[n - 1], source[from[n]])
    IN  first[Len(from)]

(* A checkout: what is made agrees with its sources, the times say nothing.  *)
Init ==
    /\ source \in [Sources -> Contents] /\ flags = Arguments
    /\ custom = [t \in Targets |-> new_role(ReadAll(t), flags[t])] /\ data = custom
    /\ mtime \in [Files -> {0, 1}] /\ clock = 1
    /\ pc = "idle" /\ at = 1 /\ read = Nothing /\ files = 0
    /\ edits = 0 /\ makes = 0 /\ behind = {}

Touched(f) == clock' = clock + 1 /\ mtime' = [mtime EXCEPT ![f] = clock + 1]

(* ---------------------------- the developer ------------------------------ *)
EditSource(f, c) ==
    /\ edits < MaxEdits /\ edits' = edits + 1
    /\ source' = [source EXCEPT ![f] = c] /\ Touched(f)
    /\ UNCHANGED <<flags, custom, data, work, makes, behind>>
EditFlags(t, fl) ==
    /\ edits < MaxEdits /\ edits' = edits + 1
    /\ pc = "idle"  \* make has read the makefile at its start
    /\ flags' = [flags EXCEPT ![t] = fl] /\ behind' = behind \union {t}
    /\ UNCHANGED <<source, made, work, makes>>

(* --------------------------------- make ---------------------------------- *)
Make ==
    /\ pc = "idle" /\ makes < MaxMakes /\ makes' = makes + 1
    /\ pc' = "role" /\ at' = 1
    /\ UNCHANGED <<source, flags, made, read, files, edits, behind>>

(* make clean; roles_data.yaml stays. *)
Clean ==
    /\ pc = "idle" /\ makes < MaxMakes /\ makes' = makes + 1
    /\ custom' = [t \in Targets |-> Absent]
    /\ UNCHANGED <<source, flags, data, mtime, clock, work, edits, behind>>

Role == CustomRoles[at]
OutOfDate_FirstSource(t, prerequisites) ==  \* slip: $< for $^
    mtime[t] < mtime[prerequisites[1]]
OutOfDate(t, prerequisites) == \E n \in DOMAIN prerequisites : mtime[t] < mtime[prerequisites[n]]
NextRole_OnePast ==  \* slip: one role too many
    IF at <= Len(CustomRoles) THEN pc' = "role" /\ at' = at + 1 ELSE pc' = "data" /\ at' = at
NextRole == IF at < Len(CustomRoles) THEN pc' = "role" /\ at' = at + 1
            ELSE pc' = "data" /\ at' = at

UpToDate ==
    /\ pc = "role" /\ custom[Role] # Absent /\ ~OutOfDate(Role, SourcesOf[Role])
    /\ NextRole
    /\ UNCHANGED <<source, flags, made, read, files, edits, makes, behind>>
Merge ==
    /\ pc = "role" /\ (custom[Role] = Absent \/ OutOfDate(Role, SourcesOf[Role]))
    /\ pc' = "merge" /\ read' = Nothing /\ files' = 0
    /\ UNCHANGED <<source, flags, made, at, edits, makes, behind>>
ReadFile ==
    /\ pc = "merge" /\ files < Len(SourcesOf[Role])
    /\ files' = files + 1 /\ read' = Extended(read, source[SourcesOf[Role][files + 1]])
    /\ UNCHANGED <<source, flags, made, pc, at, edits, makes, behind>>
Write ==
    /\ pc = "merge" /\ files = Len(SourcesOf[Role])
    /\ custom' = [custom EXCEPT ![Role] = new_role(read, flags[Role])]
    /\ Touched(Role)
    /\ behind' = IF read = ReadAll(Role) THEN behind \ {Role} ELSE behind \union {Role}
    /\ read' = Nothing /\ files' = 0 /\ NextRole
    /\ UNCHANGED <<source, flags, data, edits, makes>>
(* The output is opened, and so emptied, before it is written.  make removes *)
(* it when interrupted, but keeps it when the script fails.                  *)
WriteFails ==
    /\ pc = "merge" /\ files = Len(SourcesOf[Role])
    /\ \/ custom' = [custom EXCEPT ![Role] = Torn] /\ behind' = behind \union {Role}
       \/ custom' = [custom EXCEPT ![Role] = Absent] /\ behind' = behind
    /\ Touched(Role)
    /\ pc' = "idle" /\ at' = 1 /\ read' = Nothing /\ files' = 0
    /\ UNCHANGED <<source, flags, data, edits, makes>>
(* No such file, no such argument, or interrupted before an output is open.  *)
Stop ==
    /\ pc \in {"role", "merge", "data"}
    /\ pc' = "idle" /\ at' = 1 /\ read' = Nothing /\ files' = 0
    /\ UNCHANGED <<source, flags, made, edits, makes, behind>>

(* openstack overcloud roles generate, which refuses a file without a role.  *)
DataOutOfDate == data = Absent \/ OutOfDate(Data, CustomRoles)
Generate ==
    /\ pc = "data" /\ DataOutOfDate /\ \A t \in Targets : custom[t] # Torn
    /\ data' = custom /\ Touched(Data) /\ behind' = behind \ {Data}
    /\ pc' = "done"
    /\ UNCHANGED <<source, flags, custom, at, read, files, edits, makes>>
(* It fails or refuses a role when its output is open.  What is there stays, *)
(* newer than the roles, as for WriteFails, unless make was interrupted.     *)
GenerateFails ==
    /\ pc = "data" /\ DataOutOfDate
    /\ \/ data' = Torn /\ behind' = behind \union {Data}
       \/ data' = Absent /\ behind' = behind \ {Data}
    /\ Touched(Data)
    /\ pc' = "idle" /\ at' = 1 /\ read' = Nothing /\ files' = 0
    /\ UNCHANGED <<source, flags, custom, edits, makes>>
Generated ==
    /\ pc = "data" /\ ~DataOutOfDate
    /\ pc' = "done"
    /\ UNCHANGED <<source, flags, made, at, read, files, edits, makes, behind>>
End ==
    /\ pc = "done" /\ pc' = "idle" /\ at' = 1
    /\ UNCHANGED <<source, flags, made, read, files, edits, makes, behind>>

Next ==
    \/ \E f \in Sources, c \in Contents : EditSource(f, c)
    \/ \E t \in Targets, fl \in FlagChoices : EditFlags(t, fl)
    \/ Make \/ Clean \/ UpToDate \/ Merge \/ ReadFile \/ Write \/ WriteFails \/ Stop
    \/ Generate \/ GenerateFails \/ Generated \/ End
Spec == Init /\ [][Next]_vars
-----------------------------------------------------------------------------
(* The variables have their types. *)
TypeOK ==
    /\ source \in [Sources -> Contents]
    /\ \A t \in Targets : flags[t] \in FlagChoices \union {Arguments[t]}
    /\ \A t \in Targets : custom[t] \in {Absent, Torn} \/ DOMAIN custom[t].lists = Fields
    /\ data \in {Absent, Torn} \/ DOMAIN data = Targets
    /\ mtime \in [Files -> 0..clock]
    /\ pc \in {"idle", "role", "merge", "data", "done"} /\ at \in DOMAIN CustomRoles
    /\ files \in 0..Len(SourcesOf[Role])
    /\ edits \in 0..MaxEdits /\ makes \in 0..MaxMakes /\ behind \subseteq Targets \union {Data}

(* What a custom role has to be: of each list, what its sources and the      *)
(* arguments name, each once, in order, less what is excluded.               *)
Said(t, f) ==
    (UNION {ToSet(source[s][f]) : s \in ToSet(SourcesOf[t])}) \union ToSet(flags[t].add[f])
IsMerged(role, t) ==
    /\ \A f \in Fields :
          /\ ToSet(role.lists[f]) = Said(t, f) \ flags[t].exclude[f]
          /\ \A i, j \in DOMAIN role.lists[f] : i < j => role.lists[f][i] < role.lists[f][j]
    /\ \A k \in DOMAIN flags[t].extra \ Fields : role.extra[k] = flags[t].extra[k]

(* When make ends well, roles_data.yaml has the custom roles there are, and  *)
(* each is what the role files and the makefile say, however makes failed    *)
(* and files changed before; except for a role file that changed after make  *)
(* had looked at it, and for what make cannot see: arguments that changed, a *)
(* role file that changed between being read and the output being written,   *)
(* and a roles_data.yaml that a failing generate has left torn, which make   *)
(* takes for up to date until it merges a role again.                        *)
CurrentUnlessBehind ==
    pc = "done" =>
        /\ data = IF Data \in behind THEN Torn ELSE custom
        /\ \A t \in Targets \ behind :
              ~OutOfDate(t, SourcesOf[t]) => IsMerged(custom[t], t)
=============================================================================
