----------------------------- MODULE ImagePrep -----------------------------
(***************************************************************************)
(* overcloud-prep.sh prepares the list of container images of a deploy,    *)
(* uploads them to the registry of the undercloud and has                  *)
(* scripts/build-images patch some of them; build-images is also run by    *)
(* hand.  The script has no `set -e': only the last command counts.        *)
(***************************************************************************)
EXTENDS Integers, FiniteSets

CONSTANTS
    Images,       \* the upstream images
    Releases,     \* release labels as [rev, build]: 76.1554788875
    NoRev,        \* the rev of a label that names none
    Keys,         \* the parameters of the deploy that hold image names
    ImageOf,      \* the upstream image of a parameter
    Patched,      \* docker_images.yaml: the images with a directory of patches
    From,         \* the parameter that has the image to patch
    Replace,      \* the parameters the patched image goes to
    NoFile,       \* a file that is not there, or is cut off
    NoForce,      \* no --force-revision
    Forces,       \* the arguments of --force-revision
    MaxPatch,     \* bound: how often the patches are edited
    MaxRuns       \* bound: how often the scripts are run

ASSUME KeyAssumption ==
    /\ ImageOf \in [Keys -> Images]
    /\ From \in [Patched -> Keys] /\ Replace \in [Patched -> SUBSET Keys]
(* No parameter is given to two patched images (docker_images.yaml: `replace'). *)
ASSUME ReplaceAssumption == \A i, j \in Patched : i # j => Replace[i] \cap Replace[j] = {}
ASSUME ReleaseAssumption ==
    /\ Releases \subseteq [rev : Nat \union {NoRev}, build : Nat]
    /\ NoForce \notin Forces /\ NoRev \notin Forces
ASSUME BoundAssumption == MaxPatch \in Nat \ {0} /\ MaxRuns \in Nat

VARIABLES
    latest,     \* the release of each upstream image
    patch,      \* the version of the patches
    registry,   \* the registry of the undercloud: name -> what it holds
    prepared,   \* patches/docker/overcloud_images.yaml
    listed,     \* local_registry_images.yaml: the images to upload
    output,     \* templates/overcloud_images.yaml, which the deploy is given
    pc,         \* the command that is next
    opts,       \* the script, and the arguments of build-images
    clean,      \* no command of this run failed
    images,     \* overcloud_images: the parameters as build-images has them
    todo,       \* build_images: the image to patch by image
    runs

files == <<prepared, listed, output>>
vars == <<latest, patch, registry, files, pc, opts, clean, images, todo, runs>>
-----------------------------------------------------------------------------
(* Names in the registry: server and image, {version}-{release}.             *)
Upstream(i) == [path |-> "rhosp13", image |-> i, rev |-> latest[i].rev, build |-> latest[i].build]
NewName_LosesImage(base) ==  \* slip: one name for all
    [path |-> "local", image |-> "local", rev |-> base.rev, build |-> 0]
(* re_image_name ends at the digits of the revision: what follows is lost.   *)
NewName(base) == [path |-> "local", image |-> base.image, rev |-> base.rev, build |-> 0]
Parsed(base) == base.rev # NoRev
Put(reg, name, content) ==
    [n \in DOMAIN reg \union {name} |-> IF n = name THEN content ELSE reg[n]]
Pull(reg, names) ==
    [n \in DOMAIN reg \union names |-> IF n \in DOMAIN reg THEN reg[n] ELSE [base |-> n, patch |-> 0]]

NoOpts == [by |-> "hand", names |-> {}, push |-> FALSE, out |-> FALSE, force |-> NoForce]
Nothing == [i \in {} |-> NoFile]

Init ==
    /\ latest \in [Images -> Releases] /\ patch = 1
    /\ registry = Nothing
    /\ prepared = NoFile /\ listed = NoFile /\ output = NoFile
    /\ pc = "idle" /\ opts = NoOpts /\ clean = TRUE
    /\ images = NoFile /\ todo = Nothing /\ runs = 0

(* ------------------------ the world outside ----------------------------- *)
Release(i, r) ==
    /\ latest' = [latest EXCEPT ![i] = r]
    /\ UNCHANGED <<patch, registry, files, pc, opts, clean, images, todo, runs>>
EditPatch ==
    /\ pc = "idle" /\ patch < MaxPatch
    /\ patch' = patch + 1
    /\ UNCHANGED <<latest, registry, files, pc, opts, clean, images, todo, runs>>

(* ------------------------- overcloud-prep.sh ----------------------------- *)
Begin(first, o) ==
    /\ pc = "idle" /\ runs < MaxRuns /\ runs' = runs + 1
    /\ pc' = first /\ opts' = o /\ clean' = TRUE
    /\ UNCHANGED <<latest, patch, registry, files, images, todo>>
PrepStart ==
    Begin("prepare", [by |-> "prep", names |-> {}, push |-> TRUE, out |-> TRUE, force |-> NoForce])
HandStart ==
    \E names \in SUBSET Patched, push, out \in BOOLEAN, force \in Forces \union {NoForce} :
        Begin("load", [by |-> "hand", names |-> names, push |-> push, out |-> out, force |-> force])

(* container image prepare writes both files from the releases there are;    *)
(* when it fails it may have written the first.  The script goes on.         *)
Prepare ==
    /\ pc = "prepare" /\ pc' = "upload"
    /\ LET p == [k \in Keys |-> Upstream(ImageOf[k])]
           l == {p[k] : k \in Keys}
       IN  \/ prepared' = p /\ listed' = l /\ clean' = clean
           \/ prepared' \in {p, prepared} /\ listed' = listed /\ clean' = FALSE
    /\ UNCHANGED <<latest, patch, registry, output, opts, images, todo, runs>>

Upload_SomeWellEnough ==  \* slip: an image that is not uploaded is no failure
    /\ pc = "upload" /\ pc' = "load" /\ clean' = clean
    /\ IF listed = NoFile THEN registry' = registry
       ELSE \E some \in SUBSET listed : registry' = Pull(registry, some)
    /\ UNCHANGED <<latest, patch, files, opts, images, todo, runs>>
(* container image upload; the script goes on if an image is not uploaded.   *)
Upload ==
    /\ pc = "upload" /\ pc' = "load"
    /\ \/ listed # NoFile /\ registry' = Pull(registry, listed) /\ clean' = clean
       \/ /\ clean' = FALSE
          /\ IF listed = NoFile THEN registry' = registry
             ELSE \E some \in SUBSET listed : registry' = Pull(registry, some)
    /\ UNCHANGED <<latest, patch, files, opts, images, todo, runs>>

(* ------------------------ scripts/build-images --------------------------- *)
Selected == {i \in Patched : opts.names # {} => i \in opts.names}
Loadable ==
    /\ opts.force # NoForce => Cardinality(opts.names) = 1
    /\ prepared # NoFile
Load ==
    /\ pc = "load" /\ Loadable
    /\ images' = prepared
    /\ todo' = [i \in {s \in Selected : Parsed(prepared[From[s]])} |-> prepared[From[i]]]
    /\ pc' = "build"
    /\ UNCHANGED <<latest, patch, registry, files, opts, clean, runs>>

Fail ==
    /\ pc' = "failed" /\ clean' = FALSE
    /\ UNCHANGED <<latest, patch, registry, prepared, listed, opts, images, todo, runs>>
LoadFails == pc = "load" /\ Fail /\ UNCHANGED output  \* also: no such directory, no such key

Build_PushForgotten(i) ==  \* slip: the built image is not pushed
    /\ pc = "build" /\ i \in DOMAIN todo /\ todo[i] \in DOMAIN registry
    /\ images' = [k \in Keys |-> IF k \in Replace[i] THEN NewName(todo[i]) ELSE images[k]]
    /\ todo' = [j \in DOMAIN todo \ {i} |-> todo[j]]
    /\ UNCHANGED <<latest, patch, registry, files, pc, opts, clean, runs>>

(* docker build needs the image to patch in the registry; then the patched   *)
(* one is pushed and its name replaces the stock one's.                      *)
Build(i) ==
    /\ pc = "build" /\ i \in DOMAIN todo /\ todo[i] \in DOMAIN registry
    /\ LET name == NewName(todo[i])
       IN  /\ registry' = IF opts.push THEN Put(registry, name, [base |-> todo[i], patch |-> patch])
                          ELSE registry
           /\ images' = [k \in Keys |-> IF k \in Replace[i] THEN name ELSE images[k]]
    /\ todo' = [j \in DOMAIN todo \ {i} |-> todo[j]]
    /\ UNCHANGED <<latest, patch, files, pc, opts, clean, runs>>
BuildFails == pc = "build" /\ todo # Nothing /\ Fail /\ UNCHANGED output

Write_Early ==  \* slip: the file is written before all images are built
    /\ pc = "build"
    /\ output' = IF opts.out THEN images ELSE output
    /\ pc' = "done"
    /\ UNCHANGED <<latest, patch, registry, prepared, listed, opts, clean, images, todo, runs>>
Write ==
    /\ pc = "build" /\ todo = Nothing
    /\ output' = IF opts.out THEN images ELSE output
    /\ pc' = "done"
    /\ UNCHANGED <<latest, patch, registry, prepared, listed, opts, clean, images, todo, runs>>
(* The file is opened, and so emptied, before it is written. *)
WriteFails ==
    pc = "build" /\ todo = Nothing /\ opts.out /\ output' = NoFile /\ Fail

End ==
    /\ pc \in {"done", "failed"} /\ pc' = "idle"
    /\ opts' = NoOpts /\ clean' = TRUE /\ images' = NoFile /\ todo' = Nothing
    /\ UNCHANGED <<latest, patch, registry, files, runs>>

Next ==
    \/ \E i \in Images, r \in Releases : Release(i, r)
    \/ EditPatch \/ PrepStart \/ HandStart \/ Prepare \/ Upload
    \/ Load \/ LoadFails \/ (\E i \in Patched : Build(i)) \/ BuildFails
    \/ Write \/ WriteFails \/ End
Spec == Init /\ [][Next]_vars
-----------------------------------------------------------------------------
Names == [path : {"rhosp13", "local"}, image : Images, build : Nat, rev : Nat \union {NoRev}]

(* The variables have their types. *)
TypeOK ==
    /\ latest \in [Images -> Releases] /\ patch \in 1..MaxPatch /\ runs \in 0..MaxRuns
    /\ DOMAIN registry \subseteq Names
    /\ \A n \in DOMAIN registry : registry[n].base \in Names /\ registry[n].patch \in 0..MaxPatch
    /\ \A f \in {prepared, output, images} : f # NoFile => f \in [Keys -> Names]
    /\ listed # NoFile => listed \subseteq Names
    /\ pc \in {"idle", "prepare", "upload", "load", "build", "done", "failed"}
    /\ opts.by \in {"prep", "hand"} /\ opts.names \subseteq Patched /\ clean \in BOOLEAN
    /\ DOMAIN todo \subseteq Patched /\ \A i \in DOMAIN todo : todo[i] \in Names

Prepped == opts.by = "prep" /\ pc = "done"

(* After overcloud-prep.sh ended well, the deploy gets every image that can  *)
(* be patched, for all its parameters, with the present patches, built from  *)
(* the image that was prepared: also when an earlier command of the script   *)
(* failed and the files are of different ages.                               *)
PatchesDelivered ==
    Prepped => \A i \in Patched, k \in Keys :
        k \in Replace[i] /\ Parsed(prepared[From[i]]) =>
            /\ output[k] = NewName(prepared[From[i]])
            /\ registry[output[k]] = [base |-> prepared[From[i]], patch |-> patch]

(* A file for the deploy that is written by a run that pushes names no       *)
(* patched image the registry does not have.                                 *)
OutputAfterPush ==
    [][output' # output /\ output' # NoFile /\ opts.push =>
          \A k \in Keys : output'[k].path = "local" => output'[k] \in DOMAIN registry']_vars

(* When no command of overcloud-prep.sh failed, the deploy finds all images  *)
(* in the registry.                                                          *)
StoredIfClean == Prepped /\ clean => \A k \in Keys : output[k] \in DOMAIN registry

(* README.md: overcloud-prep.sh stores all the necessary images in the local *)
(* registry and points the deploy at them.                                   *)
Stored == Prepped => \A k \in Keys : output[k] \in DOMAIN registry
=============================================================================
