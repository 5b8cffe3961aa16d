-------------------------- MODULE ImagePrepProofs --------------------------
(***************************************************************************)
(* Theorems about ImagePrep for every set of images, parameters and        *)
(* releases, every docker_images.yaml and any number of runs.              *)
(***************************************************************************)
EXTENDS ImagePrep, TLAPS

(* The image list of a deploy as container image prepare writes it: each     *)
(* parameter has an upstream name of its own image, and parameters of one    *)
(* image have one name.                                                      *)
IsPrepared(f) ==
    /\ f \in [Keys -> Names]
    /\ \A n \in Keys : f[n].path = "rhosp13" /\ f[n].image = ImageOf[n]
    /\ \A n, m \in Keys : ImageOf[n] = ImageOf[m] => f[n] = f[m]

(* What overcloud-prep.sh runs build-images with (build-images-wrapper).     *)
ByPrep == opts.by = "prep"
OptsInv ==
    /\ opts.push \in BOOLEAN /\ opts.out \in BOOLEAN
    /\ ByPrep => opts.push /\ opts.out /\ opts.names = {}
    /\ pc = "idle" => ~ByPrep

(* build-images works on the prepared list, and what it still has to build   *)
(* is built from that.                                                       *)
LoadedInv ==
    pc \in {"build", "done"} =>
        /\ prepared # NoFile
        /\ images \in [Keys -> Names]
        /\ DOMAIN todo \subseteq Patched
        /\ \A i \in DOMAIN todo : todo[i] = prepared[From[i]]

(* Each image to patch is still to be built, or is in the registry with the  *)
(* present patches and in the list under all its parameters.                 *)
Delivered(i) ==
    LET name == NewName(prepared[From[i]])
    IN  /\ name \in DOMAIN registry
        /\ registry[name] = [base |-> prepared[From[i]], patch |-> patch]
        /\ \A n \in Replace[i] : images[n] = name
BuiltInv ==
    pc \in {"build", "done"} /\ ByPrep =>
        \A i \in Patched : Parsed(prepared[From[i]]) /\ i \notin DOMAIN todo => Delivered(i)

(* The file for the deploy is the list when nothing is left to build.        *)
WrittenInv == pc = "done" /\ opts.out => todo = Nothing /\ output = images

(* A name of a patched image gets into the list after the image was pushed.  *)
PushedInv ==
    pc = "build" /\ opts.push =>
        \A n \in Keys : images[n].path = "local" => images[n] \in DOMAIN registry

(* While no command has failed, what was prepared is what is uploaded, and   *)
(* then in the registry.                                                     *)
CleanInv ==
    ByPrep /\ clean =>
        /\ pc \in {"upload", "load", "build", "done"} => listed = {prepared[n] : n \in Keys}
        /\ pc \in {"load", "build", "done"} => listed \subseteq DOMAIN registry
        /\ pc \in {"build", "done"} => \A n \in Keys : images[n] \in DOMAIN registry

Inv ==
    /\ TypeOK
    /\ prepared # NoFile => IsPrepared(prepared)
    /\ OptsInv /\ LoadedInv /\ BuiltInv /\ WrittenInv /\ PushedInv /\ CleanInv
-----------------------------------------------------------------------------
(* The name of an upstream image, whatever its label.                        *)
LEMMA UpstreamName ==
    ASSUME TypeOK, NEW i \in Images
    PROVE  Upstream(i) \in Names /\ Upstream(i).path = "rhosp13" /\ Upstream(i).image = i
  <1>1. latest[i] \in [rev : Nat \union {NoRev}, build : Nat]
    BY ReleaseAssumption DEF TypeOK, ReleaseAssumption
  <1> QED
    BY <1>1 DEF Upstream, Names

(* The name of a patched image (new_name).                                   *)
LEMMA PatchedName ==
    ASSUME NEW base \in Names
    PROVE  NewName(base) \in Names /\ NewName(base).path = "local"
  BY DEF NewName, Names

(* What container image prepare writes is a prepared list.                   *)
LEMMA PrepareWrites ==
    ASSUME TypeOK
    PROVE  IsPrepared([n \in Keys |-> Upstream(ImageOf[n])])
  <1>1. \A n \in Keys : ImageOf[n] \in Images
    BY KeyAssumption DEF KeyAssumption
  <1> QED
    BY <1>1, UpstreamName DEF IsPrepared

(* An upload adds stock images and leaves what is there (image upload).      *)
LEMMA PullAdds ==
    ASSUME TypeOK, NEW names, names \subseteq Names
    PROVE  LET reg == Pull(registry, names)
           IN  /\ DOMAIN reg = DOMAIN registry \union names
               /\ DOMAIN reg \subseteq Names
               /\ \A n \in DOMAIN reg : reg[n].base \in Names /\ reg[n].patch \in 0..MaxPatch
               /\ \A n \in DOMAIN registry : reg[n] = registry[n]
  <1>1. 0 \in 0..MaxPatch
    BY BoundAssumption DEF BoundAssumption
  <1> QED
    BY <1>1 DEF TypeOK, Pull

(* A push adds the image or replaces the one of its name (docker push).      *)
LEMMA PutAdds ==
    ASSUME TypeOK, NEW name \in Names, NEW base \in Names
    PROVE  LET reg == Put(registry, name, [base |-> base, patch |-> patch])
           IN  /\ DOMAIN reg = DOMAIN registry \union {name}
               /\ DOMAIN reg \subseteq Names
               /\ \A n \in DOMAIN reg : reg[n].base \in Names /\ reg[n].patch \in 0..MaxPatch
               /\ reg[name] = [base |-> base, patch |-> patch]
               /\ \A n \in DOMAIN registry : n # name => reg[n] = registry[n]
  <1>1. patch \in 0..MaxPatch
    BY BoundAssumption DEF BoundAssumption, TypeOK
  <1> QED
    BY <1>1 DEF TypeOK, Put
-----------------------------------------------------------------------------
LEMMA InitInv == Init => Inv
  <1> SUFFICES ASSUME Init PROVE Inv
    OBVIOUS
  <1>1. TypeOK
    BY BoundAssumption DEF BoundAssumption, Init, TypeOK, NoOpts, Nothing
  <1>2. pc = "idle" /\ ~ByPrep /\ opts.push = FALSE /\ opts.out = FALSE /\ prepared = NoFile
    BY DEF Init, ByPrep, NoOpts
  <1> QED
    BY <1>1, <1>2 DEF Inv, OptsInv, LoadedInv, BuiltInv, WrittenInv, PushedInv, CleanInv

(* A release of an upstream image, at any time: the files are not made anew. *)
LEMMA ReleaseStep ==
    ASSUME Inv, NEW i \in Images, NEW r \in Releases, Release(i, r)
    PROVE  Inv'
  BY DEF Release, files, Inv, TypeOK, IsPrepared, OptsInv, ByPrep, LoadedInv, BuiltInv, Delivered,
         WrittenInv, PushedInv, CleanInv

(* The patches are edited between runs.                                      *)
LEMMA EditStep ==
    ASSUME Inv, EditPatch
    PROVE  Inv'
  <1>1. pc = "idle" /\ pc' = "idle" /\ ~ByPrep
    BY DEF EditPatch, Inv, OptsInv
  <1>2. patch' \in 1..MaxPatch
    BY BoundAssumption DEF BoundAssumption, EditPatch, Inv, TypeOK
  <1>3. TypeOK'
    BY <1>2 DEF EditPatch, files, Inv, TypeOK
  <1> QED
    BY <1>1, <1>3 DEF EditPatch, files, Inv, IsPrepared, OptsInv, ByPrep, LoadedInv, BuiltInv,
         WrittenInv, PushedInv, CleanInv

(* Either script starts.                                                     *)
LEMMA StartStep ==
    ASSUME Inv, NEW first \in {"prepare", "load"}, NEW o, Begin(first, o),
           o.by \in {"prep", "hand"}, o.names \subseteq Patched,
           o.push \in BOOLEAN, o.out \in BOOLEAN,
           o.by = "prep" => first = "prepare" /\ o.push /\ o.out /\ o.names = {}
    PROVE  Inv'
  <1>1. runs' \in 0..MaxRuns
    BY BoundAssumption DEF BoundAssumption, Begin, Inv, TypeOK
  <1>2. TypeOK'
    BY <1>1 DEF Begin, files, Inv, TypeOK
  <1>3. pc' = first /\ opts' = o /\ prepared' = prepared
    BY DEF Begin, files
  <1> QED
    BY <1>2, <1>3 DEF Inv, IsPrepared, OptsInv, ByPrep, LoadedInv, BuiltInv, WrittenInv,
         PushedInv, CleanInv

LEMMA PrepareStep ==
    ASSUME Inv, Prepare
    PROVE  Inv'
  <1> DEFINE p == [n \in Keys |-> Upstream(ImageOf[n])]
             l == {p[n] : n \in Keys}
  <1>1. TypeOK /\ IsPrepared(p)
    BY PrepareWrites DEF Inv
  <1>2. l \subseteq Names
    BY <1>1 DEF IsPrepared
  <1>3. /\ pc' = "upload" /\ pc = "prepare" /\ opts' = opts
        /\ \/ prepared' = p /\ listed' = l /\ clean' = clean
           \/ prepared' \in {p, prepared} /\ listed' = listed /\ clean' = FALSE
        /\ UNCHANGED <<latest, patch, registry, output, opts, images, todo, runs>>
    BY DEF Prepare
  <1> HIDE DEF p
  <1>4. prepared' # NoFile => IsPrepared(prepared)'
    BY <1>1, <1>3 DEF Inv, IsPrepared
  <1>5. TypeOK'
    BY <1>1, <1>2, <1>3, <1>4 DEF TypeOK, IsPrepared
  <1>6. CleanInv'
    BY <1>3 DEF CleanInv
  <1> QED
    BY <1>3, <1>4, <1>5, <1>6 DEF Inv, OptsInv, ByPrep, LoadedInv, BuiltInv, WrittenInv, PushedInv

LEMMA UploadStep ==
    ASSUME Inv, Upload
    PROVE  Inv'
  <1>1. /\ TypeOK /\ pc = "upload" /\ pc' = "load"
        /\ UNCHANGED <<latest, patch, prepared, listed, output, opts, images, todo, runs>>
    BY DEF Inv, Upload, files
  <1>2. CASE listed # NoFile /\ registry' = Pull(registry, listed) /\ clean' = clean
    <2>1. listed \subseteq Names
      BY <1>1, <1>2 DEF TypeOK
    <2>2. TypeOK' /\ listed' \subseteq DOMAIN registry'
      BY <1>1, <1>2, <2>1, PullAdds DEF TypeOK
    <2> QED
      BY <1>1, <1>2, <2>2 DEF Inv, IsPrepared, OptsInv, ByPrep, LoadedInv, BuiltInv, WrittenInv,
           PushedInv, CleanInv
  <1>3. CASE /\ clean' = FALSE
             /\ IF listed = NoFile THEN registry' = registry
                ELSE \E some \in SUBSET listed : registry' = Pull(registry, some)
    <2>1. TypeOK'
      <3>1. CASE listed = NoFile
        BY <1>1, <1>3, <3>1 DEF TypeOK
      <3>2. CASE listed # NoFile
        <4>1. PICK some \in SUBSET listed : registry' = Pull(registry, some)
          BY <1>3, <3>2
        <4>2. some \subseteq Names
          BY <1>1, <3>2 DEF TypeOK
        <4> QED
          BY <1>1, <1>3, <4>1, <4>2, PullAdds DEF TypeOK
      <3> QED
        BY <3>1, <3>2
    <2> QED
      BY <1>1, <1>3, <2>1 DEF Inv, IsPrepared, OptsInv, ByPrep, LoadedInv, BuiltInv, WrittenInv,
           PushedInv, CleanInv
  <1> QED
    BY <1>2, <1>3 DEF Upload

(* build-images loads the list: every image to patch is still to be built.   *)
LEMMA LoadStep ==
    ASSUME Inv, Load
    PROVE  Inv'
  <1> DEFINE s == {i \in Selected : Parsed(prepared[From[i]])}
  <1>1. /\ TypeOK /\ pc = "load" /\ pc' = "build"
        /\ prepared # NoFile /\ IsPrepared(prepared)
        /\ images' = prepared /\ todo' = [i \in s |-> prepared[From[i]]]
        /\ UNCHANGED <<latest, patch, registry, prepared, listed, output, opts, clean, runs>>
    BY DEF Inv, Load, Loadable, files
  <1>2. s \subseteq Patched /\ \A i \in Patched : From[i] \in Keys
    BY KeyAssumption DEF KeyAssumption, Selected
  <1>3. TypeOK'
    BY <1>1, <1>2 DEF TypeOK, IsPrepared
  <1>4. LoadedInv'
    BY <1>1, <1>2 DEF LoadedInv, IsPrepared
  <1>5. ByPrep => \A i \in Patched : Parsed(prepared[From[i]]) => i \in s
    BY DEF Inv, OptsInv, Selected
  <1>6. BuiltInv'
    BY <1>1, <1>5 DEF BuiltInv, ByPrep
  <1>7. PushedInv'
    BY <1>1 DEF PushedInv, IsPrepared
  <1>8. CleanInv'
    BY <1>1 DEF Inv, CleanInv, ByPrep
  <1> QED
    BY <1>1, <1>3, <1>4, <1>6, <1>7, <1>8 DEF Inv, IsPrepared, OptsInv, ByPrep, WrittenInv

(* One image is built.  What was delivered before is not undone: no          *)
(* parameter goes to two patched images, and two names that agree are of one *)
(* upstream image.                                                           *)
LEMMA BuildStep ==
    ASSUME Inv, NEW i \in Patched, Build(i)
    PROVE  Inv'
  <1> DEFINE base == prepared[From[i]]
             name == NewName(base)
  <1>1. /\ TypeOK /\ LoadedInv /\ pc = "build" /\ pc' = "build"
        /\ prepared # NoFile /\ IsPrepared(prepared)
        /\ i \in DOMAIN todo /\ DOMAIN todo' = DOMAIN todo \ {i}
        /\ \A n \in DOMAIN todo' : todo'[n] = todo[n]
        /\ UNCHANGED <<latest, patch, prepared, listed, output, opts, clean, runs>>
    BY DEF Inv, LoadedInv, Build, files
  <1>2. /\ todo[i] = base /\ base \in Names /\ base \in DOMAIN registry
        /\ \A n \in Patched : From[n] \in Keys
    BY <1>1, KeyAssumption DEF LoadedInv, IsPrepared, Build, KeyAssumption
  <1>3. /\ images' = [n \in Keys |-> IF n \in Replace[i] THEN name ELSE images[n]]
        /\ registry' = IF opts.push THEN Put(registry, name, [base |-> base, patch |-> patch])
                       ELSE registry
    BY <1>2 DEF Build
  <1>4. name \in Names /\ name.path = "local"
    BY <1>2, PatchedName
  <1>5. /\ DOMAIN registry \subseteq DOMAIN registry'
        /\ opts.push => name \in DOMAIN registry'
        /\ \A n \in DOMAIN registry : n # name => registry'[n] = registry[n]
        /\ opts.push => registry'[name] = [base |-> base, patch |-> patch]
    <2> HIDE DEF name, base
    <2>1. opts.push => registry' = Put(registry, name, [base |-> base, patch |-> patch])
      BY <1>3
    <2>2. CASE opts.push
      <3> DEFINE reg == Put(registry, name, [base |-> base, patch |-> patch])
      <3>1. registry' = reg
        BY <2>1, <2>2
      <3>2. /\ DOMAIN reg = DOMAIN registry \union {name}
            /\ reg[name] = [base |-> base, patch |-> patch]
            /\ \A n \in DOMAIN registry : n # name => reg[n] = registry[n]
        BY <1>1, <1>2, <1>4, PutAdds
      <3> QED
        BY <3>1, <3>2
    <2>3. CASE ~opts.push
      BY <1>3, <2>3
    <2> QED
      BY <2>2, <2>3
  <1>6. TypeOK'
    <2>1. /\ DOMAIN registry' \subseteq Names
          /\ \A n \in DOMAIN registry' : registry'[n].base \in Names /\ registry'[n].patch \in 0..MaxPatch
      BY <1>1, <1>2, <1>3, <1>4, PutAdds DEF TypeOK
    <2>2. images' \in [Keys -> Names]
      BY <1>1, <1>3, <1>4 DEF LoadedInv
    <2> QED
      BY <1>1, <2>1, <2>2 DEF TypeOK
  <1>7. LoadedInv'
    BY <1>1, <1>3, <1>4 DEF LoadedInv
  <1>8. BuiltInv'
    <2> SUFFICES ASSUME ByPrep, NEW m \in Patched, Parsed(prepared[From[m]]), m \notin DOMAIN todo'
                 PROVE  Delivered(m)'
      BY <1>1 DEF BuiltInv, ByPrep
    <2>1. opts.push
      BY DEF Inv, OptsInv
    <2>2. CASE m = i
      <3>1. \A n \in Replace[i] : images'[n] = name
        BY <1>3, KeyAssumption DEF KeyAssumption
      <3> QED
        BY <1>1, <1>5, <2>1, <2>2, <3>1 DEF Delivered
    <2>3. CASE m # i
      <3> DEFINE other == NewName(prepared[From[m]])
      <3>1. Delivered(m)
        BY <1>1, <2>3 DEF Inv, BuiltInv
      <3>2. \A n \in Replace[m] : images'[n] = other
        BY <1>3, <2>3, <3>1, KeyAssumption, ReplaceAssumption
          DEF KeyAssumption, ReplaceAssumption, Delivered
      <3>3. other = name => prepared[From[m]] = base
        <4>1. /\ prepared[From[m]].image = ImageOf[From[m]]
              /\ base.image = ImageOf[From[i]]
          BY <1>1, <1>2 DEF IsPrepared
        <4>2. other.image = prepared[From[m]].image /\ name.image = base.image
          BY DEF NewName
        <4> QED
          BY <1>1, <1>2, <4>1, <4>2 DEF IsPrepared
      <3>4. other \in DOMAIN registry' /\ registry'[other] = [base |-> prepared[From[m]], patch |-> patch]
        BY <1>5, <2>1, <3>1, <3>3 DEF Delivered
      <3> QED
        BY <1>1, <3>2, <3>4 DEF Delivered
    <2> QED
      BY <2>2, <2>3
  <1>9. PushedInv'
    BY <1>1, <1>3, <1>4, <1>5 DEF Inv, PushedInv
  <1>10. CleanInv'
    <2> SUFFICES ASSUME ByPrep, clean
                 PROVE  /\ listed' = {prepared'[n] : n \in Keys}
                        /\ listed' \subseteq DOMAIN registry'
                        /\ \A n \in Keys : images'[n] \in DOMAIN registry'
      BY <1>1 DEF CleanInv, ByPrep
    <2>1. /\ listed = {prepared[n] : n \in Keys} /\ listed \subseteq DOMAIN registry
          /\ \A n \in Keys : images[n] \in DOMAIN registry
          /\ opts.push
      BY <1>1 DEF Inv, CleanInv, OptsInv
    <2> QED
      BY <1>1, <1>3, <1>5, <2>1
  <1> QED
    BY <1>1, <1>6, <1>7, <1>8, <1>9, <1>10 DEF Inv, IsPrepared, OptsInv, ByPrep, WrittenInv

LEMMA WriteStep ==
    ASSUME Inv, Write
    PROVE  Inv'
  <1>1. /\ TypeOK /\ LoadedInv /\ pc = "build" /\ pc' = "done" /\ todo = Nothing
        /\ output' = IF opts.out THEN images ELSE output
        /\ UNCHANGED <<latest, patch, registry, prepared, listed, opts, clean, images, todo, runs>>
    BY DEF Inv, Write
  <1>2. TypeOK'
    BY <1>1 DEF TypeOK
  <1> QED
    BY <1>1, <1>2 DEF Inv, IsPrepared, OptsInv, ByPrep, LoadedInv, BuiltInv, Delivered, WrittenInv,
         PushedInv, CleanInv

(* A command of build-images fails: the file for the deploy is as it was, or *)
(* empty.                                                                    *)
LEMMA FailStep ==
    ASSUME Inv, Fail, output' \in {output, NoFile}
    PROVE  Inv'
  <1>1. /\ TypeOK /\ pc' = "failed" /\ clean' = FALSE
        /\ UNCHANGED <<latest, patch, registry, prepared, listed, opts, images, todo, runs>>
    BY DEF Inv, Fail
  <1>2. TypeOK'
    BY <1>1 DEF TypeOK
  <1> QED
    BY <1>1, <1>2 DEF Inv, IsPrepared, OptsInv, ByPrep, LoadedInv, BuiltInv, WrittenInv, PushedInv,
         CleanInv

LEMMA EndStep ==
    ASSUME Inv, End
    PROVE  Inv'
  <1>1. /\ TypeOK /\ pc' = "idle" /\ opts' = NoOpts /\ clean' = TRUE /\ images' = NoFile
        /\ todo' = Nothing /\ DOMAIN Nothing = {}
        /\ UNCHANGED <<latest, patch, registry, prepared, listed, output, runs>>
    BY DEF Inv, End, files, Nothing
  <1>2. TypeOK'
    BY <1>1 DEF TypeOK, NoOpts
  <1> QED
    BY <1>1, <1>2 DEF Inv, IsPrepared, OptsInv, ByPrep, NoOpts, LoadedInv, BuiltInv, WrittenInv,
         PushedInv, CleanInv

LEMMA Invariance == Spec => []Inv
  <1>1. Inv /\ [Next]_vars => Inv'
    <2> SUFFICES ASSUME Inv, [Next]_vars PROVE Inv'
      OBVIOUS
    <2>1. ASSUME NEW i \in Images, NEW r \in Releases, Release(i, r)
          PROVE  Inv'
      BY <2>1, ReleaseStep
    <2>2. CASE EditPatch
      BY <2>2, EditStep
    <2>3. CASE PrepStart
      BY <2>3, StartStep DEF PrepStart
    <2>4. CASE HandStart
      <3>1. PICK names \in SUBSET Patched : \E push, out \in BOOLEAN :
                \E force \in Forces \union {NoForce} :
                    Begin("load", [by |-> "hand", names |-> names, push |-> push, out |-> out,
                                   force |-> force])
        BY <2>4 DEF HandStart
      <3>2. PICK push \in BOOLEAN, out \in BOOLEAN :
                \E force \in Forces \union {NoForce} :
                    Begin("load", [by |-> "hand", names |-> names, push |-> push, out |-> out,
                                   force |-> force])
        BY <3>1
      <3>3. PICK force \in Forces \union {NoForce} :
                Begin("load", [by |-> "hand", names |-> names, push |-> push, out |-> out,
                               force |-> force])
        BY <3>2
      <3> QED
        BY <3>3, StartStep
    <2>5. CASE Prepare
      BY <2>5, PrepareStep
    <2>6. CASE Upload
      BY <2>6, UploadStep
    <2>7. CASE Load
      BY <2>7, LoadStep
    <2>8. CASE LoadFails
      BY <2>8, FailStep DEF LoadFails
    <2>9. ASSUME NEW i \in Patched, Build(i)
          PROVE  Inv'
      BY <2>9, BuildStep
    <2>10. CASE BuildFails
      BY <2>10, FailStep DEF BuildFails
    <2>11. CASE Write
      BY <2>11, WriteStep
    <2>12. CASE WriteFails
      BY <2>12, FailStep DEF WriteFails
    <2>13. CASE End
      BY <2>13, EndStep
    <2>14. CASE UNCHANGED vars
      BY <2>14 DEF vars, files, Inv, TypeOK, IsPrepared, OptsInv, ByPrep, LoadedInv, BuiltInv,
           Delivered, WrittenInv, PushedInv, CleanInv
    <2> QED
      BY <2>1, <2>2, <2>3, <2>4, <2>5, <2>6, <2>7, <2>8, <2>9, <2>10, <2>11, <2>12, <2>13, <2>14
        DEF Next
  <1> QED
    BY <1>1, InitInv, PTL DEF Spec

(* Type correctness of the files, the registry and the scripts.              *)
THEOREM TypeCorrect == Spec => []TypeOK
  <1>1. Inv => TypeOK
    BY DEF Inv
  <1> QED
    BY <1>1, Invariance, PTL

(* Whatever failed on the way and however old the files are, a run of        *)
(* overcloud-prep.sh that ended well gives the deploy every image that can   *)
(* be patched, with the present patches, under all its parameters.           *)
THEOREM PatchesReachDeploy == Spec => []PatchesDelivered
  <1>1. Inv => PatchesDelivered
    <2> SUFFICES ASSUME Inv, Prepped, NEW i \in Patched, NEW n \in Keys,
                        n \in Replace[i], Parsed(prepared[From[i]])
                 PROVE  /\ output[n] = NewName(prepared[From[i]])
                        /\ registry[output[n]] = [base |-> prepared[From[i]], patch |-> patch]
      BY DEF PatchesDelivered
    <2>1. pc = "done" /\ ByPrep /\ opts.out
      BY DEF Prepped, ByPrep, Inv, OptsInv
    <2>2. output = images /\ DOMAIN todo = {}
      BY <2>1 DEF Inv, WrittenInv, Nothing
    <2>3. Delivered(i)
      BY <2>1, <2>2 DEF Inv, BuiltInv
    <2> QED
      BY <2>2, <2>3 DEF Delivered
  <1> QED
    BY <1>1, Invariance, PTL

(* When no command failed, the deploy finds all its images in the registry.  *)
THEOREM CleanRunStores == Spec => []StoredIfClean
  <1>1. Inv => StoredIfClean
    BY DEF Inv, OptsInv, ByPrep, WrittenInv, CleanInv, StoredIfClean, Prepped
  <1> QED
    BY <1>1, Invariance, PTL

(* A run that pushes never writes a name of a patched image for the deploy   *)
(* that the registry does not have.                                          *)
THEOREM WrittenAfterPush == Spec => OutputAfterPush
  <1>1. Inv /\ [Next]_vars =>
           [output' # output /\ output' # NoFile /\ opts.push =>
               \A k \in Keys : output'[k].path = "local" => output'[k] \in DOMAIN registry']_vars
    <2> SUFFICES ASSUME Inv, Next, output' # output, output' # NoFile, opts.push
                 PROVE  \A n \in Keys : output'[n].path = "local" => output'[n] \in DOMAIN registry'
      OBVIOUS
    <2>1. Write
      BY DEF Next, Release, EditPatch, PrepStart, HandStart, Begin, Prepare, Upload, Load, LoadFails,
           Build, BuildFails, WriteFails, End, files
    <2>2. pc = "build" /\ output' = images /\ registry' = registry
      BY <2>1 DEF Write
    <2> QED
      BY <2>2 DEF Inv, PushedInv
  <1> QED
    BY <1>1, Invariance, PTL DEF Spec, OutputAfterPush
=============================================================================
