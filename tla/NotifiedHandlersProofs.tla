----------------------- MODULE NotifiedHandlersProofs -----------------------
(***************************************************************************)
(* Theorems about the plays with handlers, for every selection of plays,   *)
(* number of edits and of redeployments: what a play that ended well has   *)
(* applied, and what a unit or container is started with.                  *)
(***************************************************************************)
EXTENDS NotifiedHandlers, TLAPS

(* ------------------------ what the plays consist of ---------------------- *)
Installs ==
    {Install(Units, "reload-systemd"), Install({"libvirt-guests"}, None),
     Install(KeystoneFiles, "restart-keystone"), Install({"filebeat"}, "restart-filebeat"),
     Install({"sudoers.d-stack"}, "relabel-etc-files"), Install({"moc.repo"}, "relabel-etc-files")}
Others == {Flush, StartUnits(Units), StartContainer({"filebeat"})}

LEMMA TaskFields ==
    /\ \A fs, h : /\ Install(fs, h).do = "install" /\ Install(fs, h).files = fs
                  /\ Install(fs, h).handler = h
    /\ Flush.do # "install" /\ Flush.files = {} /\ Flush.handler = None
    /\ \A fs : /\ StartUnits(fs).do # "install" /\ StartUnits(fs).files = fs
               /\ StartUnits(fs).handler = None
    /\ \A fs : /\ StartContainer(fs).do # "install" /\ StartContainer(fs).files = fs
               /\ StartContainer(fs).handler = None
  BY DEF Install, Flush, StartUnits, StartContainer

(* Every file a play starts something with is installed by the play.         *)
LEMMA PlayFacts ==
    ASSUME NEW p \in DOMAIN Plays
    PROVE  /\ Len(Plays[p]) \in Nat \ {0} /\ DOMAIN Plays[p] = 1..Len(Plays[p])
           /\ \A t \in DOMAIN Plays[p] : Plays[p][t] \in Installs \union Others
           /\ \A t \in DOMAIN Plays[p] : \A f \in Plays[p][t].files :
                 \E u \in DOMAIN Plays[p] : Plays[p][u].do = "install" /\ f \in Plays[p][u].files
  <1> USE TaskFields DEF Installs, Others
  <1>1. CASE p = "guests"
    <2>1. Plays[p] = LibvirtGuests
      BY <1>1 DEF Plays
    <2>2. /\ Len(LibvirtGuests) = 4 /\ DOMAIN LibvirtGuests = 1..4
          /\ LibvirtGuests[1] = Install(Units, "reload-systemd")
          /\ LibvirtGuests[2] = Install({"libvirt-guests"}, None)
          /\ LibvirtGuests[3] = Flush /\ LibvirtGuests[4] = StartUnits(Units)
      BY DEF LibvirtGuests
    <2>3. \A t \in 1..4 : t = 1 \/ t = 2 \/ t = 3 \/ t = 4
      OBVIOUS
    <2> QED
      BY <2>1, <2>2, <2>3
  <1>2. CASE p = "filebeat"
    <2>1. Plays[p] = Filebeat
      BY <1>2 DEF Plays
    <2>2. /\ Len(Filebeat) = 2 /\ DOMAIN Filebeat = 1..2
          /\ Filebeat[1] = Install({"filebeat"}, "restart-filebeat")
          /\ Filebeat[2] = StartContainer({"filebeat"})
      BY DEF Filebeat
    <2>3. \A t \in 1..2 : t = 1 \/ t = 2
      OBVIOUS
    <2> QED
      BY <2>1, <2>2, <2>3
  <1>3. CASE p \in {"keystone", "host", "overcloud"}
    <2>1. PICK a \in Installs : Plays[p] = <<a>>
      BY <1>3 DEF Plays, PatchKeystone, PrepareHost, PrepareOvercloud
    <2>2. Len(<<a>>) = 1 /\ DOMAIN <<a>> = 1..1 /\ <<a>>[1] = a
      OBVIOUS
    <2>3. a.do = "install" /\ \A t \in 1..1 : t = 1
      OBVIOUS
    <2> QED
      BY <2>1, <2>2, <2>3
  <1> QED
    BY <1>1, <1>2, <1>3 DEF Plays

LEMMA HandlerTypes ==
    ASSUME NEW a \in Installs \union Others
    PROVE  /\ a.handler \in Handlers \union {None}
           /\ a.do = "install" <=> a \in Installs
           /\ a \in Others => a.handler = None
  BY TaskFields DEF Installs, Others, Handlers

(* No file is installed by tasks that notify different handlers.             *)
LEMMA OneHandler ==
    ASSUME NEW a \in Installs, NEW b \in Installs \union Others, b.handler \in Handlers,
           NEW f \in a.files \intersect b.files
    PROVE  a.handler = b.handler
  <1>1. b \in Installs
    BY HandlerTypes, UsedAssumption
  <1>2. /\ f \in Units => a.handler = "reload-systemd"
        /\ f \in KeystoneFiles => a.handler = "restart-keystone"
        /\ f = "filebeat" => a.handler = "restart-filebeat"
        /\ f \in {"sudoers.d-stack", "moc.repo"} => a.handler = "relabel-etc-files"
    BY TaskFields DEF Installs, Units, KeystoneFiles
  <1>3. f = "libvirt-guests" => b.handler = None
    BY <1>1, TaskFields DEF Installs, Units, KeystoneFiles
  <1>4. /\ f \in Units => b.handler = "reload-systemd"
        /\ f \in KeystoneFiles => b.handler = "restart-keystone"
        /\ f = "filebeat" => b.handler = "restart-filebeat"
        /\ f \in {"sudoers.d-stack", "moc.repo"} => b.handler = "relabel-etc-files"
    BY <1>1, TaskFields DEF Installs, Units, KeystoneFiles
  <1>5. f \in Units \union KeystoneFiles
                \union {"filebeat", "sudoers.d-stack", "moc.repo", "libvirt-guests"}
    BY TaskFields DEF Installs
  <1> QED
    BY <1>2, <1>3, <1>4, <1>5, UsedAssumption

LEMMA LoadedIff ==
    ASSUME NEW hs, NEW f
    PROVE  f \in LoadedBy(hs) <=>
              \E p \in Used : \E t \in DOMAIN Plays[p] :
                  Plays[p][t].handler \in hs /\ f \in Plays[p][t].files
  BY DEF LoadedBy, Tasks

LEMMA FilesIff ==
    ASSUME NEW p, NEW f
    PROVE  f \in FilesOf(p) <=> \E t \in DOMAIN Plays[p] : f \in Plays[p][t].files
  BY DEF FilesOf, Tasks

(* Whatever loads a file that a task installs is what that task notifies.    *)
LEMMA NotifiedLoads ==
    ASSUME NEW p \in Used, NEW t \in DOMAIN Plays[p], Plays[p][t].do = "install",
           NEW f \in Plays[p][t].files, f \in LoadedBy(Handlers)
    PROVE  Plays[p][t].handler \in Handlers /\ f \in LoadedBy({Plays[p][t].handler})
  <1>0. PICK q \in Used : \E u \in DOMAIN Plays[q] :
           Plays[q][u].handler \in Handlers /\ f \in Plays[q][u].files
    BY LoadedIff
  <1>1. PICK u \in DOMAIN Plays[q] :
           Plays[q][u].handler \in Handlers /\ f \in Plays[q][u].files
    BY <1>0
  <1>2. p \in DOMAIN Plays /\ q \in DOMAIN Plays
    BY UsedAssumption
  <1>3. Plays[p][t] \in Installs /\ Plays[q][u] \in Installs \union Others
    BY <1>2, PlayFacts, HandlerTypes
  <1>4. Plays[p][t].handler = Plays[q][u].handler
    BY <1>1, <1>3, OneHandler
  <1> QED
    BY <1>1, <1>4, LoadedIff
-----------------------------------------------------------------------------
(* No more versions than edits. *)
Versions == TypeOK /\ \A f \in Files : want[f] <= 1 + edits

LEMMA CurrentFacts ==
    ASSUME TypeOK, pc # "idle"
    PROVE  /\ play \in Used /\ play \in DOMAIN Plays /\ task \in DOMAIN Plays[play]
           /\ DOMAIN Plays[play] = 1..Len(Plays[play]) /\ Len(Plays[play]) \in Nat \ {0}
           /\ Current \in Installs \union Others
           /\ Current.files \subseteq Files /\ FilesOf(play) \subseteq Files
           /\ Current.files \subseteq FilesOf(play)
           /\ Advance => task' \in DOMAIN Plays[play] /\ pc' \in {"tasks", "handlers"}
  <1>1. play \in Used /\ play \in DOMAIN Plays /\ task \in DOMAIN Plays[play]
    BY UsedAssumption DEF TypeOK
  <1>2. /\ DOMAIN Plays[play] = 1..Len(Plays[play]) /\ Len(Plays[play]) \in Nat \ {0}
        /\ Current \in Installs \union Others
    BY <1>1, PlayFacts DEF Current
  <1>3. FilesOf(play) \subseteq Files
    BY <1>1 DEF Files
  <1>4. Current.files \subseteq FilesOf(play)
    BY <1>1, FilesIff DEF Current
  <1>5. Advance => task' \in DOMAIN Plays[play] /\ pc' \in {"tasks", "handlers"}
    BY <1>1, <1>2 DEF Advance
  <1> QED
    BY <1>1, <1>2, <1>3, <1>4, <1>5

LEMMA VersionsNext ==
    ASSUME Versions, [Next]_vars
    PROVE  Versions'
  <1> USE BoundAssumption
  <1>1. CASE \E f \in Files : Edit(f)
    BY <1>1 DEF Edit, Versions, TypeOK
  <1>2. CASE Redeploy
    BY <1>2 DEF Redeploy, Versions, TypeOK
  <1>3. CASE \E p \in Used : Stop(p)
    BY <1>3 DEF Stop, Versions, TypeOK
  <1>4. CASE \E p \in Used : Begin(p)
    <2>1. PICK p \in Used : Begin(p)
      BY <1>4
    <2>2. 1 \in DOMAIN Plays[p]
      BY UsedAssumption, PlayFacts
    <2> QED
      BY <2>1, <2>2 DEF Begin, Versions, TypeOK
  <1>5. CASE InstallFiles
    <2>1. pc = "tasks" /\ Advance /\ play' = play /\ Update(Outdated)
          /\ UNCHANGED <<want, loaded, up, edits, resets, orphaned>>
          /\ notified' \subseteq notified \union ({Current.handler} \ {None})
      BY <1>5 DEF InstallFiles
    <2>2. /\ Current.handler \in Handlers \union {None}
          /\ play \in Used /\ task' \in DOMAIN Plays[play] /\ pc' \in {"tasks", "handlers"}
      BY <2>1, CurrentFacts, HandlerTypes DEF Versions
    <2> QED
      BY <2>1, <2>2 DEF Update, Versions, TypeOK
  <1>6. CASE \E h \in Handlers : Handle(h)
    BY <1>6 DEF Handle, Load, Versions, TypeOK
  <1>7. CASE Flushed
    <2>1. play \in Used /\ task' \in DOMAIN Plays[play] /\ pc' \in {"tasks", "handlers"}
      BY <1>7, CurrentFacts DEF Flushed, Versions
    <2> QED
      BY <1>7, <2>1 DEF Flushed, Versions, TypeOK
  <1>8. CASE StartService
    <2>1. play \in Used /\ task' \in DOMAIN Plays[play] /\ pc' \in {"tasks", "handlers"}
      BY <1>8, CurrentFacts DEF StartService, Versions
    <2>2. loaded' \in [Files -> 0..(1 + MaxEdits)]
      BY <1>8 DEF StartService, Load, Versions, TypeOK
    <2>3. UNCHANGED <<want, have, play, notified, edits, resets, orphaned>>
          /\ up' = up \union {play}
      BY <1>8 DEF StartService
    <2> QED
      BY <2>1, <2>2, <2>3 DEF Versions, TypeOK
  <1>9. CASE Finish
    BY <1>9 DEF Finish, Versions, TypeOK
  <1>10. CASE Fail
    <2>1. PICK S \in SUBSET (IF Current.do = "install" /\ pc = "tasks" THEN Outdated ELSE {}) :
             /\ Update(S)
             /\ orphaned' = orphaned \union S \union (LoadedBy(notified) \intersect FilesOf(play))
      BY <1>10 DEF Fail
    <2>2. pc \in {"tasks", "handlers"} /\ notified' = {} /\ pc' = "failed"
          /\ UNCHANGED <<want, loaded, up, play, task, edits, resets>>
      BY <1>10 DEF Fail
    <2>3. S \subseteq Files /\ FilesOf(play) \subseteq Files
      BY <2>1, <2>2, CurrentFacts DEF Outdated, Versions
    <2> QED
      BY <2>1, <2>2, <2>3 DEF Update, Versions, TypeOK
  <1>11. CASE End
    BY <1>11 DEF End, Versions, TypeOK
  <1>12. CASE UNCHANGED vars
    BY <1>12 DEF vars, Versions, TypeOK
  <1> QED
    BY <1>1, <1>2, <1>3, <1>4, <1>5, <1>6, <1>7, <1>8, <1>9, <1>10, <1>11, <1>12 DEF Next

(* The versions on the host, in the readers and in the repository stay what  *)
(* they can be, and a run is always at a task of its play.                   *)
THEOREM TypeCorrect == Spec => []TypeOK
  <1>1. Init => Versions
    BY BoundAssumption DEF Init, Versions, TypeOK
  <1>2. Versions /\ [Next]_vars => Versions'
    BY VersionsNext
  <1>3. Versions => TypeOK
    BY DEF Versions
  <1> QED
    BY <1>1, <1>2, <1>3, PTL DEF Spec
-----------------------------------------------------------------------------
(* The inductive invariant.  The files of the tasks that are behind are on   *)
(* the host; what is on the host and not loaded has its handler notified by  *)
(* the play that runs, or its play failed; and a unit is started when the    *)
(* handlers have run.                                                        *)
Behind(t) == t < task \/ pc \in {"handlers", "done"}
Written ==
    pc \in {"tasks", "handlers", "done"} =>
        \A t \in DOMAIN Plays[play] : Behind(t) /\ Plays[play][t].do = "install" =>
            \A f \in Plays[play][t].files : have[f] = want[f]
Pending(f) ==
    /\ pc \in {"tasks", "handlers"} /\ f \in FilesOf(play)
    /\ \E h \in notified : f \in LoadedBy({h})
Accounted ==
    \A f \in Files \intersect LoadedBy(Handlers) :
        loaded[f] = have[f] \/ f \in orphaned \/ Pending(f)
StartInv ==
    /\ pc \notin {"tasks", "handlers"} => notified = {}
    /\ pc = "tasks" /\ play = "guests" /\ task = 4 => notified = {}
Inv == Versions /\ Written /\ Accounted /\ StartInv

LEMMA GuestsTasks ==
    /\ DOMAIN Plays["guests"] = 1..4 /\ Len(Plays["guests"]) = 4
    /\ Plays["guests"][3] = Flush /\ Plays["guests"][4] = StartUnits(Units)
    /\ Plays["guests"][1].do = "install" /\ Plays["guests"][2].do = "install"
    /\ "guests" \in DOMAIN Plays
  <1>1. Plays["guests"] = LibvirtGuests /\ "guests" \in DOMAIN Plays
    BY DEF Plays
  <1> QED
    BY <1>1, TaskFields DEF LibvirtGuests

(* Units are started by the last task of one play.                           *)
LEMMA OnlyGuestsStartUnits ==
    ASSUME NEW p \in DOMAIN Plays, NEW t \in DOMAIN Plays[p], Plays[p][t].do = "start-unit"
    PROVE  p = "guests" /\ t = 4
  <1>1. CASE p = "guests"
    BY <1>1, GuestsTasks, TaskFields DEF Flush
  <1>2. CASE p = "filebeat"
    BY <1>2 DEF Plays, Filebeat, Install, StartContainer
  <1>3. CASE p \in {"keystone", "host", "overcloud"}
    BY <1>3 DEF Plays, PatchKeystone, PrepareHost, PrepareOvercloud, Install
  <1> QED
    BY <1>1, <1>2, <1>3 DEF Plays

LEMMA LoadedMonotone ==
    ASSUME NEW hs, NEW h \in hs
    PROVE  LoadedBy({h}) \subseteq LoadedBy(hs)
  BY LoadedIff

LEMMA WrittenNext ==
    ASSUME Versions, Written, StartInv, [Next]_vars
    PROVE  Written' /\ StartInv'
  <1> USE DEF Behind
  <1>1. CASE InstallFiles
    <2>1. /\ pc = "tasks" /\ Current.do = "install" /\ Update(Outdated) /\ Advance
          /\ UNCHANGED <<want, play>>
      BY <1>1 DEF InstallFiles
    <2>2. /\ play \in DOMAIN Plays /\ task \in DOMAIN Plays[play]
          /\ DOMAIN Plays[play] = 1..Len(Plays[play]) /\ Len(Plays[play]) \in Nat \ {0}
          /\ Current.files \subseteq Files
          /\ Current = Plays[play][task]
      BY <2>1, CurrentFacts DEF Versions, Current
    <2>3. have \in [Files -> 0..(1 + MaxEdits)]
      BY DEF Versions, TypeOK
    <2>4. \A f \in Files : have[f] = want[f] => have'[f] = want'[f]
      BY <2>1, <2>3 DEF Update
    <2>5. \A f \in Current.files : have'[f] = want'[f]
      BY <2>1, <2>2, <2>3 DEF Update, Outdated
    <2>6. \A t \in DOMAIN Plays[play] : Plays[play][t].files \subseteq Files
      BY <2>1, CurrentFacts, FilesIff DEF Versions
    <2>7. ASSUME NEW t \in DOMAIN Plays[play], Behind(t)', Plays[play][t].do = "install",
                 NEW f \in Plays[play][t].files
          PROVE  have'[f] = want'[f]
      <3>1. CASE t = task
        BY <2>2, <2>5, <3>1
      <3>2. CASE t # task
        <4>1. t < task
          BY <2>1, <2>2, <2>7, <3>2 DEF Advance
        <4>2. have[f] = want[f]
          BY <2>1, <2>7, <4>1 DEF Written
        <4> QED
          BY <2>4, <2>6, <4>2
      <3> QED
        BY <3>1, <3>2
    <2>8. Written'
      BY <2>1, <2>7 DEF Written
    <2>9. ~(play = "guests" /\ task' = 4 /\ pc' = "tasks")
      BY <2>1, <2>2, GuestsTasks, TaskFields DEF Advance
    <2>10. pc' \in {"tasks", "handlers"}
      BY <2>1, CurrentFacts DEF Versions
    <2> QED
      BY <2>1, <2>8, <2>9, <2>10 DEF StartInv
  <1>2. CASE Flushed \/ StartService
    <2>1. /\ pc = "tasks" /\ Current.do # "install" /\ Advance
          /\ UNCHANGED <<want, have, play, notified>>
      BY <1>2 DEF Flushed, StartService
    <2>2. /\ play \in DOMAIN Plays /\ task \in DOMAIN Plays[play]
          /\ DOMAIN Plays[play] = 1..Len(Plays[play]) /\ Len(Plays[play]) \in Nat \ {0}
          /\ Current = Plays[play][task] /\ pc' \in {"tasks", "handlers"}
      BY <2>1, CurrentFacts DEF Versions, Current
    <2>3. ASSUME NEW t \in DOMAIN Plays[play], Behind(t)', Plays[play][t].do = "install"
          PROVE  t < task
      BY <2>1, <2>2, <2>3 DEF Advance
    <2>4. Written'
      BY <2>1, <2>3 DEF Written
    <2>5. play = "guests" /\ task' = 4 /\ pc' = "tasks" => task = 3
      BY <2>1, <2>2, GuestsTasks DEF Advance
    <2>6. play = "guests" /\ task = 3 => Current.do = "flush"
      BY <2>2, GuestsTasks DEF Flush
    <2>7. Current.do = "flush" => notified = {}
      BY <1>2 DEF Flushed, StartService
    <2> QED
      BY <2>1, <2>2, <2>4, <2>5, <2>6, <2>7 DEF StartInv
  <1>3. CASE \E h \in Handlers : Handle(h)
    <2>1. PICK h \in Handlers : Handle(h)
      BY <1>3
    <2>2. /\ UNCHANGED <<want, have, play, task, pc>> /\ notified' = notified \ {h}
          /\ h \in notified
      BY <2>1 DEF Handle
    <2> QED
      BY <2>2 DEF Written, StartInv
  <1>4. CASE \E p \in Used : Begin(p)
    <2>1. PICK p \in Used : Begin(p)
      BY <1>4
    <2>2. \A t \in DOMAIN Plays[p] : ~(t < 1)
      BY UsedAssumption, PlayFacts
    <2> QED
      BY <2>1, <2>2 DEF Begin, Written, StartInv
  <1>5. CASE (\E f \in Files : Edit(f)) \/ Redeploy \/ \E p \in Used : Stop(p)
    <2>1. pc = "idle" /\ UNCHANGED <<pc, notified>>
      BY <1>5 DEF Edit, Redeploy, Stop
    <2> QED
      BY <2>1 DEF Written, StartInv
  <1>6. CASE Finish
    BY <1>6 DEF Finish, Written, StartInv
  <1>7. CASE Fail \/ End
    <2>1. /\ pc' \in {"failed", "idle"}
          /\ notified' = {} \/ (pc \in {"done", "failed"} /\ notified' = notified)
      BY <1>7 DEF Fail, End
    <2> QED
      BY <2>1 DEF Written, StartInv
  <1>8. CASE UNCHANGED vars
    BY <1>8 DEF vars, Written, StartInv
  <1> QED
    BY <1>1, <1>2, <1>3, <1>4, <1>5, <1>6, <1>7, <1>8 DEF Next

LEMMA AccountedNext ==
    ASSUME Versions, Accounted, StartInv, [Next]_vars
    PROVE  Accounted'
  <1> DEFINE Loadable == Files \intersect LoadedBy(Handlers)
  <1>0. have \in [Files -> 0..(1 + MaxEdits)] /\ loaded \in [Files -> 0..(1 + MaxEdits)]
    BY DEF Versions, TypeOK
  <1>1. CASE InstallFiles
    <2>1. /\ pc = "tasks" /\ Current.do = "install" /\ Update(Outdated) /\ Advance
          /\ UNCHANGED <<want, play, loaded, orphaned>>
          /\ notified' = IF Outdated # {} THEN notified \union ({Current.handler} \ {None})
                         ELSE notified
      BY <1>1 DEF InstallFiles
    <2>2. /\ play \in Used /\ task \in DOMAIN Plays[play] /\ Current = Plays[play][task]
          /\ Current.files \subseteq FilesOf(play) /\ pc' \in {"tasks", "handlers"}
      BY <2>1, CurrentFacts DEF Versions, Current
    <2> SUFFICES ASSUME NEW f \in Loadable
                 PROVE  loaded'[f] = have'[f] \/ f \in orphaned' \/ Pending(f)'
      BY DEF Accounted
    <2>3. CASE f \in Outdated
      <3>1. Current.handler \in Handlers /\ f \in LoadedBy({Current.handler})
        BY <2>1, <2>2, <2>3, NotifiedLoads DEF Outdated
      <3>2. Current.handler \in notified' /\ f \in FilesOf(play)
        BY <2>1, <2>2, <2>3, <3>1, UsedAssumption DEF Outdated
      <3> QED
        BY <2>1, <2>2, <3>1, <3>2 DEF Pending
    <2>4. CASE f \notin Outdated
      <3>1. have'[f] = have[f] /\ loaded'[f] = loaded[f]
        BY <1>0, <2>1, <2>4 DEF Update
      <3>2. Pending(f) => Pending(f)'
        BY <2>1, <2>2 DEF Pending
      <3> QED
        BY <2>1, <3>1, <3>2 DEF Accounted
    <2> QED
      BY <2>3, <2>4
  <1>2. CASE \E h \in Handlers : Handle(h)
    <2>1. PICK h \in Handlers : Handle(h)
      BY <1>2
    <2>2. /\ Load(LoadedBy({h})) /\ notified' = notified \ {h}
          /\ orphaned' = orphaned \ LoadedBy({h}) /\ UNCHANGED <<have, play, pc>>
      BY <2>1 DEF Handle
    <2> SUFFICES ASSUME NEW f \in Loadable
                 PROVE  loaded'[f] = have'[f] \/ f \in orphaned' \/ Pending(f)'
      BY DEF Accounted
    <2>3. CASE f \in LoadedBy({h})
      BY <2>2, <2>3 DEF Load
    <2>4. CASE f \notin LoadedBy({h})
      <3>1. loaded'[f] = loaded[f]
        BY <2>2, <2>4 DEF Load
      <3>2. Pending(f) => Pending(f)'
        BY <2>2, <2>4 DEF Pending
      <3> QED
        BY <2>2, <2>4, <3>1, <3>2 DEF Accounted
    <2> QED
      BY <2>3, <2>4
  <1>3. CASE Flushed
    <2>1. /\ pc = "tasks" /\ pc' \in {"tasks", "handlers"}
          /\ UNCHANGED <<have, loaded, orphaned, play, notified>>
      BY <1>3, CurrentFacts DEF Flushed, Versions
    <2> QED
      BY <2>1 DEF Accounted, Pending
  <1>4. CASE StartService
    <2>1. /\ pc = "tasks" /\ pc' \in {"tasks", "handlers"}
          /\ UNCHANGED <<have, orphaned, play, notified>>
      BY <1>4, CurrentFacts DEF StartService, Versions
    <2>2. \A f \in Files : loaded'[f] = loaded[f] \/ loaded'[f] = have[f]
      BY <1>4 DEF StartService, Load
    <2> QED
      BY <2>1, <2>2 DEF Accounted, Pending
  <1>5. CASE Fail
    <2>1. PICK S \in SUBSET (IF Current.do = "install" /\ pc = "tasks" THEN Outdated ELSE {}) :
             /\ Update(S)
             /\ orphaned' = orphaned \union S \union (LoadedBy(notified) \intersect FilesOf(play))
      BY <1>5 DEF Fail
    <2>2. UNCHANGED <<loaded, play>>
      BY <1>5 DEF Fail
    <2> SUFFICES ASSUME NEW f \in Loadable
                 PROVE  loaded'[f] = have'[f] \/ f \in orphaned'
      BY DEF Accounted
    <2>3. CASE f \in S
      BY <2>1, <2>3
    <2>4. CASE f \notin S
      <3>1. have'[f] = have[f] /\ loaded'[f] = loaded[f]
        BY <1>0, <2>1, <2>2, <2>4 DEF Update
      <3>2. Pending(f) => f \in orphaned'
        BY <2>1, LoadedMonotone DEF Pending
      <3> QED
        BY <2>1, <3>1, <3>2 DEF Accounted
    <2> QED
      BY <2>3, <2>4
  <1>6. CASE Redeploy
    <2>1. /\ pc = "idle"
          /\ have' = [f \in Files |-> IF f \in KeystoneFiles THEN 0 ELSE have[f]]
          /\ loaded' = [f \in Files |-> IF f \in KeystoneFiles THEN 0 ELSE loaded[f]]
          /\ orphaned' = orphaned \ KeystoneFiles
      BY <1>6 DEF Redeploy
    <2> SUFFICES ASSUME NEW f \in Loadable
                 PROVE  loaded'[f] = have'[f] \/ f \in orphaned'
      BY DEF Accounted
    <2>2. loaded[f] = have[f] \/ f \in orphaned
      BY <2>1 DEF Accounted, Pending
    <2> QED
      BY <2>1, <2>2
  <1>7. CASE (\E f \in Files : Edit(f)) \/ (\E p \in Used : Stop(p) \/ Begin(p)) \/ Finish \/ End
    <2>1. UNCHANGED <<have, loaded, orphaned>> /\ (pc \notin {"tasks", "handlers"} \/ notified = {})
      BY <1>7 DEF Edit, Stop, Begin, Finish, End
    <2> QED
      BY <2>1 DEF Accounted, Pending
  <1>8. CASE UNCHANGED vars
    BY <1>8 DEF vars, Accounted, Pending
  <1> QED
    BY <1>1, <1>2, <1>3, <1>4, <1>5, <1>6, <1>7, <1>8 DEF Next

LEMMA Invariant == Spec => []Inv
  <1>1. Init => Inv
    BY BoundAssumption DEF Init, Inv, Versions, TypeOK, Written, Accounted, StartInv
  <1>2. Inv /\ [Next]_vars => Inv'
    BY VersionsNext, WrittenNext, AccountedNext DEF Inv
  <1> QED
    BY <1>1, <1>2, PTL DEF Spec

(* A play that ended well has put its files on the host, and every reader    *)
(* that has a handler has loaded them, but for a file that changed in a play *)
(* that failed; whatever was edited, redeployed, stopped or failed before.   *)
THEOREM AppliedOrOrphaned == Spec => []AppliedUnlessOrphaned
  <1>1. Inv => AppliedUnlessOrphaned
    <2> SUFFICES ASSUME Inv, pc = "done", NEW f \in FilesOf(play)
                 PROVE  /\ have[f] = want[f]
                        /\ f \in LoadedBy(Handlers) => loaded[f] = have[f] \/ f \in orphaned
      BY DEF AppliedUnlessOrphaned
    <2>1. play \in DOMAIN Plays /\ FilesOf(play) \subseteq Files
      BY CurrentFacts DEF Inv, Versions
    <2>2. PICK u \in DOMAIN Plays[play] : Plays[play][u].do = "install" /\ f \in Plays[play][u].files
      BY <2>1, PlayFacts, FilesIff
    <2>3. have[f] = want[f]
      BY <2>2 DEF Inv, Written, Behind
    <2>4. f \in LoadedBy(Handlers) => loaded[f] = have[f] \/ f \in orphaned
      BY <2>1 DEF Inv, Accounted, Pending
    <2> QED
      BY <2>3, <2>4
  <1> QED
    BY <1>1, Invariant, PTL

(* What a play starts is started with the files as they are on the host: the *)
(* flush before it has had systemd load them, or the container reads them.   *)
THEOREM StartsFresh == Spec => StartedFresh
  <1>1. Inv /\ [Next]_vars =>
           [\A p \in Used : p \in up' \ up =>
               \A f \in FilesOf(p) \intersect LoadedBy(Handlers) :
                   loaded'[f] = have[f] \/ f \in orphaned]_vars
    <2> SUFFICES ASSUME Inv, Next, NEW p \in Used, p \in up' \ up,
                        NEW f \in FilesOf(p) \intersect LoadedBy(Handlers)
                 PROVE  loaded'[f] = have[f] \/ f \in orphaned
      OBVIOUS
    <2>1. StartService
      BY DEF Next, Edit, Redeploy, Stop, Begin, InstallFiles, Handle, Flushed, Finish, Fail, End
    <2>2. /\ pc = "tasks" /\ Current.do \in {"start-unit", "start-container"}
          /\ up' = up \union {play} /\ p = play /\ play \notin up
          /\ Load({g \in Current.files : Current.do = "start-container" \/ loaded[g] = 0})
      BY <2>1 DEF StartService
    <2>3. f \in Files /\ play \in DOMAIN Plays /\ task \in DOMAIN Plays[play]
          /\ Current = Plays[play][task]
      BY <2>2, CurrentFacts DEF Inv, Versions, Current
    <2>4. loaded'[f] = loaded[f] \/ loaded'[f] = have[f]
      BY <2>2, <2>3 DEF Load
    <2>5. CASE Current.do = "start-unit"
      <3>1. notified = {}
        BY <2>2, <2>3, <2>5, OnlyGuestsStartUnits DEF Inv, StartInv
      <3>2. loaded[f] = have[f] \/ f \in orphaned
        BY <2>3, <3>1 DEF Inv, Accounted, Pending
      <3> QED
        BY <2>4, <3>2
    <2>6. CASE Current.do = "start-container"
      <3>1. play = "filebeat" /\ Current = StartContainer({"filebeat"})
        BY <2>3, <2>6 DEF Plays, LibvirtGuests, PatchKeystone, Filebeat, PrepareHost,
                          PrepareOvercloud, Install, Flush, StartUnits, StartContainer
      <3>2. f = "filebeat"
        BY <2>2, <3>1, FilesIff, TaskFields DEF Plays, Filebeat
      <3> QED
        BY <2>2, <2>3, <2>6, <3>1, <3>2, TaskFields DEF Load
    <2> QED
      BY <2>2, <2>5, <2>6
  <1> QED
    BY <1>1, Invariant, PTL DEF Spec, StartedFresh
=============================================================================
