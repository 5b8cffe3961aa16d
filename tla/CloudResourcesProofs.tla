------------------------ MODULE CloudResourcesProofs ------------------------
(***************************************************************************)
(* Theorems about create-overcloud-resources.yml, for any number of runs,  *)
(* tags, items, deletions and failing calls: a run that ends well leaves   *)
(* everything there, and one that nothing disturbs ends well.              *)
(***************************************************************************)
EXTENDS CloudResources, SequenceTheorems, TLAPS

Variables ==
    /\ there \subseteq Resources /\ \A x \in there : Possible(x)
    /\ state \in [Runs -> {"running", "done", "failed"}]
    /\ selected \in [Runs -> Selections \union {<<>>}]
    /\ todo \in [Runs -> Seq(Tasks)]
    /\ item \in [Runs -> 1..Items] /\ missing \in [Runs -> SUBSET (1..Items)]
    /\ bad \in [Runs -> BOOLEAN] /\ disturbed \in [Runs -> BOOLEAN]
    /\ gone \in [Runs -> SUBSET Resources]
    /\ begins \in 0..MaxBegins /\ deletes \in 0..MaxDeletes

(* The number of the task a run is at. *)
At(r) == Len(selected[r]) - Len(todo[r]) + 1
Position(r) ==
    /\ selected[r] \in Selections /\ Len(todo[r]) \in 1..Len(selected[r])
    /\ \A j \in 1..Len(todo[r]) : todo[r][j] = selected[r][Len(selected[r]) - Len(todo[r]) + j]
    /\ item[r] \in ItemsOf(Now(r).kind)

(* What the run has seen or made is there, or somebody has deleted it.       *)
Safe(r, kind, i) == <<kind, i>> \in there \union gone[r]
Made(r) ==
    /\ \A t \in 1..(At(r) - 1) : selected[r][t].do \in Makes =>
          \A i \in ItemsOf(selected[r][t].kind) : Safe(r, selected[r][t].kind, i)
    /\ Now(r).do \in Makes /\ ~bad[r] =>
          \A i \in ItemsOf(Now(r).kind) : i < item[r] => Safe(r, Now(r).kind, i)
Found(r) ==
    Now(r).do # "ensure" /\ ~bad[r] =>
        \A i \in ItemsOf(Now(r).kind) :
            i \notin missing[r] /\ (Now(r).do \in Looks => i < item[r]) => Safe(r, Now(r).kind, i)
(* Undisturbed, what the run takes to be missing is missing until it is made. *)
Missed(r) ==
    Now(r).do # "ensure" /\ ~disturbed[r] =>
        \A i \in ItemsOf(Now(r).kind) :
            /\ i \in missing[r]
            /\ Now(r).do \in Looks => i < item[r]
            /\ Now(r).do \in Makes => i >= item[r]
            => <<Now(r).kind, i>> \notin there
Blame(r) == (bad[r] => disturbed[r]) /\ (~disturbed[r] => gone[r] = {})
RunInv(r) ==
    IF Running(r) THEN Position(r) /\ Made(r) /\ Found(r) /\ Missed(r) /\ Blame(r)
    ELSE item[r] = 1 /\ bad[r] = FALSE
Inv == Variables /\ \A r \in Runs : RunInv(r)
-----------------------------------------------------------------------------
LEMMA ItemsFacts ==
    ASSUME NEW kind
    PROVE  /\ ItemsOf(kind) \subseteq 1..Items /\ 1 \in ItemsOf(kind)
           /\ \A i \in ItemsOf(kind) : i \in Nat /\ i >= 1
           /\ \A i \in ItemsOf(kind), j \in Nat : j >= 1 /\ j <= i => j \in ItemsOf(kind)
           /\ \A i \in ItemsOf(kind) : i + 1 \notin ItemsOf(kind) =>
                 \A j \in ItemsOf(kind) : j <= i
  BY BoundAssumption DEF ItemsOf

(* A resource has an item for each of those that need it.                    *)
LEMMA NeedsItems ==
    ASSUME NEW kind, NEW k \in Needs(kind)
    PROVE  ItemsOf(kind) \subseteq ItemsOf(k)
  BY BoundAssumption DEF Needs, ItemsOf

LEMMA TaskKinds ==
    ASSUME NEW s \in Selections
    PROVE  /\ s \in Seq(Tasks) /\ Len(s) \in Nat \ {0} /\ DOMAIN s = 1..Len(s)
           /\ \A t \in 1..Len(s) : s[t] \in Tasks
           /\ \A t \in 1..Len(s) : s[t].do \in Looks \union IfMissing \union Makes
  <1>1. s \in Seq(Tasks) /\ s # <<>>
    BY TagsAssumption DEF WholeRoles
  <1>2. Len(s) \in Nat \ {0} /\ DOMAIN s = 1..Len(s) /\ \A t \in 1..Len(s) : s[t] \in Tasks
    BY <1>1
  <1>3. \A x \in Tasks : x.do \in Looks \union IfMissing \union Makes
    BY DEF Tasks
  <1> QED
    BY <1>1, <1>2, <1>3

LEMMA TaskResources ==
    ASSUME NEW x \in Tasks, NEW i \in ItemsOf(x.kind)
    PROVE  <<x.kind, i>> \in Resources
  <1>1. PICK t \in DOMAIN Playbook : x.kind = Playbook[t].kind
    BY DEF Tasks
  <1> QED
    BY <1>1 DEF Resources, ResourcesOf

LEMMA Arithmetic ==
    \A n \in Nat : \A m \in 1..n : 1 \in 1..m /\ n - m + 1 \in 1..n /\ m \in Nat \ {0}
  OBVIOUS

(* Where a run is: its task is that of the selection.                        *)
LEMMA Where ==
    ASSUME NEW r \in Runs, Variables, Running(r), Position(r)
    PROVE  /\ At(r) \in 1..Len(selected[r]) /\ Now(r) = selected[r][At(r)]
           /\ Now(r) \in Tasks /\ Now(r).do \in Looks \union IfMissing \union Makes
           /\ item[r] \in Nat /\ item[r] >= 1 /\ Target(r) \in Resources
           /\ Target(r) = <<Now(r).kind, item[r]>>
           /\ Len(todo[r]) \in Nat \ {0} /\ At(r) = Len(selected[r]) - Len(todo[r]) + 1
           /\ Len(selected[r]) \in Nat
  <1>1. /\ selected[r] \in Selections /\ Len(todo[r]) \in 1..Len(selected[r])
        /\ \A j \in 1..Len(todo[r]) : todo[r][j] = selected[r][Len(selected[r]) - Len(todo[r]) + j]
        /\ item[r] \in ItemsOf(Now(r).kind)
    BY DEF Position
  <1>2. Len(selected[r]) \in Nat \ {0}
    BY <1>1, TaskKinds
  <1>3. At(r) \in 1..Len(selected[r]) /\ Len(todo[r]) \in Nat \ {0}
    BY <1>1, <1>2, Arithmetic DEF At
  <1>4. todo[r] \in Seq(Tasks) /\ todo[r] # <<>>
    BY <1>1, <1>3 DEF Variables
  <1>5. Now(r) = todo[r][1]
    BY <1>4 DEF Now
  <1>6. Now(r) = selected[r][At(r)]
    <2>1. todo[r][1] = selected[r][Len(selected[r]) - Len(todo[r]) + 1]
      BY <1>1, <1>2, <1>3, Arithmetic
    <2> QED
      BY <1>5, <2>1 DEF At
  <1>7. Now(r) \in Tasks /\ Now(r).do \in Looks \union IfMissing \union Makes
    BY <1>1, <1>3, <1>6, TaskKinds
  <1>8. item[r] \in Nat /\ item[r] >= 1
    BY <1>1, ItemsFacts
  <1> QED
    <2>1. Target(r) = <<Now(r).kind, item[r]>> /\ Target(r) \in Resources
      BY <1>1, <1>7, TaskResources DEF Target
    <2> QED
      BY <1>1, <1>2, <1>3, <1>6, <1>7, <1>8, <2>1 DEF At
-----------------------------------------------------------------------------
(* How an item of a task ends: on to the next item, on to the next task, or  *)
(* the run ends, well or not.                                                *)
ToItem(r, ok, m) ==
    /\ MoreItems(r) /\ item'[r] = item[r] + 1 /\ missing'[r] = m
    /\ (bad'[r] <=> bad[r] \/ ~ok)
    /\ state'[r] = state[r] /\ todo'[r] = todo[r]
ToTask(r, ok, m) ==
    /\ ~MoreItems(r) /\ ~bad[r] /\ ok /\ MoreTasks(r)
    /\ todo'[r] = Tail(todo[r]) /\ item'[r] = 1 /\ missing'[r] = m
    /\ state'[r] = state[r] /\ bad'[r] = bad[r]
ToEnd(r, result) ==
    /\ ~MoreItems(r) /\ state'[r] = result /\ item'[r] = 1 /\ bad'[r] = FALSE
Alone(r) ==
    \A q \in Runs \ {r} :
        /\ state'[q] = state[q] /\ todo'[q] = todo[q] /\ item'[q] = item[q]
        /\ missing'[q] = missing[q] /\ bad'[q] = bad[q]
RunTypes ==
    /\ state \in [Runs -> {"running", "done", "failed"}] /\ todo \in [Runs -> Seq(Tasks)]
    /\ item \in [Runs -> 1..Items] /\ missing \in [Runs -> SUBSET (1..Items)]
    /\ bad \in [Runs -> BOOLEAN]

LEMMA EndsFacts ==
    ASSUME NEW r \in Runs, RunTypes, NEW result \in {"done", "failed"}, Ends(r, result)
    PROVE  /\ RunTypes' /\ Alone(r) /\ state'[r] = result /\ item'[r] = 1 /\ bad'[r] = FALSE
  <1>1. <<>> \in Seq(Tasks) /\ 1 \in 1..Items
    BY BoundAssumption
  <1> QED
    BY <1>1 DEF Ends, RunTypes, Alone

LEMMA NextItemFacts ==
    ASSUME NEW r \in Runs, RunTypes, NEW ok \in BOOLEAN, NEW m \in SUBSET (1..Items),
           todo[r] # <<>>, NextItem(r, ok, m)
    PROVE  /\ RunTypes' /\ Alone(r)
           /\ \/ ToItem(r, ok, m) \/ ToTask(r, ok, m)
              \/ ToEnd(r, "failed") /\ (bad[r] \/ ~ok)
              \/ ToEnd(r, "done") /\ ~bad[r] /\ ok /\ ~MoreTasks(r)
  <1>0. DOMAIN state = Runs /\ DOMAIN todo = Runs /\ DOMAIN item = Runs /\ DOMAIN missing = Runs
        /\ DOMAIN bad = Runs /\ bad[r] \in BOOLEAN
    BY DEF RunTypes
  <1>1. CASE MoreItems(r)
    <2>1. /\ item' = [item EXCEPT ![r] = @ + 1] /\ bad' = [bad EXCEPT ![r] = bad[r] \/ ~ok]
          /\ missing' = [missing EXCEPT ![r] = m] /\ state' = state /\ todo' = todo
      BY <1>1 DEF NextItem
    <2>2. item[r] + 1 \in 1..Items
      BY <1>1, ItemsFacts DEF MoreItems
    <2>3. (bad[r] \/ ~ok) \in BOOLEAN
      OBVIOUS
    <2>4. bad' \in [Runs -> BOOLEAN] /\ bad'[r] = (bad[r] \/ ~ok)
      BY <1>0, <2>1, <2>3, Zenon DEF RunTypes
    <2>5. RunTypes'
      BY <2>1, <2>2, <2>4 DEF RunTypes
    <2>6. Alone(r) /\ item'[r] = item[r] + 1 /\ missing'[r] = m
      BY <1>0, <2>1 DEF Alone
    <2>7. ToItem(r, ok, m)
      BY <1>1, <2>1, <2>4, <2>6 DEF ToItem
    <2> QED
      BY <2>5, <2>6, <2>7
  <1>2. CASE ~MoreItems(r) /\ ~(bad[r] \/ ~ok) /\ MoreTasks(r)
    <2>1. /\ todo' = [todo EXCEPT ![r] = Tail(@)] /\ item' = [item EXCEPT ![r] = 1]
          /\ missing' = [missing EXCEPT ![r] = m] /\ state' = state /\ bad' = bad
      BY <1>2 DEF NextItem
    <2>2. Tail(todo[r]) \in Seq(Tasks) /\ 1 \in 1..Items
      BY BoundAssumption DEF RunTypes
    <2>3. RunTypes'
      BY <2>1, <2>2 DEF RunTypes
    <2>4. Alone(r) /\ ToTask(r, ok, m)
      BY <1>0, <1>2, <2>1 DEF Alone, ToTask
    <2> QED
      BY <2>3, <2>4
  <1>3. CASE ~MoreItems(r) /\ (bad[r] \/ ~ok)
    <2>1. Ends(r, "failed")
      BY <1>3 DEF NextItem
    <2> QED
      BY <1>3, <2>1, EndsFacts DEF ToEnd
  <1>4. CASE ~MoreItems(r) /\ ~(bad[r] \/ ~ok) /\ ~MoreTasks(r)
    <2>1. Ends(r, "done")
      BY <1>4 DEF NextItem
    <2> QED
      BY <1>4, <2>1, EndsFacts DEF ToEnd
  <1> QED
    BY <1>1, <1>2, <1>3, <1>4

(* Every kind of resource a selection mentions is made by one of its tasks.  *)
LEMMA EveryKindMade ==
    ASSUME NEW s \in Selections, NEW t \in 1..Len(s)
    PROVE  \E u \in 1..Len(s) : s[u].do \in Makes /\ s[u].kind = s[t].kind
  <1> USE DEF Looks, IfMissing, Makes
  <1>0. /\ Len(s) \in Nat \ {0} /\ DOMAIN s = 1..Len(s)
        /\ \A u \in 1..Len(s) : s[u].do \in Looks \union IfMissing \union Makes
    BY TaskKinds
  <1>1. \A u \in 1..Len(s) : s[u].do \in Looks \union {"download"} =>
            u + 1 \in 1..Len(s) /\ s[u + 1].kind = s[u].kind
            /\ s[u + 1].do \in IfMissing \ {s[u].do}
    <2>1. \A u \in 1..Len(s) : s[u].do \in Looks \union {"download"} =>
            u < Len(s) /\ s[u + 1].kind = s[u].kind /\ s[u + 1].do \in IfMissing \ {s[u].do}
      BY <1>0, TagsAssumption DEF WholeRoles
    <2>2. \A n \in Nat : \A u \in 1..n : u < n => u + 1 \in 1..n
      OBVIOUS
    <2> QED
      BY <1>0, <2>1, <2>2
  <1>2. CASE s[t].do \in Makes
    BY <1>2
  <1>3. CASE s[t].do = "download"
    BY <1>1, <1>3
  <1>4. CASE s[t].do \in Looks
    <2>1. t + 1 \in 1..Len(s) /\ s[t + 1].kind = s[t].kind /\ s[t + 1].do \in IfMissing
      BY <1>1, <1>4
    <2>2. CASE s[t + 1].do = "download"
      <3>1. (t + 1) + 1 \in 1..Len(s) /\ s[(t + 1) + 1].kind = s[t].kind
            /\ s[(t + 1) + 1].do \in Makes
        BY <1>1, <2>1, <2>2
      <3> QED
        BY <3>1
    <2>3. CASE s[t + 1].do \in Makes
      BY <2>1, <2>3
    <2> QED
      BY <2>1, <2>2, <2>3
  <1> QED
    BY <1>0, <1>2, <1>3, <1>4
-----------------------------------------------------------------------------
(* What a step of run r for its item comes to: what it took, learnt, changed *)
(* and may be blamed for.                                                    *)
Answer(r, ok, m) ==
    /\ ok \in BOOLEAN /\ m \in SUBSET (1..Items) /\ NextItem(r, ok, m)
    /\ selected' = selected /\ gone' = gone
    /\ there \subseteq there' /\ (disturbed[r] => disturbed'[r]) /\ (~ok => disturbed'[r])
    /\ ok /\ ~bad[r] /\ Now(r).do \in Makes => Target(r) \in there' \union gone[r]
    /\ IF Now(r).do \in Looks
       THEN /\ m \ {item[r]} = missing[r] \ {item[r]}
            /\ ok /\ item[r] \notin m => Target(r) \in there'
       ELSE m = missing[r]
    /\ ~disturbed'[r] =>
          /\ there' \subseteq there \union {Target(r)}
          /\ Now(r).do \notin Makes => there' = there
          /\ Now(r).do \in Looks /\ item[r] \in m => Target(r) \notin there

LEMMA KindsOfTasks ==
    /\ \A d \in Looks : d \notin Makes /\ d \notin IfMissing /\ d # "ensure"
    /\ "download" \notin Makes /\ "download" \notin Looks /\ "ensure" \in Makes
    /\ "ensure" \notin IfMissing
    /\ \A d \in Makes : d # "ensure" => d \in IfMissing
  BY DEF Looks, Makes, IfMissing

LEMMA ToItemKeeps ==
    ASSUME NEW r \in Runs, Variables, RunInv(r), Running(r), NEW ok, NEW m,
           Answer(r, ok, m), ToItem(r, ok, m)
    PROVE  RunInv(r)'
  <1>1. Position(r) /\ Made(r) /\ Found(r) /\ Missed(r) /\ Blame(r)
    BY DEF RunInv
  <1>2. /\ item[r] \in Nat /\ item[r] >= 1 /\ Target(r) = <<Now(r).kind, item[r]>>
        /\ item[r] \in ItemsOf(Now(r).kind)
    BY <1>1, Where DEF Position
  <1>3. /\ item'[r] = item[r] + 1 /\ missing'[r] = m /\ (bad'[r] <=> bad[r] \/ ~ok)
        /\ state'[r] = state[r] /\ todo'[r] = todo[r] /\ selected'[r] = selected[r]
        /\ gone'[r] = gone[r] /\ MoreItems(r) /\ there \subseteq there'
    BY DEF ToItem, Answer
  <1>4. Running(r)' /\ Now(r)' = Now(r) /\ At(r)' = At(r)
    BY <1>3 DEF Running, Now, At
  <1>5. there \union gone[r] \subseteq there' \union gone'[r]
    BY <1>3
  <1>6. Position(r)'
    BY <1>1, <1>3, <1>4 DEF Position, MoreItems, Now
  <1>7. \A i \in ItemsOf(Now(r).kind) : i < item'[r] => i < item[r] \/ i = item[r]
    BY <1>2, <1>3, ItemsFacts
  <1>8. Made(r)'
    <2>1. \A t \in 1..(At(r) - 1) : selected[r][t].do \in Makes =>
              \A i \in ItemsOf(selected[r][t].kind) : <<selected[r][t].kind, i>> \in there' \union gone'[r]
      BY <1>1, <1>5 DEF Made, Safe
    <2>2. ASSUME Now(r).do \in Makes, ~bad'[r], NEW i \in ItemsOf(Now(r).kind), i < item'[r]
          PROVE  <<Now(r).kind, i>> \in there' \union gone'[r]
      <3>1. ok /\ ~bad[r] /\ Target(r) \in there' \union gone'[r]
        BY <1>3, <2>2 DEF Answer
      <3>2. CASE i < item[r]
        BY <1>1, <1>5, <2>2, <3>1, <3>2 DEF Made, Safe
      <3>3. CASE i = item[r]
        BY <1>2, <3>1, <3>3 DEF Safe
      <3> QED
        BY <1>7, <2>2, <3>2, <3>3
    <2> QED
      BY <1>3, <1>4, <2>1, <2>2 DEF Made, Safe
  <1>9. Found(r)'
    <2> SUFFICES ASSUME Now(r).do # "ensure", ok, ~bad[r], NEW i \in ItemsOf(Now(r).kind), i \notin m,
                        Now(r).do \in Looks => i < item'[r]
                 PROVE  <<Now(r).kind, i>> \in there' \union gone'[r]
      BY <1>3, <1>4 DEF Found, Safe
    <2>1. CASE Now(r).do \in Looks /\ i = item[r]
      BY <1>2, <2>1 DEF Answer, Safe
    <2>2. CASE Now(r).do \in Looks /\ i # item[r]
      <3>1. i < item[r] /\ i \notin missing[r]
        BY <1>7, <2>2 DEF Answer
      <3> QED
        BY <1>1, <1>5, <3>1, <2>2 DEF Found, Safe
    <2>3. CASE Now(r).do \notin Looks
      BY <1>1, <1>5, <2>3 DEF Found, Safe, Answer
    <2> QED
      BY <2>1, <2>2, <2>3
  <1>10. Missed(r)'
    <2> SUFFICES ASSUME Now(r).do # "ensure", ~disturbed'[r], NEW i \in ItemsOf(Now(r).kind),
                        i \in m, Now(r).do \in Looks => i < item'[r],
                        Now(r).do \in Makes => i >= item'[r]
                 PROVE  <<Now(r).kind, i>> \notin there'
      BY <1>3, <1>4 DEF Missed
    <2>0. ~disturbed[r]
      BY DEF Answer
    <2>1. CASE Now(r).do \in Looks /\ i = item[r]
      BY <1>2, <2>1, KindsOfTasks DEF Answer
    <2>2. CASE Now(r).do \in Looks /\ i # item[r]
      <3>1. i < item[r] /\ i \in missing[r] /\ there' = there
        BY <1>7, <2>2, KindsOfTasks DEF Answer
      <3> QED
        BY <1>1, <2>0, <2>2, <3>1, KindsOfTasks DEF Missed
    <2>3. CASE Now(r).do \in Makes
      <3>1. i >= item[r] /\ i # item[r]
        BY <1>2, <1>3, <2>3, ItemsFacts
      <3>2. i \in missing[r] /\ there' \subseteq there \union {Target(r)}
        BY <2>3, KindsOfTasks DEF Answer
      <3>3. <<Now(r).kind, i>> \notin there
        BY <1>1, <2>0, <2>3, <3>1, <3>2, KindsOfTasks DEF Missed
      <3> QED
        BY <1>2, <3>1, <3>2, <3>3
    <2>4. CASE Now(r).do \notin Looks /\ Now(r).do \notin Makes
      BY <1>1, <2>0, <2>4 DEF Missed, Answer
    <2> QED
      BY <2>1, <2>2, <2>3, <2>4
  <1>11. Blame(r)'
    BY <1>1, <1>3 DEF Blame, Answer
  <1> QED
    BY <1>4, <1>6, <1>8, <1>9, <1>10, <1>11 DEF RunInv

(* When the last item of a task is done and none failed, all are there.      *)
LEMMA TaskDone ==
    ASSUME NEW r \in Runs, Variables, RunInv(r), Running(r), NEW ok, NEW m, Answer(r, ok, m),
           ~MoreItems(r), ~bad[r], ok
    PROVE  /\ \A i \in ItemsOf(Now(r).kind) : i < item[r] \/ i = item[r]
           /\ \A t \in 1..At(r) : selected[r][t].do \in Makes =>
                 \A i \in ItemsOf(selected[r][t].kind) :
                     <<selected[r][t].kind, i>> \in there' \union gone'[r]
  <1>1. Position(r) /\ Made(r)
    BY DEF RunInv
  <1>2. /\ item[r] \in Nat /\ Target(r) = <<Now(r).kind, item[r]>>
        /\ item[r] \in ItemsOf(Now(r).kind) /\ Now(r) = selected[r][At(r)]
        /\ At(r) \in 1..Len(selected[r]) /\ Len(selected[r]) \in Nat
    BY <1>1, Where DEF Position
  <1>3. there \subseteq there' /\ gone'[r] = gone[r]
    BY DEF Answer
  <1>4. \A i \in ItemsOf(Now(r).kind) : i < item[r] \/ i = item[r]
    BY <1>2, ItemsFacts DEF MoreItems
  <1>5. ASSUME NEW t \in 1..At(r), selected[r][t].do \in Makes,
               NEW i \in ItemsOf(selected[r][t].kind)
        PROVE  <<selected[r][t].kind, i>> \in there' \union gone'[r]
    <2>1. CASE t = At(r) /\ i = item[r]
      BY <1>2, <1>3, <1>5, <2>1 DEF Answer
    <2>2. CASE t = At(r) /\ i # item[r]
      BY <1>1, <1>2, <1>3, <1>4, <1>5, <2>2 DEF Made, Safe
    <2>3. CASE t # At(r)
      <3>1. t \in 1..(At(r) - 1)
        BY <1>2, <2>3
      <3> QED
        BY <1>1, <1>3, <1>5, <3>1 DEF Made, Safe
    <2> QED
      BY <2>1, <2>2, <2>3
  <1> QED
    BY <1>4, <1>5

LEMMA TailFacts ==
    ASSUME NEW q \in Seq(Tasks), Len(q) > 1
    PROVE  /\ Len(Tail(q)) = Len(q) - 1 /\ Len(Tail(q)) \in Nat \ {0}
           /\ \A j \in 1..(Len(q) - 1) : Tail(q)[j] = q[j + 1]
  <1>1. q # <<>> /\ Len(q) \in Nat
    OBVIOUS
  <1>2. Len(Tail(q)) = Len(q) - 1 /\ \A j \in 1..Len(Tail(q)) : Tail(q)[j] = q[j + 1]
    BY <1>1, HeadTailProperties
  <1> QED
    BY <1>1, <1>2

LEMMA MoreArithmetic ==
    \A n \in Nat : \A m \in 1..n : m > 1 =>
        /\ m - 1 \in 1..n /\ 1 \in 1..(m - 1) /\ n - (m - 1) + 1 = n - m + 1 + 1
        /\ n - m + 1 + 1 \in 1..n
        /\ \A j \in 1..(m - 1) : n - (m - 1) + j = n - m + (j + 1) /\ j + 1 \in 1..m
  OBVIOUS

LEMMA NextTask ==
    ASSUME NEW r \in Runs, Variables, Running(r), Position(r), NEW ok, NEW m, ToTask(r, ok, m),
           selected' = selected
    PROVE  /\ Position(r)' /\ At(r)' = At(r) + 1 /\ At(r) + 1 \in 1..Len(selected[r])
           /\ Now(r)' = selected[r][At(r) + 1]
  <1> DEFINE n == Len(selected[r])
             l == Len(todo[r])
  <1>1. n \in Nat /\ l \in 1..n /\ l > 1 /\ todo[r] \in Seq(Tasks)
    BY Where DEF Position, ToTask, MoreTasks, Variables
  <1>2. /\ todo'[r] = Tail(todo[r]) /\ Len(todo'[r]) = l - 1 /\ Len(todo'[r]) \in Nat \ {0}
        /\ \A j \in 1..(l - 1) : todo'[r][j] = todo[r][j + 1]
    BY <1>1, TailFacts DEF ToTask
  <1>3. /\ l - 1 \in 1..n /\ 1 \in 1..(l - 1) /\ n - (l - 1) + 1 = n - l + 1 + 1 /\ n - l + 1 + 1 \in 1..n
        /\ \A j \in 1..(l - 1) : n - (l - 1) + j = n - l + (j + 1) /\ j + 1 \in 1..l
    BY <1>1, MoreArithmetic
  <1>4. \A j \in 1..l : todo[r][j] = selected[r][n - l + j]
    BY DEF Position
  <1>5. \A j \in 1..(l - 1) : todo'[r][j] = selected[r][n - (l - 1) + j]
    BY <1>2, <1>3, <1>4
  <1>6. At(r)' = n - (l - 1) + 1 /\ At(r) = n - l + 1
    BY <1>2 DEF At
  <1>7. Now(r)' = todo'[r][1]
    BY <1>1, <1>2 DEF Now
  <1>8. todo'[r][1] = selected[r][n - (l - 1) + 1]
    BY <1>3, <1>5
  <1>9. Position(r)'
    <2>1. item'[r] = 1
      BY DEF ToTask
    <2>2. item'[r] \in ItemsOf(Now(r)'.kind)
      BY <2>1, ItemsFacts
    <2> QED
      BY <1>2, <1>3, <1>5, <2>2 DEF Position, Now, ItemsOf
  <1> QED
    BY <1>3, <1>6, <1>7, <1>8, <1>9

LEMMA ToTaskKeeps ==
    ASSUME NEW r \in Runs, Variables, RunInv(r), Running(r), NEW ok, NEW m,
           Answer(r, ok, m), ToTask(r, ok, m)
    PROVE  RunInv(r)'
  <1>1. Position(r) /\ Made(r) /\ Found(r) /\ Missed(r) /\ Blame(r)
    BY DEF RunInv
  <1>2. /\ Target(r) = <<Now(r).kind, item[r]>> /\ Now(r) = selected[r][At(r)]
        /\ At(r) \in 1..Len(selected[r]) /\ Len(selected[r]) \in Nat
        /\ selected[r] \in Selections
    BY <1>1, Where DEF Position
  <1>3. /\ item'[r] = 1 /\ missing'[r] = m /\ ~bad'[r] /\ state'[r] = state[r]
        /\ selected' = selected /\ gone'[r] = gone[r] /\ there \subseteq there'
        /\ ~MoreItems(r) /\ ~bad[r] /\ ok
    BY DEF ToTask, Answer
  <1>4. /\ Position(r)' /\ At(r)' = At(r) + 1 /\ At(r) + 1 \in 1..Len(selected[r])
        /\ Now(r)' = selected[r][At(r) + 1]
    BY <1>1, <1>3, NextTask
  <1>5. /\ \A i \in ItemsOf(Now(r).kind) : i < item[r] \/ i = item[r]
        /\ \A t \in 1..At(r) : selected[r][t].do \in Makes =>
              \A i \in ItemsOf(selected[r][t].kind) :
                  <<selected[r][t].kind, i>> \in there' \union gone'[r]
    BY <1>3, TaskDone
  <1>6. Running(r)'
    BY <1>3 DEF Running
  <1>7. Made(r)'
    <2>1. 1..(At(r)' - 1) = 1..At(r)
      BY <1>2, <1>4
    <2>2. \A i \in ItemsOf(Now(r)'.kind) : ~(i < 1)
      BY ItemsFacts
    <2> QED
      BY <1>3, <1>5, <2>1, <2>2 DEF Made, Safe, ItemsOf
  (* What the next task, if it depends on what was found, knows of an item.  *)
  <1>8. ASSUME Now(r)'.do # "ensure", Now(r)'.do \notin Looks
        PROVE  Now(r)'.kind = Now(r).kind /\ Now(r).do \in Looks \union {"download"}
    <2>1. Now(r)'.do \in IfMissing
      BY <1>2, <1>4, <1>8, TaskKinds, KindsOfTasks
    <2>2. DOMAIN selected[r] = 1..Len(selected[r])
      BY <1>2, TaskKinds
    <2>3. /\ selected[r][(At(r) + 1) - 1].kind = Now(r)'.kind
          /\ selected[r][(At(r) + 1) - 1].do \in Looks \union {"download"}
      BY <1>2, <1>4, <2>1, <2>2, TagsAssumption DEF WholeRoles
    <2>4. (At(r) + 1) - 1 = At(r)
      BY <1>2
    <2> QED
      BY <1>2, <2>3, <2>4
  <1>9. Found(r)'
    <2> SUFFICES ASSUME Now(r)'.do # "ensure", NEW i \in ItemsOf(Now(r)'.kind), i \notin m,
                        Now(r)'.do \in Looks => i < 1
                 PROVE  <<Now(r)'.kind, i>> \in there' \union gone'[r]
      BY <1>3 DEF Found, Safe, ItemsOf
    <2>1. Now(r)'.do \notin Looks
      BY ItemsFacts
    <2>2. Now(r)'.kind = Now(r).kind /\ Now(r).do \in Looks \union {"download"}
      BY <1>8, <2>1
    <2>3. CASE Now(r).do \in Looks /\ i = item[r]
      BY <1>2, <1>3, <2>2, <2>3 DEF Answer
    <2>4. CASE Now(r).do \in Looks /\ i # item[r]
      <3>1. i < item[r] /\ i \notin missing[r]
        BY <1>5, <2>2, <2>4 DEF Answer
      <3> QED
        BY <1>1, <1>3, <2>2, <2>4, <3>1, KindsOfTasks DEF Found, Safe
    <2>5. CASE Now(r).do = "download"
      BY <1>1, <1>3, <2>2, <2>5, KindsOfTasks DEF Found, Safe, Answer
    <2> QED
      BY <2>2, <2>3, <2>4, <2>5
  <1>10. Missed(r)'
    <2> SUFFICES ASSUME Now(r)'.do # "ensure", ~disturbed'[r], NEW i \in ItemsOf(Now(r)'.kind),
                        i \in m, Now(r)'.do \in Looks => i < 1
                 PROVE  <<Now(r)'.kind, i>> \notin there'
      BY <1>3 DEF Missed, ItemsOf
    <2>1. Now(r)'.do \notin Looks
      BY ItemsFacts
    <2>2. Now(r)'.kind = Now(r).kind /\ Now(r).do \in Looks \union {"download"}
      BY <1>8, <2>1
    <2>3. there' = there /\ ~disturbed[r]
      BY <2>2, KindsOfTasks DEF Answer
    <2>4. CASE Now(r).do \in Looks /\ i = item[r]
      BY <1>2, <2>2, <2>3, <2>4 DEF Answer
    <2>5. CASE Now(r).do \in Looks /\ i # item[r]
      <3>1. i < item[r] /\ i \in missing[r]
        BY <1>5, <2>2, <2>5 DEF Answer
      <3> QED
        BY <1>1, <2>2, <2>3, <2>5, <3>1, KindsOfTasks DEF Missed
    <2>6. CASE Now(r).do = "download"
      BY <1>1, <2>2, <2>3, <2>6, KindsOfTasks DEF Missed, Answer
    <2> QED
      BY <2>2, <2>4, <2>5, <2>6
  <1>11. Blame(r)'
    BY <1>1, <1>3 DEF Blame, Answer
  <1> QED
    BY <1>4, <1>6, <1>7, <1>9, <1>10, <1>11 DEF RunInv

(* A run whose state another step leaves alone. *)
LEMMA OthersKeep ==
    ASSUME NEW q \in Runs, RunInv(q), state'[q] = state[q], todo'[q] = todo[q],
           item'[q] = item[q], missing'[q] = missing[q], bad'[q] = bad[q],
           selected'[q] = selected[q], there \union gone[q] \subseteq there' \union gone'[q],
           disturbed[q] => disturbed'[q],
           Running(q) /\ ~disturbed'[q] => there' = there /\ gone'[q] = gone[q]
    PROVE  RunInv(q)'
  <1>1. /\ Running(q)' = Running(q) /\ Now(q)' = Now(q) /\ At(q)' = At(q)
    BY DEF Running, Now, At
  <1>2. CASE ~Running(q)
    BY <1>1, <1>2 DEF RunInv
  <1>3. CASE Running(q)
    <2>1. Position(q) /\ Made(q) /\ Found(q) /\ Missed(q) /\ Blame(q)
      BY <1>3 DEF RunInv
    <2>2. Position(q)'
      BY <1>1, <2>1 DEF Position, ItemsOf
    <2>3. Made(q)'
      BY <1>1, <2>1 DEF Made, Safe, ItemsOf
    <2>4. Found(q)'
      BY <1>1, <2>1 DEF Found, Safe, ItemsOf
    <2>5. Missed(q)'
      BY <1>1, <1>3, <2>1 DEF Missed, ItemsOf
    <2>6. Blame(q)'
      BY <1>3, <2>1 DEF Blame
    <2> QED
      BY <1>1, <1>3, <2>2, <2>3, <2>4, <2>5, <2>6 DEF RunInv
  <1> QED
    BY <1>2, <1>3
-----------------------------------------------------------------------------
LEMMA AnswerKeeps ==
    ASSUME NEW r \in Runs, Variables, RunInv(r), Running(r), NEW ok, NEW m, Answer(r, ok, m)
    PROVE  /\ RunInv(r)' /\ RunTypes' /\ Alone(r)
           /\ state'[r] = "done" => ResourcesOf(selected[r]) \subseteq there' \union gone'[r]
           /\ state'[r] = "failed" => disturbed'[r]
  <1>1. Position(r) /\ Blame(r)
    BY DEF RunInv
  <1>2. /\ Now(r) = selected[r][At(r)] /\ At(r) = Len(selected[r]) - Len(todo[r]) + 1
        /\ Len(todo[r]) \in Nat \ {0} /\ Len(selected[r]) \in Nat /\ selected[r] \in Selections
    BY <1>1, Where DEF Position
  <1>3. RunTypes /\ todo[r] # <<>>
    BY <1>2 DEF Variables, RunTypes
  <1>4. /\ ok \in BOOLEAN /\ m \in SUBSET (1..Items) /\ NextItem(r, ok, m)
        /\ (~ok => disturbed'[r]) /\ (disturbed[r] => disturbed'[r])
    BY DEF Answer
  <1>5. /\ RunTypes' /\ Alone(r)
        /\ \/ ToItem(r, ok, m) \/ ToTask(r, ok, m)
           \/ ToEnd(r, "failed") /\ (bad[r] \/ ~ok)
           \/ ToEnd(r, "done") /\ ~bad[r] /\ ok /\ ~MoreTasks(r)
    BY <1>3, <1>4, NextItemFacts
  <1>6. CASE ToItem(r, ok, m)
    BY <1>5, <1>6, ToItemKeeps DEF ToItem, Running
  <1>7. CASE ToTask(r, ok, m)
    BY <1>5, <1>7, ToTaskKeeps DEF ToTask, Running
  <1>8. CASE ToEnd(r, "failed") /\ (bad[r] \/ ~ok)
    BY <1>1, <1>4, <1>5, <1>8 DEF ToEnd, RunInv, Running, Blame
  <1>9. CASE ToEnd(r, "done") /\ ~bad[r] /\ ok /\ ~MoreTasks(r)
    <2>a. \A n \in Nat \ {0} : ~(n > 1) => n = 1
      OBVIOUS
    <2>1. Len(todo[r]) = 1
      BY <1>2, <1>9, <2>a DEF MoreTasks
    <2>2. At(r) = Len(selected[r])
      BY <1>2, <2>1
    <2>3. \A t \in 1..Len(selected[r]) : selected[r][t].do \in Makes =>
              \A i \in ItemsOf(selected[r][t].kind) :
                  <<selected[r][t].kind, i>> \in there' \union gone'[r]
      BY <1>9, <2>2, TaskDone DEF ToEnd
    <2>4. ASSUME NEW x \in ResourcesOf(selected[r])
          PROVE  x \in there' \union gone'[r]
      <3>1. PICK t \in DOMAIN selected[r] :
               \E i \in ItemsOf(selected[r][t].kind) : x = <<selected[r][t].kind, i>>
        BY DEF ResourcesOf
      <3>2. t \in 1..Len(selected[r])
        BY <1>2, TaskKinds
      <3>3. PICK u \in 1..Len(selected[r]) :
               selected[r][u].do \in Makes /\ selected[r][u].kind = selected[r][t].kind
        BY <1>2, <3>2, EveryKindMade
      <3> QED
        BY <2>3, <3>1, <3>3
    <2> QED
      BY <1>5, <1>9, <2>4 DEF ToEnd, RunInv, Running
  <1> QED
    BY <1>5, <1>6, <1>7, <1>8, <1>9

(* What a step of run r does to everything but the state of the run.         *)
Effect(r) ==
    /\ selected' = selected /\ gone' = gone /\ begins' = begins /\ deletes' = deletes
    /\ \/ there' = there
       \/ there' = there \union {Target(r)} /\ Possible(Target(r))
    /\ disturbed' \in [Runs -> BOOLEAN]
    /\ \A q \in Runs :
          /\ disturbed[q] => disturbed'[q]
          /\ q # r /\ Running(q) /\ ~disturbed'[q] => there' = there

LEMMA PossibleGrows ==
    ASSUME NEW x, Possible(x), there \subseteq there'
    PROVE  \A k \in Needs(x[1]) : <<k, x[2]>> \in there'
  BY DEF Possible

LEMMA EffectKeeps ==
    ASSUME Inv, NEW r \in Runs, Running(r), Effect(r), Alone(r), RunTypes', RunInv(r)'
    PROVE  Inv'
  <1>1. Target(r) \in Resources
    BY Where DEF Inv, RunInv
  <1>2. there' \subseteq Resources /\ there \subseteq there'
    BY <1>1 DEF Effect, Inv, Variables
  <1>3. \A x \in there' : \A k \in Needs(x[1]) : <<k, x[2]>> \in there'
    <2> SUFFICES ASSUME NEW x \in there'
                 PROVE  \A k \in Needs(x[1]) : <<k, x[2]>> \in there'
      OBVIOUS
    <2>1. Possible(x)
      BY DEF Effect, Inv, Variables
    <2> QED
      BY <1>2, <2>1, PossibleGrows
  <1>4. Variables'
    <2>1. (\A x \in there : Possible(x))'
      BY <1>3 DEF Possible, Needs
    <2> QED
      BY <1>2, <2>1 DEF Effect, Inv, Variables, RunTypes
  <1>5. ASSUME NEW q \in Runs
        PROVE  RunInv(q)'
    <2>1. CASE q = r
      BY <2>1
    <2>2. CASE q # r
      BY <1>2, <2>2, OthersKeep DEF Effect, Alone, Inv
    <2> QED
      BY <2>1, <2>2
  <1> QED
    BY <1>4, <1>5 DEF Inv

(* A run that looks for something has what it needs if it was undisturbed.   *)
LEMMA NeedsMet ==
    ASSUME NEW r \in Runs, Variables, RunInv(r), Running(r), Now(r).do \in Makes, ~disturbed[r]
    PROVE  Possible(Target(r))
  <1>1. Position(r) /\ Made(r) /\ Blame(r)
    BY DEF RunInv
  <1>2. /\ Now(r) = selected[r][At(r)] /\ At(r) \in 1..Len(selected[r])
        /\ Target(r) = <<Now(r).kind, item[r]>> /\ item[r] \in ItemsOf(Now(r).kind)
        /\ selected[r] \in Selections /\ DOMAIN selected[r] = 1..Len(selected[r])
    BY <1>1, Where, TaskKinds DEF Position
  <1> SUFFICES ASSUME NEW k \in Needs(Now(r).kind)
               PROVE  <<k, item[r]>> \in there
    BY <1>2 DEF Possible
  <1>3. PICK u \in 1..(At(r) - 1) : selected[r][u].do \in Makes /\ selected[r][u].kind = k
    <2>1. WholeRoles(selected[r]) /\ At(r) \in DOMAIN selected[r]
      BY <1>2, TagsAssumption
    <2>2. selected[r][At(r)].do \in Makes => \A j \in Needs(selected[r][At(r)].kind) :
              \E u \in 1..(At(r) - 1) : selected[r][u].do \in Makes /\ selected[r][u].kind = j
      BY <2>1 DEF WholeRoles
    <2> QED
      BY <1>2, <2>2
  <1>4. item[r] \in ItemsOf(k)
    BY <1>2, NeedsItems
  <1> QED
    BY <1>1, <1>3, <1>4 DEF Made, Safe, Blame

LEMMA StepAnswers ==
    ASSUME Inv, NEW r \in Runs, Step(r) \/ CallFails(r)
    PROVE  Running(r) /\ Effect(r) /\ \E ok, m : Answer(r, ok, m)
  <1> USE KindsOfTasks
  <1>0. Running(r)
    BY DEF Step, CallFails, Look, Skip, Download, Make, AlreadyThere, Impossible, Does
  <1>1. /\ Variables /\ Position(r) /\ Made(r) /\ Found(r) /\ Missed(r) /\ Blame(r)
        /\ RunInv(r)
    BY <1>0 DEF Inv, RunInv
  <1>2. /\ Target(r) = <<Now(r).kind, item[r]>> /\ item[r] \in ItemsOf(Now(r).kind)
        /\ item[r] \in 1..Items /\ missing[r] \in SUBSET (1..Items)
        /\ Now(r).do \in Looks \union IfMissing \union Makes
    BY <1>0, <1>1, Where, ItemsFacts DEF Position, Variables
  <1>3. /\ disturbed \in [Runs -> BOOLEAN] /\ \A x \in there : Possible(x)
    BY <1>1 DEF Variables
  <1>4. Undisturbed /\ Rest => Effect(r)
    BY <1>3 DEF Undisturbed, Rest, Effect
  <1>5. CASE Look(r)
    <2> DEFINE m == IF Target(r) \in there THEN missing[r] \ {item[r]}
                    ELSE missing[r] \union {item[r]}
    <2>1. Now(r).do \in Looks /\ NextItem(r, TRUE, m) /\ Undisturbed /\ Rest
      BY <1>5 DEF Look, Does
    <2>2. m \in SUBSET (1..Items) /\ m \ {item[r]} = missing[r] \ {item[r]}
          /\ (item[r] \in m <=> Target(r) \notin there)
      BY <1>2
    <2>3. Answer(r, TRUE, m)
      <3> HIDE DEF m
      <3> QED
        BY <2>1, <2>2 DEF Undisturbed, Rest, Answer
    <2> QED
      BY <1>0, <1>4, <2>1, <2>3
  <1>6. CASE Skip(r)
    <2>1. /\ Now(r).do \in Makes \union {"download"} /\ Skipped(r)
          /\ NextItem(r, TRUE, missing[r]) /\ Undisturbed /\ Rest
      BY <1>6 DEF Skip, Does
    <2>2. ~bad[r] => Target(r) \in there \union gone[r]
      BY <1>1, <1>2, <2>1 DEF Skipped, Found, Safe
    <2>3. Answer(r, TRUE, missing[r])
      BY <1>2, <2>1, <2>2 DEF Undisturbed, Rest, Answer
    <2> QED
      BY <1>0, <1>4, <2>1, <2>3
  <1>7. CASE Download(r)
    <2>1. /\ Now(r).do = "download" /\ NextItem(r, TRUE, missing[r]) /\ Undisturbed /\ Rest
      BY <1>7 DEF Download, Does
    <2>2. Answer(r, TRUE, missing[r])
      BY <1>2, <2>1 DEF Undisturbed, Rest, Answer
    <2> QED
      BY <1>0, <1>4, <2>1, <2>2
  <1>8. CASE Make(r)
    <2>1. /\ Now(r).do \in Makes /\ Possible(Target(r)) /\ NextItem(r, TRUE, missing[r])
          /\ AddedBy(r, Target(r)) /\ Rest
      BY <1>8 DEF Make, Does
    <2>2. /\ disturbed' \in [Runs -> BOOLEAN]
          /\ \A q \in Runs : disturbed'[q] <=> disturbed[q] \/ (q # r /\ Running(q))
      BY <2>1 DEF AddedBy
    <2>3. there' = there \union {Target(r)}
      BY <2>1 DEF AddedBy
    <2>4. Effect(r)
      BY <2>1, <2>2, <2>3 DEF Rest, Effect
    <2>5. Answer(r, TRUE, missing[r])
      BY <1>2, <2>1, <2>2, <2>3 DEF Rest, Answer
    <2> QED
      BY <1>0, <2>4, <2>5
  <1>9. CASE AlreadyThere(r)
    <2> DEFINE ok == Now(r).do # "create"
    <2>1. /\ Now(r).do \in Makes /\ ~Skipped(r) /\ Target(r) \in there
          /\ NextItem(r, ok, missing[r]) /\ Undisturbed /\ Rest
      BY <1>9 DEF AlreadyThere, Does
    <2>2. ~ok => disturbed[r]
      <3> SUFFICES ASSUME Now(r).do = "create", ~disturbed[r]
                   PROVE  FALSE
        OBVIOUS
      <3>1. item[r] \in missing[r] /\ Now(r).do \notin Looks
        BY <2>1 DEF Skipped, IfMissing
      <3>2. item[r] >= item[r]
        BY <1>2
      <3> QED
        BY <1>1, <1>2, <2>1, <3>1, <3>2 DEF Missed
    <2>3. Answer(r, ok, missing[r])
      <3>1. ok \in BOOLEAN
        OBVIOUS
      <3> HIDE DEF ok
      <3> QED
        BY <1>2, <2>1, <2>2, <3>1 DEF Undisturbed, Rest, Answer
    <2> QED
      BY <1>0, <1>4, <2>1, <2>3
  <1>10. CASE Impossible(r)
    <2>1. /\ Now(r).do \in Makes /\ ~Possible(Target(r))
          /\ NextItem(r, FALSE, missing[r]) /\ Undisturbed /\ Rest
      BY <1>10 DEF Impossible, Does
    <2>2. disturbed[r]
      BY <1>0, <1>1, <2>1, NeedsMet
    <2>3. Answer(r, FALSE, missing[r])
      BY <1>2, <2>1, <2>2 DEF Undisturbed, Rest, Answer
    <2> QED
      BY <1>0, <1>4, <2>1, <2>3
  <1>11. CASE CallFails(r)
    <2>1. /\ \/ there' = there
             \/ there' = there \union {Target(r)} /\ Possible(Target(r)) /\ Now(r).do \in Makes
          /\ disturbed' = [q \in Runs |-> disturbed[q] \/ q = r \/ (Running(q) /\ there' # there)]
          /\ Rest
      BY <1>11 DEF CallFails
    <2>2. /\ disturbed' \in [Runs -> BOOLEAN] /\ disturbed'[r]
          /\ \A q \in Runs : disturbed'[q] <=> disturbed[q] \/ q = r
                                               \/ (Running(q) /\ there' # there)
      BY <2>1
    <2>3. Effect(r)
      BY <2>1, <2>2 DEF Rest, Effect
    <2>4. CASE Now(r).do = "show"
      <3> DEFINE m == missing[r] \union {item[r]}
      <3>1. NextItem(r, TRUE, m)
        BY <1>11, <2>4 DEF CallFails
      <3>2. m \in SUBSET (1..Items) /\ m \ {item[r]} = missing[r] \ {item[r]} /\ item[r] \in m
        BY <1>2
      <3>3. Now(r).do \notin Makes /\ Now(r).do \in Looks
        BY <2>4 DEF Makes, Looks
      <3>4. Answer(r, TRUE, m)
        <4> HIDE DEF m
        <4> QED
          BY <2>1, <2>2, <3>1, <3>2, <3>3 DEF Rest, Answer
      <3> QED
        BY <1>0, <2>3, <3>4
    <2>5. CASE Now(r).do # "show"
      <3>1. NextItem(r, FALSE, missing[r])
        BY <1>11, <2>5 DEF CallFails
      <3>2. Answer(r, FALSE, missing[r])
        BY <1>2, <2>1, <2>2, <2>5, <3>1 DEF Rest, Answer
      <3> QED
        BY <1>0, <2>3, <3>2
    <2> QED
      BY <2>4, <2>5
  <1> QED
    BY <1>5, <1>6, <1>7, <1>8, <1>9, <1>10, <1>11 DEF Step

(* A run that begins is at the first item of a task that needs no earlier one. *)
LEMMA BeginKeeps ==
    ASSUME Inv, NEW r \in Runs, Begin(r)
    PROVE  Inv'
  <1>1. PICK s \in Selections :
           selected' = [selected EXCEPT ![r] = s] /\ todo' = [todo EXCEPT ![r] = s]
    BY DEF Begin
  <1>2. /\ state' = [state EXCEPT ![r] = "running"] /\ begins < MaxBegins /\ begins' = begins + 1
        /\ disturbed' = [disturbed EXCEPT ![r] = FALSE] /\ gone' = [gone EXCEPT ![r] = {}]
        /\ UNCHANGED <<there, item, missing, bad, deletes>> /\ ~Running(r)
    BY DEF Begin
  <1>3. /\ s \in Seq(Tasks) /\ Len(s) \in Nat \ {0} /\ DOMAIN s = 1..Len(s) /\ s # <<>>
        /\ s[1].do \in Looks \union IfMissing \union Makes
    BY TaskKinds
  <1>4. Variables /\ item[r] = 1 /\ bad[r] = FALSE
    BY <1>2 DEF Inv, RunInv
  <1>5. Variables'
    <2>1. there' = there /\ (\A x \in there : Possible(x))'
      BY <1>2, <1>4 DEF Variables, Possible
    <2>2. begins' \in 0..MaxBegins
      BY <1>2, <1>4, BoundAssumption DEF Variables
    <2>3. disturbed' \in [Runs -> BOOLEAN]
      BY <1>2, <1>4 DEF Variables
    <2> QED
      BY <1>1, <1>2, <1>3, <1>4, <2>1, <2>2, <2>3 DEF Variables
  <1>6. /\ selected'[r] = s /\ todo'[r] = s /\ state'[r] = "running"
        /\ gone'[r] = {} /\ item'[r] = 1 /\ bad'[r] = FALSE
    BY <1>1, <1>2, <1>4 DEF Variables
  <1>7. /\ Running(r)' /\ Now(r)' = s[1] /\ At(r)' = 1
    <2>1. At(r)' = Len(s) - Len(s) + 1
      BY <1>6 DEF At
    <2>2. \A n \in Nat : n - n + 1 = 1
      OBVIOUS
    <2> QED
      BY <1>3, <1>6, <2>1, <2>2 DEF Running, Now
  <1>8. Now(r)'.do \notin IfMissing
    BY <1>3, <1>7, TagsAssumption DEF WholeRoles
  <1>9. \A i \in ItemsOf(Now(r)'.kind) : ~(i < 1)
    BY ItemsFacts
  <1>10. Now(r)'.do = "ensure" \/ Now(r)'.do \in Looks
    BY <1>3, <1>7, <1>8, KindsOfTasks
  <1>11. Position(r)'
    <2>1. \A n \in Nat \ {0} : n \in 1..n /\ \A j \in 1..n : n - n + j = j
      OBVIOUS
    <2>2. 1 \in ItemsOf(Now(r)'.kind)
      BY ItemsFacts
    <2> QED
      BY <1>3, <1>6, <2>1, <2>2 DEF Position, ItemsOf
  <1>12. Made(r)' /\ Found(r)' /\ Missed(r)' /\ Blame(r)'
    <2>1. Made(r)'
      <3>1. \A t \in 1..(1 - 1) : FALSE
        OBVIOUS
      <3> QED
        BY <1>6, <1>7, <1>9, <3>1 DEF Made, ItemsOf
    <2>2. Found(r)' /\ Missed(r)'
      BY <1>6, <1>9, <1>10 DEF Found, Missed, ItemsOf
    <2> QED
      BY <1>6, <2>1, <2>2 DEF Blame
  <1>13. ASSUME NEW q \in Runs
         PROVE  RunInv(q)'
    <2>1. CASE q = r
      BY <1>7, <1>11, <1>12, <2>1 DEF RunInv
    <2>2. CASE q # r
      <3>1. /\ state'[q] = state[q] /\ todo'[q] = todo[q] /\ item'[q] = item[q]
            /\ missing'[q] = missing[q] /\ bad'[q] = bad[q] /\ selected'[q] = selected[q]
            /\ gone'[q] = gone[q] /\ disturbed'[q] = disturbed[q] /\ there' = there
        BY <1>1, <1>2, <1>4, <2>2 DEF Variables
      <3> QED
        BY <3>1, OthersKeep DEF Inv
    <2> QED
      BY <2>1, <2>2
  <1> QED
    BY <1>5, <1>13 DEF Inv

LEMMA DeleteKeeps ==
    ASSUME Inv, NEW x \in Resources, Delete(x)
    PROVE  Inv'
  <1>1. /\ x \in there /\ deletes < MaxDeletes /\ deletes' = deletes + 1
        /\ \A y \in there : y[2] = x[2] => x[1] \notin Needs(y[1])
        /\ there' = there \ {x}
        /\ disturbed' = [r \in Runs |-> disturbed[r] \/ Running(r)]
        /\ gone' = [r \in Runs |-> IF Running(r) THEN gone[r] \union {x} ELSE gone[r]]
        /\ UNCHANGED <<state, selected, todo, item, missing, bad, begins>>
    BY DEF Delete, run
  <1>2. Variables
    BY DEF Inv
  <1>3. (\A y \in there : Possible(y))'
    <2> SUFFICES ASSUME NEW y \in there', NEW k \in Needs(y[1])
                 PROVE  <<k, y[2]>> \in there'
      BY DEF Possible, Needs
    <2>1. <<k, y[2]>> \in there
      BY <1>1, <1>2 DEF Variables, Possible
    <2>2. <<k, y[2]>> # x
      BY <1>1
    <2> QED
      BY <1>1, <2>1, <2>2
  <1>4. /\ disturbed' \in [Runs -> BOOLEAN]
        /\ \A q \in Runs : disturbed'[q] <=> disturbed[q] \/ Running(q)
    BY <1>1
  <1>5. Variables'
    <2>1. deletes' \in 0..MaxDeletes
      BY <1>1, <1>2, BoundAssumption DEF Variables
    <2>2. gone' \in [Runs -> SUBSET Resources] /\ there' \subseteq Resources
      BY <1>1, <1>2 DEF Variables
    <2> QED
      BY <1>1, <1>2, <1>3, <1>4, <2>1, <2>2 DEF Variables
  <1>6. ASSUME NEW q \in Runs
        PROVE  RunInv(q)'
    <2>1. CASE Running(q)
      <3>1. there \union gone[q] \subseteq there' \union gone'[q] /\ disturbed'[q]
        BY <1>1, <1>4, <2>1
      <3> QED
        BY <1>1, <2>1, <3>1, OthersKeep DEF Inv
    <2>2. CASE ~Running(q)
      BY <1>1, <2>2 DEF Inv, RunInv, Running
    <2> QED
      BY <2>1, <2>2
  <1> QED
    BY <1>5, <1>6 DEF Inv

LEMMA InterruptKeeps ==
    ASSUME Inv, NEW r \in Runs, Interrupt(r)
    PROVE  Inv' /\ disturbed'[r] /\ state'[r] = "failed"
           /\ \A q \in Runs \ {r} : state'[q] = state[q]
  <1>1. /\ Running(r) /\ Ends(r, "failed") /\ there' = there
        /\ disturbed' = [disturbed EXCEPT ![r] = TRUE]
        /\ selected' = selected /\ begins' = begins /\ deletes' = deletes /\ gone' = gone
    BY DEF Interrupt, Rest
  <1>2. Variables /\ RunTypes
    BY DEF Inv, Variables, RunTypes
  <1>3. /\ RunTypes' /\ Alone(r) /\ state'[r] = "failed" /\ item'[r] = 1 /\ bad'[r] = FALSE
    BY <1>1, <1>2, EndsFacts
  <1>4. /\ disturbed' \in [Runs -> BOOLEAN] /\ disturbed'[r]
        /\ \A q \in Runs : disturbed[q] => disturbed'[q]
    BY <1>1, <1>2 DEF Variables
  <1>5. Effect(r)
    BY <1>1, <1>4 DEF Effect
  <1>6. RunInv(r)'
    BY <1>3 DEF RunInv, Running
  <1>7. Inv'
    BY <1>1, <1>3, <1>5, <1>6, EffectKeeps
  <1> QED
    BY <1>3, <1>4, <1>7 DEF Alone
-----------------------------------------------------------------------------
(* The end of a run, well or not. *)
GoodEnd(r) ==
    Running(r) /\ state'[r] = "done" => ResourcesOf(selected[r]) \subseteq there' \union gone'[r]
BadEnd(r) == Running(r) /\ state'[r] = "failed" => disturbed'[r]

LEMMA StepKeeps ==
    ASSUME Inv, [Next]_vars
    PROVE  Inv' /\ \A r \in Runs : GoodEnd(r) /\ BadEnd(r)
  <1> USE DEF GoodEnd, BadEnd, Running
  <1>1. ASSUME NEW r \in Runs, Step(r) \/ CallFails(r)
        PROVE  Inv' /\ \A q \in Runs : GoodEnd(q) /\ BadEnd(q)
    <2>1. Running(r) /\ Effect(r)
      BY <1>1, StepAnswers
    <2>2. PICK ok, m : Answer(r, ok, m)
      BY <1>1, StepAnswers
    <2>3. /\ RunInv(r)' /\ RunTypes' /\ Alone(r)
          /\ state'[r] = "done" => ResourcesOf(selected[r]) \subseteq there' \union gone'[r]
          /\ state'[r] = "failed" => disturbed'[r]
      BY <2>1, <2>2, AnswerKeeps DEF Inv
    <2>4. Inv'
      BY <2>1, <2>3, EffectKeeps
    <2> QED
      BY <2>3, <2>4 DEF Alone
  <1>2. ASSUME NEW r \in Runs, Begin(r)
        PROVE  Inv' /\ \A q \in Runs : GoodEnd(q) /\ BadEnd(q)
    <2>1. \A q \in Runs : state'[q] = state[q] \/ state'[q] = "running"
      BY <1>2 DEF Begin, Inv, Variables
    <2> QED
      BY <1>2, <2>1, BeginKeeps
  <1>3. ASSUME NEW r \in Runs, Interrupt(r)
        PROVE  Inv' /\ \A q \in Runs : GoodEnd(q) /\ BadEnd(q)
    BY <1>3, InterruptKeeps
  <1>4. ASSUME NEW x \in Resources, Delete(x)
        PROVE  Inv' /\ \A q \in Runs : GoodEnd(q) /\ BadEnd(q)
    <2>1. state' = state
      BY <1>4 DEF Delete, run
    <2> QED
      BY <1>4, <2>1, DeleteKeeps
  <1>5. CASE UNCHANGED vars
    <2>1. /\ state' = state /\ todo' = todo /\ item' = item /\ missing' = missing /\ bad' = bad
          /\ selected' = selected /\ there' = there /\ gone' = gone /\ disturbed' = disturbed
          /\ begins' = begins /\ deletes' = deletes
      BY <1>5 DEF vars, run
    <2>2. Variables'
      BY <2>1 DEF Inv, Variables, Possible
    <2>3. \A q \in Runs : RunInv(q)'
      BY <2>1, OthersKeep DEF Inv
    <2> QED
      BY <2>1, <2>2, <2>3 DEF Inv
  <1> QED
    BY <1>1, <1>2, <1>3, <1>4, <1>5 DEF Next

LEMMA InitInv == Init => Inv
  <1> SUFFICES ASSUME Init
               PROVE  Inv
    OBVIOUS
  <1>1. <<>> \in Seq(Tasks) /\ 1 \in 1..Items
    BY BoundAssumption
  <1>2. Variables
    BY <1>1, BoundAssumption DEF Init, Variables
  <1>3. \A r \in Runs : RunInv(r)
    BY DEF Init, RunInv, Running
  <1> QED
    BY <1>2, <1>3 DEF Inv

(* Every run is somewhere in what it selected, and no resource is in the     *)
(* cloud without what it needs.                                              *)
THEOREM TypeCorrect == Spec => []TypeOK
  <1>1. Inv => TypeOK
    <2> SUFFICES ASSUME Inv
                 PROVE  TypeOK
      OBVIOUS
    <2>1. Variables
      BY DEF Inv
    <2>2. ASSUME NEW r \in Runs
          PROVE  /\ selected[r] \in Selections \union {<<>>} /\ gone[r] \subseteq Resources
                 /\ Running(r) => todo[r] # <<>>
      <3>1. Running(r) => Len(todo[r]) \in Nat \ {0}
        BY <2>1, Where DEF Inv, RunInv
      <3> QED
        BY <2>1, <3>1 DEF Variables
    <2> QED
      BY <2>1, <2>2 DEF Variables, TypeOK
  <1>2. Inv /\ [Next]_vars => Inv'
    BY StepKeeps
  <1> QED
    BY <1>1, <1>2, InitInv, PTL DEF Spec

(* A run that ends well leaves all resources of the roles it ran, but those  *)
(* somebody deleted meanwhile: also when others run the play at once, calls  *)
(* failed in earlier runs, or answers of its own were lost.                  *)
THEOREM EndsComplete == Spec => DoneMeansThere
  <1>1. Inv /\ [Next]_vars =>
           [\A r \in Runs : Running(r) /\ state'[r] = "done" =>
               ResourcesOf(selected[r]) \subseteq there' \union gone'[r]]_vars
    BY StepKeeps DEF GoodEnd
  <1>2. Inv /\ [Next]_vars => Inv'
    BY StepKeeps
  <1> QED
    BY <1>1, <1>2, InitInv, PTL DEF Spec, DoneMeansThere

(* A run fails only if a call of its own failed, it was interrupted, or the  *)
(* cloud was changed under it: what earlier runs left half made is no cause. *)
THEOREM RunsAgain == Spec => RetrySucceeds
  <1>1. Inv /\ [Next]_vars =>
           [\A r \in Runs : Running(r) /\ state'[r] = "failed" => disturbed'[r]]_vars
    BY StepKeeps DEF BadEnd
  <1>2. Inv /\ [Next]_vars => Inv'
    BY StepKeeps
  <1> QED
    BY <1>1, <1>2, InitInv, PTL DEF Spec, RetrySucceeds
=============================================================================
