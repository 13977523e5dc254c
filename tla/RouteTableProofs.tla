-------------------------- MODULE RouteTableProofs --------------------------
(* For any number of replicas, workers, routes, groups and calls: the      *)
(* tables and caches keep their shape, and unless an error or a restart    *)
(* interferes every replica ends up with the stored records and with       *)
(* artifacts of the stored sources, but for the two races that RouteTable  *)
(* names.  The inductive invariant is Typed /\ FineUnlessFault.            *)
EXTENDS RouteTable, SequenceTheorems, TLAPS

Row == Record \ {NoRecord}
Rowset == [Route -> Record]
Message == [g : SUBSET Group, r : SUBSET Route]
Event0 == [g : SUBSET Group, r : SUBSET Route, rows : Rowset]

HookLabels == {"push", "put", "drop", "retitle", "list", "drop_group", "evict", "forget",
               "publish", "publish_group"}
Label == HookLabels \cup {"idle", "read", "install", "artifact", "fill"}
Subscribed == {"off", "resync", "replace", "clear", "on", "reload", "reloaded"}

Task == [at : Label, r : SUBSET Route, g : SUBSET Group, rec : Record, rows : Rowset]

(* What a hook puts into the table is a record, and what it evicts is of   *)
(* the group that it will announce.                                        *)
Fits(t) ==
  /\ t.at \in {"push", "put"} => t.rec \in Row
  /\ t.at = "retitle" => t.rec.name # 0
  /\ t.at \in HookLabels => \A r \in t.r : GroupOf[r] \in t.g

(* Versions grow no faster than events; a route with a record was created. *)
StorageTyped ==
  /\ events \in 0 .. MaxEvents /\ faults \in 0 .. MaxFaults
  /\ stored \in Rowset /\ named \in [Group -> Version] /\ created \subseteq Route
  /\ \A r \in Route : /\ stored[r].src <= events + 1 /\ stored[r].name <= events + 1
                      /\ stored[r].src # 0 => r \in created
  /\ \A g \in Group : named[g] <= events + 1

LocalTyped ==
  /\ table \in [Replica -> [Route -> Seq(Row)]]
  /\ cache \in [Replica -> [Route -> Version]]
  /\ recent \in [Replica -> SUBSET Group]
  /\ late \in [Replica -> SUBSET Group] /\ raced \in [Replica -> SUBSET Route]

BusTyped ==
  /\ sub \in [Replica -> Subscribed] /\ got \in [Replica -> Event0]
  /\ inbox \in [Replica -> Seq(Message)]

JobTyped == job \in [Worker -> Task] /\ \A w \in Worker : Fits(job[w])

Typed == StorageTyped /\ LocalTyped /\ BusTyped /\ JobTyped

LEMMA TypedIsTypeOK ==
  ASSUME Typed
  PROVE  TypeOK
<1>1. stored \in [Route -> Record] /\ named \in [Group -> Version] /\ created \subseteq Route
  BY DEF Typed, StorageTyped, Rowset
<1>2. \A h \in Replica, r \in Route : table[h][r] \in Seq(Record \ {NoRecord})
  BY DEF Typed, LocalTyped, Row
<1>3. cache \in [Replica -> [Route -> Version]] /\ recent \in [Replica -> SUBSET Group]
  BY DEF Typed, LocalTyped
<1>4. sub \in [Replica -> {"off", "resync", "replace", "clear", "on", "reload", "reloaded"}]
  BY DEF Typed, BusTyped, Subscribed
<1>5. Task = [at : {"idle", "push", "put", "drop", "retitle", "list",
       "drop_group", "evict", "forget", "publish", "publish_group", "read",
       "install", "artifact", "fill"}, r : SUBSET Route, g : SUBSET Group,
       rec : Record, rows : [Route -> Record]]
  <2>1. Label = {"idle", "push", "put", "drop", "retitle", "list",
       "drop_group", "evict", "forget", "publish", "publish_group", "read",
       "install", "artifact", "fill"}
    BY Zenon DEF Label, HookLabels
  <2>. QED  BY <2>1, Zenon DEF Task, Rowset
<1>6. job \in [Worker -> Task]
  BY DEF Typed, JobTyped
<1>. QED  BY <1>1, <1>2, <1>3, <1>4, <1>5, <1>6, Zenon DEF TypeOK

-----------------------------------------------------------------------------
(* What holds initially, and of the values that appear.                    *)

LEMMA Numbers ==
  /\ MaxEvents \in Nat /\ MaxFaults \in Nat
  /\ 0 \in Version /\ 1 \in Version /\ Version \subseteq Nat
BY TableAssumption DEF Version

LEMMA Nothing ==
  /\ NoRecord \in Record /\ NoRows \in Rowset /\ NoEvent \in Event0
  /\ Idle \in Task /\ Fits(Idle)
<1>1. NoRecord \in Record
  BY Numbers DEF NoRecord, Record
<1>2. NoRows \in Rowset
  BY <1>1 DEF NoRows, Rowset
<1>. QED  BY <1>1, <1>2 DEF NoEvent, Event0, Idle, Task, Label, Fits, HookLabels

(* A record without a source is not copied.                                *)
LEMMA CopyTyped ==
  ASSUME NEW rec \in Record
  PROVE  Copy(rec) \in Seq(Row)
<1>1. CASE rec.src = 0
  BY <1>1, EmptySeq DEF Copy
<1>2. CASE rec.src # 0
  <2>1. rec \in Row
    BY <1>2 DEF Row, NoRecord
  <2>. QED  BY <1>2, <2>1 DEF Copy
<1>. QED  BY <1>1, <1>2

LEMMA RowsTyped ==
  ASSUME StorageTyped, NEW gs
  PROVE  Rows(gs) \in Rowset
BY Nothing DEF StorageTyped, Rows, Rowset

LEMMA ReplacedTyped ==
  ASSUME LocalTyped, NEW h \in Replica, NEW gs, NEW rows \in Rowset
  PROVE  Replaced(h, gs, rows) \in [Route -> Seq(Row)]
<1>1. \A r \in Route : rows[r] \in Record
  BY DEF Rowset
<1>. QED  BY <1>1, CopyTyped DEF LocalTyped, Replaced

LEMMA TypedInit ==
  ASSUME Init
  PROVE  Typed
<1>. USE Numbers
<1>1. StorageTyped
  <2>1. [src |-> 1, name |-> 1] \in Record /\ NoRecord \in Record
    BY Nothing DEF Record
  <2>2. stored \in Rowset
    BY <2>1 DEF Init, Rowset
  <2>3. \A r \in Route : /\ stored[r].src \in {0, 1} /\ stored[r].name \in {0, 1}
                         /\ stored[r].src # 0 => r \in created
    BY DEF Init, NoRecord
  <2>4. named \in [Group -> Version] /\ (\A g \in Group : named[g] = 1) /\ created \subseteq Route
        /\ events = 0 /\ faults = 0
    BY TableAssumption DEF Init
  <2>. QED  BY <2>2, <2>3, <2>4 DEF StorageTyped
<1>2. LocalTyped
  <2>1. \A r \in Route : Copy(stored[r]) \in Seq(Row)
    BY <1>1, CopyTyped DEF StorageTyped, Rowset
  <2>. QED  BY <2>1 DEF Init, LocalTyped
<1>3. BusTyped
  BY Nothing, EmptySeq DEF Init, BusTyped, Subscribed
<1>4. JobTyped
  BY Nothing DEF Init, JobTyped
<1>. QED  BY <1>1, <1>2, <1>3, <1>4 DEF Typed

-----------------------------------------------------------------------------
(* The API calls.                                                          *)

LEMMA WorkTyped ==
  ASSUME JobTyped, NEW w \in Worker, NEW t \in Task, Fits(t), Work(w, t)
  PROVE  JobTyped'
BY DEF JobTyped, Work

(* A step of worker w that stays out of storage, tables and bus            *)
LEMMA JobOnly ==
  ASSUME Typed, JobTyped', UNCHANGED <<storage, local, bus, bounds>>
  PROVE  Typed'
BY DEF Typed, StorageTyped, LocalTyped, BusTyped, storage, local, bus, bounds

(* What a call may announce                                                *)
Announces(label, g, rs, rec) ==
  /\ label \in {"push", "put", "drop", "retitle", "list"}
  /\ g \in Group /\ rs \in SUBSET Route /\ rec \in Record
  /\ \A r \in rs : GroupOf[r] = g
  /\ label \in {"push", "put"} => rec \in Row
  /\ label = "retitle" => rec.name # 0

LEMMA CommitTyped ==
  ASSUME Typed, NEW w \in Worker, NEW label, NEW g, NEW rs, NEW rec,
         Commit(w, label, g, rs, rec), Announces(label, g, rs, rec)
  PROVE  /\ JobTyped' /\ LocalTyped' /\ BusTyped'
         /\ events \in Nat /\ events < MaxEvents /\ events' = events + 1 /\ faults' = faults
         /\ events' \in 0 .. MaxEvents
         /\ job'[w].at = label /\ job'[w].g = {g} /\ job'[w].r = rs
         /\ job[w].at = "idle" /\ \A v \in Worker \ {w} : job'[v] = job[v]
<1>1. PICK t : t = [Idle EXCEPT !.at = label, !.g = {g}, !.r = rs, !.rec = rec]
  OBVIOUS
<1>2. Work(w, t) /\ At(w, "idle") /\ Event /\ UNCHANGED <<local, bus>>
  BY <1>1 DEF Commit
<1>3. /\ t \in Task /\ t.at = label /\ t.g = {g} /\ t.r = rs /\ t.rec = rec
  <2>1. label \in Label
    BY DEF Label, HookLabels, Announces
  <2>. QED  BY <1>1, <2>1, Nothing DEF Idle, Task, Announces
<1>4. Fits(t)
  BY <1>3 DEF Fits, Announces
<1>5. JobTyped'
  BY <1>2, <1>3, <1>4, WorkTyped DEF Typed
<1>6. LocalTyped' /\ BusTyped'
  BY <1>2 DEF Typed, LocalTyped, BusTyped, local, bus
<1>7. events \in 0 .. MaxEvents
  BY DEF Typed, StorageTyped
<1>8. events \in Nat /\ events < MaxEvents /\ events' = events + 1 /\ faults' = faults
  BY <1>2, <1>7 DEF Event
<1>9. job'[w] = t /\ \A v \in Worker \ {w} : job'[v] = job[v]
  BY <1>2 DEF Work, Typed, JobTyped
<1>10. events' \in 0 .. MaxEvents
  BY <1>8, Numbers
<1>. QED  BY <1>2, <1>3, <1>5, <1>6, <1>8, <1>9, <1>10 DEF At

(* What an API call leaves: the routes it is about, and every other route  *)
(* as it was.                                                              *)
Committed(w) == \E g \in Group :
  /\ job'[w].at \in HookLabels /\ job'[w].g = {g} /\ job[w].at = "idle"
  /\ \A v \in Worker \ {w} : job'[v] = job[v]
  /\ \A r \in Route : GroupOf[r] # g => stored'[r] = stored[r]
  /\ \A r \in Route :
       \/ stored'[r].src = stored[r].src
       \/ stored'[r].src = 0 /\ r \in created
       \/ r \notin created
       \/ r \in job'[w].r /\ job'[w].at = "put"
  /\ created \subseteq created'
  /\ UNCHANGED <<local, bus, faults>>

LEMMA CreateTyped ==
  ASSUME Typed, NEW w \in Worker, CreateRoute(w)
  PROVE  Typed' /\ Committed(w)
<1>1. PICK r, g, rec :
        /\ r \in Route \ created /\ g = GroupOf[r]
        /\ rec = [src |-> 1, name |-> named[g]] /\ named[g] # 0
        /\ Commit(w, "push", g, {r}, rec)
        /\ stored' = [stored EXCEPT ![r] = rec] /\ created' = created \cup {r}
        /\ UNCHANGED named
  BY DEF CreateRoute
<1>2. /\ g \in Group /\ named[g] \in Version /\ stored \in Rowset /\ created \subseteq Route
      /\ \A x \in Route : /\ stored[x].src <= events + 1 /\ stored[x].name <= events + 1
                          /\ stored[x].src # 0 => x \in created
                          /\ stored[x].src \in Nat /\ stored[x].name \in Nat
      /\ \A x \in Group : named[x] <= events + 1 /\ named[x] \in Nat
      /\ named \in [Group -> Version] /\ faults \in 0 .. MaxFaults
  BY <1>1, TableAssumption, Numbers DEF Typed, StorageTyped, Rowset, Record
<1>3. rec \in Record /\ rec.src = 1 /\ rec.name = named[g] /\ rec \in Row
  BY <1>1, <1>2, Numbers DEF Record, Row, NoRecord
<1>4. /\ JobTyped' /\ LocalTyped' /\ BusTyped'
      /\ events \in Nat /\ events' = events + 1 /\ faults' = faults
      /\ events' \in 0 .. MaxEvents
      /\ job'[w].at = "push" /\ job'[w].g = {g} /\ job'[w].r = {r}
      /\ job[w].at = "idle" /\ \A v \in Worker \ {w} : job'[v] = job[v]
  <2>1. Announces("push", g, {r}, rec)
    BY <1>1, <1>2, <1>3 DEF Announces
  <2>2. Commit(w, "push", g, {r}, rec)
    BY <1>1
  <2>. QED  BY <2>1, <2>2, CommitTyped
<1>5. stored' \in Rowset /\ \A x \in Route : stored'[x] = IF x = r THEN rec ELSE stored[x]
  BY <1>1, <1>2, <1>3 DEF Rowset
<1>6. StorageTyped'
  <2>1. \A x \in Route : /\ stored'[x].src <= events' + 1 /\ stored'[x].name <= events' + 1
                         /\ stored'[x].src # 0 => x \in created'
    BY <1>1, <1>2, <1>3, <1>4, <1>5
  <2>2. \A x \in Group : named'[x] <= events' + 1
    BY <1>1, <1>2, <1>4
  <2>. QED  BY <1>1, <1>2, <1>4, <1>5, <2>1, <2>2 DEF StorageTyped
<1>7. Committed(w)
  BY <1>1, <1>2, <1>4, <1>5 DEF Committed, HookLabels, Commit
<1>. QED  BY <1>4, <1>6, <1>7 DEF Typed

LEMMA UpdateTyped ==
  ASSUME Typed, NEW w \in Worker, UpdateRoute(w)
  PROVE  Typed' /\ Committed(w)
<1>1. PICK r, g, rec :
        /\ r \in Route /\ g = GroupOf[r] /\ rec = [stored[r] EXCEPT !.src = stored[r].src + 1]
        /\ Commit(w, "put", g, {r}, rec) /\ stored[r].src # 0
        /\ stored' = [stored EXCEPT ![r] = rec]
        /\ UNCHANGED <<named, created>>
  BY DEF UpdateRoute
<1>2. /\ g \in Group /\ stored \in Rowset /\ stored[r] \in Record /\ created \subseteq Route
      /\ \A x \in Route : /\ stored[x].src <= events + 1 /\ stored[x].name <= events + 1
                          /\ stored[x].src # 0 => x \in created
                          /\ stored[x].src \in Nat /\ stored[x].name \in Nat
      /\ \A x \in Group : named[x] <= events + 1 /\ named[x] \in Nat
      /\ named \in [Group -> Version] /\ faults \in 0 .. MaxFaults
  BY <1>1, TableAssumption, Numbers DEF Typed, StorageTyped, Rowset, Record
<1>3. events \in Nat /\ events < MaxEvents
  BY <1>1 DEF Commit, Event, Typed, StorageTyped
<1>4. rec.src = stored[r].src + 1 /\ rec.name = stored[r].name /\ rec \in Record /\ rec \in Row
  <2>1. stored[r].src + 1 \in Version
    BY <1>1, <1>2, <1>3, Numbers DEF Version
  <2>2. rec.src = stored[r].src + 1 /\ rec.name = stored[r].name /\ rec \in Record
    BY <1>1, <1>2, <2>1 DEF Record
  <2>. QED  BY <1>1, <1>2, <2>2 DEF Row, NoRecord
<1>5. /\ JobTyped' /\ LocalTyped' /\ BusTyped'
      /\ events' = events + 1 /\ faults' = faults
      /\ events' \in 0 .. MaxEvents
      /\ job'[w].at = "put" /\ job'[w].g = {g} /\ job'[w].r = {r}
      /\ job[w].at = "idle" /\ \A v \in Worker \ {w} : job'[v] = job[v]
  <2>1. Announces("put", g, {r}, rec)
    BY <1>1, <1>2, <1>4 DEF Announces
  <2>2. Commit(w, "put", g, {r}, rec)
    BY <1>1
  <2>. QED  BY <2>1, <2>2, CommitTyped
<1>6. stored' \in Rowset /\ \A x \in Route : stored'[x] = IF x = r THEN rec ELSE stored[x]
  BY <1>1, <1>2, <1>4 DEF Rowset
<1>7. StorageTyped'
  <2>1. \A x \in Route : /\ stored'[x].src <= events' + 1 /\ stored'[x].name <= events' + 1
                         /\ stored'[x].src # 0 => x \in created'
    BY <1>1, <1>2, <1>3, <1>4, <1>5, <1>6
  <2>2. \A x \in Group : named'[x] <= events' + 1
    BY <1>1, <1>2, <1>3, <1>5
  <2>. QED  BY <1>1, <1>2, <1>5, <1>6, <2>1, <2>2 DEF StorageTyped
<1>8. Committed(w)
  BY <1>1, <1>2, <1>5, <1>6 DEF Committed, HookLabels, Commit
<1>. QED  BY <1>5, <1>7, <1>8 DEF Typed

LEMMA DeleteTyped ==
  ASSUME Typed, NEW w \in Worker, DeleteRoute(w)
  PROVE  Typed' /\ Committed(w)
<1>1. PICK r, g :
        /\ r \in Route /\ g = GroupOf[r] /\ Commit(w, "drop", g, {r}, NoRecord) /\ stored[r].src # 0
        /\ stored' = [stored EXCEPT ![r] = NoRecord]
        /\ UNCHANGED <<named, created>>
  BY DEF DeleteRoute
<1>2. /\ g \in Group /\ stored \in Rowset /\ created \subseteq Route
      /\ \A x \in Route : /\ stored[x].src <= events + 1 /\ stored[x].name <= events + 1
                          /\ stored[x].src # 0 => x \in created
                          /\ stored[x].src \in Nat /\ stored[x].name \in Nat
      /\ \A x \in Group : named[x] <= events + 1 /\ named[x] \in Nat
      /\ named \in [Group -> Version] /\ faults \in 0 .. MaxFaults
  BY <1>1, TableAssumption, Numbers DEF Typed, StorageTyped, Rowset, Record
<1>3. NoRecord \in Record /\ NoRecord.src = 0 /\ NoRecord.name = 0
  BY Nothing DEF NoRecord
<1>4. /\ JobTyped' /\ LocalTyped' /\ BusTyped'
      /\ events \in Nat /\ events' = events + 1 /\ faults' = faults
      /\ events' \in 0 .. MaxEvents
      /\ job'[w].at = "drop" /\ job'[w].g = {g} /\ job'[w].r = {r}
      /\ job[w].at = "idle" /\ \A v \in Worker \ {w} : job'[v] = job[v]
  <2>1. Announces("drop", g, {r}, NoRecord)
    BY <1>1, <1>2, <1>3 DEF Announces
  <2>2. Commit(w, "drop", g, {r}, NoRecord)
    BY <1>1
  <2>. QED  BY <2>1, <2>2, CommitTyped
<1>5. stored' \in Rowset /\ \A x \in Route : stored'[x] = IF x = r THEN NoRecord ELSE stored[x]
  BY <1>1, <1>2, <1>3 DEF Rowset
<1>6. StorageTyped'
  <2>1. \A x \in Route : /\ stored'[x].src <= events' + 1 /\ stored'[x].name <= events' + 1
                         /\ stored'[x].src # 0 => x \in created'
    BY <1>1, <1>2, <1>3, <1>4, <1>5
  <2>2. \A x \in Group : named'[x] <= events' + 1
    BY <1>1, <1>2, <1>4
  <2>. QED  BY <1>1, <1>2, <1>4, <1>5, <2>1, <2>2 DEF StorageTyped
<1>7. Committed(w)
  BY <1>1, <1>2, <1>3, <1>4, <1>5 DEF Committed, HookLabels, Commit
<1>. QED  BY <1>4, <1>6, <1>7 DEF Typed

LEMMA RenameTyped ==
  ASSUME Typed, NEW w \in Worker, RenameGroup(w)
  PROVE  Typed' /\ Committed(w)
<1>1. PICK g, n, rec :
        /\ g \in Group /\ n = named[g] + 1 /\ named[g] # 0 /\ rec = [src |-> 0, name |-> n]
        /\ Commit(w, "retitle", g, {}, rec)
        /\ named' = [named EXCEPT ![g] = n]
        /\ stored' = [r \in Route |->
             IF GroupOf[r] = g /\ stored[r].src # 0 THEN [stored[r] EXCEPT !.name = n]
             ELSE stored[r]]
        /\ UNCHANGED created
  BY DEF RenameGroup
<1>2. /\ stored \in Rowset /\ created \subseteq Route
      /\ \A x \in Route : /\ stored[x].src <= events + 1 /\ stored[x].name <= events + 1
                          /\ stored[x].src # 0 => x \in created
                          /\ stored[x].src \in Nat /\ stored[x].name \in Nat
                          /\ stored[x] \in Record
      /\ \A x \in Group : named[x] <= events + 1 /\ named[x] \in Nat
      /\ named \in [Group -> Version] /\ faults \in 0 .. MaxFaults
  BY Numbers DEF Typed, StorageTyped, Rowset, Record
<1>3. events \in Nat /\ events < MaxEvents
  BY <1>1 DEF Commit, Event, Typed, StorageTyped
<1>4. n \in Version /\ n \in Nat /\ n <= events + 2 /\ n # 0
  BY <1>1, <1>2, <1>3, Numbers DEF Version
<1>5. rec \in Record /\ rec.name = n
  BY <1>1, <1>4, Numbers DEF Record
<1>6. /\ JobTyped' /\ LocalTyped' /\ BusTyped'
      /\ events' = events + 1 /\ faults' = faults
      /\ events' \in 0 .. MaxEvents
      /\ job'[w].at = "retitle" /\ job'[w].g = {g} /\ job'[w].r = {}
      /\ job[w].at = "idle" /\ \A v \in Worker \ {w} : job'[v] = job[v]
  <2>1. Announces("retitle", g, {}, rec)
    BY <1>1, <1>4, <1>5 DEF Announces
  <2>2. Commit(w, "retitle", g, {}, rec)
    BY <1>1
  <2>. QED  BY <2>1, <2>2, CommitTyped
<1>7. \A x \in Route :
        /\ stored'[x] \in Record /\ stored'[x].src = stored[x].src
        /\ stored'[x].name \in {n, stored[x].name}
        /\ GroupOf[x] # g => stored'[x] = stored[x]
  BY <1>1, <1>2, <1>4 DEF Record
<1>8. StorageTyped'
  <2>1. \A x \in Route : /\ stored'[x].src <= events' + 1 /\ stored'[x].name <= events' + 1
                         /\ stored'[x].src # 0 => x \in created'
    BY <1>1, <1>2, <1>3, <1>4, <1>6, <1>7
  <2>2. named' \in [Group -> Version] /\ \A x \in Group : named'[x] <= events' + 1
    BY <1>1, <1>2, <1>3, <1>4, <1>6
  <2>3. stored' \in Rowset
    <3>1. stored' = [r \in Route |-> stored'[r]]
      BY <1>1
    <3>2. \A x \in Route : stored'[x] \in Record
      BY <1>7
    <3>3. stored' \in [Route -> Record]
      BY <3>1, <3>2, Zenon
    <3>. QED  BY <3>3 DEF Rowset
  <2>. QED  BY <1>1, <1>2, <1>6, <2>1, <2>2, <2>3 DEF StorageTyped
<1>9. Committed(w)
  BY <1>1, <1>6, <1>7 DEF Committed, HookLabels, Commit
<1>. QED  BY <1>6, <1>8, <1>9 DEF Typed

LEMMA DeleteGroupTyped ==
  ASSUME Typed, NEW w \in Worker, DeleteGroup(w)
  PROVE  Typed' /\ Committed(w)
<1>1. PICK g \in Group :
        /\ Commit(w, "list", g, {}, NoRecord)
        /\ named' = [named EXCEPT ![g] = 0]
        /\ stored' = [r \in Route |-> IF GroupOf[r] = g THEN NoRecord ELSE stored[r]]
        /\ UNCHANGED created
  BY DEF DeleteGroup
<1>2. /\ stored \in Rowset /\ created \subseteq Route
      /\ \A x \in Route : /\ stored[x].src <= events + 1 /\ stored[x].name <= events + 1
                          /\ stored[x].src # 0 => x \in created
                          /\ stored[x].src \in Nat /\ stored[x].name \in Nat
                          /\ stored[x] \in Record
      /\ \A x \in Group : named[x] <= events + 1 /\ named[x] \in Nat
      /\ named \in [Group -> Version] /\ faults \in 0 .. MaxFaults
  BY Numbers DEF Typed, StorageTyped, Rowset, Record
<1>3. NoRecord \in Record /\ NoRecord.src = 0 /\ NoRecord.name = 0
  BY Nothing DEF NoRecord
<1>4. /\ JobTyped' /\ LocalTyped' /\ BusTyped'
      /\ events \in Nat /\ events' = events + 1 /\ faults' = faults
      /\ events' \in 0 .. MaxEvents
      /\ job'[w].at = "list" /\ job'[w].g = {g} /\ job'[w].r = {}
      /\ job[w].at = "idle" /\ \A v \in Worker \ {w} : job'[v] = job[v]
  <2>1. Announces("list", g, {}, NoRecord)
    BY <1>1, <1>3 DEF Announces
  <2>2. Commit(w, "list", g, {}, NoRecord)
    BY <1>1
  <2>. QED  BY <2>1, <2>2, CommitTyped
<1>5. \A x \in Route : stored'[x] = IF GroupOf[x] = g THEN NoRecord ELSE stored[x]
  BY <1>1
<1>6. StorageTyped'
  <2>1. \A x \in Route : /\ stored'[x].src <= events' + 1 /\ stored'[x].name <= events' + 1
                         /\ stored'[x].src # 0 => x \in created'
    BY <1>1, <1>2, <1>3, <1>4, <1>5
  <2>2. named' \in [Group -> Version] /\ \A x \in Group : named'[x] <= events' + 1
    BY <1>1, <1>2, <1>4, Numbers
  <2>3. stored' \in Rowset
    BY <1>1, <1>2, <1>3 DEF Rowset
  <2>. QED  BY <1>1, <1>2, <1>4, <2>1, <2>2, <2>3 DEF StorageTyped
<1>7. Committed(w)
  BY <1>1, <1>2, <1>3, <1>4, <1>5 DEF Committed, HookLabels, Commit
<1>. QED  BY <1>4, <1>6, <1>7 DEF Typed

LEMMA ApiTyped ==
  ASSUME Typed, NEW w \in Worker, Api(w)
  PROVE  Typed' /\ Committed(w)
BY CreateTyped, UpdateTyped, DeleteTyped, RenameTyped, DeleteGroupTyped DEF Api

-----------------------------------------------------------------------------
(* The hooks.                                                              *)

(* A worker that passes on with what it has in hand                        *)
Onward(w, label) ==
  /\ job[w].at \in HookLabels /\ job'[w].at = label
  /\ job'[w].g = job[w].g /\ job'[w].r = job[w].r
  /\ \A v \in Worker \ {w} : job'[v] = job[v]

LEMMA StepTyped ==
  ASSUME Typed, NEW w \in Worker, job[w].at \in HookLabels,
         NEW label \in {"forget", "drop_group", "evict", "publish", "publish_group"},
         Step(w, label)
  PROVE  JobTyped' /\ Onward(w, label)
<1>1. PICK t : t = [job[w] EXCEPT !.at = label]
  OBVIOUS
<1>2. job[w] \in Task /\ Fits(job[w]) /\ label \in Label
  BY DEF Typed, JobTyped, Label, HookLabels
<1>3. t \in Task /\ t.at = label /\ t.g = job[w].g /\ t.r = job[w].r
  BY <1>1, <1>2 DEF Task
<1>4. Fits(t)
  BY <1>2, <1>3 DEF Fits
<1>5. Work(w, t)
  BY <1>1 DEF Step
<1>6. job'[w] = t /\ \A v \in Worker \ {w} : job'[v] = job[v]
  BY <1>5 DEF Work, Typed, JobTyped
<1>. QED  BY <1>3, <1>4, <1>5, <1>6, WorkTyped DEF Onward, Typed

(* A hook that works on the table changes the rows of its group alone.     *)
Tabled(w) ==
  /\ \E label \in {"forget", "evict", "publish_group"} : Onward(w, label)
  /\ job[w].at = "put" => job'[w].at = "evict"
  /\ job[w].at \notin {"evict", "publish"}
  /\ \A h \in Replica, r \in Route :
       GroupOf[r] \notin job[w].g => table'[h][r] = table[h][r]
  /\ UNCHANGED <<storage, cache, recent, late, raced, bus, bounds>>

LEMMA RefreshTyped ==
  ASSUME Typed, NEW w \in Worker, NEW from, NEW to \in {"forget", "evict", "publish_group"},
         from \in HookLabels \ {"evict", "publish"}, from = "put" => to = "evict",
         NEW row \in [Route -> Seq(Row)],
         At(w, from), Step(w, to), table' = [table EXCEPT ![HostOf[w]] = row],
         \A r \in Route : GroupOf[r] \notin job[w].g => row[r] = table[HostOf[w]][r],
         UNCHANGED <<storage, cache, recent, late, raced, bus, bounds>>
  PROVE  Typed' /\ Tabled(w)
<1>1. job[w].at \in HookLabels /\ HostOf[w] \in Replica /\ job[w].at = from
  BY TableAssumption DEF At
<1>2. JobTyped' /\ Onward(w, to)
  BY <1>1, StepTyped
<1>3. table' \in [Replica -> [Route -> Seq(Row)]]
      /\ \A h \in Replica, r \in Route :
           GroupOf[r] \notin job[w].g => table'[h][r] = table[h][r]
  BY <1>1 DEF Typed, LocalTyped
<1>4. Typed'
  BY <1>2, <1>3 DEF Typed, StorageTyped, LocalTyped, BusTyped, storage, bus, bounds
<1>. QED  BY <1>1, <1>2, <1>3, <1>4 DEF Tabled, Onward

(* The rows of a replica, and what a worker has in hand                    *)
LEMMA Mine ==
  ASSUME Typed, NEW w \in Worker
  PROVE  /\ HostOf[w] \in Replica /\ table[HostOf[w]] \in [Route -> Seq(Row)]
         /\ job[w] \in Task /\ Fits(job[w])
         /\ job[w].r \subseteq Route /\ job[w].g \subseteq Group
         /\ job[w].rec \in Record /\ job[w].rows \in Rowset
         /\ job[w].at \in HookLabels => \A r \in job[w].r : GroupOf[r] \in job[w].g
<1>1. HostOf[w] \in Replica /\ job[w] \in Task /\ Fits(job[w])
  BY TableAssumption DEF Typed, JobTyped
<1>. QED  BY <1>1 DEF Typed, LocalTyped, Task, Fits

LEMMA PushTyped ==
  ASSUME Typed, NEW w \in Worker, Push(w)
  PROVE  Typed' /\ Tabled(w)
<1>1. PICK row : row = [r \in Route |->
        IF r \in job[w].r THEN Append(table[HostOf[w]][r], job[w].rec) ELSE table[HostOf[w]][r]]
  OBVIOUS
<1>2. /\ At(w, "push") /\ Step(w, "publish_group")
      /\ table' = [table EXCEPT ![HostOf[w]] = row]
      /\ UNCHANGED <<storage, cache, recent, late, raced, bus, bounds>>
  BY <1>1 DEF Push, Refresh
<1>3. "push" \in HookLabels
  BY DEF HookLabels
<1>4. job[w].rec \in Row /\ \A r \in job[w].r : GroupOf[r] \in job[w].g
  BY <1>2, <1>3, Mine DEF At, Fits
<1>5. row \in [Route -> Seq(Row)]
  <2>1. \A r \in Route : Append(table[HostOf[w]][r], job[w].rec) \in Seq(Row)
    BY <1>4, Mine, AppendProperties
  <2>. QED  BY <1>1, <2>1, Mine
<1>6. \A r \in Route : GroupOf[r] \notin job[w].g => row[r] = table[HostOf[w]][r]
  BY <1>1, <1>4
<1>. QED  BY <1>2, <1>3, <1>5, <1>6, RefreshTyped

LEMMA PutTyped ==
  ASSUME Typed, NEW w \in Worker, Put(w)
  PROVE  Typed' /\ Tabled(w)
<1>1. PICK row : row = [r \in Route |->
        IF r \in job[w].r THEN <<job[w].rec>> \o (IF table[HostOf[w]][r] = <<>> THEN <<>>
                                                 ELSE Tail(table[HostOf[w]][r]))
        ELSE table[HostOf[w]][r]]
  OBVIOUS
<1>2. /\ At(w, "put") /\ Step(w, "evict")
      /\ table' = [table EXCEPT ![HostOf[w]] = row]
      /\ UNCHANGED <<storage, cache, recent, late, raced, bus, bounds>>
  BY <1>1 DEF Put, Refresh
<1>3. "put" \in HookLabels
  BY DEF HookLabels
<1>4. job[w].rec \in Row /\ \A r \in job[w].r : GroupOf[r] \in job[w].g
  BY <1>2, <1>3, Mine DEF At, Fits
<1>5. row \in [Route -> Seq(Row)]
  <2>1. ASSUME NEW copies \in Seq(Row)
        PROVE  <<job[w].rec>> \o (IF copies = <<>> THEN <<>> ELSE Tail(copies)) \in Seq(Row)
    <3>1. <<job[w].rec>> \in Seq(Row) /\ <<>> \in Seq(Row)
      BY <1>4, EmptySeq
    <3>2. copies # <<>> => Tail(copies) \in Seq(Row)
      BY HeadTailProperties
    <3>3. (IF copies = <<>> THEN <<>> ELSE Tail(copies)) \in Seq(Row)
      BY <3>1, <3>2
    <3>. QED  BY <3>1, <3>3, ConcatProperties
  <2>. QED  BY <1>1, <2>1, Mine
<1>6. \A r \in Route : GroupOf[r] \notin job[w].g => row[r] = table[HostOf[w]][r]
  BY <1>1, <1>4
<1>. QED  BY <1>2, <1>3, <1>5, <1>6, RefreshTyped

LEMMA DropTyped ==
  ASSUME Typed, NEW w \in Worker, Drop(w)
  PROVE  Typed' /\ Tabled(w)
<1>1. PICK row : row = [r \in Route |->
        IF r \in job[w].r THEN <<>> ELSE table[HostOf[w]][r]]
  OBVIOUS
<1>2. /\ At(w, "drop") /\ Step(w, "evict")
      /\ table' = [table EXCEPT ![HostOf[w]] = row]
      /\ UNCHANGED <<storage, cache, recent, late, raced, bus, bounds>>
  BY <1>1 DEF Drop, Refresh
<1>3. "drop" \in HookLabels
  BY DEF HookLabels
<1>4. \A r \in job[w].r : GroupOf[r] \in job[w].g
  BY <1>2, <1>3, Mine DEF At
<1>5. row \in [Route -> Seq(Row)]
  BY <1>1, Mine, EmptySeq
<1>6. \A r \in Route : GroupOf[r] \notin job[w].g => row[r] = table[HostOf[w]][r]
  BY <1>1, <1>4
<1>. QED  BY <1>2, <1>3, <1>5, <1>6, RefreshTyped

LEMMA RetitleTyped ==
  ASSUME Typed, NEW w \in Worker, Retitle(w)
  PROVE  Typed' /\ Tabled(w)
<1>1. PICK n : n = job[w].rec.name
  OBVIOUS
<1>2. PICK row : row = [r \in Route |->
        IF GroupOf[r] \in job[w].g
          THEN [i \in DOMAIN table[HostOf[w]][r] |-> [table[HostOf[w]][r][i] EXCEPT !.name = n]]
          ELSE table[HostOf[w]][r]]
  OBVIOUS
<1>3. /\ At(w, "retitle") /\ Step(w, "publish_group")
      /\ table' = [table EXCEPT ![HostOf[w]] = row]
      /\ UNCHANGED <<storage, cache, recent, late, raced, bus, bounds>>
  BY <1>1, <1>2 DEF Retitle, Refresh
<1>4. "retitle" \in HookLabels
  BY DEF HookLabels
<1>5. n \in Version /\ n # 0
  BY <1>1, <1>3, Mine DEF At, Fits, Record
<1>6. ASSUME NEW copies \in Seq(Row)
      PROVE  [i \in DOMAIN copies |-> [copies[i] EXCEPT !.name = n]] \in Seq(Row)
  <2>1. Len(copies) \in Nat /\ DOMAIN copies = 1 .. Len(copies)
        /\ \A i \in 1 .. Len(copies) : copies[i] \in Row
    BY LenProperties, ElementOfSeq
  <2>2. ASSUME NEW c \in Row PROVE [c EXCEPT !.name = n] \in Row
    BY <1>5 DEF Row, Record, NoRecord
  <2>3. [i \in 1 .. Len(copies) |-> [copies[i] EXCEPT !.name = n]] \in [1 .. Len(copies) -> Row]
    BY <2>1, <2>2
  <2>. QED  BY <2>1, <2>3, SeqDef
<1>7. row \in [Route -> Seq(Row)]
  BY <1>2, <1>6, Mine
<1>8. \A r \in Route : GroupOf[r] \notin job[w].g => row[r] = table[HostOf[w]][r]
  BY <1>2
<1>. QED  BY <1>3, <1>4, <1>7, <1>8, RefreshTyped

LEMMA DropGroupTyped ==
  ASSUME Typed, NEW w \in Worker, DropGroup(w)
  PROVE  Typed' /\ Tabled(w)
<1>1. PICK row : row = [r \in Route |->
        IF GroupOf[r] \in job[w].g THEN <<>> ELSE table[HostOf[w]][r]]
  OBVIOUS
<1>2. /\ At(w, "drop_group") /\ Step(w, "forget")
      /\ table' = [table EXCEPT ![HostOf[w]] = row]
      /\ UNCHANGED <<storage, cache, recent, late, raced, bus, bounds>>
  BY <1>1 DEF DropGroup, Refresh
<1>3. "drop_group" \in HookLabels
  BY DEF HookLabels
<1>5. row \in [Route -> Seq(Row)]
  BY <1>1, Mine, EmptySeq
<1>6. \A r \in Route : GroupOf[r] \notin job[w].g => row[r] = table[HostOf[w]][r]
  BY <1>1
<1>. QED  BY <1>2, <1>3, <1>5, <1>6, RefreshTyped

LEMMA ListTyped ==
  ASSUME Typed, NEW w \in Worker, ListCached(w)
  PROVE  /\ Typed' /\ job[w].at = "list" /\ job'[w].at \in {"forget", "drop_group"}
         /\ job'[w].g = job[w].g /\ \A v \in Worker \ {w} : job'[v] = job[v]
         /\ UNCHANGED <<storage, local, bus, bounds>>
<1>1. PICK ids \in SUBSET Route :
        ids = {r \in Route : GroupOf[r] \in job[w].g /\ table[HostOf[w]][r] # <<>>}
  OBVIOUS
<1>2. PICK label \in {"forget", "drop_group"} :
        label = IF ids = {} THEN "forget" ELSE "drop_group"
  OBVIOUS
<1>3. PICK t : t = [job[w] EXCEPT !.r = ids, !.at = label]
  OBVIOUS
<1>4. At(w, "list") /\ Work(w, t) /\ UNCHANGED <<storage, local, bus, bounds>>
  BY <1>1, <1>2, <1>3 DEF ListCached
<1>5. t \in Task /\ t.at = label /\ t.g = job[w].g /\ t.r = ids
  <2>1. label \in Label
    BY DEF Label, HookLabels
  <2>. QED  BY <1>3, <2>1, Mine DEF Task
<1>6. Fits(t)
  BY <1>1, <1>5 DEF Fits
<1>7. JobTyped'
  BY <1>4, <1>5, <1>6, WorkTyped DEF Typed
<1>8. job'[w] = t /\ \A v \in Worker \ {w} : job'[v] = job[v]
  BY <1>4 DEF Work, Typed, JobTyped
<1>. QED  BY <1>4, <1>5, <1>7, <1>8, JobOnly DEF At

LEMMA EvictedTyped ==
  ASSUME LocalTyped, NEW h \in Replica, NEW rs, Evicted(h, rs)
  PROVE  /\ cache' \in [Replica -> [Route -> Version]] /\ raced' \in [Replica -> SUBSET Route]
         /\ \A x \in Replica, r \in Route :
              \/ x = h /\ r \in rs /\ cache'[x][r] = 0
              \/ ~ (x = h /\ r \in rs) /\ cache'[x][r] = cache[x][r]
                 /\ (r \in raced[x] => r \in raced'[x])
<1>1. cache' = [cache EXCEPT ![h] = [r \in Route |-> IF r \in rs THEN 0 ELSE cache[h][r]]]
      /\ raced' = [raced EXCEPT ![h] = raced[h] \ rs]
  BY DEF Evicted, LocalTyped
<1>2. [r \in Route |-> IF r \in rs THEN 0 ELSE cache[h][r]] \in [Route -> Version]
  BY Numbers DEF LocalTyped
<1>. QED  BY <1>1, <1>2 DEF LocalTyped

LEMMA EvictTyped ==
  ASSUME Typed, NEW w \in Worker, Evict(w)
  PROVE  /\ Typed' /\ job[w].at \in {"evict", "forget"} /\ Onward(w, "publish")
         /\ Evicted(HostOf[w], job[w].r)
         /\ UNCHANGED <<storage, table, late, bus, bounds>>
<1>1. /\ job[w].at \in {"evict", "forget"} /\ Step(w, "publish")
      /\ Evicted(HostOf[w], job[w].r)
      /\ recent' = recent \/ recent' = [recent EXCEPT ![HostOf[w]] = recent[HostOf[w]] \ job[w].g]
      /\ UNCHANGED <<storage, table, late, bus, bounds>>
  BY Mine DEF Evict, At, Typed, LocalTyped
<1>2. JobTyped' /\ Onward(w, "publish")
  BY <1>1, StepTyped DEF HookLabels
<1>3. recent' \in [Replica -> SUBSET Group]
  <2>1. recent \in [Replica -> SUBSET Group] /\ HostOf[w] \in Replica
    BY Mine DEF Typed, LocalTyped
  <2>2. recent[HostOf[w]] \ job[w].g \in SUBSET Group
    BY <2>1
  <2>. QED  BY <1>1, <2>1, <2>2
<1>4. LocalTyped'
  BY <1>1, <1>3, Mine, EvictedTyped DEF Typed, LocalTyped
<1>5. StorageTyped' /\ BusTyped'
  BY <1>1 DEF Typed, StorageTyped, BusTyped, storage, bus, bounds
<1>. QED  BY <1>1, <1>2, <1>4, <1>5 DEF Typed

LEMMA FaultTyped ==
  ASSUME StorageTyped, Fault, UNCHANGED storage
  PROVE  StorageTyped' /\ faults' # 0
<1>1. /\ events \in Nat /\ faults \in Nat /\ events < MaxEvents /\ faults < MaxFaults
      /\ events' = events + 1 /\ faults' = faults + 1
      /\ \A r \in Route : stored[r].src \in Nat /\ stored[r].name \in Nat
      /\ \A g \in Group : named[g] \in Nat
  <2>1. \A r \in Route : stored[r] \in Record
    BY DEF StorageTyped, Rowset
  <2>2. \A r \in Route : stored[r].src \in Nat /\ stored[r].name \in Nat
    BY <2>1, Numbers DEF Record
  <2>3. \A g \in Group : named[g] \in Nat
    BY Numbers DEF StorageTyped
  <2>4. events \in Nat /\ faults \in Nat
    BY DEF StorageTyped
  <2>5. events < MaxEvents /\ faults < MaxFaults /\ events' = events + 1 /\ faults' = faults + 1
    BY DEF Fault
  <2>. QED  BY <2>2, <2>3, <2>4, <2>5
<1>2. events' \in 0 .. MaxEvents /\ faults' \in 0 .. MaxFaults
  BY <1>1, Numbers
<1>3. \A r \in Route : stored[r].src <= events' + 1 /\ stored[r].name <= events' + 1
  BY <1>1 DEF StorageTyped
<1>4. \A g \in Group : named[g] <= events' + 1
  BY <1>1 DEF StorageTyped
<1>. QED  BY <1>1, <1>2, <1>3, <1>4 DEF StorageTyped, storage

(* A message reaches whoever is subscribed.                                *)
Announced(w) == \A h \in Replica :
  \/ sub[h] = "off"
  \/ \E e \in Message :
       /\ inbox'[h] = Append(inbox[h], e) /\ e.g = job[w].g
       /\ job[w].at = "publish" => e.r = job[w].r

LEMMA PublishTyped ==
  ASSUME Typed, NEW w \in Worker, Publish(w)
  PROVE  /\ Typed' /\ job[w].at \in {"publish", "publish_group"} /\ job'[w] = Idle
         /\ \A v \in Worker \ {w} : job'[v] = job[v]
         /\ faults' # 0 \/ (Announced(w) /\ UNCHANGED bounds)
         /\ UNCHANGED <<storage, local, sub, got>>
<1>1. PICK e : e = [g |-> job[w].g, r |-> IF At(w, "publish") THEN job[w].r ELSE {}]
  OBVIOUS
<1>2. /\ job[w].at \in {"publish", "publish_group"} /\ Work(w, Idle)
      /\ \/ /\ inbox' = [h \in Replica |-> IF sub[h] = "off" THEN <<>> ELSE Append(inbox[h], e)]
            /\ UNCHANGED bounds
         \/ Fault /\ UNCHANGED inbox
      /\ UNCHANGED <<storage, local, sub, got>>
  BY <1>1 DEF Publish
<1>3. e \in Message /\ e.g = job[w].g /\ (job[w].at = "publish" => e.r = job[w].r)
  BY <1>1, Mine DEF Message, At
<1>4. JobTyped' /\ job'[w] = Idle /\ \A v \in Worker \ {w} : job'[v] = job[v]
  BY <1>2, Nothing, WorkTyped DEF Typed, Work, JobTyped
<1>5. LocalTyped'
  BY <1>2 DEF Typed, LocalTyped, local
<1>6. CASE /\ inbox' = [h \in Replica |-> IF sub[h] = "off" THEN <<>> ELSE Append(inbox[h], e)]
           /\ UNCHANGED bounds
  <2>1. \A h \in Replica : inbox[h] \in Seq(Message) /\ Append(inbox[h], e) \in Seq(Message)
    BY <1>3, AppendProperties DEF Typed, BusTyped
  <2>2. inbox' \in [Replica -> Seq(Message)]
    BY <1>6, <2>1, EmptySeq
  <2>3. BusTyped' /\ StorageTyped'
    BY <1>2, <1>6, <2>2 DEF Typed, BusTyped, StorageTyped, storage, bounds
  <2>4. Announced(w)
    BY <1>3, <1>6 DEF Announced
  <2>. QED  BY <1>2, <1>4, <1>5, <1>6, <2>3, <2>4 DEF Typed
<1>7. CASE Fault /\ UNCHANGED inbox
  <2>1. BusTyped'
    BY <1>2, <1>7 DEF Typed, BusTyped
  <2>. QED  BY <1>2, <1>4, <1>5, <1>7, <2>1, FaultTyped DEF Typed
<1>. QED  BY <1>2, <1>6, <1>7

-----------------------------------------------------------------------------
(* Requests.                                                               *)

(* A worker that serves a request announces nothing, before and after.     *)
Served(w) ==
  /\ job[w].at \notin HookLabels /\ job'[w].at \notin HookLabels
  /\ \A v \in Worker \ {w} : job'[v] = job[v]
  /\ UNCHANGED <<storage, bus>>

LEMMA ServedTyped ==
  ASSUME Typed, NEW w \in Worker, NEW t \in Task, t.at \notin HookLabels,
         job[w].at \notin HookLabels, Work(w, t), UNCHANGED <<storage, bus>>
  PROVE  JobTyped' /\ BusTyped' /\ Served(w)
<1>1. Fits(t)
  BY DEF Fits, HookLabels
<1>2. JobTyped'
  BY <1>1, WorkTyped DEF Typed
<1>3. job'[w] = t /\ \A v \in Worker \ {w} : job'[v] = job[v]
  BY DEF Work, Typed, JobTyped
<1>4. BusTyped'
  BY DEF Typed, BusTyped, bus
<1>. QED  BY <1>2, <1>3, <1>4 DEF Served

LEMMA HitTyped ==
  ASSUME Typed, NEW w \in Worker, Hit(w)
  PROVE  Typed' /\ Served(w) /\ UNCHANGED <<local, bounds>>
<1>1. PICK r, i, rec :
        /\ r \in Route /\ i \in DOMAIN table[HostOf[w]][r] /\ rec = table[HostOf[w]][r][i]
        /\ At(w, "idle") /\ Work(w, [Idle EXCEPT !.at = "artifact", !.r = {r}, !.rec = rec])
        /\ UNCHANGED <<storage, local, bus, bounds>>
  BY DEF Hit, Found
<1>2. rec \in Record
  BY <1>1, Mine, ElementOfSeq, LenProperties DEF Row
<1>3. PICK t : t = [Idle EXCEPT !.at = "artifact", !.r = {r}, !.rec = rec]
  OBVIOUS
<1>4. t \in Task /\ t.at = "artifact"
  BY <1>1, <1>2, <1>3, Nothing DEF Idle, Task, Label
<1>5. t.at \notin HookLabels /\ job[w].at \notin HookLabels /\ Work(w, t)
  BY <1>1, <1>3, <1>4 DEF At, HookLabels
<1>6. JobTyped' /\ Served(w)
  BY <1>1, <1>4, <1>5, ServedTyped
<1>. QED  BY <1>1, <1>6, JobOnly

LEMMA MissTyped ==
  ASSUME Typed, NEW w \in Worker, NEW r \in Route, Miss(w, r)
  PROVE  Typed' /\ Served(w) /\ UNCHANGED <<table, cache, late, raced, bounds>>
<1>1. PICK g \in Group, h \in Replica : g = GroupOf[r] /\ h = HostOf[w]
  BY TableAssumption
<1>2. /\ At(w, "idle") /\ Work(w, [Idle EXCEPT !.at = "read", !.r = {r}, !.g = {g}])
      /\ recent' = [recent EXCEPT ![h] = recent[h] \cup {g}]
      /\ UNCHANGED <<storage, table, cache, late, raced, bus, bounds>>
  BY <1>1 DEF Miss, Typed, LocalTyped
<1>3. PICK t : t = [Idle EXCEPT !.at = "read", !.r = {r}, !.g = {g}]
  OBVIOUS
<1>4. t \in Task /\ t.at = "read"
  BY <1>3, Nothing DEF Idle, Task, Label
<1>5. t.at \notin HookLabels /\ job[w].at \notin HookLabels /\ Work(w, t)
  BY <1>2, <1>3, <1>4 DEF At, HookLabels
<1>6. JobTyped' /\ BusTyped' /\ Served(w)
  BY <1>2, <1>4, <1>5, ServedTyped
<1>7. LocalTyped' /\ StorageTyped'
  BY <1>2 DEF Typed, LocalTyped, StorageTyped, storage, bounds
<1>. QED  BY <1>2, <1>6, <1>7 DEF Typed

LEMMA ReadTyped ==
  ASSUME Typed, NEW w \in Worker, Read(w)
  PROVE  /\ Typed' /\ Served(w) /\ UNCHANGED local
         /\ faults' # 0 \/ UNCHANGED bounds
<1>1. PICK t : t = [job[w] EXCEPT !.at = "install", !.rows = Rows(job[w].g)]
  OBVIOUS
<1>2. /\ job[w].at = "read" /\ UNCHANGED <<storage, local, bus>>
      /\ (Work(w, t) /\ UNCHANGED bounds) \/ (Fault /\ Work(w, Idle))
  BY <1>1 DEF Read, At
<1>3. t \in Task /\ t.at = "install"
  <2>1. Rows(job[w].g) \in Rowset
    BY RowsTyped DEF Typed
  <2>2. "install" \in Label
    BY DEF Label
  <2>. QED  BY <1>1, <2>1, <2>2, Mine DEF Task
<1>4. JobTyped' /\ BusTyped' /\ Served(w)
  <2>1. t.at \notin HookLabels /\ Idle.at \notin HookLabels /\ job[w].at \notin HookLabels
    BY <1>2, <1>3 DEF HookLabels, Idle
  <2>. QED  BY <1>2, <1>3, <2>1, Nothing, ServedTyped
<1>5. LocalTyped'
  BY <1>2 DEF Typed, LocalTyped, local
<1>6. StorageTyped' /\ (faults' # 0 \/ UNCHANGED bounds)
  <2>1. CASE UNCHANGED bounds
    BY <1>2, <2>1 DEF Typed, StorageTyped, storage, bounds
  <2>2. CASE Fault
    BY <1>2, <2>2, FaultTyped DEF Typed
  <2>. QED  BY <1>2, <2>1, <2>2
<1>. QED  BY <1>2, <1>4, <1>5, <1>6 DEF Typed

(* The rows of the groups gs are replaced, the others stay.                *)
Reset(h, gs, rows) ==
  /\ \A r \in Route : GroupOf[r] \in gs => table'[h][r] = Copy(rows[r])
  /\ \A x \in Replica, r \in Route :
       x # h \/ GroupOf[r] \notin gs => table'[x][r] = table[x][r]

LEMMA ResetTyped ==
  ASSUME LocalTyped, NEW h \in Replica, NEW gs, NEW rows \in Rowset,
         table' = [table EXCEPT ![h] = Replaced(h, gs, rows)]
  PROVE  table' \in [Replica -> [Route -> Seq(Row)]] /\ Reset(h, gs, rows)
<1>1. PICK new : new = Replaced(h, gs, rows)
  OBVIOUS
<1>2. new \in [Route -> Seq(Row)]
  BY <1>1, ReplacedTyped
<1>3. \A r \in Route : new[r] = IF GroupOf[r] \in gs THEN Copy(rows[r]) ELSE table[h][r]
  BY <1>1 DEF Replaced
<1>4. table' = [table EXCEPT ![h] = new]
  BY <1>1
<1>. QED  BY <1>2, <1>3, <1>4 DEF LocalTyped, Reset

LEMMA InstallTyped ==
  ASSUME Typed, NEW w \in Worker, Install(w)
  PROVE  /\ Typed' /\ Served(w) /\ Reset(HostOf[w], job[w].g, job[w].rows)
         /\ \A x \in Replica \ {HostOf[w]} : late'[x] = late[x]
         /\ late'[HostOf[w]] = IF job[w].rows = Rows(job[w].g)
                               THEN late[HostOf[w]] \ job[w].g
                               ELSE late[HostOf[w]] \cup job[w].g
         /\ UNCHANGED <<cache, recent, raced, bounds>>
<1>1. PICK h \in Replica : h = HostOf[w]
  BY Mine
<1>2. PICK gs \in SUBSET Group : gs = job[w].g
  BY Mine
<1>3. PICK new \in SUBSET Group :
        new = IF job[w].rows = Rows(gs) THEN late[h] \ gs ELSE late[h] \cup gs
  BY DEF Typed, LocalTyped
<1>4. /\ job[w].at = "install" /\ Work(w, Idle)
      /\ table' = [table EXCEPT ![h] = Replaced(h, gs, job[w].rows)]
      /\ late' = [late EXCEPT ![h] = new]
      /\ UNCHANGED <<storage, cache, recent, raced, bus, bounds>>
  BY <1>1, <1>2, <1>3 DEF Install, At, Typed, LocalTyped
<1>5. JobTyped' /\ BusTyped' /\ Served(w)
  <2>1. Idle.at \notin HookLabels /\ job[w].at \notin HookLabels
    BY <1>4 DEF HookLabels, Idle
  <2>. QED  BY <1>4, <2>1, Nothing, ServedTyped
<1>6. table' \in [Replica -> [Route -> Seq(Row)]] /\ Reset(h, gs, job[w].rows)
  BY <1>4, Mine, ResetTyped DEF Typed
<1>7. /\ late' \in [Replica -> SUBSET Group] /\ late'[h] = new
      /\ \A x \in Replica \ {h} : late'[x] = late[x]
  BY <1>4 DEF Typed, LocalTyped
<1>8. LocalTyped' /\ StorageTyped'
  BY <1>4, <1>6, <1>7 DEF Typed, LocalTyped, StorageTyped, storage, bounds
<1>. QED  BY <1>1, <1>2, <1>3, <1>4, <1>5, <1>6, <1>7, <1>8 DEF Typed

LEMMA ArtifactTyped ==
  ASSUME Typed, NEW w \in Worker, Artifact(w)
  PROVE  Typed' /\ Served(w) /\ UNCHANGED <<local, bounds>>
<1>1. PICK t : t = [job[w] EXCEPT !.at = "fill"]
  OBVIOUS
<1>2. /\ job[w].at = "artifact" /\ UNCHANGED <<storage, local, bus, bounds>>
      /\ Work(w, t) \/ Work(w, Idle)
  BY <1>1 DEF Artifact, At, Step
<1>3. t \in Task /\ t.at = "fill"
  <2>1. "fill" \in Label
    BY DEF Label
  <2>. QED  BY <1>1, <2>1, Mine DEF Task
<1>4. t.at \notin HookLabels /\ Idle.at \notin HookLabels /\ job[w].at \notin HookLabels
  BY <1>2, <1>3 DEF HookLabels, Idle
<1>5. JobTyped' /\ Served(w)
  BY <1>2, <1>3, <1>4, Nothing, ServedTyped
<1>. QED  BY <1>2, <1>5, JobOnly

LEMMA FillTyped ==
  ASSUME Typed, NEW w \in Worker, Fill(w)
  PROVE  /\ Typed' /\ Served(w) /\ UNCHANGED <<table, recent, late, bounds>>
         /\ \A x \in Replica, r \in Route :
              \/ cache'[x][r] = cache[x][r] /\ (r \in raced[x] => r \in raced'[x])
              \/ cache'[x][r] = stored[r].src \/ r \in raced'[x]
<1>1. PICK h \in Replica : h = HostOf[w]
  BY Mine
<1>2. PICK r, v :
        /\ r \in job[w].r /\ v = job[w].rec.src
        /\ At(w, "fill") /\ Work(w, Idle) /\ cache' = [cache EXCEPT ![h][r] = v]
        /\ raced' = [raced EXCEPT ![h] =
             IF v = stored[r].src THEN raced[h] \ {r} ELSE raced[h] \cup {r}]
        /\ UNCHANGED <<storage, table, recent, late, bus, bounds>>
  BY <1>1 DEF Fill, Typed, LocalTyped
<1>3. r \in Route /\ v \in Version
  BY <1>2, Mine DEF Record
<1>4. JobTyped' /\ BusTyped' /\ Served(w)
  <2>1. Idle.at \notin HookLabels /\ job[w].at \notin HookLabels
    BY <1>2 DEF HookLabels, Idle, At
  <2>. QED  BY <1>2, <2>1, Nothing, ServedTyped
<1>5. /\ cache' \in [Replica -> [Route -> Version]] /\ cache'[h][r] = v
      /\ \A x \in Replica, y \in Route : x # h \/ y # r => cache'[x][y] = cache[x][y]
  BY <1>2, <1>3 DEF Typed, LocalTyped
<1>6. PICK new \in SUBSET Route :
        new = IF v = stored[r].src THEN raced[h] \ {r} ELSE raced[h] \cup {r}
  BY <1>3 DEF Typed, LocalTyped
<1>7. raced' = [raced EXCEPT ![h] = new]
  BY <1>2, <1>6
<1>8. /\ raced' \in [Replica -> SUBSET Route] /\ raced'[h] = new
      /\ \A x \in Replica \ {h} : raced'[x] = raced[x]
  BY <1>7 DEF Typed, LocalTyped
<1>9. LocalTyped' /\ StorageTyped'
  BY <1>2, <1>5, <1>8 DEF Typed, LocalTyped, StorageTyped, storage, bounds
<1>10. \A x \in Replica, y \in Route :
         \/ cache'[x][y] = cache[x][y] /\ (y \in raced[x] => y \in raced'[x])
         \/ cache'[x][y] = stored[y].src \/ y \in raced'[x]
  BY <1>5, <1>6, <1>8
<1>. QED  BY <1>2, <1>4, <1>9, <1>10 DEF Typed

LEMMA TickTyped ==
  ASSUME Typed, NEW h \in Replica, Tick(h)
  PROVE  Typed' /\ UNCHANGED <<storage, table, cache, late, raced, bus, job, bounds>>
<1>1. PICK g : /\ recent' = [recent EXCEPT ![h] = recent[h] \ {g}]
               /\ UNCHANGED <<storage, table, cache, late, raced, bus, job, bounds>>
  BY DEF Tick, Typed, LocalTyped
<1>. QED  BY <1>1 DEF Typed, LocalTyped, StorageTyped, BusTyped, JobTyped, storage, bus, bounds

-----------------------------------------------------------------------------
(* The subscribers, and what may happen to them.                           *)

(* Subscriber h goes on; the others, the calls and storage stay.           *)
Heard(h, from, to, event) ==
  /\ sub[h] = from /\ sub'[h] = to /\ got'[h] = event
  /\ \A x \in Replica \ {h} : sub'[x] = sub[x] /\ got'[x] = got[x]
  /\ UNCHANGED <<storage, job>>

LEMMA ListenTyped ==
  ASSUME Typed, NEW h \in Replica, NEW from, NEW to \in Subscribed, NEW event \in Event0,
         Listen(h, from, to, event), UNCHANGED <<storage, job>>
  PROVE  /\ sub' \in [Replica -> Subscribed] /\ got' \in [Replica -> Event0] /\ JobTyped'
         /\ Heard(h, from, to, event)
<1>1. JobTyped'
  BY DEF Typed, JobTyped
<1>. QED  BY <1>1 DEF Listen, Typed, BusTyped, Heard

LEMMA SubscribeTyped ==
  ASSUME Typed, NEW h \in Replica, Subscribe(h)
  PROVE  Typed' /\ Heard(h, "off", "resync", NoEvent) /\ UNCHANGED <<local, inbox, bounds>>
<1>1. Listen(h, "off", "resync", NoEvent) /\ UNCHANGED <<storage, local, inbox, job, bounds>>
  BY DEF Subscribe
<1>2. /\ sub' \in [Replica -> Subscribed] /\ got' \in [Replica -> Event0] /\ JobTyped'
      /\ Heard(h, "off", "resync", NoEvent)
  BY <1>1, Nothing, ListenTyped DEF Subscribed
<1>. QED  BY <1>1, <1>2 DEF Typed, BusTyped, StorageTyped, LocalTyped, storage, local, bounds

LEMMA ResyncReadTyped ==
  ASSUME Typed, NEW h \in Replica, ResyncRead(h)
  PROVE  /\ Typed' /\ UNCHANGED <<local, inbox>>
         /\ \/ faults' # 0
            \/ \E e \in Event0 : /\ e.rows = stored /\ Heard(h, "resync", "replace", e)
                                 /\ UNCHANGED bounds
<1>1. PICK e : e = [NoEvent EXCEPT !.g = Group, !.rows = stored]
  OBVIOUS
<1>2. /\ \/ Listen(h, "resync", "replace", e) /\ UNCHANGED bounds
         \/ Fault /\ Listen(h, "resync", "on", NoEvent)
      /\ UNCHANGED <<storage, local, inbox, job>>
  BY <1>1 DEF ResyncRead
<1>3. e \in Event0 /\ e.rows = stored
  BY <1>1, Nothing DEF Event0, NoEvent, Typed, StorageTyped
<1>4. LocalTyped' /\ inbox' \in [Replica -> Seq(Message)]
  BY <1>2 DEF Typed, LocalTyped, BusTyped, local
<1>5. CASE Listen(h, "resync", "replace", e) /\ UNCHANGED bounds
  <2>1. /\ sub' \in [Replica -> Subscribed] /\ got' \in [Replica -> Event0] /\ JobTyped'
        /\ Heard(h, "resync", "replace", e)
    BY <1>2, <1>3, <1>5, ListenTyped DEF Subscribed
  <2>2. StorageTyped'
    BY <1>2, <1>5 DEF Typed, StorageTyped, storage, bounds
  <2>. QED  BY <1>2, <1>3, <1>4, <1>5, <2>1, <2>2 DEF Typed, BusTyped
<1>6. CASE Fault /\ Listen(h, "resync", "on", NoEvent)
  <2>1. sub' \in [Replica -> Subscribed] /\ got' \in [Replica -> Event0] /\ JobTyped'
    BY <1>2, <1>6, Nothing, ListenTyped DEF Subscribed
  <2>2. StorageTyped' /\ faults' # 0
    BY <1>2, <1>6, FaultTyped DEF Typed
  <2>. QED  BY <1>2, <1>4, <2>1, <2>2 DEF Typed, BusTyped
<1>. QED  BY <1>2, <1>5, <1>6

LEMMA ResyncTableTyped ==
  ASSUME Typed, NEW h \in Replica, ResyncTable(h)
  PROVE  /\ Typed' /\ Heard(h, "replace", "clear", NoEvent)
         /\ Reset(h, Group, got[h].rows) /\ \A x \in Replica \ {h} : late'[x] = late[x]
         /\ UNCHANGED <<cache, recent, raced, inbox, bounds>>
<1>1. /\ Listen(h, "replace", "clear", NoEvent)
      /\ table' = [table EXCEPT ![h] = Replaced(h, Group, got[h].rows)]
      /\ late' = [late EXCEPT ![h] = {}]
      /\ UNCHANGED <<storage, cache, recent, raced, inbox, job, bounds>>
  BY DEF ResyncTable
<1>2. /\ sub' \in [Replica -> Subscribed] /\ got' \in [Replica -> Event0] /\ JobTyped'
      /\ Heard(h, "replace", "clear", NoEvent)
  BY <1>1, Nothing, ListenTyped DEF Subscribed
<1>3. got[h].rows \in Rowset
  BY DEF Typed, BusTyped, Event0
<1>4. table' \in [Replica -> [Route -> Seq(Row)]] /\ Reset(h, Group, got[h].rows)
  BY <1>1, <1>3, ResetTyped DEF Typed
<1>5. late' \in [Replica -> SUBSET Group] /\ \A x \in Replica \ {h} : late'[x] = late[x]
  BY <1>1 DEF Typed, LocalTyped
<1>6. StorageTyped'
  BY <1>1 DEF Typed, StorageTyped, storage, bounds
<1>. QED  BY <1>1, <1>2, <1>4, <1>5, <1>6 DEF Typed, BusTyped, LocalTyped

LEMMA ResyncCachesTyped ==
  ASSUME Typed, NEW h \in Replica, ResyncCaches(h)
  PROVE  /\ Typed' /\ Heard(h, "clear", "on", NoEvent) /\ Evicted(h, Route)
         /\ UNCHANGED <<table, late, inbox, bounds>>
<1>1. /\ Listen(h, "clear", "on", NoEvent) /\ Evicted(h, Route)
      /\ recent' = [recent EXCEPT ![h] = {}]
      /\ UNCHANGED <<storage, table, late, inbox, job, bounds>>
  BY DEF ResyncCaches
<1>2. /\ sub' \in [Replica -> Subscribed] /\ got' \in [Replica -> Event0] /\ JobTyped'
      /\ Heard(h, "clear", "on", NoEvent)
  BY <1>1, Nothing, ListenTyped DEF Subscribed
<1>3. cache' \in [Replica -> [Route -> Version]] /\ raced' \in [Replica -> SUBSET Route]
  BY <1>1, EvictedTyped DEF Typed
<1>4. StorageTyped'
  BY <1>1 DEF Typed, StorageTyped, storage, bounds
<1>. QED  BY <1>1, <1>2, <1>3, <1>4 DEF Typed, BusTyped, LocalTyped

LEMMA ReceiveTyped ==
  ASSUME Typed, NEW h \in Replica, Receive(h)
  PROVE  /\ Typed' /\ inbox[h] # <<>> /\ inbox'[h] = Tail(inbox[h])
         /\ \A x \in Replica \ {h} : inbox'[x] = inbox[x]
         /\ \E e \in Event0 : e.g = Head(inbox[h]).g /\ Heard(h, "on", "reload", e)
         /\ Evicted(h, Head(inbox[h]).r) /\ UNCHANGED <<table, recent, late, bounds>>
<1>1. PICK e : e = [NoEvent EXCEPT !.g = Head(inbox[h]).g]
  OBVIOUS
<1>2. /\ inbox[h] # <<>> /\ Listen(h, "on", "reload", e)
      /\ inbox' = [inbox EXCEPT ![h] = Tail(inbox[h])] /\ Evicted(h, Head(inbox[h]).r)
      /\ UNCHANGED <<storage, table, recent, late, job, bounds>>
  BY <1>1 DEF Receive, Typed, BusTyped
<1>3. inbox[h] \in Seq(Message) /\ Head(inbox[h]) \in Message /\ Tail(inbox[h]) \in Seq(Message)
  BY <1>2, HeadTailProperties DEF Typed, BusTyped
<1>4. e \in Event0 /\ e.g = Head(inbox[h]).g
  BY <1>1, <1>3, Nothing DEF Event0, NoEvent, Message
<1>5. /\ sub' \in [Replica -> Subscribed] /\ got' \in [Replica -> Event0] /\ JobTyped'
      /\ Heard(h, "on", "reload", e)
  BY <1>2, <1>4, ListenTyped DEF Subscribed
<1>6. /\ inbox' \in [Replica -> Seq(Message)] /\ inbox'[h] = Tail(inbox[h])
      /\ \A x \in Replica \ {h} : inbox'[x] = inbox[x]
  BY <1>2, <1>3 DEF Typed, BusTyped
<1>7. cache' \in [Replica -> [Route -> Version]] /\ raced' \in [Replica -> SUBSET Route]
  BY <1>2, EvictedTyped DEF Typed
<1>8. StorageTyped'
  BY <1>2 DEF Typed, StorageTyped, storage, bounds
<1>9. Typed'
  BY <1>2, <1>5, <1>6, <1>7, <1>8 DEF Typed, BusTyped, LocalTyped
<1>. QED  BY <1>2, <1>4, <1>5, <1>6, <1>9

LEMMA ReloadReadTyped ==
  ASSUME Typed, NEW h \in Replica, ReloadRead(h)
  PROVE  /\ Typed' /\ UNCHANGED <<local, inbox>>
         /\ \/ faults' # 0
            \/ \E e \in Event0 : /\ e.g = got[h].g /\ e.rows = Rows(got[h].g)
                                 /\ Heard(h, "reload", "reloaded", e) /\ UNCHANGED bounds
<1>1. PICK e : e = [got[h] EXCEPT !.rows = Rows(got[h].g)]
  OBVIOUS
<1>2. /\ \/ Listen(h, "reload", "reloaded", e) /\ UNCHANGED bounds
         \/ Fault /\ Listen(h, "reload", "on", NoEvent)
      /\ UNCHANGED <<storage, local, inbox, job>>
  BY <1>1 DEF ReloadRead
<1>3. e \in Event0 /\ e.g = got[h].g /\ e.rows = Rows(got[h].g)
  <2>1. got[h] \in Event0 /\ Rows(got[h].g) \in Rowset
    BY RowsTyped DEF Typed, BusTyped
  <2>. QED  BY <1>1, <2>1 DEF Event0
<1>4. LocalTyped' /\ inbox' \in [Replica -> Seq(Message)]
  BY <1>2 DEF Typed, LocalTyped, BusTyped, local
<1>5. CASE Listen(h, "reload", "reloaded", e) /\ UNCHANGED bounds
  <2>1. /\ sub' \in [Replica -> Subscribed] /\ got' \in [Replica -> Event0] /\ JobTyped'
        /\ Heard(h, "reload", "reloaded", e)
    BY <1>2, <1>3, <1>5, ListenTyped DEF Subscribed
  <2>2. StorageTyped'
    BY <1>2, <1>5 DEF Typed, StorageTyped, storage, bounds
  <2>. QED  BY <1>2, <1>3, <1>4, <1>5, <2>1, <2>2 DEF Typed, BusTyped
<1>6. CASE Fault /\ Listen(h, "reload", "on", NoEvent)
  <2>1. sub' \in [Replica -> Subscribed] /\ got' \in [Replica -> Event0] /\ JobTyped'
    BY <1>2, <1>6, Nothing, ListenTyped DEF Subscribed
  <2>2. StorageTyped' /\ faults' # 0
    BY <1>2, <1>6, FaultTyped DEF Typed
  <2>. QED  BY <1>2, <1>4, <2>1, <2>2 DEF Typed, BusTyped
<1>. QED  BY <1>2, <1>5, <1>6

LEMMA ReloadedTyped ==
  ASSUME Typed, NEW h \in Replica, Reloaded(h)
  PROVE  /\ Typed' /\ Heard(h, "reloaded", "on", NoEvent)
         /\ Reset(h, got[h].g, got[h].rows)
         /\ late'[h] = late[h] \ got[h].g /\ \A x \in Replica \ {h} : late'[x] = late[x]
         /\ UNCHANGED <<cache, raced, inbox, bounds>>
<1>1. PICK gs : gs = got[h].g
  OBVIOUS
<1>2. gs \in SUBSET Group /\ got[h].rows \in Rowset
  BY <1>1 DEF Typed, BusTyped, Event0
<1>3. /\ Listen(h, "reloaded", "on", NoEvent)
      /\ table' = [table EXCEPT ![h] = Replaced(h, gs, got[h].rows)]
      /\ late' = [late EXCEPT ![h] = late[h] \ gs]
      /\ recent' = [recent EXCEPT ![h] = recent[h] \cup gs]
      /\ UNCHANGED <<storage, cache, raced, inbox, job, bounds>>
  BY <1>1 DEF Reloaded, Typed, LocalTyped
<1>4. /\ sub' \in [Replica -> Subscribed] /\ got' \in [Replica -> Event0] /\ JobTyped'
      /\ Heard(h, "reloaded", "on", NoEvent)
  BY <1>3, Nothing, ListenTyped DEF Subscribed
<1>5. table' \in [Replica -> [Route -> Seq(Row)]] /\ Reset(h, gs, got[h].rows)
  BY <1>2, <1>3, ResetTyped DEF Typed
<1>6. /\ late' \in [Replica -> SUBSET Group] /\ late'[h] = late[h] \ gs
      /\ \A x \in Replica \ {h} : late'[x] = late[x]
  BY <1>2, <1>3 DEF Typed, LocalTyped
<1>7. recent' \in [Replica -> SUBSET Group]
  BY <1>2, <1>3 DEF Typed, LocalTyped
<1>8. StorageTyped'
  BY <1>3 DEF Typed, StorageTyped, storage, bounds
<1>. QED  BY <1>1, <1>3, <1>4, <1>5, <1>6, <1>7, <1>8 DEF Typed, BusTyped, LocalTyped

LEMMA DisconnectTyped ==
  ASSUME Typed, NEW h \in Replica, Disconnect(h)
  PROVE  /\ Typed' /\ Heard(h, "on", "off", NoEvent) /\ UNCHANGED <<local, faults>>
         /\ \A x \in Replica \ {h} : inbox'[x] = inbox[x]
<1>1. /\ Event /\ Listen(h, "on", "off", NoEvent)
      /\ inbox' = [inbox EXCEPT ![h] = <<>>] /\ UNCHANGED <<storage, local, job>>
  BY DEF Disconnect
<1>2. /\ sub' \in [Replica -> Subscribed] /\ got' \in [Replica -> Event0] /\ JobTyped'
      /\ Heard(h, "on", "off", NoEvent)
  BY <1>1, Nothing, ListenTyped DEF Subscribed
<1>3. inbox' \in [Replica -> Seq(Message)] /\ \A x \in Replica \ {h} : inbox'[x] = inbox[x]
  BY <1>1, EmptySeq DEF Typed, BusTyped
<1>4. LocalTyped'
  BY <1>1 DEF Typed, LocalTyped, local
<1>5. StorageTyped'
  <2>1. /\ events \in Nat /\ events < MaxEvents /\ events' = events + 1 /\ faults' = faults
        /\ \A r \in Route : stored[r] \in Record
        /\ \A g \in Group : named[g] \in Nat
    <3>1. events \in Nat /\ events < MaxEvents /\ events' = events + 1 /\ faults' = faults
      BY <1>1 DEF Typed, StorageTyped, Event
    <3>2. \A r \in Route : stored[r] \in Record
      BY DEF Typed, StorageTyped, Rowset
    <3>3. \A g \in Group : named[g] \in Nat
      BY Numbers DEF Typed, StorageTyped
    <3>. QED  BY <3>1, <3>2, <3>3
  <2>2. \A r \in Route : stored[r].src \in Nat /\ stored[r].name \in Nat
    BY <2>1, Numbers DEF Record
  <2>3. events' \in 0 .. MaxEvents
    BY <2>1, Numbers
  <2>4. \A r \in Route : stored[r].src <= events' + 1 /\ stored[r].name <= events' + 1
    BY <2>1, <2>2 DEF Typed, StorageTyped
  <2>5. \A g \in Group : named[g] <= events' + 1
    BY <2>1 DEF Typed, StorageTyped
  <2>. QED  BY <1>1, <2>1, <2>3, <2>4, <2>5 DEF Typed, StorageTyped, storage
<1>. QED  BY <1>1, <1>2, <1>3, <1>4, <1>5 DEF Typed, BusTyped, Event

LEMMA RestartTyped ==
  ASSUME Typed, NEW h \in Replica, Restart(h)
  PROVE  Typed' /\ faults' # 0
<1>1. /\ Fault /\ Evicted(h, Route) /\ UNCHANGED storage
      /\ table' = [table EXCEPT ![h] = [r \in Route |-> Copy(stored[r])]]
      /\ recent' = [recent EXCEPT ![h] = {}] /\ late' = [late EXCEPT ![h] = {}]
      /\ sub' = [sub EXCEPT ![h] = "off"] /\ got' = [got EXCEPT ![h] = NoEvent]
      /\ inbox' = [inbox EXCEPT ![h] = <<>>]
      /\ job' = [w \in Worker |-> IF HostOf[w] = h THEN Idle ELSE job[w]]
  BY DEF Restart
<1>2. StorageTyped' /\ faults' # 0
  BY <1>1, FaultTyped DEF Typed
<1>3. LocalTyped'
  <2>1. \A r \in Route : Copy(stored[r]) \in Seq(Row)
    BY CopyTyped DEF Typed, StorageTyped, Rowset
  <2>2. table' \in [Replica -> [Route -> Seq(Row)]]
    BY <1>1, <2>1 DEF Typed, LocalTyped
  <2>3. cache' \in [Replica -> [Route -> Version]] /\ raced' \in [Replica -> SUBSET Route]
    BY <1>1, EvictedTyped DEF Typed
  <2>4. recent' \in [Replica -> SUBSET Group] /\ late' \in [Replica -> SUBSET Group]
    BY <1>1 DEF Typed, LocalTyped
  <2>. QED  BY <2>2, <2>3, <2>4 DEF LocalTyped
<1>4. BusTyped'
  BY <1>1, Nothing, EmptySeq DEF Typed, BusTyped, Subscribed
<1>5. JobTyped'
  BY <1>1, Nothing DEF Typed, JobTyped
<1>. QED  BY <1>2, <1>3, <1>4, <1>5 DEF Typed

LEMMA TypedStep ==
  ASSUME Typed, [Next]_vars
  PROVE  Typed'
<1>1. CASE UNCHANGED vars
  BY <1>1 DEF Typed, StorageTyped, LocalTyped, BusTyped, JobTyped, vars, storage, local, bus,
              bounds
<1>2. ASSUME NEW w \in Worker, Api(w) \/ Hook(w) \/ Serve(w) \/ Hit(w)
      PROVE  Typed'
  <2>1. CASE Api(w)    BY <2>1, ApiTyped
  <2>2. CASE Hook(w)
    BY <2>2, PushTyped, PutTyped, DropTyped, RetitleTyped, DropGroupTyped, ListTyped,
       EvictTyped, PublishTyped DEF Hook
  <2>3. CASE Serve(w)  BY <2>3, ReadTyped, InstallTyped, ArtifactTyped, FillTyped DEF Serve
  <2>4. CASE Hit(w)    BY <2>4, HitTyped
  <2>. QED  BY <1>2, <2>1, <2>2, <2>3, <2>4
<1>3. ASSUME NEW w \in Worker, NEW r \in Route, Miss(w, r)
      PROVE  Typed'
  BY <1>3, MissTyped
<1>4. ASSUME NEW h \in Replica, Listener(h) \/ Tick(h) \/ Disconnect(h) \/ Restart(h)
      PROVE  Typed'
  <2>1. CASE Listener(h)
    BY <2>1, SubscribeTyped, ResyncReadTyped, ResyncTableTyped, ResyncCachesTyped,
       ReceiveTyped, ReloadReadTyped, ReloadedTyped DEF Listener
  <2>2. CASE Tick(h)        BY <2>2, TickTyped
  <2>3. CASE Disconnect(h)  BY <2>3, DisconnectTyped
  <2>4. CASE Restart(h)     BY <2>4, RestartTyped
  <2>. QED  BY <1>4, <2>1, <2>2, <2>3, <2>4
<1>. QED  BY <1>1, <1>2, <1>3, <1>4 DEF Next

(* The tables and caches keep their shape: no copy is ever of a route that *)
(* has no record, whatever the hooks, reloads and restarts do to it.       *)
THEOREM TablesTyped == Spec => []TypeOK
<1>1. Init => Typed
  BY TypedInit
<1>2. Typed /\ [Next]_vars => Typed'
  BY TypedStep
<1>3. Typed => TypeOK
  BY TypedIsTypeOK
<1>. QED  BY <1>1, <1>2, <1>3, PTL DEF Spec

-----------------------------------------------------------------------------
(* Why the tables and caches end up fresh                                  *)

(* A message about the group of r is on its way to replica h, or a call    *)
(* that committed still has to send it.                                    *)
Coming(h, r) ==
  \/ \E w \in Worker : job[w].at \in HookLabels /\ GroupOf[r] \in job[w].g
  \/ \E i \in 1 .. Len(inbox[h]) : GroupOf[r] \in inbox[h][i].g

(* The subscriber will replace the row of r, with what it has in hand when *)
(* it has read it already.                                                 *)
Reloading(h, r) ==
  \/ sub[h] \in {"off", "resync", "replace"}
  \/ sub[h] \in {"reload", "reloaded"} /\ GroupOf[r] \in got[h].g

InHand(h, r) ==
  \/ sub[h] = "replace"
  \/ sub[h] = "reloaded" /\ GroupOf[r] \in got[h].g

TableInv(h, r) ==
  /\ Fresh(h, r) \/ GroupOf[r] \in late[h] \/ Coming(h, r) \/ Reloading(h, r)
  /\ InHand(h, r) => got[h].rows[r] = stored[r] \/ Coming(h, r)

(* The eviction of r is still to come, at an updating worker, in a message *)
(* or as part of a resync.                                                 *)
Evicting(h, r) ==
  \/ \E w \in Worker : job[w].at \in {"put", "evict", "publish"} /\ r \in job[w].r
  \/ \E i \in 1 .. Len(inbox[h]) : r \in inbox[h][i].r
  \/ sub[h] \in {"off", "resync", "replace", "clear"}

(* A route that was deleted does not come back: nothing asks for its       *)
(* artifact again.                                                         *)
ArtifactInv(h, r) ==
  \/ cache[h][r] \in {0, stored[r].src} \/ r \in raced[h]
  \/ Evicting(h, r)
  \/ stored[r].src = 0 /\ r \in created

Fine(h, r) == TableInv(h, r) /\ ArtifactInv(h, r)
FineUnlessFault == faults = 0 => \A h \in Replica, r \in Route : Fine(h, r)

(* How a step keeps each of the two, when it does not set the row, or the  *)
(* cache, to what storage has                                              *)
LEMMA ComingSuffices ==
  ASSUME NEW h, NEW r, Coming(h, r)'
  PROVE  TableInv(h, r)'
BY DEF TableInv

RowStays(h, r) ==
  /\ table'[h][r] = table[h][r] /\ stored'[r] = stored[r]
  /\ GroupOf[r] \in late[h] => GroupOf[r] \in late'[h]
  /\ sub'[h] = sub[h] /\ got'[h] = got[h]
  /\ Coming(h, r) => Coming(h, r)'

LEMMA RowKept ==
  ASSUME NEW h, NEW r, TableInv(h, r), RowStays(h, r)
  PROVE  TableInv(h, r)'
<1>1. Fresh(h, r) => Fresh(h, r)'
  BY DEF RowStays, Fresh, Copy
<1>2. Reloading(h, r) => Reloading(h, r)'
  BY DEF RowStays, Reloading
<1>3. InHand(h, r)' => InHand(h, r) /\ got'[h].rows[r] = got[h].rows[r]
  BY DEF RowStays, InHand
<1>. QED  BY <1>1, <1>2, <1>3 DEF TableInv, RowStays

ArtifactStays(h, r) ==
  /\ \/ cache'[h][r] = cache[h][r] /\ (r \in raced[h] => r \in raced'[h])
     \/ cache'[h][r] \in {0, stored'[r].src} \/ r \in raced'[h]
  /\ stored'[r].src = stored[r].src \/ (stored'[r].src = 0 /\ r \in created) \/ r \notin created
  /\ created \subseteq created'
  /\ Evicting(h, r) => Evicting(h, r)' \/ cache'[h][r] = 0

LEMMA ArtifactKept ==
  ASSUME StorageTyped, NEW h, NEW r \in Route, ArtifactInv(h, r), ArtifactStays(h, r)
  PROVE  ArtifactInv(h, r)'
<1>1. stored[r].src # 0 => r \in created
  BY DEF StorageTyped
<1>2. CASE Evicting(h, r)
  BY <1>2 DEF ArtifactInv, ArtifactStays
<1>3. CASE cache'[h][r] \in {0, stored'[r].src} \/ r \in raced'[h]
  BY <1>3 DEF ArtifactInv
<1>4. CASE /\ ~Evicting(h, r)
           /\ cache'[h][r] = cache[h][r] /\ (r \in raced[h] => r \in raced'[h])
  BY <1>1, <1>4 DEF ArtifactInv, ArtifactStays
<1>. QED  BY <1>2, <1>3, <1>4 DEF ArtifactStays

(* Who announces what, after a step that leaves the messages               *)
LEMMA SilentKeeps ==
  ASSUME NEW w \in Worker, NEW h, NEW r, job[w].at \notin HookLabels,
         \A v \in Worker \ {w} : job'[v] = job[v], UNCHANGED bus
  PROVE  (Coming(h, r) => Coming(h, r)') /\ (Evicting(h, r) => Evicting(h, r)')
<1>1. \A v \in Worker : job[v].at \in HookLabels => job'[v] = job[v]
  OBVIOUS
<1>2. {"put", "evict", "publish"} \subseteq HookLabels
  BY DEF HookLabels
<1>3. inbox' = inbox /\ sub' = sub
  BY DEF bus
<1>. QED  BY <1>1, <1>2, <1>3 DEF Coming, Evicting

LEMMA OnwardKeeps ==
  ASSUME NEW w \in Worker, NEW label \in HookLabels, NEW h, NEW r, Onward(w, label),
         job[w].at = "put" => label = "evict", job[w].at = "evict" => label = "publish",
         job[w].at # "publish", UNCHANGED bus
  PROVE  (Coming(h, r) => Coming(h, r)') /\ (Evicting(h, r) => Evicting(h, r)')
<1>1. \A v \in Worker : job[v].at \in HookLabels => job'[v].at \in HookLabels
                                                    /\ job'[v].g = job[v].g
  BY DEF Onward
<1>2. \A v \in Worker : job[v].at \in {"put", "evict", "publish"} =>
                          job'[v].at \in {"put", "evict", "publish"} /\ job'[v].r = job[v].r
  BY DEF Onward
<1>3. inbox' = inbox /\ sub' = sub
  BY DEF bus
<1>. QED  BY <1>1, <1>2, <1>3 DEF Coming, Evicting

(* The row of a route whose group is replaced by the stored rows           *)
LEMMA ResetFresh ==
  ASSUME NEW h, NEW r \in Route, NEW gs, NEW rows, Reset(h, gs, rows), GroupOf[r] \in gs,
         rows[r] = stored[r], UNCHANGED storage
  PROVE  Fresh(h, r)'
BY DEF Reset, Fresh, storage, Copy

-----------------------------------------------------------------------------
(* Calls                                                                   *)

(* An API call announces what it changed before anyone can be quiet.       *)
LEMMA ApiFine ==
  ASSUME Typed, NEW w \in Worker, Api(w), NEW h \in Replica, NEW r \in Route, Fine(h, r)
  PROVE  Fine(h, r)'
<1>1. Committed(w)
  BY ApiTyped
<1>2. PICK g \in Group :
        /\ job'[w].at \in HookLabels /\ job'[w].g = {g} /\ job[w].at = "idle"
        /\ \A v \in Worker \ {w} : job'[v] = job[v]
        /\ \A x \in Route : GroupOf[x] # g => stored'[x] = stored[x]
        /\ \/ stored'[r].src = stored[r].src
           \/ stored'[r].src = 0 /\ r \in created
           \/ r \notin created
           \/ r \in job'[w].r /\ job'[w].at = "put"
        /\ created \subseteq created'
        /\ UNCHANGED <<local, bus, faults>>
  BY <1>1 DEF Committed
<1>3. (Coming(h, r) => Coming(h, r)') /\ (Evicting(h, r) => Evicting(h, r)')
  BY <1>2, SilentKeeps DEF HookLabels
<1>4. TableInv(h, r)'
  <2>1. CASE GroupOf[r] = g
    BY <1>2, <2>1, ComingSuffices DEF Coming
  <2>2. CASE GroupOf[r] # g
    <3>1. RowStays(h, r)
      BY <1>2, <1>3, <2>2 DEF RowStays, local, bus
    <3>. QED  BY <3>1, RowKept DEF Fine
  <2>. QED  BY <2>1, <2>2
<1>5. ArtifactInv(h, r)'
  <2>1. CASE r \in job'[w].r /\ job'[w].at = "put"
    BY <2>1 DEF ArtifactInv, Evicting
  <2>2. CASE ~(r \in job'[w].r /\ job'[w].at = "put")
    <3>1. ArtifactStays(h, r)
      BY <1>2, <1>3, <2>2 DEF ArtifactStays, local
    <3>. QED  BY <3>1, ArtifactKept DEF Fine, Typed
  <2>. QED  BY <2>1, <2>2
<1>. QED  BY <1>4, <1>5 DEF Fine

(* A hook changes no row that it does not announce.                        *)
LEMMA TabledFine ==
  ASSUME Typed, NEW w \in Worker, Tabled(w), NEW h \in Replica, NEW r \in Route, Fine(h, r)
  PROVE  Fine(h, r)'
<1>1. PICK label \in {"forget", "evict", "publish_group"} : Onward(w, label)
  BY DEF Tabled
<1>2. label \in HookLabels /\ job'[w].at = label
  BY <1>1 DEF HookLabels, Onward
<1>3. (Coming(h, r) => Coming(h, r)') /\ (Evicting(h, r) => Evicting(h, r)')
  BY <1>1, <1>2, OnwardKeeps DEF Tabled
<1>4. TableInv(h, r)'
  <2>1. CASE GroupOf[r] \in job[w].g
    BY <1>1, <1>2, <2>1, ComingSuffices DEF Coming, Onward
  <2>2. CASE GroupOf[r] \notin job[w].g
    <3>1. RowStays(h, r)
      BY <1>3, <2>2 DEF RowStays, Tabled, bus, storage
    <3>. QED  BY <3>1, RowKept DEF Fine
  <2>. QED  BY <2>1, <2>2
<1>5. ArtifactInv(h, r)'
  <2>1. ArtifactStays(h, r)
    BY <1>3 DEF ArtifactStays, Tabled, storage
  <2>. QED  BY <2>1, ArtifactKept DEF Fine, Typed
<1>. QED  BY <1>4, <1>5 DEF Fine

LEMMA ListFine ==
  ASSUME Typed, NEW w \in Worker, ListCached(w), NEW h \in Replica, NEW r \in Route, Fine(h, r)
  PROVE  Fine(h, r)'
<1>1. /\ job[w].at = "list" /\ job'[w].at \in {"forget", "drop_group"}
      /\ job'[w].g = job[w].g /\ \A v \in Worker \ {w} : job'[v] = job[v]
      /\ UNCHANGED <<storage, local, bus, bounds>>
  BY ListTyped
<1>2. \A v \in Worker : job[v].at \in HookLabels => job'[v].at \in HookLabels
                                                    /\ job'[v].g = job[v].g
  BY <1>1 DEF HookLabels
<1>3. \A v \in Worker : job[v].at \in {"put", "evict", "publish"} => job'[v] = job[v]
  BY <1>1
<1>4. inbox' = inbox /\ sub' = sub
  BY <1>1 DEF bus
<1>5. (Coming(h, r) => Coming(h, r)') /\ (Evicting(h, r) => Evicting(h, r)')
  BY <1>2, <1>3, <1>4 DEF Coming, Evicting
<1>6. RowStays(h, r) /\ ArtifactStays(h, r)
  BY <1>1, <1>5 DEF RowStays, ArtifactStays, local, bus, storage
<1>. QED  BY <1>6, RowKept, ArtifactKept DEF Fine, Typed

LEMMA EvictFine ==
  ASSUME Typed, NEW w \in Worker, Evict(w), NEW h \in Replica, NEW r \in Route, Fine(h, r)
  PROVE  Fine(h, r)'
<1>1. /\ job[w].at \in {"evict", "forget"} /\ Onward(w, "publish")
      /\ Evicted(HostOf[w], job[w].r) /\ UNCHANGED <<storage, table, late, bus, bounds>>
  BY EvictTyped
<1>2. (Coming(h, r) => Coming(h, r)') /\ (Evicting(h, r) => Evicting(h, r)')
  BY <1>1, OnwardKeeps DEF HookLabels
<1>3. \/ cache'[h][r] = 0
      \/ cache'[h][r] = cache[h][r] /\ (r \in raced[h] => r \in raced'[h])
  BY <1>1, Mine, EvictedTyped DEF Typed
<1>4. RowStays(h, r) /\ ArtifactStays(h, r)
  BY <1>1, <1>2, <1>3 DEF RowStays, ArtifactStays, bus, storage
<1>. QED  BY <1>4, RowKept, ArtifactKept DEF Fine, Typed

(* A replica that misses the message is about to resync.                   *)
LEMMA PublishFine ==
  ASSUME Typed, NEW w \in Worker, Publish(w), faults' = 0,
         NEW h \in Replica, NEW r \in Route, Fine(h, r)
  PROVE  Fine(h, r)'
<1>1. /\ job[w].at \in {"publish", "publish_group"}
      /\ \A v \in Worker \ {w} : job'[v] = job[v]
      /\ Announced(w) /\ UNCHANGED <<storage, local, sub, got>>
  BY PublishTyped
<1>2. CASE sub[h] = "off"
  <2>1. Reloading(h, r)' /\ ~InHand(h, r)' /\ Evicting(h, r)'
    BY <1>1, <1>2 DEF Reloading, InHand, Evicting
  <2>. QED  BY <2>1 DEF Fine, TableInv, ArtifactInv
<1>3. CASE sub[h] # "off"
  <2>1. PICK e \in Message :
          /\ inbox'[h] = Append(inbox[h], e) /\ e.g = job[w].g
          /\ job[w].at = "publish" => e.r = job[w].r
    BY <1>1, <1>3 DEF Announced
  <2>2. PICK n \in Nat : n = Len(inbox[h])
    BY LenProperties DEF Typed, BusTyped
  <2>3. /\ Len(inbox'[h]) = n + 1 /\ inbox'[h][n + 1] = e
        /\ \A i \in 1 .. n : inbox'[h][i] = inbox[h][i]
    BY <2>1, <2>2, AppendProperties DEF Typed, BusTyped
  <2>4. 1 .. n \subseteq 1 .. n + 1 /\ n + 1 \in 1 .. n + 1
    BY <2>2
  <2>5. Coming(h, r) => Coming(h, r)'
    <3>1. ASSUME NEW v \in Worker, job[v].at \in HookLabels, GroupOf[r] \in job[v].g
          PROVE  Coming(h, r)'
      <4>1. CASE v = w  BY <2>1, <2>3, <2>4, <3>1, <4>1 DEF Coming
      <4>2. CASE v # w  BY <1>1, <3>1, <4>2 DEF Coming
      <4>. QED  BY <4>1, <4>2
    <3>2. ASSUME NEW i \in 1 .. Len(inbox[h]), GroupOf[r] \in inbox[h][i].g
          PROVE  Coming(h, r)'
      BY <2>2, <2>3, <2>4, <3>2 DEF Coming
    <3>. QED  BY <3>1, <3>2 DEF Coming
  <2>6. Evicting(h, r) => Evicting(h, r)'
    <3>1. ASSUME NEW v \in Worker, job[v].at \in {"put", "evict", "publish"}, r \in job[v].r
          PROVE  Evicting(h, r)'
      <4>1. CASE v = w
        <5>1. job[w].at = "publish"
          BY <1>1, <3>1, <4>1
        <5>. QED  BY <2>1, <2>3, <2>4, <3>1, <4>1, <5>1 DEF Evicting
      <4>2. CASE v # w  BY <1>1, <3>1, <4>2 DEF Evicting
      <4>. QED  BY <4>1, <4>2
    <3>2. ASSUME NEW i \in 1 .. Len(inbox[h]), r \in inbox[h][i].r
          PROVE  Evicting(h, r)'
      BY <2>2, <2>3, <2>4, <3>2 DEF Evicting
    <3>3. ASSUME sub[h] \in {"off", "resync", "replace", "clear"}
          PROVE  Evicting(h, r)'
      BY <1>1, <3>3 DEF Evicting
    <3>. QED  BY <3>1, <3>2, <3>3 DEF Evicting
  <2>7. RowStays(h, r) /\ ArtifactStays(h, r)
    BY <1>1, <2>5, <2>6 DEF RowStays, ArtifactStays, local, storage
  <2>. QED  BY <2>7, RowKept, ArtifactKept DEF Fine, Typed
<1>. QED  BY <1>2, <1>3

LEMMA HookFine ==
  ASSUME Typed, NEW w \in Worker, Hook(w), faults' = 0,
         NEW h \in Replica, NEW r \in Route, Fine(h, r)
  PROVE  Fine(h, r)'
<1>1. CASE Push(w) \/ Put(w) \/ Drop(w) \/ Retitle(w) \/ DropGroup(w)
  <2>1. Tabled(w)
    BY <1>1, PushTyped, PutTyped, DropTyped, RetitleTyped, DropGroupTyped
  <2>. QED  BY <2>1, TabledFine
<1>2. CASE ListCached(w)  BY <1>2, ListFine
<1>3. CASE Evict(w)       BY <1>3, EvictFine
<1>4. CASE Publish(w)     BY <1>4, PublishFine
<1>. QED  BY <1>1, <1>2, <1>3, <1>4 DEF Hook

-----------------------------------------------------------------------------
(* Requests                                                                *)

LEMMA ServedFine ==
  ASSUME Typed, NEW w \in Worker, Served(w), UNCHANGED <<table, late>>,
         NEW h \in Replica, NEW r \in Route, Fine(h, r),
         \/ cache'[h][r] = cache[h][r] /\ (r \in raced[h] => r \in raced'[h])
         \/ cache'[h][r] = stored[r].src \/ r \in raced'[h]
  PROVE  Fine(h, r)'
<1>1. (Coming(h, r) => Coming(h, r)') /\ (Evicting(h, r) => Evicting(h, r)')
  BY SilentKeeps DEF Served
<1>2. RowStays(h, r) /\ ArtifactStays(h, r)
  BY <1>1 DEF RowStays, ArtifactStays, Served, bus, storage
<1>. QED  BY <1>2, RowKept, ArtifactKept DEF Fine, Typed

(* What a read-through installs is what storage has, or late says so.      *)
LEMMA InstallFine ==
  ASSUME Typed, NEW w \in Worker, Install(w), NEW h \in Replica, NEW r \in Route, Fine(h, r)
  PROVE  Fine(h, r)'
<1>1. /\ Served(w) /\ Reset(HostOf[w], job[w].g, job[w].rows)
      /\ \A x \in Replica \ {HostOf[w]} : late'[x] = late[x]
      /\ late'[HostOf[w]] = IF job[w].rows = Rows(job[w].g)
                            THEN late[HostOf[w]] \ job[w].g
                            ELSE late[HostOf[w]] \cup job[w].g
      /\ UNCHANGED <<cache, recent, raced, bounds>>
  BY InstallTyped
<1>2. (Coming(h, r) => Coming(h, r)') /\ (Evicting(h, r) => Evicting(h, r)')
  BY <1>1, SilentKeeps DEF Served
<1>3. ArtifactInv(h, r)'
  <2>1. ArtifactStays(h, r)
    BY <1>1, <1>2 DEF ArtifactStays, Served, storage
  <2>. QED  BY <2>1, ArtifactKept DEF Fine, Typed
<1>4. TableInv(h, r)'
  <2>1. CASE h = HostOf[w] /\ GroupOf[r] \in job[w].g
    <3>1. Fresh(h, r)' \/ GroupOf[r] \in late'[h]
      <4>1. CASE job[w].rows = Rows(job[w].g)
        <5>1. job[w].rows[r] = stored[r]
          BY <2>1, <4>1 DEF Rows
        <5>. QED  BY <1>1, <2>1, <5>1, ResetFresh DEF Served
      <4>2. CASE job[w].rows # Rows(job[w].g)
        BY <1>1, <2>1, <4>2
      <4>. QED  BY <4>1, <4>2
    <3>2. InHand(h, r)' => InHand(h, r) /\ got'[h].rows[r] = got[h].rows[r]
      BY <1>1 DEF InHand, Served, bus
    <3>3. stored'[r] = stored[r]
      BY <1>1 DEF Served, storage
    <3>. QED  BY <1>2, <3>1, <3>2, <3>3 DEF TableInv, Fine
  <2>2. CASE ~(h = HostOf[w] /\ GroupOf[r] \in job[w].g)
    <3>1. table'[h][r] = table[h][r]
      BY <1>1, <2>2 DEF Reset
    <3>2. GroupOf[r] \in late[h] => GroupOf[r] \in late'[h]
      BY <1>1, <2>2
    <3>3. RowStays(h, r)
      BY <1>1, <1>2, <3>1, <3>2 DEF RowStays, Served, bus, storage
    <3>. QED  BY <3>3, RowKept DEF Fine
  <2>. QED  BY <2>1, <2>2
<1>. QED  BY <1>3, <1>4 DEF Fine

LEMMA RequestFine ==
  ASSUME Typed, NEW w \in Worker, Serve(w) \/ Hit(w) \/ (\E x \in Route : Miss(w, x)),
         NEW h \in Replica, NEW r \in Route, Fine(h, r)
  PROVE  Fine(h, r)'
<1>1. CASE Hit(w) \/ Artifact(w)
  BY <1>1, HitTyped, ArtifactTyped, ServedFine DEF local
<1>2. CASE Read(w)
  BY <1>2, ReadTyped, ServedFine DEF local
<1>3. CASE \E x \in Route : Miss(w, x)
  BY <1>3, MissTyped, ServedFine
<1>4. CASE Fill(w)
  <2>1. /\ Served(w) /\ UNCHANGED <<table, late>>
        /\ \/ cache'[h][r] = cache[h][r] /\ (r \in raced[h] => r \in raced'[h])
           \/ cache'[h][r] = stored[r].src \/ r \in raced'[h]
    BY <1>4, FillTyped
  <2>. QED  BY <2>1, ServedFine
<1>5. CASE Install(w)
  BY <1>5, InstallFine
<1>. QED  BY <1>1, <1>2, <1>3, <1>4, <1>5 DEF Serve

-----------------------------------------------------------------------------
(* Subscribers                                                             *)

LEMMA HeardFine ==
  ASSUME Typed, NEW h \in Replica, NEW from, NEW to, NEW event, Heard(h, from, to, event),
         NEW x \in Replica \ {h}, NEW r \in Route, Fine(x, r),
         table'[x][r] = table[x][r], late'[x] = late[x], inbox'[x] = inbox[x],
         cache'[x][r] = cache[x][r], r \in raced[x] => r \in raced'[x]
  PROVE  Fine(x, r)'
<1>1. (Coming(x, r) => Coming(x, r)') /\ (Evicting(x, r) => Evicting(x, r)')
  BY DEF Coming, Evicting, Heard
<1>2. RowStays(x, r) /\ ArtifactStays(x, r)
  BY <1>1 DEF RowStays, ArtifactStays, Heard, storage
<1>. QED  BY <1>2, RowKept, ArtifactKept DEF Fine, Typed

(* On the way into a resync: all will be read again.                       *)
LEMMA Resyncing ==
  ASSUME NEW h, NEW r, sub'[h] \in {"off", "resync"}
  PROVE  Fine(h, r)'
BY DEF Fine, TableInv, Reloading, InHand, ArtifactInv, Evicting

LEMMA SubscribeFine ==
  ASSUME Typed, NEW h \in Replica, Subscribe(h), NEW x \in Replica, NEW r \in Route, Fine(x, r)
  PROVE  Fine(x, r)'
<1>1. Heard(h, "off", "resync", NoEvent) /\ UNCHANGED <<local, inbox, bounds>>
  BY SubscribeTyped
<1>2. CASE x = h  BY <1>1, <1>2, Resyncing DEF Heard
<1>3. CASE x # h  BY <1>1, <1>3, HeardFine DEF local
<1>. QED  BY <1>2, <1>3

LEMMA DisconnectFine ==
  ASSUME Typed, NEW h \in Replica, Disconnect(h),
         NEW x \in Replica, NEW r \in Route, Fine(x, r)
  PROVE  Fine(x, r)'
<1>1. /\ Heard(h, "on", "off", NoEvent) /\ UNCHANGED <<local, faults>>
      /\ \A y \in Replica \ {h} : inbox'[y] = inbox[y]
  BY DisconnectTyped
<1>2. CASE x = h  BY <1>1, <1>2, Resyncing DEF Heard
<1>3. CASE x # h  BY <1>1, <1>3, HeardFine DEF local
<1>. QED  BY <1>2, <1>3

LEMMA ResyncReadFine ==
  ASSUME Typed, NEW h \in Replica, ResyncRead(h), faults' = 0,
         NEW x \in Replica, NEW r \in Route, Fine(x, r)
  PROVE  Fine(x, r)'
<1>1. PICK e \in Event0 : e.rows = stored /\ Heard(h, "resync", "replace", e)
  BY ResyncReadTyped
<1>2. UNCHANGED <<local, inbox>>
  BY ResyncReadTyped
<1>3. CASE x = h
  <2>1. Reloading(h, r)' /\ Evicting(h, r)' /\ got'[h].rows[r] = stored'[r]
    BY <1>1 DEF Heard, Reloading, Evicting, storage
  <2>. QED  BY <1>3, <2>1 DEF Fine, TableInv, ArtifactInv
<1>4. CASE x # h  BY <1>1, <1>2, <1>4, HeardFine DEF local
<1>. QED  BY <1>3, <1>4

(* What changed since the read is announced to the table that it resets.   *)
LEMMA ResyncTableFine ==
  ASSUME Typed, NEW h \in Replica, ResyncTable(h),
         NEW x \in Replica, NEW r \in Route, Fine(x, r)
  PROVE  Fine(x, r)'
<1>1. /\ Heard(h, "replace", "clear", NoEvent) /\ Reset(h, Group, got[h].rows)
      /\ \A y \in Replica \ {h} : late'[y] = late[y]
      /\ UNCHANGED <<cache, recent, raced, inbox, bounds>>
  BY ResyncTableTyped
<1>2. CASE x = h
  <2>1. Evicting(h, r)' /\ ~InHand(h, r)'
    BY <1>1 DEF Heard, Evicting, InHand
  <2>2. Coming(h, r) => Coming(h, r)'
    BY <1>1 DEF Heard, Coming
  <2>3. got[h].rows[r] = stored[r] \/ Coming(h, r)
    BY <1>1, <1>2 DEF Heard, InHand, Fine, TableInv
  <2>4. GroupOf[r] \in Group
    BY TableAssumption
  <2>5. Fresh(h, r)' \/ Coming(h, r)'
    BY <1>1, <2>2, <2>3, <2>4, ResetFresh DEF Heard
  <2>. QED  BY <1>2, <2>1, <2>5 DEF Fine, TableInv, ArtifactInv
<1>3. CASE x # h  BY <1>1, <1>3, HeardFine DEF Reset
<1>. QED  BY <1>2, <1>3

LEMMA ResyncCachesFine ==
  ASSUME Typed, NEW h \in Replica, ResyncCaches(h),
         NEW x \in Replica, NEW r \in Route, Fine(x, r)
  PROVE  Fine(x, r)'
<1>1. Heard(h, "clear", "on", NoEvent) /\ UNCHANGED <<table, late, inbox, bounds>>
  BY ResyncCachesTyped
<1>2. /\ cache'[h][r] = 0
      /\ x # h => cache'[x][r] = cache[x][r] /\ (r \in raced[x] => r \in raced'[x])
  BY ResyncCachesTyped, EvictedTyped DEF Typed
<1>3. CASE x = h
  <2>1. ~InHand(h, r)' /\ ~Reloading(h, r)
    BY <1>1 DEF Heard, InHand, Reloading
  <2>2. (Coming(h, r) => Coming(h, r)') /\ (Fresh(h, r) => Fresh(h, r)')
    BY <1>1 DEF Heard, Coming, Fresh, Copy, storage
  <2>3. TableInv(h, r)'
    BY <1>1, <1>3, <2>1, <2>2 DEF Fine, TableInv
  <2>. QED  BY <1>2, <1>3, <2>3 DEF Fine, ArtifactInv
<1>4. CASE x # h  BY <1>1, <1>2, <1>4, HeardFine
<1>. QED  BY <1>3, <1>4

(* A message that is taken is one that is being applied.                   *)
LEMMA ReceiveFine ==
  ASSUME Typed, NEW h \in Replica, Receive(h), NEW x \in Replica, NEW r \in Route, Fine(x, r)
  PROVE  Fine(x, r)'
<1>1. /\ inbox[h] # <<>> /\ inbox'[h] = Tail(inbox[h])
      /\ \A y \in Replica \ {h} : inbox'[y] = inbox[y]
      /\ UNCHANGED <<table, recent, late, bounds>>
  BY ReceiveTyped
<1>2. PICK e \in Event0 : e.g = Head(inbox[h]).g /\ Heard(h, "on", "reload", e)
  BY ReceiveTyped
<1>3. /\ x = h /\ r \in Head(inbox[h]).r => cache'[h][r] = 0
      /\ ~(x = h /\ r \in Head(inbox[h]).r) =>
           cache'[x][r] = cache[x][r] /\ (r \in raced[x] => r \in raced'[x])
  BY ReceiveTyped, EvictedTyped DEF Typed
<1>4. CASE x = h
  <2>1. PICK n \in Nat : n = Len(inbox[h])
    BY LenProperties DEF Typed, BusTyped
  <2>2. /\ Len(inbox'[h]) = n - 1 /\ \A i \in 1 .. n - 1 : inbox'[h][i] = inbox[h][i + 1]
        /\ Head(inbox[h]) = inbox[h][1]
    BY <1>1, <2>1, HeadTailProperties DEF Typed, BusTyped
  <2>3. ASSUME NEW i \in 1 .. n
        PROVE  i = 1 \/ (i - 1 \in 1 .. n - 1 /\ inbox'[h][i - 1] = inbox[h][i])
    <3>1. CASE i # 1
      <4>1. i - 1 \in 1 .. n - 1 /\ (i - 1) + 1 = i
        BY <2>1, <3>1
      <4>. QED  BY <2>2, <4>1
    <3>. QED  BY <3>1
  <2>4. sub[h] = "on" /\ sub'[h] = "reload" /\ got'[h].g = Head(inbox[h]).g
        /\ UNCHANGED <<storage, job>>
    BY <1>2 DEF Heard
  <2>5. Coming(h, r) => Coming(h, r)' \/ Reloading(h, r)'
    <3>1. ASSUME NEW i \in 1 .. n, GroupOf[r] \in inbox[h][i].g
          PROVE  Coming(h, r)' \/ Reloading(h, r)'
      <4>1. CASE i = 1
        BY <2>2, <2>4, <3>1, <4>1 DEF Reloading
      <4>2. CASE i # 1
        BY <2>2, <2>3, <3>1, <4>2 DEF Coming
      <4>. QED  BY <4>1, <4>2
    <3>. QED  BY <2>1, <2>4, <3>1 DEF Coming
  <2>6. Evicting(h, r) => Evicting(h, r)' \/ cache'[h][r] = 0
    <3>1. ASSUME NEW i \in 1 .. n, r \in inbox[h][i].r
          PROVE  Evicting(h, r)' \/ cache'[h][r] = 0
      <4>1. CASE i = 1
        BY <1>3, <1>4, <2>2, <3>1, <4>1
      <4>2. CASE i # 1
        BY <2>2, <2>3, <3>1, <4>2 DEF Evicting
      <4>. QED  BY <4>1, <4>2
    <3>. QED  BY <2>1, <2>4, <3>1 DEF Evicting
  <2>7. TableInv(h, r)'
    <3>1. ~Reloading(h, r) /\ ~InHand(h, r)' /\ (Fresh(h, r) => Fresh(h, r)')
      BY <1>1, <2>4 DEF Reloading, InHand, Fresh, Copy, storage
    <3>. QED  BY <1>1, <1>4, <2>5, <3>1 DEF Fine, TableInv
  <2>8. ArtifactInv(h, r)'
    <3>1. ArtifactStays(h, r)
      BY <1>3, <1>4, <2>4, <2>6 DEF ArtifactStays, storage
    <3>. QED  BY <1>4, <3>1, ArtifactKept DEF Fine, Typed
  <2>. QED  BY <1>4, <2>7, <2>8 DEF Fine
<1>5. CASE x # h  BY <1>1, <1>2, <1>3, <1>5, HeardFine
<1>. QED  BY <1>4, <1>5

LEMMA ReloadReadFine ==
  ASSUME Typed, NEW h \in Replica, ReloadRead(h), faults' = 0,
         NEW x \in Replica, NEW r \in Route, Fine(x, r)
  PROVE  Fine(x, r)'
<1>1. PICK e \in Event0 : /\ e.g = got[h].g /\ e.rows = Rows(got[h].g)
                          /\ Heard(h, "reload", "reloaded", e)
  BY ReloadReadTyped
<1>2. UNCHANGED <<local, inbox>>
  BY ReloadReadTyped
<1>3. CASE x = h
  <2>1. /\ sub[h] = "reload" /\ sub'[h] = "reloaded" /\ got'[h] = e
        /\ UNCHANGED <<storage, job>>
    BY <1>1 DEF Heard
  <2>2. (Reloading(h, r) => Reloading(h, r)') /\ (Fresh(h, r) => Fresh(h, r)')
    BY <1>1, <1>2, <2>1 DEF Reloading, Fresh, Copy, storage, local
  <2>3. (Coming(h, r) => Coming(h, r)') /\ (Evicting(h, r) => Evicting(h, r)')
    BY <1>2, <2>1 DEF Coming, Evicting
  <2>4. InHand(h, r)' => got'[h].rows[r] = stored'[r]
    BY <1>1, <2>1 DEF InHand, Rows, storage
  <2>5. TableInv(h, r)'
    BY <1>2, <1>3, <2>2, <2>3, <2>4 DEF Fine, TableInv, local
  <2>6. ArtifactStays(h, r)
    BY <1>2, <2>1, <2>3 DEF ArtifactStays, local, storage
  <2>. QED  BY <1>3, <2>5, <2>6, ArtifactKept DEF Fine, Typed
<1>4. CASE x # h  BY <1>1, <1>2, <1>4, HeardFine DEF local
<1>. QED  BY <1>3, <1>4

(* The last reload wins: what changed after its read is still announced.   *)
LEMMA ReloadedFine ==
  ASSUME Typed, NEW h \in Replica, Reloaded(h), NEW x \in Replica, NEW r \in Route, Fine(x, r)
  PROVE  Fine(x, r)'
<1>1. /\ Heard(h, "reloaded", "on", NoEvent) /\ Reset(h, got[h].g, got[h].rows)
      /\ late'[h] = late[h] \ got[h].g /\ \A y \in Replica \ {h} : late'[y] = late[y]
      /\ UNCHANGED <<cache, raced, inbox, bounds>>
  BY ReloadedTyped
<1>2. CASE x = h
  <2>1. sub[h] = "reloaded" /\ sub'[h] = "on" /\ UNCHANGED <<storage, job>>
    BY <1>1 DEF Heard
  <2>2. (Coming(h, r) => Coming(h, r)') /\ (Evicting(h, r) => Evicting(h, r)')
    BY <1>1, <2>1 DEF Coming, Evicting
  <2>3. ~InHand(h, r)'
    BY <2>1 DEF InHand
  <2>4. TableInv(h, r)'
    <3>1. CASE GroupOf[r] \in got[h].g
      <4>1. got[h].rows[r] = stored[r] \/ Coming(h, r)
        BY <1>2, <2>1, <3>1 DEF InHand, Fine, TableInv
      <4>2. Fresh(h, r)' \/ Coming(h, r)'
        BY <1>1, <2>1, <2>2, <3>1, <4>1, ResetFresh
      <4>. QED  BY <2>3, <4>2 DEF TableInv
    <3>2. CASE GroupOf[r] \notin got[h].g
      <4>1. /\ ~Reloading(h, r) /\ (GroupOf[r] \in late[h] => GroupOf[r] \in late'[h])
            /\ Fresh(h, r) => Fresh(h, r)'
        BY <1>1, <2>1, <3>2 DEF Reloading, Fresh, Copy, Reset, storage
      <4>. QED  BY <1>2, <2>2, <2>3, <4>1 DEF Fine, TableInv
    <3>. QED  BY <3>1, <3>2
  <2>5. ArtifactStays(h, r)
    BY <1>1, <2>1, <2>2 DEF ArtifactStays, storage
  <2>. QED  BY <1>2, <2>4, <2>5, ArtifactKept DEF Fine, Typed
<1>3. CASE x # h  BY <1>1, <1>3, HeardFine DEF Reset
<1>. QED  BY <1>2, <1>3

LEMMA TickFine ==
  ASSUME Typed, NEW h \in Replica, Tick(h), NEW x \in Replica, NEW r \in Route, Fine(x, r)
  PROVE  Fine(x, r)'
<1>1. UNCHANGED <<storage, table, cache, late, raced, bus, job, bounds>>
  BY TickTyped
<1>2. (Coming(x, r) => Coming(x, r)') /\ (Evicting(x, r) => Evicting(x, r)')
  BY <1>1 DEF Coming, Evicting, bus
<1>3. RowStays(x, r) /\ ArtifactStays(x, r)
  BY <1>1, <1>2 DEF RowStays, ArtifactStays, bus, storage
<1>. QED  BY <1>3, RowKept, ArtifactKept DEF Fine, Typed

-----------------------------------------------------------------------------
(* The theorems                                                            *)

LEMMA FineInit ==
  ASSUME Init
  PROVE  FineUnlessFault
BY DEF Init, FineUnlessFault, Fine, TableInv, ArtifactInv, Fresh, InHand

(* A fault is never forgotten.                                             *)
LEMMA FaultsStay ==
  ASSUME Typed, [Next]_vars, faults' = 0
  PROVE  faults = 0
<1>1. faults \in Nat
  BY DEF Typed, StorageTyped
<1>2. faults' = faults \/ faults' = faults + 1
  BY DEF Next, Api, Hook, Serve, Listener, CreateRoute, UpdateRoute, DeleteRoute, RenameGroup,
     DeleteGroup, Commit, Event, Fault, Push, Put, Drop, Retitle, ListCached, DropGroup, Evict,
     Publish, Refresh, Read, Install, Artifact, Fill, Hit, Miss, Subscribe, ResyncRead,
     ResyncTable, ResyncCaches, Receive, ReloadRead, Reloaded, Tick, Disconnect, Restart,
     bounds, vars
<1>. QED  BY <1>1, <1>2

LEMMA FineStep ==
  ASSUME Typed, FineUnlessFault, [Next]_vars
  PROVE  FineUnlessFault'
<1>. SUFFICES ASSUME faults' = 0, NEW x \in Replica, NEW r \in Route
              PROVE  Fine(x, r)'
  BY DEF FineUnlessFault
<1>1. Fine(x, r)
  BY FaultsStay DEF FineUnlessFault
<1>2. CASE UNCHANGED vars
  BY <1>1, <1>2 DEF Fine, TableInv, ArtifactInv, Fresh, Copy, Coming, Reloading, InHand,
     Evicting, vars, storage, local, bus
<1>3. ASSUME NEW w \in Worker, Api(w) \/ Hook(w) \/ Serve(w) \/ Hit(w)
      PROVE  Fine(x, r)'
  BY <1>1, <1>3, ApiFine, HookFine, RequestFine
<1>4. ASSUME NEW w \in Worker, NEW y \in Route, Miss(w, y)
      PROVE  Fine(x, r)'
  BY <1>1, <1>4, RequestFine
<1>5. ASSUME NEW h \in Replica, Listener(h) \/ Tick(h) \/ Disconnect(h) \/ Restart(h)
      PROVE  Fine(x, r)'
  <2>1. CASE Listener(h)
    BY <1>1, <2>1, SubscribeFine, ResyncReadFine, ResyncTableFine, ResyncCachesFine,
       ReceiveFine, ReloadReadFine, ReloadedFine DEF Listener
  <2>2. CASE Tick(h)        BY <1>1, <2>2, TickFine
  <2>3. CASE Disconnect(h)  BY <1>1, <2>3, DisconnectFine
  <2>4. CASE Restart(h)     BY <2>4, RestartTyped
  <2>. QED  BY <1>5, <2>1, <2>2, <2>3, <2>4
<1>. QED  BY <1>2, <1>3, <1>4, <1>5 DEF Next

(* When all calls returned and all messages were applied, every replica    *)
(* has exactly the stored records, unless a read-through came late.        *)
THEOREM TablesEndUpFresh == Spec => []TablesFreshUnlessLate
<1>1. Init => Typed /\ FineUnlessFault
  BY TypedInit, FineInit
<1>2. (Typed /\ FineUnlessFault) /\ [Next]_vars => (Typed /\ FineUnlessFault)'
  BY TypedStep, FineStep
<1>3. Typed /\ FineUnlessFault => TablesFreshUnlessLate
  <2>. SUFFICES ASSUME Typed, FineUnlessFault, Quiet, faults = 0,
                       NEW h \in Replica, NEW r \in Route
                PROVE  Fresh(h, r) \/ GroupOf[r] \in late[h]
    BY DEF TablesFreshUnlessLate
  <2>1. TableInv(h, r)
    BY DEF FineUnlessFault, Fine
  <2>2. ~Coming(h, r) /\ ~Reloading(h, r)
    BY DEF Quiet, At, Coming, Reloading, HookLabels
  <2>. QED  BY <2>1, <2>2 DEF TableInv
<1>. QED  BY <1>1, <1>2, <1>3, PTL DEF Spec

(* And every replica runs what it compiled from the stored source, unless  *)
(* it was inserted from an old copy of the record.                         *)
THEOREM ArtifactsEndUpFresh == Spec => []ArtifactsFreshUnlessRaced
<1>1. Init => Typed /\ FineUnlessFault
  BY TypedInit, FineInit
<1>2. (Typed /\ FineUnlessFault) /\ [Next]_vars => (Typed /\ FineUnlessFault)'
  BY TypedStep, FineStep
<1>3. Typed /\ FineUnlessFault => ArtifactsFreshUnlessRaced
  <2>. SUFFICES ASSUME Typed, FineUnlessFault, Quiet, faults = 0,
                       NEW h \in Replica, NEW r \in Route, stored[r].src # 0
                PROVE  cache[h][r] \in {0, stored[r].src} \/ r \in raced[h]
    BY DEF ArtifactsFreshUnlessRaced
  <2>1. ArtifactInv(h, r)
    BY DEF FineUnlessFault, Fine
  <2>2. ~Evicting(h, r)
    BY DEF Quiet, At, Evicting
  <2>. QED  BY <2>1, <2>2 DEF ArtifactInv
<1>. QED  BY <1>1, <1>2, <1>3, PTL DEF Spec
=============================================================================
