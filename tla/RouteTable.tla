----------------------------- MODULE RouteTable -----------------------------
(***************************************************************************)
(* The route tables of several replicas and the invalidation bus between   *)
(* them (src/crates/wm-host/src/route_table.rs and bus.rs, ADR-0037).      *)
(*                                                                         *)
(* Every replica keeps a copy of the route records and a cache of what it  *)
(* compiled from them.  A worker is a thread of a replica that serves an   *)
(* API call, the sweeper's cascade or a request to a mock route; next to   *)
(* the workers every replica has one subscriber task.  Each step here is   *)
(* one critical section of the table, one read of storage, or one publish. *)
(*                                                                         *)
(* A record is its source's version, 0 when there is no record, and the    *)
(* version of the group name it carries.  The registry's own interleavings *)
(* are Registry's subject: here an operation commits at once.              *)
(***************************************************************************)
EXTENDS Naturals, Sequences, FiniteSets

CONSTANTS
  Replica, Worker, Route, Group,
  HostOf,       \* HostOf[w]: the replica worker w runs on
  GroupOf,      \* GroupOf[r]: the group of route r
  Seeded,       \* the routes that exist when the replicas start
  MaxEvents, MaxFaults  \* bounds: API calls, lost connections and errors
                        \* together; errors and restarts alone

ASSUME TableAssumption ==
  /\ HostOf \in [Worker -> Replica] /\ GroupOf \in [Route -> Group]
  /\ Seeded \subseteq Route
  /\ {MaxEvents, MaxFaults} \subseteq Nat

VARIABLES
  stored,     \* the record of each route in storage
  named,      \* version of the name of each group, 0 once it is deleted
  created,    \* the routes that were ever created
  table,      \* RouteTable.routes: per route, its copies in table order
  cache,      \* components and engine_js: the source version compiled, or 0
  recent,     \* revalidated_at: groups reloaded less than the interval ago
  sub, got,   \* each subscriber's control state; the message and rows in hand
  inbox,      \* messages in flight to each subscriber's connection
  job,        \* the calls in progress
  late,       \* groups whose rows were last set by a read-through, out of date
  raced,      \* routes whose artifact was inserted out of date
  events, faults

Version  == 0 .. MaxEvents + 1
Record   == [src : Version, name : Version]
NoRecord == [src |-> 0, name |-> 0]
NoRows   == [r \in Route |-> NoRecord]
Idle     == [at |-> "idle", r |-> {}, g |-> {}, rec |-> NoRecord, rows |-> NoRows]
NoEvent  == [g |-> {}, r |-> {}, rows |-> NoRows]

storage == <<stored, named, created>>
local   == <<table, cache, recent, late, raced>>
bus     == <<sub, got, inbox>>
bounds  == <<events, faults>>
vars    == <<storage, local, bus, job, bounds>>

Copy(rec) == IF rec.src = 0 THEN <<>> ELSE <<rec>>

(* What routes_in_group returns, for the groups in gs                      *)
Rows(gs) == [r \in Route |-> IF GroupOf[r] \in gs THEN stored[r] ELSE NoRecord]

(* A route without a row leaves an empty copy.                             *)
SlipReplaced(h, gs, rows) ==
  [r \in Route |-> IF GroupOf[r] \in gs THEN <<rows[r]>> ELSE table[h][r]]

(* Replica h's table with the rows read for the groups in gs in place      *)
Replaced(h, gs, rows) ==
  [r \in Route |-> IF GroupOf[r] \in gs THEN Copy(rows[r]) ELSE table[h][r]]

(* find_match_in_group: where the first copy is, if any, that a request    *)
(* for r under the name n finds                                            *)
Found(copies, n) == {i \in DOMAIN copies :
  copies[i].name = n /\ \A j \in 1 .. i - 1 : copies[j].name # n}

Event == events < MaxEvents /\ events' = events + 1 /\ UNCHANGED faults
Fault ==
  /\ faults < MaxFaults /\ faults' = faults + 1
  /\ events < MaxEvents /\ events' = events + 1

(* The replicas are warm and subscribed.                                   *)
Init ==
  /\ stored = [r \in Route |-> IF r \in Seeded THEN [src |-> 1, name |-> 1]
                                               ELSE NoRecord]
  /\ named = [g \in Group |-> 1]
  /\ created = Seeded
  /\ table = [h \in Replica |-> [r \in Route |-> Copy(stored[r])]]
  /\ cache = [h \in Replica |-> [r \in Route |-> 0]]
  /\ recent = [h \in Replica |-> {}]
  /\ sub = [h \in Replica |-> "on"] /\ got = [h \in Replica |-> NoEvent]
  /\ inbox = [h \in Replica |-> <<>>]
  /\ job = [w \in Worker |-> Idle]
  /\ late = [h \in Replica |-> {}] /\ raced = [h \in Replica |-> {}]
  /\ events = 0 /\ faults = 0

-----------------------------------------------------------------------------
(* API calls: the registry's operation, then the refresh_* hook            *)

Work(w, task) == job' = [job EXCEPT ![w] = task]
Step(w, label) == Work(w, [job[w] EXCEPT !.at = label])
At(w, label) == job[w].at = label

Commit(w, label, g, rs, rec) ==
  /\ At(w, "idle") /\ Event
  /\ Work(w, [Idle EXCEPT !.at = label, !.g = {g}, !.r = rs, !.rec = rec])
  /\ UNCHANGED <<local, bus>>

CreateRoute(w) == \E r \in Route \ created :
  LET rec == [src |-> 1, name |-> named[GroupOf[r]]] IN
  /\ named[GroupOf[r]] # 0
  /\ Commit(w, "push", GroupOf[r], {r}, rec)
  /\ stored' = [stored EXCEPT ![r] = rec]
  /\ created' = created \cup {r}
  /\ UNCHANGED named

UpdateRoute(w) == \E r \in Route :
  LET rec == [stored[r] EXCEPT !.src = @ + 1] IN
  /\ stored[r].src # 0
  /\ Commit(w, "put", GroupOf[r], {r}, rec)
  /\ stored' = [stored EXCEPT ![r] = rec]
  /\ UNCHANGED <<named, created>>

DeleteRoute(w) == \E r \in Route :
  /\ stored[r].src # 0
  /\ Commit(w, "drop", GroupOf[r], {r}, NoRecord)
  /\ stored' = [stored EXCEPT ![r] = NoRecord]
  /\ UNCHANGED <<named, created>>

RenameGroup(w) == \E g \in Group :
  LET n == named[g] + 1 IN
  /\ named[g] # 0
  /\ Commit(w, "retitle", g, {}, [src |-> 0, name |-> n])
  /\ named' = [named EXCEPT ![g] = n]
  /\ stored' = [r \in Route |->
       IF GroupOf[r] = g /\ stored[r].src # 0 THEN [stored[r] EXCEPT !.name = n]
       ELSE stored[r]]
  /\ UNCHANGED created

(* DELETE of a group, or the sweeper's cascade of an expired one           *)
DeleteGroup(w) == \E g \in Group :
  /\ named[g] # 0
  /\ Commit(w, "list", g, {}, NoRecord)
  /\ named' = [named EXCEPT ![g] = 0]
  /\ stored' = [r \in Route |-> IF GroupOf[r] = g THEN NoRecord ELSE stored[r]]
  /\ UNCHANGED created

-----------------------------------------------------------------------------
(* The hooks: each changes the table, evicts what was compiled, publishes  *)

Refresh(w, from, to, f(_)) ==
  LET h == HostOf[w] IN
  /\ At(w, from)
  /\ Step(w, to)
  /\ table' = [table EXCEPT ![h] = [r \in Route |-> f(r)]]
  /\ UNCHANGED <<storage, cache, recent, late, raced, bus, bounds>>

(* refresh_after_create: push, whether or not a reload brought it already  *)
Push(w) ==
  LET mine == table[HostOf[w]] IN
  Refresh(w, "push", "publish_group", LAMBDA r :
    IF r \in job[w].r THEN Append(mine[r], job[w].rec) ELSE mine[r])

(* refresh_after_update: the first copy is replaced                        *)
Put(w) ==
  LET mine == table[HostOf[w]] IN
  Refresh(w, "put", "evict", LAMBDA r :
    IF r \in job[w].r THEN <<job[w].rec>> \o (IF mine[r] = <<>> THEN <<>>
                                              ELSE Tail(mine[r]))
    ELSE mine[r])

(* refresh_after_delete                                                    *)
Drop(w) ==
  LET mine == table[HostOf[w]] IN
  Refresh(w, "drop", "evict", LAMBDA r :
    IF r \in job[w].r THEN <<>> ELSE mine[r])

(* refresh_after_group_rename                                              *)
Retitle(w) ==
  LET mine == table[HostOf[w]] IN
  Refresh(w, "retitle", "publish_group", LAMBDA r :
    IF GroupOf[r] \in job[w].g
      THEN [i \in DOMAIN mine[r] |-> [mine[r][i] EXCEPT !.name = job[w].rec.name]]
      ELSE mine[r])

(* refresh_after_group_cascade: the ids to drop are read first; then, when *)
(* there were any, every route of the group is dropped.                    *)
ListCached(w) ==
  LET mine == table[HostOf[w]]
      ids == {r \in Route : GroupOf[r] \in job[w].g /\ mine[r] # <<>>} IN
  /\ At(w, "list")
  /\ Work(w, [job[w] EXCEPT !.r = ids,
                !.at = IF ids = {} THEN "forget" ELSE "drop_group"])
  /\ UNCHANGED <<storage, local, bus, bounds>>

DropGroup(w) ==
  LET mine == table[HostOf[w]] IN
  Refresh(w, "drop_group", "forget", LAMBDA r :
    IF GroupOf[r] \in job[w].g THEN <<>> ELSE mine[r])

Evicted(h, rs) ==
  /\ cache' = [cache EXCEPT ![h] = [r \in Route |-> IF r \in rs THEN 0 ELSE @[r]]]
  /\ raced' = [raced EXCEPT ![h] = @ \ rs]

(* A cascade drops the group's read-through slot too.                      *)
Evict(w) ==
  LET h == HostOf[w] IN
  /\ \/ At(w, "evict") /\ UNCHANGED recent
     \/ At(w, "forget") /\ recent' = [recent EXCEPT ![h] = @ \ job[w].g]
  /\ Step(w, "publish")
  /\ Evicted(h, job[w].r)
  /\ UNCHANGED <<storage, table, late, bus, bounds>>

(* The replica that made the change does not listen to itself.             *)
SlipPublish(w) ==
  LET ids == IF At(w, "publish") THEN job[w].r ELSE {}
      event == [g |-> job[w].g, r |-> ids] IN
  /\ job[w].at \in {"publish", "publish_group"}
  /\ Work(w, Idle)
  /\ \/ /\ inbox' = [h \in Replica |->
             IF sub[h] = "off" \/ h = HostOf[w] THEN inbox[h] ELSE Append(inbox[h], event)]
        /\ UNCHANGED bounds
     \/ Fault /\ UNCHANGED inbox
  /\ UNCHANGED <<storage, local, sub, got>>

(* publish_invalidation: one PUBLISH reaches whoever is subscribed at the  *)
(* time, the sender's own subscriber too; an error is logged and swallowed. *)
Publish(w) ==
  LET ids == IF At(w, "publish") THEN job[w].r ELSE {}
      event == [g |-> job[w].g, r |-> ids] IN
  /\ job[w].at \in {"publish", "publish_group"}
  /\ Work(w, Idle)
  /\ \/ /\ inbox' = [h \in Replica |->
             IF sub[h] = "off" THEN <<>> ELSE Append(inbox[h], event)]
        /\ UNCHANGED bounds
     \/ Fault /\ UNCHANGED inbox
  /\ UNCHANGED <<storage, local, sub, got>>

-----------------------------------------------------------------------------
(* A request to a mock route                                               *)

(* dispatch_inner matches against the table and keeps a copy of the record. *)
Hit(w) == \E r \in Route : \E n \in Version \ {0} : \E i \in Found(table[HostOf[w]][r], n) :
  /\ At(w, "idle")
  /\ Work(w, [Idle EXCEPT !.at = "artifact", !.r = {r}, !.rec = table[HostOf[w]][r][i]])
  /\ UNCHANGED <<storage, local, bus, bounds>>

(* No match for a route of a group that exists: revalidate_group claims    *)
(* the slot, unless the group was reloaded a moment ago (a 404).           *)
Miss(w, r) ==
  LET h == HostOf[w]
      g == GroupOf[r] IN
  /\ At(w, "idle") /\ named[g] # 0 /\ g \notin recent[h]
  /\ Found(table[h][r], named[g]) = {}
  /\ Work(w, [Idle EXCEPT !.at = "read", !.r = {r}, !.g = {g}])
  /\ recent' = [recent EXCEPT ![h] = @ \cup {g}]
  /\ UNCHANGED <<storage, table, cache, late, raced, bus, bounds>>

(* reload_group reads storage; an error leaves the table as it is.         *)
Read(w) ==
  /\ At(w, "read")
  /\ \/ /\ Work(w, [job[w] EXCEPT !.at = "install", !.rows = Rows(job[w].g)])
        /\ UNCHANGED bounds
     \/ Fault /\ Work(w, Idle)
  /\ UNCHANGED <<storage, local, bus>>

(* The rows read only refresh the routes the table has.                    *)
SlipInstall(w) ==
  LET h == HostOf[w]
      new == Replaced(h, job[w].g, job[w].rows) IN
  /\ At(w, "install")
  /\ Work(w, Idle)
  /\ table' = [table EXCEPT ![h] =
       [r \in Route |-> IF @[r] = <<>> THEN <<>> ELSE new[r]]]
  /\ UNCHANGED <<storage, cache, recent, late, raced, bus, bounds>>

(* reload_group takes the write lock only now and replaces the rows; the   *)
(* request is matched again, in the same way, and is a 404 if it fails.    *)
Install(w) ==
  LET h == HostOf[w]
      gs == job[w].g IN
  /\ At(w, "install")
  /\ Work(w, Idle)
  /\ table' = [table EXCEPT ![h] = Replaced(h, gs, job[w].rows)]
  /\ late' = [late EXCEPT ![h] = IF job[w].rows = Rows(gs) THEN @ \ gs ELSE @ \cup gs]
  /\ UNCHANGED <<storage, cache, recent, raced, bus, bounds>>

(* component_for, engine_source_for: what is cached is used; otherwise the *)
(* record in hand is compiled, outside the lock, and inserted.             *)
Artifact(w) ==
  LET h == HostOf[w] IN
  /\ At(w, "artifact")
  /\ IF \E r \in job[w].r : cache[h][r] # 0 THEN Work(w, Idle) ELSE Step(w, "fill")
  /\ UNCHANGED <<storage, local, bus, bounds>>

Fill(w) == \E r \in job[w].r :
  LET h == HostOf[w]
      v == job[w].rec.src IN
  /\ At(w, "fill")
  /\ Work(w, Idle)
  /\ cache' = [cache EXCEPT ![h][r] = v]
  /\ raced' = [raced EXCEPT ![h] = IF v = stored[r].src THEN @ \ {r} ELSE @ \cup {r}]
  /\ UNCHANGED <<storage, table, recent, late, bus, bounds>>

(* The revalidation interval is over.                                      *)
Tick(h) == \E g \in recent[h] :
  /\ recent' = [recent EXCEPT ![h] = @ \ {g}]
  /\ UNCHANGED <<storage, table, cache, late, raced, bus, job, bounds>>

-----------------------------------------------------------------------------
(* The subscriber: run_route_invalidation_session, again and again         *)

Listen(h, from, to, event) ==
  /\ sub[h] = from
  /\ sub' = [sub EXCEPT ![h] = to]
  /\ got' = [got EXCEPT ![h] = event]

(* Nothing is reloaded after a lost connection.                            *)
SlipSubscribe(h) ==
  /\ Listen(h, "off", "on", NoEvent)
  /\ UNCHANGED <<storage, local, inbox, job, bounds>>

Subscribe(h) ==
  /\ Listen(h, "off", "resync", NoEvent)
  /\ UNCHANGED <<storage, local, inbox, job, bounds>>

(* reload_all reads everything; an error leaves the table as it is.        *)
ResyncRead(h) ==
  /\ \/ Listen(h, "resync", "replace", [NoEvent EXCEPT !.g = Group, !.rows = stored])
        /\ UNCHANGED bounds
     \/ Fault /\ Listen(h, "resync", "on", NoEvent)
  /\ UNCHANGED <<storage, local, inbox, job>>

ResyncTable(h) ==
  /\ Listen(h, "replace", "clear", NoEvent)
  /\ table' = [table EXCEPT ![h] = Replaced(h, Group, got[h].rows)]
  /\ late' = [late EXCEPT ![h] = {}]
  /\ UNCHANGED <<storage, cache, recent, raced, inbox, job, bounds>>

ResyncCaches(h) ==
  /\ Listen(h, "clear", "on", NoEvent)
  /\ Evicted(h, Route)
  /\ recent' = [recent EXCEPT ![h] = {}]
  /\ UNCHANGED <<storage, table, late, inbox, job, bounds>>

(* The group is reloaded, what was compiled stays.                         *)
SlipReceive(h) ==
  /\ inbox[h] # <<>>
  /\ Listen(h, "on", "reload", [NoEvent EXCEPT !.g = Head(inbox[h]).g])
  /\ inbox' = [inbox EXCEPT ![h] = Tail(@)]
  /\ UNCHANGED <<storage, local, job, bounds>>

(* apply_invalidation evicts first,                                        *)
Receive(h) ==
  /\ inbox[h] # <<>>
  /\ Listen(h, "on", "reload", [NoEvent EXCEPT !.g = Head(inbox[h]).g])
  /\ inbox' = [inbox EXCEPT ![h] = Tail(@)]
  /\ Evicted(h, Head(inbox[h]).r)
  /\ UNCHANGED <<storage, table, recent, late, job, bounds>>

(* then reads the group,                                                   *)
ReloadRead(h) ==
  /\ \/ Listen(h, "reload", "reloaded", [got[h] EXCEPT !.rows = Rows(got[h].g)])
        /\ UNCHANGED bounds
     \/ Fault /\ Listen(h, "reload", "on", NoEvent)
  /\ UNCHANGED <<storage, local, inbox, job>>

(* then replaces its rows.                                                 *)
Reloaded(h) ==
  LET gs == got[h].g IN
  /\ Listen(h, "reloaded", "on", NoEvent)
  /\ table' = [table EXCEPT ![h] = Replaced(h, gs, got[h].rows)]
  /\ late' = [late EXCEPT ![h] = @ \ gs]
  /\ recent' = [recent EXCEPT ![h] = @ \cup gs]
  /\ UNCHANGED <<storage, cache, raced, inbox, job, bounds>>

(* The connection is lost, with what was in flight on it: no replay.       *)
Disconnect(h) ==
  /\ Event
  /\ Listen(h, "on", "off", NoEvent)
  /\ inbox' = [inbox EXCEPT ![h] = <<>>]
  /\ UNCHANGED <<storage, local, job>>

(* A replica stops and starts again; warm loads its table.                 *)
Restart(h) ==
  /\ Fault
  /\ table' = [table EXCEPT ![h] = [r \in Route |-> Copy(stored[r])]]
  /\ Evicted(h, Route)
  /\ recent' = [recent EXCEPT ![h] = {}]
  /\ late' = [late EXCEPT ![h] = {}]
  /\ sub' = [sub EXCEPT ![h] = "off"] /\ got' = [got EXCEPT ![h] = NoEvent]
  /\ inbox' = [inbox EXCEPT ![h] = <<>>]
  /\ job' = [w \in Worker |-> IF HostOf[w] = h THEN Idle ELSE job[w]]
  /\ UNCHANGED storage

-----------------------------------------------------------------------------
Hook(w) ==
  \/ Push(w) \/ Put(w) \/ Drop(w) \/ Retitle(w) \/ ListCached(w)
  \/ DropGroup(w) \/ Evict(w) \/ Publish(w)

Serve(w) == Read(w) \/ Install(w) \/ Artifact(w) \/ Fill(w)

Api(w) ==
  \/ CreateRoute(w) \/ UpdateRoute(w) \/ DeleteRoute(w) \/ RenameGroup(w)
  \/ DeleteGroup(w)

Listener(h) ==
  \/ Subscribe(h) \/ ResyncRead(h) \/ ResyncTable(h) \/ ResyncCaches(h)
  \/ Receive(h) \/ ReloadRead(h) \/ Reloaded(h)

Next ==
  \/ \E w \in Worker : Api(w) \/ Hook(w) \/ Serve(w) \/ Hit(w)
  \/ \E w \in Worker, r \in Route : Miss(w, r)
  \/ \E h \in Replica : Listener(h) \/ Tick(h) \/ Disconnect(h) \/ Restart(h)

Spec == Init /\ [][Next]_vars

(* Threads that are in a call go on, the interval passes, and whoever gets *)
(* a 404 for a route that exists asks again.  Of the subscriber and of the *)
(* bus nothing is assumed.                                                 *)
Fairness ==
  /\ \A w \in Worker :
       WF_vars(Serve(w) \/ Hook(w)) /\ \A r \in Route : SF_vars(Miss(w, r))
  /\ \A h \in Replica : WF_vars(Tick(h))

FairSpec == Spec /\ Fairness

-----------------------------------------------------------------------------
(* Properties                                                              *)

TypeOK ==
  /\ stored \in [Route -> Record] /\ named \in [Group -> Version]
  /\ created \subseteq Route
  /\ \A h \in Replica, r \in Route : table[h][r] \in Seq(Record \ {NoRecord})
  /\ cache \in [Replica -> [Route -> Version]]
  /\ recent \in [Replica -> SUBSET Group]
  /\ sub \in [Replica -> {"off", "resync", "replace", "clear", "on", "reload",
                          "reloaded"}]
  /\ job \in [Worker -> [at : {"idle", "push", "put", "drop", "retitle", "list",
       "drop_group", "evict", "forget", "publish", "publish_group", "read",
       "install", "artifact", "fill"}, r : SUBSET Route, g : SUBSET Group,
       rec : Record, rows : [Route -> Record]]]

(* Nobody is at work: all calls returned, all messages were applied.       *)
Quiet ==
  /\ \A w \in Worker : At(w, "idle")
  /\ \A h \in Replica : sub[h] = "on" /\ inbox[h] = <<>>

(* Replica h has exactly the stored record of route r.                     *)
Fresh(h, r) == table[h][r] = Copy(stored[r])

(* Once all is quiet every replica has the stored records, one copy each:  *)
(* the hooks of concurrent calls, the messages and the resync after a lost *)
(* connection overtake each other but the last reload wins.  Two things    *)
(* excuse a difference: an error, or a read-through whose read was already *)
(* out of date when it took the lock, and came last.                       *)
TablesFreshUnlessLate ==
  Quiet /\ faults = 0 =>
    \A h \in Replica, r \in Route : Fresh(h, r) \/ GroupOf[r] \in late[h]

(* Once all is quiet no replica keeps what it compiled from a source that  *)
(* was replaced since: an update's evictions come after every insertion of *)
(* the old artifact, but for one made out of an old copy of the record.    *)
ArtifactsFreshUnlessRaced ==
  Quiet /\ faults = 0 =>
    \A h \in Replica, r \in Route :
      stored[r].src # 0 => cache[h][r] \in {0, stored[r].src} \/ r \in raced[h]

(* The readiness guarantee: a route that was created ends up reachable on  *)
(* every replica that is asked for it, under its group's name of the day,  *)
(* without any help from the bus.                                          *)
Reachable(h, r) == Found(table[h][r], named[GroupOf[r]]) # {}

Readiness ==
  \A h \in Replica, r \in Route : <>[](stored[r].src # 0 => Reachable(h, r))
=============================================================================
