------------------------------ MODULE Registry ------------------------------
(***************************************************************************)
(* The route and group registry (src/crates/wm-host/src/registry.rs).      *)
(*                                                                         *)
(* Every operation of the registry is a sequence of commands to a shared   *)
(* store (Valkey); a command is atomic, the sequence is not.  A process    *)
(* here is one call in progress on some replica's API or dispatch thread:  *)
(* pc says which command it sends next and loc holds the local variables   *)
(* of the Rust function.  A key that has no value is NoId, or a record     *)
(* whose set of present hash fields is empty.                              *)
(*                                                                         *)
(* One action stands for several commands only where no other command can  *)
(* tell them apart: the HSETs that write a record under an id nobody knows *)
(* yet, the HDELs that empty one, whose intermediate results decode        *)
(* (badly) just as the last one does, and the HSETs of an update, a hit or *)
(* a patch to fields of one record that no property tells apart.  A field  *)
(* that is not present keeps its last value, which nothing reads.          *)
(*                                                                         *)
(* The operators named Slip..., in this module and the others, are not     *)
(* part of the model: each is a mistake in the definition that follows it, *)
(* which one of the properties is there to notice.                         *)
(***************************************************************************)
EXTENDS Naturals, FiniteSets

CONSTANTS
  Proc,        \* calls that can be in progress at once
  Ops,         \* Ops[p]: the operations process p is asked to perform
  Name,        \* group names
  NoName,      \* not a name
  Methods, Path,  \* method lists and path patterns a route can have
  NoMethods, NoPath,  \* none of them
  NoSweeper,   \* not a sweeper
  Clash,       \* the pairs pattern::routes_conflict rejects
  Ttls,        \* configured TTLs: 0 is "never", 1 stands for any positive one
  TightTtl,    \* whether a key can expire between the EXPIREs of one call
  MaxGroups, MaxRoutes,  \* bounds: ids allocated,
  MaxCalls, MaxFaults,   \* calls made and errors met
  Kinds,       \* the namespaces of handler data kept track of
  SeedName,    \* SeedName[g]: name of the group g that exists initially
  SeedRoute    \* SeedRoute[r]: group and pattern of a route existing initially

GroupId == 1 .. MaxGroups
RouteId == 1 .. MaxRoutes
Number  == 1 .. MaxRoutes + MaxFaults  \* an error may waste a number
NoId    == 0

Pattern == [methods : Methods, path : Path]

NoPattern == [methods |-> NoMethods, path |-> NoPath]
Patterns == [methods : Methods \cup {NoMethods}, path : Path \cup {NoPath}]

GroupField == {"id", "name", "ttl_seconds", "sliding_ttl", "callout_enabled",
               "last_activity_at"}
RouteField == {"id", "group_name", "pattern", "artifact", "source", "activity"}

(* Fields without which decode_group and decode_route return Malformed.    *)
(* "id" stands for every field that only the creation writes, "pattern"    *)
(* for "methods" and "path": only a record without an id can have just one *)
(* of them.                                                                *)
GroupMandatory == {"id", "name", "ttl_seconds", "sliding_ttl"}
RouteMandatory == {"id", "group_name", "pattern", "artifact"}

ASSUME BoundsAssumption ==
  {MaxGroups, MaxRoutes, MaxCalls, MaxFaults} \subseteq Nat
ASSUME ValuesAssumption ==
  /\ NoName \notin Name /\ NoMethods \notin Methods /\ NoPath \notin Path
  /\ Ttls \subseteq {0, 1}
  /\ TightTtl \in BOOLEAN
  /\ Kinds \subseteq {"kv", "gkv", "journal"}
ASSUME ClashAssumption == Clash \subseteq Pattern \X Pattern
ASSUME SeedAssumption ==
  \E ng \in 0 .. MaxGroups, nr \in 0 .. MaxRoutes :
    /\ SeedName \in [1 .. ng -> Name]
    /\ \A g, h \in 1 .. ng : SeedName[g] = SeedName[h] => g = h
    /\ SeedRoute \in [1 .. nr -> [group : 1 .. ng, pat : Pattern]]
    /\ \A r, s \in 1 .. nr :
         r # s /\ SeedRoute[r].group = SeedRoute[s].group
           => <<SeedRoute[r].pat, SeedRoute[s].pat>> \notin Clash

VARIABLES
  group,      \* group:{g}            hash
  byName,     \* group:by-name:{n}    string
  recArmed,   \* the group records with a TTL running
  nameTtl,    \* TTL of each by-name key: see ExpireName
  counter,    \* next_route_number in group:counters:{g}; 0 when absent
  groupAll,   \* group:all            set (and group:owner:{o}, kept alike)
  route,      \* route:{r}            hash
  byNumber,   \* route:by-number:{g}:{n}  string
  inGroup,    \* route:in-group:{g}   set
  routeAll,   \* route:all            set
  byOwner,    \* route:by-owner:{o}   set, of one owner
  spaces,     \* kv:, gkv: and journal: namespaces that hold keys
  nextGroup, nextRoute,   \* ULIDs handed out so far
  pc, loc,    \* control and local variables of the calls in progress
  calls, faults,  \* calls started and storage errors met so far
  lease       \* sweep:lease: who holds it; only the sweepers of Lifecycle do

groupVars == <<group, byName, recArmed, nameTtl, groupAll, nextGroup>>
routeVars == <<route, byNumber, inGroup, routeAll, byOwner, nextRoute>>
store     == <<groupVars, routeVars, counter, spaces>>
others    == <<calls, faults, lease>>
vars      == <<store, pc, loc, others>>

NoGroup == [has |-> {}, name |-> NoName, ttl |-> 0]
NoRoute == [has |-> {}, group |-> NoId, number |-> 0, gname |-> NoName,
            pat |-> NoPattern]

(* g, r, n, nm: the group, route, number and name in hand; old, pat: a     *)
(* second name and a pattern; set: the parts of it a patch sets; todo,     *)
(* done: ids listed and ids read; ttl: the configured TTL read; left: the  *)
(* groups a sweep has yet to probe; cd: whether a cascade is in progress   *)
(* and found its group; ret, fail: where to go on success and on error     *)
Locals == [g |-> NoId, r |-> NoId, n |-> 0, nm |-> NoName, old |-> NoName,
           pat |-> NoPattern, set |-> {}, todo |-> {}, done |-> {}, ttl |-> 0,
           left |-> {}, cd |-> "none", ret |-> "idle", fail |-> "idle"]

-----------------------------------------------------------------------------
(* What the reads of a record return.                                      *)

(* read_group answers Ok; with has = {} it answers NotFound, else Malformed *)
Readable(g) == GroupMandatory \subseteq group[g].has

(* resolve_group finds g, by its ULID or through an index entry             *)
Resolvable(g) == "id" \in group[g].has \/ \E n \in Name : byName[n] = g

(* read_route answers Ok                                                    *)
Intact(r) == RouteMandatory \subseteq route[r].has

(* The namespaces a run keeps track of, out of those that hold keys         *)
Kept(held) == {s \in held : s[1] \in Kinds}

(* A call of operation op starts *)
Asked(p, op) ==
  /\ pc[p] = "idle" /\ op \in Ops[p] /\ calls < MaxCalls
  /\ calls' = calls + 1

Goto(p, label) ==
  /\ pc' = [pc EXCEPT ![p] = label]
  /\ loc' = IF label = "idle" THEN [loc EXCEPT ![p] = Locals] ELSE loc

Enter(p, label, locals) ==
  /\ pc' = [pc EXCEPT ![p] = label]
  /\ loc' = [loc EXCEPT ![p] = locals]

(* Ids are bounded: a call that will need one starts only if one is left.   *)
GroupLeft == nextGroup + Cardinality({p \in Proc : pc[p] = "cg_write"}) < MaxGroups
RouteLeft ==
  LET creating == {p \in Proc :
        \/ pc[p] \in {"cr_list", "cr_scan", "cr_number", "cr_write"}
        \/ loc[p].ret = "cr_list"}
  IN nextRoute + Cardinality(creating) < MaxRoutes

Return(p) == Goto(p, loc[p].ret)
Abort(p)  == Goto(p, loc[p].fail)

Next1(p, from, to) == pc[p] = from /\ Goto(p, to)

Init ==
  /\ group = [g \in GroupId |->
       IF g \in DOMAIN SeedName
         THEN [has |-> GroupField \ {"last_activity_at"},
               name |-> SeedName[g], ttl |-> 1]
         ELSE NoGroup]
  /\ byName = [n \in Name |->
       IF \E g \in DOMAIN SeedName : SeedName[g] = n
         THEN CHOOSE g \in DOMAIN SeedName : SeedName[g] = n ELSE NoId]
  /\ recArmed = DOMAIN SeedName
  /\ nameTtl = [n \in Name |-> IF byName[n] # NoId THEN "armed" ELSE "none"]
  /\ groupAll = DOMAIN SeedName
  /\ nextGroup = Cardinality(DOMAIN SeedName)
  /\ counter = [g \in GroupId |->
       IF g \in DOMAIN SeedName THEN Cardinality(DOMAIN SeedRoute) ELSE 0]
  /\ route = [r \in RouteId |->
       IF r \in DOMAIN SeedRoute
         THEN [has |-> RouteField \ {"activity"}, group |-> SeedRoute[r].group,
               number |-> r, gname |-> SeedName[SeedRoute[r].group],
               pat |-> SeedRoute[r].pat]
         ELSE NoRoute]
  /\ byNumber = [g \in GroupId |-> [n \in Number |->
       IF n \in DOMAIN SeedRoute /\ SeedRoute[n].group = g THEN n ELSE NoId]]
  /\ inGroup = [g \in GroupId |->
       {r \in DOMAIN SeedRoute : SeedRoute[r].group = g}]
  /\ routeAll = DOMAIN SeedRoute
  /\ byOwner = DOMAIN SeedRoute
  /\ nextRoute = Cardinality(DOMAIN SeedRoute)
  /\ spaces = Kept({<<"kv", r>> : r \in DOMAIN SeedRoute} \cup
                    {"gkv", "journal"} \X DOMAIN SeedName)
  /\ pc = [p \in Proc |-> "idle"]
  /\ loc = [p \in Proc |-> Locals]
  /\ calls = 0 /\ faults = 0 /\ lease = NoSweeper

-----------------------------------------------------------------------------
(* arm_group_ttls: EXPIRE the record, then EXPIRE its by-name key, for the *)
(* TTL in loc.ttl; a configured TTL of 0 PERSISTs them.  Neither command   *)
(* creates a key.                                                          *)

(* A TTL of 0 is taken for "nothing to arm".                               *)
SlipArmRecord(p) ==
  LET g == loc[p].g IN
  /\ Next1(p, "arm_record", "arm_name")
  /\ recArmed' = IF loc[p].ttl = 0 THEN recArmed ELSE recArmed \cup {g}
  /\ UNCHANGED <<group, byName, nameTtl, groupAll, nextGroup, routeVars, counter,
                 spaces, others>>

(* An index key armed before this runs out before the record now does.     *)
ArmRecord(p) ==
  LET g == loc[p].g IN
  /\ Next1(p, "arm_record", "arm_name")
  /\ recArmed' = IF loc[p].ttl = 0 \/ group[g].has = {}
                   THEN recArmed \ {g} ELSE recArmed \cup {g}
  /\ nameTtl' = [n \in Name |->
       IF byName[n] = g /\ nameTtl[n] = "armed" THEN "stale" ELSE nameTtl[n]]
  /\ UNCHANGED <<group, byName, groupAll, nextGroup, routeVars, counter,
                 spaces, others>>

ArmName(p) ==
  LET n == loc[p].nm IN
  /\ pc[p] = "arm_name"
  /\ Return(p)
  /\ nameTtl' = [nameTtl EXCEPT ![n] =
       IF loc[p].ttl = 0 \/ byName[n] = NoId THEN "none" ELSE "armed"]
  /\ UNCHANGED <<group, byName, recArmed, groupAll, nextGroup, routeVars,
                 counter, spaces, others>>

-----------------------------------------------------------------------------
(* create_group, and create_implicit_group on behalf of create_route       *)

(* GET group:by-name:{n}; a name in use is refused.  generate_group_name   *)
(* ends with the same check on the name it picked.  A route for no group   *)
(* goes on to create_route with the implicit group.                        *)
CreateGroup(p) ==
  /\ GroupLeft
  /\ \E n \in Name, t \in Ttls :
       /\ byName[n] = NoId
       /\ \/ /\ Asked(p, "create_group")
             /\ Enter(p, "cg_write", [Locals EXCEPT !.nm = n, !.ttl = t])
          \/ /\ Asked(p, "create_implicit") /\ RouteLeft
             /\ \E q \in Pattern :
                  Enter(p, "cg_write", [Locals EXCEPT !.nm = n, !.ttl = 1,
                                          !.pat = q, !.ret = "cr_list"])
  /\ UNCHANGED <<store, faults, lease>>

(* write_group: the HSETs, then SET group:by-name                          *)
WriteGroup(p) ==
  LET n == loc[p].nm
      g == nextGroup + 1 IN
  /\ pc[p] = "cg_write" /\ nextGroup < MaxGroups
  /\ Enter(p, "cg_index", [loc[p] EXCEPT !.g = g])
  /\ nextGroup' = g
  /\ group' = [group EXCEPT ![g] =
       [has |-> GroupField \ {"last_activity_at"}, name |-> n,
        ttl |-> loc[p].ttl]]
  /\ byName' = [byName EXCEPT ![n] = g]
  /\ nameTtl' = [nameTtl EXCEPT ![n] = "none"]
  /\ UNCHANGED <<recArmed, groupAll, routeVars, counter, spaces, others>>

(* write_group: SADD group:owner and group:all                             *)
IndexGroup(p) ==
  /\ Next1(p, "cg_index", "arm_record")
  /\ groupAll' = groupAll \cup {loc[p].g}
  /\ UNCHANGED <<group, byName, recArmed, nameTtl, nextGroup, routeVars,
                 counter, spaces, others>>

-----------------------------------------------------------------------------
(* patch_group, refresh_group, refresh_group_if_sliding                    *)

(* The record is read once, then a new TTL is written and armed, and the   *)
(* flags are written.                                                      *)
PatchGroup(p) ==
  /\ Asked(p, "patch_group")
  /\ \E g \in GroupId :
       /\ Readable(g)
       /\ LET l == [Locals EXCEPT !.g = g, !.nm = group[g].name] IN
          \/ Enter(p, "pt_flags", l)
          \/ \E t \in Ttls, next \in {"pt_flags", "idle"} :
               Enter(p, "pt_ttl", [l EXCEPT !.ttl = t, !.ret = next])
  /\ UNCHANGED <<store, faults, lease>>

PatchTtl(p) ==
  LET g == loc[p].g IN
  /\ Next1(p, "pt_ttl", "arm_record")
  /\ group' = [group EXCEPT ![g].has = @ \cup {"ttl_seconds"},
                            ![g].ttl = loc[p].ttl]
  /\ UNCHANGED <<byName, recArmed, nameTtl, groupAll, nextGroup, routeVars,
                 counter, spaces, others>>

PatchFlags(p) ==
  /\ Next1(p, "pt_flags", "idle")
  /\ \E fields \in SUBSET {"sliding_ttl", "callout_enabled"} :
       group' = [group EXCEPT ![loc[p].g].has = @ \cup fields]
  /\ UNCHANGED <<byName, recArmed, nameTtl, groupAll, nextGroup, routeVars,
                 counter, spaces, others>>

(* POST .../refresh, refused on a group that never expires                 *)
RefreshGroup(p) ==
  /\ Asked(p, "refresh_group")
  /\ \E g \in GroupId :
       /\ Readable(g) /\ group[g].ttl # 0
       /\ Enter(p, "arm_record", [Locals EXCEPT !.g = g,
            !.nm = group[g].name, !.ttl = group[g].ttl])
  /\ UNCHANGED <<store, faults, lease>>

-----------------------------------------------------------------------------
(* What a dispatch does to the registry once a route matched, whatever has *)
(* become of the route and its group since the replica cached them.  An    *)
(* error is logged, and the dispatch goes on.                              *)

(* The handler may write its kv and gkv buckets; the journal takes the entry. *)
Dispatch(p) ==
  /\ Asked(p, "dispatch")
  /\ \E r \in 1 .. nextRoute :
       LET g == route[r].group IN
       /\ Enter(p, "hit_route", [Locals EXCEPT !.g = g, !.r = r])
       /\ \E w \in SUBSET {<<"kv", r>>, <<"gkv", g>>, <<"journal", g>>} :
            spaces' = spaces \cup Kept(w)
  /\ UNCHANGED <<groupVars, routeVars, counter, faults, lease>>

(* record_route_hit: HSET and HINCRBY on the route                         *)
HitRoute(p) ==
  /\ pc[p] = "hit_route"
  /\ \/ /\ Goto(p, "hit_group")
        /\ route' = [route EXCEPT ![loc[p].r].has = @ \cup {"activity"}]
     \/ Goto(p, "bump") /\ UNCHANGED route
  /\ UNCHANGED <<groupVars, byNumber, inGroup, routeAll, byOwner, nextRoute,
                 counter, spaces, others>>

(* record_route_hit: HSET last_activity_at on the group                    *)
HitGroup(p) ==
  /\ Next1(p, "hit_group", "bump")
  /\ \/ group' = [group EXCEPT ![loc[p].g].has = @ \cup {"last_activity_at"}]
     \/ UNCHANGED group
  /\ UNCHANGED <<byName, recArmed, nameTtl, groupAll, nextGroup, routeVars,
                 counter, spaces, others>>

(* refresh_group_if_sliding: re-arms a sliding group that has a TTL        *)
Bump(p) ==
  LET g == loc[p].g IN
  /\ pc[p] = "bump"
  /\ \/ /\ Readable(g) /\ group[g].ttl # 0
        /\ Enter(p, "arm_record", [loc[p] EXCEPT !.nm = group[g].name,
                                                 !.ttl = group[g].ttl])
     \/ Goto(p, "idle")
  /\ UNCHANGED <<store, others>>

-----------------------------------------------------------------------------
(* rename_group                                                            *)

RenameGroup(p) ==
  /\ Asked(p, "rename_group")
  /\ \E g \in GroupId, n \in Name :
       /\ Readable(g) /\ group[g].name # n
       /\ Enter(p, "rn_check", [Locals EXCEPT !.g = g, !.nm = n,
            !.old = group[g].name, !.ttl = group[g].ttl])
  /\ UNCHANGED <<store, faults, lease>>

(* GET group:by-name of the new name; taken means Conflict                 *)
RenameCheck(p) ==
  /\ pc[p] = "rn_check"
  /\ Goto(p, IF byName[loc[p].nm] = NoId THEN "rn_record" ELSE "idle")
  /\ UNCHANGED <<store, others>>

RenameRecord(p) ==
  /\ Next1(p, "rn_record", "rn_drop")
  /\ group' = [group EXCEPT ![loc[p].g].has = @ \cup {"name"},
                            ![loc[p].g].name = loc[p].nm]
  /\ UNCHANGED <<byName, recArmed, nameTtl, groupAll, nextGroup, routeVars,
                 counter, spaces, others>>

RenameDrop(p) ==
  LET n == loc[p].old IN
  /\ Next1(p, "rn_drop", "rn_set")
  /\ byName' = [byName EXCEPT ![n] = NoId]
  /\ nameTtl' = [nameTtl EXCEPT ![n] = "none"]
  /\ UNCHANGED <<group, recArmed, groupAll, nextGroup, routeVars, counter,
                 spaces, others>>

(* SET group:by-name clears the TTL the key had.  Then only that key is    *)
(* armed, not the record, and the routes are listed.                       *)
RenameSet(p) ==
  LET n == loc[p].nm IN
  /\ pc[p] = "rn_set"
  /\ Enter(p, "arm_name", [loc[p] EXCEPT !.ret = "rn_list"])
  /\ byName' = [byName EXCEPT ![n] = loc[p].g]
  /\ nameTtl' = [nameTtl EXCEPT ![n] = "none"]
  /\ UNCHANGED <<group, recArmed, groupAll, nextGroup, routeVars, counter,
                 spaces, others>>

(* The whole record that was listed is written back.                       *)
SlipRenameRoute(p) ==
  /\ pc[p] = "rn_routes" /\ loc[p].done # {}
  /\ \E r \in loc[p].done :
       /\ Enter(p, "rn_routes", [loc[p] EXCEPT !.done = @ \ {r}])
       /\ route' = [route EXCEPT ![r].has = RouteMandatory,
                                 ![r].gname = loc[p].nm]
  /\ UNCHANGED <<groupVars, byNumber, inGroup, routeAll, byOwner, nextRoute,
                 counter, spaces, others>>

(* The routes keep the old name.                                           *)
SlipRenameNoRoute(p) ==
  /\ Next1(p, "rn_routes", "idle")
  /\ UNCHANGED <<store, others>>

(* HSET group_name on every route that was listed, even one deleted since  *)
RenameRoute(p) ==
  /\ pc[p] = "rn_routes"
  /\ IF loc[p].done = {}
       THEN Goto(p, "idle") /\ UNCHANGED route
       ELSE \E r \in loc[p].done :
              /\ Enter(p, "rn_routes", [loc[p] EXCEPT !.done = @ \ {r}])
              /\ route' = [route EXCEPT ![r].has = @ \cup {"group_name"},
                                        ![r].gname = loc[p].nm]
  /\ UNCHANGED <<groupVars, byNumber, inGroup, routeAll, byOwner, nextRoute,
                 counter, spaces, others>>

-----------------------------------------------------------------------------
(* list_routes_in_group: SMEMBERS, then HGETALL of each id in any order.   *)
(* An id without a readable record fails the whole call.                   *)

After == [cr_list |-> "cr_scan", up_list |-> "up_scan", rn_list |-> "rn_scan"]
Scanned == [cr_scan |-> "cr_number", up_scan |-> "up_write",
            rn_scan |-> "rn_routes"]

ListRoutes(p) ==
  /\ pc[p] \in DOMAIN After
  /\ Enter(p, After[pc[p]], [loc[p] EXCEPT !.todo = inGroup[loc[p].g]])
  /\ UNCHANGED <<store, others>>

(* Edits are not checked.                                                  *)
SlipConflicting(p, r) ==
  pc[p] = "cr_scan" /\ <<loc[p].pat, route[r].pat>> \in Clash

(* scan_pattern_conflict: a route other than the one edited with a         *)
(* conflicting pattern is a Conflict.  A rename only collects the routes.  *)
Conflicting(p, r) ==
  /\ pc[p] # "rn_scan" /\ r # loc[p].r
  /\ <<loc[p].pat, route[r].pat>> \in Clash

ScanRoutes(p) ==
  /\ pc[p] \in DOMAIN Scanned
  /\ IF loc[p].todo = {}
       THEN Goto(p, Scanned[pc[p]])
       ELSE \E r \in loc[p].todo :
              IF ~Intact(r) \/ Conflicting(p, r)
                THEN Goto(p, "idle")
                ELSE Enter(p, pc[p], [loc[p] EXCEPT !.todo = @ \ {r},
                       !.done = IF pc[p] = "rn_scan" THEN @ \cup {r} ELSE @])
  /\ UNCHANGED <<store, others>>

-----------------------------------------------------------------------------
(* create_route                                                            *)

(* The name is left to be filled in, and never is.                         *)
SlipCreateRoute(p) ==
  /\ Asked(p, "create_route") /\ RouteLeft
  /\ \E g \in GroupId, q \in Pattern :
       Readable(g) /\ Enter(p, "cr_list", [Locals EXCEPT !.g = g, !.pat = q])
  /\ UNCHANGED <<store, faults, lease>>

(* Resolve and read the group                                              *)
CreateRoute(p) ==
  /\ Asked(p, "create_route") /\ RouteLeft
  /\ \E g \in GroupId, q \in Pattern :
       /\ Readable(g)
       /\ Enter(p, "cr_list", [Locals EXCEPT !.g = g, !.pat = q,
                                             !.nm = group[g].name])
  /\ UNCHANGED <<store, faults, lease>>

(* The number is worked out from the routes the group has.                 *)
SlipNextNumber(p) ==
  /\ pc[p] = "cr_number"
  /\ Enter(p, "cr_write",
           [loc[p] EXCEPT !.n = Cardinality(inGroup[loc[p].g]) + 1])
  /\ UNCHANGED <<store, others>>

(* HINCRBY next_route_number                                               *)
NextNumber(p) ==
  LET n == counter[loc[p].g] + 1 IN
  /\ pc[p] = "cr_number" /\ n \in Number
  /\ Enter(p, "cr_write", [loc[p] EXCEPT !.n = n])
  /\ counter' = [counter EXCEPT ![loc[p].g] = n]
  /\ UNCHANGED <<groupVars, routeVars, spaces, others>>

(* write_route: the HSETs, then SET route:by-number                        *)
WriteRoute(p) ==
  LET l == loc[p]
      r == nextRoute + 1 IN
  /\ pc[p] = "cr_write" /\ nextRoute < MaxRoutes
  /\ Enter(p, "cr_group", [l EXCEPT !.r = r])
  /\ nextRoute' = r
  /\ route' = [route EXCEPT ![r] =
       [has |-> RouteField \ {"activity"}, group |-> l.g, number |-> l.n,
        gname |-> l.nm, pat |-> l.pat]]
  /\ byNumber' = [byNumber EXCEPT ![l.g][l.n] = r]
  /\ UNCHANGED <<groupVars, inGroup, routeAll, byOwner, counter, spaces,
                 others>>

(* SADD route:in-group, route:all, route:by-owner, in this order           *)
IndexInGroup(p) ==
  /\ Next1(p, "cr_group", "cr_all")
  /\ inGroup' = [inGroup EXCEPT ![loc[p].g] = @ \cup {loc[p].r}]
  /\ UNCHANGED <<groupVars, route, byNumber, routeAll, byOwner, nextRoute,
                 counter, spaces, others>>

(* The SADD is missing.                                                    *)
SlipIndexAll(p) == Next1(p, "cr_all", "cr_owner") /\ UNCHANGED <<store, others>>

IndexAll(p) ==
  /\ Next1(p, "cr_all", "cr_owner")
  /\ routeAll' = routeAll \cup {loc[p].r}
  /\ UNCHANGED <<groupVars, route, byNumber, inGroup, byOwner, nextRoute,
                 counter, spaces, others>>

IndexOwner(p) ==
  /\ Next1(p, "cr_owner", "idle")
  /\ byOwner' = byOwner \cup {loc[p].r}
  /\ UNCHANGED <<groupVars, route, byNumber, inGroup, routeAll, nextRoute,
                 counter, spaces, others>>

-----------------------------------------------------------------------------
(* update_route                                                            *)

(* The route a slug names: the group resolves, the number is indexed and   *)
(* the record reads.  One step: the ids the first two reads return never   *)
(* change, so only the moment of the last one matters.                     *)
Slug(g, n, r) == Resolvable(g) /\ byNumber[g][n] = r /\ r # NoId /\ Intact(r)

(* The pattern checked is the route's with what the patch sets in it; a    *)
(* patch without methods and path goes straight to the artifact.           *)
UpdateRoute(p) ==
  /\ Asked(p, "update_route")
  /\ \E g \in GroupId, n \in Number, r \in RouteId :
       /\ Slug(g, n, r)
       /\ LET l == [Locals EXCEPT !.g = route[r].group, !.r = r] IN
          \/ Enter(p, "up_artifact", l)
          \/ \E q \in Pattern, set \in SUBSET {"methods", "path"} :
               /\ set # {}
               /\ "methods" \notin set => q.methods = route[r].pat.methods
               /\ "path" \notin set => q.path = route[r].pat.path
               /\ Enter(p, "up_list", [l EXCEPT !.pat = q, !.set = set])
  /\ UNCHANGED <<store, faults, lease>>

(* The patch has methods, and their turn has come                          *)
SetsMethods(p) == pc[p] = "up_write" /\ "methods" \in loc[p].set

(* The record's pattern after the HSET of methods, or else of path         *)
Patched(p) ==
  LET old == route[loc[p].r].pat
      new == loc[p].pat IN
  IF SetsMethods(p) THEN [methods |-> new.methods, path |-> old.path]
                    ELSE [methods |-> old.methods, path |-> new.path]

(* HSET methods, then HSET path, where the patch has them                  *)
UpdatePattern(p) ==
  /\ pc[p] \in {"up_write", "up_path"}
  /\ IF SetsMethods(p) /\ "path" \in loc[p].set
       THEN Goto(p, "up_path")
       ELSE Goto(p, "idle") \/ Goto(p, "up_artifact")
  /\ route' = [route EXCEPT ![loc[p].r].has = @ \cup {"pattern"},
                            ![loc[p].r].pat = Patched(p)]
  /\ UNCHANGED <<groupVars, byNumber, inGroup, routeAll, byOwner, nextRoute,
                 counter, spaces, others>>

(* The artifact triple is written; the source is written or cleared.       *)
UpdateArtifact(p) ==
  /\ Next1(p, "up_artifact", "idle")
  /\ \E src \in SUBSET {"source"} :
       route' = [route EXCEPT ![loc[p].r].has =
                   (@ \ {"source"}) \cup {"artifact"} \cup src]
  /\ UNCHANGED <<groupVars, byNumber, inGroup, routeAll, byOwner, nextRoute,
                 counter, spaces, others>>

-----------------------------------------------------------------------------
(* strip_route_indexes of route loc.r, then its kv namespace and record:   *)
(* the body of delete_route and of the loop of cascade_delete_group.       *)

DeleteRoute(p) ==
  /\ Asked(p, "delete_route")
  /\ \E g \in GroupId, n \in Number, r \in RouteId :
       /\ Slug(g, n, r)
       /\ Enter(p, "st_number", [Locals EXCEPT !.g = route[r].group, !.r = r,
                                               !.n = route[r].number])
  /\ UNCHANGED <<store, faults, lease>>

StripNumber(p) ==
  /\ Next1(p, "st_number", "st_group")
  /\ byNumber' = [byNumber EXCEPT ![loc[p].g][loc[p].n] = NoId]
  /\ UNCHANGED <<groupVars, route, inGroup, routeAll, byOwner, nextRoute,
                 counter, spaces, others>>

(* The SREM is missing.                                                    *)
SlipStripInGroup(p) == Next1(p, "st_group", "st_all") /\ UNCHANGED <<store, others>>

StripInGroup(p) ==
  /\ Next1(p, "st_group", "st_all")
  /\ inGroup' = [inGroup EXCEPT ![loc[p].g] = @ \ {loc[p].r}]
  /\ UNCHANGED <<groupVars, route, byNumber, routeAll, byOwner, nextRoute,
                 counter, spaces, others>>

StripAll(p) ==
  /\ Next1(p, "st_all", "st_owner")
  /\ routeAll' = routeAll \ {loc[p].r}
  /\ UNCHANGED <<groupVars, route, byNumber, inGroup, byOwner, nextRoute,
                 counter, spaces, others>>

StripOwner(p) ==
  /\ Next1(p, "st_owner", "st_kv")
  /\ byOwner' = byOwner \ {loc[p].r}
  /\ UNCHANGED <<groupVars, route, byNumber, inGroup, routeAll, nextRoute,
                 counter, spaces, others>>

StripKv(p) ==
  /\ Next1(p, "st_kv", "st_record")
  /\ spaces' = spaces \ {<<"kv", loc[p].r>>}
  /\ UNCHANGED <<groupVars, routeVars, counter, others>>

(* The cascade leaves the source field, and SREMs route:all once more.     *)
StripRecord(p) ==
  LET r == loc[p].r
      cascading == loc[p].cd # "none" IN
  /\ pc[p] = "st_record"
  /\ IF cascading
       THEN Enter(p, "cd_unlist", loc[p])
       ELSE Goto(p, "idle")
  /\ route' = [route EXCEPT ![r].has =
                 IF cascading THEN @ \cap {"source"} ELSE {}]
  /\ UNCHANGED <<groupVars, byNumber, inGroup, routeAll, byOwner, nextRoute,
                 counter, spaces, others>>

-----------------------------------------------------------------------------
(* cascade_delete_group of group loc.g                                     *)

(* DELETE /api/groups/{g} resolves and reads the group first.              *)
DeleteGroup(p) ==
  /\ Asked(p, "delete_group")
  /\ \E g \in GroupId :
       Readable(g) /\ Enter(p, "cd_read", [Locals EXCEPT !.g = g])
  /\ UNCHANGED <<store, faults, lease>>

(* A missing group is an error as well.                                    *)
SlipCascadeRead(p) ==
  LET g == loc[p].g IN
  /\ pc[p] = "cd_read"
  /\ IF Readable(g)
       THEN Enter(p, "cd_list", [loc[p] EXCEPT !.cd = "found",
                                               !.nm = group[g].name])
       ELSE Abort(p)
  /\ UNCHANGED <<store, others>>

(* A missing group is fine, a malformed one is an error.                   *)
CascadeRead(p) ==
  LET g == loc[p].g IN
  /\ pc[p] = "cd_read"
  /\ \/ /\ Readable(g)
        /\ Enter(p, "cd_list", [loc[p] EXCEPT !.cd = "found",
                                              !.nm = group[g].name])
     \/ /\ group[g].has = {}
        /\ Enter(p, "cd_list", [loc[p] EXCEPT !.cd = "gone"])
     \/ /\ ~Readable(g) /\ group[g].has # {}
        /\ Abort(p)
  /\ UNCHANGED <<store, others>>

CascadeList(p) ==
  /\ pc[p] = "cd_list"
  /\ Enter(p, "cd_route", [loc[p] EXCEPT !.todo = inGroup[loc[p].g]])
  /\ UNCHANGED <<store, others>>

(* The indexes of a route whose record does not read are not stripped; an  *)
(* error while reading it is taken for that.                               *)
CascadeRoute(p) ==
  LET strip(r, label) ==
        Enter(p, label, [loc[p] EXCEPT !.r = r, !.n = route[r].number,
                                       !.todo = @ \ {r}]) IN
  /\ pc[p] = "cd_route"
  /\ \/ /\ loc[p].todo = {}
        /\ Goto(p, "cd_members")
        /\ UNCHANGED faults
     \/ \E r \in loc[p].todo :
          /\ strip(r, IF Intact(r) THEN "st_number" ELSE "st_kv")
          /\ UNCHANGED faults
     \/ \E r \in loc[p].todo :
          /\ strip(r, "st_kv")
          /\ faults < MaxFaults /\ faults' = faults + 1
  /\ UNCHANGED <<store, calls, lease>>

CascadeUnlist(p) ==
  /\ Next1(p, "cd_unlist", "cd_route")
  /\ routeAll' = routeAll \ {loc[p].r}
  /\ UNCHANGED <<groupVars, route, byNumber, inGroup, byOwner, nextRoute,
                 counter, spaces, others>>

CascadeMembers(p) ==
  /\ Next1(p, "cd_members", "cd_data")
  /\ inGroup' = [inGroup EXCEPT ![loc[p].g] = {}]
  /\ UNCHANGED <<groupVars, route, byNumber, routeAll, byOwner, nextRoute,
                 counter, spaces, others>>

(* The namespaces are left to the store.                                   *)
SlipCascadeData(p) == Next1(p, "cd_data", "cd_counters") /\ UNCHANGED <<store, others>>

(* The gkv and journal namespaces                                          *)
CascadeData(p) ==
  /\ Next1(p, "cd_data", "cd_counters")
  /\ spaces' = spaces \ ({"gkv", "journal"} \X {loc[p].g})
  /\ UNCHANGED <<groupVars, routeVars, counter, others>>

CascadeCounters(p) ==
  /\ Next1(p, "cd_counters", IF loc[p].cd = "found" THEN "cd_name" ELSE "cd_all")
  /\ counter' = [counter EXCEPT ![loc[p].g] = 0]
  /\ UNCHANGED <<groupVars, routeVars, spaces, others>>

(* DEL the index of the name the group had when it was read                *)
CascadeName(p) ==
  LET n == loc[p].nm IN
  /\ Next1(p, "cd_name", "cd_record")
  /\ byName' = [byName EXCEPT ![n] = NoId]
  /\ nameTtl' = [nameTtl EXCEPT ![n] = "none"]
  /\ UNCHANGED <<group, recArmed, groupAll, nextGroup, routeVars, counter,
                 spaces, others>>

(* HDEL every field but callout_enabled                                    *)
CascadeRecord(p) ==
  LET g == loc[p].g
      rest == group[g].has \cap {"callout_enabled"} IN
  /\ Next1(p, "cd_record", "cd_all")
  /\ group' = [group EXCEPT ![g].has = rest]
  /\ recArmed' = IF rest = {} THEN recArmed \ {g} ELSE recArmed
  /\ UNCHANGED <<byName, nameTtl, groupAll, nextGroup, routeVars, counter,
                 spaces, others>>

CascadeDone(p) ==
  /\ pc[p] = "cd_all"
  /\ Enter(p, loc[p].ret,
           [Locals EXCEPT !.left = loc[p].left, !.fail = loc[p].fail])
  /\ groupAll' = groupAll \ {loc[p].g}
  /\ UNCHANGED <<group, byName, recArmed, nameTtl, nextGroup, routeVars,
                 counter, spaces, others>>

-----------------------------------------------------------------------------
(* set_group_state, clear_group_state, clear_group_journal                 *)

SetState(p) ==
  /\ Asked(p, "set_state")
  /\ \E g \in GroupId : Readable(g) /\ spaces' = spaces \cup Kept({<<"gkv", g>>})
  /\ UNCHANGED <<groupVars, routeVars, counter, pc, loc, faults, lease>>

ClearState(p) ==
  /\ Asked(p, "clear_state")
  /\ \E g \in GroupId :
       /\ Readable(g)
       /\ spaces' = spaces \ ({<<"gkv", g>>} \cup
            {<<"kv", r>> : r \in {q \in RouteId : route[q].group = g}})
  /\ UNCHANGED <<groupVars, routeVars, counter, pc, loc, faults, lease>>

ClearJournal(p) ==
  /\ Asked(p, "clear_journal")
  /\ \E g \in GroupId :
       /\ Readable(g)
       /\ Enter(p, "cj_counters", [Locals EXCEPT !.g = g])
       /\ spaces' = spaces \ {<<"journal", g>>}
  /\ UNCHANGED <<groupVars, routeVars, counter, faults, lease>>

(* DEL group:counters:{g}, which holds the route numbers too               *)
ClearCounters(p) ==
  /\ Next1(p, "cj_counters", "idle")
  /\ counter' = [counter EXCEPT ![loc[p].g] = 0]
  /\ UNCHANGED <<groupVars, routeVars, spaces, others>>

-----------------------------------------------------------------------------
(* The store's own step: a key whose TTL runs out is gone.                 *)

ExpireRecord(g) ==
  /\ g \in recArmed
  /\ group' = [group EXCEPT ![g].has = {}]
  /\ recArmed' = recArmed \ {g}
  /\ UNCHANGED <<byName, nameTtl, groupAll, nextGroup, routeVars, counter,
                 spaces, pc, loc, others>>

(* A by-name key is armed right after its record and for as long, so it    *)
(* runs out later than the record, unless it is "stale": the record was    *)
(* armed (or PERSISTed) again and the key was not yet.  Only where TightTtl *)
(* holds can the time left be that short.                                  *)
ExpireName(n) ==
  /\ \/ TightTtl /\ nameTtl[n] = "stale"
     \/ nameTtl[n] = "armed" /\ byName[n] \notin recArmed
  /\ byName' = [byName EXCEPT ![n] = NoId]
  /\ nameTtl' = [nameTtl EXCEPT ![n] = "none"]
  /\ UNCHANGED <<group, recArmed, groupAll, nextGroup, routeVars, counter,
                 spaces, pc, loc, others>>

(* A storage error ends a call where it is, through the `?` operator; what *)
(* it wrote stays.  A crash of the replica has the same effect.            *)
Fault(p) ==
  /\ pc[p] \notin {"idle", loc[p].fail} /\ faults < MaxFaults
  /\ Abort(p)
  /\ faults' = faults + 1
  /\ UNCHANGED <<store, calls, lease>>

(* The steps of delete_route and of cascade_delete_group after the lookup  *)
Cascade(p) ==
  \/ StripNumber(p) \/ StripInGroup(p) \/ StripAll(p) \/ StripOwner(p)
  \/ StripKv(p) \/ StripRecord(p)
  \/ CascadeRead(p) \/ CascadeList(p) \/ CascadeRoute(p) \/ CascadeUnlist(p)
  \/ CascadeMembers(p) \/ CascadeData(p) \/ CascadeCounters(p)
  \/ CascadeName(p) \/ CascadeRecord(p) \/ CascadeDone(p)

Call(p) ==
  \/ ArmRecord(p) \/ ArmName(p)
  \/ CreateGroup(p) \/ WriteGroup(p) \/ IndexGroup(p)
  \/ PatchGroup(p) \/ PatchTtl(p) \/ PatchFlags(p) \/ RefreshGroup(p)
  \/ Dispatch(p) \/ HitRoute(p) \/ HitGroup(p) \/ Bump(p)
  \/ RenameGroup(p) \/ RenameCheck(p) \/ RenameRecord(p) \/ RenameDrop(p)
  \/ RenameSet(p) \/ RenameRoute(p)
  \/ ListRoutes(p) \/ ScanRoutes(p)
  \/ CreateRoute(p) \/ NextNumber(p) \/ WriteRoute(p)
  \/ IndexInGroup(p) \/ IndexAll(p) \/ IndexOwner(p)
  \/ UpdateRoute(p) \/ UpdatePattern(p) \/ UpdateArtifact(p)
  \/ DeleteRoute(p) \/ DeleteGroup(p) \/ Cascade(p)
  \/ SetState(p) \/ ClearState(p) \/ ClearJournal(p) \/ ClearCounters(p)
  \/ Fault(p)

Expire == (\E g \in GroupId : ExpireRecord(g)) \/ (\E n \in Name : ExpireName(n))

Next == (\E p \in Proc : Call(p)) \/ Expire

Spec == Init /\ [][Next]_vars

-----------------------------------------------------------------------------
(* Properties                                                              *)

(* A field that is present has a value, and the hashes and indexes only    *)
(* hold ids that were handed out.                                          *)
GroupsTyped ==
  /\ group \in [GroupId -> [has : SUBSET GroupField, name : Name \cup {NoName},
                            ttl : {0, 1}]]
  /\ \A g \in GroupId : "name" \in group[g].has => group[g].name \in Name
  /\ byName \in [Name -> GroupId \cup {NoId}]
  /\ recArmed \subseteq GroupId /\ groupAll \subseteq GroupId
  /\ nameTtl \in [Name -> {"none", "armed", "stale"}]
  /\ nextGroup \in 0 .. MaxGroups

RoutesTyped ==
  /\ route \in [RouteId -> [has : SUBSET RouteField, group : GroupId \cup {NoId},
                            number : Number \cup {0}, gname : Name \cup {NoName},
                            pat : Patterns]]
  /\ \A r \in RouteId :
       /\ "group_name" \in route[r].has => route[r].gname \in Name
       /\ r <= nextRoute => route[r].group \in GroupId /\ route[r].pat \in Pattern
       /\ "id" \in route[r].has => r <= nextRoute
  /\ byNumber \in [GroupId -> [Number -> RouteId \cup {NoId}]]
  /\ inGroup \in [GroupId -> SUBSET RouteId]
  /\ routeAll \subseteq RouteId /\ byOwner \subseteq RouteId
  /\ nextRoute \in 0 .. MaxRoutes

CountsTyped ==
  /\ counter \in [GroupId -> Number \cup {0}]
  /\ spaces \subseteq {"kv", "gkv", "journal"} \X (GroupId \cup RouteId)
  /\ calls \in 0 .. MaxCalls /\ faults \in 0 .. MaxFaults

TypeOK == GroupsTyped /\ RoutesTyped /\ CountsTyped

(* A number names one route of its group for as long as the group lives:   *)
(* it is not handed out again, even after the route was deleted.  Two      *)
(* creates that race get different numbers (HINCRBY), and neither a rename *)
(* nor an expiry seen half way gives one back.                             *)
NumbersNeverReissued ==
  \A r, s \in 1 .. nextRoute :
    /\ r # s /\ route[r].group = route[s].group /\ Readable(route[r].group)
    => route[r].number # route[s].number

(* No call is at work on group g.                                          *)
Quiet(g) == \A p \in Proc : pc[p] = "idle" \/ loc[p].g # g

LiveQuiet == {g \in GroupId : Readable(g) /\ Quiet(g)}

(* A route whose record reads is never lost: once the calls on its group   *)
(* are over, its slug, its group and both listings lead to it, however     *)
(* creates, renames, updates and deletes of the group interleaved.         *)
NoLostRoute ==
  \A r \in 1 .. nextRoute :
    LET g == route[r].group IN
    Intact(r) /\ g \in LiveQuiet =>
      /\ byNumber[g][route[r].number] = r
      /\ r \in inGroup[g] \cap routeAll \cap byOwner

(* No index of a live group leads to a route that does not read: one such  *)
(* id makes every listing of the group fail, and with it every create,     *)
(* update and rename in it.                                                *)
NoDanglingIndex ==
  \A g \in LiveQuiet :
    /\ inGroup[g] \subseteq {r \in routeAll : Intact(r) /\ route[r].group = g}
    /\ \A n \in Number : byNumber[g][n] # NoId => byNumber[g][n] \in inGroup[g]

(* No two routes of a group conflict (ADR-0030), after any series of       *)
(* creates, pattern updates and deletes.                                   *)
ConflictFree ==
  \A g \in LiveQuiet : \A r, s \in inGroup[g] :
    r # s => <<route[r].pat, route[s].pat>> \notin Clash

(* The name of a group leads to the group, and every route of the group    *)
(* carries it: the slug and the subdomain are rendered from that copy.     *)
NameTracks ==
  \A g \in LiveQuiet :
    /\ byName[group[g].name] = g
    /\ \A r \in inGroup[g] : route[r].gname = group[g].name

(* A group configured never to expire has no TTL running on either key     *)
(* (ADR-0040), whatever was armed before; one with a TTL has it on both.   *)
TtlAsConfigured ==
  \A g \in LiveQuiet :
    /\ g \in recArmed <=> group[g].ttl # 0
    /\ nameTtl[group[g].name] = IF group[g].ttl = 0 THEN "none" ELSE "armed"

-----------------------------------------------------------------------------
(* The registry implements SlugDirectory: its commands, one by one, open   *)
(* and close groups and publish and withdraw routes as promised there.     *)

Entry(r) == <<r, route[r].group, route[r].number>>

Directory == INSTANCE SlugDirectory WITH
  Group <- GroupId, Route <- RouteId, Number <- Number,
  opened <- 1 .. nextGroup,
  open <- {g \in GroupId : Readable(g)},
  published <- {Entry(r) : r \in 1 .. nextRoute},
  live <- {Entry(r) : r \in {q \in RouteId : Intact(q)}}

ImplementsDirectory == Directory!Spec
=============================================================================
