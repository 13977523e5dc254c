--------------------------- MODULE RegistryProofs ---------------------------
(* Type correctness of the registry, for every number of calls in progress *)
(* and of sweepers, every set of operations and every bound: no            *)
(* interleaving of operations, expiries and storage errors stores a field  *)
(* without a value, or an index entry for an id that was never handed out. *)
EXTENDS Lifecycle, FiniteSetTheorems, TLAPS

(* The local variables that a step at a label relies on: what the calls    *)
(* that lead there have set.                                               *)
CreateLabels == {"cr_list", "cr_scan", "cr_number", "cr_write"}
IndexLabels  == {"cr_group", "cr_all", "cr_owner"}
RenameLabels == {"rn_check", "rn_record", "rn_drop", "rn_set", "rn_list",
                 "rn_scan", "rn_routes"}
ArmLabels    == {"cg_index", "arm_record", "arm_name", "pt_ttl"}
UpdateLabels == {"up_list", "up_scan", "up_write", "up_path", "up_artifact"}
StripLabels  == {"st_number", "st_group", "st_all", "st_owner", "st_kv",
                 "st_record"}
LoopLabels   == {"cd_read", "cd_list", "cd_route", "cd_unlist", "cd_members",
                 "cd_data", "cd_counters", "cd_name", "cd_record", "cd_all"}
SweepLabels  == {"sw_list", "sw_read", "sw_probe", "sw_release"}
NamedLabels  == CreateLabels \cup RenameLabels \cup ArmLabels \cup {"cg_write"}
GroupLabels  == CreateLabels \cup RenameLabels \cup ArmLabels \cup IndexLabels
                \cup UpdateLabels \cup StripLabels \cup LoopLabels
                \cup {"hit_route", "hit_group", "bump", "pt_flags", "cj_counters"}
PatLabels    == CreateLabels \cup (UpdateLabels \ {"up_artifact"})
RouteLabels  == IndexLabels \cup UpdateLabels \cup StripLabels \cup {"hit_route"}
ReturnLabels == ArmLabels \cup {"cg_write"}

LocalRecord ==
  [g : GroupId \cup {NoId}, r : RouteId \cup {NoId}, n : Number \cup {0},
   nm : Name \cup {NoName}, old : Name \cup {NoName},
   pat : Patterns, set : SUBSET {"methods", "path"},
   todo : SUBSET RouteId, done : SUBSET RouteId, ttl : {0, 1},
   left : SUBSET GroupId, cd : {"none", "found", "gone"},
   ret : {"idle", "pt_flags", "cr_list", "rn_list", "sw_probe"},
   fail : {"idle", "sw_release"}]

Prepared(label, l) ==
  /\ label \in NamedLabels => l.nm \in Name
  /\ label \in GroupLabels => l.g \in GroupId
  /\ label \in PatLabels => l.pat \in Pattern
  /\ label \in RouteLabels => l.r \in RouteId
  /\ label \in ReturnLabels /\ l.ret = "cr_list" => l.pat \in Pattern
  /\ label \notin ReturnLabels \cup CreateLabels \cup RenameLabels
       \cup IndexLabels \cup StripLabels \cup LoopLabels \cup SweepLabels
       \cup {"pt_flags"} => l.ret = "idle"
  /\ label \in StripLabels \cup LoopLabels =>
       \/ l.ret = "idle" /\ l.fail = "idle"
       \/ l.ret = "sw_probe" /\ l.fail = "sw_release"
  /\ label \notin StripLabels \cup LoopLabels \cup SweepLabels =>
       l.ret # "sw_probe" /\ l.fail = "idle"
  /\ label \in SweepLabels => l.fail = "sw_release"

CallsTyped ==
  /\ pc = [q \in Proc |-> pc[q]]
  /\ loc \in [Proc -> LocalRecord]
  /\ \A p \in Proc : Prepared(pc[p], loc[p])

IInv == TypeOK /\ CallsTyped

-----------------------------------------------------------------------------
(* Steps of a call                                                         *)

(* The bounds are numbers, and route numbers are an interval.              *)
LEMMA Bounds ==
  /\ MaxGroups \in Nat /\ MaxRoutes \in Nat /\ MaxCalls \in Nat
  /\ MaxFaults \in Nat /\ Number = 1 .. MaxRoutes + MaxFaults
BY BoundsAssumption DEF Number

(* A pattern, or none, is made of a method list or none and a path or none. *)
LEMMA PatternTypes == NoPattern \in Patterns /\ Pattern \subseteq Patterns
BY DEF NoPattern, Patterns, Pattern

(* An idle call has the local variables of no call.                        *)
LEMMA LocalsPrepared == Locals \in LocalRecord /\ Prepared("idle", Locals)
BY PatternTypes
   DEF Locals, LocalRecord, NoId, Prepared, NamedLabels, GroupLabels, PatLabels,
       RouteLabels, ReturnLabels, CreateLabels, IndexLabels, RenameLabels,
       ArmLabels, UpdateLabels, StripLabels, LoopLabels, SweepLabels

(* A call goes on with other local variables.                              *)
LEMMA EnterTyped ==
  ASSUME CallsTyped, NEW p \in Proc, NEW label, NEW l \in LocalRecord,
         Prepared(label, l), Enter(p, label, l)
  PROVE  CallsTyped'
BY DEF CallsTyped, Enter

(* A call goes on with the same ones.                                      *)
LEMMA GotoTyped ==
  ASSUME CallsTyped, NEW p \in Proc, NEW label,
         Prepared(label, loc[p]), Goto(p, label)
  PROVE  CallsTyped'
<1>1. CASE label = "idle"
  BY <1>1, LocalsPrepared DEF CallsTyped, Goto
<1>2. CASE label # "idle"
  BY <1>2 DEF CallsTyped, Goto
<1> QED
  BY <1>1, <1>2

(* A call is over.                                                         *)
LEMMA IdleTyped ==
  ASSUME CallsTyped, NEW p \in Proc, Goto(p, "idle")
  PROVE  CallsTyped'
BY LocalsPrepared DEF CallsTyped, Goto

(* A call that starts is counted.                                          *)
LEMMA AskedTyped ==
  ASSUME CountsTyped, NEW p, NEW op, Asked(p, op),
         UNCHANGED <<counter, spaces, faults>>
  PROVE  CountsTyped'
BY Bounds DEF CountsTyped, Asked

(* What a step leaves alone keeps its type: groups,                        *)
LEMMA GroupsKept == ASSUME GroupsTyped, UNCHANGED groupVars PROVE GroupsTyped'
BY DEF GroupsTyped, groupVars

(* routes,                                                                 *)
LEMMA RoutesKept == ASSUME RoutesTyped, UNCHANGED routeVars PROVE RoutesTyped'
BY DEF RoutesTyped, routeVars

(* counters and bounds,                                                    *)
LEMMA CountsKept ==
  ASSUME CountsTyped, UNCHANGED <<counter, spaces, others>> PROVE CountsTyped'
BY DEF CountsTyped, others

(* and all of the store, when only control moves.                          *)
LEMMA StoreKept ==
  ASSUME IInv, CallsTyped', UNCHANGED <<store, others>> PROVE IInv'
BY GroupsKept, RoutesKept, CountsKept DEF IInv, TypeOK, store

(* A route whose fields are rewritten keeps its type, as long as the ones  *)
(* that are present have a value.                                          *)
LEMMA RouteRewritten ==
  ASSUME RoutesTyped, NEW r \in RouteId,
         NEW rec \in [has : SUBSET RouteField, group : {route[r].group},
                      number : {route[r].number}, gname : Name \cup {NoName},
                      pat : Patterns],
         "id" \in rec.has => "id" \in route[r].has,
         "group_name" \in rec.has => rec.gname \in Name,
         r <= nextRoute => rec.pat \in Pattern,
         route' = [route EXCEPT ![r] = rec],
         UNCHANGED <<byNumber, inGroup, routeAll, byOwner, nextRoute>>
  PROVE  RoutesTyped'
<1>1. route' \in [RouteId -> [has : SUBSET RouteField,
                    group : GroupId \cup {NoId}, number : Number \cup {0},
                    gname : Name \cup {NoName}, pat : Patterns]]
  BY DEF RoutesTyped
<1>2. ASSUME NEW q \in RouteId
      PROVE  /\ "group_name" \in route'[q].has => route'[q].gname \in Name
             /\ q <= nextRoute => route'[q].group \in GroupId /\ route'[q].pat \in Pattern
             /\ "id" \in route'[q].has => q <= nextRoute
  <2>1. CASE q = r
    BY <2>1 DEF RoutesTyped
  <2>2. CASE q # r
    BY <2>2 DEF RoutesTyped
  <2> QED
    BY <2>1, <2>2
<1> QED
  BY <1>1, <1>2 DEF RoutesTyped

(* In particular one whose set of present fields changes, as long as the   *)
(* step adds none of those that must have a value.                         *)
LEMMA RouteFields ==
  ASSUME RoutesTyped, NEW r \in RouteId, NEW has \in SUBSET RouteField,
         has \cap {"id", "group_name"} \subseteq route[r].has,
         route' = [route EXCEPT ![r].has = has],
         UNCHANGED <<byNumber, inGroup, routeAll, byOwner, nextRoute>>
  PROVE  RoutesTyped'
<1> DEFINE rec == [route[r] EXCEPT !.has = has]
<1>1. rec \in [has : SUBSET RouteField, group : {route[r].group},
               number : {route[r].number}, gname : Name \cup {NoName},
               pat : Patterns]
  BY Zenon DEF RoutesTyped
<1>2. /\ "id" \in rec.has => "id" \in route[r].has
      /\ "group_name" \in rec.has => rec.gname \in Name
      /\ r <= nextRoute => rec.pat \in Pattern
      /\ route' = [route EXCEPT ![r] = rec]
  BY DEF RoutesTyped
<1> QED
  BY <1>1, <1>2, RouteRewritten, Zenon

(* The local variables of a call in progress are those of its label.       *)
LEMMA LocTyped ==
  ASSUME CallsTyped, NEW p \in Proc
  PROVE  loc[p] \in LocalRecord /\ Prepared(pc[p], loc[p])
BY DEF CallsTyped

USE DEF NamedLabels, GroupLabels, PatLabels, RouteLabels, ReturnLabels,
        CreateLabels, IndexLabels, RenameLabels, ArmLabels, UpdateLabels,
        StripLabels, LoopLabels, SweepLabels

-----------------------------------------------------------------------------
(* Groups: create_group, patch_group, refresh_group                        *)

(* The EXPIREs.                                                            *)
LEMMA ArmStep ==
  ASSUME IInv, NEW p \in Proc, ArmRecord(p) \/ ArmName(p)
  PROVE  IInv'
<1> USE DEF IInv, TypeOK
<1>1. loc[p] \in LocalRecord /\ Prepared(pc[p], loc[p])
  BY LocTyped
<1>2. CASE ArmRecord(p)
  <2>1. CallsTyped'
    BY <1>1, <1>2, GotoTyped DEF ArmRecord, Next1, Prepared
  <2>2. GroupsTyped'
    BY <1>1, <1>2 DEF GroupsTyped, ArmRecord, Next1, Prepared
  <2> QED
    BY <1>2, <2>1, <2>2, RoutesKept, CountsKept DEF ArmRecord
<1>3. CASE ArmName(p)
  <2>1. CallsTyped'
    BY <1>1, <1>3, GotoTyped DEF ArmName, Return, Prepared, LocalRecord
  <2>2. GroupsTyped'
    BY <1>1, <1>3 DEF GroupsTyped, ArmName, Prepared
  <2> QED
    BY <1>3, <2>1, <2>2, RoutesKept, CountsKept DEF ArmName
<1> QED
  BY <1>2, <1>3

(* create_group: the new id is in range and is indexed under a name.       *)
LEMMA CreateGroupStep ==
  ASSUME IInv, NEW p \in Proc, CreateGroup(p) \/ WriteGroup(p) \/ IndexGroup(p)
  PROVE  IInv'
<1> USE DEF IInv, TypeOK
<1>1. loc[p] \in LocalRecord /\ Prepared(pc[p], loc[p])
  BY LocTyped
<1>2. CASE CreateGroup(p)
  <2> USE DEF CreateGroup
  <2>1. CallsTyped'
    <3>1. PICK n \in Name, t \in Ttls :
            \/ Enter(p, "cg_write", [Locals EXCEPT !.nm = n, !.ttl = t])
            \/ \E q \in Pattern :
                 Enter(p, "cg_write", [Locals EXCEPT !.nm = n, !.ttl = 1,
                                         !.pat = q, !.ret = "cr_list"])
      BY <1>2, Zenon
    <3>2. CASE Enter(p, "cg_write", [Locals EXCEPT !.nm = n, !.ttl = t])
      BY <3>2, EnterTyped, ValuesAssumption, PatternTypes, Zenon
      DEF Locals, LocalRecord, Prepared, NoId
    <3>3. ASSUME NEW q \in Pattern,
                 Enter(p, "cg_write", [Locals EXCEPT !.nm = n, !.ttl = 1,
                                         !.pat = q, !.ret = "cr_list"])
          PROVE  CallsTyped'
      BY <3>3, EnterTyped, PatternTypes, Zenon DEF Locals, LocalRecord, Prepared, NoId
    <3> QED
      BY <3>1, <3>2, <3>3, Zenon
  <2> QED
    BY <1>2, <2>1, GroupsKept, RoutesKept, AskedTyped, Zenon DEF store
<1>3. CASE WriteGroup(p)
  <2>1. CallsTyped'
    <3> DEFINE l == [loc[p] EXCEPT !.g = nextGroup + 1]
    <3>1. nextGroup + 1 \in GroupId
      BY <1>3, Bounds DEF WriteGroup, GroupsTyped, GroupId
    <3>2. l \in LocalRecord /\ Prepared("cg_index", l)
      BY <1>1, <1>3, <3>1 DEF WriteGroup, LocalRecord, Prepared
    <3> QED
      BY <1>3, <3>2, EnterTyped DEF WriteGroup
  <2>2. GroupsTyped'
    BY <1>1, <1>3, Bounds
    DEF GroupsTyped, WriteGroup, Prepared, LocalRecord, GroupId, GroupField
  <2> QED
    BY <1>3, <2>1, <2>2, RoutesKept, CountsKept DEF WriteGroup
<1>4. CASE IndexGroup(p)
  <2>1. CallsTyped'
    BY <1>1, <1>4, GotoTyped DEF IndexGroup, Next1, Prepared
  <2>2. GroupsTyped'
    BY <1>1, <1>4 DEF GroupsTyped, IndexGroup, Next1, Prepared
  <2> QED
    BY <1>4, <2>1, <2>2, RoutesKept, CountsKept DEF IndexGroup
<1> QED
  BY <1>2, <1>3, <1>4

(* patch_group: the name read from the record is a name.                   *)
LEMMA PatchGroupStep ==
  ASSUME IInv, NEW p \in Proc, PatchGroup(p) \/ PatchTtl(p) \/ PatchFlags(p)
  PROVE  IInv'
<1> USE DEF IInv, TypeOK
<1>1. loc[p] \in LocalRecord /\ Prepared(pc[p], loc[p])
  BY LocTyped
<1>2. CASE PatchGroup(p)
  <2> USE DEF PatchGroup
  <2>1. CallsTyped'
    <3>1. PICK g \in GroupId :
            /\ Readable(g)
            /\ LET l == [Locals EXCEPT !.g = g, !.nm = group[g].name] IN
               \/ Enter(p, "pt_flags", l)
               \/ \E t \in Ttls, next \in {"pt_flags", "idle"} :
                    Enter(p, "pt_ttl", [l EXCEPT !.ttl = t, !.ret = next])
      BY <1>2, Zenon
    <3> DEFINE l == [Locals EXCEPT !.g = g, !.nm = group[g].name]
    <3>2. group[g].name \in Name
      BY <3>1, Zenon DEF Readable, GroupMandatory, GroupsTyped
    <3>3. l \in LocalRecord /\ Prepared("pt_flags", l)
      BY <3>2, PatternTypes, Zenon DEF Locals, LocalRecord, Prepared, NoId
    <3>4. ASSUME NEW t \in Ttls, NEW next \in {"pt_flags", "idle"},
                 Enter(p, "pt_ttl", [l EXCEPT !.ttl = t, !.ret = next])
          PROVE  CallsTyped'
      BY <3>2, <3>4, EnterTyped, ValuesAssumption, PatternTypes, Zenon
      DEF Locals, LocalRecord, Prepared, NoId
    <3> QED
      BY <3>1, <3>3, <3>4, EnterTyped, Zenon
  <2> QED
    BY <1>2, <2>1, GroupsKept, RoutesKept, AskedTyped, Zenon DEF store
<1>3. CASE PatchTtl(p)
  <2>1. CallsTyped'
    BY <1>1, <1>3, GotoTyped DEF PatchTtl, Next1, Prepared
  <2>2. GroupsTyped'
    BY <1>1, <1>3
    DEF GroupsTyped, PatchTtl, Next1, Prepared, LocalRecord, GroupField
  <2> QED
    BY <1>3, <2>1, <2>2, RoutesKept, CountsKept DEF PatchTtl
<1>4. CASE PatchFlags(p)
  <2>1. CallsTyped'
    BY <1>4, IdleTyped DEF PatchFlags, Next1
  <2>2. GroupsTyped'
    BY <1>1, <1>4 DEF GroupsTyped, PatchFlags, Next1, Prepared, GroupField
  <2> QED
    BY <1>4, <2>1, <2>2, RoutesKept, CountsKept DEF PatchFlags
<1> QED
  BY <1>2, <1>3, <1>4

(* refresh_group: it arms what it read.                                    *)
LEMMA RefreshGroupStep ==
  ASSUME IInv, NEW p \in Proc, RefreshGroup(p)
  PROVE  IInv'
<1> USE DEF IInv, TypeOK, RefreshGroup
<1>1. CallsTyped'
  <2>1. PICK g \in GroupId :
          /\ Readable(g)
          /\ Enter(p, "arm_record", [Locals EXCEPT !.g = g,
               !.nm = group[g].name, !.ttl = group[g].ttl])
    OBVIOUS
  <2>2. group[g].name \in Name /\ group[g].ttl \in {0, 1}
    BY <2>1 DEF Readable, GroupMandatory, GroupsTyped
  <2> QED
    BY <2>1, <2>2, EnterTyped, PatternTypes, Zenon DEF Locals, LocalRecord, Prepared, NoId
<1> QED
  BY <1>1, GroupsKept, RoutesKept, AskedTyped DEF store

-----------------------------------------------------------------------------
(* What a dispatch does                                                    *)

(* A dispatch starts with a route that was handed out, gone or not.        *)
LEMMA DispatchStep ==
  ASSUME IInv, NEW p \in Proc, Dispatch(p)
  PROVE  IInv'
<1> USE DEF IInv, TypeOK
<1>1. PICK r \in 1 .. nextRoute :
        LET g == route[r].group IN
        /\ Enter(p, "hit_route", [Locals EXCEPT !.g = g, !.r = r])
        /\ \E w \in SUBSET {<<"kv", r>>, <<"gkv", g>>, <<"journal", g>>} :
             spaces' = spaces \cup Kept(w)
  BY Zenon DEF Dispatch
<1>2. r \in RouteId /\ route[r].group \in GroupId
  BY Bounds DEF RoutesTyped, RouteId
<1>3. CallsTyped'
  BY <1>1, <1>2, EnterTyped, PatternTypes, Zenon DEF Locals, LocalRecord, Prepared, NoId
<1>4. spaces' \subseteq {"kv", "gkv", "journal"} \X (GroupId \cup RouteId)
  <2>1. PICK w \in SUBSET {<<"kv", r>>, <<"gkv", route[r].group>>,
                           <<"journal", route[r].group>>} :
          spaces' = spaces \cup Kept(w)
    BY <1>1
  <2>2. w \subseteq {"kv", "gkv", "journal"} \X (GroupId \cup RouteId)
    BY <1>2
  <2> QED
    BY <2>1, <2>2 DEF CountsTyped, Kept
<1>5. /\ Asked(p, "dispatch")
      /\ UNCHANGED <<groupVars, routeVars, counter, faults>>
  BY DEF Dispatch
<1>6. CountsTyped'
  BY <1>4, <1>5, Bounds DEF CountsTyped, Asked
<1> QED
  BY <1>3, <1>5, <1>6, GroupsKept, RoutesKept

(* record_route_hit and the sliding refresh write fields that need no      *)
(* value.                                                                  *)
LEMMA HitStep ==
  ASSUME IInv, NEW p \in Proc, HitRoute(p) \/ HitGroup(p) \/ Bump(p)
  PROVE  IInv'
<1> USE DEF IInv, TypeOK
<1>1. loc[p] \in LocalRecord /\ Prepared(pc[p], loc[p])
  BY LocTyped
<1>2. CASE HitRoute(p)
  <2>1. CallsTyped'
    <3>1. Prepared("hit_group", loc[p]) /\ Prepared("bump", loc[p])
      BY <1>1, <1>2 DEF HitRoute, Prepared
    <3> QED
      BY <1>2, <3>1, GotoTyped DEF HitRoute
  <2>2. RoutesTyped'
    <3> DEFINE r == loc[p].r
    <3>1. r \in RouteId
      BY <1>1, <1>2 DEF HitRoute, Prepared
    <3>2. route[r].has \cup {"activity"} \in SUBSET RouteField
      BY <3>1 DEF RoutesTyped, RouteField
    <3>3. CASE UNCHANGED route
      BY <1>2, <3>3, RoutesKept DEF HitRoute, routeVars
    <3>4. CASE route' = [route EXCEPT ![r].has = @ \cup {"activity"}]
      BY <1>2, <3>1, <3>2, <3>4, RouteFields, Zenon DEF HitRoute
    <3> QED
      BY <1>2, <3>3, <3>4 DEF HitRoute
  <2> QED
    BY <1>2, <2>1, <2>2, GroupsKept, CountsKept DEF HitRoute
<1>3. CASE HitGroup(p)
  <2>1. CallsTyped'
    BY <1>1, <1>3, GotoTyped DEF HitGroup, Next1, Prepared
  <2>2. GroupsTyped'
    BY <1>1, <1>3 DEF GroupsTyped, HitGroup, Next1, Prepared, GroupField
  <2> QED
    BY <1>3, <2>1, <2>2, RoutesKept, CountsKept DEF HitGroup
<1>4. CASE Bump(p)
  <2> DEFINE g == loc[p].g
             l == [loc[p] EXCEPT !.nm = group[g].name, !.ttl = group[g].ttl]
  <2>1. CASE Readable(g) /\ Enter(p, "arm_record", l)
    <3>1. g \in GroupId
      BY <1>1, <1>4 DEF Bump, Prepared
    <3>2. group[g].name \in Name /\ group[g].ttl \in {0, 1}
      BY <2>1, <3>1 DEF Readable, GroupMandatory, GroupsTyped
    <3>3. l \in LocalRecord /\ Prepared("arm_record", l)
      BY <1>1, <1>4, <3>1, <3>2, Zenon DEF Bump, LocalRecord, Prepared
    <3> QED
      BY <1>4, <2>1, <3>3, EnterTyped, StoreKept DEF Bump
  <2>2. CASE Goto(p, "idle")
    BY <1>4, <2>2, IdleTyped, StoreKept DEF Bump
  <2> QED
    BY <1>4, <2>1, <2>2 DEF Bump
<1> QED
  BY <1>2, <1>3, <1>4

-----------------------------------------------------------------------------
(* rename_group                                                            *)

(* rename_group remembers two names.                                       *)
LEMMA RenameStartStep ==
  ASSUME IInv, NEW p \in Proc, RenameGroup(p) \/ RenameCheck(p)
  PROVE  IInv'
<1> USE DEF IInv, TypeOK
<1>1. loc[p] \in LocalRecord /\ Prepared(pc[p], loc[p])
  BY LocTyped
<1>2. CASE RenameGroup(p)
  <2>1. PICK g \in GroupId, n \in Name :
          /\ Readable(g)
          /\ Enter(p, "rn_check", [Locals EXCEPT !.g = g, !.nm = n,
               !.old = group[g].name, !.ttl = group[g].ttl])
    BY <1>2, Zenon DEF RenameGroup
  <2>2. group[g].name \in Name /\ group[g].ttl \in {0, 1}
    BY <2>1 DEF Readable, GroupMandatory, GroupsTyped
  <2>3. CallsTyped'
    BY <2>1, <2>2, EnterTyped, PatternTypes, Zenon DEF Locals, LocalRecord, Prepared, NoId
  <2> QED
    BY <1>2, <2>3, GroupsKept, RoutesKept, AskedTyped, Zenon DEF RenameGroup, store
<1>3. CASE RenameCheck(p)
  <2>1. Prepared("rn_record", loc[p])
    BY <1>1, <1>3 DEF RenameCheck, Prepared
  <2>2. Goto(p, "rn_record") \/ Goto(p, "idle")
    BY <1>3 DEF RenameCheck
  <2>3. CallsTyped'
    BY <2>1, <2>2, GotoTyped, IdleTyped
  <2> QED
    BY <1>3, <2>3, StoreKept DEF RenameCheck
<1> QED
  BY <1>2, <1>3

(* rename_group writes a name, and group_name with a value, even into the  *)
(* record of a route deleted since it was listed.                          *)
LEMMA RenameStep ==
  ASSUME IInv, NEW p \in Proc,
         RenameRecord(p) \/ RenameDrop(p) \/ RenameSet(p) \/ RenameRoute(p)
  PROVE  IInv'
<1> USE DEF IInv, TypeOK
<1>1. loc[p] \in LocalRecord /\ Prepared(pc[p], loc[p])
  BY LocTyped
<1>2. CASE RenameRecord(p)
  <2>1. CallsTyped'
    BY <1>1, <1>2, GotoTyped DEF RenameRecord, Next1, Prepared
  <2>2. GroupsTyped'
    BY <1>1, <1>2 DEF GroupsTyped, RenameRecord, Next1, Prepared, GroupField
  <2> QED
    BY <1>2, <2>1, <2>2, RoutesKept, CountsKept DEF RenameRecord
<1>3. CASE RenameDrop(p)
  <2>1. CallsTyped'
    BY <1>1, <1>3, GotoTyped DEF RenameDrop, Next1, Prepared
  <2>2. GroupsTyped'
    BY <1>3, Zenon DEF GroupsTyped, RenameDrop
  <2> QED
    BY <1>3, <2>1, <2>2, RoutesKept, CountsKept DEF RenameDrop
<1>4. CASE RenameSet(p)
  <2> DEFINE l == [loc[p] EXCEPT !.ret = "rn_list"]
  <2>1. l \in LocalRecord /\ Prepared("arm_name", l)
    BY <1>1, <1>4 DEF RenameSet, LocalRecord, Prepared
  <2>2. CallsTyped'
    BY <1>4, <2>1, EnterTyped DEF RenameSet
  <2>3. GroupsTyped'
    BY <1>1, <1>4 DEF GroupsTyped, RenameSet, Prepared
  <2> QED
    BY <1>4, <2>2, <2>3, RoutesKept, CountsKept DEF RenameSet
<1>5. CASE RenameRoute(p)
  <2>1. CASE Goto(p, "idle") /\ UNCHANGED route
    BY <1>5, <2>1, IdleTyped, GroupsKept, RoutesKept, CountsKept
    DEF RenameRoute, routeVars
  <2>2. ASSUME NEW r \in loc[p].done,
               Enter(p, "rn_routes", [loc[p] EXCEPT !.done = @ \ {r}]),
               route' = [route EXCEPT ![r].has = @ \cup {"group_name"},
                                      ![r].gname = loc[p].nm]
        PROVE  IInv'
    <3>1. [loc[p] EXCEPT !.done = @ \ {r}] \in LocalRecord
      BY <1>1 DEF LocalRecord
    <3>2. Prepared("rn_routes", [loc[p] EXCEPT !.done = @ \ {r}])
      BY <1>1, <1>5 DEF RenameRoute, LocalRecord, Prepared
    <3>3. CallsTyped'
      BY <2>2, <3>1, <3>2, EnterTyped
    <3>4. r \in RouteId /\ loc[p].nm \in Name
      BY <1>1, <1>5 DEF RenameRoute, LocalRecord, Prepared
    <3>5. UNCHANGED <<groupVars, byNumber, inGroup, routeAll, byOwner,
                      nextRoute, counter, spaces, others>>
      BY <1>5 DEF RenameRoute
    <3> DEFINE rec == [route[r] EXCEPT !.has = @ \cup {"group_name"},
                                       !.gname = loc[p].nm]
    <3>6. rec \in [has : SUBSET RouteField, group : {route[r].group},
                   number : {route[r].number}, gname : Name \cup {NoName},
                   pat : Patterns]
      BY <3>4, Zenon DEF RoutesTyped, RouteField
    <3>7. /\ "id" \in rec.has => "id" \in route[r].has
          /\ "group_name" \in rec.has => rec.gname \in Name
          /\ r <= nextRoute => rec.pat \in Pattern
          /\ route' = [route EXCEPT ![r] = rec]
      BY <2>2, <3>4, Zenon DEF RoutesTyped
    <3>8. RoutesTyped'
      BY <3>4, <3>5, <3>6, <3>7, RouteRewritten, Zenon
    <3> QED
      BY <3>3, <3>5, <3>8, GroupsKept, CountsKept
  <2> QED
    BY <1>5, <2>1, <2>2, Zenon DEF RenameRoute
<1> QED
  BY <1>2, <1>3, <1>4, <1>5

-----------------------------------------------------------------------------
(* list_routes_in_group and scan_pattern_conflict                          *)

(* Listing and scanning only collect ids of routes.                        *)
LEMMA ScanStep ==
  ASSUME IInv, NEW p \in Proc, ListRoutes(p) \/ ScanRoutes(p)
  PROVE  IInv'
<1> USE DEF IInv, TypeOK
<1>1. loc[p] \in LocalRecord /\ Prepared(pc[p], loc[p])
  BY LocTyped
<1>2. CASE ListRoutes(p)
  <2> DEFINE l == [loc[p] EXCEPT !.todo = inGroup[loc[p].g]]
  <2>1. pc[p] \in {"cr_list", "up_list", "rn_list"}
    BY <1>2 DEF ListRoutes, After
  <2>2. loc[p].g \in GroupId
    BY <1>1, <2>1 DEF Prepared
  <2>3. l \in LocalRecord
    BY <1>1, <2>2, Zenon DEF LocalRecord, RoutesTyped
  <2>4. Prepared(After[pc[p]], l)
    BY <1>1, <2>1 DEF After, Prepared, LocalRecord
  <2>5. CallsTyped'
    BY <1>2, <2>3, <2>4, EnterTyped DEF ListRoutes
  <2> QED
    BY <1>2, <2>5, StoreKept DEF ListRoutes
<1>3. CASE ScanRoutes(p)
  <2>1. pc[p] \in {"cr_scan", "up_scan", "rn_scan"}
    BY <1>3, Zenon DEF ScanRoutes, Scanned
  <2>2. ASSUME Goto(p, Scanned[pc[p]])
        PROVE  CallsTyped'
    <3>1. Prepared(Scanned[pc[p]], loc[p])
      BY <1>1, <2>1 DEF Scanned, Prepared
    <3> QED
      BY <2>2, <3>1, GotoTyped
  <2>3. ASSUME NEW r \in loc[p].todo,
               Enter(p, pc[p], [loc[p] EXCEPT !.todo = @ \ {r},
                 !.done = IF pc[p] = "rn_scan" THEN @ \cup {r} ELSE @])
        PROVE  CallsTyped'
    <3> DEFINE l == [loc[p] EXCEPT !.todo = @ \ {r},
                       !.done = IF pc[p] = "rn_scan" THEN @ \cup {r} ELSE @]
    <3>1. l \in LocalRecord
      BY <1>1, Zenon DEF LocalRecord
    <3>2. Prepared(pc[p], l)
      BY <1>1 DEF Prepared, LocalRecord
    <3> QED
      BY <2>3, <3>1, <3>2, EnterTyped
  <2>4. CallsTyped'
    BY <1>3, <2>2, <2>3, IdleTyped, Zenon DEF ScanRoutes
  <2> QED
    BY <1>3, <2>4, StoreKept, Zenon DEF ScanRoutes
<1> QED
  BY <1>2, <1>3

-----------------------------------------------------------------------------
(* create_route                                                            *)

(* create_route: a new route has all its fields, in a group in range.      *)
LEMMA CreateRouteStep ==
  ASSUME IInv, NEW p \in Proc, CreateRoute(p) \/ NextNumber(p) \/ WriteRoute(p)
  PROVE  IInv'
<1> USE DEF IInv, TypeOK
<1>1. loc[p] \in LocalRecord /\ Prepared(pc[p], loc[p])
  BY LocTyped
<1>2. CASE CreateRoute(p)
  <2>1. PICK g \in GroupId, q \in Pattern :
          /\ Readable(g)
          /\ Enter(p, "cr_list", [Locals EXCEPT !.g = g, !.pat = q,
                                                !.nm = group[g].name])
    BY <1>2, Zenon DEF CreateRoute
  <2>2. group[g].name \in Name
    BY <2>1 DEF Readable, GroupMandatory, GroupsTyped
  <2>3. CallsTyped'
    BY <2>1, <2>2, EnterTyped, PatternTypes, Zenon DEF Locals, LocalRecord, Prepared, NoId
  <2> QED
    BY <1>2, <2>3, GroupsKept, RoutesKept, AskedTyped, Zenon DEF CreateRoute, store
<1>3. CASE NextNumber(p)
  <2> DEFINE n == counter[loc[p].g] + 1
             l == [loc[p] EXCEPT !.n = n]
  <2>1. /\ n \in Number /\ Enter(p, "cr_write", l)
        /\ counter' = [counter EXCEPT ![loc[p].g] = n]
        /\ UNCHANGED <<groupVars, routeVars, spaces, others>>
    BY <1>3 DEF NextNumber
  <2>2. l \in LocalRecord /\ Prepared("cr_write", l)
    BY <1>1, <1>3, <2>1 DEF NextNumber, LocalRecord, Prepared
  <2>3. CallsTyped'
    BY <2>1, <2>2, EnterTyped
  <2>4. CountsTyped'
    BY <2>1, Zenon DEF CountsTyped, others
  <2> QED
    BY <2>1, <2>3, <2>4, GroupsKept, RoutesKept
<1>4. CASE WriteRoute(p)
  <2> DEFINE r == nextRoute + 1
             l == [loc[p] EXCEPT !.r = r]
  <2>1. r \in RouteId /\ r \in 0 .. MaxRoutes
    BY <1>4, Bounds DEF WriteRoute, RoutesTyped, RouteId
  <2>2. l \in LocalRecord /\ Prepared("cr_group", l)
    BY <1>1, <1>4, <2>1 DEF WriteRoute, LocalRecord, Prepared
  <2>3. CallsTyped'
    BY <1>4, <2>2, EnterTyped DEF WriteRoute
  <2>4. /\ loc[p].g \in GroupId /\ loc[p].nm \in Name /\ loc[p].pat \in Pattern
        /\ loc[p].n \in Number \cup {0}
    BY <1>1, <1>4 DEF WriteRoute, Prepared, LocalRecord
  <2>5. /\ nextRoute' = r
        /\ route' = [route EXCEPT ![r] =
             [has |-> RouteField \ {"activity"}, group |-> loc[p].g,
              number |-> loc[p].n, gname |-> loc[p].nm, pat |-> loc[p].pat]]
        /\ byNumber' = [byNumber EXCEPT ![loc[p].g][loc[p].n] = r]
        /\ UNCHANGED <<groupVars, inGroup, routeAll, byOwner, counter, spaces,
                       others>>
    BY <1>4 DEF WriteRoute
  <2>6. RoutesTyped'
    <3>1. route' \in [RouteId -> [has : SUBSET RouteField,
                        group : GroupId \cup {NoId}, number : Number \cup {0},
                        gname : Name \cup {NoName},
                        pat : Patterns]]
        BY <2>4, <2>5, PatternTypes, Zenon DEF RoutesTyped
    <3>2. ASSUME NEW q \in RouteId
          PROVE  /\ "group_name" \in route'[q].has => route'[q].gname \in Name
                 /\ q <= nextRoute' => /\ route'[q].group \in GroupId
                                       /\ route'[q].pat \in Pattern
                 /\ "id" \in route'[q].has => q <= nextRoute'
      <4>1. CASE q = r
        BY <2>4, <2>5, <4>1, Bounds DEF RoutesTyped, RouteId
      <4>2. CASE q # r
        BY <2>5, <4>2, Bounds DEF RoutesTyped, RouteId
      <4> QED
        BY <4>1, <4>2
    <3>3. byNumber' \in [GroupId -> [Number -> RouteId \cup {NoId}]]
      BY <2>1, <2>4, <2>5, Zenon DEF RoutesTyped
    <3> QED
      BY <2>1, <2>5, <3>1, <3>2, <3>3 DEF RoutesTyped
  <2> QED
    BY <2>3, <2>5, <2>6, GroupsKept, CountsKept
<1> QED
  BY <1>2, <1>3, <1>4

(* The three SADDs of create_route.                                        *)
LEMMA IndexRouteStep ==
  ASSUME IInv, NEW p \in Proc, IndexInGroup(p) \/ IndexAll(p) \/ IndexOwner(p)
  PROVE  IInv'
<1> USE DEF IInv, TypeOK
<1>1. loc[p] \in LocalRecord /\ Prepared(pc[p], loc[p])
  BY LocTyped
<1>2. CASE IndexInGroup(p)
  <2>1. CallsTyped'
    BY <1>1, <1>2, GotoTyped DEF IndexInGroup, Next1, Prepared
  <2>2. RoutesTyped'
    BY <1>1, <1>2 DEF RoutesTyped, IndexInGroup, Next1, Prepared
  <2> QED
    BY <1>2, <2>1, <2>2, GroupsKept, CountsKept DEF IndexInGroup
<1>3. CASE IndexAll(p)
  <2>1. CallsTyped'
    BY <1>1, <1>3, GotoTyped DEF IndexAll, Next1, Prepared
  <2>2. RoutesTyped'
    BY <1>1, <1>3 DEF RoutesTyped, IndexAll, Next1, Prepared
  <2> QED
    BY <1>3, <2>1, <2>2, GroupsKept, CountsKept DEF IndexAll
<1>4. CASE IndexOwner(p)
  <2>1. CallsTyped'
    BY <1>4, IdleTyped DEF IndexOwner, Next1
  <2>2. RoutesTyped'
    BY <1>1, <1>4 DEF RoutesTyped, IndexOwner, Next1, Prepared
  <2> QED
    BY <1>4, <2>1, <2>2, GroupsKept, CountsKept DEF IndexOwner
<1> QED
  BY <1>2, <1>3, <1>4

-----------------------------------------------------------------------------
(* update_route, and the bodies of delete_route and cascade_delete_group   *)

(* The route a slug names was handed out.                                  *)
LEMMA SlugTyped ==
  ASSUME TypeOK, NEW g, NEW n, NEW r \in RouteId, Slug(g, n, r)
  PROVE  route[r].group \in GroupId /\ route[r].number \in Number \cup {0}
BY DEF TypeOK, RoutesTyped, Slug, Intact, RouteMandatory

(* update_route writes pattern and artifact with their values.             *)
LEMMA UpdateRouteStep ==
  ASSUME IInv, NEW p \in Proc,
         UpdateRoute(p) \/ UpdatePattern(p) \/ UpdateArtifact(p)
  PROVE  IInv'
<1> USE DEF IInv, TypeOK
<1>1. loc[p] \in LocalRecord /\ Prepared(pc[p], loc[p])
  BY LocTyped
<1>2. CASE UpdateRoute(p)
  <2>1. PICK g \in GroupId, n \in Number, r \in RouteId :
          /\ Slug(g, n, r)
          /\ LET l == [Locals EXCEPT !.g = route[r].group, !.r = r] IN
             \/ Enter(p, "up_artifact", l)
             \/ \E q \in Pattern, set \in SUBSET {"methods", "path"} :
                   Enter(p, "up_list", [l EXCEPT !.pat = q, !.set = set])
    BY <1>2, Zenon DEF UpdateRoute
  <2> DEFINE l == [Locals EXCEPT !.g = route[r].group, !.r = r]
  <2>2. route[r].group \in GroupId
    BY <2>1, SlugTyped, Zenon
  <2>3. l \in LocalRecord /\ Prepared("up_artifact", l)
    BY <2>2, PatternTypes, Zenon DEF Locals, LocalRecord, Prepared, NoId
  <2>4. ASSUME NEW q \in Pattern, NEW set \in SUBSET {"methods", "path"},
               Enter(p, "up_list", [l EXCEPT !.pat = q, !.set = set])
        PROVE  CallsTyped'
    <3> DEFINE m == [l EXCEPT !.pat = q, !.set = set]
    <3>1. m \in LocalRecord /\ Prepared("up_list", m)
      BY <2>2, PatternTypes, Zenon DEF Locals, LocalRecord, Prepared, NoId, Pattern, Patterns
    <3> QED
      BY <2>4, <3>1, EnterTyped, Zenon
  <2>5. CallsTyped'
    BY <2>1, <2>3, <2>4, EnterTyped, Zenon
  <2> QED
    BY <1>2, <2>5, GroupsKept, RoutesKept, AskedTyped, Zenon DEF UpdateRoute, store
<1>3. CASE UpdatePattern(p)
  <2> DEFINE r == loc[p].r
             q == Patched(p)
  <2>1. /\ r \in RouteId /\ q \in Patterns
        /\ r <= nextRoute => q \in Pattern
    BY <1>1, <1>3 DEF UpdatePattern, Prepared, Patched, RoutesTyped, Pattern, Patterns
  <2>8. route[r] \in [has : SUBSET RouteField, group : {route[r].group},
                       number : {route[r].number}, gname : Name \cup {NoName},
                       pat : Patterns]
    BY <2>1, Zenon DEF RoutesTyped
  <2> HIDE DEF q
  <2> DEFINE rec == [route[r] EXCEPT !.has = @ \cup {"pattern"}, !.pat = q]
  <2>2. Prepared("up_artifact", loc[p]) /\ Prepared("up_path", loc[p])
    BY <1>1, <1>3 DEF UpdatePattern, Prepared
  <2>3. CallsTyped'
    BY <1>3, <2>2, GotoTyped, IdleTyped DEF UpdatePattern
  <2>4. /\ route' = [route EXCEPT ![r].has = @ \cup {"pattern"}, ![r].pat = q]
        /\ UNCHANGED <<byNumber, inGroup, routeAll, byOwner, nextRoute>>
    BY <1>3 DEF UpdatePattern, q
  <2>5. rec \in [has : SUBSET RouteField, group : {route[r].group},
                 number : {route[r].number}, gname : Name \cup {NoName},
                 pat : Patterns]
    BY <2>1, <2>8, Zenon DEF RouteField
  <2>6. /\ "id" \in rec.has => "id" \in route[r].has
        /\ "group_name" \in rec.has => rec.gname \in Name
        /\ r <= nextRoute => rec.pat \in Pattern
        /\ route' = [route EXCEPT ![r] = rec]
    BY <2>1, <2>4, Zenon DEF RoutesTyped
  <2>7. RoutesTyped'
    BY <2>1, <2>4, <2>5, <2>6, RouteRewritten, Zenon
  <2> QED
    BY <1>3, <2>3, <2>7, GroupsKept, CountsKept DEF UpdatePattern
<1>4. CASE UpdateArtifact(p)
  <2> DEFINE r == loc[p].r
  <2>1. r \in RouteId
    BY <1>1, <1>4 DEF UpdateArtifact, Next1, Prepared
  <2>2. PICK src \in SUBSET {"source"} :
          route' = [route EXCEPT ![r].has =
                      (@ \ {"source"}) \cup {"artifact"} \cup src]
    BY <1>4, Zenon DEF UpdateArtifact
  <2> DEFINE has == (route[r].has \ {"source"}) \cup {"artifact"} \cup src
  <2>3. /\ has \in SUBSET RouteField
        /\ has \cap {"id", "group_name"} \subseteq route[r].has
        /\ route' = [route EXCEPT ![r].has = has]
        /\ UNCHANGED <<byNumber, inGroup, routeAll, byOwner, nextRoute>>
    BY <1>4, <2>1, <2>2, Zenon DEF UpdateArtifact, RoutesTyped, RouteField
  <2>4. RoutesTyped'
    BY ONLY <2>1, <2>3, RouteFields, IInv, Zenon DEF IInv, TypeOK
  <2>5. CallsTyped'
    BY <1>4, IdleTyped DEF UpdateArtifact, Next1
  <2> QED
    BY <1>4, <2>4, <2>5, GroupsKept, CountsKept DEF UpdateArtifact
<1> QED
  BY <1>2, <1>3, <1>4

(* The SREMs and DELs of delete_route only take ids away.                  *)
LEMMA StripIndexStep ==
  ASSUME IInv, NEW p \in Proc,
         \/ StripNumber(p) \/ StripInGroup(p) \/ StripAll(p) \/ StripOwner(p)
         \/ StripKv(p)
  PROVE  IInv'
<1> USE DEF IInv, TypeOK
<1>1. loc[p] \in LocalRecord /\ Prepared(pc[p], loc[p])
  BY LocTyped
<1>2. CASE StripNumber(p)
  <2>1. CallsTyped'
    BY <1>1, <1>2, GotoTyped DEF StripNumber, Next1, Prepared
  <2>2. RoutesTyped'
    BY <1>1, <1>2, Zenon DEF RoutesTyped, StripNumber, Next1, Prepared
  <2> QED
    BY <1>2, <2>1, <2>2, GroupsKept, CountsKept DEF StripNumber
<1>3. CASE StripInGroup(p)
  <2>1. CallsTyped'
    BY <1>1, <1>3, GotoTyped DEF StripInGroup, Next1, Prepared
  <2>2. RoutesTyped'
    BY <1>1, <1>3 DEF RoutesTyped, StripInGroup, Next1, Prepared
  <2> QED
    BY <1>3, <2>1, <2>2, GroupsKept, CountsKept DEF StripInGroup
<1>4. CASE StripAll(p)
  <2>1. CallsTyped'
    BY <1>1, <1>4, GotoTyped DEF StripAll, Next1, Prepared
  <2>2. RoutesTyped'
    BY <1>4 DEF RoutesTyped, StripAll
  <2> QED
    BY <1>4, <2>1, <2>2, GroupsKept, CountsKept DEF StripAll
<1>5. CASE StripOwner(p)
  <2>1. CallsTyped'
    BY <1>1, <1>5, GotoTyped DEF StripOwner, Next1, Prepared
  <2>2. RoutesTyped'
    BY <1>5 DEF RoutesTyped, StripOwner
  <2> QED
    BY <1>5, <2>1, <2>2, GroupsKept, CountsKept DEF StripOwner
<1>6. CASE StripKv(p)
  <2>1. CallsTyped'
    BY <1>1, <1>6, GotoTyped DEF StripKv, Next1, Prepared
  <2>2. CountsTyped'
    BY <1>6 DEF CountsTyped, StripKv, others
  <2> QED
    BY <1>6, <2>1, <2>2, GroupsKept, RoutesKept DEF StripKv
<1> QED
  BY <1>2, <1>3, <1>4, <1>5, <1>6

(* A record that is emptied, or emptied but for its source.                *)
LEMMA StripRecordStep ==
  ASSUME IInv, NEW p \in Proc, DeleteRoute(p) \/ StripRecord(p)
  PROVE  IInv'
<1> USE DEF IInv, TypeOK
<1>1. loc[p] \in LocalRecord /\ Prepared(pc[p], loc[p])
  BY LocTyped
<1>2. CASE DeleteRoute(p)
  <2>1. PICK g \in GroupId, n \in Number, r \in RouteId :
          /\ Slug(g, n, r)
          /\ Enter(p, "st_number", [Locals EXCEPT !.g = route[r].group, !.r = r,
                                                  !.n = route[r].number])
    BY <1>2, Zenon DEF DeleteRoute
  <2>2. route[r].group \in GroupId /\ route[r].number \in Number \cup {0}
    BY <2>1, SlugTyped
  <2>3. CallsTyped'
    BY <2>1, <2>2, EnterTyped, PatternTypes, Zenon DEF Locals, LocalRecord, Prepared, NoId
  <2> QED
    BY <1>2, <2>3, GroupsKept, RoutesKept, AskedTyped, Zenon DEF DeleteRoute, store
<1>3. CASE StripRecord(p)
  <2> DEFINE r == loc[p].r
             has == IF loc[p].cd # "none" THEN route[r].has \cap {"source"} ELSE {}
  <2>1. r \in RouteId
    BY <1>1, <1>3 DEF StripRecord, Prepared
  <2>2. Prepared("cd_unlist", loc[p])
    BY <1>1, <1>3 DEF StripRecord, Prepared
  <2>3. CallsTyped'
    BY <1>1, <1>3, <2>2, EnterTyped, IdleTyped DEF StripRecord
  <2>4. has \in SUBSET RouteField /\ route' = [route EXCEPT ![r].has = has]
    BY <1>3, <2>1 DEF StripRecord, RoutesTyped, RouteField
  <2>5. RoutesTyped'
    BY <1>3, <2>1, <2>4, RouteFields, Zenon DEF StripRecord
  <2> QED
    BY <1>3, <2>3, <2>5, GroupsKept, CountsKept DEF StripRecord
<1> QED
  BY <1>2, <1>3

-----------------------------------------------------------------------------
(* cascade_delete_group                                                    *)

(* cascade_delete_group reads the group and lists its routes.              *)
LEMMA CascadeReadStep ==
  ASSUME IInv, NEW p \in Proc,
         DeleteGroup(p) \/ CascadeRead(p) \/ CascadeList(p) \/ CascadeRoute(p)
  PROVE  IInv'
<1> USE DEF IInv, TypeOK
<1>1. loc[p] \in LocalRecord /\ Prepared(pc[p], loc[p])
  BY LocTyped
<1>2. CASE DeleteGroup(p)
  <2>1. PICK g \in GroupId : Enter(p, "cd_read", [Locals EXCEPT !.g = g])
    BY <1>2 DEF DeleteGroup
  <2>2. CallsTyped'
    BY <2>1, EnterTyped, PatternTypes DEF Locals, LocalRecord, Prepared, NoId
  <2> QED
    BY <1>2, <2>2, GroupsKept, RoutesKept, AskedTyped DEF DeleteGroup, store
<1>3. CASE CascadeRead(p)
  <2> DEFINE g == loc[p].g
             found == [loc[p] EXCEPT !.cd = "found", !.nm = group[g].name]
             gone == [loc[p] EXCEPT !.cd = "gone"]
  <2>1. g \in GroupId /\ loc[p].fail \in {"idle", "sw_release"}
    BY <1>1, <1>3 DEF CascadeRead, Prepared, LocalRecord
  <2>2. group[g].name \in Name \cup {NoName}
    BY <2>1 DEF GroupsTyped
  <2>3. found \in LocalRecord /\ gone \in LocalRecord
    <3>1. found \in LocalRecord
      BY <1>1, <2>2, Zenon DEF LocalRecord
    <3>2. gone \in LocalRecord
      BY <1>1, Zenon DEF LocalRecord
    <3> QED
      BY <3>1, <3>2
  <2>4. Prepared("cd_list", found) /\ Prepared("cd_list", gone)
    BY <1>1, <1>3, <2>1 DEF CascadeRead, Prepared, LocalRecord
  <2>5. \/ Enter(p, "cd_list", found) \/ Enter(p, "cd_list", gone)
        \/ Goto(p, "idle") \/ (loc[p].fail = "sw_release" /\ Goto(p, "sw_release"))
    BY <1>3, <2>1 DEF CascadeRead, Abort
  <2>6. loc[p].fail = "sw_release" => Prepared("sw_release", loc[p])
    BY DEF Prepared
  <2>7. CallsTyped'
    BY <2>3, <2>4, <2>5, <2>6, EnterTyped, GotoTyped, IdleTyped
  <2> QED
    BY <1>3, <2>7, StoreKept DEF CascadeRead
<1>4. CASE CascadeList(p)
  <2> DEFINE l == [loc[p] EXCEPT !.todo = inGroup[loc[p].g]]
  <2>1. loc[p].g \in GroupId
    BY <1>1, <1>4 DEF CascadeList, Prepared
  <2>2. l \in LocalRecord /\ Prepared("cd_route", l)
    <3>1. inGroup[loc[p].g] \in SUBSET RouteId
      BY <2>1 DEF RoutesTyped
    <3>2. l \in LocalRecord
      BY <1>1, <3>1, Zenon DEF LocalRecord
    <3>3. \A x \in {"r", "n", "nm", "old", "g", "pat", "ret", "fail"} : l[x] = loc[p][x]
      BY <1>1 DEF LocalRecord
    <3> QED
      BY <1>1, <1>4, <2>1, <3>2, <3>3 DEF CascadeList, Prepared
  <2>3. CallsTyped'
    BY <1>4, <2>2, EnterTyped DEF CascadeList
  <2> QED
    BY <1>4, <2>3, StoreKept DEF CascadeList
<1>5. CASE CascadeRoute(p)
  <2>1. ASSUME Goto(p, "cd_members")
        PROVE  CallsTyped'
    BY <1>1, <1>5, <2>1, GotoTyped, Zenon DEF CascadeRoute, Prepared
  <2>2. ASSUME NEW r \in loc[p].todo, NEW label \in {"st_number", "st_kv"},
               Enter(p, label, [loc[p] EXCEPT !.r = r, !.n = route[r].number,
                                              !.todo = @ \ {r}])
        PROVE  CallsTyped'
    <3> DEFINE l == [loc[p] EXCEPT !.r = r, !.n = route[r].number,
                                   !.todo = @ \ {r}]
    <3>1. r \in RouteId
      BY <1>1 DEF LocalRecord
    <3>2. route[r].number \in Number \cup {0}
      BY <3>1 DEF RoutesTyped
    <3>3. l \in LocalRecord
      BY <1>1, <3>1, <3>2, Zenon DEF LocalRecord
    <3>4. Prepared(label, l)
      BY <1>1, <1>5, <3>1, Zenon DEF CascadeRoute, Prepared, LocalRecord
    <3> QED
      BY <2>2, <3>3, <3>4, EnterTyped
  <2>3. CallsTyped'
    BY <1>5, <2>1, <2>2, Zenon DEF CascadeRoute
  <2>4. faults' = faults \/ (faults < MaxFaults /\ faults' = faults + 1)
    BY <1>5, Zenon DEF CascadeRoute
  <2>5. faults' \in 0 .. MaxFaults
    BY <2>4, Bounds DEF CountsTyped
  <2>6. CountsTyped'
    BY <1>5, <2>5, Zenon DEF CascadeRoute, CountsTyped, store
  <2> QED
    BY <1>5, <2>3, <2>6, GroupsKept, RoutesKept, Zenon DEF CascadeRoute, store
<1> QED
  BY <1>2, <1>3, <1>4, <1>5

(* The loop over the routes of the group.                                  *)
LEMMA CascadeRoutesStep ==
  ASSUME IInv, NEW p \in Proc,
         \/ CascadeUnlist(p) \/ CascadeMembers(p) \/ CascadeData(p)
         \/ CascadeCounters(p)
  PROVE  IInv'
<1> USE DEF IInv, TypeOK
<1>1. loc[p] \in LocalRecord /\ Prepared(pc[p], loc[p])
  BY LocTyped
<1>2. CASE CascadeUnlist(p)
  <2>1. CallsTyped'
    BY <1>1, <1>2, GotoTyped DEF CascadeUnlist, Next1, Prepared
  <2>2. RoutesTyped'
    BY <1>2 DEF RoutesTyped, CascadeUnlist
  <2> QED
    BY <1>2, <2>1, <2>2, GroupsKept, CountsKept DEF CascadeUnlist
<1>3. CASE CascadeMembers(p)
  <2>1. CallsTyped'
    BY <1>1, <1>3, GotoTyped DEF CascadeMembers, Next1, Prepared
  <2>2. RoutesTyped'
    BY <1>3, Zenon DEF RoutesTyped, CascadeMembers
  <2> QED
    BY <1>3, <2>1, <2>2, GroupsKept, CountsKept DEF CascadeMembers
<1>4. CASE CascadeData(p)
  <2>1. CallsTyped'
    BY <1>1, <1>4, GotoTyped DEF CascadeData, Next1, Prepared
  <2>2. CountsTyped'
    BY <1>4 DEF CountsTyped, CascadeData, others
  <2> QED
    BY <1>4, <2>1, <2>2, GroupsKept, RoutesKept DEF CascadeData
<1>5. CASE CascadeCounters(p)
  <2>1. Prepared("cd_name", loc[p]) /\ Prepared("cd_all", loc[p])
    BY <1>1, <1>5 DEF CascadeCounters, Next1, Prepared
  <2>2. CallsTyped'
    BY <1>5, <2>1, GotoTyped DEF CascadeCounters, Next1
  <2>3. CountsTyped'
    BY <1>5, Zenon DEF CountsTyped, CascadeCounters, others
  <2> QED
    BY <1>5, <2>2, <2>3, GroupsKept, RoutesKept DEF CascadeCounters
<1> QED
  BY <1>2, <1>3, <1>4, <1>5

(* The containers, the index and the record of the group.                  *)
LEMMA CascadeGroupStep ==
  ASSUME IInv, NEW p \in Proc,
         CascadeName(p) \/ CascadeRecord(p) \/ CascadeDone(p)
  PROVE  IInv'
<1> USE DEF IInv, TypeOK
<1>1. loc[p] \in LocalRecord /\ Prepared(pc[p], loc[p])
  BY LocTyped
<1>2. CASE CascadeName(p)
  <2>1. CallsTyped'
    BY <1>1, <1>2, GotoTyped DEF CascadeName, Next1, Prepared
  <2>2. GroupsTyped'
    BY <1>2, Zenon DEF GroupsTyped, CascadeName
  <2> QED
    BY <1>2, <2>1, <2>2, RoutesKept, CountsKept DEF CascadeName
<1>3. CASE CascadeRecord(p)
  <2>1. CallsTyped'
    BY <1>1, <1>3, GotoTyped DEF CascadeRecord, Next1, Prepared
  <2>2. PICK g \in GroupId : g = loc[p].g
    BY <1>1, <1>3 DEF CascadeRecord, Next1, Prepared
  <2>3. /\ group' = [group EXCEPT ![g].has = @ \cap {"callout_enabled"}]
        /\ recArmed' \subseteq recArmed
        /\ UNCHANGED <<byName, nameTtl, groupAll, nextGroup>>
    BY <1>3, <2>2 DEF CascadeRecord
  <2>4. GroupsTyped'
    BY <2>3 DEF GroupsTyped
  <2> QED
    BY <1>3, <2>1, <2>4, RoutesKept, CountsKept DEF CascadeRecord
<1>4. CASE CascadeDone(p)
  <2> DEFINE l == [Locals EXCEPT !.left = loc[p].left, !.fail = loc[p].fail]
  <2>1. l \in LocalRecord /\ l.ret = "idle" /\ l.fail = loc[p].fail
    BY <1>1, PatternTypes, Zenon DEF Locals, LocalRecord, NoId
  <2>2. Prepared(loc[p].ret, l)
    BY <1>1, <1>4, <2>1 DEF CascadeDone, Prepared
  <2>3. CallsTyped'
    BY <1>4, <2>1, <2>2, EnterTyped DEF CascadeDone
  <2>4. GroupsTyped'
    BY <1>4 DEF GroupsTyped, CascadeDone
  <2> QED
    BY <1>4, <2>3, <2>4, RoutesKept, CountsKept DEF CascadeDone
<1> QED
  BY <1>2, <1>3, <1>4

-----------------------------------------------------------------------------
(* Handler state and journal; expiry; errors                               *)

(* set_group_state, clear_group_state and clear_group_journal.             *)
LEMMA StateStep ==
  ASSUME IInv, NEW p \in Proc,
         SetState(p) \/ ClearState(p) \/ ClearJournal(p) \/ ClearCounters(p)
  PROVE  IInv'
<1> USE DEF IInv, TypeOK
<1>1. CASE SetState(p) \/ ClearState(p)
  <2>1. PICK op : Asked(p, op) /\ op \in {"set_state", "clear_state"}
    BY <1>1 DEF SetState, ClearState
  <2>2. spaces' \subseteq {"kv", "gkv", "journal"} \X (GroupId \cup RouteId)
    BY <1>1 DEF SetState, ClearState, Kept, CountsTyped
  <2>3. UNCHANGED <<groupVars, routeVars, counter, loc, faults>> /\ pc' = pc
    BY <1>1 DEF SetState, ClearState
  <2>4. CountsTyped'
    BY <2>1, <2>2, <2>3, Bounds DEF CountsTyped, Asked
  <2>5. CallsTyped'
    BY <2>3 DEF CallsTyped, Prepared
  <2> QED
    BY <2>3, <2>4, <2>5, GroupsKept, RoutesKept
<1>2. CASE ClearJournal(p)
  <2>1. PICK g \in GroupId :
          /\ Enter(p, "cj_counters", [Locals EXCEPT !.g = g])
          /\ spaces' = spaces \ {<<"journal", g>>}
    BY <1>2 DEF ClearJournal
  <2>2. CallsTyped'
    BY <2>1, EnterTyped, PatternTypes DEF Locals, LocalRecord, Prepared, NoId
  <2>3. UNCHANGED <<groupVars, routeVars, counter, faults>>
        /\ Asked(p, "clear_journal")
    BY <1>2 DEF ClearJournal
  <2>4. CountsTyped'
    BY <2>1, <2>3, Bounds DEF CountsTyped, Asked
  <2> QED
    BY <2>2, <2>3, <2>4, GroupsKept, RoutesKept
<1>3. CASE ClearCounters(p)
  <2>1. CallsTyped'
    BY <1>3, IdleTyped DEF ClearCounters, Next1
  <2>2. CountsTyped'
    BY <1>3, Zenon DEF CountsTyped, ClearCounters, others
  <2> QED
    BY <1>3, <2>1, <2>2, GroupsKept, RoutesKept DEF ClearCounters
<1> QED
  BY <1>1, <1>2, <1>3

(* A TTL that runs out empties a record or drops an index key.             *)
LEMMA ExpireStep ==
  ASSUME IInv, Expire
  PROVE  IInv'
<1> USE DEF IInv, TypeOK
<1>1. ASSUME NEW g \in GroupId, ExpireRecord(g)
      PROVE  IInv'
  <2>1. GroupsTyped'
    BY <1>1 DEF GroupsTyped, ExpireRecord
  <2>2. CallsTyped'
    BY <1>1 DEF CallsTyped, ExpireRecord, Prepared
  <2> QED
    BY <1>1, <2>1, <2>2, RoutesKept, CountsKept DEF ExpireRecord
<1>2. ASSUME NEW n \in Name, ExpireName(n)
      PROVE  IInv'
  <2>1. GroupsTyped'
    BY <1>2 DEF GroupsTyped, ExpireName
  <2>2. CallsTyped'
    BY <1>2 DEF CallsTyped, ExpireName, Prepared
  <2> QED
    BY <1>2, <2>1, <2>2, RoutesKept, CountsKept DEF ExpireName
<1> QED
  BY <1>1, <1>2 DEF Expire

(* An error leaves the store as it is.                                     *)
LEMMA FaultStep ==
  ASSUME IInv, NEW p \in Proc, Fault(p)
  PROVE  IInv'
<1> USE DEF IInv, TypeOK
<1>1. Goto(p, "idle") \/ (loc[p].fail = "sw_release" /\ Goto(p, "sw_release"))
  BY LocTyped DEF Fault, Abort, LocalRecord
<1>2. CallsTyped'
  <2>1. loc[p].fail = "sw_release" => Prepared("sw_release", loc[p])
    BY DEF Prepared
  <2> QED
    BY <1>1, <2>1, IdleTyped, GotoTyped
<1>3. CountsTyped'
  BY Bounds DEF Fault, CountsTyped, store
<1> QED
  BY <1>2, <1>3, GroupsKept, RoutesKept DEF Fault, store

-----------------------------------------------------------------------------
(* The groups and routes that exist initially are numbered from 1 on.      *)
LEMMA InitTyped == Init => IInv
<1> SUFFICES ASSUME Init PROVE IInv
  OBVIOUS
<1>1. PICK ng \in 0 .. MaxGroups, nr \in 0 .. MaxRoutes :
        /\ SeedName \in [1 .. ng -> Name]
        /\ SeedRoute \in [1 .. nr -> [group : 1 .. ng, pat : Pattern]]
  BY SeedAssumption, Zenon
<1>2. /\ DOMAIN SeedName = 1 .. ng /\ DOMAIN SeedName \subseteq GroupId
      /\ DOMAIN SeedRoute = 1 .. nr /\ DOMAIN SeedRoute \subseteq RouteId
      /\ RouteId \subseteq Number
  BY <1>1, Bounds DEF GroupId, RouteId
<1>3. Cardinality(DOMAIN SeedName) = ng /\ Cardinality(DOMAIN SeedRoute) = nr
  BY <1>1, <1>2, Bounds, FS_Interval
<1>4. ASSUME NEW r \in DOMAIN SeedRoute
      PROVE  /\ SeedRoute[r].group \in DOMAIN SeedName
             /\ SeedName[SeedRoute[r].group] \in Name
             /\ SeedRoute[r].pat \in Pattern
  BY <1>1
<1>5. GroupsTyped
  <2>1. group \in [GroupId -> [has : SUBSET GroupField,
                               name : Name \cup {NoName}, ttl : {0, 1}]]
    BY <1>1, <1>2 DEF Init, NoGroup, GroupField
  <2>2. \A g \in GroupId : "name" \in group[g].has => group[g].name \in Name
    BY <1>1, <1>2 DEF Init, NoGroup, GroupField
  <2>3. byName \in [Name -> GroupId \cup {NoId}]
    BY <1>1, <1>2 DEF Init
  <2>4. /\ recArmed \subseteq GroupId /\ groupAll \subseteq GroupId
        /\ nameTtl \in [Name -> {"none", "armed", "stale"}]
    BY <1>2 DEF Init
  <2>5. nextGroup \in 0 .. MaxGroups
    BY <1>1, <1>3 DEF Init
  <2> QED
    BY <2>1, <2>2, <2>3, <2>4, <2>5 DEF GroupsTyped
<1>6. RoutesTyped
  <2>1. route \in [RouteId -> [has : SUBSET RouteField,
                     group : GroupId \cup {NoId}, number : Number \cup {0},
                     gname : Name \cup {NoName}, pat : Patterns]]
    BY <1>2, <1>4, PatternTypes DEF Init, NoRoute, RouteField, NoId
  <2>2. ASSUME NEW r \in RouteId
        PROVE  /\ "group_name" \in route[r].has => route[r].gname \in Name
               /\ r <= nextRoute => route[r].group \in GroupId /\ route[r].pat \in Pattern
               /\ "id" \in route[r].has => r <= nextRoute
    BY <1>1, <1>2, <1>3, <1>4, Bounds DEF Init, NoRoute, RouteField, RouteId
  <2>3. byNumber \in [GroupId -> [Number -> RouteId \cup {NoId}]]
    BY <1>2 DEF Init
  <2>4. /\ inGroup \in [GroupId -> SUBSET RouteId]
        /\ routeAll \subseteq RouteId /\ byOwner \subseteq RouteId
    BY <1>2 DEF Init
  <2>5. nextRoute \in 0 .. MaxRoutes
    BY <1>1, <1>3 DEF Init
  <2> QED
    BY <2>1, <2>2, <2>3, <2>4, <2>5 DEF RoutesTyped
<1>7. CountsTyped
  <2>1. counter \in [GroupId -> Number \cup {0}]
    BY <1>1, <1>3, Bounds DEF Init
  <2>2. spaces \subseteq {"kv", "gkv", "journal"} \X (GroupId \cup RouteId)
    BY <1>2 DEF Init, Kept
  <2> QED
    BY <2>1, <2>2, Bounds DEF CountsTyped, Init
<1>8. CallsTyped
  BY LocalsPrepared DEF Init, CallsTyped
<1> QED
  BY <1>5, <1>6, <1>7, <1>8 DEF IInv, TypeOK

(* Every step keeps the invariant.                                         *)
LEMMA NextTyped == IInv /\ [Next]_vars => IInv'
<1> SUFFICES ASSUME IInv, [Next]_vars PROVE IInv'
  OBVIOUS
<1>1. ASSUME NEW p \in Proc, Call(p)
      PROVE  IInv'
  BY <1>1, ArmStep, CreateGroupStep, PatchGroupStep, RefreshGroupStep,
     DispatchStep, HitStep, RenameStartStep, RenameStep, ScanStep,
     CreateRouteStep, IndexRouteStep, UpdateRouteStep, StripIndexStep,
     StripRecordStep, CascadeReadStep, CascadeRoutesStep, CascadeGroupStep,
     StateStep, FaultStep
  DEF Call, Cascade
<1>2. CASE UNCHANGED vars
  <2>1. CallsTyped'
    BY <1>2 DEF vars, IInv, CallsTyped, Prepared
  <2> QED
    BY <1>2, <2>1, StoreKept DEF vars
<1> QED
  BY <1>1, <1>2, ExpireStep DEF Next

(* However the calls interleave, expire and fail, a field that is present  *)
(* has a value and the hashes and indexes only hold ids handed out before. *)
THEOREM RegistryTyped == Spec => []TypeOK
<1>1. IInv => TypeOK
  BY DEF IInv
<1> QED
  BY <1>1, InitTyped, NextTyped, PTL DEF Spec

-----------------------------------------------------------------------------
(* The second part is about what holds, for every number of calls in       *)
(* progress and every bound, as long as nobody deletes a group or clears a *)
(* journal (both of those delete the counter of the group):                *)
(*   route numbers are never reissued,                                     *)
(*   the registry implements SlugDirectory, and                            *)
(*   until an error ends a call half way, no route is lost.                *)

NoReset == \A p \in Proc : Ops[p] \cap {"delete_group", "clear_journal"} = {}

(* The labels at which the counter may be reset                            *)
ResetLabels == LoopLabels \cup {"cj_counters"}

NoResetting == \A p \in Proc : pc[p] \notin ResetLabels /\ loc[p].cd = "none"

(* The calls that have a number in hand and have not written their route   *)
Numbered == {p \in Proc : pc[p] = "cr_write"}

(* A number in use, or in hand, was counted.                               *)
Counted ==
  /\ \A r \in 1 .. nextRoute : route[r].number \in 1 .. counter[route[r].group]
  /\ \A p \in Numbered : loc[p].n \in 1 .. counter[loc[p].g]

(* No number of a group is in use or in hand twice.                        *)
Distinct ==
  /\ \A r, s \in 1 .. nextRoute :
       r # s /\ route[r].group = route[s].group
         => route[r].number # route[s].number
  /\ \A p \in Numbered, r \in 1 .. nextRoute :
       route[r].group = loc[p].g => route[r].number # loc[p].n
  /\ \A p, q \in Numbered : p # q /\ loc[p].g = loc[q].g => loc[p].n # loc[q].n

NumberInv == NoResetting /\ Counted /\ Distinct

-----------------------------------------------------------------------------
(* Most steps neither count nor number anything.                           *)

NumbersKept ==
  /\ counter' = counter /\ nextRoute' = nextRoute
  /\ \A r \in 1 .. nextRoute :
       route'[r].group = route[r].group /\ route'[r].number = route[r].number

Elsewhere(p) == \A q \in Proc \ {p} : pc'[q] = pc[q] /\ loc'[q] = loc[q]

MovesOn(p) ==
  /\ Elsewhere(p)
  /\ pc'[p] \notin ResetLabels \cup {"cr_write"} /\ loc'[p].cd = "none"

(* A step of one call that neither counts nor numbers keeps all of it.     *)
LEMMA MovingOnKeeps ==
  ASSUME NumberInv, NEW p \in Proc, NumbersKept, MovesOn(p)
  PROVE  NumberInv'
<1> USE DEF NumberInv, NumbersKept, MovesOn, Elsewhere
<1>1. NoResetting'
  BY DEF NoResetting
<1>2. Numbered' \subseteq Numbered
      /\ \A q \in Numbered' : loc'[q] = loc[q]
  BY DEF Numbered
<1>3. Counted'
  BY <1>2 DEF Counted
<1>4. Distinct'
  BY <1>2 DEF Distinct
<1> QED
  BY <1>1, <1>3, <1>4

(* Such a step passes control to a label from which neither is done right  *)
(* away, with other local variables or the same ones.                      *)
LEMMA EnterKeeps ==
  ASSUME IInv, NumberInv, NumbersKept, NEW p \in Proc, NEW label, NEW l,
         Enter(p, label, l), label \notin ResetLabels \cup {"cr_write"},
         l.cd = "none"
  PROVE  NumberInv'
<1>1. MovesOn(p)
  BY DEF IInv, CallsTyped, Enter, MovesOn, Elsewhere
<1> QED
  BY <1>1, MovingOnKeeps

(* The same, with the local variables it has.                              *)
LEMMA GotoKeeps ==
  ASSUME IInv, NumberInv, NumbersKept, NEW p \in Proc, NEW label,
         Goto(p, label), label \notin ResetLabels \cup {"cr_write"}
  PROVE  NumberInv'
<1>1. loc[p].cd = "none"
  BY DEF NumberInv, NoResetting
<1>2. MovesOn(p)
  <2>1. CASE label = "idle"
    BY <2>1 DEF IInv, CallsTyped, Goto, MovesOn, Elsewhere, Locals
  <2>2. CASE label # "idle"
    BY <1>1, <2>2 DEF IInv, CallsTyped, Goto, MovesOn, Elsewhere
  <2> QED
    BY <2>1, <2>2
<1> QED
  BY <1>2, MovingOnKeeps

USE DEF ResetLabels, LoopLabels, NamedLabels, GroupLabels, PatLabels,
        RouteLabels, ReturnLabels, CreateLabels, IndexLabels, RenameLabels,
        ArmLabels, UpdateLabels, StripLabels

-----------------------------------------------------------------------------
(* The steps that neither count nor number anything, group by group.       *)

(* The routes handed out are among the routes.                             *)
LEMMA NumbersInRange == IInv => 1 .. nextRoute \subseteq RouteId
BY Bounds DEF IInv, TypeOK, RoutesTyped, RouteId

(* The EXPIREs, create_group, patch_group and refresh_group.               *)
LEMMA GroupCallsMoveOn ==
  ASSUME IInv, NumberInv, NEW p \in Proc,
         \/ ArmRecord(p) \/ ArmName(p) \/ CreateGroup(p) \/ WriteGroup(p)
         \/ IndexGroup(p) \/ PatchGroup(p) \/ PatchTtl(p) \/ PatchFlags(p)
         \/ RefreshGroup(p)
  PROVE  NumberInv'
<1>0. loc[p] \in LocalRecord /\ loc[p].cd = "none" /\ CallsTyped
  BY LocTyped DEF IInv, NumberInv, NoResetting
<1>1. NumbersKept
  BY Zenon DEF ArmRecord, ArmName, CreateGroup, WriteGroup, IndexGroup, PatchGroup,
         PatchTtl, PatchFlags, RefreshGroup, NumbersKept, store, routeVars
<1>2. CASE ArmRecord(p) \/ IndexGroup(p) \/ PatchTtl(p) \/ PatchFlags(p)
  <2>1. PICK label \in {"arm_name", "arm_record", "idle"} : Goto(p, label)
    BY <1>2 DEF ArmRecord, IndexGroup, PatchTtl, PatchFlags, Next1
  <2> QED
    BY <1>1, <2>1, GotoKeeps
<1>3. CASE ArmName(p)
  <2>1. loc[p].ret \in {"idle", "pt_flags", "cr_list", "rn_list", "sw_probe"}
    BY <1>0 DEF LocalRecord
  <2> QED
    BY <1>1, <1>3, <2>1, GotoKeeps DEF ArmName, Return
<1>4. CASE CreateGroup(p)
  <2>1. PICK l : Enter(p, "cg_write", l) /\ l.cd = "none"
    <3>1. PICK n \in Name, t \in Ttls :
            \/ Enter(p, "cg_write", [Locals EXCEPT !.nm = n, !.ttl = t])
            \/ \E q \in Pattern :
                 Enter(p, "cg_write", [Locals EXCEPT !.nm = n, !.ttl = 1,
                                         !.pat = q, !.ret = "cr_list"])
      BY <1>4, Zenon DEF CreateGroup
    <3>2. [Locals EXCEPT !.nm = n, !.ttl = t].cd = "none"
      BY DEF Locals
    <3>3. \A q \in Pattern : [Locals EXCEPT !.nm = n, !.ttl = 1, !.pat = q,
                                           !.ret = "cr_list"].cd = "none"
      BY DEF Locals
    <3> QED
      BY <3>1, <3>2, <3>3, Zenon
  <2> QED
    BY <1>1, <2>1, EnterKeeps
<1>6. CASE PatchGroup(p)
  <2>1. PICK g \in GroupId :
          LET l == [Locals EXCEPT !.g = g, !.nm = group[g].name] IN
          \/ Enter(p, "pt_flags", l)
          \/ \E t \in Ttls, next \in {"pt_flags", "idle"} :
               Enter(p, "pt_ttl", [l EXCEPT !.ttl = t, !.ret = next])
    BY <1>6, Zenon DEF PatchGroup
  <2> DEFINE l == [Locals EXCEPT !.g = g, !.nm = group[g].name]
  <2>2. l.cd = "none" /\ \A t, next : [l EXCEPT !.ttl = t, !.ret = next].cd = "none"
    BY DEF Locals
  <2>3. PICK label \in {"pt_flags", "pt_ttl"} :
          \E m : Enter(p, label, m) /\ m.cd = "none"
    BY <2>1, <2>2, Zenon
  <2>4. PICK m : Enter(p, label, m) /\ m.cd = "none"
    BY <2>3
  <2> QED
    BY <1>1, <2>4, EnterKeeps
<1>7. CASE RefreshGroup(p)
  <2>1. PICK g \in GroupId :
          Enter(p, "arm_record", [Locals EXCEPT !.g = g, !.nm = group[g].name,
                                                !.ttl = group[g].ttl])
    BY <1>7, Zenon DEF RefreshGroup
  <2> DEFINE l == [Locals EXCEPT !.g = g, !.nm = group[g].name,
                                 !.ttl = group[g].ttl]
  <2>2. Enter(p, "arm_record", l) /\ l.cd = "none"
    BY <2>1 DEF Locals
  <2> HIDE DEF l
  <2> QED
    BY <1>1, <2>2, EnterKeeps
<1>5. CASE WriteGroup(p)
  <2> DEFINE l == [loc[p] EXCEPT !.g = nextGroup + 1]
  <2>1. Enter(p, "cg_index", l) /\ l.cd = "none"
    BY <1>0, <1>5 DEF WriteGroup, LocalRecord
  <2> QED
    BY <1>1, <2>1, EnterKeeps, Zenon
<1> QED
  BY <1>2, <1>3, <1>4, <1>5, <1>6, <1>7

(* What a dispatch does.                                                   *)
LEMMA DispatchMovesOn ==
  ASSUME IInv, NumberInv, NEW p \in Proc,
         Dispatch(p) \/ HitRoute(p) \/ HitGroup(p) \/ Bump(p)
  PROVE  NumberInv'
<1>0. /\ loc[p] \in LocalRecord /\ loc[p].cd = "none" /\ CallsTyped
      /\ route \in [RouteId -> [has : SUBSET RouteField,
                     group : GroupId \cup {NoId}, number : Number \cup {0},
                     gname : Name \cup {NoName}, pat : Patterns]]
  BY LocTyped DEF IInv, NumberInv, NoResetting, TypeOK, RoutesTyped
<1>1. NumbersKept
  <2>1. CASE HitRoute(p)
    <3>1. CASE UNCHANGED route
      BY <2>1, <3>1 DEF HitRoute, NumbersKept
    <3>2. CASE route' = [route EXCEPT ![loc[p].r].has = @ \cup {"activity"}]
      BY <1>0, <2>1, <3>2, NumbersInRange DEF HitRoute, NumbersKept
    <3> QED
      BY <2>1, <3>1, <3>2 DEF HitRoute
  <2>2. CASE Dispatch(p) \/ HitGroup(p) \/ Bump(p)
    BY <2>2, Zenon DEF Dispatch, HitGroup, Bump, NumbersKept, store, routeVars
  <2> QED
    BY <2>1, <2>2
<1>2. CASE HitRoute(p) \/ HitGroup(p)
  <2>1. Goto(p, "hit_group") \/ Goto(p, "bump")
    BY <1>2 DEF HitRoute, HitGroup, Next1
  <2> QED
    BY <1>1, <2>1, GotoKeeps
<1>3. CASE Dispatch(p)
  <2>1. PICK r \in 1 .. nextRoute :
          Enter(p, "hit_route", [Locals EXCEPT !.g = route[r].group, !.r = r])
    BY <1>3, Zenon DEF Dispatch
  <2> DEFINE l == [Locals EXCEPT !.g = route[r].group, !.r = r]
  <2>2. Enter(p, "hit_route", l) /\ l.cd = "none"
    BY <2>1 DEF Locals
  <2> HIDE DEF l
  <2> QED
    BY <1>1, <2>2, EnterKeeps
<1>4. CASE Bump(p)
  <2> DEFINE g == loc[p].g
             l == [loc[p] EXCEPT !.nm = group[g].name, !.ttl = group[g].ttl]
  <2>1. l.cd = "none"
    BY <1>0 DEF LocalRecord
  <2>2. Goto(p, "idle") \/ Enter(p, "arm_record", l)
    BY <1>4 DEF Bump
  <2> HIDE DEF l
  <2> QED
    BY <1>1, <2>1, <2>2, GotoKeeps, EnterKeeps
<1> QED
  BY <1>2, <1>3, <1>4

(* rename_group, whose last step rewrites the name of a route only.        *)
LEMMA RenameMovesOn ==
  ASSUME IInv, NumberInv, NEW p \in Proc,
         \/ RenameGroup(p) \/ RenameCheck(p) \/ RenameRecord(p)
         \/ RenameDrop(p) \/ RenameSet(p) \/ RenameRoute(p)
  PROVE  NumberInv'
<1>0. loc[p] \in LocalRecord /\ loc[p].cd = "none"
  BY LocTyped DEF IInv, NumberInv, NoResetting
<1>1. NumbersKept
  <2>1. route \in [RouteId -> [has : SUBSET RouteField,
                      group : GroupId \cup {NoId}, number : Number \cup {0},
                      gname : Name \cup {NoName}, pat : Patterns]]
    BY DEF IInv, TypeOK, RoutesTyped
  <2>2. CASE RenameRoute(p)
    <3>1. ASSUME NEW r \in loc[p].done,
                 route' = [route EXCEPT ![r].has = @ \cup {"group_name"},
                                        ![r].gname = loc[p].nm]
          PROVE  \A q \in RouteId : /\ route'[q].group = route[q].group
                                     /\ route'[q].number = route[q].number
      BY <1>0, <2>1, <3>1 DEF LocalRecord
    <3>2. \A q \in RouteId : /\ route'[q].group = route[q].group
                             /\ route'[q].number = route[q].number
      BY <2>2, <3>1, Zenon DEF RenameRoute
    <3> QED
      BY <2>2, <3>2, NumbersInRange DEF RenameRoute, NumbersKept
  <2>3. CASE ~RenameRoute(p)
    BY <2>3, Zenon DEF RenameGroup, RenameCheck, RenameRecord, RenameDrop, RenameSet,
                NumbersKept, store, routeVars
  <2> QED
    BY <2>2, <2>3
<1>2. CASE RenameGroup(p)
  <2>1. PICK g \in GroupId, n \in Name :
          Enter(p, "rn_check", [Locals EXCEPT !.g = g, !.nm = n,
            !.old = group[g].name, !.ttl = group[g].ttl])
    BY <1>2, Zenon DEF RenameGroup
  <2> DEFINE l == [Locals EXCEPT !.g = g, !.nm = n, !.old = group[g].name,
                                 !.ttl = group[g].ttl]
  <2>2. Enter(p, "rn_check", l) /\ l.cd = "none"
    BY <2>1 DEF Locals
  <2> HIDE DEF l
  <2> QED
    BY <1>1, <2>2, EnterKeeps
<1>3. CASE RenameCheck(p) \/ RenameRecord(p) \/ RenameDrop(p)
  <2>1. \/ Goto(p, "rn_record") \/ Goto(p, "rn_drop") \/ Goto(p, "rn_set")
        \/ Goto(p, "idle")
    BY <1>3 DEF RenameCheck, RenameRecord, RenameDrop, Next1
  <2> QED
    BY <1>1, <2>1, GotoKeeps
<1>4. CASE RenameSet(p)
  <2> DEFINE l == [loc[p] EXCEPT !.ret = "rn_list"]
  <2>1. Enter(p, "arm_name", l) /\ l.cd = "none"
    BY <1>0, <1>4 DEF RenameSet, LocalRecord
  <2> HIDE DEF l
  <2> QED
    BY <1>1, <2>1, EnterKeeps
<1>5. CASE RenameRoute(p)
  <2>1. CASE Goto(p, "idle")
    BY <1>1, <2>1, GotoKeeps
  <2>2. CASE ~Goto(p, "idle")
    <3>1. PICK r : Enter(p, "rn_routes", [loc[p] EXCEPT !.done = @ \ {r}])
      BY <1>5, <2>2, Zenon DEF RenameRoute
    <3> DEFINE l == [loc[p] EXCEPT !.done = @ \ {r}]
    <3>2. Enter(p, "rn_routes", l) /\ l.cd = "none"
      BY <1>0, <3>1 DEF LocalRecord
    <3> HIDE DEF l
    <3> QED
      BY <1>1, <3>2, EnterKeeps
  <2> QED
    BY <2>1, <2>2
<1> QED
  BY <1>2, <1>3, <1>4, <1>5

(* list_routes_in_group and scan_pattern_conflict.                         *)
LEMMA ScanMovesOn ==
  ASSUME IInv, NumberInv, NEW p \in Proc, ListRoutes(p) \/ ScanRoutes(p)
  PROVE  NumberInv'
<1>0. loc[p] \in LocalRecord /\ loc[p].cd = "none"
  BY LocTyped DEF IInv, NumberInv, NoResetting
<1>1. NumbersKept
  BY Zenon DEF ListRoutes, ScanRoutes, NumbersKept, store, routeVars
<1>2. CASE ListRoutes(p)
  <2> DEFINE l == [loc[p] EXCEPT !.todo = inGroup[loc[p].g]]
  <2>1. pc[p] \in {"cr_list", "up_list", "rn_list"} /\ Enter(p, After[pc[p]], l)
    BY <1>2 DEF ListRoutes, After
  <2>2. After[pc[p]] \in {"cr_scan", "up_scan", "rn_scan"}
    BY <2>1 DEF After
  <2>3. l.cd = "none"
    BY <1>0 DEF LocalRecord
  <2> HIDE DEF l
  <2> QED
    BY <1>1, <2>1, <2>2, <2>3, EnterKeeps
<1>3. CASE ScanRoutes(p)
  <2>0. pc[p] \in {"cr_scan", "up_scan", "rn_scan"}
    BY <1>3, Zenon DEF ScanRoutes, Scanned
  <2>1. Scanned[pc[p]] \in {"cr_number", "up_write", "rn_routes"}
    BY <2>0 DEF Scanned
  <2>2. CASE Goto(p, Scanned[pc[p]]) \/ Goto(p, "idle")
    BY <1>1, <2>1, <2>2, GotoKeeps
  <2>3. ASSUME NEW r,
               Enter(p, pc[p], [loc[p] EXCEPT !.todo = @ \ {r},
                 !.done = IF pc[p] = "rn_scan" THEN @ \cup {r} ELSE @])
        PROVE  NumberInv'
    <3> DEFINE l == [loc[p] EXCEPT !.todo = @ \ {r},
                       !.done = IF pc[p] = "rn_scan" THEN @ \cup {r} ELSE @]
    <3>1. Enter(p, pc[p], l) /\ l.cd = "none"
      BY <1>0, <2>3 DEF LocalRecord
    <3> HIDE DEF l
    <3> QED
      BY <1>1, <2>0, <3>1, EnterKeeps
  <2> QED
    BY <1>3, <2>2, <2>3, Zenon DEF ScanRoutes
<1> QED
  BY <1>2, <1>3

(* The SADDs and SREMs of create_route and delete_route, and a record that *)
(* is emptied or rewritten: none moves a route to another number.          *)
LEMMA RouteCallsMoveOn ==
  ASSUME IInv, NumberInv, NEW p \in Proc,
         \/ CreateRoute(p) \/ IndexInGroup(p) \/ IndexAll(p) \/ IndexOwner(p)
         \/ UpdateRoute(p) \/ UpdatePattern(p) \/ UpdateArtifact(p)
         \/ DeleteRoute(p) \/ StripNumber(p) \/ StripInGroup(p)
         \/ StripAll(p) \/ StripOwner(p) \/ StripKv(p) \/ StripRecord(p)
  PROVE  NumberInv'
<1>0. /\ loc[p] \in LocalRecord /\ loc[p].cd = "none"
      /\ Prepared(pc[p], loc[p])
  BY LocTyped DEF IInv, NumberInv, NoResetting
<1>1. NumbersKept
  <2>1. route \in [RouteId -> [has : SUBSET RouteField,
                      group : GroupId \cup {NoId}, number : Number \cup {0},
                      gname : Name \cup {NoName}, pat : Patterns]]
    BY DEF IInv, TypeOK, RoutesTyped
  <2>2. CASE UpdatePattern(p)
    BY <2>1, <2>2, NumbersInRange DEF UpdatePattern, NumbersKept
  <2>3. CASE UpdateArtifact(p)
    BY <2>1, <2>3, NumbersInRange DEF UpdateArtifact, NumbersKept
  <2>4. CASE StripRecord(p)
    BY <2>1, <2>4, NumbersInRange DEF StripRecord, NumbersKept
  <2>5. CASE ~(UpdatePattern(p) \/ UpdateArtifact(p) \/ StripRecord(p))
    BY <2>5, Zenon
    DEF CreateRoute, IndexInGroup, IndexAll, IndexOwner, UpdateRoute,
        DeleteRoute, StripNumber, StripInGroup, StripAll, StripOwner, StripKv,
        NumbersKept, store, routeVars
  <2> QED
    BY <2>2, <2>3, <2>4, <2>5
<1>2. CASE \/ IndexInGroup(p) \/ IndexAll(p) \/ IndexOwner(p)
           \/ UpdatePattern(p) \/ UpdateArtifact(p)
  <2>1. \/ Goto(p, "cr_all") \/ Goto(p, "cr_owner") \/ Goto(p, "idle")
        \/ Goto(p, "up_path") \/ Goto(p, "up_artifact")
    BY <1>2 DEF IndexInGroup, IndexAll, IndexOwner, UpdatePattern,
                UpdateArtifact, Next1
  <2> QED
    BY <1>1, <2>1, GotoKeeps
<1>3. CASE \/ StripNumber(p) \/ StripInGroup(p) \/ StripAll(p) \/ StripOwner(p)
           \/ StripKv(p) \/ StripRecord(p)
  <2>1. \/ Goto(p, "st_group") \/ Goto(p, "st_all") \/ Goto(p, "st_owner")
        \/ Goto(p, "st_kv") \/ Goto(p, "st_record") \/ Goto(p, "idle")
    BY <1>0, <1>3 DEF StripNumber, StripInGroup, StripAll, StripOwner, StripKv,
                      StripRecord, Next1
  <2> QED
    BY <1>1, <2>1, GotoKeeps
<1>4. CASE CreateRoute(p)
  <2>1. PICK g \in GroupId, q \in Pattern :
          Enter(p, "cr_list", [Locals EXCEPT !.g = g, !.pat = q,
                                             !.nm = group[g].name])
    BY <1>4, Zenon DEF CreateRoute
  <2> DEFINE l == [Locals EXCEPT !.g = g, !.pat = q, !.nm = group[g].name]
  <2>2. Enter(p, "cr_list", l) /\ l.cd = "none"
    BY <2>1 DEF Locals
  <2> HIDE DEF l
  <2> QED
    BY <1>1, <2>2, EnterKeeps
<1>5. CASE UpdateRoute(p)
  <2>1. PICK r \in RouteId :
          LET l == [Locals EXCEPT !.g = route[r].group, !.r = r] IN
          \/ Enter(p, "up_artifact", l)
          \/ \E q \in Pattern, set \in SUBSET {"methods", "path"} :
                Enter(p, "up_list", [l EXCEPT !.pat = q, !.set = set])
    BY <1>5, Zenon DEF UpdateRoute
  <2> DEFINE l == [Locals EXCEPT !.g = route[r].group, !.r = r]
  <2>2. l.cd = "none" /\ \A q, set : [l EXCEPT !.pat = q, !.set = set].cd = "none"
    BY DEF Locals
  <2>3. PICK label \in {"up_artifact", "up_list"} :
          \E m : Enter(p, label, m) /\ m.cd = "none"
    BY <2>1, <2>2, Zenon
  <2>4. PICK m : Enter(p, label, m) /\ m.cd = "none"
    BY <2>3
  <2> QED
    BY <1>1, <2>4, EnterKeeps
<1>6. CASE DeleteRoute(p)
  <2>1. PICK r \in RouteId :
          Enter(p, "st_number", [Locals EXCEPT !.g = route[r].group, !.r = r,
                                               !.n = route[r].number])
    BY <1>6, Zenon DEF DeleteRoute
  <2> DEFINE l == [Locals EXCEPT !.g = route[r].group, !.r = r,
                                 !.n = route[r].number]
  <2>2. Enter(p, "st_number", l) /\ l.cd = "none"
    BY <2>1 DEF Locals
  <2> HIDE DEF l
  <2> QED
    BY <1>1, <2>2, EnterKeeps
<1> QED
  BY <1>2, <1>3, <1>4, <1>5, <1>6

(* A step that changes neither control nor numbers.                        *)
LEMMA StandingKeeps ==
  ASSUME NumberInv, NumbersKept, UNCHANGED <<pc, loc>>
  PROVE  NumberInv'
<1>1. NoResetting'
  BY DEF NumberInv, NoResetting
<1>2. Counted'
  BY DEF NumberInv, NumbersKept, Counted, Numbered
<1>3. Distinct'
  BY DEF NumberInv, NumbersKept, Distinct, Numbered
<1> QED
  BY <1>1, <1>2, <1>3 DEF NumberInv

(* set_group_state, clear_group_state, expiry and errors.                  *)
LEMMA OthersKeep ==
  ASSUME IInv, NumberInv,
         \/ Expire
         \/ \E p \in Proc : SetState(p) \/ ClearState(p) \/ Fault(p)
  PROVE  NumberInv'
<1>1. CASE Expire \/ \E p \in Proc : SetState(p) \/ ClearState(p)
  <2>1. UNCHANGED <<routeVars, counter, pc, loc>>
    <3>1. CASE Expire
      BY <3>1 DEF Expire, ExpireRecord, ExpireName
    <3>2. CASE \E p \in Proc : SetState(p) \/ ClearState(p)
      BY <3>2 DEF SetState, ClearState
    <3> QED
      BY <1>1, <3>1, <3>2
  <2> QED
    BY <2>1, StandingKeeps DEF NumbersKept, routeVars
<1>2. ASSUME NEW p \in Proc, Fault(p)
      PROVE  NumberInv'
  <2>1. PICK label \in {"idle", "sw_release"} : Goto(p, label)
    BY <1>2, LocTyped DEF IInv, Fault, Abort, LocalRecord
  <2>2. NumbersKept
    BY <1>2 DEF Fault, NumbersKept, store, routeVars
  <2> QED
    BY <2>1, <2>2, GotoKeeps
<1> QED
  BY <1>1, <1>2

-----------------------------------------------------------------------------
(* The two steps that do.                                                  *)

(* HINCRBY hands out a number above every other of the group.              *)
LEMMA NextNumberKeeps ==
  ASSUME IInv, NumberInv, NEW p \in Proc, NextNumber(p)
  PROVE  NumberInv'
<1> DEFINE g == loc[p].g
           n == counter[g] + 1
           l == [loc[p] EXCEPT !.n = n]
<1>1. /\ pc[p] = "cr_number" /\ n \in Number
      /\ Enter(p, "cr_write", l)
      /\ counter' = [counter EXCEPT ![g] = n]
      /\ UNCHANGED <<route, nextRoute>>
  BY DEF NextNumber, routeVars
<1>2. /\ loc[p] \in LocalRecord /\ loc[p].cd = "none" /\ g \in GroupId
  BY <1>1, LocTyped DEF IInv, NumberInv, NoResetting, Prepared
<1>3. /\ l.n = n /\ l.g = g /\ l.cd = "none"
  BY <1>2 DEF LocalRecord
<1>4. /\ pc'[p] = "cr_write" /\ loc'[p] = l
      /\ \A q \in Proc \ {p} : pc'[q] = pc[q] /\ loc'[q] = loc[q]
  BY <1>1 DEF IInv, CallsTyped, Enter
<1>5. /\ counter \in [GroupId -> Nat] /\ counter'[g] = counter[g] + 1
      /\ \A h \in GroupId \ {g} : counter'[h] = counter[h]
  BY <1>1, <1>2, Bounds DEF IInv, TypeOK, CountsTyped
<1>6. /\ \A r \in 1 .. nextRoute : route[r].group \in GroupId
      /\ \A q \in Numbered : loc[q].g \in GroupId
  <2>1. \A r \in 1 .. nextRoute : route[r].group \in GroupId
    BY Bounds, NumbersInRange DEF IInv, TypeOK, RoutesTyped
  <2>2. ASSUME NEW q \in Numbered
        PROVE  loc[q].g \in GroupId
    <3>1. q \in Proc /\ pc[q] = "cr_write"
      BY DEF Numbered
    <3>2. Prepared("cr_write", loc[q])
      BY <3>1, LocTyped DEF IInv
    <3> QED
      BY <3>2 DEF Prepared
  <2> QED
    BY <2>1, <2>2
<1> HIDE DEF l
<1>7. NoResetting'
  BY <1>3, <1>4 DEF NumberInv, NoResetting
<1>8. Counted'
  <2>1. \A r \in 1 .. nextRoute : route[r].number \in 1 .. counter'[route[r].group]
    BY <1>2, <1>5, <1>6 DEF NumberInv, Counted
  <2>2. \A q \in Numbered' : loc'[q].n \in 1 .. counter'[loc'[q].g]
    BY <1>2, <1>3, <1>4, <1>5, <1>6 DEF NumberInv, Counted, Numbered
  <2> QED
    BY <1>1, <2>1, <2>2 DEF Counted
<1>9. Distinct'
  <2>1. \A q \in Numbered', r \in 1 .. nextRoute :
          route[r].group = loc'[q].g => route[r].number # loc'[q].n
    BY <1>2, <1>3, <1>4, <1>5 DEF NumberInv, Counted, Distinct, Numbered
  <2>2. \A q, s \in Numbered' :
          q # s /\ loc'[q].g = loc'[s].g => loc'[q].n # loc'[s].n
    BY <1>2, <1>3, <1>4, <1>5 DEF NumberInv, Counted, Distinct, Numbered
  <2> QED
    BY <1>1, <2>1, <2>2 DEF NumberInv, Distinct
<1> QED
  BY <1>7, <1>8, <1>9 DEF NumberInv

(* A new record takes the number its call has in hand.                     *)
LEMMA WriteRouteKeeps ==
  ASSUME IInv, NumberInv, NEW p \in Proc, WriteRoute(p)
  PROVE  NumberInv'
<1> DEFINE r == nextRoute + 1
           l == [loc[p] EXCEPT !.r = r]
<1>1. /\ pc[p] = "cr_write" /\ nextRoute' = r /\ Enter(p, "cr_group", l)
      /\ route' = [route EXCEPT ![r] =
           [has |-> RouteField \ {"activity"}, group |-> loc[p].g,
            number |-> loc[p].n, gname |-> loc[p].nm, pat |-> loc[p].pat]]
      /\ UNCHANGED counter
  BY DEF WriteRoute
<1>2. loc[p] \in LocalRecord /\ loc[p].cd = "none" /\ p \in Numbered
  BY <1>1, LocTyped DEF IInv, NumberInv, NoResetting, Numbered
<1>3. l.cd = "none"
  BY <1>2 DEF LocalRecord
<1>4. /\ pc'[p] = "cr_group" /\ loc'[p] = l
      /\ \A q \in Proc \ {p} : pc'[q] = pc[q] /\ loc'[q] = loc[q]
  BY <1>1 DEF IInv, CallsTyped, Enter
<1>5. nextRoute \in Nat /\ r \in RouteId /\ 1 .. nextRoute' = (1 .. nextRoute) \cup {r}
  BY <1>1, Bounds DEF IInv, TypeOK, RoutesTyped, RouteId, WriteRoute
<1>6. /\ route'[r].group = loc[p].g /\ route'[r].number = loc[p].n
      /\ \A s \in 1 .. nextRoute : route'[s] = route[s]
  BY <1>1, <1>5, NumbersInRange DEF IInv, TypeOK, RoutesTyped
<1> HIDE DEF l
<1>7. /\ Numbered' \subseteq Numbered \ {p}
      /\ \A q \in Numbered' : loc'[q] = loc[q]
  BY <1>4 DEF Numbered
<1>8. NoResetting'
  BY <1>3, <1>4 DEF NumberInv, NoResetting
<1>9. Counted'
  BY <1>1, <1>2, <1>5, <1>6, <1>7 DEF NumberInv, Counted
<1>10. Distinct'
  <2>1. \A s, t \in 1 .. nextRoute' :
          s # t /\ route'[s].group = route'[t].group
            => route'[s].number # route'[t].number
    BY <1>2, <1>5, <1>6 DEF NumberInv, Distinct
  <2>2. \A q \in Numbered', s \in 1 .. nextRoute' :
          route'[s].group = loc'[q].g => route'[s].number # loc'[q].n
    BY <1>2, <1>5, <1>6, <1>7 DEF NumberInv, Distinct
  <2>3. \A q, s \in Numbered' :
          q # s /\ loc'[q].g = loc'[s].g => loc'[q].n # loc'[s].n
    BY <1>7 DEF NumberInv, Distinct
  <2> QED
    BY <2>1, <2>2, <2>3 DEF Distinct
<1> QED
  BY <1>8, <1>9, <1>10 DEF NumberInv

(* The routes that exist initially are numbered one by one.                *)
LEMMA InitNumbered == Init => NumberInv
<1> SUFFICES ASSUME Init PROVE NumberInv
  OBVIOUS
<1>1. PICK ng \in 0 .. MaxGroups, nr \in 0 .. MaxRoutes :
        /\ SeedName \in [1 .. ng -> Name]
        /\ SeedRoute \in [1 .. nr -> [group : 1 .. ng, pat : Pattern]]
  BY SeedAssumption, Zenon
<1>2. /\ DOMAIN SeedName = 1 .. ng /\ 1 .. ng \subseteq GroupId
      /\ DOMAIN SeedRoute = 1 .. nr /\ 1 .. nr \subseteq RouteId
  BY <1>1, Bounds DEF GroupId, RouteId
<1>3. nextRoute = nr /\ \A g \in 1 .. ng : counter[g] = nr
  BY <1>1, <1>2, Bounds, FS_Interval DEF Init
<1>4. \A r \in 1 .. nr : route[r].group \in 1 .. ng /\ route[r].number = r
  BY <1>1, <1>2 DEF Init
<1>5. NoResetting /\ Numbered = {}
  BY DEF Init, NoResetting, Numbered, Locals
<1> QED
  BY <1>3, <1>4, <1>5 DEF NumberInv, Counted, Distinct

(* Without a group deletion or a journal clearing no other step is left.   *)
LEMMA NextNumbered ==
  ASSUME NoReset
  PROVE  IInv /\ NumberInv /\ [Next]_vars => NumberInv'
<1> SUFFICES ASSUME IInv, NumberInv, [Next]_vars PROVE NumberInv'
  OBVIOUS
<1>1. ASSUME NEW p \in Proc, Call(p)
      PROVE  NumberInv'
  <2>1. /\ ~DeleteGroup(p) /\ ~ClearJournal(p)
    BY DEF NoReset, DeleteGroup, ClearJournal, Asked
  <2>2. pc[p] \notin ResetLabels
    BY DEF NumberInv, NoResetting
  <2>3. /\ ~ClearCounters(p) /\ ~CascadeRead(p) /\ ~CascadeList(p)
        /\ ~CascadeRoute(p) /\ ~CascadeUnlist(p) /\ ~CascadeMembers(p)
        /\ ~CascadeData(p) /\ ~CascadeCounters(p) /\ ~CascadeName(p)
        /\ ~CascadeRecord(p) /\ ~CascadeDone(p)
    BY <2>2, Zenon
    DEF ClearCounters, CascadeRead, CascadeList, CascadeRoute, CascadeUnlist,
        CascadeMembers, CascadeData, CascadeCounters, CascadeName,
        CascadeRecord, CascadeDone, Next1
  <2> QED
    BY <1>1, <2>1, <2>3, GroupCallsMoveOn, DispatchMovesOn, RenameMovesOn,
       ScanMovesOn, RouteCallsMoveOn, OthersKeep, NextNumberKeeps,
       WriteRouteKeeps
    DEF Call, Cascade
<1>2. CASE Expire
  BY <1>2, OthersKeep
<1>3. CASE UNCHANGED vars
  BY <1>3, StandingKeeps DEF vars, store, routeVars, NumbersKept
<1> QED
  BY <1>1, <1>2, <1>3 DEF Next

(* As long as nothing deletes the counter of a group, its numbers are      *)
(* never reissued: not by creates that race, not after a delete, not after *)
(* an error between taking a number and using it.                          *)
THEOREM NumbersStayUnique ==
  ASSUME NoReset
  PROVE  Spec => []NumbersNeverReissued
<1>1. NumberInv => NumbersNeverReissued
  BY DEF NumberInv, Distinct, NumbersNeverReissued
<1>2. Init => IInv /\ NumberInv
  BY InitTyped, InitNumbered
<1>3. IInv /\ NumberInv /\ [Next]_vars => IInv' /\ NumberInv'
  BY NextTyped, NextNumbered
<1> QED
  BY <1>1, <1>2, <1>3, PTL DEF Spec
-----------------------------------------------------------------------------
(* The registry implements its directory, as long as nothing deletes a     *)
(* counter.                                                                *)

(* A record with an id is whole and under an id that was handed out, and   *)
(* no route or call has a group that was not.                              *)
GroupsWhole ==
  \A g \in GroupId : "id" \in group[g].has => Readable(g) /\ g \in 1 .. nextGroup
RoutesWhole == \A r \in RouteId : "id" \in route[r].has => Intact(r)
GroupsOpened ==
  /\ \A r \in 1 .. nextRoute : route[r].group \in 1 .. nextGroup
  /\ \A p \in Proc : loc[p].g \in 0 .. nextGroup

Known == GroupsWhole /\ RoutesWhole /\ GroupsOpened

(* A step that opens and closes no group, and publishes and withdraws no   *)
(* route.                                                                  *)
Steady ==
  /\ nextGroup' = nextGroup /\ nextRoute' = nextRoute
  /\ \A g \in GroupId : /\ "id" \in group'[g].has <=> "id" \in group[g].has
                        /\ group[g].has \cap GroupMandatory \subseteq group'[g].has
  /\ \A r \in RouteId : /\ "id" \in route'[r].has <=> "id" \in route[r].has
                        /\ route[r].has \cap RouteMandatory \subseteq route'[r].has
                        /\ route'[r].group = route[r].group /\ route'[r].number = route[r].number

(* No call works for a group that was not opened.                          *)
Directed == \A q \in Proc : loc'[q].g \in 0 .. nextGroup

(* Reading a record is reading its id.                                     *)
LEMMA ReadsById ==
  ASSUME Known
  PROVE  /\ \A g \in GroupId : Readable(g) <=> "id" \in group[g].has
         /\ \A r \in RouteId : Intact(r) <=> "id" \in route[r].has
BY DEF Known, GroupsWhole, RoutesWhole, Readable, Intact, GroupMandatory, RouteMandatory

LEMMA SteadyKeeps ==
  ASSUME IInv, Known, Steady, Directed
  PROVE  Known' /\ UNCHANGED Directory!vars
<1>1. \A g \in GroupId : Readable(g)' <=> Readable(g)
  BY ReadsById DEF Steady, Readable, GroupMandatory
<1>2. \A r \in RouteId : Intact(r)' <=> Intact(r)
  BY ReadsById DEF Steady, Intact, RouteMandatory
<1>3. GroupsWhole' /\ RoutesWhole'
  BY <1>1, <1>2 DEF Known, GroupsWhole, RoutesWhole, Steady
<1>4. GroupsOpened'
  BY NumbersInRange DEF Known, GroupsOpened, Steady, Directed
<1>5. \A r \in RouteId : Entry(r)' = Entry(r)
  BY DEF Entry, Steady
<1>6. 1 .. nextRoute \subseteq RouteId
  BY NumbersInRange
<1>7. {g \in GroupId : Readable(g)}' = {g \in GroupId : Readable(g)}
  BY <1>1
<1>8. {Entry(r) : r \in 1 .. nextRoute}' = {Entry(r) : r \in 1 .. nextRoute}
  BY <1>5, <1>6 DEF Steady
<1>9. {Entry(r) : r \in {q \in RouteId : Intact(q)}}'
        = {Entry(r) : r \in {q \in RouteId : Intact(q)}}
  BY <1>2, <1>5
<1>10. (1 .. nextGroup)' = 1 .. nextGroup
  BY DEF Steady
<1> QED
  BY <1>3, <1>4, <1>7, <1>8, <1>9, <1>10, Zenon DEF Known, Directory!vars

LEMMA DirectedTo ==
  ASSUME IInv, Known, NEW p \in Proc, NEW label, NEW l, Enter(p, label, l), l.g \in 0 .. nextGroup
  PROVE  Directed
BY DEF IInv, CallsTyped, Known, GroupsOpened, Enter, Directed

LEMMA DirectedOn ==
  ASSUME IInv, Known, NEW p \in Proc, NEW label, Goto(p, label)
  PROVE  Directed
<1>1. Locals.g \in 0 .. nextGroup
  BY Bounds DEF Locals, NoId, IInv, TypeOK, GroupsTyped
<1> QED
  BY <1>1 DEF IInv, CallsTyped, Known, GroupsOpened, Goto, Directed

(* A step that writes no record.                                           *)
LEMMA RecordsLeft ==
  ASSUME UNCHANGED <<group, route, nextGroup, nextRoute>>
  PROVE  Steady
BY DEF Steady

(* A step that adds fields to the record of a group, but no id, or to the  *)
(* record of a route.                                                      *)
LEMMA GroupTouched ==
  ASSUME IInv, NEW g \in GroupId, NEW rec, group' = [group EXCEPT ![g] = rec],
         "id" \in rec.has <=> "id" \in group[g].has, group[g].has \subseteq rec.has,
         UNCHANGED <<route, nextGroup, nextRoute>>
  PROVE  Steady
<1>1. \A h \in GroupId : h # g => group'[h] = group[h]
  BY DEF IInv, TypeOK, GroupsTyped
<1>2. group'[g] = rec
  BY DEF IInv, TypeOK, GroupsTyped
<1> QED
  BY <1>1, <1>2 DEF Steady

LEMMA RouteTouched ==
  ASSUME IInv, NEW r \in RouteId, NEW rec, route' = [route EXCEPT ![r] = rec],
         "id" \in rec.has <=> "id" \in route[r].has,
         route[r].has \cap RouteMandatory \subseteq rec.has,
         rec.group = route[r].group, rec.number = route[r].number,
         UNCHANGED <<group, nextGroup, nextRoute>>
  PROVE  Steady
<1>1. \A s \in RouteId : s # r => route'[s] = route[s]
  BY DEF IInv, TypeOK, RoutesTyped
<1>2. route'[r] = rec
  BY DEF IInv, TypeOK, RoutesTyped
<1> QED
  BY <1>1, <1>2 DEF Steady

(* The groups and routes that a call can name are known.                   *)
LEMMA NamesKnown ==
  ASSUME IInv, Known
  PROVE  /\ \A g \in GroupId : Readable(g) => g \in 0 .. nextGroup
         /\ \A r \in 1 .. nextRoute : route[r].group \in 0 .. nextGroup
         /\ \A r \in RouteId : Intact(r) => r \in 1 .. nextRoute
         /\ \A p \in Proc : loc[p].g \in 0 .. nextGroup
<1>1. \A r \in RouteId : Intact(r) => r \in 1 .. nextRoute
  BY ReadsById, Bounds DEF IInv, TypeOK, RoutesTyped, RouteId
<1>2. nextGroup \in Nat
  BY Bounds DEF IInv, TypeOK, GroupsTyped
<1> QED
  BY <1>1, <1>2, ReadsById DEF Known, GroupsWhole, GroupsOpened

(* The EXPIREs, create_group, patch_group and refresh_group.               *)
LEMMA GroupCallsSteady ==
  ASSUME IInv, Known, NEW p \in Proc,
         \/ ArmRecord(p) \/ ArmName(p) \/ CreateGroup(p) \/ IndexGroup(p)
         \/ PatchGroup(p) \/ PatchTtl(p) \/ PatchFlags(p) \/ RefreshGroup(p)
  PROVE  Steady /\ Directed
<1>1. CASE ArmRecord(p) \/ ArmName(p) \/ IndexGroup(p)
  <2>1. UNCHANGED <<group, route, nextGroup, nextRoute>> /\ \E label : Goto(p, label)
    BY <1>1 DEF ArmRecord, ArmName, IndexGroup, Next1, Return, routeVars
  <2> QED
    BY <2>1, RecordsLeft, DirectedOn
<1>2. CASE CreateGroup(p)
  <2>1. UNCHANGED <<group, route, nextGroup, nextRoute>>
    BY <1>2, Zenon DEF CreateGroup, store, groupVars, routeVars
  <2>2. PICK n \in Name, t \in Ttls :
          \/ Enter(p, "cg_write", [Locals EXCEPT !.nm = n, !.ttl = t])
          \/ \E q \in Pattern :
               Enter(p, "cg_write", [Locals EXCEPT !.nm = n, !.ttl = 1,
                                       !.pat = q, !.ret = "cr_list"])
    BY <1>2, Zenon DEF CreateGroup
  <2>3. /\ [Locals EXCEPT !.nm = n, !.ttl = t].g = 0
        /\ \A q \in Pattern : [Locals EXCEPT !.nm = n, !.ttl = 1, !.pat = q,
                                             !.ret = "cr_list"].g = 0
    BY DEF Locals, NoId
  <2>4. 0 \in 0 .. nextGroup
    BY Bounds DEF IInv, TypeOK, GroupsTyped
  <2>5. ASSUME Enter(p, "cg_write", [Locals EXCEPT !.nm = n, !.ttl = t])
        PROVE  Directed
    BY <2>3, <2>4, <2>5, DirectedTo, Zenon
  <2>6. ASSUME NEW q \in Pattern,
               Enter(p, "cg_write", [Locals EXCEPT !.nm = n, !.ttl = 1,
                                       !.pat = q, !.ret = "cr_list"])
        PROVE  Directed
    BY <2>3, <2>4, <2>6, DirectedTo, Zenon
  <2> QED
    BY <2>1, <2>2, <2>5, <2>6, RecordsLeft, Zenon
<1>3. CASE PatchGroup(p)
  <2>1. UNCHANGED <<group, route, nextGroup, nextRoute>>
    BY <1>3, Zenon DEF PatchGroup, store, groupVars, routeVars
  <2>2. PICK g \in GroupId :
          /\ Readable(g)
          /\ LET l == [Locals EXCEPT !.g = g, !.nm = group[g].name] IN
             \/ Enter(p, "pt_flags", l)
             \/ \E t \in Ttls, next \in {"pt_flags", "idle"} :
                  Enter(p, "pt_ttl", [l EXCEPT !.ttl = t, !.ret = next])
    BY <1>3, Zenon DEF PatchGroup
  <2> DEFINE l == [Locals EXCEPT !.g = g, !.nm = group[g].name]
  <2>3. l.g = g /\ \A t, next : [l EXCEPT !.ttl = t, !.ret = next].g = g
    BY DEF Locals
  <2>4. g \in 0 .. nextGroup
    BY <2>2, NamesKnown, Zenon
  <2>5. ASSUME Enter(p, "pt_flags", l) PROVE Directed
    BY <2>3, <2>4, <2>5, DirectedTo, Zenon
  <2>6. ASSUME NEW t \in Ttls, NEW next \in {"pt_flags", "idle"},
               Enter(p, "pt_ttl", [l EXCEPT !.ttl = t, !.ret = next])
        PROVE  Directed
    BY <2>3, <2>4, <2>6, DirectedTo, Zenon
  <2> QED
    BY <2>1, <2>2, <2>5, <2>6, RecordsLeft, Zenon
<1>4. CASE RefreshGroup(p)
  <2>1. UNCHANGED <<group, route, nextGroup, nextRoute>>
    BY <1>4, Zenon DEF RefreshGroup, store, groupVars, routeVars
  <2>2. PICK g \in GroupId :
          /\ Readable(g)
          /\ Enter(p, "arm_record", [Locals EXCEPT !.g = g, !.nm = group[g].name,
                                                   !.ttl = group[g].ttl])
    BY <1>4, Zenon DEF RefreshGroup
  <2> DEFINE l == [Locals EXCEPT !.g = g, !.nm = group[g].name, !.ttl = group[g].ttl]
  <2>3. l.g = g /\ g \in 0 .. nextGroup
    BY <2>2, NamesKnown DEF Locals
  <2> HIDE DEF l
  <2> QED
    BY <2>1, <2>2, <2>3, RecordsLeft, DirectedTo, Zenon DEF l
<1>5. CASE PatchTtl(p)
  <2> DEFINE g == loc[p].g
             rec == [group[g] EXCEPT !.has = @ \cup {"ttl_seconds"}, !.ttl = loc[p].ttl]
  <2>1. g \in GroupId /\ Goto(p, "arm_record")
    BY <1>5, LocTyped DEF PatchTtl, Next1, IInv, Prepared
  <2>2. group' = [group EXCEPT ![g] = rec] /\ UNCHANGED <<route, nextGroup, nextRoute>>
    BY <1>5, <2>1, Zenon DEF PatchTtl, routeVars, IInv, TypeOK, GroupsTyped
  <2>3. rec.has = group[g].has \cup {"ttl_seconds"}
    BY <2>1 DEF IInv, TypeOK, GroupsTyped
  <2> HIDE DEF g, rec
  <2> QED
    BY <2>1, <2>2, <2>3, GroupTouched, DirectedOn, Zenon
<1>6. CASE PatchFlags(p)
  <2> DEFINE g == loc[p].g
  <2>1. g \in GroupId /\ Goto(p, "idle")
    BY <1>6, LocTyped DEF PatchFlags, Next1, IInv, Prepared
  <2>2. PICK fields \in SUBSET {"sliding_ttl", "callout_enabled"} :
          group' = [group EXCEPT ![g].has = @ \cup fields]
    BY <1>6, Zenon DEF PatchFlags
  <2> DEFINE rec == [group[g] EXCEPT !.has = @ \cup fields]
  <2>3. group' = [group EXCEPT ![g] = rec] /\ UNCHANGED <<route, nextGroup, nextRoute>>
    BY <1>6, <2>1, <2>2, Zenon DEF PatchFlags, routeVars, IInv, TypeOK, GroupsTyped
  <2>4. rec.has = group[g].has \cup fields
    BY <2>1 DEF IInv, TypeOK, GroupsTyped
  <2> HIDE DEF g, rec
  <2> QED
    BY <2>1, <2>3, <2>4, GroupTouched, DirectedOn, Zenon
<1> QED
  BY <1>1, <1>2, <1>3, <1>4, <1>5, <1>6

(* What a dispatch does.                                                   *)
LEMMA DispatchSteady ==
  ASSUME IInv, Known, NEW p \in Proc,
         Dispatch(p) \/ HitRoute(p) \/ HitGroup(p) \/ Bump(p)
  PROVE  Steady /\ Directed
<1>1. CASE Dispatch(p)
  <2>1. UNCHANGED <<group, route, nextGroup, nextRoute>>
    BY <1>1, Zenon DEF Dispatch, groupVars, routeVars
  <2>2. PICK r \in 1 .. nextRoute :
          Enter(p, "hit_route", [Locals EXCEPT !.g = route[r].group, !.r = r])
    BY <1>1, Zenon DEF Dispatch
  <2> DEFINE l == [Locals EXCEPT !.g = route[r].group, !.r = r]
  <2>3. l.g = route[r].group /\ l.g \in 0 .. nextGroup
    BY NamesKnown DEF Locals
  <2> HIDE DEF l
  <2> QED
    BY <2>1, <2>2, <2>3, RecordsLeft, DirectedTo, Zenon DEF l
<1>2. CASE HitRoute(p)
  <2> DEFINE r == loc[p].r
             rec == [route[r] EXCEPT !.has = @ \cup {"activity"}]
  <2>1. r \in RouteId /\ (Goto(p, "hit_group") \/ Goto(p, "bump"))
    BY <1>2, LocTyped DEF HitRoute, IInv, Prepared
  <2>2. /\ UNCHANGED <<group, nextGroup, nextRoute>>
        /\ (UNCHANGED route \/ route' = [route EXCEPT ![r] = rec])
    BY <1>2, <2>1 DEF HitRoute, groupVars, IInv, TypeOK, RoutesTyped
  <2>3. /\ rec.has = route[r].has \cup {"activity"}
        /\ rec.group = route[r].group /\ rec.number = route[r].number
    BY <2>1 DEF IInv, TypeOK, RoutesTyped
  <2> HIDE DEF r, rec
  <2> QED
    BY <2>1, <2>2, <2>3, RouteTouched, RecordsLeft, DirectedOn
<1>3. CASE HitGroup(p)
  <2> DEFINE g == loc[p].g
             rec == [group[g] EXCEPT !.has = @ \cup {"last_activity_at"}]
  <2>1. g \in GroupId /\ Goto(p, "bump")
    BY <1>3, LocTyped DEF HitGroup, Next1, IInv, Prepared
  <2>2. /\ UNCHANGED <<route, nextGroup, nextRoute>>
        /\ (UNCHANGED group \/ group' = [group EXCEPT ![g] = rec])
    BY <1>3, <2>1 DEF HitGroup, routeVars, IInv, TypeOK, GroupsTyped
  <2>3. rec.has = group[g].has \cup {"last_activity_at"}
    BY <2>1 DEF IInv, TypeOK, GroupsTyped
  <2> HIDE DEF g, rec
  <2> QED
    BY <2>1, <2>2, <2>3, GroupTouched, RecordsLeft, DirectedOn
<1>4. CASE Bump(p)
  <2> DEFINE g == loc[p].g
             l == [loc[p] EXCEPT !.nm = group[g].name, !.ttl = group[g].ttl]
  <2>1. UNCHANGED <<group, route, nextGroup, nextRoute>>
    BY <1>4 DEF Bump, store, groupVars, routeVars
  <2>2. Goto(p, "idle") \/ Enter(p, "arm_record", l)
    BY <1>4 DEF Bump
  <2>3. l.g = g /\ g \in 0 .. nextGroup
    BY LocTyped, NamesKnown DEF IInv, LocalRecord
  <2> HIDE DEF l
  <2> QED
    BY <2>1, <2>2, <2>3, RecordsLeft, DirectedOn, DirectedTo
<1> QED
  BY <1>1, <1>2, <1>3, <1>4

(* rename_group.                                                           *)
LEMMA RenameSteady ==
  ASSUME IInv, Known, NEW p \in Proc,
         \/ RenameGroup(p) \/ RenameCheck(p) \/ RenameRecord(p)
         \/ RenameDrop(p) \/ RenameSet(p) \/ RenameRoute(p)
  PROVE  Steady /\ Directed
<1>0. loc[p] \in LocalRecord /\ loc[p].g \in 0 .. nextGroup /\ Prepared(pc[p], loc[p])
  BY LocTyped, NamesKnown DEF IInv
<1>1. CASE RenameGroup(p)
  <2>1. UNCHANGED <<group, route, nextGroup, nextRoute>>
    BY <1>1, Zenon DEF RenameGroup, store, groupVars, routeVars
  <2>2. PICK g \in GroupId, n \in Name :
          /\ Readable(g)
          /\ Enter(p, "rn_check", [Locals EXCEPT !.g = g, !.nm = n,
                                     !.old = group[g].name, !.ttl = group[g].ttl])
    BY <1>1, Zenon DEF RenameGroup
  <2> DEFINE l == [Locals EXCEPT !.g = g, !.nm = n, !.old = group[g].name,
                                 !.ttl = group[g].ttl]
  <2>3. l.g = g /\ g \in 0 .. nextGroup
    BY <2>2, NamesKnown DEF Locals
  <2> HIDE DEF l
  <2> QED
    BY <2>1, <2>2, <2>3, RecordsLeft, DirectedTo, Zenon DEF l
<1>2. CASE RenameCheck(p) \/ RenameDrop(p)
  <2>1. UNCHANGED <<group, route, nextGroup, nextRoute>> /\ \E label : Goto(p, label)
    BY <1>2 DEF RenameCheck, RenameDrop, Next1, store, groupVars, routeVars
  <2> QED
    BY <2>1, RecordsLeft, DirectedOn
<1>3. CASE RenameRecord(p)
  <2> DEFINE g == loc[p].g
             rec == [group[g] EXCEPT !.has = @ \cup {"name"}, !.name = loc[p].nm]
  <2>1. g \in GroupId /\ Goto(p, "rn_drop")
    BY <1>3, LocTyped DEF RenameRecord, Next1, IInv, Prepared
  <2>2. group' = [group EXCEPT ![g] = rec] /\ UNCHANGED <<route, nextGroup, nextRoute>>
    BY <1>3, <2>1, Zenon DEF RenameRecord, routeVars, IInv, TypeOK, GroupsTyped
  <2>3. rec.has = group[g].has \cup {"name"}
    BY <2>1 DEF IInv, TypeOK, GroupsTyped
  <2> HIDE DEF g, rec
  <2> QED
    BY <2>1, <2>2, <2>3, GroupTouched, DirectedOn, Zenon
<1>4. CASE RenameSet(p)
  <2> DEFINE l == [loc[p] EXCEPT !.ret = "rn_list"]
  <2>1. UNCHANGED <<group, route, nextGroup, nextRoute>> /\ Enter(p, "arm_name", l)
    BY <1>4 DEF RenameSet, routeVars
  <2>2. l.g = loc[p].g
    BY <1>0 DEF LocalRecord
  <2> HIDE DEF l
  <2> QED
    BY <1>0, <2>1, <2>2, RecordsLeft, DirectedTo
<1>5. CASE RenameRoute(p) /\ loc[p].done = {}
  <2>1. UNCHANGED <<group, route, nextGroup, nextRoute>> /\ Goto(p, "idle")
    BY <1>5 DEF RenameRoute, groupVars
  <2> QED
    BY <2>1, RecordsLeft, DirectedOn
<1>6. CASE RenameRoute(p) /\ loc[p].done # {}
  <2>1. PICK r \in loc[p].done :
          /\ Enter(p, "rn_routes", [loc[p] EXCEPT !.done = @ \ {r}])
          /\ route' = [route EXCEPT ![r].has = @ \cup {"group_name"}, ![r].gname = loc[p].nm]
    BY <1>6, Zenon DEF RenameRoute
  <2> DEFINE l == [loc[p] EXCEPT !.done = @ \ {r}]
             rec == [route[r] EXCEPT !.has = @ \cup {"group_name"}, !.gname = loc[p].nm]
  <2>2. r \in RouteId /\ l.g = loc[p].g
    BY <1>0 DEF LocalRecord
  <2>3. route' = [route EXCEPT ![r] = rec] /\ UNCHANGED <<group, nextGroup, nextRoute>>
    BY <1>6, <2>1, <2>2, Zenon DEF RenameRoute, groupVars, IInv, TypeOK, RoutesTyped
  <2>4. /\ rec.has = route[r].has \cup {"group_name"}
        /\ rec.group = route[r].group /\ rec.number = route[r].number
    BY <2>2 DEF IInv, TypeOK, RoutesTyped
  <2> HIDE DEF l, rec
  <2>5. Steady
    BY <2>2, <2>3, <2>4, RouteTouched, Zenon
  <2>6. Directed
    BY <1>0, <2>1, <2>2, DirectedTo, Zenon DEF l
  <2> QED
    BY <2>5, <2>6
<1> QED
  BY <1>1, <1>2, <1>3, <1>4, <1>5, <1>6

(* The listing and the scan, and the HINCRBY.                              *)
LEMMA ScanSteady ==
  ASSUME IInv, Known, NEW p \in Proc, ListRoutes(p) \/ ScanRoutes(p) \/ NextNumber(p)
  PROVE  Steady /\ Directed
<1>0. loc[p] \in LocalRecord /\ loc[p].g \in 0 .. nextGroup
  BY LocTyped, NamesKnown DEF IInv
<1>1. Steady
  <2>1. UNCHANGED <<group, route, nextGroup, nextRoute>>
    BY Zenon DEF ListRoutes, ScanRoutes, NextNumber, store, groupVars, routeVars
  <2> QED
    BY <2>1, RecordsLeft
<1>2. CASE ListRoutes(p)
  <2> DEFINE l == [loc[p] EXCEPT !.todo = inGroup[loc[p].g]]
  <2>1. Enter(p, After[pc[p]], l) /\ l.g = loc[p].g
    BY <1>0, <1>2 DEF ListRoutes, LocalRecord
  <2> HIDE DEF l
  <2> QED
    BY <1>0, <1>1, <2>1, DirectedTo
<1>3. CASE ScanRoutes(p)
  <2>1. ASSUME NEW r,
               Enter(p, pc[p], [loc[p] EXCEPT !.todo = @ \ {r},
                 !.done = IF pc[p] = "rn_scan" THEN @ \cup {r} ELSE @])
        PROVE  Directed
    <3> DEFINE l == [loc[p] EXCEPT !.todo = @ \ {r},
                       !.done = IF pc[p] = "rn_scan" THEN @ \cup {r} ELSE @]
    <3>1. Enter(p, pc[p], l) /\ l.g = loc[p].g
      BY <1>0, <2>1 DEF LocalRecord
    <3> HIDE DEF l
    <3> QED
      BY <1>0, <3>1, DirectedTo
  <2>2. (\E label : Goto(p, label)) \/ Directed
    BY <1>3, <2>1, Zenon DEF ScanRoutes
  <2> QED
    BY <1>1, <2>2, DirectedOn
<1>4. CASE NextNumber(p)
  <2> DEFINE l == [loc[p] EXCEPT !.n = counter[loc[p].g] + 1]
  <2>1. Enter(p, "cr_write", l) /\ l.g = loc[p].g
    BY <1>0, <1>4 DEF NextNumber, LocalRecord
  <2> HIDE DEF l
  <2> QED
    BY <1>0, <1>1, <2>1, DirectedTo
<1> QED
  BY <1>2, <1>3, <1>4

(* create_route but for the write of the record, update_route, and         *)
(* delete_route but for the drop of the record.                            *)
LEMMA RouteCallsSteady ==
  ASSUME IInv, Known, NEW p \in Proc,
         \/ CreateRoute(p) \/ IndexInGroup(p) \/ IndexAll(p) \/ IndexOwner(p)
         \/ UpdateRoute(p) \/ UpdatePattern(p) \/ UpdateArtifact(p)
         \/ DeleteRoute(p) \/ StripNumber(p) \/ StripInGroup(p)
         \/ StripAll(p) \/ StripOwner(p) \/ StripKv(p)
  PROVE  Steady /\ Directed
<1>0. loc[p] \in LocalRecord /\ loc[p].g \in 0 .. nextGroup
  BY LocTyped, NamesKnown DEF IInv
<1>1. CASE \/ IndexInGroup(p) \/ IndexAll(p) \/ IndexOwner(p) \/ StripNumber(p)
           \/ StripInGroup(p) \/ StripAll(p) \/ StripOwner(p) \/ StripKv(p)
  <2>1. UNCHANGED <<group, route, nextGroup, nextRoute>>
    BY <1>1 DEF IndexInGroup, IndexAll, IndexOwner, StripNumber, StripInGroup,
                StripAll, StripOwner, StripKv, groupVars, routeVars
  <2>2. \E label : Goto(p, label)
    BY <1>1 DEF IndexInGroup, IndexAll, IndexOwner, StripNumber, StripInGroup,
                StripAll, StripOwner, StripKv, Next1
  <2> QED
    BY <2>1, <2>2, RecordsLeft, DirectedOn
<1>2. CASE CreateRoute(p)
  <2>1. UNCHANGED <<group, route, nextGroup, nextRoute>>
    BY <1>2, Zenon DEF CreateRoute, store, groupVars, routeVars
  <2>2. PICK g \in GroupId, q \in Pattern :
          /\ Readable(g)
          /\ Enter(p, "cr_list", [Locals EXCEPT !.g = g, !.pat = q, !.nm = group[g].name])
    BY <1>2, Zenon DEF CreateRoute
  <2> DEFINE l == [Locals EXCEPT !.g = g, !.pat = q, !.nm = group[g].name]
  <2>3. l.g = g /\ g \in 0 .. nextGroup
    BY <2>2, NamesKnown DEF Locals
  <2> HIDE DEF l
  <2> QED
    BY <2>1, <2>2, <2>3, RecordsLeft, DirectedTo, Zenon DEF l
<1>3. CASE UpdateRoute(p)
  <2>1. UNCHANGED <<group, route, nextGroup, nextRoute>>
    BY <1>3, Zenon DEF UpdateRoute, store, groupVars, routeVars
  <2>2. PICK r \in RouteId :
          /\ Intact(r)
          /\ LET l == [Locals EXCEPT !.g = route[r].group, !.r = r] IN
             \/ Enter(p, "up_artifact", l)
             \/ \E q \in Pattern, set \in SUBSET {"methods", "path"} :
                   Enter(p, "up_list", [l EXCEPT !.pat = q, !.set = set])
    BY <1>3, Zenon DEF UpdateRoute, Slug
  <2> DEFINE l == [Locals EXCEPT !.g = route[r].group, !.r = r]
  <2>3. /\ l.g = route[r].group
        /\ \A q, set : [l EXCEPT !.pat = q, !.set = set].g = route[r].group
    BY DEF Locals
  <2>4. \E label \in {"up_artifact", "up_list"} : \E m : Enter(p, label, m) /\ m.g = route[r].group
    BY <2>2, <2>3, Zenon
  <2>5. route[r].group \in 0 .. nextGroup
    BY <2>2, NamesKnown, Zenon
  <2> QED
    BY <2>1, <2>4, <2>5, RecordsLeft, DirectedTo
<1>4. CASE DeleteRoute(p)
  <2>1. UNCHANGED <<group, route, nextGroup, nextRoute>>
    BY <1>4, Zenon DEF DeleteRoute, store, groupVars, routeVars
  <2>2. PICK r \in RouteId :
          /\ Intact(r)
          /\ Enter(p, "st_number", [Locals EXCEPT !.g = route[r].group, !.r = r,
                                                  !.n = route[r].number])
    BY <1>4, Zenon DEF DeleteRoute, Slug
  <2> DEFINE l == [Locals EXCEPT !.g = route[r].group, !.r = r, !.n = route[r].number]
  <2>3. l.g = route[r].group /\ route[r].group \in 0 .. nextGroup
    BY <2>2, NamesKnown DEF Locals
  <2> HIDE DEF l
  <2> QED
    BY <2>1, <2>2, <2>3, RecordsLeft, DirectedTo, Zenon DEF l
<1>5. CASE UpdatePattern(p)
  <2> DEFINE r == loc[p].r
             rec == [route[r] EXCEPT !.has = @ \cup {"pattern"}, !.pat = Patched(p)]
  <2>1. r \in RouteId /\ \E label : Goto(p, label)
    BY <1>5, LocTyped DEF UpdatePattern, IInv, Prepared
  <2>2. route' = [route EXCEPT ![r] = rec] /\ UNCHANGED <<group, nextGroup, nextRoute>>
    BY <1>5, <2>1, Zenon DEF UpdatePattern, groupVars, IInv, TypeOK, RoutesTyped
  <2>3. /\ rec.has = route[r].has \cup {"pattern"}
        /\ rec.group = route[r].group /\ rec.number = route[r].number
    BY <2>1 DEF IInv, TypeOK, RoutesTyped
  <2> HIDE DEF r, rec
  <2> QED
    BY <2>1, <2>2, <2>3, RouteTouched, DirectedOn, Zenon
<1>6. CASE UpdateArtifact(p)
  <2> DEFINE r == loc[p].r
  <2>1. r \in RouteId /\ Goto(p, "idle")
    BY <1>6, LocTyped DEF UpdateArtifact, Next1, IInv, Prepared
  <2>2. PICK src \in SUBSET {"source"} :
          route' = [route EXCEPT ![r].has = (@ \ {"source"}) \cup {"artifact"} \cup src]
    BY <1>6, Zenon DEF UpdateArtifact
  <2> DEFINE rec == [route[r] EXCEPT !.has = (@ \ {"source"}) \cup {"artifact"} \cup src]
  <2>3. route' = [route EXCEPT ![r] = rec] /\ UNCHANGED <<group, nextGroup, nextRoute>>
    BY <1>6, <2>1, <2>2, Zenon DEF UpdateArtifact, groupVars, IInv, TypeOK, RoutesTyped
  <2>4. /\ rec.has = (route[r].has \ {"source"}) \cup {"artifact"} \cup src
        /\ rec.group = route[r].group /\ rec.number = route[r].number
    BY <2>1 DEF IInv, TypeOK, RoutesTyped
  <2> HIDE DEF r, rec
  <2> QED
    BY <2>1, <2>3, <2>4, RouteTouched, DirectedOn, Zenon DEF RouteMandatory
<1> QED
  BY <1>1, <1>2, <1>3, <1>4, <1>5, <1>6

(* set_group_state, clear_group_state, the expiry of a name, and errors.   *)
LEMMA OthersSteady ==
  ASSUME IInv, Known
  PROVE  /\ \A n \in Name : ExpireName(n) => Steady /\ Directed
         /\ \A p \in Proc : SetState(p) \/ ClearState(p) \/ Fault(p) => Steady /\ Directed
<1>1. ASSUME UNCHANGED loc PROVE Directed
  BY <1>1 DEF Directed, Known, GroupsOpened
<1>2. ASSUME NEW n \in Name, ExpireName(n) PROVE Steady /\ Directed
  <2>1. UNCHANGED <<group, route, nextGroup, nextRoute, loc>>
    BY <1>2 DEF ExpireName, routeVars
  <2> QED
    BY <1>1, <2>1, RecordsLeft
<1>3. ASSUME NEW p \in Proc, SetState(p) \/ ClearState(p) PROVE Steady /\ Directed
  <2>1. UNCHANGED <<group, route, nextGroup, nextRoute, loc>>
    BY <1>3 DEF SetState, ClearState, groupVars, routeVars
  <2> QED
    BY <1>1, <2>1, RecordsLeft
<1>4. ASSUME NEW p \in Proc, Fault(p) PROVE Steady /\ Directed
  <2>1. UNCHANGED <<group, route, nextGroup, nextRoute>> /\ \E label : Goto(p, label)
    BY <1>4 DEF Fault, Abort, store, groupVars, routeVars
  <2> QED
    BY <2>1, RecordsLeft, DirectedOn
<1> QED
  BY <1>2, <1>3, <1>4

(* The record of a new group opens it.                                     *)
LEMMA WriteGroupOpens ==
  ASSUME IInv, Known, NEW p \in Proc, WriteGroup(p)
  PROVE  Known' /\ Directory!Next
<1>0. PICK g : g = nextGroup + 1
  OBVIOUS
<1> DEFINE rec == [has |-> GroupField \ {"last_activity_at"},
                   name |-> loc[p].nm, ttl |-> loc[p].ttl]
           l == [loc[p] EXCEPT !.g = g]
<1>1. /\ nextGroup' = g /\ nextGroup < MaxGroups /\ group' = [group EXCEPT ![g] = rec]
      /\ Enter(p, "cg_index", l) /\ UNCHANGED <<route, nextRoute>>
  BY <1>0 DEF WriteGroup, routeVars
<1>2. loc[p] \in LocalRecord /\ nextGroup \in Nat /\ g \in GroupId
  BY <1>0, <1>1, LocTyped, Bounds DEF IInv, TypeOK, GroupsTyped, GroupId
<1>3. l.g = g
  BY <1>2 DEF LocalRecord
<1>4. rec.has = GroupField \ {"last_activity_at"}
  OBVIOUS
<1> HIDE DEF rec, l
<1>5. group'[g] = rec /\ \A h \in GroupId \ {g} : group'[h] = group[h]
  BY <1>1, <1>2 DEF IInv, TypeOK, GroupsTyped
<1>6. Readable(g)' /\ \A h \in GroupId \ {g} : Readable(h)' <=> Readable(h)
  BY <1>4, <1>5 DEF Readable, GroupMandatory, GroupField
<1>7. 1 .. nextGroup' = (1 .. nextGroup) \cup {g} /\ g \notin 1 .. nextGroup
  BY <1>0, <1>1, <1>2
<1>8. ~Readable(g)
  BY <1>2, <1>7, ReadsById DEF Known, GroupsWhole
<1>9. GroupsWhole'
  BY <1>1, <1>5, <1>6, <1>7 DEF Known, GroupsWhole
<1>10. RoutesWhole'
  BY <1>1 DEF Known, RoutesWhole, Intact
<1>11. GroupsOpened'
  <2>1. \A q \in Proc : loc'[q].g \in 0 .. nextGroup'
    BY <1>0, <1>1, <1>2, <1>3 DEF IInv, CallsTyped, Enter, Known, GroupsOpened
  <2>2. \A r \in 1 .. nextRoute : route[r].group \in 1 .. nextGroup'
    BY <1>7 DEF Known, GroupsOpened
  <2> QED
    BY <1>1, <2>1, <2>2 DEF GroupsOpened
<1>12. {h \in GroupId : Readable(h)}' = {h \in GroupId : Readable(h)} \cup {g}
  BY <1>2, <1>6
<1>13. UNCHANGED <<{Entry(r) : r \in 1 .. nextRoute},
                   {Entry(r) : r \in {q \in RouteId : Intact(q)}}>>
  BY <1>1 DEF Entry, Intact
<1>14. Directory!Open(g)
  BY <1>7, <1>12, <1>13 DEF Directory!Open
<1> QED
  BY <1>2, <1>9, <1>10, <1>11, <1>14 DEF Known, Directory!Next

(* A record that expires closes its group, unless only a late write is     *)
(* left of it.                                                             *)
LEMMA ExpireRecordCloses ==
  ASSUME IInv, Known, NEW g \in GroupId, ExpireRecord(g)
  PROVE  Known' /\ (Directory!Next \/ UNCHANGED Directory!vars)
<1>1. /\ group' = [group EXCEPT ![g].has = {}]
      /\ UNCHANGED <<nextGroup, route, nextRoute, loc>>
  BY DEF ExpireRecord, routeVars
<1>2. group'[g].has = {} /\ \A h \in GroupId \ {g} : group'[h] = group[h]
  BY <1>1 DEF IInv, TypeOK, GroupsTyped
<1>3. ~Readable(g)' /\ \A h \in GroupId \ {g} : Readable(h)' <=> Readable(h)
  BY <1>2 DEF Readable, GroupMandatory
<1>4. Known'
  BY <1>1, <1>2, <1>3 DEF Known, GroupsWhole, RoutesWhole, GroupsOpened, Intact
<1>5. {h \in GroupId : Readable(h)}' = {h \in GroupId : Readable(h)} \ {g}
  BY <1>3
<1>6. UNCHANGED <<1 .. nextGroup, {Entry(r) : r \in 1 .. nextRoute},
                  {Entry(r) : r \in {q \in RouteId : Intact(q)}}>>
  BY <1>1 DEF Entry, Intact
<1>7. CASE Readable(g)
  <2>1. Directory!Close(g)
    BY <1>5, <1>6, <1>7, Zenon DEF Directory!Close
  <2> QED
    BY <1>4, <2>1 DEF Directory!Next
<1>8. CASE ~Readable(g)
  <2>1. UNCHANGED Directory!vars
    BY <1>5, <1>6, <1>8, Zenon DEF Directory!vars
  <2> QED
    BY <1>4, <2>1
<1> QED
  BY <1>7, <1>8

(* The record of a new route publishes it under the number its call has in *)
(* hand.                                                                   *)
LEMMA WriteRoutePublishes ==
  ASSUME IInv, NumberInv, Known, NEW p \in Proc, WriteRoute(p)
  PROVE  Known' /\ Directory!Next
<1>0. PICK r, gid, n : r = nextRoute + 1 /\ gid = loc[p].g /\ n = loc[p].n
  OBVIOUS
<1> DEFINE rec == [has |-> RouteField \ {"activity"}, group |-> gid,
                   number |-> n, gname |-> loc[p].nm, pat |-> loc[p].pat]
           l == [loc[p] EXCEPT !.r = r]
           e == <<r, gid, n>>
<1>1. /\ pc[p] = "cr_write" /\ nextRoute' = r /\ nextRoute < MaxRoutes
      /\ route' = [route EXCEPT ![r] = rec]
      /\ Enter(p, "cr_group", l) /\ UNCHANGED <<group, nextGroup>>
  BY <1>0 DEF WriteRoute, groupVars
<1>2. /\ loc[p] \in LocalRecord /\ nextRoute \in Nat /\ nextGroup \in Nat
      /\ r \in RouteId /\ p \in Numbered
  BY <1>0, <1>1, LocTyped, Bounds DEF IInv, TypeOK, RoutesTyped, GroupsTyped, RouteId, Numbered
<1>3. l.g = gid /\ gid \in GroupId /\ n \in Number
  <2>1. Prepared("cr_write", loc[p])
    BY <1>1, LocTyped DEF IInv
  <2>2. gid \in GroupId /\ l.g = gid
    BY <1>0, <1>2, <2>1 DEF LocalRecord, Prepared
  <2>3. counter[gid] \in Number \cup {0} /\ n \in 1 .. counter[gid]
    BY <1>0, <1>2, <2>2 DEF NumberInv, Counted, IInv, TypeOK, CountsTyped
  <2> QED
    BY <2>2, <2>3, Bounds
<1>4. gid \in 1 .. nextGroup
  BY <1>0, <1>2, <1>3, NamesKnown, Bounds DEF GroupId
<1>5. /\ rec.has = RouteField \ {"activity"}
      /\ rec.group = gid /\ rec.number = n
  OBVIOUS
<1> HIDE DEF rec, l
<1>6. route'[r] = rec /\ \A s \in RouteId \ {r} : route'[s] = route[s]
  BY <1>1, <1>2 DEF IInv, TypeOK, RoutesTyped
<1>7. Intact(r)' /\ \A s \in RouteId \ {r} : Intact(s)' <=> Intact(s)
  BY <1>5, <1>6 DEF Intact, RouteMandatory, RouteField
<1>8. 1 .. nextRoute' = (1 .. nextRoute) \cup {r} /\ r \notin 1 .. nextRoute
  BY <1>0, <1>1, <1>2
<1>9. Entry(r)' = e /\ \A s \in RouteId \ {r} : Entry(s)' = Entry(s)
  BY <1>5, <1>6 DEF Entry
<1>10. GroupsWhole'
  BY <1>1 DEF Known, GroupsWhole, Readable
<1>11. RoutesWhole'
  BY <1>6, <1>7 DEF Known, RoutesWhole
<1>12. GroupsOpened'
  <2>1. \A q \in Proc : loc'[q].g \in 0 .. nextGroup
    BY <1>1, <1>4, <1>3 DEF IInv, CallsTyped, Enter, Known, GroupsOpened
  <2>2. \A s \in 1 .. nextRoute' : route'[s].group \in 1 .. nextGroup
    BY <1>4, <1>5, <1>6, <1>8, NumbersInRange DEF Known, GroupsOpened
  <2> QED
    BY <1>1, <2>1, <2>2 DEF GroupsOpened
<1>13. {Entry(s) : s \in 1 .. nextRoute}' = {Entry(s) : s \in 1 .. nextRoute} \cup {e}
  BY <1>8, <1>9, NumbersInRange
<1>14. {Entry(s) : s \in {q \in RouteId : Intact(q)}}'
         = {Entry(s) : s \in {q \in RouteId : Intact(q)}} \cup {e}
  <2>1. ~Intact(r)
    BY <1>2, <1>8, NamesKnown
  <2>2. {q \in RouteId : Intact(q)}' = {q \in RouteId : Intact(q)} \cup {r}
    BY <1>2, <1>7
  <2> QED
    BY <1>9, <2>1, <2>2
<1>15. UNCHANGED <<1 .. nextGroup, {g \in GroupId : Readable(g)}>>
  BY <1>1 DEF Readable
<1>16. \A x \in {Entry(s) : s \in 1 .. nextRoute} :
         x[1] # r /\ (x[2] = gid => x[3] # n)
  BY <1>0, <1>2, <1>8 DEF Entry, NumberInv, Distinct
<1>17. Directory!Publish(r, gid, n)
  BY <1>4, <1>13, <1>14, <1>15, <1>16, Zenon DEF Directory!Publish
<1> QED
  BY <1>2, <1>3, <1>10, <1>11, <1>12, <1>17 DEF Known, Directory!Next

(* The record of a route that is dropped withdraws it, unless another      *)
(* delete did.                                                             *)
LEMMA StripRecordWithdraws ==
  ASSUME IInv, NumberInv, Known, NEW p \in Proc, StripRecord(p)
  PROVE  Known' /\ (Directory!Next \/ UNCHANGED Directory!vars)
<1>0. PICK r : r = loc[p].r
  OBVIOUS
<1>1. r \in RouteId /\ loc[p].cd = "none"
  BY <1>0, LocTyped DEF StripRecord, IInv, Prepared, NumberInv, NoResetting
<1>2. /\ route' = [route EXCEPT ![r].has = {}] /\ Goto(p, "idle")
      /\ UNCHANGED <<group, nextGroup, nextRoute>>
  BY <1>0, <1>1 DEF StripRecord, groupVars
<1>3. /\ route'[r].has = {} /\ route'[r].group = route[r].group
      /\ route'[r].number = route[r].number
      /\ \A s \in RouteId \ {r} : route'[s] = route[s]
  BY <1>1, <1>2 DEF IInv, TypeOK, RoutesTyped
<1>4. ~Intact(r)' /\ \A s \in RouteId \ {r} : Intact(s)' <=> Intact(s)
  BY <1>3 DEF Intact, RouteMandatory
<1>5. \A s \in RouteId : Entry(s)' = Entry(s)
  BY <1>3 DEF Entry
<1>6. GroupsWhole' /\ RoutesWhole'
  BY <1>2, <1>3, <1>4 DEF Known, GroupsWhole, RoutesWhole, Readable
<1>7. GroupsOpened'
  <2>1. Directed
    BY <1>2, DirectedOn
  <2> QED
    BY <1>2, <1>3, <2>1, NumbersInRange DEF Known, GroupsOpened, Directed
<1>8. UNCHANGED <<1 .. nextGroup, {g \in GroupId : Readable(g)},
                  {Entry(s) : s \in 1 .. nextRoute}>>
  BY <1>2, <1>5, NumbersInRange DEF Readable
<1>9. {q \in RouteId : Intact(q)}' = {q \in RouteId : Intact(q)} \ {r}
  BY <1>4
<1>10. CASE Intact(r)
  <2>1. {Entry(s) : s \in {q \in RouteId : Intact(q)}}'
          = {Entry(s) : s \in {q \in RouteId : Intact(q)}} \ {Entry(r)}
    BY <1>5, <1>9 DEF Entry
  <2>2. Entry(r) \in {Entry(s) : s \in {q \in RouteId : Intact(q)}}
    BY <1>1, <1>10
  <2>3. Directory!Withdraw(Entry(r))
    BY <1>8, <2>1, <2>2, Zenon DEF Directory!Withdraw
  <2> QED
    BY <1>6, <1>7, <2>2, <2>3 DEF Known, Directory!Next
<1>11. CASE ~Intact(r)
  <2>1. UNCHANGED {Entry(s) : s \in {q \in RouteId : Intact(q)}}
    BY <1>5, <1>9, <1>11
  <2> QED
    BY <1>6, <1>7, <1>8, <2>1, Zenon DEF Known, Directory!vars
<1> QED
  BY <1>10, <1>11

(* The groups and routes that exist initially are open and live.           *)
LEMMA InitDirected == Init => Known /\ Directory!Init
<1> SUFFICES ASSUME Init PROVE Known /\ Directory!Init
  OBVIOUS
<1>1. PICK ng \in 0 .. MaxGroups, nr \in 0 .. MaxRoutes :
        /\ SeedName \in [1 .. ng -> Name]
        /\ SeedRoute \in [1 .. nr -> [group : 1 .. ng, pat : Pattern]]
  BY SeedAssumption, Zenon
<1>2. /\ DOMAIN SeedName = 1 .. ng /\ 1 .. ng \subseteq GroupId
      /\ DOMAIN SeedRoute = 1 .. nr /\ 1 .. nr \subseteq RouteId
  BY <1>1, Bounds DEF GroupId, RouteId
<1>3. nextRoute = nr /\ nextGroup = ng
  BY <1>1, <1>2, Bounds, FS_Interval DEF Init
<1>4. /\ \A g \in 1 .. ng : group[g].has = GroupField \ {"last_activity_at"}
      /\ \A g \in GroupId : g \notin 1 .. ng => group[g].has = {}
  BY <1>2, Zenon DEF Init, NoGroup
<1>5. /\ \A r \in 1 .. nr : /\ route[r].has = RouteField \ {"activity"}
                            /\ route[r].group \in 1 .. ng /\ route[r].number = r
      /\ \A r \in RouteId : r \notin 1 .. nr => route[r].has = {}
  BY <1>1, <1>2 DEF Init, NoRoute
<1>6. \A g \in GroupId : Readable(g) <=> g \in 1 .. ng
  BY <1>4 DEF Readable, GroupMandatory, GroupField
<1>7. \A r \in RouteId : Intact(r) <=> r \in 1 .. nr
  BY <1>5 DEF Intact, RouteMandatory, RouteField
<1>8. Known
  <2>1. GroupsWhole /\ RoutesWhole
    BY <1>3, <1>4, <1>5, <1>6, <1>7 DEF GroupsWhole, RoutesWhole
  <2>2. \A p \in Proc : loc[p].g \in 0 .. ng
    BY <1>1, Bounds DEF Init, Locals, NoId
  <2> QED
    BY <1>3, <1>5, <2>1, <2>2 DEF Known, GroupsOpened
<1>9. 1 .. nextGroup \in SUBSET GroupId /\ {g \in GroupId : Readable(g)} = 1 .. nextGroup
  BY <1>2, <1>3, <1>6
<1>10. {q \in RouteId : Intact(q)} = 1 .. nextRoute
  BY <1>2, <1>3, <1>7
<1>11. {Entry(r) : r \in 1 .. nextRoute} \in SUBSET (RouteId \X (1 .. nextGroup) \X Number)
  <2>1. 1 .. nr \subseteq Number
    BY <1>1, Bounds DEF Number
  <2> QED
    BY <1>2, <1>3, <1>5, <2>1 DEF Entry
<1> QED
  BY <1>8, <1>9, <1>10, <1>11 DEF Directory!Init

(* Every command opens or closes a group, publishes or withdraws a route,  *)
(* or leaves the directory alone.                                          *)
LEMMA NextDirected ==
  ASSUME NoReset
  PROVE  IInv /\ NumberInv /\ Known /\ [Next]_vars
           => Known' /\ [Directory!Next]_(Directory!vars)
<1> SUFFICES ASSUME IInv, NumberInv, Known, [Next]_vars
             PROVE  Known' /\ (Directory!Next \/ UNCHANGED Directory!vars)
  OBVIOUS
<1>1. ASSUME NEW p \in Proc, Call(p)
      PROVE  Known' /\ (Directory!Next \/ UNCHANGED Directory!vars)
  <2>1. /\ ~DeleteGroup(p) /\ ~ClearJournal(p)
    BY DEF NoReset, DeleteGroup, ClearJournal, Asked
  <2>2. pc[p] \notin ResetLabels
    BY DEF NumberInv, NoResetting
  <2>3. /\ ~ClearCounters(p) /\ ~CascadeRead(p) /\ ~CascadeList(p)
        /\ ~CascadeRoute(p) /\ ~CascadeUnlist(p) /\ ~CascadeMembers(p)
        /\ ~CascadeData(p) /\ ~CascadeCounters(p) /\ ~CascadeName(p)
        /\ ~CascadeRecord(p) /\ ~CascadeDone(p)
    BY <2>2, Zenon
    DEF ClearCounters, CascadeRead, CascadeList, CascadeRoute, CascadeUnlist,
        CascadeMembers, CascadeData, CascadeCounters, CascadeName,
        CascadeRecord, CascadeDone, Next1
  <2>4. \/ Steady /\ Directed
        \/ WriteGroup(p) \/ WriteRoute(p) \/ StripRecord(p)
    BY <1>1, <2>1, <2>3, GroupCallsSteady, DispatchSteady, RenameSteady,
       ScanSteady, RouteCallsSteady, OthersSteady
    DEF Call, Cascade
  <2> QED
    BY <2>4, SteadyKeeps, WriteGroupOpens, WriteRoutePublishes, StripRecordWithdraws
<1>2. CASE Expire
  BY <1>2, SteadyKeeps, OthersSteady, ExpireRecordCloses DEF Expire
<1>3. CASE UNCHANGED vars
  <2>1. UNCHANGED <<group, route, nextGroup, nextRoute, loc>>
    BY <1>3 DEF vars, store, groupVars, routeVars
  <2>2. Directed
    BY <2>1 DEF Directed, Known, GroupsOpened
  <2> QED
    BY <2>1, <2>2, RecordsLeft, SteadyKeeps
<1> QED
  BY <1>1, <1>2, <1>3 DEF Next

(* The registry implements SlugDirectory as long as nothing deletes the    *)
(* counter of a group: however the commands of the calls interleave, and   *)
(* wherever an error or an expiry cuts one short, a group is opened and    *)
(* closed once, and a route is published once, in a group that was opened  *)
(* and under a number its open group never gave out, and withdrawn once.   *)
THEOREM DirectoryImplemented ==
  ASSUME NoReset
  PROVE  Spec => ImplementsDirectory
<1>1. Init => IInv /\ NumberInv /\ Known /\ Directory!Init
  BY InitTyped, InitNumbered, InitDirected
<1>2. IInv /\ NumberInv /\ Known /\ [Next]_vars
        => IInv' /\ NumberInv' /\ Known' /\ [Directory!Next]_(Directory!vars)
  BY NextTyped, NextNumbered, NextDirected
<1> QED
  BY <1>1, <1>2, PTL DEF Spec, ImplementsDirectory, Directory!Spec

-----------------------------------------------------------------------------
(* No route is lost, as long as nothing deletes a counter and no error     *)
(* ends a call half way.                                                   *)

(* The labels of the calls that add a route to an index, or take it out.   *)
WorkLabels == IndexLabels \cup StripLabels

(* At these labels the route of a call is not in the index yet, or is no   *)
(* longer.                                                                 *)
NumberGone == StripLabels \ {"st_number"}
GroupGone  == {"cr_group"} \cup (StripLabels \ {"st_number", "st_group"})
AllGone    == {"cr_group", "cr_all", "st_owner", "st_kv", "st_record"}
OwnerGone  == IndexLabels \cup {"st_kv", "st_record"}

(* Some call that is at one of the labels has route r in hand.             *)
At(r, labels) == \E p \in Proc : pc[p] \in labels /\ loc[p].r = r

(* Every index leads to the route, or has a call on its way to it.         *)
Marked(r) ==
  /\ byNumber[route[r].group][route[r].number] = r \/ At(r, NumberGone)
  /\ r \in inGroup[route[r].group] \/ At(r, GroupGone)
  /\ r \in routeAll \/ At(r, AllGone)
  /\ r \in byOwner \/ At(r, OwnerGone)

Listed == \A r \in 1 .. nextRoute : Intact(r) => Marked(r)

(* A call that works on the indexes has the group and the number of its    *)
(* route.                                                                  *)
Owned ==
  \A p \in Proc : pc[p] \in WorkLabels =>
    /\ loc[p].r \in 1 .. nextRoute /\ route[loc[p].r].group = loc[p].g
    /\ pc[p] \in StripLabels => route[loc[p].r].number = loc[p].n

ListedInv == Owned /\ (faults = 0 => Listed)

(* A call keeps its place unless it moves out of the labels.               *)
LEMMA StillAt ==
  ASSUME NEW p \in Proc, Elsewhere(p), NEW r, NEW labels, At(r, labels),
         pc[p] \in labels /\ loc[p].r = r => pc'[p] \in labels /\ loc'[p].r = r
  PROVE  At(r, labels)'
BY DEF At, Elsewhere

(* A step that leaves the indexes, and what the routes are filed under,    *)
(* alone, and publishes nothing.                                           *)
IndexesKept ==
  /\ UNCHANGED <<nextRoute, byNumber, inGroup, routeAll, byOwner>>
  /\ \A r \in RouteId : /\ Intact(r)' => Intact(r)
                        /\ route'[r].group = route[r].group
                        /\ route'[r].number = route[r].number

(* A step of a call that is not at work on an index, and will not be.      *)
Aside(p) == Elsewhere(p) /\ pc[p] \notin WorkLabels /\ pc'[p] \notin WorkLabels

LEMMA AsideKeeps ==
  ASSUME ListedInv, IInv, IndexesKept, NEW p \in Proc, Aside(p),
         faults' = 0 => faults = 0
  PROVE  ListedInv'
<1>1. Owned'
  BY NumbersInRange DEF ListedInv, Owned, IndexesKept, Aside, Elsewhere
<1>2. \A r, labels : labels \subseteq WorkLabels /\ At(r, labels) => At(r, labels)'
  BY DEF At, Aside, Elsewhere
<1>3. /\ NumberGone \subseteq WorkLabels /\ GroupGone \subseteq WorkLabels
      /\ AllGone \subseteq WorkLabels /\ OwnerGone \subseteq WorkLabels
  BY DEF WorkLabels, NumberGone, GroupGone, AllGone, OwnerGone
<1>4. ASSUME NEW r \in RouteId, Marked(r)
      PROVE  Marked(r)'
  BY <1>2, <1>3, <1>4 DEF IndexesKept, Marked
<1>5. faults' = 0 => Listed'
  BY <1>4, NumbersInRange DEF ListedInv, Listed, IndexesKept
<1> QED
  BY <1>1, <1>5 DEF ListedInv

(* The same of a step of the store, or of a call that never waits.         *)
LEMMA StandingIndexed ==
  ASSUME ListedInv, IInv, IndexesKept, UNCHANGED <<pc, loc, faults>>
  PROVE  ListedInv'
<1>1. Owned'
  BY NumbersInRange DEF ListedInv, Owned, IndexesKept
<1>2. \A r, labels : At(r, labels) => At(r, labels)'
  BY DEF At
<1>3. ASSUME NEW r \in RouteId, Marked(r)
      PROVE  Marked(r)'
  BY <1>2, <1>3 DEF IndexesKept, Marked
<1>4. faults' = 0 => Listed'
  BY <1>3, NumbersInRange DEF ListedInv, Listed, IndexesKept
<1> QED
  BY <1>1, <1>4 DEF ListedInv

(* A step that opens and closes no group, and publishes and withdraws no   *)
(* route, is one, if it leaves the indexes alone.                          *)
LEMMA SteadyIndexes ==
  ASSUME IInv, Known, Steady, UNCHANGED <<byNumber, inGroup, routeAll, byOwner>>
  PROVE  IndexesKept
BY ReadsById DEF Steady, IndexesKept, Intact, RouteMandatory

(* The calls that work on no index.                                        *)
LEMMA CallsAside ==
  ASSUME IInv, NumberInv, Known, ListedInv, NEW p \in Proc,
         \/ ArmRecord(p) \/ ArmName(p) \/ CreateGroup(p) \/ IndexGroup(p)
         \/ PatchGroup(p) \/ PatchTtl(p) \/ PatchFlags(p) \/ RefreshGroup(p)
         \/ Dispatch(p) \/ HitRoute(p) \/ HitGroup(p) \/ Bump(p)
         \/ RenameGroup(p) \/ RenameCheck(p) \/ RenameRecord(p)
         \/ RenameDrop(p) \/ RenameSet(p) \/ RenameRoute(p)
         \/ ListRoutes(p) \/ ScanRoutes(p) \/ NextNumber(p) \/ CreateRoute(p)
         \/ UpdateRoute(p) \/ UpdatePattern(p) \/ UpdateArtifact(p)
  PROVE  ListedInv'
<1>0. loc[p] \in LocalRecord /\ CallsTyped
  BY LocTyped DEF IInv
<1> USE DEF Aside, Elsewhere, CallsTyped, WorkLabels
<1>1. IndexesKept
  <2>1. Steady
    BY GroupCallsSteady, DispatchSteady, RenameSteady, ScanSteady, RouteCallsSteady
  <2>2. UNCHANGED <<byNumber, inGroup, routeAll, byOwner>>
    BY Zenon DEF ArmRecord, ArmName, CreateGroup, IndexGroup, PatchGroup, PatchTtl,
           PatchFlags, RefreshGroup, Dispatch, HitRoute, HitGroup, Bump,
           RenameGroup, RenameCheck, RenameRecord, RenameDrop, RenameSet,
           RenameRoute, ListRoutes, ScanRoutes, NextNumber, CreateRoute,
           UpdateRoute, UpdatePattern, UpdateArtifact, store, routeVars
  <2> QED
    BY <2>1, <2>2, SteadyIndexes
<1>2. CASE \/ ArmRecord(p) \/ IndexGroup(p) \/ PatchTtl(p) \/ PatchFlags(p)
           \/ HitRoute(p) \/ HitGroup(p) \/ RenameCheck(p) \/ RenameRecord(p)
           \/ RenameDrop(p) \/ UpdatePattern(p) \/ UpdateArtifact(p)
  <2>1. Aside(p) /\ faults' = faults
    BY <1>0, <1>2, Zenon DEF ArmRecord, IndexGroup, PatchTtl, PatchFlags, HitRoute,
       HitGroup, RenameCheck, RenameRecord, RenameDrop, UpdatePattern,
       UpdateArtifact, Next1, Goto, others
  <2> QED
    BY <1>1, <2>1, AsideKeeps
<1>3. CASE ArmName(p)
  <2>1. loc[p].ret \in {"idle", "pt_flags", "cr_list", "rn_list", "sw_probe"}
    BY <1>0 DEF LocalRecord
  <2>2. Aside(p) /\ faults' = faults
    BY <1>0, <1>3, <2>1 DEF ArmName, Return, Goto, others
  <2> QED
    BY <1>1, <2>2, AsideKeeps
<1>4. CASE CreateGroup(p) \/ PatchGroup(p)
  <2>1. Aside(p) /\ faults' = faults
    BY <1>0, <1>4, Zenon DEF CreateGroup, PatchGroup, Asked, Enter
  <2> QED
    BY <1>1, <2>1, AsideKeeps
<1>5. CASE RefreshGroup(p) \/ Dispatch(p) \/ RenameGroup(p) \/ CreateRoute(p)
  <2>1. Aside(p) /\ faults' = faults
    BY <1>0, <1>5, Zenon DEF RefreshGroup, Dispatch, RenameGroup, CreateRoute, Asked, Enter
  <2> QED
    BY <1>1, <2>1, AsideKeeps
<1>6. CASE UpdateRoute(p)
  <2>1. Aside(p) /\ faults' = faults
    BY <1>0, <1>6, Zenon DEF UpdateRoute, Asked, Enter
  <2> QED
    BY <1>1, <2>1, AsideKeeps
<1>7. CASE Bump(p) \/ RenameSet(p) \/ RenameRoute(p) \/ NextNumber(p)
  <2>1. Aside(p) /\ faults' = faults
    BY <1>0, <1>7, Zenon DEF Bump, RenameSet, RenameRoute, NextNumber, Enter, Goto, others
  <2> QED
    BY <1>1, <2>1, AsideKeeps
<1>8. CASE ListRoutes(p) \/ ScanRoutes(p)
  <2>1. ASSUME ListRoutes(p) PROVE Aside(p) /\ faults' = faults
    <3>1. pc[p] \in {"cr_list", "up_list", "rn_list"}
      BY <2>1 DEF ListRoutes, After
    <3>2. After[pc[p]] \in {"cr_scan", "up_scan", "rn_scan"}
      BY <3>1 DEF After
    <3> QED
      BY <1>0, <2>1, <3>1, <3>2 DEF ListRoutes, Enter, others
  <2>2. ASSUME ScanRoutes(p) PROVE Aside(p) /\ faults' = faults
    <3>1. pc[p] \in {"cr_scan", "up_scan", "rn_scan"}
      BY <2>2, Zenon DEF ScanRoutes, Scanned
    <3>2. Scanned[pc[p]] \in {"cr_number", "up_write", "rn_routes"}
      BY <3>1 DEF Scanned
    <3> QED
      BY <1>0, <2>2, <3>1, <3>2, Zenon DEF ScanRoutes, Enter, Goto, others
  <2>3. Aside(p) /\ faults' = faults
    BY <1>8, <2>1, <2>2
  <2> QED
    BY <1>1, <2>3, AsideKeeps
<1> QED
  BY <1>2, <1>3, <1>4, <1>5, <1>6, <1>7, <1>8

(* The SADDs of create_route: the call has its route in hand until it is   *)
(* in the index.                                                           *)
LEMMA IndexingKeeps ==
  ASSUME IInv, NumberInv, Known, ListedInv, NEW p \in Proc,
         IndexInGroup(p) \/ IndexAll(p) \/ IndexOwner(p)
  PROVE  ListedInv'
<1>1. /\ pc[p] \in IndexLabels /\ pc'[p] \in {"cr_all", "cr_owner", "idle"}
      /\ loc'[p] = loc[p] \/ pc'[p] = "idle"
      /\ Elsewhere(p) /\ UNCHANGED <<route, byNumber, nextRoute, faults>>
  BY DEF IndexInGroup, IndexAll, IndexOwner, Next1, Goto, IInv, CallsTyped,
         Elsewhere, others
<1>2. /\ loc[p].r \in 1 .. nextRoute /\ route[loc[p].r].group = loc[p].g
      /\ loc[p].g \in GroupId
  BY <1>1, NumbersInRange DEF ListedInv, Owned, WorkLabels, IInv, TypeOK, RoutesTyped
<1>3. Owned'
  BY <1>1, <1>2 DEF ListedInv, Owned, Elsewhere, WorkLabels
<1>4. ASSUME NEW r \in 1 .. nextRoute, Marked(r)
      PROVE  Marked(r)'
  <2>1. At(r, NumberGone) => At(r, NumberGone)'
    BY <1>1, StillAt DEF NumberGone
  <2>2. r \in inGroup'[route[r].group] \/ At(r, GroupGone)'
    <3>1. CASE IndexInGroup(p)
      <4>1. inGroup' = [inGroup EXCEPT ![loc[p].g] = @ \cup {loc[p].r}]
        BY <3>1 DEF IndexInGroup
      <4>2. CASE r \in inGroup[route[r].group] \/ r = loc[p].r
        BY <1>2, <4>1, <4>2 DEF IInv, TypeOK, RoutesTyped
      <4>3. CASE At(r, GroupGone) /\ r # loc[p].r
        BY <1>1, <4>3, StillAt
      <4> QED
        BY <1>4, <4>2, <4>3 DEF Marked
    <3>2. CASE IndexAll(p) \/ IndexOwner(p)
      <4>1. UNCHANGED inGroup /\ pc[p] \notin GroupGone
        BY <3>2 DEF IndexAll, IndexOwner, Next1, GroupGone
      <4> QED
        BY <1>1, <1>4, <4>1, StillAt DEF Marked
    <3> QED
      BY <3>1, <3>2
  <2>3. r \in routeAll' \/ At(r, AllGone)'
    <3>1. CASE IndexInGroup(p)
      <4>1. UNCHANGED routeAll /\ pc'[p] \in AllGone /\ loc'[p].r = loc[p].r
        BY <3>1 DEF IndexInGroup, Next1, Goto, AllGone, IInv, CallsTyped
      <4> QED
        BY <1>1, <1>4, <4>1, StillAt DEF Marked
    <3>2. CASE IndexAll(p)
      <4>1. routeAll' = routeAll \cup {loc[p].r}
        BY <3>2 DEF IndexAll
      <4> QED
        BY <1>1, <1>4, <4>1, StillAt DEF Marked
    <3>3. CASE IndexOwner(p)
      <4>1. UNCHANGED routeAll /\ pc[p] \notin AllGone
        BY <3>3 DEF IndexOwner, Next1, AllGone
      <4> QED
        BY <1>1, <1>4, <4>1, StillAt DEF Marked
    <3> QED
      BY <3>1, <3>2, <3>3
  <2>4. r \in byOwner' \/ At(r, OwnerGone)'
    <3>1. CASE IndexInGroup(p) \/ IndexAll(p)
      <4>1. UNCHANGED byOwner /\ pc'[p] \in OwnerGone /\ loc'[p].r = loc[p].r
        BY <3>1 DEF IndexInGroup, IndexAll, Next1, Goto, OwnerGone, IInv, CallsTyped
      <4> QED
        BY <1>1, <1>4, <4>1, StillAt DEF Marked
    <3>2. CASE IndexOwner(p)
      <4>1. byOwner' = byOwner \cup {loc[p].r}
        BY <3>2 DEF IndexOwner
      <4> QED
        BY <1>1, <1>4, <4>1, StillAt DEF Marked
    <3> QED
      BY <3>1, <3>2
  <2> QED
    BY <1>1, <1>4, <2>1, <2>2, <2>3, <2>4 DEF Marked
<1>5. Listed => Listed'
  BY <1>1, <1>4 DEF Listed, Intact
<1> QED
  BY <1>1, <1>3, <1>5 DEF ListedInv

(* The DEL and the SREMs of delete_route: the call has its route in hand   *)
(* until the record is dropped too.                                        *)
LEMMA StrippingKeeps ==
  ASSUME IInv, NumberInv, Known, ListedInv, NEW p \in Proc,
         \/ StripNumber(p) \/ StripInGroup(p) \/ StripAll(p) \/ StripOwner(p)
         \/ StripKv(p)
  PROVE  ListedInv'
<1>1. /\ pc[p] \in StripLabels /\ pc'[p] \in StripLabels /\ UNCHANGED loc
      /\ Elsewhere(p) /\ UNCHANGED <<route, nextRoute, faults>>
  BY DEF StripNumber, StripInGroup, StripAll, StripOwner, StripKv, Next1, Goto,
         IInv, CallsTyped, Elsewhere, others, routeVars
<1>2. /\ loc[p].r \in 1 .. nextRoute /\ route[loc[p].r].group = loc[p].g
      /\ route[loc[p].r].number = loc[p].n
      /\ loc[p].g \in GroupId
  BY <1>1, NumbersInRange DEF ListedInv, Owned, WorkLabels, IInv, TypeOK, RoutesTyped
<1>3. Owned'
  BY <1>1, <1>2 DEF ListedInv, Owned, Elsewhere, WorkLabels
<1>4. ASSUME NEW r \in 1 .. nextRoute, Marked(r)
      PROVE  Marked(r)'
  <2>1. byNumber'[route[r].group][route[r].number] = r \/ At(r, NumberGone)'
    <3>1. pc'[p] \in NumberGone
      BY DEF StripNumber, StripInGroup, StripAll, StripOwner, StripKv, Next1, Goto,
             IInv, CallsTyped, NumberGone
    <3>2. CASE At(r, NumberGone)
      BY <1>1, <3>1, <3>2, StillAt
    <3>3. CASE r = loc[p].r
      BY <1>1, <3>1, <3>3 DEF At
    <3>4. CASE r # loc[p].r /\ byNumber[route[r].group][route[r].number] = r
      <4>1. CASE StripNumber(p)
        <5>1. route[r].group # loc[p].g \/ route[r].number # loc[p].n
          BY <1>2, <3>4 DEF NumberInv, Distinct
        <5>2. byNumber' = [byNumber EXCEPT ![loc[p].g][loc[p].n] = NoId]
          BY <4>1 DEF StripNumber
        <5>3. route[r].group \in GroupId
          BY NumbersInRange DEF IInv, TypeOK, RoutesTyped
        <5> QED
          BY <1>2, <3>4, <5>1, <5>2, <5>3 DEF IInv, TypeOK, RoutesTyped
      <4>2. CASE ~StripNumber(p)
        BY <3>4, <4>2 DEF StripInGroup, StripAll, StripOwner, StripKv, routeVars
      <4> QED
        BY <4>1, <4>2
    <3> QED
      BY <1>4, <3>2, <3>3, <3>4 DEF Marked
  <2>2. r \in inGroup'[route[r].group] \/ At(r, GroupGone)'
    <3>1. CASE StripNumber(p)
      <4>1. UNCHANGED inGroup /\ pc[p] \notin GroupGone
        BY <3>1 DEF StripNumber, Next1, GroupGone
      <4> QED
        BY <1>1, <1>4, <4>1, StillAt DEF Marked
    <3>2. CASE ~StripNumber(p)
      <4>1. pc'[p] \in GroupGone
        BY <3>2 DEF StripInGroup, StripAll, StripOwner, StripKv, Next1, Goto,
                    IInv, CallsTyped, GroupGone
      <4>2. CASE At(r, GroupGone)
        BY <1>1, <4>1, <4>2, StillAt
      <4>3. CASE r = loc[p].r
        BY <1>1, <4>1, <4>3 DEF At
      <4>4. CASE r # loc[p].r /\ r \in inGroup[route[r].group]
        <5>1. \/ UNCHANGED inGroup
              \/ inGroup' = [inGroup EXCEPT ![loc[p].g] = @ \ {loc[p].r}]
          BY <3>2 DEF StripInGroup, StripAll, StripOwner, StripKv, routeVars
        <5>2. route[r].group \in GroupId
          BY NumbersInRange DEF IInv, TypeOK, RoutesTyped
        <5> QED
          BY <1>2, <4>4, <5>1, <5>2 DEF IInv, TypeOK, RoutesTyped
      <4> QED
        BY <1>4, <4>2, <4>3, <4>4 DEF Marked
    <3> QED
      BY <3>1, <3>2
  <2>3. r \in routeAll' \/ At(r, AllGone)'
    <3>1. CASE StripNumber(p) \/ StripInGroup(p)
      <4>1. UNCHANGED routeAll /\ pc[p] \notin AllGone
        BY <3>1 DEF StripNumber, StripInGroup, Next1, AllGone
      <4> QED
        BY <1>1, <1>4, <4>1, StillAt DEF Marked
    <3>2. CASE StripAll(p) \/ StripOwner(p) \/ StripKv(p)
      <4>1. /\ pc'[p] \in AllGone
            /\ routeAll' = routeAll \/ routeAll' = routeAll \ {loc[p].r}
        BY <3>2 DEF StripAll, StripOwner, StripKv, Next1, Goto, routeVars,
                    IInv, CallsTyped, AllGone
      <4>2. CASE At(r, AllGone)
        BY <1>1, <4>1, <4>2, StillAt
      <4>3. CASE r = loc[p].r
        BY <1>1, <4>1, <4>3 DEF At
      <4> QED
        BY <1>4, <4>1, <4>2, <4>3 DEF Marked
    <3> QED
      BY <3>1, <3>2
  <2>4. r \in byOwner' \/ At(r, OwnerGone)'
    <3>1. CASE StripNumber(p) \/ StripInGroup(p) \/ StripAll(p)
      <4>1. UNCHANGED byOwner /\ pc[p] \notin OwnerGone
        BY <3>1 DEF StripNumber, StripInGroup, StripAll, Next1, OwnerGone
      <4> QED
        BY <1>1, <1>4, <4>1, StillAt DEF Marked
    <3>2. CASE StripOwner(p) \/ StripKv(p)
      <4>1. /\ pc'[p] \in OwnerGone
            /\ byOwner' = byOwner \/ byOwner' = byOwner \ {loc[p].r}
        BY <3>2 DEF StripOwner, StripKv, Next1, Goto, routeVars, IInv, CallsTyped,
                    OwnerGone
      <4>2. CASE At(r, OwnerGone)
        BY <1>1, <4>1, <4>2, StillAt
      <4>3. CASE r = loc[p].r
        BY <1>1, <4>1, <4>3 DEF At
      <4> QED
        BY <1>4, <4>1, <4>2, <4>3 DEF Marked
    <3> QED
      BY <3>1, <3>2
  <2> QED
    BY <1>1, <2>1, <2>2, <2>3, <2>4 DEF Marked
<1>5. Listed => Listed'
  BY <1>1, <1>4 DEF Listed, Intact
<1> QED
  BY <1>1, <1>3, <1>5 DEF ListedInv

(* delete_route starts on a route that reads, and ends it.                 *)
LEMMA DeletingKeeps ==
  ASSUME IInv, NumberInv, Known, ListedInv, NEW p \in Proc,
         DeleteRoute(p) \/ StripRecord(p)
  PROVE  ListedInv'
<1>1. CASE DeleteRoute(p)
  <2>1. PICK r \in RouteId :
          /\ Intact(r)
          /\ Enter(p, "st_number", [Locals EXCEPT !.g = route[r].group, !.r = r,
                                                  !.n = route[r].number])
    BY <1>1, Zenon DEF DeleteRoute, Slug
  <2> DEFINE l == [Locals EXCEPT !.g = route[r].group, !.r = r, !.n = route[r].number]
  <2>2. l.r = r /\ l.g = route[r].group /\ l.n = route[r].number
    BY DEF Locals
  <2> HIDE DEF l
  <2>3. /\ pc[p] = "idle" /\ pc'[p] = "st_number" /\ loc'[p] = l /\ Elsewhere(p)
        /\ UNCHANGED <<routeVars, faults>>
    BY <1>1, <2>1, Zenon DEF DeleteRoute, Asked, Enter, IInv, CallsTyped, Elsewhere, store, l
  <2>4. Owned'
    BY <2>1, <2>2, <2>3, NamesKnown
    DEF ListedInv, Owned, Elsewhere, WorkLabels, routeVars
  <2>5. \A s, labels : "idle" \notin labels /\ At(s, labels) => At(s, labels)'
    BY <2>3 DEF At, Elsewhere
  <2>6. \A s \in 1 .. nextRoute : Marked(s) => Marked(s)'
    BY <2>3, <2>5 DEF Marked, NumberGone, GroupGone, AllGone, OwnerGone, routeVars
  <2>7. Listed => Listed'
    BY <2>3, <2>6 DEF Listed, Intact, routeVars
  <2> QED
    BY <2>3, <2>4, <2>7 DEF ListedInv
<1>2. CASE StripRecord(p)
  <2>1. PICK r : r = loc[p].r
    OBVIOUS
  <2>2. r \in RouteId /\ loc[p].cd = "none"
    BY <1>2, <2>1, LocTyped DEF StripRecord, IInv, Prepared, NumberInv, NoResetting
  <2>3. /\ pc[p] = "st_record" /\ pc'[p] = "idle" /\ Elsewhere(p)
        /\ route' = [route EXCEPT ![r].has = {}]
        /\ UNCHANGED <<byNumber, inGroup, routeAll, byOwner, nextRoute, faults>>
    BY <1>2, <2>1, <2>2 DEF StripRecord, Goto, IInv, CallsTyped, Elsewhere, others
  <2>4. /\ route'[r].has = {} /\ route'[r].group = route[r].group
        /\ route'[r].number = route[r].number
        /\ \A s \in RouteId \ {r} : route'[s] = route[s]
    BY <2>2, <2>3 DEF IInv, TypeOK, RoutesTyped
  <2>5. Owned'
    BY <2>3, <2>4, NumbersInRange DEF ListedInv, Owned, Elsewhere, WorkLabels
  <2>6. \A s, labels : s # r /\ At(s, labels) => At(s, labels)'
    BY <2>1, <2>3 DEF At, Elsewhere
  <2>7. \A s \in 1 .. nextRoute : s # r /\ Marked(s) => Marked(s)'
    BY <2>3, <2>4, <2>6, NumbersInRange DEF Marked
  <2>8. \A s \in 1 .. nextRoute : Intact(s)' => s # r /\ Intact(s)
    BY <2>4, NumbersInRange DEF Intact, RouteMandatory
  <2>9. Listed => Listed'
    BY <2>3, <2>7, <2>8 DEF Listed
  <2> QED
    BY <2>3, <2>5, <2>9 DEF ListedInv
<1> QED
  BY <1>1, <1>2

(* A new route is found under its number, and its call is on its way to    *)
(* the other indexes.  No route of the group has that number.              *)
LEMMA WritingKeeps ==
  ASSUME IInv, NumberInv, Known, ListedInv, NEW p \in Proc, WriteRoute(p)
  PROVE  ListedInv'
<1>0. PICK r, g, n : r = nextRoute + 1 /\ g = loc[p].g /\ n = loc[p].n
  OBVIOUS
<1> DEFINE rec == [has |-> RouteField \ {"activity"}, group |-> g,
                   number |-> n, gname |-> loc[p].nm, pat |-> loc[p].pat]
           l == [loc[p] EXCEPT !.r = r]
<1>1. /\ pc[p] = "cr_write" /\ nextRoute' = r /\ nextRoute < MaxRoutes
      /\ route' = [route EXCEPT ![r] = rec] /\ Enter(p, "cr_group", l)
      /\ byNumber' = [byNumber EXCEPT ![g][n] = r]
      /\ UNCHANGED <<inGroup, routeAll, byOwner, faults>>
  BY <1>0 DEF WriteRoute, others
<1>2. /\ loc[p] \in LocalRecord /\ nextRoute \in Nat /\ r \in RouteId /\ p \in Numbered
      /\ Prepared("cr_write", loc[p])
  BY <1>0, <1>1, LocTyped, Bounds DEF IInv, TypeOK, RoutesTyped, RouteId, Numbered
<1>3. /\ g \in GroupId /\ n \in Number
  <2>1. g \in GroupId
    BY <1>0, <1>2 DEF Prepared
  <2>2. counter[g] \in Number \cup {0} /\ n \in 1 .. counter[g]
    BY <1>0, <1>2, <2>1 DEF NumberInv, Counted, IInv, TypeOK, CountsTyped
  <2> QED
    BY <2>1, <2>2, Bounds
<1>4. rec.group = g /\ rec.number = n /\ l.r = r /\ l.g = g
  BY <1>0, <1>2 DEF LocalRecord
<1> HIDE DEF rec, l
<1>5. /\ pc'[p] = "cr_group" /\ loc'[p] = l /\ Elsewhere(p)
  BY <1>1 DEF Enter, IInv, CallsTyped, Elsewhere
<1>6. route'[r] = rec /\ \A s \in 1 .. nextRoute : route'[s] = route[s]
  BY <1>0, <1>1, <1>2, NumbersInRange DEF IInv, TypeOK, RoutesTyped
<1>7. 1 .. nextRoute' = (1 .. nextRoute) \cup {r}
  BY <1>0, <1>1, <1>2
<1>8. Owned'
  BY <1>4, <1>5, <1>6, <1>7 DEF ListedInv, Owned, Elsewhere, WorkLabels
<1>9. \A s, labels : "cr_write" \notin labels /\ At(s, labels) => At(s, labels)'
  BY <1>1, <1>5 DEF At, Elsewhere
<1>10. ASSUME NEW s \in 1 .. nextRoute, Marked(s)
       PROVE  Marked(s)'
  <2>1. route[s].group # g \/ route[s].number # n
    BY <1>0, <1>2 DEF NumberInv, Distinct
  <2>2. route[s].group \in GroupId
    BY NumbersInRange DEF IInv, TypeOK, RoutesTyped
  <2>3. byNumber'[route[s].group][route[s].number]
          = byNumber[route[s].group][route[s].number]
    BY <1>1, <1>3, <2>1, <2>2 DEF IInv, TypeOK, RoutesTyped
  <2> QED
    BY <1>1, <1>6, <1>9, <1>10, <2>3
    DEF Marked, NumberGone, GroupGone, AllGone, OwnerGone
<1>11. Marked(r)'
  <2>1. byNumber'[g][n] = r
    BY <1>1, <1>3 DEF IInv, TypeOK, RoutesTyped
  <2>2. \A labels : "cr_group" \in labels => At(r, labels)'
    BY <1>4, <1>5 DEF At
  <2> QED
    BY <1>4, <1>6, <2>1, <2>2 DEF Marked, GroupGone, AllGone, OwnerGone
<1>12. Listed => Listed'
  BY <1>6, <1>7, <1>10, <1>11 DEF Listed, Intact
<1> QED
  BY <1>1, <1>8, <1>12 DEF ListedInv

(* The routes that exist initially are in every index.                     *)
LEMMA InitListed == Init => ListedInv
<1> SUFFICES ASSUME Init PROVE ListedInv
  OBVIOUS
<1>1. PICK ng \in 0 .. MaxGroups, nr \in 0 .. MaxRoutes :
        /\ SeedName \in [1 .. ng -> Name]
        /\ SeedRoute \in [1 .. nr -> [group : 1 .. ng, pat : Pattern]]
  BY SeedAssumption, Zenon
<1>2. /\ DOMAIN SeedName = 1 .. ng /\ 1 .. ng \subseteq GroupId
      /\ DOMAIN SeedRoute = 1 .. nr /\ 1 .. nr \subseteq RouteId
      /\ 1 .. nr \subseteq Number
  BY <1>1, Bounds DEF GroupId, RouteId, Number
<1>3. nextRoute = nr
  BY <1>1, <1>2, Bounds, FS_Interval DEF Init
<1>4. \A r \in 1 .. nr : route[r].group = SeedRoute[r].group /\ route[r].number = r
  BY <1>1, <1>2 DEF Init
<1>5. \A r \in 1 .. nr : SeedRoute[r].group \in GroupId
  BY <1>1, <1>2
<1>6. \A r \in 1 .. nr :
        /\ byNumber[SeedRoute[r].group][r] = r /\ r \in inGroup[SeedRoute[r].group]
        /\ r \in routeAll /\ r \in byOwner
  BY <1>2, <1>5 DEF Init
<1>7. Listed
  BY <1>3, <1>4, <1>6 DEF Listed, Marked
<1>8. Owned
  BY DEF Init, Owned, WorkLabels
<1> QED
  BY <1>7, <1>8 DEF ListedInv

(* Every step keeps the indexes, until an error ends a call.               *)
LEMMA NextListed ==
  ASSUME NoReset
  PROVE  IInv /\ NumberInv /\ Known /\ ListedInv /\ [Next]_vars => ListedInv'
<1> SUFFICES ASSUME IInv, NumberInv, Known, ListedInv, [Next]_vars PROVE ListedInv'
  OBVIOUS
<1>1. ASSUME NEW p \in Proc, Call(p)
      PROVE  ListedInv'
  <2>1. /\ ~DeleteGroup(p) /\ ~ClearJournal(p)
    BY DEF NoReset, DeleteGroup, ClearJournal, Asked
  <2>2. pc[p] \notin ResetLabels
    BY DEF NumberInv, NoResetting
  <2>3. /\ ~ClearCounters(p) /\ ~CascadeRead(p) /\ ~CascadeList(p)
        /\ ~CascadeRoute(p) /\ ~CascadeUnlist(p) /\ ~CascadeMembers(p)
        /\ ~CascadeData(p) /\ ~CascadeCounters(p) /\ ~CascadeName(p)
        /\ ~CascadeRecord(p) /\ ~CascadeDone(p)
    BY <2>2, Zenon
    DEF ClearCounters, CascadeRead, CascadeList, CascadeRoute, CascadeUnlist,
        CascadeMembers, CascadeData, CascadeCounters, CascadeName,
        CascadeRecord, CascadeDone, Next1
  <2>4. CASE SetState(p) \/ ClearState(p)
    <3>1. IndexesKept /\ UNCHANGED <<pc, loc, faults>>
      BY <2>4 DEF SetState, ClearState, routeVars, IndexesKept, Intact
    <3> QED
      BY <3>1, StandingIndexed
  <2>5. CASE WriteGroup(p)
    <3>1. IndexesKept /\ Aside(p) /\ UNCHANGED faults
      BY <2>5 DEF WriteGroup, Enter, routeVars, others, IndexesKept, Intact, Aside,
                  Elsewhere, WorkLabels, IInv, CallsTyped
    <3> QED
      BY <3>1, AsideKeeps
  <2>6. CASE Fault(p)
    <3>1. faults' # 0
      BY <2>6, Bounds DEF Fault, IInv, TypeOK, CountsTyped
    <3>2. pc'[p] \in {"idle", "sw_release"} /\ Elsewhere(p) /\ UNCHANGED routeVars
      BY <2>6, LocTyped DEF Fault, Abort, Goto, LocalRecord, Elsewhere, store, IInv, CallsTyped
    <3>3. Owned'
      BY <3>2 DEF ListedInv, Owned, Elsewhere, WorkLabels, routeVars
    <3> QED
      BY <3>1, <3>3 DEF ListedInv
  <2> QED
    BY <1>1, <2>1, <2>3, <2>4, <2>5, <2>6, CallsAside, IndexingKeeps,
       StrippingKeeps, DeletingKeeps, WritingKeeps
    DEF Call, Cascade
<1>2. CASE Expire \/ UNCHANGED vars
  <2>1. IndexesKept /\ UNCHANGED <<pc, loc, faults>>
    <3>1. UNCHANGED <<routeVars, pc, loc, faults>>
      BY <1>2 DEF Expire, ExpireRecord, ExpireName, vars, store, others
    <3> QED
      BY <3>1 DEF IndexesKept, Intact, routeVars
  <2> QED
    BY <2>1, StandingIndexed
<1> QED
  BY <1>1, <1>2 DEF Next

(* Until an error ends a call half way, a route whose record reads is      *)
(* found by its slug and in every listing as soon as the calls on its      *)
(* group are over, however creates, renames, updates, deletes and expiries *)
(* interleaved, as long as no group is deleted and no journal cleared.     *)
THEOREM NoRouteIsLost ==
  ASSUME NoReset
  PROVE  Spec => [](faults = 0 => NoLostRoute)
<1>1. IInv /\ ListedInv => (faults = 0 => NoLostRoute)
  <2> SUFFICES ASSUME IInv, ListedInv, faults = 0, NEW r \in 1 .. nextRoute,
                      Intact(r), route[r].group \in LiveQuiet
               PROVE  /\ byNumber[route[r].group][route[r].number] = r
                      /\ r \in inGroup[route[r].group] \cap routeAll \cap byOwner
    BY DEF NoLostRoute
  <2>1. ASSUME NEW labels \in SUBSET WorkLabels, At(r, labels)
        PROVE  FALSE
    <3>1. PICK p \in Proc : pc[p] \in labels /\ loc[p].r = r
      BY <2>1 DEF At
    <3>2. pc[p] # "idle" /\ loc[p].g = route[r].group
      BY <3>1, Zenon DEF ListedInv, Owned, WorkLabels
    <3> QED
      BY <3>2 DEF LiveQuiet, Quiet
  <2>2. /\ NumberGone \subseteq WorkLabels /\ GroupGone \subseteq WorkLabels
        /\ AllGone \subseteq WorkLabels /\ OwnerGone \subseteq WorkLabels
    BY DEF WorkLabels, NumberGone, GroupGone, AllGone, OwnerGone
  <2> QED
    BY <2>1, <2>2 DEF ListedInv, Listed, Marked
<1>2. Init => IInv /\ NumberInv /\ Known /\ ListedInv
  BY InitTyped, InitNumbered, InitDirected, InitListed
<1>3. IInv /\ NumberInv /\ Known /\ ListedInv /\ [Next]_vars
        => IInv' /\ NumberInv' /\ Known' /\ ListedInv'
  BY NextTyped, NextNumbered, NextDirected, NextListed
<1> QED
  BY <1>1, <1>2, <1>3, PTL DEF Spec

-----------------------------------------------------------------------------
(* The sweepers, next to any number of calls that may delete groups and    *)
(* clear journals as well.                                                 *)

(* A new route belongs to a group that was opened,                         *)
LEMMA WriteRouteKnown ==
  ASSUME IInv, Known, NEW p \in Proc, WriteRoute(p)
  PROVE  Known'
<1>0. PICK r, gid : r = nextRoute + 1 /\ gid = loc[p].g
  OBVIOUS
<1> DEFINE rec == [has |-> RouteField \ {"activity"}, group |-> gid,
                   number |-> loc[p].n, gname |-> loc[p].nm, pat |-> loc[p].pat]
           l == [loc[p] EXCEPT !.r = r]
<1>1. /\ pc[p] = "cr_write" /\ nextRoute' = r /\ nextRoute < MaxRoutes
      /\ route' = [route EXCEPT ![r] = rec]
      /\ Enter(p, "cr_group", l) /\ UNCHANGED <<group, nextGroup>>
  BY <1>0 DEF WriteRoute, groupVars
<1>2. /\ loc[p] \in LocalRecord /\ Prepared("cr_write", loc[p])
      /\ nextRoute \in Nat /\ nextGroup \in Nat /\ r \in RouteId
  BY <1>0, <1>1, LocTyped, Bounds DEF IInv, TypeOK, RoutesTyped, GroupsTyped, RouteId
<1>3. l.g = gid /\ gid \in GroupId
  BY <1>0, <1>2 DEF LocalRecord, Prepared
<1>4. gid \in 1 .. nextGroup
  BY <1>0, <1>2, <1>3, NamesKnown, Bounds DEF GroupId
<1>5. rec.has = RouteField \ {"activity"} /\ rec.group = gid
  OBVIOUS
<1> HIDE DEF rec, l
<1>6. route'[r] = rec /\ \A s \in RouteId \ {r} : route'[s] = route[s]
  BY <1>1, <1>2 DEF IInv, TypeOK, RoutesTyped
<1>7. Intact(r)' /\ \A s \in RouteId \ {r} : Intact(s)' <=> Intact(s)
  BY <1>5, <1>6 DEF Intact, RouteMandatory, RouteField
<1>8. GroupsWhole'
  BY <1>1 DEF Known, GroupsWhole, Readable
<1>9. RoutesWhole'
  BY <1>6, <1>7 DEF Known, RoutesWhole
<1>10. \A q \in Proc : loc'[q].g \in 0 .. nextGroup
  BY <1>1, <1>3, <1>4 DEF IInv, CallsTyped, Enter, Known, GroupsOpened
<1>11. 1 .. nextRoute' = (1 .. nextRoute) \cup {r}
  BY <1>0, <1>1, <1>2
<1>12. \A s \in 1 .. nextRoute' : route'[s].group \in 1 .. nextGroup
  BY <1>4, <1>5, <1>6, <1>11, NumbersInRange DEF Known, GroupsOpened
<1> QED
  BY <1>1, <1>8, <1>9, <1>10, <1>12 DEF Known, GroupsOpened

(* and one that is deleted has no id, though its group is remembered.      *)
LEMMA StripRecordKnown ==
  ASSUME IInv, Known, NEW p \in Proc, StripRecord(p)
  PROVE  Known'
<1>0. PICK r : r = loc[p].r
  OBVIOUS
<1>1. r \in RouteId /\ loc[p] \in LocalRecord
  BY <1>0, LocTyped DEF StripRecord, IInv, Prepared
<1> DEFINE has == IF loc[p].cd # "none" THEN route[r].has \cap {"source"} ELSE {}
<1>2. /\ route' = [route EXCEPT ![r].has = has]
      /\ UNCHANGED <<group, nextGroup, nextRoute>>
  BY <1>0 DEF StripRecord, groupVars
<1>3. "id" \notin has
  OBVIOUS
<1> HIDE DEF has
<1>4. /\ "id" \notin route'[r].has /\ route'[r].group = route[r].group
      /\ \A s \in RouteId \ {r} : route'[s] = route[s]
  BY <1>1, <1>2, <1>3 DEF IInv, TypeOK, RoutesTyped
<1>5. \A s \in RouteId \ {r} : Intact(s)' <=> Intact(s)
  BY <1>4 DEF Intact
<1>6. GroupsWhole' /\ RoutesWhole'
  BY <1>2, <1>4, <1>5 DEF Known, GroupsWhole, RoutesWhole, Readable
<1>7. Directed
  <2>1. (\E label : Goto(p, label)) \/ Enter(p, "cd_unlist", loc[p])
    BY DEF StripRecord
  <2>2. loc[p].g \in 0 .. nextGroup
    BY NamesKnown
  <2> QED
    BY <2>1, <2>2, DirectedOn, DirectedTo
<1> QED
  BY <1>2, <1>4, <1>6, <1>7, NumbersInRange DEF Known, GroupsOpened, Directed

(* Deleting a group, but for its record, and clearing a journal write no   *)
(* record.                                                                 *)
LEMMA CascadeSteady ==
  ASSUME IInv, Known, NEW p \in Proc,
         \/ DeleteGroup(p) \/ ClearJournal(p) \/ ClearCounters(p) \/ CascadeRead(p)
         \/ CascadeList(p) \/ CascadeRoute(p) \/ CascadeUnlist(p) \/ CascadeMembers(p)
         \/ CascadeData(p) \/ CascadeCounters(p) \/ CascadeName(p) \/ CascadeDone(p)
  PROVE  Steady /\ Directed
<1>0. loc[p] \in LocalRecord /\ loc[p].g \in 0 .. nextGroup
  BY LocTyped, NamesKnown DEF IInv
<1>1. Steady
  <2>1. UNCHANGED <<group, route, nextGroup, nextRoute>>
    BY Zenon DEF DeleteGroup, ClearJournal, ClearCounters, CascadeRead, CascadeList,
           CascadeRoute, CascadeUnlist, CascadeMembers, CascadeData, CascadeCounters,
           CascadeName, CascadeDone, store, groupVars, routeVars
  <2> QED
    BY <2>1, RecordsLeft
<1>2. CASE \/ ClearCounters(p) \/ CascadeUnlist(p) \/ CascadeMembers(p)
           \/ CascadeData(p) \/ CascadeCounters(p) \/ CascadeName(p)
  <2>1. \E label : Goto(p, label)
    BY <1>2 DEF ClearCounters, CascadeUnlist, CascadeMembers, CascadeData,
                CascadeCounters, CascadeName, Next1
  <2> QED
    BY <1>1, <2>1, DirectedOn
<1>3. CASE DeleteGroup(p) \/ ClearJournal(p)
  <2>1. PICK g \in GroupId, label \in {"cd_read", "cj_counters"} :
          Readable(g) /\ Enter(p, label, [Locals EXCEPT !.g = g])
    BY <1>3, Zenon DEF DeleteGroup, ClearJournal
  <2> DEFINE l == [Locals EXCEPT !.g = g]
  <2>2. l.g = g /\ g \in 0 .. nextGroup
    BY <2>1, NamesKnown DEF Locals
  <2> HIDE DEF l
  <2> QED
    BY <1>1, <2>1, <2>2, DirectedTo, Zenon DEF l
<1>4. CASE CascadeRead(p) \/ CascadeList(p) \/ CascadeRoute(p)
  <2>1. (\E label : Goto(p, label)) \/ \E label, l : Enter(p, label, l) /\ l.g = loc[p].g
    <3>1. CASE CascadeRead(p)
      <4> DEFINE found == [loc[p] EXCEPT !.cd = "found", !.nm = group[loc[p].g].name]
                 gone == [loc[p] EXCEPT !.cd = "gone"]
      <4>1. Enter(p, "cd_list", found) \/ Enter(p, "cd_list", gone) \/ \E label : Goto(p, label)
        BY <3>1 DEF CascadeRead, Abort
      <4>2. found.g = loc[p].g /\ gone.g = loc[p].g
        BY <1>0 DEF LocalRecord
      <4> QED
        BY <4>1, <4>2, Zenon
    <3>2. CASE CascadeList(p)
      <4> DEFINE l == [loc[p] EXCEPT !.todo = inGroup[loc[p].g]]
      <4>1. Enter(p, "cd_route", l) /\ l.g = loc[p].g
        BY <1>0, <3>2 DEF CascadeList, LocalRecord
      <4> QED
        BY <4>1, Zenon
    <3>3. CASE CascadeRoute(p)
      <4> DEFINE l(r) == [loc[p] EXCEPT !.r = r, !.n = route[r].number, !.todo = @ \ {r}]
      <4>1. (\E label : Goto(p, label)) \/ \E label, r : Enter(p, label, l(r))
        BY <3>3, Zenon DEF CascadeRoute
      <4>2. \A r : l(r).g = loc[p].g
        BY <1>0 DEF LocalRecord
      <4> HIDE DEF l
      <4> QED
        BY <4>1, <4>2
    <3> QED
      BY <1>4, <3>1, <3>2, <3>3
  <2> QED
    BY <1>0, <1>1, <2>1, DirectedOn, DirectedTo
<1>5. CASE CascadeDone(p)
  <2> DEFINE l == [Locals EXCEPT !.left = loc[p].left, !.fail = loc[p].fail]
  <2>1. Enter(p, loc[p].ret, l) /\ l.g = 0
    BY <1>5 DEF CascadeDone, Locals, NoId
  <2>2. 0 \in 0 .. nextGroup
    BY Bounds DEF IInv, TypeOK, GroupsTyped
  <2> HIDE DEF l
  <2> QED
    BY <1>1, <2>1, <2>2, DirectedTo
<1> QED
  BY <1>2, <1>3, <1>4, <1>5

(* A group that is gone stays gone: ids are used once.                     *)
Settled ==
  /\ nextGroup <= nextGroup'
  /\ \A g \in GroupId : g <= nextGroup /\ "id" \in group'[g].has => "id" \in group[g].has

(* as it does when no group is opened or closed.                           *)
LEMMA SteadySettles == ASSUME IInv, Steady PROVE Settled
BY Bounds DEF Steady, Settled, IInv, TypeOK, GroupsTyped

(* Deleting the record of a group ends it.                                 *)
LEMMA CascadeRecordKnown ==
  ASSUME IInv, Known, NEW p \in Proc, CascadeRecord(p)
  PROVE  Known' /\ Settled
<1>1. PICK g \in GroupId : g = loc[p].g
  BY LocTyped DEF CascadeRecord, Next1, IInv, Prepared
<1>2. /\ group' = [group EXCEPT ![g].has = @ \cap {"callout_enabled"}]
      /\ Goto(p, "cd_all") /\ UNCHANGED <<nextGroup, route, nextRoute>>
  BY <1>1 DEF CascadeRecord, Next1, routeVars
<1>3. "id" \notin group'[g].has /\ \A h \in GroupId \ {g} : group'[h] = group[h]
  BY <1>2 DEF IInv, TypeOK, GroupsTyped
<1>4. GroupsWhole' /\ RoutesWhole'
  BY <1>2, <1>3 DEF Known, GroupsWhole, RoutesWhole, Readable, Intact
<1>5. Directed
  BY <1>2, DirectedOn
<1>6. GroupsOpened'
  BY <1>2, <1>5 DEF Known, GroupsOpened, Directed
<1>7. Settled
  BY <1>2, <1>3, Bounds DEF Settled, IInv, TypeOK, GroupsTyped
<1> QED
  BY <1>4, <1>6, <1>7 DEF Known

(* Whatever a call does, no group comes back.                              *)
LEMMA CallKnown ==
  ASSUME IInv, Known, NEW p \in Proc, Call(p)
  PROVE  Known' /\ Settled
<1>1. \/ Steady /\ Directed
      \/ WriteGroup(p) \/ WriteRoute(p) \/ StripRecord(p) \/ CascadeRecord(p)
  BY GroupCallsSteady, DispatchSteady, RenameSteady, ScanSteady, RouteCallsSteady,
     OthersSteady, CascadeSteady
  DEF Call, Cascade
<1>2. CASE Steady /\ Directed
  BY <1>2, SteadyKeeps, SteadySettles
<1>3. CASE WriteGroup(p)
  <2>1. PICK g : g = nextGroup + 1 /\ nextGroup' = g
    BY <1>3 DEF WriteGroup
  <2>2. \A h \in GroupId : h # g => group'[h] = group[h]
    BY <1>3, <2>1 DEF WriteGroup, IInv, TypeOK, GroupsTyped
  <2>3. Settled
    BY <2>1, <2>2, Bounds DEF Settled, IInv, TypeOK, GroupsTyped, GroupId
  <2> QED
    BY <1>3, <2>3, WriteGroupOpens
<1>4. CASE WriteRoute(p) \/ StripRecord(p)
  <2>1. UNCHANGED <<group, nextGroup>>
    BY <1>4 DEF WriteRoute, StripRecord, groupVars
  <2>2. Settled
    BY <2>1, Bounds DEF Settled, IInv, TypeOK, GroupsTyped
  <2> QED
    BY <1>4, <2>2, WriteRouteKnown, StripRecordKnown
<1> QED
  BY <1>1, <1>2, <1>3, <1>4, CascadeRecordKnown

(* A record that expires ends its group, and no TTL brings one back.       *)
LEMMA ExpireKnown ==
  ASSUME IInv, Known, Expire
  PROVE  Known' /\ Settled
<1>1. ASSUME NEW g \in GroupId, ExpireRecord(g) PROVE Known' /\ Settled
  <2>1. group' = [group EXCEPT ![g].has = {}] /\ nextGroup' = nextGroup
    BY <1>1 DEF ExpireRecord
  <2>2. group'[g].has = {} /\ \A h \in GroupId \ {g} : group'[h] = group[h]
    BY <2>1 DEF IInv, TypeOK, GroupsTyped
  <2>3. Settled
    BY <2>1, <2>2, Bounds DEF Settled, IInv, TypeOK, GroupsTyped
  <2> QED
    BY <1>1, <2>3, ExpireRecordCloses
<1> QED
  BY <1>1, OthersSteady, SteadyKeeps, SteadySettles DEF Expire

(* A sweep keeps the types: it collects ids of routes and of their groups. *)
LEMMA SweepTyped ==
  ASSUME IInv, NEW s \in Sweeper, Sweep(s)
  PROVE  IInv'
<1>0. /\ s \in Proc /\ loc[s] \in LocalRecord /\ Prepared(pc[s], loc[s])
      /\ pc[s] \in SweepLabels =>
           loc[s].fail = "sw_release" /\ \A label \in SweepLabels : Prepared(label, loc[s])
  BY LocTyped, SweeperAssumption DEF IInv, Prepared
<1>1. CASE Claim(s)
  <2> DEFINE l == [Locals EXCEPT !.fail = "sw_release"]
  <2>1. Enter(s, "sw_list", l) /\ UNCHANGED store
    BY <1>1 DEF Claim
  <2>2. l \in LocalRecord /\ Prepared("sw_list", l)
    BY PatternTypes DEF Locals, LocalRecord, NoId, Prepared
  <2>3. CallsTyped'
    BY <1>0, <2>1, <2>2, EnterTyped DEF IInv
  <2>4. UNCHANGED calls /\ (faults' = faults \/ (faults < MaxFaults /\ faults' = faults + 1))
    BY <1>1 DEF Claim
  <2>5. CountsTyped'
    BY <2>1, <2>4, Bounds DEF IInv, TypeOK, CountsTyped, store
  <2> QED
    BY <2>1, <2>3, <2>5, GroupsKept, RoutesKept DEF IInv, TypeOK, store
<1>2. CASE SweepList(s)
  <2> DEFINE l == [loc[s] EXCEPT !.todo = routeAll]
  <2>1. l \in LocalRecord /\ l.fail = "sw_release"
    BY <1>0, <1>2, Zenon DEF SweepList, LocalRecord, IInv, TypeOK, RoutesTyped
  <2>3. Prepared("sw_read", l)
    BY <2>1 DEF Prepared
  <2>2. CallsTyped'
    BY <1>0, <1>2, <2>1, <2>3, EnterTyped DEF SweepList, IInv
  <2> QED
    BY <1>2, <2>2, StoreKept DEF SweepList
<1>3. CASE SweepRead(s)
  <2> DEFINE l(r) == [loc[s] EXCEPT !.todo = @ \ {r}, !.left = @ \cup {route[r].group}]
  <2>1. loc[s].fail = "sw_release" /\ pc[s] \in SweepLabels
    BY <1>0, <1>3, Zenon DEF SweepRead
  <2>2. \/ Goto(s, "sw_probe") \/ Goto(s, "sw_release")
        \/ \E r \in loc[s].todo : Intact(r) /\ Enter(s, "sw_read", l(r))
    BY <1>3, <2>1, Zenon DEF SweepRead, Abort
  <2>3. ASSUME NEW r \in loc[s].todo, Intact(r)
        PROVE  l(r) \in LocalRecord /\ Prepared("sw_read", l(r))
    <3>1. route[r].group \in GroupId
      BY <1>0, <2>3 DEF LocalRecord, Intact, RouteMandatory, IInv, TypeOK, RoutesTyped
    <3>2. l(r) \in LocalRecord
      BY <1>0, <3>1, Zenon DEF LocalRecord
    <3>3. l(r).ret = loc[s].ret /\ l(r).fail = "sw_release"
      BY <1>0, <2>1 DEF LocalRecord
    <3> QED
      BY <3>2, <3>3 DEF Prepared
  <2>4. CallsTyped'
    BY <1>0, <2>1, <2>2, <2>3, EnterTyped, GotoTyped, Zenon DEF IInv
  <2> QED
    BY <1>3, <2>4, StoreKept, Zenon DEF SweepRead
<1>4. CASE SweepProbe(s)
  <2> DEFINE l(g) == [loc[s] EXCEPT !.left = @ \ {g}]
             c(g) == [l(g) EXCEPT !.g = g, !.ret = "sw_probe"]
  <2>1. PICK g \in loc[s].left : Enter(s, "sw_probe", l(g)) \/ Enter(s, "cd_read", c(g))
    BY <1>4, Zenon DEF SweepProbe
  <2>2. g \in GroupId /\ loc[s].fail = "sw_release"
    BY <1>0, <1>4 DEF LocalRecord, Prepared, SweepProbe
  <2>3. l(g) \in LocalRecord /\ c(g) \in LocalRecord
    BY <1>0, <2>2, Zenon DEF LocalRecord
  <2>4. Prepared("sw_probe", l(g)) /\ Prepared("cd_read", c(g))
    BY <1>0, <2>2 DEF LocalRecord, Prepared
  <2>5. CallsTyped'
    BY <1>0, <2>1, <2>3, <2>4, EnterTyped DEF IInv
  <2>6. UNCHANGED <<store, calls>>
        /\ (faults' = faults \/ (faults < MaxFaults /\ faults' = faults + 1))
    BY <1>4 DEF SweepProbe, others
  <2>7. CountsTyped'
    BY <2>6, Bounds DEF IInv, TypeOK, CountsTyped, store
  <2> QED
    BY <2>5, <2>6, <2>7, GroupsKept, RoutesKept DEF IInv, TypeOK, store
<1>5. CASE SweepEnd(s)
  <2>1. CallsTyped'
    BY <1>0, <1>5, GotoTyped DEF SweepEnd, IInv
  <2> QED
    BY <1>5, <2>1, StoreKept DEF SweepEnd
<1>6. CASE Release(s) \/ Crash(s)
  <2>1. CallsTyped'
    BY <1>0, <1>6, IdleTyped DEF Release, Crash, IInv
  <2>2. UNCHANGED <<store, calls>>
        /\ (faults' = faults \/ (faults < MaxFaults /\ faults' = faults + 1))
    BY <1>6 DEF Release, Crash
  <2>3. CountsTyped'
    BY <2>2, Bounds DEF IInv, TypeOK, CountsTyped, store
  <2> QED
    BY <2>1, <2>2, <2>3, GroupsKept, RoutesKept DEF IInv, TypeOK, store
<1> QED
  BY <1>1, <1>2, <1>3, <1>4, <1>5, <1>6 DEF Sweep

(* Every step of the registry and of its sweepers keeps the invariant.     *)
LEMMA LNextTyped == IInv /\ [LNext]_vars => IInv'
<1> SUFFICES ASSUME IInv, [LNext]_vars PROVE IInv'
  OBVIOUS
<1>1. CASE LeaseExpires
  <2>1. UNCHANGED <<store, pc, loc, calls, faults>>
    BY <1>1 DEF LeaseExpires
  <2>2. CallsTyped' /\ CountsTyped'
    BY <2>1 DEF IInv, TypeOK, CallsTyped, CountsTyped, Prepared, store
  <2> QED
    BY <2>1, <2>2, GroupsKept, RoutesKept DEF IInv, TypeOK, store
<1> QED
  BY <1>1, NextTyped, SweepTyped DEF LNext

(* The labels of a sweeper, and those at which it cascades a group         *)
Hunting == StripLabels \cup LoopLabels

(* A sweeper at work only knows groups that were opened, and cascades one  *)
(* whose id is gone, unless an error made it believe so.                   *)
Aimed(s) ==
  pc[s] \in Hunting =>
    loc[s].g \in GroupId /\ loc[s].g <= nextGroup /\ "id" \notin group[loc[s].g].has

SweepInv ==
  /\ \A s \in Sweeper : pc[s] \in {"idle"} \cup SweepLabels \cup Hunting
  /\ \A s \in Sweeper : loc[s].left \subseteq 1 .. nextGroup
  /\ faults = 0 => \A s \in Sweeper : Aimed(s)

(* A call takes its own steps only.                                        *)
LEMMA CallAlone ==
  ASSUME IInv, NEW p \in Proc, Call(p)
  PROVE  Elsewhere(p) /\ faults' >= faults
<1> USE DEF Elsewhere
<1>0. CallsTyped /\ faults \in Nat
  BY Bounds DEF IInv, TypeOK, CountsTyped
<1>1. ASSUME NEW label, Goto(p, label) PROVE Elsewhere(p)
  BY <1>0, <1>1 DEF CallsTyped, Goto
<1>2. ASSUME NEW label, NEW l, Enter(p, label, l) PROVE Elsewhere(p)
  BY <1>0, <1>2 DEF CallsTyped, Enter
<1> HIDE DEF Elsewhere
<1>3. CASE \/ ArmRecord(p) \/ ArmName(p) \/ IndexGroup(p) \/ PatchTtl(p) \/ PatchFlags(p)
           \/ HitRoute(p) \/ HitGroup(p) \/ RenameCheck(p) \/ RenameRecord(p)
           \/ RenameDrop(p) \/ IndexInGroup(p) \/ IndexAll(p) \/ IndexOwner(p)
           \/ UpdatePattern(p) \/ UpdateArtifact(p) \/ StripNumber(p) \/ StripInGroup(p)
           \/ StripAll(p) \/ StripOwner(p) \/ StripKv(p) \/ CascadeUnlist(p)
           \/ CascadeMembers(p) \/ CascadeData(p) \/ CascadeCounters(p) \/ CascadeName(p)
           \/ CascadeRecord(p) \/ ClearCounters(p)
  <2>1. (\E label : Goto(p, label)) /\ UNCHANGED faults
    BY <1>3, Zenon DEF ArmRecord, ArmName, IndexGroup, PatchTtl, PatchFlags, HitRoute, HitGroup,
       RenameCheck, RenameRecord, RenameDrop, IndexInGroup, IndexAll, IndexOwner,
       UpdatePattern, UpdateArtifact, StripNumber, StripInGroup, StripAll, StripOwner,
       StripKv, CascadeUnlist, CascadeMembers, CascadeData, CascadeCounters, CascadeName,
       CascadeRecord, ClearCounters, Next1, Return, others
  <2> QED
    BY <1>0, <1>1, <2>1
<1>4. CASE \/ CreateGroup(p) \/ PatchGroup(p) \/ RefreshGroup(p) \/ Dispatch(p)
           \/ RenameGroup(p) \/ CreateRoute(p) \/ UpdateRoute(p) \/ DeleteRoute(p)
           \/ DeleteGroup(p) \/ ClearJournal(p)
  <2>1. (\E label, l : Enter(p, label, l)) /\ UNCHANGED faults
    BY <1>4, Zenon DEF CreateGroup, PatchGroup, RefreshGroup, Dispatch, RenameGroup,
       CreateRoute, UpdateRoute, DeleteRoute, DeleteGroup, ClearJournal
  <2> QED
    BY <1>0, <1>2, <2>1
<1>5. CASE \/ WriteGroup(p) \/ Bump(p) \/ RenameSet(p) \/ RenameRoute(p) \/ ListRoutes(p)
           \/ ScanRoutes(p) \/ NextNumber(p) \/ WriteRoute(p) \/ StripRecord(p)
           \/ CascadeRead(p) \/ CascadeList(p) \/ CascadeDone(p)
  <2>1. ((\E label : Goto(p, label)) \/ \E label, l : Enter(p, label, l)) /\ UNCHANGED faults
    BY <1>5, Zenon DEF WriteGroup, Bump, RenameSet, RenameRoute, ListRoutes, ScanRoutes,
       NextNumber, WriteRoute, StripRecord, CascadeRead, CascadeList, CascadeDone, Abort,
       others
  <2> QED
    BY <1>0, <1>1, <1>2, <2>1
<1>6. CASE CascadeRoute(p) \/ Fault(p)
  <2>1. (\E label : Goto(p, label)) \/ \E label, l : Enter(p, label, l)
    BY <1>6, Zenon DEF CascadeRoute, Fault, Abort
  <2>2. faults' = faults \/ faults' = faults + 1
    BY <1>6, Zenon DEF CascadeRoute, Fault
  <2> QED
    BY <1>0, <1>1, <1>2, <2>1, <2>2
<1>7. CASE SetState(p) \/ ClearState(p)
  BY <1>0, <1>7 DEF SetState, ClearState, Elsewhere
<1> QED
  BY <1>3, <1>4, <1>5, <1>6, <1>7 DEF Call, Cascade

(* A sweeper makes no calls of its own but the cascade it is at.           *)
LEMMA SweeperCascades ==
  ASSUME SweepInv, NEW s \in Sweeper, Call(s)
  PROVE  Cascade(s) \/ Fault(s)
<1>1. pc[s] \in {"idle"} \cup SweepLabels \cup Hunting /\ \A op : ~Asked(s, op)
  <2>1. Ops[s] = {}
    BY SweeperAssumption
  <2> QED
    BY <2>1 DEF SweepInv, Asked
<1>2. /\ ~ArmRecord(s) /\ ~ArmName(s) /\ ~WriteGroup(s) /\ ~IndexGroup(s) /\ ~PatchTtl(s)
      /\ ~PatchFlags(s) /\ ~HitRoute(s) /\ ~HitGroup(s) /\ ~Bump(s) /\ ~RenameCheck(s)
      /\ ~RenameRecord(s) /\ ~RenameDrop(s) /\ ~RenameSet(s) /\ ~RenameRoute(s)
  BY <1>1 DEF Hunting, ArmRecord, ArmName, WriteGroup, IndexGroup, PatchTtl, PatchFlags,
     HitRoute, HitGroup, Bump, RenameCheck, RenameRecord, RenameDrop, RenameSet,
     RenameRoute, Next1
<1>3. /\ ~ListRoutes(s) /\ ~ScanRoutes(s) /\ ~NextNumber(s) /\ ~WriteRoute(s)
      /\ ~IndexInGroup(s) /\ ~IndexAll(s) /\ ~IndexOwner(s) /\ ~UpdatePattern(s)
      /\ ~UpdateArtifact(s) /\ ~ClearCounters(s)
  BY <1>1, Zenon DEF Hunting, ListRoutes, ScanRoutes, NextNumber, WriteRoute, IndexInGroup,
     IndexAll, IndexOwner, UpdatePattern, UpdateArtifact, ClearCounters, Next1, After, Scanned
<1>4. /\ ~CreateGroup(s) /\ ~PatchGroup(s) /\ ~RefreshGroup(s) /\ ~Dispatch(s)
      /\ ~RenameGroup(s) /\ ~CreateRoute(s) /\ ~UpdateRoute(s) /\ ~DeleteRoute(s)
      /\ ~DeleteGroup(s) /\ ~SetState(s) /\ ~ClearState(s) /\ ~ClearJournal(s)
  BY <1>1, Zenon DEF CreateGroup, PatchGroup, RefreshGroup, Dispatch, RenameGroup, CreateRoute,
     UpdateRoute, DeleteRoute, DeleteGroup, SetState, ClearState, ClearJournal
<1> QED
  BY <1>2, <1>3, <1>4 DEF Call

(* A cascade stays on its group and leaves the groups to probe alone, until*)
(* it is over or fails.                                                    *)
LEMMA CascadeHunts ==
  ASSUME IInv, NEW s \in Proc, Cascade(s)
  PROVE  /\ pc[s] \in Hunting
         /\ pc'[s] \in {"idle", "sw_probe", "sw_release"} \cup Hunting
         /\ loc'[s].left \subseteq loc[s].left
         /\ pc'[s] \in Hunting => loc'[s].g = loc[s].g
<1> DEFINE Goal == /\ pc'[s] \in {"idle", "sw_probe", "sw_release"} \cup Hunting
                   /\ loc'[s].left \subseteq loc[s].left
                   /\ pc'[s] \in Hunting => loc'[s].g = loc[s].g
<1>0. /\ CallsTyped /\ loc[s] \in LocalRecord /\ Prepared(pc[s], loc[s])
  BY LocTyped DEF IInv
<1>1. pc[s] \in Hunting
  BY Zenon DEF Hunting, Cascade, StripNumber, StripInGroup, StripAll, StripOwner, StripKv,
     StripRecord, CascadeRead, CascadeList, CascadeRoute, CascadeUnlist, CascadeMembers,
     CascadeData, CascadeCounters, CascadeName, CascadeRecord, CascadeDone, Next1
<1>2. /\ loc[s].fail \in {"idle", "sw_release"} /\ loc[s].ret \in {"idle", "sw_probe"}
  BY <1>0, <1>1 DEF Hunting, Prepared
<1>3. ASSUME NEW label \in {"idle", "sw_release"} \cup Hunting, Goto(s, label) PROVE Goal
  <2>1. pc'[s] = label /\ (loc'[s] = loc[s] \/ (label = "idle" /\ loc'[s] = Locals))
    BY <1>0, <1>3 DEF CallsTyped, Goto
  <2>2. Locals.left = {} /\ "idle" \notin Hunting
    BY DEF Locals, Hunting
  <2> QED
    BY <2>1, <2>2
<1>4. ASSUME NEW label \in {"idle", "sw_probe"} \cup Hunting, NEW l, Enter(s, label, l),
             l.left = loc[s].left, label \in Hunting => l.g = loc[s].g
      PROVE  Goal
  <2>1. pc'[s] = label /\ loc'[s] = l
    BY <1>0, <1>4 DEF CallsTyped, Enter
  <2> QED
    BY <1>4, <2>1
<1> SUFFICES Goal
  BY <1>1
<1> HIDE DEF Goal
<1>5. CASE \/ StripNumber(s) \/ StripInGroup(s) \/ StripAll(s) \/ StripOwner(s) \/ StripKv(s)
           \/ CascadeUnlist(s) \/ CascadeMembers(s) \/ CascadeData(s) \/ CascadeCounters(s)
           \/ CascadeName(s) \/ CascadeRecord(s)
  <2>1. \E label \in Hunting : Goto(s, label)
    BY <1>5 DEF Hunting, StripNumber, StripInGroup, StripAll, StripOwner, StripKv,
       CascadeUnlist, CascadeMembers, CascadeData, CascadeCounters, CascadeName,
       CascadeRecord, Next1
  <2> QED
    BY <1>3, <2>1, Zenon
<1>6. CASE StripRecord(s)
  <2>1. Goto(s, "idle") \/ Enter(s, "cd_unlist", loc[s])
    BY <1>6 DEF StripRecord
  <2>2. "cd_unlist" \in Hunting
    BY DEF Hunting
  <2> QED
    BY <1>3, <1>4, <2>1, <2>2
<1>7. CASE CascadeRead(s)
  <2> DEFINE found == [loc[s] EXCEPT !.cd = "found", !.nm = group[loc[s].g].name]
             gone == [loc[s] EXCEPT !.cd = "gone"]
  <2>1. \/ Enter(s, "cd_list", found) \/ Enter(s, "cd_list", gone)
        \/ \E label \in {"idle", "sw_release"} : Goto(s, label)
    BY <1>2, <1>7 DEF CascadeRead, Abort
  <2>2. /\ found.g = loc[s].g /\ gone.g = loc[s].g
        /\ found.left = loc[s].left /\ gone.left = loc[s].left /\ "cd_list" \in Hunting
    BY <1>0 DEF LocalRecord, Hunting
  <2> HIDE DEF found, gone
  <2> QED
    BY <1>3, <1>4, <2>1, <2>2
<1>8. CASE CascadeList(s)
  <2> DEFINE l == [loc[s] EXCEPT !.todo = inGroup[loc[s].g]]
  <2>1. Enter(s, "cd_route", l) /\ "cd_route" \in Hunting
    BY <1>8 DEF CascadeList, Hunting
  <2>2. l.g = loc[s].g /\ l.left = loc[s].left
    BY <1>0 DEF LocalRecord
  <2> HIDE DEF l
  <2> QED
    BY <1>4, <2>1, <2>2
<1>9. CASE CascadeRoute(s)
  <2> DEFINE l(r) == [loc[s] EXCEPT !.r = r, !.n = route[r].number, !.todo = @ \ {r}]
  <2>1. \/ Goto(s, "cd_members")
        \/ \E r : Enter(s, "st_number", l(r)) \/ Enter(s, "st_kv", l(r))
    BY <1>9, Zenon DEF CascadeRoute
  <2>2. \A r : l(r).g = loc[s].g /\ l(r).left = loc[s].left
    BY <1>0 DEF LocalRecord
  <2>3. {"cd_members", "st_number", "st_kv"} \subseteq Hunting
    BY DEF Hunting
  <2> HIDE DEF l
  <2> QED
    BY <1>3, <1>4, <2>1, <2>2, <2>3
<1>10. CASE CascadeDone(s)
  <2> DEFINE l == [Locals EXCEPT !.left = loc[s].left, !.fail = loc[s].fail]
  <2>1. Enter(s, loc[s].ret, l) /\ l.left = loc[s].left
    BY <1>10 DEF CascadeDone, Locals
  <2>2. loc[s].ret \notin Hunting
    BY <1>2 DEF Hunting
  <2> HIDE DEF l
  <2> QED
    BY <1>2, <1>4, <2>1, <2>2
<1> QED
  BY <1>5, <1>6, <1>7, <1>8, <1>9, <1>10 DEF Cascade

(* What is true of a sweeper stays so while others work,                   *)
LEMMA AimedStays ==
  ASSUME Settled, NEW s, Aimed(s), pc'[s] = pc[s], loc'[s].g = loc[s].g,
         loc[s].g \in Nat, nextGroup \in Nat, nextGroup' \in Nat
  PROVE  Aimed(s)'
BY DEF Aimed, Settled

(* while it cascades,                                                      *)
LEMMA CallSpares ==
  ASSUME IInv, IInv', Known, SweepInv, NEW p \in Proc, Call(p)
  PROVE  SweepInv'
<1>0. /\ nextGroup \in Nat /\ nextGroup' \in Nat /\ Settled /\ faults \in Nat
      /\ \A q \in Proc : loc[q] \in LocalRecord /\ loc[q].g \in Nat
  <2>1. \A q \in Proc : loc[q] \in LocalRecord
    BY LocTyped DEF IInv
  <2>2. \A q \in Proc : loc[q].g \in 0 .. nextGroup
    BY NamesKnown
  <2>3. nextGroup \in Nat /\ nextGroup' \in Nat /\ faults \in Nat
    BY Bounds DEF IInv, TypeOK, GroupsTyped, CountsTyped
  <2> QED
    BY <2>1, <2>2, <2>3, CallKnown
<1>1. ASSUME NEW s \in Sweeper
      PROVE  /\ pc'[s] \in {"idle"} \cup SweepLabels \cup Hunting
             /\ loc'[s].left \subseteq loc[s].left
             /\ faults' = 0 => faults = 0 /\ Aimed(s)'
  <2>0. s \in Proc /\ faults' \in Nat /\ faults' >= faults /\ Elsewhere(p)
    BY SweeperAssumption, CallAlone, Bounds DEF IInv, TypeOK, CountsTyped
  <2>1. CASE s # p
    <3>1. pc'[s] = pc[s] /\ loc'[s] = loc[s]
      BY <2>0, <2>1 DEF Elsewhere
    <3>2. faults' = 0 => faults = 0
      BY <1>0, <2>0
    <3>3. faults' = 0 => Aimed(s)'
      BY <1>0, <2>0, <3>1, <3>2, AimedStays DEF SweepInv
    <3> QED
      BY <3>1, <3>2, <3>3 DEF SweepInv
  <2>2. CASE s = p /\ Cascade(s)
    <3>1. faults' = 0 => faults = 0
      BY <1>0, <2>0
    <3>2. /\ pc[s] \in Hunting
          /\ pc'[s] \in {"idle", "sw_probe", "sw_release"} \cup Hunting
          /\ loc'[s].left \subseteq loc[s].left
          /\ pc'[s] \in Hunting => loc'[s].g = loc[s].g
      BY <2>0, <2>2, CascadeHunts
    <3>3. faults' = 0 => Aimed(s)'
      BY <1>0, <2>0, <3>1, <3>2 DEF SweepInv, Aimed, Settled
    <3> QED
      BY <3>1, <3>2, <3>3
  <2>3. CASE s = p /\ Fault(s)
    <3>1. faults' # 0 /\ Goto(s, loc[s].fail)
      BY <1>0, <2>3 DEF Fault, Abort
    <3>2. loc[s].fail \in {"idle", "sw_release"}
      BY <1>0, <2>0 DEF LocalRecord
    <3>3. pc'[s] = loc[s].fail /\ (loc'[s] = loc[s] \/ loc'[s] = Locals)
      BY <2>0, <3>1 DEF IInv, CallsTyped, Goto
    <3>4. Locals.left = {}
      BY DEF Locals
    <3> QED
      BY <3>1, <3>2, <3>3, <3>4
  <2> QED
    BY <2>1, <2>2, <2>3, SweeperCascades
<1>2. \A s \in Sweeper : loc'[s].left \subseteq 1 .. nextGroup'
  BY <1>0, <1>1 DEF SweepInv, Settled
<1> QED
  BY <1>1, <1>2 DEF SweepInv

(* and while it lists and probes.                                          *)
LEMMA SweepSteady ==
  ASSUME IInv, Known, SweepInv, NEW s \in Sweeper, Sweep(s)
  PROVE  /\ Steady /\ Directed /\ SweepInv'
<1>0. /\ s \in Proc /\ loc[s] \in LocalRecord /\ Prepared(pc[s], loc[s]) /\ CallsTyped
      /\ faults \in Nat /\ nextGroup \in Nat /\ loc[s].g \in 0 .. nextGroup
      /\ Locals.left = {} /\ Locals.g = 0
  BY LocTyped, SweeperAssumption, NamesKnown, Bounds
  DEF IInv, TypeOK, CountsTyped, GroupsTyped, Locals, NoId
<1>1. UNCHANGED <<group, route, nextGroup, nextRoute>>
  BY Zenon DEF Sweep, Claim, SweepList, SweepRead, SweepProbe, SweepEnd, Release, Crash, store,
         groupVars, routeVars
<1>2. Steady /\ Settled
  BY <1>1, RecordsLeft, SteadySettles
<1>3. faults' \in Nat /\ faults' >= faults
  <2>1. faults' = faults \/ faults' = faults + 1
    BY Zenon DEF Sweep, Claim, SweepList, SweepRead, SweepProbe, SweepEnd, Release, Crash, others
  <2> QED
    BY <1>0, <2>1
<1>4. /\ pc' = [pc EXCEPT ![s] = pc'[s]] /\ loc' = [loc EXCEPT ![s] = loc'[s]]
      /\ pc'[s] \in {"idle", "cd_read"} \cup SweepLabels
      /\ loc'[s].g \in 0 .. nextGroup
      /\ loc'[s].left \subseteq 1 .. nextGroup
      /\ pc'[s] = "cd_read" /\ faults' = 0 => Aimed(s)'
  <2>0. /\ loc[s].left \subseteq 1 .. nextGroup
        /\ \A label : Goto(s, label) => /\ pc' = [pc EXCEPT ![s] = label] /\ pc'[s] = label
                                        /\ loc' = [loc EXCEPT ![s] = loc'[s]]
                                        /\ loc'[s] \in {loc[s], Locals}
        /\ \A label, l : Enter(s, label, l) => /\ pc' = [pc EXCEPT ![s] = label]
                                               /\ pc'[s] = label
                                               /\ loc' = [loc EXCEPT ![s] = l] /\ loc'[s] = l
    BY <1>0 DEF SweepInv, CallsTyped, Goto, Enter
  <2>1. CASE Claim(s)
    <3> DEFINE l == [Locals EXCEPT !.fail = "sw_release"]
    <3>1. Enter(s, "sw_list", l) /\ l.left = {} /\ l.g = 0
      BY <1>0, <2>1 DEF Claim, Locals
    <3> HIDE DEF l
    <3> QED
      BY <1>0, <2>0, <3>1
  <2>2. CASE SweepList(s)
    <3> DEFINE l == [loc[s] EXCEPT !.todo = routeAll]
    <3>1. Enter(s, "sw_read", l) /\ l.left = loc[s].left /\ l.g = loc[s].g
      BY <1>0, <2>2 DEF SweepList, LocalRecord
    <3> HIDE DEF l
    <3> QED
      BY <1>0, <2>0, <3>1
  <2>3. CASE SweepRead(s)
    <3> DEFINE l(r) == [loc[s] EXCEPT !.todo = @ \ {r}, !.left = @ \cup {route[r].group}]
    <3>1. \/ Goto(s, "sw_probe") \/ Goto(s, "sw_release")
          \/ \E r \in loc[s].todo : Intact(r) /\ Enter(s, "sw_read", l(r))
      BY <1>0, <2>3, Zenon DEF SweepRead, Abort, Prepared
    <3>2. ASSUME NEW r \in loc[s].todo, Intact(r)
          PROVE  l(r).g = loc[s].g /\ l(r).left \subseteq 1 .. nextGroup
      <4>1. r \in RouteId /\ r \in 1 .. nextRoute
        BY <1>0, <3>2, NamesKnown DEF LocalRecord
      <4>2. route[r].group \in 1 .. nextGroup
        BY <4>1 DEF Known, GroupsOpened
      <4> QED
        BY <1>0, <2>0, <4>2 DEF LocalRecord
    <3> HIDE DEF l
    <3> QED
      BY <1>0, <2>0, <3>1, <3>2
  <2>4. CASE SweepProbe(s)
    <3> DEFINE l(g) == [loc[s] EXCEPT !.left = @ \ {g}]
               c(g) == [l(g) EXCEPT !.g = g, !.ret = "sw_probe"]
    <3>1. PICK g \in loc[s].left :
            \/ Enter(s, "sw_probe", l(g))
            \/ Enter(s, "cd_read", c(g)) /\ (~Readable(g) \/ faults' = faults + 1)
      BY <2>4, Zenon DEF SweepProbe
    <3>2. g \in 1 .. nextGroup /\ g \in GroupId
      BY <1>0, <2>0, <3>1 DEF LocalRecord
    <3>3. /\ l(g).g = loc[s].g /\ l(g).left \subseteq loc[s].left
          /\ c(g).g = g /\ c(g).left \subseteq loc[s].left
      BY <1>0 DEF LocalRecord
    <3> HIDE DEF l, c
    <3>4. ASSUME Enter(s, "cd_read", c(g)), faults' = 0 PROVE Aimed(s)'
      <4>1. ~Readable(g)
        BY <1>0, <2>0, <3>1, <3>4
      <4>2. "id" \notin group[g].has
        BY <3>2, <4>1, ReadsById
      <4> QED
        BY <1>1, <2>0, <3>2, <3>3, <3>4, <4>2 DEF Aimed
    <3> QED
      BY <1>0, <2>0, <3>1, <3>2, <3>3, <3>4
  <2>5. CASE SweepEnd(s) \/ Release(s) \/ Crash(s)
    <3>1. PICK label \in {"idle", "sw_release"} : Goto(s, label)
      BY <2>5 DEF SweepEnd, Release, Crash
    <3> QED
      BY <1>0, <2>0, <3>1
  <2> QED
    BY <2>1, <2>2, <2>3, <2>4, <2>5 DEF Sweep
<1>5. Directed
  BY <1>0, <1>4 DEF Directed, Known, GroupsOpened, CallsTyped
<1>6. ASSUME NEW q \in Sweeper
      PROVE  /\ pc'[q] \in {"idle"} \cup SweepLabels \cup Hunting
             /\ loc'[q].left \subseteq 1 .. nextGroup
             /\ faults' = 0 => Aimed(q)'
  <2>1. CASE q # s
    <3>1. q \in Proc /\ loc[q].g \in 0 .. nextGroup
      BY SweeperAssumption, NamesKnown
    <3>2. pc'[q] = pc[q] /\ loc'[q] = loc[q]
      BY <1>0, <1>4, <2>1, <3>1 DEF CallsTyped
    <3>3. faults' = 0 => faults = 0
      BY <1>0, <1>3
    <3>4. faults' = 0 => Aimed(q)'
      BY <1>0, <1>1, <1>2, <3>1, <3>2, <3>3, AimedStays DEF SweepInv
    <3> QED
      BY <3>2, <3>4 DEF SweepInv
  <2>2. CASE q = s
    <3>1. "cd_read" \in Hunting /\ ({"idle"} \cup SweepLabels) \cap Hunting = {}
      BY DEF Hunting
    <3> QED
      BY <1>4, <2>2, <3>1 DEF Aimed
  <2> QED
    BY <2>1, <2>2
<1> QED
  BY <1>1, <1>2, <1>5, <1>6 DEF SweepInv

(* No sweep is in progress initially, and every step keeps them aimed.     *)
LEMMA InitSpares == Init => SweepInv
<1> SUFFICES ASSUME Init PROVE SweepInv
  OBVIOUS
<1>1. \A p \in Proc : pc[p] = "idle" /\ loc[p].left = {}
  BY DEF Init, Locals
<1> QED
  BY <1>1, SweeperAssumption DEF SweepInv, Aimed, Hunting

(* The invariant that the theorems on sweepers rest on                     *)
LEMMA LNextSpares == IInv /\ Known /\ SweepInv /\ [LNext]_vars => Known' /\ SweepInv'
<1> SUFFICES ASSUME IInv, Known, SweepInv, [LNext]_vars PROVE Known' /\ SweepInv'
  OBVIOUS
<1>0. /\ IInv' /\ nextGroup \in Nat
      /\ \A s \in Sweeper : loc[s].g \in 0 .. nextGroup
  BY LNextTyped, SweeperAssumption, NamesKnown, Bounds DEF IInv, TypeOK, GroupsTyped
<1>1. ASSUME NEW p \in Proc, Call(p) PROVE Known' /\ SweepInv'
  BY <1>0, <1>1, CallKnown, CallSpares
<1>2. CASE Expire
  <2>1. Known' /\ Settled
    BY <1>2, ExpireKnown
  <2>2. UNCHANGED <<pc, loc, faults, nextGroup>>
    BY <1>2 DEF Expire, ExpireRecord, ExpireName, others
  <2>3. \A s \in Sweeper : Aimed(s) => Aimed(s)'
    BY <1>0, <2>1, <2>2, AimedStays
  <2> QED
    BY <2>1, <2>2, <2>3 DEF SweepInv
<1>3. ASSUME NEW s \in Sweeper, Sweep(s) PROVE Known' /\ SweepInv'
  BY <1>3, SweepSteady, SteadyKeeps
<1>4. CASE LeaseExpires \/ UNCHANGED vars
  <2>1. UNCHANGED <<group, route, nextGroup, nextRoute, pc, loc, faults>>
    BY <1>4 DEF LeaseExpires, vars, store, groupVars, routeVars, others
  <2>2. Steady /\ Directed /\ Settled
    BY <2>1, RecordsLeft, SteadySettles, NamesKnown DEF Directed
  <2>3. \A s \in Sweeper : Aimed(s) => Aimed(s)'
    BY <1>0, <2>1, <2>2, AimedStays
  <2> QED
    BY <2>1, <2>2, <2>3, SteadyKeeps DEF SweepInv
<1> QED
  BY <1>1, <1>2, <1>3, <1>4 DEF LNext, Next

(* The sweepers, their leases and their crashes included, the registry     *)
(* keeps its types.                                                        *)
THEOREM LifecycleTyped == LSpec => []TypeOK
<1>1. IInv => TypeOK
  BY DEF IInv
<1> QED
  BY <1>1, InitTyped, LNextTyped, PTL DEF LSpec

(* As long as no command fails, no sweeper of any number deletes anything  *)
(* of a group that lives, whatever calls work on the group meanwhile and   *)
(* whatever becomes of the lease: a group that was gone at the probe is    *)
(* gone for good, since ids are used once.                                 *)
THEOREM SweepersSpareTheLiving == LSpec => [](faults = 0 => SweepSparesLive)
<1>1. Init => IInv /\ Known /\ SweepInv
  BY InitTyped, InitDirected, InitSpares
<1>2. IInv /\ Known /\ SweepInv /\ [LNext]_vars => IInv' /\ Known' /\ SweepInv'
  BY LNextTyped, LNextSpares
<1>3. Known /\ SweepInv => (faults = 0 => SweepSparesLive)
  <2> SUFFICES ASSUME Known, SweepInv, faults = 0, NEW s \in Sweeper, pc[s] \in CascadeLabels
               PROVE  ~Readable(loc[s].g)
    BY DEF SweepSparesLive
  <2>1. pc[s] \in Hunting
    BY DEF CascadeLabels, Hunting
  <2>2. loc[s].g \in GroupId /\ "id" \notin group[loc[s].g].has
    BY <2>1 DEF SweepInv, Aimed
  <2> QED
    BY <2>2 DEF Readable, GroupMandatory
<1> QED
  BY <1>1, <1>2, <1>3, PTL DEF LSpec

(* In a system whose storage never fails, that is without exception.       *)
THEOREM SweepersSpareTheLivingAlways ==
  ASSUME MaxFaults = 0
  PROVE  LSpec => []SweepSparesLive
<1>1. TypeOK /\ (faults = 0 => SweepSparesLive) => SweepSparesLive
  BY DEF TypeOK, CountsTyped
<1> QED
  BY <1>1, LifecycleTyped, SweepersSpareTheLiving, PTL
-----------------------------------------------------------------------------
(* The third part is about what the indexes file.  Every id in an index    *)
(* belongs to the group and the number it is filed under, and so does what *)
(* a call or a sweeper has in hand, whatever interleaves and fails.        *)

Belongs(r, g) == r \in 1 .. nextRoute /\ route[r].group = g

(* The labels at which a call works on one route, and on a list of routes  *)
HandLabels == IndexLabels \cup UpdateLabels \cup StripLabels \cup {"cd_unlist", "hit_route"}
ListLabels == StripLabels \cup {"cr_scan", "up_scan", "rn_scan", "rn_routes", "cd_route",
                                "cd_unlist"}

Filed ==
  /\ \A g \in GroupId : \A r \in inGroup[g] : Belongs(r, g)
  /\ \A g \in GroupId, n \in Number : byNumber[g][n] # NoId =>
       Belongs(byNumber[g][n], g) /\ route[byNumber[g][n]].number = n
  /\ routeAll \subseteq 1 .. nextRoute

InHand(p) ==
  /\ pc[p] \in HandLabels => Belongs(loc[p].r, loc[p].g)
  /\ pc[p] \in ListLabels => \A r \in loc[p].todo \cup loc[p].done : Belongs(r, loc[p].g)
  /\ pc[p] \notin {"rn_scan", "rn_routes"} => loc[p].done = {}
  /\ pc[p] = "st_number" => route[loc[p].r].number = loc[p].n

FiledInv == Filed /\ \A p \in Proc : InHand(p)

(* A route stays in its group, under its number.                           *)
Placed ==
  /\ \A r \in 1 .. nextRoute : /\ r \in 1 .. nextRoute'
                               /\ route'[r].group = route[r].group
                               /\ route'[r].number = route[r].number

LEMMA BelongsOn ==
  ASSUME Placed, NEW r, NEW g, Belongs(r, g)
  PROVE  Belongs(r, g)' /\ route'[r].number = route[r].number
BY DEF Placed, Belongs

LEMMA SteadyPlaced == ASSUME IInv, Steady PROVE Placed
BY NumbersInRange DEF Steady, Placed

LEMMA CallPlaced ==
  ASSUME IInv, Known, NEW p \in Proc, Call(p)
  PROVE  Placed
<1>1. \/ Steady
      \/ WriteGroup(p) \/ WriteRoute(p) \/ StripRecord(p) \/ CascadeRecord(p)
  BY GroupCallsSteady, DispatchSteady, RenameSteady, ScanSteady, RouteCallsSteady,
     OthersSteady, CascadeSteady
  DEF Call, Cascade
<1>2. CASE WriteGroup(p) \/ CascadeRecord(p)
  BY <1>2 DEF WriteGroup, CascadeRecord, routeVars, Placed
<1>3. CASE WriteRoute(p)
  <2>1. PICK r : r = nextRoute + 1 /\ nextRoute' = r
    BY <1>3 DEF WriteRoute
  <2>2. \A s \in RouteId : s # r => route'[s] = route[s]
    BY <1>3, <2>1 DEF WriteRoute, IInv, TypeOK, RoutesTyped
  <2>3. nextRoute \in Nat
    BY Bounds DEF IInv, TypeOK, RoutesTyped
  <2> QED
    BY <2>1, <2>2, <2>3, NumbersInRange DEF Placed
<1>4. CASE StripRecord(p)
  <2>1. PICK r, has : route' = [route EXCEPT ![r].has = has] /\ nextRoute' = nextRoute
    BY <1>4, Zenon DEF StripRecord
  <2>2. \A s \in RouteId : route'[s].group = route[s].group /\ route'[s].number = route[s].number
    BY <2>1 DEF IInv, TypeOK, RoutesTyped
  <2> QED
    BY <2>1, <2>2, NumbersInRange DEF Placed
<1> QED
  BY <1>1, <1>2, <1>3, <1>4, SteadyPlaced

(* Control passes to a label, with the local variables given.              *)
Passes(p, label, l) ==
  /\ pc' = [pc EXCEPT ![p] = label] /\ loc' = [loc EXCEPT ![p] = l]
  /\ pc'[p] = label /\ loc'[p] = l /\ Elsewhere(p)

LEMMA EnterPasses ==
  ASSUME CallsTyped, NEW p \in Proc, NEW label, NEW l, Enter(p, label, l)
  PROVE  Passes(p, label, l)
BY DEF CallsTyped, Enter, Passes, Elsewhere

LEMMA GotoPasses ==
  ASSUME CallsTyped, NEW p \in Proc, NEW label, Goto(p, label)
  PROVE  Passes(p, label, IF label = "idle" THEN Locals ELSE loc[p])
BY Zenon DEF CallsTyped, Goto, Passes, Elsewhere

(* What a call has in hand, others do not take away.                       *)
LEMMA HandsKeep ==
  ASSUME FiledInv, Placed, Filed', NEW p \in Proc, Elsewhere(p), InHand(p)'
  PROVE  FiledInv'
<1> SUFFICES ASSUME NEW q \in Proc \ {p} PROVE InHand(q)'
  BY DEF FiledInv
<1>1. pc'[q] = pc[q] /\ loc'[q] = loc[q]
  BY DEF Elsewhere
<1>2. InHand(q)
  BY DEF FiledInv
<1>3. pc[q] \in HandLabels => Belongs(loc[q].r, loc[q].g)'
  BY <1>1, <1>2, BelongsOn DEF InHand
<1>4. pc[q] \in ListLabels => \A r \in loc[q].todo \cup loc[q].done : Belongs(r, loc[q].g)'
  BY <1>1, <1>2, BelongsOn DEF InHand
<1>5. pc[q] = "st_number" => route'[loc[q].r].number = loc[q].n
  BY <1>2, BelongsOn DEF InHand, HandLabels
<1> QED
  BY <1>1, <1>2, <1>3, <1>4, <1>5 DEF InHand

(* A step that files nothing new keeps what is filed right.                *)
FilesNothing ==
  /\ \A g \in GroupId : inGroup'[g] \subseteq inGroup[g]
  /\ \A g \in GroupId, n \in Number : byNumber'[g][n] \in {NoId, byNumber[g][n]}
  /\ routeAll' \subseteq routeAll

LEMMA FilingNothing ==
  ASSUME Filed, Placed, FilesNothing
  PROVE  Filed'
<1>1. ASSUME NEW g \in GroupId, NEW r \in inGroup'[g] PROVE Belongs(r, g)'
  BY <1>1, BelongsOn DEF Filed, FilesNothing
<1>2. ASSUME NEW g \in GroupId, NEW n \in Number, byNumber'[g][n] # NoId
      PROVE  Belongs(byNumber[g][n], g)' /\ route'[byNumber[g][n]].number = n
             /\ byNumber'[g][n] = byNumber[g][n]
  <2>1. byNumber'[g][n] = byNumber[g][n]
    BY <1>2 DEF FilesNothing
  <2>2. Belongs(byNumber[g][n], g) /\ route[byNumber[g][n]].number = n
    BY <1>2, <2>1 DEF Filed
  <2> QED
    BY <2>1, <2>2, BelongsOn
<1>3. routeAll' \subseteq 1 .. nextRoute'
  BY DEF Filed, FilesNothing, Placed
<1> QED
  BY <1>1, <1>2, <1>3 DEF Filed, Belongs

LEMMA IndexesLeft ==
  ASSUME UNCHANGED <<inGroup, byNumber, routeAll>>
  PROVE  FilesNothing
BY DEF FilesNothing

(* A call that goes on with what it has in hand                            *)
LEMMA GotoInHand ==
  ASSUME CallsTyped, FiledInv, Placed, NEW p \in Proc, NEW label, Goto(p, label),
         label # "st_number",
         label \in HandLabels => pc[p] \in HandLabels,
         label \in ListLabels => pc[p] \in ListLabels,
         pc[p] \in {"rn_scan", "rn_routes"} => label \in {"rn_scan", "rn_routes", "idle"}
  PROVE  InHand(p)'
<1>1. InHand(p) /\ Locals.done = {} /\ "idle" \notin HandLabels \cup ListLabels
  BY DEF FiledInv, Locals, HandLabels, ListLabels
<1>2. pc'[p] = label /\ loc'[p] = IF label = "idle" THEN Locals ELSE loc[p]
  BY GotoPasses DEF Passes
<1>3. label \in HandLabels => Belongs(loc[p].r, loc[p].g)'
  BY <1>1, <1>2, BelongsOn DEF InHand
<1>4. label \in ListLabels => \A r \in loc[p].todo \cup loc[p].done : Belongs(r, loc[p].g)'
  BY <1>1, <1>2, BelongsOn DEF InHand
<1> QED
  BY <1>1, <1>2, <1>3, <1>4 DEF InHand

(* and one that takes something else.                                      *)
LEMMA EnterInHand ==
  ASSUME CallsTyped, Placed, NEW p \in Proc, NEW label, NEW l, Enter(p, label, l),
         l.done = {},
         label \in HandLabels => Belongs(l.r, l.g),
         label \in ListLabels => \A r \in l.todo : Belongs(r, l.g),
         label = "st_number" => route[l.r].number = l.n
  PROVE  InHand(p)'
<1>1. pc'[p] = label /\ loc'[p] = l
  BY EnterPasses DEF Passes
<1>2. label \in HandLabels => Belongs(l.r, l.g)'
  BY BelongsOn
<1>3. label \in ListLabels => \A r \in l.todo \cup l.done : Belongs(r, l.g)'
  BY BelongsOn
<1>4. label = "st_number" => route'[l.r].number = l.n
  BY BelongsOn DEF HandLabels
<1> QED
  BY <1>1, <1>2, <1>3, <1>4 DEF InHand

(* Calls that pass on with what they have                                  *)
LEMMA PassingInHand ==
  ASSUME IInv, Known, FiledInv, Placed, NEW p \in Proc,
         \/ ArmRecord(p) \/ ArmName(p) \/ IndexGroup(p) \/ PatchTtl(p) \/ PatchFlags(p)
         \/ HitRoute(p) \/ HitGroup(p) \/ RenameCheck(p) \/ RenameRecord(p)
         \/ RenameDrop(p) \/ IndexInGroup(p) \/ IndexAll(p) \/ IndexOwner(p)
         \/ UpdatePattern(p) \/ UpdateArtifact(p) \/ StripNumber(p) \/ StripInGroup(p)
         \/ StripAll(p) \/ StripOwner(p) \/ StripKv(p) \/ CascadeUnlist(p)
         \/ CascadeMembers(p) \/ CascadeData(p) \/ CascadeCounters(p) \/ CascadeName(p)
         \/ CascadeRecord(p) \/ ClearCounters(p)
  PROVE  InHand(p)'
<1> USE DEF HandLabels, ListLabels
<1>0. CallsTyped /\ loc[p].ret \in {"idle", "pt_flags", "cr_list", "rn_list", "sw_probe"}
  BY LocTyped DEF IInv, LocalRecord
<1>1. PICK label :
        /\ Goto(p, label) /\ label # "st_number"
        /\ label \in HandLabels => pc[p] \in HandLabels
        /\ label \in ListLabels => pc[p] \in ListLabels
        /\ pc[p] \in {"rn_scan", "rn_routes"} => label \in {"rn_scan", "rn_routes", "idle"}
  <2>1. CASE \/ ArmRecord(p) \/ ArmName(p) \/ IndexGroup(p) \/ PatchTtl(p) \/ PatchFlags(p)
             \/ HitRoute(p) \/ HitGroup(p) \/ RenameCheck(p) \/ RenameRecord(p)
             \/ RenameDrop(p)
    BY <1>0, <2>1, Zenon DEF ArmRecord, ArmName, IndexGroup, PatchTtl, PatchFlags, HitRoute,
       HitGroup, RenameCheck, RenameRecord, RenameDrop, Next1, Return
  <2>2. CASE \/ IndexInGroup(p) \/ IndexAll(p) \/ IndexOwner(p)
             \/ UpdatePattern(p) \/ UpdateArtifact(p) \/ ClearCounters(p)
    BY <2>2 DEF IndexInGroup, IndexAll, IndexOwner, UpdatePattern, UpdateArtifact,
       ClearCounters, Next1
  <2>3. CASE \/ StripNumber(p) \/ StripInGroup(p)
             \/ StripAll(p) \/ StripOwner(p) \/ StripKv(p) \/ CascadeUnlist(p)
             \/ CascadeMembers(p) \/ CascadeData(p) \/ CascadeCounters(p) \/ CascadeName(p)
             \/ CascadeRecord(p)
    BY <2>3 DEF StripNumber, StripInGroup, StripAll, StripOwner, StripKv, CascadeUnlist,
       CascadeMembers, CascadeData, CascadeCounters, CascadeName, CascadeRecord, Next1
  <2> QED
    BY <2>1, <2>2, <2>3
<1> HIDE DEF HandLabels, ListLabels
<1> QED
  BY <1>0, <1>1, GotoInHand

(* Calls that begin                                                        *)
LEMMA BeginningInHand ==
  ASSUME IInv, Known, FiledInv, Placed, NEW p \in Proc,
         \/ CreateGroup(p) \/ PatchGroup(p) \/ RefreshGroup(p) \/ Dispatch(p)
         \/ RenameGroup(p) \/ CreateRoute(p) \/ UpdateRoute(p) \/ DeleteRoute(p)
         \/ DeleteGroup(p) \/ ClearJournal(p)
  PROVE  InHand(p)'
<1>0. CallsTyped
  BY DEF IInv
<1>1. CASE \/ CreateGroup(p) \/ PatchGroup(p) \/ RefreshGroup(p)
           \/ RenameGroup(p) \/ CreateRoute(p) \/ DeleteGroup(p) \/ ClearJournal(p)
  <2>1. pc'[p] \in {"cg_write", "pt_flags", "pt_ttl", "arm_record", "rn_check", "cr_list",
                     "cd_read", "cj_counters"} /\ loc'[p].done = {}
    <3> USE <1>0 DEF CallsTyped, Enter, Locals
    <3>1. CASE CreateGroup(p)
      BY <3>1, Zenon DEF CreateGroup
    <3>2. CASE PatchGroup(p)
      BY <3>2, Zenon DEF PatchGroup
    <3>3. CASE RefreshGroup(p)
      BY <3>3, Zenon DEF RefreshGroup
    <3>4. CASE RenameGroup(p)
      BY <3>4, Zenon DEF RenameGroup
    <3>5. CASE CreateRoute(p)
      BY <3>5, Zenon DEF CreateRoute
    <3>6. CASE DeleteGroup(p) \/ ClearJournal(p)
      BY <3>6 DEF DeleteGroup, ClearJournal
    <3> QED
      BY <1>1, <3>1, <3>2, <3>3, <3>4, <3>5, <3>6
  <2> QED
    BY <2>1 DEF InHand, HandLabels, ListLabels
<1>2. CASE Dispatch(p)
  <2>1. PICK r \in 1 .. nextRoute :
          Enter(p, "hit_route", [Locals EXCEPT !.g = route[r].group, !.r = r])
    BY <1>2, Zenon DEF Dispatch
  <2> DEFINE l == [Locals EXCEPT !.g = route[r].group, !.r = r]
  <2>2. Enter(p, "hit_route", l) /\ l.done = {} /\ l.todo = {} /\ Belongs(l.r, l.g)
    BY <2>1 DEF Locals, Belongs
  <2> HIDE DEF l
  <2> QED
    BY <1>0, <2>2, EnterInHand
<1>3. CASE UpdateRoute(p)
  <2>1. PICK r \in RouteId :
          /\ Intact(r)
          /\ LET l == [Locals EXCEPT !.g = route[r].group, !.r = r] IN
             \/ Enter(p, "up_artifact", l)
             \/ \E q \in Pattern, set \in SUBSET {"methods", "path"} :
                   Enter(p, "up_list", [l EXCEPT !.pat = q, !.set = set])
    BY <1>3, Zenon DEF UpdateRoute, Slug
  <2> DEFINE l == [Locals EXCEPT !.g = route[r].group, !.r = r]
  <2>2. Belongs(r, route[r].group)
    BY <2>1, NamesKnown, Zenon DEF Belongs
  <2>3. l.done = {} /\ l.todo = {} /\ Belongs(l.r, l.g)
    BY <2>2 DEF Locals
  <2>4. ASSUME NEW q, NEW set PROVE LET m == [l EXCEPT !.pat = q, !.set = set] IN
                           m.done = {} /\ m.todo = {} /\ Belongs(m.r, m.g)
    BY <2>2 DEF Locals
  <2>5. PICK label, m : /\ label \in {"up_artifact", "up_list"} /\ Enter(p, label, m)
                        /\ m.done = {} /\ m.todo = {} /\ Belongs(m.r, m.g)
    <3> HIDE DEF l
    <3>1. CASE Enter(p, "up_artifact", l)
      BY <2>3, <3>1
    <3>2. CASE \E q \in Pattern, set \in SUBSET {"methods", "path"} :
                  Enter(p, "up_list", [l EXCEPT !.pat = q, !.set = set])
      BY <2>4, <3>2, Zenon
    <3> QED
      BY <2>1, <3>1, <3>2, Zenon DEF l
  <2> QED
    BY <1>0, <2>5, EnterInHand
<1>4. CASE DeleteRoute(p)
  <2>1. PICK r \in RouteId :
          Intact(r) /\ Enter(p, "st_number", [Locals EXCEPT !.g = route[r].group, !.r = r,
                                                            !.n = route[r].number])
    BY <1>4, Zenon DEF DeleteRoute, Slug
  <2> DEFINE l == [Locals EXCEPT !.g = route[r].group, !.r = r, !.n = route[r].number]
  <2>2. Belongs(r, route[r].group)
    BY <2>1, NamesKnown DEF Belongs
  <2>3. /\ Enter(p, "st_number", l) /\ l.done = {} /\ l.todo = {} /\ Belongs(l.r, l.g)
        /\ route[l.r].number = l.n
    BY <2>1, <2>2 DEF Locals
  <2> HIDE DEF l
  <2> QED
    BY <1>0, <2>3, EnterInHand
<1> QED
  BY <1>1, <1>2, <1>3, <1>4

(* Calls that take what the store has: what they list is filed right.      *)
LEMMA TakingInHand ==
  ASSUME IInv, Known, FiledInv, Placed, NEW p \in Proc,
         \/ WriteGroup(p) \/ Bump(p) \/ RenameSet(p) \/ RenameRoute(p) \/ ListRoutes(p)
         \/ ScanRoutes(p) \/ NextNumber(p) \/ WriteRoute(p) \/ StripRecord(p)
         \/ CascadeRead(p) \/ CascadeList(p) \/ CascadeRoute(p) \/ CascadeDone(p) \/ Fault(p)
  PROVE  InHand(p)'
<1>0. /\ CallsTyped /\ InHand(p) /\ loc[p] \in LocalRecord /\ Prepared(pc[p], loc[p])
      /\ Locals.done = {}
  BY LocTyped DEF IInv, FiledInv, Locals
<1>1. CASE WriteGroup(p) \/ Bump(p) \/ RenameSet(p) \/ NextNumber(p)
  <2>1. /\ pc'[p] \in {"cg_index", "arm_record", "idle", "arm_name", "cr_write"}
        /\ loc'[p].done = {}
    <3> USE <1>0 DEF CallsTyped, Enter, InHand, LocalRecord
    <3>1. CASE WriteGroup(p)
      BY <3>1 DEF WriteGroup
    <3>2. CASE Bump(p)
      <4> DEFINE armed == [loc[p] EXCEPT !.nm = group[loc[p].g].name,
                                         !.ttl = group[loc[p].g].ttl]
      <4>1. /\ pc[p] = "bump"
            /\ Enter(p, "arm_record", armed) \/ Goto(p, "idle")
        BY <3>2, Zenon DEF Bump
      <4>2. loc[p].done = {} /\ armed.done = {}
        BY <1>0, <4>1 DEF HandLabels, ListLabels
      <4> HIDE DEF armed
      <4>3. CASE Enter(p, "arm_record", armed)
        BY <4>2, <4>3
      <4>4. CASE Goto(p, "idle")
        BY <1>0, <4>2, <4>4 DEF Goto
      <4> QED
        BY <4>1, <4>3, <4>4
    <3>3. CASE RenameSet(p) \/ NextNumber(p)
      BY <3>3 DEF RenameSet, NextNumber
    <3> QED
      BY <1>1, <3>1, <3>2, <3>3
  <2> QED
    BY <2>1 DEF InHand, HandLabels, ListLabels
<1>2. CASE CascadeRead(p) \/ CascadeDone(p) \/ Fault(p)
  <2>1. /\ pc'[p] \in {"cd_list", "idle", "sw_release", "sw_probe"} /\ loc'[p].done = {}
    <3>1. CASE CascadeRead(p)
      <4>1. loc[p].done = {} /\ loc[p].fail \in {"idle", "sw_release"}
        BY <1>0, <3>1 DEF CascadeRead, InHand, LocalRecord
      <4>2. CASE \E label \in {"idle", "sw_release"} : Goto(p, label)
        BY <1>0, <4>1, <4>2 DEF Goto, CallsTyped
      <4>3. CASE \A label \in {"idle", "sw_release"} : ~Goto(p, label)
        <5> DEFINE found == [loc[p] EXCEPT !.cd = "found", !.nm = group[loc[p].g].name]
                   gone == [loc[p] EXCEPT !.cd = "gone"]
        <5>1. Enter(p, "cd_list", found) \/ Enter(p, "cd_list", gone)
          BY <3>1, <4>1, <4>3 DEF CascadeRead, Abort
        <5>2. found.done = {} /\ gone.done = {}
          BY <1>0, <4>1 DEF LocalRecord
        <5> HIDE DEF found, gone
        <5> QED
          BY <1>0, <5>1, <5>2 DEF CallsTyped, Enter
      <4> QED
        BY <4>2, <4>3
    <3>2. CASE CascadeDone(p)
      <4>1. loc[p].ret \in {"idle", "sw_probe"}
        BY <1>0, <3>2 DEF CascadeDone, Prepared
      <4> QED
        BY <1>0, <3>2, <4>1 DEF CascadeDone, CallsTyped, Enter, Locals
    <3>3. CASE Fault(p)
      <4>1. loc[p].fail = "idle" \/ (loc[p].fail = "sw_release" /\ loc[p].done = {})
        BY <1>0 DEF Prepared, InHand, LocalRecord, SweepLabels
      <4> QED
        BY <1>0, <3>3, <4>1 DEF Fault, Abort, Goto, CallsTyped
    <3> QED
      BY <1>2, <3>1, <3>2, <3>3
  <2> QED
    BY <2>1 DEF InHand, HandLabels, ListLabels
<1>3. CASE RenameRoute(p)
  <2>1. CASE Goto(p, "idle")
    BY <1>0, <2>1, GotoInHand DEF HandLabels, ListLabels
  <2>2. CASE ~Goto(p, "idle")
    <3>1. PICK r : /\ pc[p] = "rn_routes"
                   /\ Enter(p, "rn_routes", [loc[p] EXCEPT !.done = @ \ {r}])
      BY <1>3, <2>2, Zenon DEF RenameRoute
    <3>2. /\ pc'[p] = "rn_routes" /\ loc'[p].g = loc[p].g /\ loc'[p].todo = loc[p].todo
          /\ loc'[p].done \subseteq loc[p].done
      BY <1>0, <3>1 DEF CallsTyped, Enter, LocalRecord
    <3>3. \A s \in loc'[p].todo \cup loc'[p].done : Belongs(s, loc[p].g)
      BY <1>0, <3>1, <3>2 DEF InHand, ListLabels
    <3>4. \A s \in loc'[p].todo \cup loc'[p].done : Belongs(s, loc[p].g)'
      BY <3>2, <3>3, BelongsOn
    <3> QED
      BY <3>2, <3>4 DEF InHand, HandLabels
  <2> QED
    BY <2>1, <2>2
<1>4. CASE ListRoutes(p)
  <2>1. /\ pc[p] \in {"cr_list", "up_list", "rn_list"}
        /\ Enter(p, After[pc[p]], [loc[p] EXCEPT !.todo = inGroup[loc[p].g]])
    BY <1>4 DEF ListRoutes, After
  <2>2. pc'[p] \in {"cr_scan", "up_scan", "rn_scan"} /\ (pc'[p] = "up_scan" => pc[p] = "up_list")
    BY <1>0, <2>1 DEF After, CallsTyped, Enter
  <2>3. /\ loc'[p].todo = inGroup[loc[p].g] /\ loc'[p].g = loc[p].g /\ loc'[p].r = loc[p].r
        /\ loc'[p].done = {} /\ loc[p].g \in GroupId
    BY <1>0, <2>1 DEF CallsTyped, Enter, LocalRecord, InHand, Prepared
  <2>4. \A s \in loc'[p].todo : Belongs(s, loc[p].g)'
    BY <2>3, BelongsOn DEF FiledInv, Filed
  <2>5. pc'[p] = "up_scan" => Belongs(loc[p].r, loc[p].g)'
    BY <1>0, <2>2, <2>3, BelongsOn DEF InHand, HandLabels
  <2> QED
    BY <2>2, <2>3, <2>4, <2>5 DEF InHand, HandLabels, ListLabels
<1>5. CASE ScanRoutes(p)
  <2>1. CASE \E label \in {"idle", "cr_number", "up_write", "rn_routes"} : Goto(p, label)
    <3>1. pc[p] \in {"cr_scan", "up_scan", "rn_scan"}
      BY <1>5, Zenon DEF ScanRoutes, Scanned
    <3>2. PICK label \in {"idle", "cr_number", "up_write", "rn_routes"} :
            /\ Goto(p, label)
            /\ label # "idle" => label = Scanned[pc[p]]
      <4>1. CASE Goto(p, "idle")
        BY <4>1
      <4>2. CASE ~Goto(p, "idle")
        <5>1. CASE loc[p].todo = {}
          BY <1>5, <3>1, <5>1 DEF ScanRoutes, Scanned
        <5>2. CASE loc[p].todo # {}
          <6>1. PICK l : Enter(p, pc[p], l)
            BY <1>5, <4>2, <5>2, Zenon DEF ScanRoutes
          <6> QED
            BY <1>0, <2>1, <3>1, <6>1 DEF CallsTyped, Enter, Goto
        <5> QED
          BY <5>1, <5>2
      <4> QED
        BY <4>1, <4>2
    <3>3. /\ label # "idle" => \/ label = "cr_number" /\ pc[p] = "cr_scan"
                               \/ label = "up_write" /\ pc[p] = "up_scan"
                               \/ label = "rn_routes" /\ pc[p] = "rn_scan"
      BY <3>1, <3>2 DEF Scanned
    <3> QED
      BY <1>0, <3>1, <3>2, <3>3, GotoInHand DEF HandLabels, ListLabels
  <2>2. CASE \E r \in loc[p].todo :
               Enter(p, pc[p], [loc[p] EXCEPT !.todo = @ \ {r},
                       !.done = IF pc[p] = "rn_scan" THEN @ \cup {r} ELSE @])
    <3>1. PICK r \in loc[p].todo :
               Enter(p, pc[p], [loc[p] EXCEPT !.todo = @ \ {r},
                       !.done = IF pc[p] = "rn_scan" THEN @ \cup {r} ELSE @])
      BY <2>2, Zenon
    <3>2. pc[p] \in {"cr_scan", "up_scan", "rn_scan"}
      BY <1>5, Zenon DEF ScanRoutes, Scanned
    <3>3. /\ pc'[p] = pc[p] /\ loc'[p].g = loc[p].g /\ loc'[p].r = loc[p].r
          /\ loc'[p].todo = loc[p].todo \ {r}
          /\ loc'[p].done = IF pc[p] = "rn_scan" THEN loc[p].done \cup {r} ELSE loc[p].done
      BY <1>0, <3>1 DEF CallsTyped, Enter, LocalRecord
    <3>4. \A s \in loc'[p].todo \cup loc'[p].done : Belongs(s, loc[p].g)'
      BY <1>0, <3>2, <3>3, BelongsOn DEF InHand, ListLabels
    <3>5. pc[p] = "up_scan" => Belongs(loc[p].r, loc[p].g)'
      BY <1>0, <3>3, BelongsOn DEF InHand, HandLabels
    <3>6. pc[p] # "rn_scan" => loc'[p].done = {}
      BY <1>0, <3>2, <3>3 DEF InHand
    <3> QED
      BY <3>2, <3>3, <3>4, <3>5, <3>6 DEF InHand, HandLabels
  <2>3. Scanned[pc[p]] \in {"cr_number", "up_write", "rn_routes"}
    <3>1. pc[p] \in {"cr_scan", "up_scan", "rn_scan"}
      BY <1>5, Zenon DEF ScanRoutes, Scanned
    <3> QED
      BY <3>1 DEF Scanned
  <2> QED
    BY <1>5, <2>1, <2>2, <2>3, Zenon DEF ScanRoutes
<1>6. CASE WriteRoute(p)
  <2>1. PICK r : r = nextRoute + 1 /\ nextRoute' = r /\ pc[p] = "cr_write" /\ nextRoute < MaxRoutes
          /\ Enter(p, "cr_group", [loc[p] EXCEPT !.r = r])
    BY <1>6 DEF WriteRoute
  <2>2. r \in RouteId /\ r \in 1 .. nextRoute'
    BY <2>1, Bounds DEF IInv, TypeOK, RoutesTyped, RouteId
  <2>3. route'[r].group = loc[p].g
    BY <1>6, <2>1, <2>2 DEF WriteRoute, IInv, TypeOK, RoutesTyped
  <2>4. /\ pc'[p] = "cr_group" /\ loc'[p].r = r /\ loc'[p].g = loc[p].g /\ loc'[p].done = {}
    BY <1>0, <2>1 DEF CallsTyped, Enter, LocalRecord, InHand
  <2> QED
    BY <2>2, <2>3, <2>4 DEF InHand, Belongs, HandLabels, ListLabels
<1>7. CASE StripRecord(p)
  <2>1. CASE Goto(p, "idle")
    BY <1>0, <1>7, <2>1, GotoInHand DEF StripRecord, HandLabels, ListLabels
  <2>2. CASE Enter(p, "cd_unlist", loc[p])
    <3>1. pc[p] = "st_record" /\ pc'[p] = "cd_unlist" /\ loc'[p] = loc[p]
      BY <1>0, <1>7, <2>2 DEF StripRecord, CallsTyped, Enter
    <3>2. /\ Belongs(loc[p].r, loc[p].g) /\ loc[p].done = {}
          /\ \A s \in loc[p].todo \cup loc[p].done : Belongs(s, loc[p].g)
      BY <1>0, <3>1 DEF InHand, HandLabels, ListLabels
    <3>3. /\ Belongs(loc[p].r, loc[p].g)'
          /\ \A s \in loc'[p].todo \cup loc'[p].done : Belongs(s, loc[p].g)'
      BY <3>1, <3>2, BelongsOn
    <3> QED
      BY <3>1, <3>2, <3>3 DEF InHand
  <2> QED
    BY <1>7, <2>1, <2>2 DEF StripRecord
<1>8. CASE CascadeList(p)
  <2>1. pc[p] = "cd_list" /\ Enter(p, "cd_route", [loc[p] EXCEPT !.todo = inGroup[loc[p].g]])
    BY <1>8 DEF CascadeList
  <2>2. /\ pc'[p] = "cd_route" /\ loc'[p].todo = inGroup[loc[p].g] /\ loc'[p].g = loc[p].g
        /\ loc'[p].done = {} /\ loc[p].g \in GroupId
    BY <1>0, <2>1 DEF CallsTyped, Enter, LocalRecord, InHand, Prepared
  <2>3. \A s \in loc'[p].todo : Belongs(s, loc[p].g)'
    BY <2>2, BelongsOn DEF FiledInv, Filed
  <2> QED
    BY <2>2, <2>3 DEF InHand, HandLabels
<1>9. CASE CascadeRoute(p)
  <2>1. pc[p] = "cd_route" /\ loc[p].done = {}
    BY <1>0, <1>9, Zenon DEF CascadeRoute, InHand
  <2>2. CASE Goto(p, "cd_members")
    BY <1>0, <2>1, <2>2, GotoInHand DEF HandLabels, ListLabels
  <2>3. CASE ~Goto(p, "cd_members")
    <3>1. PICK r \in loc[p].todo, label \in {"st_number", "st_kv"} :
            Enter(p, label, [loc[p] EXCEPT !.r = r, !.n = route[r].number, !.todo = @ \ {r}])
      BY <1>9, <2>3, Zenon DEF CascadeRoute
    <3>2. /\ pc'[p] = label /\ loc'[p].r = r /\ loc'[p].n = route[r].number
          /\ loc'[p].g = loc[p].g /\ loc'[p].todo = loc[p].todo \ {r} /\ loc'[p].done = {}
      BY <1>0, <2>1, <3>1 DEF CallsTyped, Enter, LocalRecord
    <3>3. Belongs(r, loc[p].g) /\ \A s \in loc'[p].todo : Belongs(s, loc[p].g)
      BY <1>0, <2>1, <3>1, <3>2 DEF InHand, ListLabels
    <3>4. /\ Belongs(loc[p].r, loc[p].g)' /\ route'[r].number = route[r].number
          /\ \A s \in loc'[p].todo : Belongs(s, loc[p].g)'
      BY <3>2, <3>3, BelongsOn
    <3> QED
      BY <3>2, <3>4 DEF InHand
  <2> QED
    BY <2>2, <2>3
<1> QED
  BY <1>1, <1>2, <1>3, <1>4, <1>5, <1>6, <1>7, <1>8, <1>9

(* What a call files belongs where it files it.                            *)
LEMMA CallFiles ==
  ASSUME IInv, Known, FiledInv, NEW p \in Proc, Call(p)
  PROVE  Filed'
<1>0. Placed /\ Filed /\ InHand(p)
  BY CallPlaced DEF FiledInv
<1>1. CASE UNCHANGED <<inGroup, byNumber, routeAll>>
  BY <1>0, <1>1, IndexesLeft, FilingNothing
<1>2. CASE \/ StripNumber(p) \/ StripInGroup(p) \/ StripAll(p) \/ CascadeUnlist(p)
           \/ CascadeMembers(p)
  <2>1. FilesNothing
    <3> USE DEF FilesNothing, IInv, TypeOK, RoutesTyped
    <3>1. CASE StripNumber(p)
      BY <3>1 DEF StripNumber
    <3>2. CASE StripInGroup(p)
      BY <3>2 DEF StripInGroup
    <3>3. CASE StripAll(p) \/ CascadeUnlist(p)
      BY <3>3 DEF StripAll, CascadeUnlist
    <3>4. CASE CascadeMembers(p)
      BY <3>4 DEF CascadeMembers
    <3> QED
      BY <1>2, <3>1, <3>2, <3>3, <3>4
  <2> QED
    BY <1>0, <2>1, FilingNothing
<1>3. CASE IndexInGroup(p) \/ IndexAll(p)
  <2>1. Belongs(loc[p].r, loc[p].g) /\ UNCHANGED <<byNumber, route, nextRoute>>
    BY <1>0, <1>3 DEF IndexInGroup, IndexAll, Next1, InHand, HandLabels
  <2>2. \A g \in GroupId : \A r \in inGroup'[g] : r \in inGroup[g] \/ (g = loc[p].g /\ r = loc[p].r)
    BY <1>3 DEF IndexInGroup, IndexAll, IInv, TypeOK, RoutesTyped
  <2>3. \A r \in routeAll' : r \in routeAll \/ r = loc[p].r
    BY <1>3 DEF IndexInGroup, IndexAll
  <2> QED
    BY <1>0, <2>1, <2>2, <2>3, Zenon DEF Filed, Belongs
<1>4. CASE WriteRoute(p)
  <2>1. PICK r, g, n : r = nextRoute + 1 /\ g = loc[p].g /\ n = loc[p].n
    OBVIOUS
  <2>2. /\ nextRoute' = r /\ r \in RouteId /\ r \in 1 .. nextRoute'
        /\ UNCHANGED <<inGroup, routeAll>>
    BY <1>4, <2>1, Bounds DEF WriteRoute, IInv, TypeOK, RoutesTyped, RouteId
  <2>3. route'[r].group = g /\ route'[r].number = n
    BY <1>4, <2>1, <2>2 DEF WriteRoute, IInv, TypeOK, RoutesTyped
  <2>4. ASSUME NEW h \in GroupId, NEW m \in Number, byNumber'[h][m] # NoId
        PROVE  Belongs(byNumber[h][m], h)' /\ route'[byNumber'[h][m]].number = m
    <3>1. CASE h = g /\ m = n
      <4>1. byNumber'[h][m] = r
        BY <1>4, <2>1, <2>4, <3>1 DEF WriteRoute, IInv, TypeOK, RoutesTyped
      <4> QED
        BY <2>2, <2>3, <3>1, <4>1 DEF Belongs
    <3>2. CASE ~(h = g /\ m = n)
      <4>1. byNumber'[h][m] = byNumber[h][m]
        BY <1>4, <2>1, <2>4, <3>2 DEF WriteRoute, IInv, TypeOK, RoutesTyped
      <4>2. Belongs(byNumber[h][m], h) /\ route[byNumber[h][m]].number = m
        BY <1>0, <2>4, <4>1 DEF Filed
      <4> QED
        BY <1>0, <4>1, <4>2, BelongsOn
    <3> QED
      BY <3>1, <3>2
  <2>5. \A h \in GroupId : \A s \in inGroup'[h] : Belongs(s, h)'
    BY <1>0, <2>2, BelongsOn DEF Filed
  <2>6. routeAll' \subseteq 1 .. nextRoute'
    BY <1>0, <2>2 DEF Filed, Placed
  <2> QED
    BY <2>4, <2>5, <2>6 DEF Filed
<1>5. \/ UNCHANGED <<inGroup, byNumber, routeAll>>
      \/ StripNumber(p) \/ StripInGroup(p) \/ StripAll(p) \/ CascadeUnlist(p)
      \/ CascadeMembers(p) \/ IndexInGroup(p) \/ IndexAll(p) \/ WriteRoute(p)
  <2> USE DEF store, routeVars
  <2>1. CASE \/ ArmRecord(p) \/ ArmName(p)
             \/ CreateGroup(p) \/ WriteGroup(p) \/ IndexGroup(p)
             \/ PatchGroup(p) \/ PatchTtl(p) \/ PatchFlags(p) \/ RefreshGroup(p)
             \/ Dispatch(p) \/ HitRoute(p) \/ HitGroup(p) \/ Bump(p)
    BY <2>1, Zenon
      DEF ArmRecord, ArmName, CreateGroup, WriteGroup, IndexGroup, PatchGroup, PatchTtl,
          PatchFlags, RefreshGroup, Dispatch, HitRoute, HitGroup, Bump
  <2>2. CASE \/ RenameGroup(p) \/ RenameCheck(p) \/ RenameRecord(p) \/ RenameDrop(p)
             \/ RenameSet(p) \/ RenameRoute(p) \/ ListRoutes(p) \/ ScanRoutes(p)
             \/ CreateRoute(p) \/ NextNumber(p) \/ IndexOwner(p)
             \/ UpdateRoute(p) \/ UpdatePattern(p) \/ UpdateArtifact(p)
    BY <2>2, Zenon DEF RenameGroup, RenameCheck, RenameRecord, RenameDrop, RenameSet, RenameRoute,
       ListRoutes, ScanRoutes, CreateRoute, NextNumber, IndexOwner, UpdateRoute,
       UpdatePattern, UpdateArtifact
  <2>3. CASE \/ DeleteRoute(p) \/ DeleteGroup(p) \/ StripOwner(p) \/ StripKv(p)
             \/ StripRecord(p) \/ CascadeRead(p) \/ CascadeList(p) \/ CascadeRoute(p)
             \/ CascadeData(p) \/ CascadeCounters(p) \/ CascadeName(p)
             \/ CascadeRecord(p) \/ CascadeDone(p)
             \/ SetState(p) \/ ClearState(p) \/ ClearJournal(p) \/ ClearCounters(p)
             \/ Fault(p)
    BY <2>3, Zenon DEF DeleteRoute, DeleteGroup, StripOwner, StripKv, StripRecord, CascadeRead,
       CascadeList, CascadeRoute, CascadeData, CascadeCounters, CascadeName, CascadeRecord,
       CascadeDone, SetState, ClearState, ClearJournal, ClearCounters, Fault
  <2> QED
    BY <2>1, <2>2, <2>3 DEF Call, Cascade
<1> QED
  BY <1>1, <1>2, <1>3, <1>4, <1>5

(* A step that neither takes nor files anything                            *)
LEMMA StandingFiled ==
  ASSUME FiledInv, Placed, UNCHANGED <<pc, loc, inGroup, byNumber, routeAll>>
  PROVE  FiledInv'
<1>1. Filed'
  BY IndexesLeft, FilingNothing DEF FiledInv
<1> SUFFICES ASSUME NEW q \in Proc PROVE InHand(q)'
  BY <1>1 DEF FiledInv
<1>2. InHand(q) /\ pc'[q] = pc[q] /\ loc'[q] = loc[q]
  BY DEF FiledInv
<1>3. pc[q] \in HandLabels => Belongs(loc[q].r, loc[q].g)'
  BY <1>2, BelongsOn DEF InHand
<1>4. pc[q] \in ListLabels => \A r \in loc[q].todo \cup loc[q].done : Belongs(r, loc[q].g)'
  BY <1>2, BelongsOn DEF InHand
<1>5. pc[q] = "st_number" => route'[loc[q].r].number = loc[q].n
  BY <1>2, BelongsOn DEF InHand, HandLabels
<1> QED
  BY <1>2, <1>3, <1>4, <1>5 DEF InHand

LEMMA CallKeepsFiled ==
  ASSUME IInv, Known, FiledInv, NEW p \in Proc, Call(p)
  PROVE  FiledInv'
<1>0. Placed /\ Filed' /\ Elsewhere(p)
  BY CallPlaced, CallFiles, CallAlone
<1>1. CASE SetState(p) \/ ClearState(p)
  BY <1>0, <1>1, StandingFiled DEF SetState, ClearState, routeVars
<1>2. CASE ~(SetState(p) \/ ClearState(p))
  <2>1. InHand(p)'
    BY <1>0, <1>2, PassingInHand, BeginningInHand, TakingInHand DEF Call, Cascade
  <2> QED
    BY <1>0, <2>1, HandsKeep
<1> QED
  BY <1>1, <1>2

(* A sweeper only lists.                                                   *)
LEMMA SweepAlone ==
  ASSUME IInv, NEW s \in Sweeper, Sweep(s)
  PROVE  /\ s \in Proc /\ Elsewhere(s) /\ UNCHANGED store
         /\ pc'[s] \in SweepLabels \cup {"idle", "cd_read"}
         /\ loc'[s].done \in {{}, loc[s].done}
<1>0. /\ CallsTyped /\ s \in Proc /\ loc[s] \in LocalRecord /\ Prepared(pc[s], loc[s])
      /\ Locals.done = {}
  BY LocTyped, SweeperAssumption DEF IInv, Locals
<1>1. UNCHANGED store
  BY Zenon DEF Sweep, Claim, SweepList, SweepRead, SweepProbe, SweepEnd, Release, Crash
<1>2. ASSUME NEW label \in SweepLabels \cup {"idle"}, Goto(s, label)
      PROVE  /\ Elsewhere(s) /\ pc'[s] \in SweepLabels \cup {"idle", "cd_read"}
             /\ loc'[s].done \in {{}, loc[s].done}
  BY <1>0, <1>2 DEF CallsTyped, Goto, Elsewhere
<1>3. ASSUME NEW label \in SweepLabels \cup {"cd_read"}, NEW l, Enter(s, label, l),
             l.done \in {{}, loc[s].done}
      PROVE  /\ Elsewhere(s) /\ pc'[s] \in SweepLabels \cup {"idle", "cd_read"}
             /\ loc'[s].done \in {{}, loc[s].done}
  BY <1>0, <1>3 DEF CallsTyped, Enter, Elsewhere
<1>4. CASE Claim(s)
  <2> DEFINE l == [Locals EXCEPT !.fail = "sw_release"]
  <2>1. Enter(s, "sw_list", l) /\ l.done = {}
    BY <1>4 DEF Claim, Locals
  <2> HIDE DEF l
  <2> QED
    BY <1>0, <1>1, <1>3, <2>1 DEF SweepLabels
<1>5. CASE SweepList(s)
  <2> DEFINE l == [loc[s] EXCEPT !.todo = routeAll]
  <2>1. Enter(s, "sw_read", l) /\ l.done = loc[s].done
    BY <1>0, <1>5 DEF SweepList, LocalRecord
  <2> HIDE DEF l
  <2> QED
    BY <1>0, <1>1, <1>3, <2>1 DEF SweepLabels
<1>6. CASE SweepRead(s)
  <2> DEFINE l(r) == [loc[s] EXCEPT !.todo = @ \ {r}, !.left = @ \cup {route[r].group}]
  <2>1. loc[s].fail = "sw_release"
    BY <1>0, <1>6, Zenon DEF SweepRead, Prepared, SweepLabels
  <2>2. \/ Goto(s, "sw_probe") \/ Goto(s, "sw_release") \/ \E r : Enter(s, "sw_read", l(r))
    BY <1>6, <2>1, Zenon DEF SweepRead, Abort
  <2>3. \A r : l(r).done = loc[s].done
    BY <1>0 DEF LocalRecord
  <2> HIDE DEF l
  <2> QED
    BY <1>0, <1>1, <1>2, <1>3, <2>2, <2>3 DEF SweepLabels
<1>7. CASE SweepProbe(s)
  <2> DEFINE l(g) == [loc[s] EXCEPT !.left = @ \ {g}]
             c(g) == [l(g) EXCEPT !.g = g, !.ret = "sw_probe"]
  <2>1. \E g : Enter(s, "sw_probe", l(g)) \/ Enter(s, "cd_read", c(g))
    BY <1>7, Zenon DEF SweepProbe
  <2>2. \A g : l(g).done = loc[s].done /\ c(g).done = loc[s].done
    BY <1>0 DEF LocalRecord
  <2> HIDE DEF l, c
  <2> QED
    BY <1>0, <1>1, <1>3, <2>1, <2>2 DEF SweepLabels
<1>8. CASE SweepEnd(s) \/ Release(s) \/ Crash(s)
  <2>1. Goto(s, "idle") \/ Goto(s, "sw_release")
    BY <1>8 DEF SweepEnd, Release, Crash
  <2> QED
    BY <1>0, <1>1, <1>2, <2>1 DEF SweepLabels
<1> QED
  BY <1>4, <1>5, <1>6, <1>7, <1>8 DEF Sweep

LEMMA SweepKeepsFiled ==
  ASSUME IInv, FiledInv, NEW s \in Sweeper, Sweep(s)
  PROVE  FiledInv'
<1>0. /\ s \in Proc /\ Elsewhere(s) /\ UNCHANGED <<routeVars>>
      /\ pc'[s] \in SweepLabels \cup {"idle", "cd_read"}
      /\ loc'[s].done \in {{}, loc[s].done}
  BY SweepAlone DEF store
<1>1. Placed /\ UNCHANGED <<inGroup, byNumber, routeAll>>
  BY <1>0 DEF Placed, routeVars
<1>2. Filed'
  BY <1>1, IndexesLeft, FilingNothing DEF FiledInv
<1>3. InHand(s)'
  <2>1. pc[s] \in SweepLabels \cup {"idle"} \/ Crash(s)
    BY Zenon DEF Sweep, Claim, SweepList, SweepRead, SweepProbe, SweepEnd, Release, SweepLabels
  <2>2. loc'[s].done = {}
    <3>1. CASE pc[s] \in SweepLabels \cup {"idle"}
      BY <1>0, <3>1 DEF FiledInv, InHand, SweepLabels
    <3>2. CASE Crash(s)
      BY <1>0, <3>2 DEF Crash, Goto, Locals, IInv, CallsTyped
    <3> QED
      BY <2>1, <3>1, <3>2
  <2> QED
    BY <1>0, <2>2 DEF InHand, HandLabels, ListLabels, SweepLabels
<1> QED
  BY <1>0, <1>1, <1>2, <1>3, HandsKeep

LEMMA InitFiled == Init => FiledInv
<1> SUFFICES ASSUME Init PROVE FiledInv
  OBVIOUS
<1>1. PICK ng \in 0 .. MaxGroups, nr \in 0 .. MaxRoutes :
        SeedRoute \in [1 .. nr -> [group : 1 .. ng, pat : Pattern]]
  BY SeedAssumption
<1>2. DOMAIN SeedRoute = 1 .. nr /\ nr \in Nat
  BY <1>1, Bounds
<1>3. nextRoute = nr
  BY <1>2, FS_Interval DEF Init
<1>4. \A r \in 1 .. nr : r \in RouteId /\ Belongs(r, SeedRoute[r].group) /\ route[r].number = r
  BY <1>2, <1>3, Bounds DEF Init, RouteId, Belongs
<1>5. Filed
  <2>1. \A g \in GroupId : \A r \in inGroup[g] : Belongs(r, g)
    BY <1>2, <1>4, Zenon DEF Init
  <2>2. \A g \in GroupId, n \in Number : byNumber[g][n] # NoId =>
          byNumber[g][n] = n /\ n \in 1 .. nr /\ SeedRoute[n].group = g
    BY <1>2 DEF Init
  <2>3. routeAll \subseteq 1 .. nextRoute
    BY <1>2, <1>3 DEF Init
  <2> QED
    BY <1>4, <2>1, <2>2, <2>3 DEF Filed
<1>6. \A p \in Proc : pc[p] = "idle" /\ loc[p].done = {}
  BY DEF Init, Locals
<1> QED
  BY <1>5, <1>6 DEF FiledInv, InHand, HandLabels, ListLabels

LEMMA LNextFiled == IInv /\ Known /\ FiledInv /\ [LNext]_vars => FiledInv'
<1> SUFFICES ASSUME IInv, Known, FiledInv, [LNext]_vars PROVE FiledInv'
  OBVIOUS
<1>1. CASE Expire \/ LeaseExpires \/ UNCHANGED vars
  <2>1. UNCHANGED <<routeVars, pc, loc>>
    BY <1>1 DEF Expire, ExpireRecord, ExpireName, LeaseExpires, vars, store
  <2>2. Placed /\ UNCHANGED <<inGroup, byNumber, routeAll>>
    BY <2>1 DEF Placed, routeVars
  <2> QED
    BY <2>1, <2>2, StandingFiled
<1> QED
  BY <1>1, CallKeepsFiled, SweepKeepsFiled DEF LNext, Next

-----------------------------------------------------------------------------
(* What each call writes, key by key.                                      *)

LEMMA Frame ==
  ASSUME NEW p \in Proc, Call(p)
  PROVE  /\ \/ UNCHANGED group
            \/ WriteGroup(p) \/ PatchTtl(p) \/ PatchFlags(p) \/ HitGroup(p)
            \/ RenameRecord(p) \/ CascadeRecord(p)
         /\ \/ UNCHANGED byName
            \/ WriteGroup(p) \/ RenameDrop(p) \/ RenameSet(p) \/ CascadeName(p)
         /\ UNCHANGED recArmed \/ ArmRecord(p) \/ CascadeRecord(p)
         /\ \/ UNCHANGED nameTtl
            \/ ArmRecord(p) \/ ArmName(p) \/ WriteGroup(p) \/ RenameDrop(p)
            \/ RenameSet(p) \/ CascadeName(p)
         /\ UNCHANGED nextGroup \/ WriteGroup(p)
         /\ \/ UNCHANGED route
            \/ HitRoute(p) \/ RenameRoute(p) \/ WriteRoute(p) \/ UpdatePattern(p)
            \/ UpdateArtifact(p) \/ StripRecord(p)
         /\ UNCHANGED byNumber \/ WriteRoute(p) \/ StripNumber(p)
         /\ UNCHANGED inGroup \/ IndexInGroup(p) \/ StripInGroup(p) \/ CascadeMembers(p)
         /\ UNCHANGED routeAll \/ IndexAll(p) \/ StripAll(p) \/ CascadeUnlist(p)
         /\ UNCHANGED nextRoute \/ WriteRoute(p)
         /\ UNCHANGED counter \/ NextNumber(p) \/ CascadeCounters(p) \/ ClearCounters(p)
         /\ \/ UNCHANGED spaces
            \/ Dispatch(p) \/ StripKv(p) \/ CascadeData(p) \/ SetState(p)
            \/ ClearState(p) \/ ClearJournal(p)
<1> USE DEF store, groupVars, routeVars
<1>1. CASE \/ CreateGroup(p) \/ PatchGroup(p) \/ RefreshGroup(p) \/ RenameGroup(p)
           \/ CreateRoute(p) \/ UpdateRoute(p) \/ DeleteRoute(p) \/ DeleteGroup(p)
           \/ Bump(p) \/ RenameCheck(p) \/ ListRoutes(p) \/ ScanRoutes(p) \/ CascadeRead(p)
           \/ CascadeList(p) \/ CascadeRoute(p) \/ Fault(p)
  <2>1. UNCHANGED store
    BY <1>1, Zenon DEF CreateGroup, PatchGroup, RefreshGroup, RenameGroup, CreateRoute,
       UpdateRoute, DeleteRoute, DeleteGroup, Bump, RenameCheck, ListRoutes, ScanRoutes,
       CascadeRead, CascadeList, CascadeRoute, Fault
  <2> QED
    BY <2>1
<1>2. CASE \/ ArmRecord(p) \/ ArmName(p) \/ WriteGroup(p) \/ IndexGroup(p) \/ PatchTtl(p)
           \/ PatchFlags(p) \/ HitGroup(p) \/ RenameRecord(p) \/ RenameDrop(p)
           \/ RenameSet(p) \/ CascadeName(p) \/ CascadeRecord(p) \/ CascadeDone(p)
  <2>1. UNCHANGED <<routeVars, counter, spaces>>
    BY <1>2, Zenon DEF ArmRecord, ArmName, WriteGroup, IndexGroup, PatchTtl, PatchFlags,
       HitGroup, RenameRecord, RenameDrop, RenameSet, CascadeName, CascadeRecord,
       CascadeDone
  <2>2. UNCHANGED group \/ WriteGroup(p) \/ PatchTtl(p) \/ PatchFlags(p) \/ HitGroup(p)
          \/ RenameRecord(p) \/ CascadeRecord(p)
    BY <1>2 DEF ArmRecord, ArmName, IndexGroup, RenameDrop, RenameSet, CascadeName,
       CascadeDone
  <2>3. /\ UNCHANGED byName \/ WriteGroup(p) \/ RenameDrop(p) \/ RenameSet(p)
             \/ CascadeName(p)
        /\ UNCHANGED nameTtl \/ ArmRecord(p) \/ ArmName(p) \/ WriteGroup(p)
             \/ RenameDrop(p) \/ RenameSet(p) \/ CascadeName(p)
    BY <1>2, Zenon DEF ArmRecord, ArmName, IndexGroup, PatchTtl, PatchFlags, HitGroup,
       RenameRecord, CascadeRecord, CascadeDone
  <2>4. /\ UNCHANGED recArmed \/ ArmRecord(p) \/ CascadeRecord(p)
        /\ UNCHANGED nextGroup \/ WriteGroup(p)
    BY <1>2, Zenon DEF ArmRecord, ArmName, WriteGroup, IndexGroup, PatchTtl, PatchFlags, HitGroup,
       RenameRecord, RenameDrop, RenameSet, CascadeName, CascadeRecord, CascadeDone
  <2> QED
    BY <2>1, <2>2, <2>3, <2>4
<1>3. CASE \/ HitRoute(p) \/ RenameRoute(p) \/ WriteRoute(p) \/ IndexInGroup(p)
           \/ IndexAll(p) \/ IndexOwner(p) \/ UpdatePattern(p) \/ UpdateArtifact(p)
           \/ StripNumber(p) \/ StripInGroup(p) \/ StripAll(p) \/ StripOwner(p)
           \/ StripRecord(p) \/ CascadeUnlist(p) \/ CascadeMembers(p)
  <2>1. UNCHANGED <<groupVars, counter, spaces>>
    BY <1>3, Zenon DEF HitRoute, RenameRoute, WriteRoute, IndexInGroup, IndexAll,
       IndexOwner, UpdatePattern, UpdateArtifact, StripNumber, StripInGroup, StripAll,
       StripOwner, StripRecord, CascadeUnlist, CascadeMembers
  <2>2. UNCHANGED route \/ HitRoute(p) \/ RenameRoute(p) \/ WriteRoute(p)
          \/ UpdatePattern(p) \/ UpdateArtifact(p) \/ StripRecord(p)
    <3>1. CASE IndexInGroup(p) \/ IndexAll(p) \/ IndexOwner(p) \/ StripNumber(p)
      BY <3>1 DEF IndexInGroup, IndexAll, IndexOwner, StripNumber
    <3>2. CASE StripInGroup(p) \/ StripAll(p) \/ StripOwner(p) \/ CascadeUnlist(p)
               \/ CascadeMembers(p)
      BY <3>2 DEF StripInGroup, StripAll, StripOwner, CascadeUnlist, CascadeMembers
    <3> QED
      BY <1>3, <3>1, <3>2, Zenon
  <2>3. /\ UNCHANGED byNumber \/ WriteRoute(p) \/ StripNumber(p)
        /\ UNCHANGED nextRoute \/ WriteRoute(p)
    BY <1>3 DEF HitRoute, RenameRoute, IndexInGroup, IndexAll, IndexOwner, UpdatePattern,
       UpdateArtifact, StripInGroup, StripAll, StripOwner, StripRecord, StripNumber,
       CascadeUnlist, CascadeMembers
  <2>4. /\ UNCHANGED inGroup \/ IndexInGroup(p) \/ StripInGroup(p) \/ CascadeMembers(p)
        /\ UNCHANGED routeAll \/ IndexAll(p) \/ StripAll(p) \/ CascadeUnlist(p)
    BY <1>3, Zenon DEF HitRoute, RenameRoute, WriteRoute, IndexInGroup, IndexAll, IndexOwner,
       UpdatePattern, UpdateArtifact, StripNumber, StripInGroup, StripAll, StripOwner,
       StripRecord, CascadeUnlist, CascadeMembers
  <2> QED
    BY <2>1, <2>2, <2>3, <2>4
<1>4. CASE \/ Dispatch(p) \/ StripKv(p) \/ CascadeData(p) \/ SetState(p)
           \/ ClearState(p) \/ ClearJournal(p)
           \/ NextNumber(p) \/ CascadeCounters(p) \/ ClearCounters(p)
  <2>1. UNCHANGED <<groupVars, routeVars>>
    BY <1>4, Zenon DEF Dispatch, StripKv, CascadeData, SetState, ClearState, ClearJournal,
       NextNumber, CascadeCounters, ClearCounters
  <2>2. /\ UNCHANGED counter \/ NextNumber(p) \/ CascadeCounters(p) \/ ClearCounters(p)
        /\ UNCHANGED spaces \/ Dispatch(p) \/ StripKv(p) \/ CascadeData(p)
             \/ SetState(p) \/ ClearState(p) \/ ClearJournal(p)
    BY <1>4, Zenon DEF Dispatch, StripKv, CascadeData, SetState, ClearState, ClearJournal,
       NextNumber, CascadeCounters, ClearCounters
  <2> QED
    BY <2>1, <2>2
<1> QED
  BY <1>1, <1>2, <1>3, <1>4 DEF Call, Cascade

-----------------------------------------------------------------------------
(* One API caller, c, next to any number of sweepers: what its check for   *)
(* conflicts found is still so when it writes.                             *)

OneCaller(c) == Proc = Sweeper \cup {c} /\ c \notin Sweeper

(* The labels between the reads of a check and the write it allows, and    *)
(* those that lead a create to its check                                   *)
CheckLabels == {"cr_scan", "up_scan", "cr_number", "cr_write", "up_write", "up_path"}
AimLabels   == ArmLabels \cup {"cg_write"}

EditLabels  == {"up_list", "up_scan", "up_write", "up_path"}

Clear(c, r) == <<loc[c].pat, route[r].pat>> \notin Clash

(* The route that c has given new methods, and not yet the new path        *)
HalfEdited(c, r) == pc[c] = "up_path" /\ r = loc[c].r

(* No two routes of a group conflict, but for the one half edited.         *)
Peace(c) ==
  \A g \in GroupId : \A r, s \in inGroup[g] :
    r # s => \/ <<route[r].pat, route[s].pat>> \notin Clash
             \/ HalfEdited(c, r) \/ HalfEdited(c, s)

(* What the patch does not set, and what is written already, is the route's. *)
Merged(c) ==
  LET old == route[loc[c].r].pat
      new == loc[c].pat IN
  pc[c] \in EditLabels =>
    /\ "methods" \notin loc[c].set \/ pc[c] = "up_path" => new.methods = old.methods
    /\ "path" \notin loc[c].set => new.path = old.path

ConfInv(c) ==
  /\ Peace(c) /\ Merged(c)
  /\ pc[c] \in CheckLabels => \A r \in inGroup[loc[c].g] :
       \/ r = loc[c].r \/ Clear(c, r)
       \/ pc[c] \in {"cr_scan", "up_scan"} /\ r \in loc[c].todo
  /\ pc[c] = "cr_group" => \A r \in inGroup[loc[c].g] :
       r = loc[c].r \/ <<route[loc[c].r].pat, route[r].pat>> \notin Clash
  /\ pc[c] \in CreateLabels => loc[c].r = NoId
  /\ pc[c] \in AimLabels => loc[c].r = NoId \/ loc[c].ret # "cr_list"

(* A step that neither files a route nor gives one another pattern         *)
PatternsStay ==
  /\ \A g \in GroupId : inGroup'[g] \subseteq inGroup[g]
  /\ \A r \in RouteId : route'[r].pat = route[r].pat

(* and that leaves the caller where it is, or where it checks nothing yet. *)
NotChecking(c) ==
  \/ pc'[c] = pc[c] /\ loc'[c] = loc[c]
  \/ /\ pc'[c] \notin CheckLabels \cup {"cr_group"}
     /\ pc'[c] \in CreateLabels => loc'[c].r = NoId
     /\ pc'[c] \in AimLabels => loc'[c].r = NoId \/ loc'[c].ret # "cr_list"
     /\ pc[c] # "up_path" /\ Merged(c)'

(* Where the patterns stay, so does the peace, unless a half edited route  *)
(* is left behind.                                                         *)
LEMMA PatternsStayFree ==
  ASSUME IInv, FiledInv, NEW c, ConfInv(c), PatternsStay,
         pc[c] = "up_path" => pc'[c] = "up_path" /\ loc'[c].r = loc[c].r
  PROVE  Peace(c)'
BY DEF IInv, TypeOK, RoutesTyped, ConfInv, Peace, HalfEdited, PatternsStay

LEMMA NotCheckingKeeps ==
  ASSUME IInv, FiledInv, NEW c \in Proc, ConfInv(c), PatternsStay, NotChecking(c)
  PROVE  ConfInv(c)'
<1>1. Peace(c)'
  BY PatternsStayFree DEF NotChecking
<1>2. CASE pc'[c] = pc[c] /\ loc'[c] = loc[c]
  <2>1. pc[c] \in CheckLabels \cup {"cr_group"} => loc[c].g \in GroupId
    BY LocTyped DEF IInv, Prepared, CheckLabels
  <2>2. pc[c] \in {"cr_group"} \cup EditLabels => loc[c].r \in RouteId
    BY LocTyped DEF IInv, Prepared, EditLabels
  <2>4. Merged(c)'
    BY <1>2, <2>2 DEF ConfInv, Merged, PatternsStay
  <2>3. \A g \in GroupId : \A r \in inGroup'[g] : r \in inGroup[g] /\ r \in RouteId
    BY DEF PatternsStay, IInv, TypeOK, RoutesTyped
  <2> QED
    BY <1>1, <1>2, <2>1, <2>2, <2>3, <2>4 DEF ConfInv, PatternsStay, Clear
<1>3. CASE ~(pc'[c] = pc[c] /\ loc'[c] = loc[c])
  BY <1>1, <1>3 DEF ConfInv, NotChecking, CheckLabels
<1> QED
  BY <1>2, <1>3 DEF NotChecking

(* The patterns stay unless a route is written or filed.                   *)
LEMMA CallPatterns ==
  ASSUME IInv, NEW p \in Proc, Call(p)
  PROVE  PatternsStay \/ WriteRoute(p) \/ UpdatePattern(p) \/ IndexInGroup(p)
<1> USE DEF IInv, TypeOK, RoutesTyped
<1>1. (\A g \in GroupId : inGroup'[g] \subseteq inGroup[g]) \/ IndexInGroup(p)
  BY Frame, Zenon DEF StripInGroup, CascadeMembers
<1>2. \/ \A r \in RouteId : route'[r].pat = route[r].pat
      \/ WriteRoute(p) \/ UpdatePattern(p)
  <2>1. CASE HitRoute(p)
    BY <2>1 DEF HitRoute
  <2>2. CASE RenameRoute(p)
    <3>1. \/ UNCHANGED route
          \/ \E r : route' = [route EXCEPT ![r].has = @ \cup {"group_name"},
                                           ![r].gname = loc[p].nm]
      BY <2>2, Zenon DEF RenameRoute
    <3>2. ASSUME NEW r, route' = [route EXCEPT ![r].has = @ \cup {"group_name"},
                                              ![r].gname = loc[p].nm]
          PROVE  \A s \in RouteId : route'[s].pat = route[s].pat
      BY <3>2
    <3> QED
      BY <3>1, <3>2, Zenon
  <2>3. CASE UpdateArtifact(p)
    BY <2>3 DEF UpdateArtifact
  <2>4. CASE StripRecord(p)
    BY <2>4 DEF StripRecord
  <2> QED
    BY <2>1, <2>2, <2>3, <2>4, Frame
<1> QED
  BY <1>1, <1>2 DEF PatternsStay

(* Most steps of the caller check nothing.                                 *)
LEMMA CallNotChecking ==
  ASSUME IInv, Known, NEW c \in Proc, ConfInv(c), Call(c)
  PROVE  \/ NotChecking(c)
         \/ ListRoutes(c) \/ ScanRoutes(c) \/ NextNumber(c) \/ WriteRoute(c)
         \/ UpdatePattern(c) \/ Fault(c)
<1>0. CallsTyped /\ loc[c] \in LocalRecord /\ Prepared(pc[c], loc[c]) /\ Locals.r = NoId
  BY LocTyped DEF IInv, Locals
<1> USE DEF CheckLabels, AimLabels, EditLabels
<1>1. ASSUME NEW label, Goto(c, label), pc[c] # "up_path",
             label \notin CheckLabels \cup {"cr_group"} \cup CreateLabels \cup EditLabels,
             label \notin AimLabels \/ pc[c] \in AimLabels
      PROVE  NotChecking(c)
  BY <1>0, <1>1 DEF CallsTyped, Goto, NotChecking, ConfInv, Merged
<1>2. CASE \/ ArmRecord(c) \/ IndexGroup(c) \/ PatchTtl(c) \/ PatchFlags(c)
           \/ HitRoute(c) \/ HitGroup(c) \/ RenameCheck(c) \/ RenameRecord(c)
           \/ RenameDrop(c) \/ IndexInGroup(c) \/ IndexAll(c) \/ IndexOwner(c)
           \/ UpdateArtifact(c) \/ ClearCounters(c)
  <2>1. PICK label \in {"arm_name", "arm_record", "idle", "hit_group", "bump", "rn_record",
                        "rn_drop", "rn_set", "cr_all", "cr_owner", "up_artifact"} :
          Goto(c, label) /\ pc[c] # "up_path" /\ (label \in AimLabels => pc[c] \in AimLabels)
    BY <1>2, Zenon DEF ArmRecord, IndexGroup, PatchTtl, PatchFlags, HitRoute,
       HitGroup, RenameCheck, RenameRecord, RenameDrop, IndexInGroup, IndexAll, IndexOwner,
       UpdateArtifact, ClearCounters, Next1
  <2> QED
    BY <1>1, <2>1
<1>3. CASE \/ StripNumber(c) \/ StripInGroup(c) \/ StripAll(c) \/ StripOwner(c) \/ StripKv(c)
           \/ CascadeUnlist(c) \/ CascadeMembers(c) \/ CascadeData(c)
           \/ CascadeCounters(c) \/ CascadeName(c) \/ CascadeRecord(c)
  <2>1. PICK label \in StripLabels \cup LoopLabels : Goto(c, label) /\ pc[c] # "up_path"
    BY <1>3 DEF StripNumber, StripInGroup, StripAll, StripOwner, StripKv, CascadeUnlist,
       CascadeMembers, CascadeData, CascadeCounters, CascadeName, CascadeRecord, Next1
  <2> QED
    BY <1>1, <2>1
<1>4. CASE ArmName(c)
  <2>1. CASE loc[c].ret = "cr_list"
    <3>1. pc'[c] = "cr_list" /\ loc'[c] = loc[c]
      BY <1>0, <1>4, <2>1 DEF ArmName, Return, Goto, CallsTyped
    <3> QED
      BY <1>4, <2>1, <3>1 DEF NotChecking, ConfInv, ArmName, Merged
  <2>2. CASE loc[c].ret # "cr_list"
    <3>1. /\ Goto(c, loc[c].ret) /\ loc[c].ret \in {"idle", "pt_flags", "rn_list", "sw_probe"}
          /\ pc[c] = "arm_name"
      BY <1>0, <1>4, <2>2 DEF ArmName, Return, LocalRecord
    <3> QED
      BY <1>1, <3>1
  <2> QED
    BY <2>1, <2>2
<1>5. CASE \/ CreateGroup(c) \/ PatchGroup(c) \/ RefreshGroup(c) \/ Dispatch(c)
           \/ RenameGroup(c) \/ CreateRoute(c) \/ DeleteRoute(c)
           \/ DeleteGroup(c) \/ ClearJournal(c)
  <2>0. pc[c] = "idle"
    BY <1>5, Zenon DEF CreateGroup, PatchGroup, RefreshGroup, Dispatch, RenameGroup, CreateRoute,
       DeleteRoute, DeleteGroup, ClearJournal, Asked
  <2>1. \/ pc'[c] \in {"hit_route", "rn_check", "st_number", "cd_read", "cj_counters"}
        \/ /\ pc'[c] \in {"cg_write", "pt_flags", "pt_ttl", "arm_record", "cr_list"}
           /\ loc'[c].r = NoId
    <3>0. PatchGroup(c) =>
            \/ \E g, n : Enter(c, "pt_flags", [Locals EXCEPT !.g = g, !.nm = n])
            \/ \E g, n, t, next : Enter(c, "pt_ttl", [[Locals EXCEPT !.g = g, !.nm = n]
                                              EXCEPT !.ttl = t, !.ret = next])
      BY Zenon DEF PatchGroup
    <3> USE <1>0 DEF CallsTyped, Enter, Locals
    <3>1. CASE CreateGroup(c)
      <4>1. \/ \E n, t : Enter(c, "cg_write", [Locals EXCEPT !.nm = n, !.ttl = t])
            \/ \E n, q : Enter(c, "cg_write", [Locals EXCEPT !.nm = n, !.ttl = 1,
                                          !.pat = q, !.ret = "cr_list"])
        BY <3>1, Zenon DEF CreateGroup
      <4> QED
        BY <4>1, Zenon
    <3>2. CASE PatchGroup(c)
      <4>1. CASE \E g, n : Enter(c, "pt_flags", [Locals EXCEPT !.g = g, !.nm = n])
        BY <4>1
      <4>2. CASE \E g, n, t, next : Enter(c, "pt_ttl", [[Locals EXCEPT !.g = g, !.nm = n]
                                              EXCEPT !.ttl = t, !.ret = next])
        BY <4>2
      <4> QED
        BY <3>0, <3>2, <4>1, <4>2
    <3>3. CASE RefreshGroup(c) \/ Dispatch(c) \/ RenameGroup(c)
      BY <3>3, Zenon DEF RefreshGroup, Dispatch, RenameGroup
    <3>4. CASE CreateRoute(c)
      BY <3>4 DEF CreateRoute
    <3>5. CASE DeleteRoute(c)
      BY <3>5, Zenon DEF DeleteRoute
    <3>6. CASE DeleteGroup(c) \/ ClearJournal(c)
      BY <3>6 DEF DeleteGroup, ClearJournal
    <3> QED
      BY <1>5, <3>1, <3>2, <3>3, <3>4, <3>5, <3>6
  <2> QED
    BY <2>0, <2>1 DEF NotChecking, Merged
<1>6. CASE WriteGroup(c) \/ Bump(c) \/ RenameSet(c)
  <2>1. CASE Goto(c, "idle")
    BY <1>1, <1>6, <2>1 DEF WriteGroup, Bump, RenameSet
  <2>2. CASE ~Goto(c, "idle")
    <3>1. /\ pc'[c] \in {"cg_index", "arm_record", "arm_name"}
          /\ loc'[c].r = NoId \/ loc'[c].ret # "cr_list"
      <4>1. CASE WriteGroup(c)
        BY <1>0, <4>1 DEF WriteGroup, Enter, CallsTyped, LocalRecord, ConfInv
      <4>2. CASE Bump(c)
        <5>1. loc[c].ret = "idle"
          BY <1>0, <4>2 DEF Bump, Prepared, SweepLabels
        <5>2. Enter(c, "arm_record", [loc[c] EXCEPT !.nm = group[loc[c].g].name,
                                                    !.ttl = group[loc[c].g].ttl])
          BY <2>2, <4>2 DEF Bump
        <5> QED
          BY <1>0, <5>1, <5>2 DEF Enter, CallsTyped, LocalRecord
      <4>3. CASE RenameSet(c)
        BY <1>0, <4>3 DEF RenameSet, Enter, CallsTyped, LocalRecord
      <4> QED
        BY <1>6, <4>1, <4>2, <4>3
    <3> QED
      BY <1>6, <3>1 DEF NotChecking, Merged, WriteGroup, Bump, RenameSet
  <2> QED
    BY <2>1, <2>2
<1>7. CASE RenameRoute(c) \/ StripRecord(c) \/ CascadeList(c) \/ CascadeRoute(c)
  <2>1. pc'[c] \in {"idle", "rn_routes", "cd_unlist", "cd_route", "cd_members",
                    "st_number", "st_kv"}
    BY <1>0, <1>7, Zenon
      DEF RenameRoute, StripRecord, CascadeList, CascadeRoute, Enter, Goto, CallsTyped
  <2> QED
    BY <1>7, <2>1 DEF NotChecking, Merged, RenameRoute, StripRecord, CascadeList, CascadeRoute
<1>8. CASE CascadeRead(c) \/ CascadeDone(c)
  <2>1. /\ pc'[c] \in {"cd_list", "idle", "sw_release", "sw_probe"}
    <3>1. loc[c].fail \in {"idle", "sw_release"}
      BY <1>0 DEF LocalRecord
    <3>2. CASE CascadeRead(c)
      BY <1>0, <3>1, <3>2 DEF CascadeRead, Abort, Goto, CallsTyped, Enter
    <3>3. CASE CascadeDone(c)
      <4>1. loc[c].ret \in {"idle", "sw_probe"}
        BY <1>0, <3>3 DEF CascadeDone, Prepared
      <4> QED
        BY <1>0, <3>3, <4>1 DEF CascadeDone, CallsTyped, Enter
    <3> QED
      BY <1>8, <3>2, <3>3
  <2> QED
    BY <1>8, <2>1 DEF NotChecking, Merged, CascadeRead, CascadeDone
<1>9. CASE SetState(c) \/ ClearState(c)
  BY <1>9 DEF SetState, ClearState, NotChecking
<1>10. CASE UpdateRoute(c)
  <2>1. /\ pc[c] = "idle" /\ UNCHANGED route
    BY <1>10, Zenon DEF UpdateRoute, Asked, store, routeVars
  <2>2. PICK r \in RouteId :
          LET l == [Locals EXCEPT !.g = route[r].group, !.r = r] IN
          \/ Enter(c, "up_artifact", l)
          \/ \E q \in Pattern, set \in SUBSET {"methods", "path"} :
               /\ "methods" \notin set => q.methods = route[r].pat.methods
               /\ "path" \notin set => q.path = route[r].pat.path
               /\ Enter(c, "up_list", [l EXCEPT !.pat = q, !.set = set])
    BY <1>10, Zenon DEF UpdateRoute
  <2> DEFINE l == [Locals EXCEPT !.g = route[r].group, !.r = r]
  <2>3. CASE Enter(c, "up_artifact", l)
    BY <1>0, <2>1, <2>3 DEF CallsTyped, Enter, NotChecking, Merged
  <2>4. ASSUME NEW q, NEW set,
               /\ "methods" \notin set => q.methods = route[r].pat.methods
               /\ "path" \notin set => q.path = route[r].pat.path,
               Enter(c, "up_list", [l EXCEPT !.pat = q, !.set = set])
        PROVE  NotChecking(c)
    <3>1. /\ pc'[c] = "up_list" /\ loc'[c].pat = q /\ loc'[c].set = set /\ loc'[c].r = r
      BY <1>0, <2>4 DEF CallsTyped, Enter, Locals
    <3>2. Merged(c)'
      BY <2>1, <2>4, <3>1 DEF Merged
    <3> QED
      BY <2>1, <3>1, <3>2 DEF NotChecking
  <2> QED
    BY <2>2, <2>3, <2>4
<1> QED
  BY <1>2, <1>3, <1>4, <1>5, <1>6, <1>7, <1>8, <1>9, <1>10 DEF Call, Cascade

(* The check: what it has read does not conflict, and nobody files more.   *)
LEMMA CheckingKeeps ==
  ASSUME IInv, Known, FiledInv, NEW c \in Proc, ConfInv(c),
         ListRoutes(c) \/ ScanRoutes(c) \/ NextNumber(c)
  PROVE  ConfInv(c)'
<1>0. CallsTyped /\ loc[c] \in LocalRecord /\ Prepared(pc[c], loc[c]) /\ Locals.r = NoId
  BY LocTyped DEF IInv, Locals
<1>1. UNCHANGED <<inGroup, route>>
  BY Zenon DEF ListRoutes, ScanRoutes, NextNumber, store, routeVars
<1>2. PatternsStay
  BY <1>1 DEF PatternsStay
<1>3. Peace(c)'
  BY <1>2, PatternsStayFree, Zenon DEF ListRoutes, ScanRoutes, NextNumber, After, Scanned
<1> USE DEF CheckLabels, AimLabels, EditLabels
<1>4. CASE ListRoutes(c)
  <2>1. /\ pc[c] \in {"cr_list", "up_list", "rn_list"}
        /\ Enter(c, After[pc[c]], [loc[c] EXCEPT !.todo = inGroup[loc[c].g]])
    BY <1>4 DEF ListRoutes, After
  <2>2. /\ pc'[c] \in {"cr_scan", "up_scan", "rn_scan"}
        /\ pc'[c] = "cr_scan" => pc[c] = "cr_list"
        /\ pc'[c] = "up_scan" => pc[c] = "up_list"
    BY <1>0, <2>1 DEF After, CallsTyped, Enter
  <2>3. /\ loc'[c].todo = inGroup[loc[c].g] /\ loc'[c].g = loc[c].g /\ loc'[c].r = loc[c].r
        /\ loc'[c].pat = loc[c].pat /\ loc'[c].set = loc[c].set
    BY <1>0, <2>1 DEF CallsTyped, Enter, LocalRecord
  <2> QED
    BY <1>1, <1>3, <2>2, <2>3 DEF ConfInv, Merged
<1>5. CASE NextNumber(c)
  <2>1. pc[c] = "cr_number" /\ pc'[c] = "cr_write" /\ loc'[c].g = loc[c].g /\ loc'[c].r = loc[c].r
        /\ loc'[c].pat = loc[c].pat
    BY <1>0, <1>5 DEF NextNumber, Enter, CallsTyped, LocalRecord
  <2> QED
    BY <1>1, <1>3, <2>1 DEF ConfInv, Clear, Merged
<1>6. CASE ScanRoutes(c)
  <2>0. pc[c] \in {"cr_scan", "up_scan", "rn_scan"}
    BY <1>6, Zenon DEF ScanRoutes, Scanned
  <2>1. CASE loc[c].todo = {}
    <3>1. Goto(c, Scanned[pc[c]])
      BY <1>6, <2>1 DEF ScanRoutes
    <3>2. /\ pc'[c] \in {"cr_number", "up_write", "rn_routes"} /\ loc'[c] = loc[c]
          /\ pc'[c] = "cr_number" => pc[c] = "cr_scan"
          /\ pc'[c] = "up_write" => pc[c] = "up_scan"
      BY <1>0, <2>0, <3>1 DEF Scanned, Goto, CallsTyped
    <3> QED
      BY <1>1, <1>3, <2>0, <2>1, <3>2 DEF ConfInv, Clear, Merged
  <2>2. CASE Goto(c, "idle")
    <3>1. NotChecking(c)
      BY <1>0, <2>0, <2>2 DEF NotChecking, Goto, CallsTyped, Merged
    <3> QED
      BY <1>2, <3>1, NotCheckingKeeps
  <2>3. CASE loc[c].todo # {} /\ ~Goto(c, "idle")
    <3>1. PICK r \in loc[c].todo :
            /\ ~Conflicting(c, r)
            /\ Enter(c, pc[c], [loc[c] EXCEPT !.todo = @ \ {r},
                       !.done = IF pc[c] = "rn_scan" THEN @ \cup {r} ELSE @])
      BY <1>6, <2>3, Zenon DEF ScanRoutes
    <3>2. /\ pc'[c] = pc[c] /\ loc'[c].g = loc[c].g /\ loc'[c].r = loc[c].r
          /\ loc'[c].pat = loc[c].pat /\ loc'[c].todo = loc[c].todo \ {r}
          /\ loc'[c].set = loc[c].set
      BY <1>0, <3>1 DEF CallsTyped, Enter, LocalRecord
    <3>3. pc[c] \in {"cr_scan", "up_scan"} => r = loc[c].r \/ Clear(c, r)
      BY <3>1 DEF Conflicting, Clear
    <3> QED
      BY <1>1, <1>3, <2>0, <3>2, <3>3 DEF ConfInv, Clear, Merged
  <2> QED
    BY <2>1, <2>2, <2>3
<1> QED
  BY <1>4, <1>5, <1>6

(* The writes the check allowed                                            *)
LEMMA AllowedKeeps ==
  ASSUME IInv, Known, FiledInv, NEW c \in Proc, ConfInv(c),
         WriteRoute(c) \/ UpdatePattern(c) \/ IndexInGroup(c),
         \A e \in Clash : <<e[2], e[1]>> \in Clash
  PROVE  ConfInv(c)'
<1>0. /\ CallsTyped /\ loc[c] \in LocalRecord /\ Prepared(pc[c], loc[c]) /\ Locals.r = NoId
      /\ Filed /\ InHand(c)
  BY LocTyped DEF IInv, Locals, FiledInv
<1>1. \A q, s : <<q, s>> \notin Clash => <<s, q>> \notin Clash
  OBVIOUS
<1>2. \A g \in GroupId : \A r \in inGroup[g] :
        r \in RouteId /\ r \in 1 .. nextRoute /\ route[r].group = g
  BY <1>0 DEF Filed, Belongs, IInv, TypeOK, RoutesTyped
<1> USE DEF CheckLabels, AimLabels, EditLabels
<1>3. CASE WriteRoute(c)
  <2>1. PICK r : r = nextRoute + 1
    OBVIOUS
  <2>2. r \in RouteId /\ r \notin 1 .. nextRoute
    BY <1>3, <2>1, Bounds DEF WriteRoute, IInv, TypeOK, RoutesTyped, RouteId
  <2>3. /\ pc[c] = "cr_write" /\ pc'[c] = "cr_group"
        /\ loc'[c].g = loc[c].g /\ loc'[c].r = r /\ inGroup' = inGroup
    BY <1>0, <1>3, <2>1 DEF WriteRoute, Enter, CallsTyped, LocalRecord
  <2>4. /\ route'[r].pat = loc[c].pat
        /\ \A s \in RouteId \ {r} : route'[s].pat = route[s].pat
    BY <1>3, <2>1, <2>2 DEF WriteRoute, IInv, TypeOK, RoutesTyped
  <2>5. \A g \in GroupId : \A s \in inGroup[g] : route'[s].pat = route[s].pat
    BY <1>2, <2>2, <2>4
  <2>6. loc[c].g \in GroupId /\ loc[c].r = NoId
    BY <1>0, <2>3 DEF Prepared, ConfInv
  <2>7. \A s \in inGroup[loc[c].g] : s # NoId /\ Clear(c, s)
    BY <1>2, <2>3, <2>6 DEF ConfInv, NoId
  <2>8. \A s \in inGroup[loc[c].g] : <<route'[r].pat, route'[s].pat>> \notin Clash
    BY <2>4, <2>5, <2>6, <2>7 DEF Clear
  <2>9. Peace(c)'
    BY <2>3, <2>5 DEF ConfInv, Peace, HalfEdited
  <2> QED
    BY <2>3, <2>8, <2>9 DEF ConfInv, Merged
<1>4. CASE UpdatePattern(c)
  <2>1. PICK u, g : u = loc[c].r /\ g = loc[c].g
    OBVIOUS
  <2>2. /\ pc[c] \in {"up_write", "up_path"} /\ u \in RouteId /\ g \in GroupId
        /\ route[u].group = g /\ loc[c].pat \in Pattern
    BY <1>0, <1>4, <2>1 DEF UpdatePattern, Prepared, InHand, HandLabels, Belongs
  <2>3. /\ inGroup' = inGroup
        /\ route'[u].pat = Patched(c)
        /\ \A s \in RouteId \ {u} : route'[s].pat = route[s].pat
    BY <1>4, <2>1, <2>2 DEF UpdatePattern, IInv, TypeOK, RoutesTyped
  <2>4. \A s \in inGroup[g] : s # u => Clear(c, s)
    BY <2>1, <2>2 DEF ConfInv
  <2>5. CASE SetsMethods(c) /\ "path" \in loc[c].set
    <3>1. pc'[c] = "up_path" /\ loc'[c] = loc[c]
      BY <1>0, <1>4, <2>5 DEF UpdatePattern, Goto, CallsTyped
    <3>2. Peace(c)'
      BY <1>2, <2>1, <2>2, <2>3, <2>5, <3>1 DEF ConfInv, Peace, HalfEdited, SetsMethods
    <3>3. Merged(c)'
      BY <2>1, <2>3, <2>5, <3>1 DEF Merged, Patched
    <3>4. \A s \in inGroup[g] : s # u => Clear(c, s)'
      BY <1>2, <2>2, <2>3, <2>4, <3>1 DEF Clear
    <3> QED
      BY <2>1, <2>3, <3>1, <3>2, <3>3, <3>4 DEF ConfInv
  <2>6. CASE ~(SetsMethods(c) /\ "path" \in loc[c].set)
    <3>1. \/ Goto(c, "idle") \/ Goto(c, "up_artifact")
      BY <1>4, <2>6 DEF UpdatePattern
    <3>2. pc'[c] \in {"idle", "up_artifact"}
      BY <1>0, <3>1 DEF Goto, CallsTyped
    <3>3. Patched(c) = loc[c].pat
      BY <2>1, <2>2, <2>6 DEF ConfInv, Merged, Patched, SetsMethods, Pattern
    <3>4. ASSUME NEW h \in GroupId, NEW r \in inGroup[h], NEW s \in inGroup[h], r # s
          PROVE  <<route'[r].pat, route'[s].pat>> \notin Clash
      <4>0. r \in RouteId /\ s \in RouteId /\ route[r].group = h /\ route[s].group = h
        BY <1>2, <3>4
      <4>1. CASE r # u /\ s # u
        BY <2>1, <2>3, <3>4, <4>0, <4>1 DEF ConfInv, Peace, HalfEdited
      <4>2. CASE r = u
        <5>1. h = g /\ Clear(c, s)
          BY <2>2, <2>4, <3>4, <4>0, <4>2
        <5> QED
          BY <2>3, <3>3, <3>4, <4>0, <4>2, <5>1 DEF Clear
      <4>3. CASE s = u
        <5>1. h = g /\ Clear(c, r)
          BY <2>2, <2>4, <3>4, <4>0, <4>3
        <5> QED
          BY <1>1, <2>3, <3>3, <3>4, <4>0, <4>3, <5>1 DEF Clear
      <4> QED
        BY <4>1, <4>2, <4>3
    <3> QED
      BY <2>3, <3>2, <3>4 DEF ConfInv, Peace, Merged
  <2> QED
    BY <2>5, <2>6
<1>5. CASE IndexInGroup(c)
  <2>1. PICK u, g : u = loc[c].r /\ g = loc[c].g
    OBVIOUS
  <2>2. /\ pc[c] = "cr_group" /\ pc'[c] = "cr_all" /\ route' = route
    BY <1>0, <1>5 DEF IndexInGroup, Next1, Goto, CallsTyped
  <2>3. u \in RouteId /\ g \in GroupId /\ route[u].group = g
    BY <1>0, <2>1, <2>2 DEF Prepared, InHand, HandLabels, Belongs
  <2>4. \A h \in GroupId : \A r \in inGroup'[h] : r \in inGroup[h] \/ (h = g /\ r = u)
    BY <1>5, <2>1, <2>3 DEF IndexInGroup, IInv, TypeOK, RoutesTyped
  <2>5. \A r \in inGroup[g] : r = u \/ <<route[u].pat, route[r].pat>> \notin Clash
    BY <2>1, <2>2 DEF ConfInv
  <2>6. Peace(c)'
    <3>1. \A h \in GroupId : \A r, s \in inGroup[h] :
            r # s => <<route[r].pat, route[s].pat>> \notin Clash
      BY <2>2 DEF ConfInv, Peace, HalfEdited
    <3>2. \A h \in GroupId : \A r, s \in inGroup'[h] :
            r # s => <<route'[r].pat, route'[s].pat>> \notin Clash
      BY <1>1, <2>2, <2>4, <2>5, <3>1, Zenon
    <3> QED
      BY <3>2 DEF Peace
  <2> QED
    BY <2>2, <2>6 DEF ConfInv, Merged
<1> QED
  BY <1>3, <1>4, <1>5

LEMMA InitConf ==
  ASSUME NEW c \in Proc, \A e \in Clash : <<e[2], e[1]>> \in Clash
  PROVE  Init => ConfInv(c)
<1> SUFFICES ASSUME Init PROVE ConfInv(c)
  OBVIOUS
<1>1. PICK ng \in 0 .. MaxGroups, nr \in 0 .. MaxRoutes :
        /\ SeedRoute \in [1 .. nr -> [group : 1 .. ng, pat : Pattern]]
        /\ \A r, s \in 1 .. nr :
             r # s /\ SeedRoute[r].group = SeedRoute[s].group
               => <<SeedRoute[r].pat, SeedRoute[s].pat>> \notin Clash
  BY SeedAssumption
<1>2. \A r \in 1 .. nr : r \in RouteId /\ route[r].pat = SeedRoute[r].pat
  BY <1>1, Bounds DEF Init, RouteId
<1>3. \A g \in GroupId : \A r \in inGroup[g] : r \in 1 .. nr /\ SeedRoute[r].group = g
  BY <1>1 DEF Init
<1>4. pc[c] = "idle"
  BY DEF Init
<1> QED
  BY <1>1, <1>2, <1>3, <1>4
  DEF ConfInv, Peace, Merged, CheckLabels, AimLabels, EditLabels

(* Nobody but the caller writes or files a route.                          *)
LEMMA SweeperOnlyCascades ==
  ASSUME NEW c \in Proc, OneCaller(c), SweepInv, NEW s \in Proc \ {c}
  PROVE  /\ s \in Sweeper /\ pc[s] \in {"idle"} \cup SweepLabels \cup StripLabels \cup LoopLabels
         /\ Call(s) => Cascade(s) \/ Fault(s)
<1>1. s \in Sweeper
  BY DEF OneCaller
<1> QED
  BY <1>1, SweeperCascades DEF SweepInv, Hunting

(* What failed once has failed.                                            *)
LEMMA FaultsOnlyGrow ==
  ASSUME IInv, [LNext]_vars, faults' = 0
  PROVE  faults = 0
<1>0. faults \in Nat
  BY Bounds DEF IInv, TypeOK, CountsTyped
<1>1. ASSUME NEW p \in Proc, Call(p) PROVE faults' >= faults
  BY <1>1, CallAlone
<1>2. ASSUME NEW s \in Sweeper, Sweep(s) PROVE faults' = faults \/ faults' = faults + 1
  BY <1>2, Zenon
    DEF Sweep, Claim, SweepList, SweepRead, SweepProbe, SweepEnd, Release, Crash, others
<1>3. CASE Expire \/ LeaseExpires \/ UNCHANGED vars
  BY <1>3 DEF Expire, ExpireRecord, ExpireName, LeaseExpires, vars, others
<1> QED
  BY <1>0, <1>1, <1>2, <1>3 DEF LNext, Next

(* Until something fails, the invariant holds.                             *)
SafeConf(c) == faults = 0 => ConfInv(c)

LEMMA LNextConf ==
  ASSUME NEW c \in Proc, OneCaller(c), \A e \in Clash : <<e[2], e[1]>> \in Clash
  PROVE  IInv /\ Known /\ SweepInv /\ FiledInv /\ SafeConf(c) /\ [LNext]_vars => SafeConf(c)'
<1> SUFFICES ASSUME IInv, Known, SweepInv, FiledInv, SafeConf(c), [LNext]_vars, faults' = 0
             PROVE  ConfInv(c)'
  BY DEF SafeConf
<1>0. faults = 0 /\ ConfInv(c)
  BY FaultsOnlyGrow DEF SafeConf
<1>1. CASE Call(c)
  <2>1. CASE ListRoutes(c) \/ ScanRoutes(c) \/ NextNumber(c)
    BY <1>0, <2>1, CheckingKeeps
  <2>2. CASE WriteRoute(c) \/ UpdatePattern(c) \/ IndexInGroup(c)
    BY <1>0, <2>2, AllowedKeeps
  <2>3. ~Fault(c)
    BY <1>0 DEF Fault
  <2> QED
    BY <1>0, <1>1, <2>1, <2>2, <2>3, CallNotChecking, CallPatterns, NotCheckingKeeps
<1>2. ASSUME NEW s \in Proc \ {c}, Call(s) PROVE ConfInv(c)'
  <2>1. pc[s] \in {"idle"} \cup SweepLabels \cup StripLabels \cup LoopLabels /\ Elsewhere(s)
    BY <1>2, SweeperOnlyCascades, CallAlone
  <2>2. ~WriteRoute(s) /\ ~UpdatePattern(s) /\ ~IndexInGroup(s)
    BY <2>1 DEF WriteRoute, UpdatePattern, IndexInGroup, Next1, SweepLabels
  <2>3. PatternsStay /\ NotChecking(c)
    BY <1>2, <2>1, <2>2, CallPatterns DEF NotChecking, Elsewhere
  <2> QED
    BY <1>0, <2>3, NotCheckingKeeps
<1>3. ASSUME NEW s \in Sweeper, Sweep(s) PROVE ConfInv(c)'
  <2>1. s # c /\ Elsewhere(s) /\ UNCHANGED store
    BY <1>3, SweepAlone DEF OneCaller
  <2>2. PatternsStay /\ NotChecking(c)
    BY <2>1 DEF NotChecking, Elsewhere, PatternsStay, store, routeVars
  <2> QED
    BY <1>0, <2>2, NotCheckingKeeps
<1>4. CASE Expire \/ LeaseExpires \/ UNCHANGED vars
  <2>1. UNCHANGED <<inGroup, route, pc, loc>>
    BY <1>4 DEF Expire, ExpireRecord, ExpireName, LeaseExpires, vars, store, routeVars
  <2>2. PatternsStay /\ NotChecking(c)
    BY <2>1 DEF NotChecking, PatternsStay
  <2> QED
    BY <1>0, <2>2, NotCheckingKeeps
<1> QED
  BY <1>1, <1>2, <1>3, <1>4 DEF LNext, Next

(* With one API caller, next to any number of sweepers and as long as no   *)
(* command fails and nothing crashes, no two routes of a group conflict    *)
(* after any series of creates, pattern updates and deletes.  An update    *)
(* that fails between the HSET of methods and that of path leaves a pair   *)
(* that no check has seen.  The conflict check compares both ways alike:   *)
(* RouteMatchProofs!ConflictSymmetric.                                     *)
THEOREM OneCallerConflictFree ==
  ASSUME NEW c \in Proc, OneCaller(c), \A e \in Clash : <<e[2], e[1]>> \in Clash
  PROVE  LSpec => [](faults = 0 => ConflictFree)
<1>1. Init => IInv /\ Known /\ SweepInv /\ FiledInv /\ SafeConf(c)
  BY InitTyped, InitDirected, InitSpares, InitFiled, InitConf DEF SafeConf
<1>2. IInv /\ Known /\ SweepInv /\ FiledInv /\ SafeConf(c) /\ [LNext]_vars
        => IInv' /\ Known' /\ SweepInv' /\ FiledInv' /\ SafeConf(c)'
  BY LNextTyped, LNextSpares, LNextFiled, LNextConf
<1>3. IInv /\ FiledInv /\ SafeConf(c) => (faults = 0 => ConflictFree)
  <2> SUFFICES ASSUME IInv, FiledInv, ConfInv(c), NEW g \in LiveQuiet,
                      NEW r \in inGroup[g], NEW s \in inGroup[g], r # s
               PROVE  <<route[r].pat, route[s].pat>> \notin Clash
    BY DEF SafeConf, ConflictFree
  <2>1. g \in GroupId /\ Quiet(g)
    BY DEF LiveQuiet
  <2>2. ~HalfEdited(c, r) /\ ~HalfEdited(c, s)
    <3>1. \A q \in inGroup[g] : route[q].group = g
      BY <2>1 DEF FiledInv, Filed, Belongs, IInv, TypeOK, RoutesTyped
    <3>2. pc[c] = "up_path" => route[loc[c].r].group = loc[c].g /\ loc[c].g # g
      BY <2>1 DEF Quiet, FiledInv, InHand, HandLabels, Belongs
    <3> QED
      BY <3>1, <3>2 DEF HalfEdited
  <2> QED
    BY <2>1, <2>2 DEF ConfInv, Peace
<1> QED
  BY <1>1, <1>2, <1>3, PTL DEF LSpec

-----
(* The indexes of a group that lives: with one API caller nobody else      *)
(* works on them as long as no command fails.                              *)

OffLabels == {"st_all", "st_owner", "st_kv", "st_record", "cd_unlist"}
EmptyingLabels == StripLabels \cup {"cd_list", "cd_route", "cd_unlist", "cd_members"}

Mine(c, g, r, label) == pc[c] = label /\ loc[c].g = g /\ loc[c].r = r

(* What c still has to strip, once it has listed the group                 *)
Remaining(c) ==
  loc[c].todo \cup (IF pc[c] \in {"st_number", "st_group"} THEN {loc[c].r} ELSE {})

Sound(c, g) ==
  /\ \A r \in inGroup[g] : Intact(r) /\ (r \in routeAll \/ Mine(c, g, r, "cr_all"))
  /\ \A n \in Number : byNumber[g][n] # NoId =>
       byNumber[g][n] \in inGroup[g] \/ Mine(c, g, byNumber[g][n], "cr_group")
  /\ loc[c].g = g =>
       /\ pc[c] \in OffLabels => loc[c].r \notin inGroup[g]
       /\ pc[c] = "st_group" => \A n \in Number : byNumber[g][n] # loc[c].r
       /\ pc[c] \in EmptyingLabels \ {"cd_list"} /\ loc[c].cd # "none" =>
            inGroup[g] \subseteq Remaining(c)
       /\ pc[c] = "cr_group" => Intact(loc[c].r)
       /\ pc[c] = "cd_members" => loc[c].todo = {}

SoundInv(c) == faults = 0 => \A g \in GroupId : Readable(g) => Sound(c, g)

(* A group that reads did so before, unless it is new.                     *)
LEMMA LivesOn ==
  ASSUME IInv, Known, Known', Settled, UNCHANGED nextGroup, NEW g \in GroupId, Readable(g)'
  PROVE  Readable(g)
<1>1. "id" \in group'[g].has /\ g \in 1 .. nextGroup
  BY DEF Readable, GroupMandatory, Known, GroupsWhole
<1>2. "id" \in group[g].has
  BY <1>1, Bounds DEF Settled, IInv, TypeOK, GroupsTyped
<1> QED
  BY <1>2, ReadsById

(* A step that leaves what is filed for group g alone                      *)
Spared(g) ==
  /\ inGroup'[g] = inGroup[g] /\ byNumber'[g] = byNumber[g]
  /\ \A r \in RouteId : route[r].group = g =>
       /\ r \in routeAll => r \in routeAll'
       /\ Intact(r) => Intact(r)'

(* and the caller too, or takes it where nothing of the group is in hand.  *)
ApartFrom(c, g) ==
  \/ pc'[c] = pc[c] /\ loc'[c] = loc[c]
  \/ /\ pc[c] \in {"cr_all", "cr_group"} => loc[c].g # g
     /\ pc'[c] \in EmptyingLabels \cup {"cr_group"} => loc'[c].g # g

Apart(c) ==
  \/ pc'[c] = pc[c] /\ loc'[c] = loc[c]
  \/ pc[c] \notin {"cr_all", "cr_group"} /\ pc'[c] \notin EmptyingLabels \cup {"cr_group"}

LEMMA SparedKeeps ==
  ASSUME IInv, FiledInv, NEW c \in Proc, NEW g \in GroupId, Sound(c, g), Spared(g),
         ApartFrom(c, g)
  PROVE  Sound(c, g)'
<1>1. \A r \in inGroup[g] : r \in RouteId /\ route[r].group = g
  BY DEF FiledInv, Filed, Belongs, IInv, TypeOK, RoutesTyped
<1>2. pc[c] = "cr_group" => loc[c].r \in RouteId /\ route[loc[c].r].group = loc[c].g
  BY LocTyped DEF FiledInv, InHand, HandLabels, Belongs, IInv, Prepared
<1>3. \A r \in inGroup'[g] : Intact(r)'
  BY <1>1 DEF Spared, Sound
<1>4. pc[c] = "cr_group" /\ loc[c].g = g => Intact(loc[c].r) /\ \A r : r = loc[c].r => Intact(r)'
  BY <1>2 DEF Spared, Sound
<1>5. CASE pc'[c] = pc[c] /\ loc'[c] = loc[c]
  <2>1. \A r \in inGroup'[g] : r \in routeAll' \/ Mine(c, g, r, "cr_all")'
    BY <1>1, <1>5 DEF Spared, Sound, Mine
  <2>2. \A n \in Number : byNumber'[g][n] # NoId =>
       byNumber'[g][n] \in inGroup'[g] \/ Mine(c, g, byNumber[g][n], "cr_group")'
    BY <1>5 DEF Spared, Sound, Mine
  <2>3. pc'[c] = "cr_group" /\ loc'[c].g = g => Intact(loc[c].r)'
    BY <1>4, <1>5
  <2>4. Remaining(c)' = Remaining(c)
    BY <1>5 DEF Remaining
  <2> QED
    BY <1>3, <1>5, <2>1, <2>2, <2>3, <2>4 DEF Spared, Sound
<1>6. CASE /\ pc[c] \in {"cr_all", "cr_group"} => loc[c].g # g
           /\ pc'[c] \in EmptyingLabels \cup {"cr_group"} => loc'[c].g # g
  <2>1. \A r \in inGroup'[g] : r \in routeAll'
    BY <1>1, <1>6 DEF Spared, Sound, Mine
  <2>2. \A n \in Number : byNumber'[g][n] # NoId => byNumber'[g][n] \in inGroup'[g]
    BY <1>6 DEF Spared, Sound, Mine
  <2> QED
    BY <1>3, <1>6, <2>1, <2>2 DEF Sound, EmptyingLabels, OffLabels
<1> QED
  BY <1>5, <1>6 DEF ApartFrom

(* Records that read keep reading, but for the one that is deleted.        *)
LEMMA CallIntact ==
  ASSUME IInv, Known, NEW p \in Proc, Call(p)
  PROVE  \A r \in RouteId : Intact(r) => Intact(r)' \/ (StripRecord(p) /\ r = loc[p].r)
<1>1. \/ Steady
      \/ WriteGroup(p) \/ WriteRoute(p) \/ StripRecord(p) \/ CascadeRecord(p)
  BY GroupCallsSteady, DispatchSteady, RenameSteady, ScanSteady, RouteCallsSteady,
     OthersSteady, CascadeSteady
  DEF Call, Cascade
<1>2. CASE Steady
  BY <1>2 DEF Steady, Intact
<1>3. CASE WriteGroup(p) \/ CascadeRecord(p)
  BY <1>3 DEF WriteGroup, CascadeRecord, routeVars, Intact
<1>4. CASE WriteRoute(p)
  BY <1>4 DEF WriteRoute, IInv, TypeOK, RoutesTyped, Intact, RouteMandatory, RouteField
<1>5. CASE StripRecord(p)
  BY <1>5 DEF StripRecord, IInv, TypeOK, RoutesTyped, Intact
<1> QED
  BY <1>1, <1>2, <1>3, <1>4, <1>5

(* The calls that leave the indexes alone                                  *)
LEMMA CallApart ==
  ASSUME IInv, NEW c \in Proc, Call(c)
  PROVE  \/ Apart(c)
         \/ DeleteRoute(c) \/ WriteRoute(c) \/ IndexInGroup(c) \/ IndexAll(c)
         \/ StripNumber(c) \/ StripInGroup(c) \/ StripAll(c) \/ StripOwner(c) \/ StripKv(c)
         \/ StripRecord(c) \/ CascadeRead(c) \/ CascadeList(c) \/ CascadeRoute(c)
         \/ CascadeUnlist(c) \/ Fault(c)
<1>0. CallsTyped /\ loc[c] \in LocalRecord /\ Prepared(pc[c], loc[c])
  BY LocTyped DEF IInv
<1> USE DEF EmptyingLabels
<1>1. CASE \/ ArmRecord(c) \/ ArmName(c) \/ IndexGroup(c) \/ PatchTtl(c) \/ PatchFlags(c)
           \/ HitRoute(c) \/ HitGroup(c) \/ RenameCheck(c) \/ RenameRecord(c)
           \/ RenameDrop(c) \/ IndexOwner(c)
           \/ UpdatePattern(c) \/ UpdateArtifact(c) \/ ClearCounters(c)
           \/ CascadeMembers(c) \/ CascadeData(c)
           \/ CascadeCounters(c) \/ CascadeName(c) \/ CascadeRecord(c)
  <2>1. PICK label \in {"arm_name", "arm_record", "idle", "hit_group", "bump", "rn_record",
                        "rn_drop", "rn_set", "up_path", "up_artifact", "pt_flags",
                        "cr_list", "rn_list", "sw_probe", "cd_data", "cd_counters",
                        "cd_name", "cd_all", "cd_record"} :
          Goto(c, label) /\ pc[c] \notin {"cr_all", "cr_group"}
    BY <1>0, <1>1, Zenon DEF ArmRecord, ArmName, Return, LocalRecord, IndexGroup, PatchTtl,
       PatchFlags, HitRoute,
       HitGroup, RenameCheck, RenameRecord, RenameDrop, IndexOwner,
       UpdatePattern, UpdateArtifact, ClearCounters, Next1, CascadeMembers, CascadeData,
       CascadeCounters, CascadeName, CascadeRecord
  <2> QED
    BY <1>0, <2>1 DEF Goto, CallsTyped, Apart
<1>2. CASE \/ CreateGroup(c) \/ PatchGroup(c) \/ RefreshGroup(c) \/ Dispatch(c)
           \/ RenameGroup(c) \/ CreateRoute(c) \/ UpdateRoute(c)
           \/ DeleteGroup(c) \/ ClearJournal(c)
  <2>1. /\ pc[c] = "idle"
        /\ \E label \in {"hit_route", "rn_check", "up_artifact", "up_list", "cd_read",
                         "cj_counters", "cg_write", "pt_flags", "pt_ttl", "arm_record",
                         "cr_list"} : \E l : Enter(c, label, l)
    BY <1>2, Zenon DEF CreateGroup, PatchGroup, RefreshGroup, Dispatch,
       RenameGroup, CreateRoute, UpdateRoute, DeleteGroup, ClearJournal, Asked
  <2> QED
    BY <1>0, <2>1 DEF Enter, CallsTyped, Apart
<1>3. CASE \/ WriteGroup(c) \/ Bump(c) \/ RenameSet(c) \/ RenameRoute(c)
           \/ NextNumber(c) \/ CascadeDone(c)
  <2>1. pc[c] = "cd_all" => loc[c].ret \in {"idle", "sw_probe"}
    BY <1>0 DEF Prepared
  <2>2. /\ pc[c] \notin {"cr_all", "cr_group"}
        /\ pc'[c] \in {"cg_index", "arm_record", "idle", "arm_name", "rn_routes",
                       "cr_write", "sw_probe"}
    BY <1>0, <1>3, <2>1, Zenon DEF WriteGroup, Bump, RenameSet, RenameRoute, NextNumber,
       CascadeDone, Enter, Goto, CallsTyped
  <2> QED
    BY <2>2 DEF Apart
<1>4. CASE ListRoutes(c) \/ ScanRoutes(c)
  <2>1. pc[c] \in {"cr_list", "up_list", "rn_list", "cr_scan", "up_scan", "rn_scan"}
    BY <1>4, Zenon DEF ListRoutes, ScanRoutes, After, Scanned
  <2>2. CASE ListRoutes(c)
    <3>1. pc[c] \in {"cr_list", "up_list", "rn_list"} /\ pc'[c] = After[pc[c]]
      BY <1>0, <2>2 DEF ListRoutes, Enter, CallsTyped, After
    <3>2. pc'[c] \in {"cr_scan", "up_scan", "rn_scan"}
      BY <3>1 DEF After
    <3> QED
      BY <2>1, <3>2 DEF Apart
  <2>3. CASE ScanRoutes(c)
    <3>1. pc[c] \in {"cr_scan", "up_scan", "rn_scan"}
      BY <2>3, Zenon DEF ScanRoutes, Scanned
    <3>2. pc'[c] \in {"idle", pc[c], Scanned[pc[c]]}
      BY <1>0, <2>3, Zenon DEF ScanRoutes, Enter, Goto, CallsTyped
    <3>3. pc'[c] \in {"idle", "cr_scan", "up_scan", "rn_scan", "cr_number", "up_write",
                      "rn_routes"}
      BY <3>1, <3>2 DEF Scanned
    <3> QED
      BY <2>1, <3>3 DEF Apart
  <2> QED
    BY <1>4, <2>2, <2>3
<1>5. CASE SetState(c) \/ ClearState(c)
  BY <1>5 DEF SetState, ClearState, Apart
<1> QED
  BY <1>1, <1>2, <1>3, <1>4, <1>5 DEF Call, Cascade

(* A cascade that goes on after its own read knows what it found.          *)
ReadLabels == {"cd_list", "cd_route", "cd_unlist", "cd_members"}
ReadInv == \A p \in Proc : pc[p] \in ReadLabels => loc[p].cd # "none"

LEMMA CallRead ==
  ASSUME IInv, Known, ReadInv, NEW p \in Proc, Call(p)
  PROVE  ReadInv'
<1>0. CallsTyped /\ loc[p] \in LocalRecord /\ Prepared(pc[p], loc[p]) /\ Elsewhere(p)
  BY LocTyped, CallAlone DEF IInv
<1> SUFFICES pc'[p] \in ReadLabels => loc'[p].cd # "none"
  BY <1>0 DEF ReadInv, Elsewhere
<1> USE DEF ReadLabels
<1>1. CASE Apart(p)
  BY <1>1 DEF Apart, EmptyingLabels, ReadInv
<1>2. CASE \/ WriteRoute(p) \/ IndexInGroup(p) \/ IndexAll(p) \/ DeleteRoute(p)
           \/ StripNumber(p) \/ StripInGroup(p) \/ StripAll(p) \/ StripOwner(p) \/ StripKv(p)
  <2>1. pc'[p] \in StripLabels \cup {"cr_group", "cr_all", "cr_owner"}
    BY <1>0, <1>2, Zenon DEF DeleteRoute, WriteRoute, IndexInGroup, IndexAll, StripNumber,
       StripInGroup, StripAll, StripOwner, StripKv, Next1, Goto, Enter, CallsTyped
  <2> QED
    BY <2>1
<1>3. CASE StripRecord(p)
  BY <1>0, <1>3 DEF StripRecord, Goto, Enter, CallsTyped
<1>4. CASE CascadeRead(p) \/ Fault(p)
  <2>1. CASE Goto(p, loc[p].fail)
    BY <1>0, <2>1 DEF LocalRecord, Goto, CallsTyped
  <2>2. CASE ~Goto(p, loc[p].fail)
    <3>1. \/ \E nm : Enter(p, "cd_list", [loc[p] EXCEPT !.cd = "found", !.nm = nm])
          \/ Enter(p, "cd_list", [loc[p] EXCEPT !.cd = "gone"])
      BY <1>4, <2>2, Zenon DEF CascadeRead, Fault, Abort
    <3>2. ASSUME NEW nm, Enter(p, "cd_list", [loc[p] EXCEPT !.cd = "found", !.nm = nm])
          PROVE  loc'[p].cd = "found"
      BY <1>0, <3>2 DEF Enter, CallsTyped, LocalRecord
    <3>3. Enter(p, "cd_list", [loc[p] EXCEPT !.cd = "gone"]) => loc'[p].cd = "gone"
      BY <1>0 DEF Enter, CallsTyped, LocalRecord
    <3> QED
      BY <3>1, <3>2, <3>3, Zenon
  <2> QED
    BY <2>1, <2>2
<1>5. CASE CascadeList(p) \/ CascadeUnlist(p)
  <2>1. pc[p] \in ReadLabels /\ loc'[p].cd = loc[p].cd
    BY <1>0, <1>5 DEF CascadeList, CascadeUnlist, Next1, Goto, Enter, CallsTyped, LocalRecord
  <2> QED
    BY <2>1 DEF ReadInv
<1>6. CASE CascadeRoute(p)
  <2>1. pc[p] = "cd_route" /\ loc[p].cd # "none"
    BY <1>6, Zenon DEF CascadeRoute, ReadInv
  <2>2. \/ Goto(p, "cd_members")
        \/ \E r : \/ Enter(p, "st_number", [loc[p] EXCEPT !.r = r, !.n = route[r].number,
                                                         !.todo = @ \ {r}])
                  \/ Enter(p, "st_kv", [loc[p] EXCEPT !.r = r, !.n = route[r].number,
                                                     !.todo = @ \ {r}])
    BY <1>6, Zenon DEF CascadeRoute
  <2> QED
    BY <1>0, <2>1, <2>2, Zenon DEF Goto, Enter, CallsTyped
<1> QED
  BY <1>1, <1>2, <1>3, <1>4, <1>5, <1>6, CallApart

LEMMA LNextRead == IInv /\ Known /\ ReadInv /\ [LNext]_vars => ReadInv'
<1> SUFFICES ASSUME IInv, Known, ReadInv, [LNext]_vars PROVE ReadInv'
  OBVIOUS
<1>1. ASSUME NEW s \in Sweeper, Sweep(s) PROVE ReadInv'
  BY <1>1, SweepAlone DEF ReadInv, ReadLabels, SweepLabels, Elsewhere
<1>2. CASE Expire \/ LeaseExpires \/ UNCHANGED vars
  BY <1>2 DEF Expire, ExpireRecord, ExpireName, LeaseExpires, vars, ReadInv
<1> QED
  BY <1>1, <1>2, CallRead DEF LNext, Next

(* What is filed for a group no call of which is at work on stays.         *)
LEMMA CallSparesOthers ==
  ASSUME IInv, Known, FiledInv, NEW p \in Proc, Call(p), NEW g \in GroupId,
         \/ loc[p].g # g
         \/ ~(\/ WriteRoute(p) \/ IndexInGroup(p) \/ StripNumber(p) \/ StripInGroup(p)
              \/ StripAll(p) \/ StripRecord(p) \/ CascadeUnlist(p) \/ CascadeMembers(p))
  PROVE  Spared(g)
<1>0. InHand(p)
  BY DEF FiledInv
<1> USE DEF IInv, TypeOK, RoutesTyped
<1>1. inGroup'[g] = inGroup[g]
  <2>1. CASE IndexInGroup(p)
    BY <2>1 DEF IndexInGroup
  <2>2. CASE StripInGroup(p)
    BY <2>2 DEF StripInGroup
  <2>3. CASE CascadeMembers(p)
    BY <2>3 DEF CascadeMembers
  <2> QED
    BY <2>1, <2>2, <2>3, Frame
<1>2. byNumber'[g] = byNumber[g]
  <2>1. CASE WriteRoute(p)
    BY <2>1 DEF WriteRoute
  <2>2. CASE StripNumber(p)
    BY <2>2 DEF StripNumber
  <2> QED
    BY <2>1, <2>2, Frame
<1>3. \A r \in routeAll : r \in routeAll'
        \/ (r = loc[p].r /\ (StripAll(p) \/ CascadeUnlist(p)))
  BY Frame DEF IndexAll, StripAll, CascadeUnlist
<1>4. StripAll(p) \/ CascadeUnlist(p) \/ StripRecord(p) => route[loc[p].r].group = loc[p].g
  BY <1>0 DEF StripAll, CascadeUnlist, StripRecord, Next1, InHand, HandLabels, Belongs
<1> QED
  BY <1>1, <1>2, <1>3, <1>4, CallIntact DEF Spared

(* The steps of the caller on the indexes of its own group                 *)
LEMMA StrippingSound ==
  ASSUME IInv, Known, FiledInv, NEW c \in Proc, NEW g \in GroupId, g = loc[c].g, Sound(c, g),
         \/ StripNumber(c) \/ StripInGroup(c) \/ StripAll(c) \/ StripOwner(c) \/ StripKv(c)
         \/ StripRecord(c) \/ CascadeUnlist(c)
  PROVE  Sound(c, g)'
<1>0. /\ CallsTyped /\ loc[c] \in LocalRecord /\ Prepared(pc[c], loc[c])
      /\ Filed /\ InHand(c) /\ g \in GroupId
  BY LocTyped DEF IInv, FiledInv
<1>1. PICK r : r = loc[c].r
  OBVIOUS
<1>2. pc[c] \in StripLabels \cup {"cd_unlist"} /\ r \in RouteId /\ Belongs(r, g) /\ r # NoId
  BY <1>0, <1>1, Bounds DEF InHand, HandLabels, Belongs, RouteId, NoId, StripNumber,
     StripInGroup, StripAll, StripOwner, StripKv, StripRecord, CascadeUnlist, Next1,
     IInv, TypeOK, RoutesTyped
<1> USE DEF EmptyingLabels, OffLabels, Remaining, Mine
<1>3. CASE StripNumber(c)
  <2>1. /\ pc[c] = "st_number" /\ pc'[c] = "st_group" /\ loc'[c] = loc[c]
        /\ UNCHANGED <<route, inGroup, routeAll>>
    BY <1>0, <1>3 DEF StripNumber, Next1, Goto, CallsTyped
  <2>2. \A m \in Number : byNumber'[g][m] = byNumber[g][m] \/ byNumber'[g][m] = NoId
    BY <1>3 DEF StripNumber, IInv, TypeOK, RoutesTyped
  <2>3. byNumber'[g][loc[c].n] = NoId \/ loc[c].n \notin Number
    BY <1>3 DEF StripNumber, IInv, TypeOK, RoutesTyped
  <2>4. \A m \in Number : byNumber[g][m] = r => m = loc[c].n
    BY <1>0, <1>1, <1>2, <2>1 DEF Filed, InHand
  <2>5. \A m \in Number : byNumber'[g][m] # r
    BY <1>2, <2>2, <2>3, <2>4
  <2> QED
    BY <1>1, <2>1, <2>2, <2>5 DEF Sound, Intact
<1>4. CASE StripInGroup(c)
  <2>1. /\ pc[c] = "st_group" /\ pc'[c] = "st_all" /\ loc'[c] = loc[c]
        /\ UNCHANGED <<route, byNumber, routeAll>> /\ inGroup'[g] = inGroup[g] \ {r}
    BY <1>0, <1>1, <1>4 DEF StripInGroup, Next1, Goto, CallsTyped, IInv, TypeOK, RoutesTyped
  <2> QED
    BY <1>1, <2>1 DEF Sound, Intact
<1>5. CASE StripAll(c) \/ CascadeUnlist(c)
  <2>1. /\ pc[c] \in {"st_all", "cd_unlist"}
        /\ pc'[c] = (IF pc[c] = "st_all" THEN "st_owner" ELSE "cd_route")
        /\ loc'[c] = loc[c]
        /\ UNCHANGED <<route, byNumber, inGroup>> /\ routeAll' = routeAll \ {r}
    BY <1>0, <1>1, <1>5 DEF StripAll, CascadeUnlist, Next1, Goto, CallsTyped
  <2>2. r \notin inGroup[g]
    BY <1>1, <2>1 DEF Sound
  <2> QED
    BY <1>1, <2>1, <2>2 DEF Sound, Intact
<1>6. CASE StripOwner(c) \/ StripKv(c)
  <2>1. /\ pc[c] \in {"st_owner", "st_kv"} /\ pc'[c] \in {"st_kv", "st_record"}
        /\ loc'[c] = loc[c]
        /\ UNCHANGED <<route, byNumber, inGroup, routeAll>>
    BY <1>0, <1>6 DEF StripOwner, StripKv, Next1, Goto, CallsTyped, routeVars
  <2> QED
    BY <1>1, <2>1 DEF Sound, Intact
<1>7. CASE StripRecord(c)
  <2>1. /\ pc[c] = "st_record" /\ UNCHANGED <<byNumber, inGroup, routeAll>>
        /\ \A s \in RouteId : s # r => route'[s] = route[s]
        /\ \/ pc'[c] = "idle" \/ (pc'[c] = "cd_unlist" /\ loc'[c] = loc[c])
    BY <1>0, <1>1, <1>2, <1>7 DEF StripRecord, Goto, Enter, CallsTyped, IInv, TypeOK, RoutesTyped
  <2>2. r \notin inGroup[g] /\ \A s \in inGroup[g] : s \in RouteId
    BY <1>1, <2>1 DEF Sound, IInv, TypeOK, RoutesTyped
  <2> QED
    BY <1>1, <2>1, <2>2 DEF Sound, Intact
<1> QED
  BY <1>3, <1>4, <1>5, <1>6, <1>7

LEMMA CascadingSound ==
  ASSUME IInv, Known, FiledInv, ReadInv, NEW c \in Proc, NEW g \in GroupId, g = loc[c].g,
         Sound(c, g), faults' = faults,
         CascadeRead(c) \/ CascadeList(c) \/ CascadeRoute(c) \/ CascadeMembers(c)
  PROVE  Sound(c, g)'
<1>0. /\ CallsTyped /\ loc[c] \in LocalRecord /\ Prepared(pc[c], loc[c])
      /\ Filed /\ InHand(c) /\ g \in GroupId /\ faults \in Nat
  BY LocTyped, Bounds DEF IInv, FiledInv, TypeOK, CountsTyped
<1> USE DEF EmptyingLabels, OffLabels, Remaining, Mine
<1>1. CASE CascadeRead(c)
  <2>1. /\ pc[c] = "cd_read" /\ UNCHANGED <<route, byNumber, inGroup, routeAll>>
        /\ pc'[c] \in {"cd_list", "idle", "sw_release"}
    BY <1>0, <1>1 DEF CascadeRead, Abort, Goto, Enter, CallsTyped, LocalRecord, store, routeVars
  <2> QED
    BY <2>1 DEF Sound, Intact
<1>2. CASE CascadeList(c)
  <2>1. /\ pc[c] = "cd_list" /\ UNCHANGED <<route, byNumber, inGroup, routeAll>>
        /\ pc'[c] = "cd_route" /\ loc'[c].todo = inGroup[g] /\ loc'[c].g = g
    BY <1>0, <1>2 DEF CascadeList, Enter, CallsTyped, LocalRecord, store, routeVars
  <2> QED
    BY <2>1 DEF Sound, Intact
<1>3. CASE CascadeMembers(c)
  <2>1. /\ pc[c] = "cd_members" /\ UNCHANGED <<route, byNumber, routeAll>>
        /\ pc'[c] = "cd_data" /\ inGroup'[g] = {}
    BY <1>0, <1>3 DEF CascadeMembers, Next1, Goto, CallsTyped, IInv, TypeOK, RoutesTyped
  <2>2. inGroup[g] = {}
    BY <2>1 DEF Sound, ReadInv, ReadLabels
  <2> QED
    BY <2>1, <2>2 DEF Sound, Intact
<1>4. CASE CascadeRoute(c)
  <2>1. /\ pc[c] = "cd_route" /\ UNCHANGED <<route, byNumber, inGroup, routeAll>>
        /\ loc[c].cd # "none" /\ inGroup[g] \subseteq loc[c].todo
    BY <1>4, Zenon DEF CascadeRoute, store, routeVars, Sound, ReadInv, ReadLabels
  <2>2. CASE loc[c].todo = {} /\ Goto(c, "cd_members")
    <3>1. pc'[c] = "cd_members" /\ loc'[c] = loc[c]
      BY <1>0, <2>2 DEF Goto, CallsTyped
    <3> QED
      BY <2>1, <2>2, <3>1 DEF Sound, Intact
  <2>3. CASE ~(loc[c].todo = {} /\ Goto(c, "cd_members"))
    <3>1. PICK r \in loc[c].todo :
            Enter(c, IF Intact(r) THEN "st_number" ELSE "st_kv",
                  [loc[c] EXCEPT !.r = r, !.n = route[r].number, !.todo = @ \ {r}])
      <4>1. faults' # faults + 1
        BY <1>0
      <4> QED
        BY <1>4, <2>3, <4>1, Zenon DEF CascadeRoute
    <3>2. /\ pc'[c] = (IF Intact(r) THEN "st_number" ELSE "st_kv")
          /\ loc'[c].r = r /\ loc'[c].g = g /\ loc'[c].todo = loc[c].todo \ {r}
      BY <1>0, <3>1 DEF Enter, CallsTyped, LocalRecord
    <3>3. ~Intact(r) => r \notin inGroup[g]
      BY DEF Sound
    <3> QED
      BY <2>1, <3>1, <3>2, <3>3 DEF Sound, Intact
  <2> QED
    BY <2>2, <2>3
<1> QED
  BY <1>1, <1>2, <1>3, <1>4

LEMMA CreatingSound ==
  ASSUME IInv, Known, FiledInv, NEW c \in Proc, NEW g \in GroupId, g = loc[c].g, Sound(c, g),
         WriteRoute(c) \/ IndexInGroup(c) \/ IndexAll(c)
  PROVE  Sound(c, g)'
<1>0. /\ CallsTyped /\ loc[c] \in LocalRecord /\ Prepared(pc[c], loc[c])
      /\ Filed /\ InHand(c) /\ g \in GroupId
      /\ \A r \in inGroup[g] : r \in RouteId /\ r \in 1 .. nextRoute
  BY LocTyped DEF IInv, FiledInv, Filed, Belongs, TypeOK, RoutesTyped
<1> USE DEF EmptyingLabels, OffLabels, Remaining, Mine
<1>1. CASE WriteRoute(c)
  <2>1. PICK r : r = nextRoute + 1
    OBVIOUS
  <2>2. r \in RouteId /\ r \notin 1 .. nextRoute
    BY <1>1, <2>1, Bounds DEF WriteRoute, IInv, TypeOK, RoutesTyped, RouteId
  <2>3. /\ pc[c] = "cr_write" /\ pc'[c] = "cr_group"
        /\ loc'[c].g = g /\ loc'[c].r = r /\ UNCHANGED <<inGroup, routeAll>>
    BY <1>0, <1>1, <2>1 DEF WriteRoute, Enter, CallsTyped, LocalRecord
  <2>4. Intact(r)' /\ \A s \in RouteId \ {r} : route'[s] = route[s]
    BY <1>1, <2>1, <2>2 DEF WriteRoute, IInv, TypeOK, RoutesTyped, Intact, RouteMandatory,
       RouteField
  <2>5. \A m \in Number : byNumber'[g][m] = byNumber[g][m] \/ byNumber'[g][m] = r
    BY <1>1, <2>1 DEF WriteRoute, IInv, TypeOK, RoutesTyped
  <2>6. \A s \in inGroup[g] : s \in RouteId \ {r} /\ Intact(s) /\ s \in routeAll
    BY <1>0, <2>2, <2>3 DEF Sound
  <2>7. \A s \in inGroup[g] : Intact(s)'
    BY <2>4, <2>6 DEF Intact
  <2>8. Intact(loc[c].r)'
    BY <2>3, <2>4 DEF Intact
  <2> QED
    BY <2>3, <2>5, <2>6, <2>7, <2>8 DEF Sound
<1>2. CASE IndexInGroup(c)
  <2>1. PICK r : r = loc[c].r
    OBVIOUS
  <2>2. /\ pc[c] = "cr_group" /\ pc'[c] = "cr_all" /\ loc'[c] = loc[c]
        /\ UNCHANGED <<route, byNumber, routeAll>> /\ inGroup'[g] = inGroup[g] \cup {r}
    BY <1>0, <1>2, <2>1 DEF IndexInGroup, Next1, Goto, CallsTyped, IInv, TypeOK, RoutesTyped
  <2> QED
    BY <2>1, <2>2 DEF Sound, Intact
<1>3. CASE IndexAll(c)
  <2>1. /\ pc[c] = "cr_all" /\ pc'[c] = "cr_owner"
        /\ UNCHANGED <<route, byNumber, inGroup>> /\ routeAll' = routeAll \cup {loc[c].r}
    BY <1>0, <1>3 DEF IndexAll, Next1, Goto, CallsTyped
  <2> QED
    BY <2>1 DEF Sound, Intact
<1> QED
  BY <1>1, <1>2, <1>3

LEMMA CallerSound ==
  ASSUME IInv, Known, FiledInv, ReadInv, NEW c \in Proc, SoundInv(c), Call(c)
  PROVE  SoundInv(c)'
<1> SUFFICES ASSUME faults' = 0, NEW g \in GroupId, Readable(g)' PROVE Sound(c, g)'
  BY DEF SoundInv
<1>0. /\ CallsTyped /\ loc[c] \in LocalRecord /\ Prepared(pc[c], loc[c])
      /\ Filed /\ faults = 0 /\ ~Fault(c)
  <2>1. faults \in Nat /\ faults' >= faults /\ faults' \in {faults, faults'}
    BY CallAlone, Bounds DEF IInv, TypeOK, CountsTyped
  <2> QED
    BY <2>1, LocTyped DEF IInv, FiledInv, Fault
<1>1. CASE WriteGroup(c)
  <2>1. PICK h : h = nextGroup + 1
    OBVIOUS
  <2>2. /\ pc[c] = "cg_write" /\ pc'[c] = "cg_index"
        /\ UNCHANGED <<route, byNumber, inGroup, routeAll>>
        /\ \A k \in GroupId : k # h => group'[k] = group[k]
    BY <1>0, <1>1, <2>1 DEF WriteGroup, Enter, CallsTyped, routeVars, IInv, TypeOK, GroupsTyped
  <2>3. CASE g = h
    <3>1. \A r : ~Belongs(r, g)
      BY <2>1, <2>3, Bounds DEF Known, GroupsOpened, Belongs, IInv, TypeOK, GroupsTyped
    <3>2. inGroup[g] = {} /\ \A m \in Number : byNumber[g][m] = NoId
      BY <1>0, <3>1 DEF Filed
    <3> QED
      BY <2>2, <3>2 DEF Sound, OffLabels, EmptyingLabels
  <2>4. CASE g # h
    <3>1. Readable(g) /\ Sound(c, g)
      BY <1>0, <2>2, <2>4 DEF Readable, SoundInv
    <3>2. Spared(g) /\ ApartFrom(c, g)
      BY <2>2 DEF Spared, ApartFrom, Intact, EmptyingLabels
    <3> QED
      BY <3>1, <3>2, SparedKeeps
  <2> QED
    BY <2>3, <2>4
<1>2. CASE ~WriteGroup(c)
  <2>1. nextGroup' = nextGroup
    BY <1>2, Frame
  <2>2. Readable(g)
    BY <2>1, CallKnown, LivesOn
  <2>3. Sound(c, g)
    BY <1>0, <2>2 DEF SoundInv
  <2>4. CASE DeleteRoute(c)
    <3>1. PICK r : Enter(c, "st_number", [Locals EXCEPT !.g = route[r].group, !.r = r,
                                                       !.n = route[r].number])
      BY <2>4, Zenon DEF DeleteRoute
    <3>2. pc[c] = "idle" /\ pc'[c] = "st_number" /\ loc'[c].cd = "none"
      BY <1>0, <2>4, <3>1 DEF DeleteRoute, Asked, Enter, CallsTyped, Locals
    <3>3. UNCHANGED <<route, byNumber, inGroup, routeAll>>
      BY <2>4 DEF DeleteRoute, store, routeVars
    <3> QED
      BY <2>3, <3>2, <3>3 DEF Sound, OffLabels, Mine, Intact
  <2>5. CASE ~DeleteRoute(c) /\ loc[c].g # g
    <3>1. Spared(g)
      BY <2>5, CallSparesOthers
    <3>2. ApartFrom(c, g)
      <4>1. CASE Apart(c)
        BY <4>1 DEF Apart, ApartFrom
      <4>2. CASE Cascade(c)
        <5>1. pc[c] \in Hunting /\ (pc'[c] \in Hunting => loc'[c].g = loc[c].g)
          BY <4>2, CascadeHunts
        <5>2. pc[c] \in Hunting /\ pc'[c] # "cr_group"
          <6>1. pc'[c] \in {"idle", "sw_probe", "sw_release"} \cup Hunting
            BY <4>2, CascadeHunts
          <6> QED
            BY <5>1, <6>1 DEF Hunting
        <5> QED
          BY <2>5, <5>1, <5>2 DEF ApartFrom, EmptyingLabels, Hunting
      <4>3. CASE WriteRoute(c) \/ IndexInGroup(c) \/ IndexAll(c)
        <5>1. loc'[c].g = loc[c].g
          BY <1>0, <4>3 DEF WriteRoute, IndexInGroup, IndexAll, Next1, Goto, Enter,
             CallsTyped, LocalRecord
        <5> QED
          BY <2>5, <5>1 DEF ApartFrom
      <4> QED
        BY <1>0, <2>5, <4>1, <4>2, <4>3, CallApart DEF Cascade
    <3> QED
      BY <2>3, <3>1, <3>2, SparedKeeps
  <2>6. CASE ~DeleteRoute(c) /\ loc[c].g = g
    <3>1. CASE \/ StripNumber(c) \/ StripInGroup(c) \/ StripAll(c) \/ StripOwner(c)
               \/ StripKv(c) \/ StripRecord(c) \/ CascadeUnlist(c)
      BY <2>3, <2>6, <3>1, StrippingSound
    <3>2. CASE CascadeRead(c) \/ CascadeList(c) \/ CascadeRoute(c) \/ CascadeMembers(c)
      BY <1>0, <2>3, <2>6, <3>2, CascadingSound
    <3>3. CASE WriteRoute(c) \/ IndexInGroup(c) \/ IndexAll(c)
      BY <2>3, <2>6, <3>3, CreatingSound
    <3>4. CASE ~(\/ StripNumber(c) \/ StripInGroup(c) \/ StripAll(c) \/ StripOwner(c)
                 \/ StripKv(c) \/ StripRecord(c) \/ CascadeUnlist(c) \/ CascadeRead(c)
                 \/ CascadeList(c) \/ CascadeRoute(c) \/ CascadeMembers(c)
                 \/ WriteRoute(c) \/ IndexInGroup(c) \/ IndexAll(c))
      <4>1. Spared(g) /\ Apart(c)
        BY <1>0, <2>6, <3>4, CallSparesOthers, CallApart
      <4> QED
        BY <2>3, <4>1, SparedKeeps DEF Apart, ApartFrom
    <3> QED
      BY <3>1, <3>2, <3>3, <3>4
  <2> QED
    BY <2>4, <2>5, <2>6
<1> QED
  BY <1>1, <1>2

(* Sweepers only work on groups that are gone.                             *)
LEMMA SweeperAway ==
  ASSUME NEW c \in Proc, OneCaller(c), IInv, Known, SweepInv,
         NEW s \in Proc \ {c}, Call(s), faults' = 0
  PROVE  /\ faults = 0 /\ Cascade(s) /\ Elsewhere(s) /\ pc[s] \in StripLabels \cup LoopLabels
         /\ loc[s].g \in GroupId /\ ~Readable(loc[s].g)
<1>0. faults \in Nat /\ faults' >= faults /\ s \in Sweeper /\ Elsewhere(s)
  BY CallAlone, SweeperOnlyCascades, Bounds DEF IInv, TypeOK, CountsTyped
<1>1. faults = 0
  BY <1>0
<1>2. ~Fault(s)
  BY <1>1 DEF Fault
<1>3. Cascade(s)
  BY <1>2, SweeperOnlyCascades
<1>4. pc[s] \in Hunting
  BY <1>3, CascadeHunts
<1>5. Aimed(s)
  BY <1>0, <1>1 DEF SweepInv
<1> QED
  BY <1>0, <1>1, <1>3, <1>4, <1>5, ReadsById DEF Aimed, Hunting

LEMMA InitSound == ASSUME NEW c \in Proc PROVE Init => SoundInv(c)
<1> SUFFICES ASSUME Init, NEW g \in GroupId PROVE Sound(c, g)
  BY DEF SoundInv
<1>1. PICK ng \in 0 .. MaxGroups, nr \in 0 .. MaxRoutes :
        SeedRoute \in [1 .. nr -> [group : 1 .. ng, pat : Pattern]]
  BY SeedAssumption
<1>2. DOMAIN SeedRoute = 1 .. nr /\ 1 .. nr \subseteq RouteId
  BY <1>1, Bounds DEF RouteId
<1>3. \A r \in inGroup[g] : Intact(r) /\ r \in routeAll
  BY <1>2 DEF Init, Intact, RouteMandatory, RouteField
<1>4. \A n \in Number : byNumber[g][n] # NoId => byNumber[g][n] \in inGroup[g]
  BY <1>2 DEF Init, NoId
<1>5. pc[c] = "idle"
  BY DEF Init
<1> QED
  BY <1>3, <1>4, <1>5 DEF Sound, OffLabels, EmptyingLabels

(* What a step that is not the caller's does to the routes of a group that *)
(* lives: nothing.                                                         *)
LEMMA OthersSpare ==
  ASSUME NEW c \in Proc, OneCaller(c), IInv, Known, SweepInv, FiledInv, [LNext]_vars, ~Call(c),
         faults' = 0, NEW g \in GroupId, Readable(g)'
  PROVE  /\ faults = 0 /\ nextGroup' = nextGroup /\ Spared(g) /\ pc'[c] = pc[c] /\ loc'[c] = loc[c]
         /\ Known' /\ Settled
<1>0. IInv' /\ Known'
  BY LNextTyped, LNextSpares
<1>1. ASSUME NEW s \in Proc \ {c}, Call(s)
      PROVE  /\ faults = 0 /\ nextGroup' = nextGroup /\ Spared(g)
             /\ pc'[c] = pc[c] /\ loc'[c] = loc[c] /\ Known' /\ Settled
  <2>1. /\ faults = 0 /\ Cascade(s) /\ Elsewhere(s) /\ ~Readable(loc[s].g)
        /\ pc[s] \in StripLabels \cup LoopLabels
    BY <1>1, SweeperAway
  <2>2. Known' /\ Settled /\ nextGroup' = nextGroup
    BY <1>1, <2>1, CallKnown, Frame, Zenon DEF WriteGroup
  <2>3. loc[s].g # g
    BY <2>1, <2>2, LivesOn
  <2> QED
    BY <1>1, <2>1, <2>2, <2>3, CallSparesOthers DEF Elsewhere
<1>2. ASSUME NEW s \in Sweeper, Sweep(s)
      PROVE  /\ faults = 0 /\ nextGroup' = nextGroup /\ Spared(g)
             /\ pc'[c] = pc[c] /\ loc'[c] = loc[c] /\ Known' /\ Settled
  <2>1. s # c /\ Elsewhere(s) /\ UNCHANGED store
    BY <1>2, SweepAlone DEF OneCaller
  <2>2. Steady
    BY <1>2, SweepSteady
  <2>3. faults' = faults \/ faults' = faults + 1
    BY <1>2, Zenon
      DEF Sweep, Claim, SweepList, SweepRead, SweepProbe, SweepEnd, Release, Crash, others
  <2>4. faults = 0
    BY <2>3, Bounds DEF IInv, TypeOK, CountsTyped
  <2> QED
    BY <1>0, <2>1, <2>2, <2>4, SteadySettles DEF store, groupVars, routeVars, Spared, Intact,
       Elsewhere
<1>3. CASE Expire \/ LeaseExpires \/ UNCHANGED vars
  <2>1. UNCHANGED <<route, byNumber, inGroup, routeAll, nextGroup, pc, loc, faults>>
    BY <1>3 DEF Expire, ExpireRecord, ExpireName, LeaseExpires, vars, store, routeVars,
       groupVars, others
  <2>2. Settled
    <3>1. CASE Expire
      BY <3>1, ExpireKnown
    <3>2. CASE LeaseExpires \/ UNCHANGED vars
      BY <3>2, RecordsLeft, SteadySettles DEF LeaseExpires, vars, store, groupVars, routeVars
    <3> QED
      BY <1>3, <3>1, <3>2
  <2> QED
    BY <1>0, <2>1, <2>2 DEF Spared, Intact
<1> QED
  BY <1>1, <1>2, <1>3 DEF LNext, Next

LEMMA LNextSound ==
  ASSUME NEW c \in Proc, OneCaller(c)
  PROVE  IInv /\ Known /\ SweepInv /\ FiledInv /\ ReadInv /\ SoundInv(c) /\ [LNext]_vars
           => SoundInv(c)'
<1> SUFFICES ASSUME IInv, Known, SweepInv, FiledInv, ReadInv, SoundInv(c), [LNext]_vars
             PROVE  SoundInv(c)'
  OBVIOUS
<1>1. CASE Call(c)
  BY <1>1, CallerSound
<1>2. CASE ~Call(c)
  <2> SUFFICES ASSUME faults' = 0, NEW g \in GroupId, Readable(g)' PROVE Sound(c, g)'
    BY DEF SoundInv
  <2>1. /\ faults = 0 /\ nextGroup' = nextGroup /\ Spared(g) /\ pc'[c] = pc[c] /\ loc'[c] = loc[c]
        /\ Known' /\ Settled
    BY <1>2, OthersSpare
  <2>2. Readable(g)
    BY <2>1, LivesOn
  <2>3. Sound(c, g) /\ ApartFrom(c, g)
    BY <2>1, <2>2 DEF SoundInv, ApartFrom
  <2> QED
    BY <2>1, <2>3, SparedKeeps
<1> QED
  BY <1>1, <1>2

(* With one API caller, next to any number of sweepers, no index of a      *)
(* group that lives leads to a route that does not read, as long as no     *)
(* command fails.                                                          *)
THEOREM OneCallerNoDanglingIndex ==
  ASSUME NEW c \in Proc, OneCaller(c)
  PROVE  LSpec => [](faults = 0 => NoDanglingIndex)
<1>1. Init => IInv /\ Known /\ SweepInv /\ FiledInv /\ ReadInv /\ SoundInv(c)
  <2>1. Init => ReadInv
    BY DEF Init, ReadInv, ReadLabels
  <2> QED
    BY <2>1, InitTyped, InitDirected, InitSpares, InitFiled, InitSound
<1>2. IInv /\ Known /\ SweepInv /\ FiledInv /\ ReadInv /\ SoundInv(c) /\ [LNext]_vars
        => IInv' /\ Known' /\ SweepInv' /\ FiledInv' /\ ReadInv' /\ SoundInv(c)'
  BY LNextTyped, LNextSpares, LNextFiled, LNextRead, LNextSound
<1>3. IInv /\ FiledInv /\ SoundInv(c) => (faults = 0 => NoDanglingIndex)
  <2> SUFFICES ASSUME IInv, FiledInv, SoundInv(c), faults = 0, NEW g \in LiveQuiet
               PROVE  /\ inGroup[g] \subseteq {r \in routeAll : Intact(r) /\ route[r].group = g}
                      /\ \A n \in Number : byNumber[g][n] # NoId => byNumber[g][n] \in inGroup[g]
    BY DEF NoDanglingIndex
  <2>1. g \in GroupId /\ Sound(c, g) /\ (pc[c] = "idle" \/ loc[c].g # g)
    BY DEF LiveQuiet, Quiet, SoundInv
  <2>2. \A r \in inGroup[g] : route[r].group = g
    BY <2>1 DEF FiledInv, Filed, Belongs
  <2> QED
    BY <2>1, <2>2 DEF Sound, Mine
<1> QED
  BY <1>1, <1>2, <1>3, PTL DEF LSpec
-----------------------------------------------------------------------------
(* The name and the TTLs of a group that lives, with one API caller and    *)
(* until a command fails.  A sweeper then has found its group gone, so it  *)
(* never gets to the commands that delete a name or a record.              *)

GoneLabels == Hunting \ {"cd_read", "cd_all"}

GoneInv ==
  faults = 0 => \A s \in Sweeper :
    /\ pc[s] \notin {"cd_name", "cd_record"}
    /\ pc[s] \in GoneLabels => loc[s].cd = "gone"

(* Where the caller works on group g.                                      *)
OwnAt(c, g, labels) == pc[c] \in labels /\ loc[c].g = g

(* The labels at which the name in hand is that of the group in hand       *)
CarryLabels == ArmLabels \cup CreateLabels
               \cup {"rn_drop", "rn_set", "rn_list", "rn_scan", "rn_routes"}

(* The caller is in a cascade that found its group.                        *)
Found(c) == pc[c] \in Hunting /\ loc[c].cd = "found"

(* What the caller knows of the name index: the name it is about to take   *)
(* is free, and the one it is about to arm or to drop is nobody else's.    *)
Held(c) ==
  /\ pc[c] \in {"cg_write", "rn_record", "rn_drop", "rn_set"} => byName[loc[c].nm] = NoId
  /\ pc[c] \in {"rn_check", "rn_record", "rn_drop"} =>
       loc[c].old \in Name \ {loc[c].nm} /\ byName[loc[c].old] \in {loc[c].g, NoId}
  /\ pc[c] \in ArmLabels \/ Found(c) => byName[loc[c].nm] \in {loc[c].g, NoId}
  /\ Found(c) => loc[c].nm \in Name
  /\ pc[c] \in {"cd_name", "cd_record"} => Found(c)

(* A group's name leads to it, but for the moments in which the caller     *)
(* moves the name or deletes it.                                           *)
Named(c, g) ==
  /\ ~OwnAt(c, g, {"rn_drop", "rn_set", "cd_record"}) => byName[group[g].name] = g
  /\ OwnAt(c, g, CarryLabels) => group[g].name = loc[c].nm
  /\ OwnAt(c, g, {"rn_check", "rn_record"}) => group[g].name = loc[c].old

(* Its two TTLs run as configured, but for the moments in which the caller *)
(* arms them one after the other.                                          *)
Timed(c, g) ==
  /\ ~OwnAt(c, g, {"cg_index", "arm_record"}) => (g \in recArmed <=> group[g].ttl # 0)
  /\ ~OwnAt(c, g, {"cg_index", "arm_record", "arm_name", "rn_drop", "rn_set", "cd_record"}) =>
       nameTtl[group[g].name] = IF group[g].ttl = 0 THEN "none" ELSE "armed"
  /\ OwnAt(c, g, {"cg_index", "arm_record"}) =>
       (nameTtl[group[g].name] = "armed" => g \in recArmed)
  /\ OwnAt(c, g, {"arm_name"}) => nameTtl[group[g].name] # "armed"
  /\ OwnAt(c, g, {"cg_index", "arm_record", "arm_name", "rn_check", "rn_record", "rn_drop",
                  "rn_set"}) => loc[c].ttl = group[g].ttl

NamesHold(c) == Held(c) /\ \A g \in GroupId : Readable(g) => Named(c, g) /\ Timed(c, g)

NameInv(c) == faults = 0 => NamesHold(c)

(* A step that leaves the groups, their names and their TTLs alone         *)
GroupsStay ==
  /\ UNCHANGED <<byName, recArmed, nameTtl>>
  /\ \A g \in GroupId : Readable(g)' =>
       Readable(g) /\ group'[g].name = group[g].name /\ group'[g].ttl = group[g].ttl

(* and the caller too, or takes it from where it is done with a name to    *)
(* where it is not concerned with one or goes on with the same.            *)
TurningLabels == {"cg_index", "arm_record", "arm_name", "rn_drop", "rn_set", "cd_record"}

CarriesOn(c) ==
  \/ pc'[c] = pc[c] /\ loc'[c] = loc[c]
  \/ /\ pc[c] \notin TurningLabels
     /\ pc'[c] \in CarryLabels =>
          /\ pc[c] \in CarryLabels /\ pc'[c] \notin ArmLabels \cup {"rn_drop", "rn_set"}
          /\ loc'[c].g = loc[c].g /\ loc'[c].nm = loc[c].nm
     /\ pc'[c] \notin {"cg_write", "rn_check", "rn_record", "cd_record"}
     /\ Found(c)' => Found(c) /\ loc'[c].g = loc[c].g /\ loc'[c].nm = loc[c].nm
     /\ pc'[c] = "cd_name" => Found(c)'

LEMMA MovingKeeps ==
  ASSUME NEW c \in Proc, NamesHold(c), GroupsStay, CarriesOn(c)
  PROVE  NamesHold(c)'
<1> USE DEF GroupsStay, TurningLabels, CarryLabels
<1>1. CASE pc'[c] = pc[c] /\ loc'[c] = loc[c]
  <2>1. Held(c)'
    BY <1>1 DEF NamesHold, Held, Found
  <2>2. ASSUME NEW g \in GroupId, Readable(g)' PROVE Named(c, g)' /\ Timed(c, g)'
    <3>1. /\ Readable(g) /\ Named(c, g) /\ Timed(c, g)
          /\ group'[g].name = group[g].name /\ group'[g].ttl = group[g].ttl
      BY <2>2 DEF NamesHold
    <3> QED
      BY <1>1, <3>1 DEF Named, Timed, OwnAt
  <2> QED
    BY <2>1, <2>2 DEF NamesHold
<1>2. CASE ~(pc'[c] = pc[c] /\ loc'[c] = loc[c])
  <2>1. Held(c)'
    BY <1>2 DEF NamesHold, Held, Found, CarriesOn, Hunting
  <2>2. ASSUME NEW g \in GroupId, Readable(g)' PROVE Named(c, g)' /\ Timed(c, g)'
    <3>1. /\ Readable(g) /\ Named(c, g) /\ Timed(c, g)
          /\ group'[g].name = group[g].name /\ group'[g].ttl = group[g].ttl
      BY <2>2 DEF NamesHold
    <3>2. Named(c, g)'
      BY <1>2, <3>1 DEF Named, OwnAt, CarriesOn
    <3>3. Timed(c, g)'
      BY <1>2, <3>1 DEF Timed, OwnAt, CarriesOn
    <3> QED
      BY <3>2, <3>3
  <2> QED
    BY <2>1, <2>2 DEF NamesHold
<1> QED
  BY <1>1, <1>2

(* A cascade has the same group in hand from route to route.               *)
LEMMA CascadingHolds ==
  ASSUME CallsTyped, NEW p \in Proc, StripRecord(p) \/ CascadeList(p) \/ CascadeRoute(p)
  PROVE  /\ pc'[p] \in {"idle", "cd_unlist", "cd_route", "cd_members", "st_number", "st_kv"}
         /\ pc'[p] = "idle" \/ (/\ loc'[p].g = loc[p].g /\ loc'[p].nm = loc[p].nm
                                /\ loc'[p].cd = loc[p].cd)
<1>0. CallsTyped /\ loc[p] \in LocalRecord
  BY LocTyped
<1>1. CASE StripRecord(p)
  BY <1>0, <1>1 DEF StripRecord, Goto, Enter, CallsTyped
<1>2. CASE CascadeList(p)
  BY <1>0, <1>2 DEF CascadeList, Enter, CallsTyped, LocalRecord
<1>3. CASE CascadeRoute(p)
  <2> DEFINE strip(r) == [loc[p] EXCEPT !.r = r, !.n = route[r].number, !.todo = @ \ {r}]
  <2>1. \/ Goto(p, "cd_members")
        \/ \E r : Enter(p, "st_number", strip(r)) \/ Enter(p, "st_kv", strip(r))
    BY <1>3, Zenon DEF CascadeRoute
  <2>2. \A r : strip(r).g = loc[p].g /\ strip(r).nm = loc[p].nm /\ strip(r).cd = loc[p].cd
    BY <1>0 DEF LocalRecord
  <2> HIDE DEF strip
  <2> QED
    BY <1>0, <2>1, <2>2 DEF Goto, Enter, CallsTyped
<1> QED
  BY <1>1, <1>2, <1>3

LEMMA SweeperGone ==
  ASSUME IInv, Known, SweepInv, GoneInv, NEW s \in Sweeper, Call(s), faults' = 0
  PROVE  /\ pc'[s] \notin {"cd_name", "cd_record"}
         /\ pc'[s] \in GoneLabels => loc'[s].cd = "gone"
<1>0. CallsTyped /\ s \in Proc /\ loc[s] \in LocalRecord /\ Prepared(pc[s], loc[s])
  BY LocTyped, SweeperAssumption DEF IInv
<1>1. faults = 0 /\ Cascade(s)
  <2>1. faults \in Nat /\ faults' >= faults
    BY <1>0, CallAlone, Bounds DEF IInv, TypeOK, CountsTyped
  <2>2. faults = 0
    BY <2>1
  <2> QED
    BY <2>2, SweeperCascades DEF Fault
<1>2. /\ pc[s] \in Hunting \ {"cd_name", "cd_record"} /\ ~Readable(loc[s].g)
      /\ pc[s] \in GoneLabels => loc[s].cd = "gone"
  BY <1>0, <1>1, CascadeHunts, ReadsById DEF SweepInv, Aimed, GoneInv
<1> USE DEF GoneLabels, Hunting
<1>3. CASE \/ StripNumber(s) \/ StripInGroup(s) \/ StripAll(s) \/ StripOwner(s) \/ StripKv(s)
           \/ CascadeUnlist(s) \/ CascadeMembers(s) \/ CascadeData(s)
           \/ CascadeCounters(s) \/ CascadeName(s) \/ CascadeRecord(s)
  <2>1. PICK label : /\ Goto(s, label) /\ label \notin {"cd_name", "cd_record"}
                     /\ label # "cd_read" /\ pc[s] \in GoneLabels
    BY <1>2, <1>3 DEF StripNumber, StripInGroup, StripAll, StripOwner, StripKv, CascadeUnlist,
       CascadeMembers, CascadeData, CascadeCounters, CascadeName, CascadeRecord, Next1
  <2> QED
    BY <1>0, <1>2, <2>1 DEF Goto, CallsTyped
<1>4. CASE StripRecord(s) \/ CascadeList(s) \/ CascadeRoute(s)
  <2>1. pc[s] \in GoneLabels
    BY <1>4 DEF StripRecord, CascadeList, CascadeRoute
  <2>2. /\ pc'[s] \in {"idle", "cd_unlist", "cd_route", "cd_members", "st_number", "st_kv"}
        /\ pc'[s] = "idle" \/ loc'[s].cd = loc[s].cd
    BY <1>0, <1>4, CascadingHolds
  <2> QED
    BY <1>2, <2>1, <2>2
<1>5. CASE CascadeRead(s)
  <2>1. \/ pc'[s] = "cd_list" /\ loc'[s].cd = "gone"
        \/ pc'[s] = loc[s].fail
    BY <1>0, <1>2, <1>5 DEF CascadeRead, Abort, Goto, Enter, CallsTyped, LocalRecord
  <2>2. loc[s].fail \in {"idle", "sw_release"}
    BY <1>0 DEF LocalRecord
  <2> QED
    BY <2>1, <2>2
<1>6. CASE CascadeDone(s)
  <2>1. pc'[s] = loc[s].ret /\ loc[s].ret \in {"idle", "sw_probe"}
    BY <1>0, <1>6 DEF CascadeDone, Enter, CallsTyped, Prepared
  <2> QED
    BY <2>1
<1> QED
  BY <1>1, <1>3, <1>4, <1>5, <1>6 DEF Cascade

LEMMA LNextGone == IInv /\ Known /\ SweepInv /\ GoneInv /\ [LNext]_vars => GoneInv'
<1> SUFFICES ASSUME IInv, Known, SweepInv, GoneInv, [LNext]_vars, faults' = 0, NEW s \in Sweeper
             PROVE  /\ pc'[s] \notin {"cd_name", "cd_record"}
                    /\ pc'[s] \in GoneLabels => loc'[s].cd = "gone"
  BY DEF GoneInv
<1>0. s \in Proc /\ faults \in Nat
  BY SweeperAssumption, Bounds DEF IInv, TypeOK, CountsTyped
<1>1. ASSUME NEW p \in Proc, p # s, Elsewhere(p), faults' >= faults
      PROVE  /\ pc'[s] \notin {"cd_name", "cd_record"}
             /\ pc'[s] \in GoneLabels => loc'[s].cd = "gone"
  <2>1. faults = 0
    BY <1>0, <1>1
  <2> QED
    BY <1>0, <1>1, <2>1 DEF GoneInv, Elsewhere
<1>2. ASSUME NEW p \in Sweeper, Sweep(p)
      PROVE  /\ pc'[s] \notin {"cd_name", "cd_record"}
             /\ pc'[s] \in GoneLabels => loc'[s].cd = "gone"
  <2>1. /\ p \in Proc /\ Elsewhere(p) /\ pc'[p] \in SweepLabels \cup {"idle", "cd_read"}
    BY <1>2, SweepAlone
  <2>2. faults' = faults \/ faults' = faults + 1
    BY <1>2, Zenon
      DEF Sweep, Claim, SweepList, SweepRead, SweepProbe, SweepEnd, Release, Crash, others
  <2>3. faults' >= faults
    BY <1>0, <2>2
  <2>4. CASE p = s
    BY <2>1, <2>4 DEF GoneLabels, Hunting
  <2> QED
    BY <1>1, <2>1, <2>3, <2>4
<1>3. CASE Expire \/ LeaseExpires \/ UNCHANGED vars
  <2>1. UNCHANGED <<pc, loc, faults>>
    BY <1>3 DEF Expire, ExpireRecord, ExpireName, LeaseExpires, vars, others
  <2> QED
    BY <2>1 DEF GoneInv
<1> QED
  BY <1>1, <1>2, <1>3, CallAlone, SweeperGone DEF LNext, Next

(* The other steps leave the groups and the caller alone, but for expiry.  *)
LEMMA OthersStay ==
  ASSUME NEW c \in Proc, OneCaller(c), IInv, Known, SweepInv, GoneInv, [LNext]_vars,
         faults' = 0, ~Call(c), ~Expire
  PROVE  faults = 0 /\ GroupsStay /\ CarriesOn(c)
<1>0. faults \in Nat
  BY Bounds DEF IInv, TypeOK, CountsTyped
<1>1. ASSUME NEW s \in Proc \ {c}, Call(s)
      PROVE  faults = 0 /\ GroupsStay /\ CarriesOn(c)
  <2>1. /\ faults = 0 /\ Cascade(s) /\ Elsewhere(s) /\ pc[s] \in StripLabels \cup LoopLabels
        /\ s \in Sweeper
    BY <1>1, SweeperAway, SweeperOnlyCascades
  <2>2. pc[s] \notin {"cd_name", "cd_record"}
    BY <2>1 DEF GoneInv
  <2>3. UNCHANGED <<group, byName, recArmed, nameTtl>>
    BY <1>1, <2>1, <2>2, Frame DEF WriteGroup, PatchTtl, PatchFlags, HitGroup, RenameRecord,
       CascadeRecord, RenameDrop, RenameSet, CascadeName, ArmRecord, ArmName, Next1
  <2> QED
    BY <2>1, <2>3 DEF GroupsStay, CarriesOn, Elsewhere, Readable
<1>2. ASSUME NEW s \in Sweeper, Sweep(s)
      PROVE  faults = 0 /\ GroupsStay /\ CarriesOn(c)
  <2>1. s # c /\ Elsewhere(s) /\ UNCHANGED store
    BY <1>2, SweepAlone DEF OneCaller
  <2>2. faults' = faults \/ faults' = faults + 1
    BY <1>2, Zenon
      DEF Sweep, Claim, SweepList, SweepRead, SweepProbe, SweepEnd, Release, Crash, others
  <2>3. faults = 0
    BY <1>0, <2>2
  <2> QED
    BY <2>1, <2>3 DEF GroupsStay, CarriesOn, Elsewhere, Readable, store, groupVars
<1>3. CASE LeaseExpires \/ UNCHANGED vars
  BY <1>3 DEF GroupsStay, CarriesOn, Readable, LeaseExpires, vars, store, groupVars, others
<1> QED
  BY <1>1, <1>2, <1>3 DEF LNext, Next

(* Expiry takes the record of a group first and its name after that.       *)
LEMMA ExpiringKeeps ==
  ASSUME NEW c \in Proc, IInv, NamesHold(c), ~TightTtl, Expire
  PROVE  NamesHold(c)'
<1>1. UNCHANGED <<pc, loc>>
  BY DEF Expire, ExpireRecord, ExpireName
<1>2. ASSUME NEW g \in GroupId, ExpireRecord(g) PROVE NamesHold(c)'
  <2>1. UNCHANGED <<byName, nameTtl>>
    BY <1>2 DEF ExpireRecord
  <2>2. Held(c)'
    BY <1>1, <2>1 DEF NamesHold, Held, Found
  <2>3. ASSUME NEW h \in GroupId, Readable(h)' PROVE Named(c, h)' /\ Timed(c, h)'
    <3>1. h # g /\ group'[h] = group[h] /\ (h \in recArmed' <=> h \in recArmed)
      BY <1>2, <2>3 DEF ExpireRecord, Readable, GroupMandatory, IInv, TypeOK, GroupsTyped
    <3>2. Named(c, h) /\ Timed(c, h)
      BY <2>3, <3>1 DEF NamesHold, Readable
    <3> QED
      BY <1>1, <2>1, <3>1, <3>2 DEF Named, Timed, OwnAt
  <2> QED
    BY <2>2, <2>3 DEF NamesHold
<1>3. ASSUME NEW n \in Name, ExpireName(n) PROVE NamesHold(c)'
  <2>1. /\ nameTtl[n] = "armed" /\ byName[n] \notin recArmed
        /\ byName' = [byName EXCEPT ![n] = NoId] /\ nameTtl' = [nameTtl EXCEPT ![n] = "none"]
        /\ UNCHANGED <<group, recArmed>>
    BY <1>3 DEF ExpireName
  <2>2. \A m \in Name : byName'[m] \in {byName[m], NoId}
    BY <2>1 DEF IInv, TypeOK, GroupsTyped
  <2>3. Held(c)'
    <3>1. /\ pc[c] \in {"cg_write", "rn_record", "rn_drop", "rn_set"} \cup ArmLabels
               => loc[c].nm \in Name
          /\ pc[c] \in {"rn_check", "rn_record", "rn_drop"} => loc[c].old \in Name
          /\ Found(c) => loc[c].nm \in Name
      BY LocTyped DEF IInv, Prepared, NamesHold, Held
    <3> QED
      BY <1>1, <2>2, <3>1 DEF NamesHold, Held, Found
  <2>4. ASSUME NEW h \in GroupId, Readable(h)' PROVE Named(c, h)' /\ Timed(c, h)'
    <3>1. Readable(h) /\ Named(c, h) /\ Timed(c, h) /\ group[h].name \in Name
      BY <2>1, <2>4 DEF NamesHold, Readable, GroupMandatory, IInv, TypeOK, GroupsTyped
    <3>2. CASE group[h].name # n
      BY <1>1, <2>1, <3>1, <3>2 DEF Named, Timed, OwnAt, IInv, TypeOK, GroupsTyped
    <3>3. CASE OwnAt(c, h, {"rn_drop", "rn_set", "cd_record"})
      BY <1>1, <2>1, <3>1, <3>3 DEF Named, Timed, OwnAt
    <3>4. CASE group[h].name = n /\ ~OwnAt(c, h, {"rn_drop", "rn_set", "cd_record"})
      <4>1. byName[n] = h /\ h \notin recArmed
        BY <2>1, <3>1, <3>4 DEF Named
      <4> QED
        BY <2>1, <3>1, <3>4, <4>1 DEF Timed, OwnAt
    <3> QED
      BY <3>2, <3>3, <3>4
  <2> QED
    BY <2>3, <2>4 DEF NamesHold
<1> QED
  BY <1>2, <1>3 DEF Expire

(* The calls that touch no name and no TTL                                 *)
LEMMA CallLeavesGroups ==
  ASSUME IInv, Known, NEW p \in Proc, Call(p)
  PROVE  \/ GroupsStay
         \/ ArmRecord(p) \/ ArmName(p) \/ WriteGroup(p) \/ PatchTtl(p) \/ RenameRecord(p)
         \/ RenameDrop(p) \/ RenameSet(p) \/ CascadeName(p) \/ CascadeRecord(p)
<1> SUFFICES ASSUME UNCHANGED <<byName, recArmed, nameTtl>>,
                    UNCHANGED group \/ PatchFlags(p) \/ HitGroup(p),
                    NEW g \in GroupId, Readable(g)'
             PROVE  Readable(g) /\ group'[g].name = group[g].name /\ group'[g].ttl = group[g].ttl
  BY Frame, Zenon DEF GroupsStay
<1>1. CASE UNCHANGED group
  BY <1>1 DEF Readable
<1>2. CASE PatchFlags(p) \/ HitGroup(p)
  <2>1. PICK fields \in SUBSET (GroupField \ {"id"}) :
          group' = group \/ group' = [group EXCEPT ![loc[p].g].has = @ \cup fields]
    <3>1. CASE PatchFlags(p)
      BY <3>1 DEF PatchFlags, GroupField
    <3>2. CASE HitGroup(p)
      BY <3>2 DEF HitGroup, GroupField
    <3> QED
      BY <1>2, <3>1, <3>2
  <2>2. group'[g].name = group[g].name /\ group'[g].ttl = group[g].ttl
    BY <2>1 DEF IInv, TypeOK, GroupsTyped
  <2>3. "id" \in group'[g].has => "id" \in group[g].has
    BY <2>1 DEF IInv, TypeOK, GroupsTyped
  <2> QED
    BY <2>2, <2>3, ReadsById DEF Readable, GroupMandatory
<1> QED
  BY <1>1, <1>2

(* and have no name in hand                                                *)
LEMMA CallCarriesOn ==
  ASSUME IInv, NEW c \in Proc, Held(c), Call(c)
  PROVE  \/ CarriesOn(c) \/ Fault(c)
         \/ ArmRecord(c) \/ ArmName(c) \/ IndexGroup(c) \/ WriteGroup(c) \/ PatchTtl(c)
         \/ CreateGroup(c) \/ PatchGroup(c) \/ RefreshGroup(c) \/ Bump(c) \/ RenameGroup(c)
         \/ RenameCheck(c) \/ RenameRecord(c) \/ RenameDrop(c) \/ RenameSet(c)
         \/ CreateRoute(c) \/ CascadeRead(c) \/ CascadeName(c) \/ CascadeRecord(c)
<1>0. CallsTyped /\ loc[c] \in LocalRecord /\ Prepared(pc[c], loc[c])
  BY LocTyped DEF IInv
<1> USE DEF CarriesOn, TurningLabels, CarryLabels, Hunting, Found
<1>1. CASE \/ PatchFlags(c) \/ HitRoute(c) \/ HitGroup(c) \/ IndexInGroup(c) \/ IndexAll(c)
           \/ IndexOwner(c) \/ UpdatePattern(c) \/ UpdateArtifact(c) \/ ClearCounters(c)
  <2>1. PICK label \in {"idle", "hit_group", "bump", "cr_all", "cr_owner", "up_path",
                        "up_artifact"} :
          Goto(c, label) /\ pc[c] \notin TurningLabels
    BY <1>1 DEF PatchFlags, HitRoute, HitGroup, IndexInGroup, IndexAll, IndexOwner,
       UpdatePattern, UpdateArtifact, ClearCounters, Next1
  <2> QED
    BY <1>0, <2>1 DEF Goto, CallsTyped
<1>2. CASE \/ StripNumber(c) \/ StripInGroup(c) \/ StripAll(c) \/ StripOwner(c) \/ StripKv(c)
           \/ CascadeUnlist(c) \/ CascadeMembers(c) \/ CascadeData(c) \/ CascadeCounters(c)
  <2>1. PICK label \in StripLabels \cup LoopLabels :
          /\ Goto(c, label) /\ pc[c] \in Hunting \ TurningLabels /\ label # "cd_record"
          /\ label = "cd_name" => loc[c].cd = "found"
    BY <1>2 DEF StripNumber, StripInGroup, StripAll, StripOwner, StripKv, CascadeUnlist,
       CascadeMembers, CascadeData, CascadeCounters, Next1
  <2> QED
    BY <1>0, <2>1 DEF Goto, CallsTyped
<1>3. CASE StripRecord(c) \/ CascadeList(c) \/ CascadeRoute(c)
  <2>1. pc[c] \in Hunting \ TurningLabels
    BY <1>3, Zenon DEF StripRecord, CascadeList, CascadeRoute
  <2> QED
    BY <1>0, <1>3, <2>1, CascadingHolds
<1>4. CASE CascadeDone(c)
  <2>1. /\ pc'[c] = loc[c].ret /\ loc[c].ret \in {"idle", "sw_probe"}
        /\ pc[c] = "cd_all"
    BY <1>0, <1>4 DEF CascadeDone, Enter, CallsTyped, Prepared
  <2> QED
    BY <2>1
<1>5. CASE Dispatch(c) \/ UpdateRoute(c) \/ DeleteRoute(c) \/ DeleteGroup(c) \/ ClearJournal(c)
  <2>1. \/ pc'[c] \in {"hit_route", "up_artifact", "up_list", "cj_counters"}
        \/ pc'[c] \in {"st_number", "cd_read"} /\ loc'[c].cd = "none"
    <3> USE <1>0 DEF CallsTyped, Enter, Locals
    <3>1. CASE Dispatch(c)
      BY <3>1, Zenon DEF Dispatch
    <3>2. CASE UpdateRoute(c)
      BY <3>2, Zenon DEF UpdateRoute
    <3>3. CASE DeleteRoute(c)
      BY <3>3 DEF DeleteRoute
    <3>4. CASE DeleteGroup(c)
      BY <3>4 DEF DeleteGroup
    <3>5. CASE ClearJournal(c)
      BY <3>5 DEF ClearJournal
    <3> QED
      BY <1>5, <3>1, <3>2, <3>3, <3>4, <3>5
  <2>2. pc[c] = "idle"
    BY <1>5, Zenon DEF Dispatch, UpdateRoute, DeleteRoute, DeleteGroup, ClearJournal, Asked
  <2> QED
    BY <2>1, <2>2
<1>6. CASE ListRoutes(c) \/ ScanRoutes(c) \/ NextNumber(c) \/ WriteRoute(c) \/ RenameRoute(c)
  <2>1. /\ pc[c] \in {"cr_list", "up_list", "rn_list", "cr_scan", "up_scan", "rn_scan",
                      "cr_number", "cr_write", "rn_routes"}
        /\ pc'[c] \in {"idle", "cr_scan", "up_scan", "rn_scan", "cr_number", "up_write",
                       "rn_routes", "cr_write", "cr_group"}
        /\ pc[c] \in {"up_list", "up_scan"} => pc'[c] \in {"idle", "up_scan", "up_write"}
        /\ pc'[c] = "idle" \/ (loc'[c].g = loc[c].g /\ loc'[c].nm = loc[c].nm)
    <3>1. CASE ListRoutes(c)
      BY <1>0, <3>1 DEF ListRoutes, After, Enter, CallsTyped, LocalRecord
    <3>2. CASE ScanRoutes(c)
      <4> DEFINE read(r) == [loc[c] EXCEPT !.todo = @ \ {r},
                       !.done = IF pc[c] = "rn_scan" THEN @ \cup {r} ELSE @]
      <4>1. \/ Goto(c, Scanned[pc[c]]) \/ Goto(c, "idle")
            \/ \E r : Enter(c, pc[c], read(r))
        BY <3>2, Zenon DEF ScanRoutes
      <4>2. pc[c] \in {"cr_scan", "up_scan", "rn_scan"}
        BY <3>2 DEF ScanRoutes, Scanned
      <4>3. \A r : read(r).g = loc[c].g /\ read(r).nm = loc[c].nm
        BY <1>0 DEF LocalRecord
      <4> HIDE DEF read
      <4>4. /\ pc'[c] \in {Scanned[pc[c]], pc[c], "idle"}
            /\ pc'[c] = "idle" \/ (loc'[c].g = loc[c].g /\ loc'[c].nm = loc[c].nm)
        BY <1>0, <4>1, <4>3, Zenon DEF Goto, Enter, CallsTyped
      <4> QED
        BY <4>2, <4>4 DEF Scanned
    <3>3. CASE NextNumber(c) \/ WriteRoute(c)
      BY <1>0, <3>3 DEF NextNumber, WriteRoute, Enter, CallsTyped, LocalRecord
    <3>4. CASE RenameRoute(c)
      <4> DEFINE written(r) == [loc[c] EXCEPT !.done = @ \ {r}]
      <4>1. pc[c] = "rn_routes" /\ (Goto(c, "idle") \/ \E r : Enter(c, "rn_routes", written(r)))
        BY <3>4, Zenon DEF RenameRoute
      <4>2. \A r : written(r).g = loc[c].g /\ written(r).nm = loc[c].nm
        BY <1>0 DEF LocalRecord
      <4> HIDE DEF written
      <4>3. /\ pc'[c] \in {"idle", "rn_routes"}
            /\ pc'[c] = "idle" \/ (loc'[c].g = loc[c].g /\ loc'[c].nm = loc[c].nm)
        <5>1. CASE Goto(c, "idle")
          BY <1>0, <5>1 DEF Goto, CallsTyped
        <5>2. ASSUME NEW r, Enter(c, "rn_routes", written(r))
              PROVE  pc'[c] = "rn_routes" /\ loc'[c] = written(r)
          BY <1>0, <5>2 DEF Enter, CallsTyped
        <5> QED
          BY <4>1, <4>2, <5>1, <5>2
      <4> QED
        BY <4>1, <4>3
    <3> QED
      BY <1>6, <3>1, <3>2, <3>3, <3>4
  <2> QED
    BY <2>1
<1>7. CASE SetState(c) \/ ClearState(c)
  BY <1>7 DEF SetState, ClearState
<1> QED
  BY <1>1, <1>2, <1>3, <1>4, <1>5, <1>6, <1>7 DEF Call, Cascade

(* A group that reads has a name of its own.                               *)
LEMMA NamesTyped ==
  ASSUME IInv, Known
  PROVE  \A g \in GroupId : Readable(g) => group[g].name \in Name /\ g \in 1 .. nextGroup
BY DEF IInv, TypeOK, GroupsTyped, Known, GroupsWhole, Readable, GroupMandatory

(* The caller takes a group up, having read it.                            *)
LEMMA TakingUpKeeps ==
  ASSUME NEW c \in Proc, NamesHold(c), GroupsStay, Held(c)', pc[c] \notin TurningLabels,
         pc'[c] \notin TurningLabels \/ pc'[c] = "arm_record",
         \A g \in GroupId : Readable(g) /\ loc'[c].g = g =>
           /\ pc'[c] \in CarryLabels => group[g].name = loc'[c].nm
           /\ pc'[c] \in {"rn_check", "rn_record"} => group[g].name = loc'[c].old
           /\ pc'[c] \in {"arm_record", "rn_check", "rn_record"} => loc'[c].ttl = group[g].ttl
  PROVE  NamesHold(c)'
<1> SUFFICES ASSUME NEW g \in GroupId, Readable(g)' PROVE Named(c, g)' /\ Timed(c, g)'
  BY DEF NamesHold
<1>1. /\ Readable(g) /\ Named(c, g) /\ Timed(c, g)
      /\ group'[g].name = group[g].name /\ group'[g].ttl = group[g].ttl
  BY DEF NamesHold, GroupsStay
<1>2. Named(c, g)'
  BY <1>1 DEF Named, OwnAt, GroupsStay, TurningLabels
<1>3. Timed(c, g)'
  BY <1>1 DEF Timed, OwnAt, GroupsStay, TurningLabels
<1> QED
  BY <1>2, <1>3

LEMMA CallTakesUp ==
  ASSUME IInv, Known, NEW c \in Proc, NamesHold(c), GroupsStay,
         \/ CreateGroup(c) \/ PatchGroup(c) \/ RefreshGroup(c) \/ Bump(c) \/ RenameGroup(c)
         \/ RenameCheck(c) \/ CreateRoute(c) \/ CascadeRead(c)
  PROVE  NamesHold(c)'
<1>0. CallsTyped /\ loc[c] \in LocalRecord /\ Prepared(pc[c], loc[c])
  BY LocTyped DEF IInv
<1>1. /\ UNCHANGED <<byName, recArmed, nameTtl>>
      /\ \A g \in GroupId : Readable(g) => group[g].name \in Name
  BY NamesTyped DEF GroupsStay
<1>n. pc[c] \notin TurningLabels =>
        \A g \in GroupId : Readable(g) => byName[group[g].name] = g
  BY DEF NamesHold, Named, OwnAt, TurningLabels
<1> USE DEF TurningLabels, CarryLabels, Held, Found, Hunting
<1>2. CASE CreateGroup(c)
  <2>1. PICK n, l :
          /\ n \in Name /\ byName[n] = NoId /\ Enter(c, "cg_write", l) /\ l.nm = n /\ pc[c] = "idle"
    <3>1. PICK n, t, q :
            /\ n \in Name /\ byName[n] = NoId /\ pc[c] = "idle"
            /\ \/ Enter(c, "cg_write", [Locals EXCEPT !.nm = n, !.ttl = t])
               \/ Enter(c, "cg_write", [Locals EXCEPT !.nm = n, !.ttl = 1,
                                          !.pat = q, !.ret = "cr_list"])
      BY <1>2, Zenon DEF CreateGroup, Asked
    <3> QED
      BY <3>1 DEF Locals
  <2>2. pc'[c] = "cg_write" /\ loc'[c] = l
    BY <1>0, <2>1, Zenon DEF Enter, CallsTyped
  <2> QED
    BY <1>1, <2>1, <2>2, TakingUpKeeps
<1>3. CASE PatchGroup(c)
  <2>1. PICK g, l :
          /\ g \in GroupId /\ Readable(g) /\ pc[c] = "idle"
          /\ Enter(c, "pt_flags", l) \/ Enter(c, "pt_ttl", l)
          /\ l.g = g /\ l.nm = group[g].name /\ l.cd = "none"
    <3>1. PICK g \in GroupId : Readable(g) /\ pc[c] = "idle"
            /\ \/ Enter(c, "pt_flags", [Locals EXCEPT !.g = g, !.nm = group[g].name])
               \/ \E t, next : Enter(c, "pt_ttl", [[Locals EXCEPT !.g = g, !.nm = group[g].name]
                                              EXCEPT !.ttl = t, !.ret = next])
      BY <1>3, Zenon DEF PatchGroup, Asked
    <3> DEFINE k == [Locals EXCEPT !.g = g, !.nm = group[g].name]
    <3>2. k.g = g /\ k.nm = group[g].name /\ k.cd = "none"
      BY DEF Locals
    <3> DEFINE m(t, next) == [k EXCEPT !.ttl = t, !.ret = next]
    <3>3. \A t, next : m(t, next).g = g /\ m(t, next).nm = group[g].name
                       /\ m(t, next).cd = "none"
      BY DEF Locals
    <3> HIDE DEF k, m
    <3>4. CASE Enter(c, "pt_flags", k)
      BY <3>1, <3>2, <3>4, Zenon
    <3>5. CASE \E t, next : Enter(c, "pt_ttl", m(t, next))
      BY <3>1, <3>3, <3>5, Zenon
    <3> QED
      BY <3>1, <3>4, <3>5, Zenon DEF k, m
  <2>2. pc'[c] \in {"pt_flags", "pt_ttl"} /\ loc'[c] = l
    BY <1>0, <2>1, Zenon DEF Enter, CallsTyped
  <2>3. byName[l.nm] = g
    BY <1>n, <2>1
  <2> QED
    BY <1>1, <2>1, <2>2, <2>3, TakingUpKeeps
<1>4. CASE RefreshGroup(c) \/ Bump(c)
  <2>1. CASE Goto(c, "idle")
    <3>1. pc'[c] = "idle" /\ pc[c] \notin TurningLabels
      BY <1>0, <1>4, <2>1 DEF RefreshGroup, Bump, Asked, Goto, CallsTyped
    <3> QED
      BY <1>1, <3>1, TakingUpKeeps
  <2>2. CASE ~Goto(c, "idle")
    <3>1. PICK g, l :
            /\ g \in GroupId /\ Readable(g) /\ pc[c] \in {"idle", "bump"}
            /\ Enter(c, "arm_record", l)
            /\ l.g = g /\ l.nm = group[g].name /\ l.ttl = group[g].ttl
      <4>1. CASE RefreshGroup(c)
        <5>1. PICK g \in GroupId : Readable(g) /\ pc[c] = "idle"
                /\ Enter(c, "arm_record", [Locals EXCEPT !.g = g, !.nm = group[g].name,
                                                        !.ttl = group[g].ttl])
          BY <4>1, Zenon DEF RefreshGroup, Asked
        <5> DEFINE k == [Locals EXCEPT !.g = g, !.nm = group[g].name, !.ttl = group[g].ttl]
        <5>2. k.g = g /\ k.nm = group[g].name /\ k.ttl = group[g].ttl
          BY DEF Locals
        <5> QED
          BY <5>1, <5>2, Zenon
      <4>2. CASE Bump(c)
        <5> DEFINE g == loc[c].g
                   k == [loc[c] EXCEPT !.nm = group[g].name, !.ttl = group[g].ttl]
        <5>1. Readable(g) /\ pc[c] = "bump" /\ Enter(c, "arm_record", k)
          BY <2>2, <4>2, Zenon DEF Bump
        <5>2. k.g = g /\ k.nm = group[g].name /\ k.ttl = group[g].ttl /\ g \in GroupId
          BY <1>0, <5>1 DEF LocalRecord, Prepared
        <5> QED
          BY <5>1, <5>2, Zenon
      <4> QED
        BY <1>4, <4>1, <4>2
    <3>2. pc'[c] = "arm_record" /\ loc'[c] = l
      BY <1>0, <3>1, Zenon DEF Enter, CallsTyped
    <3>3. byName[l.nm] = g
      BY <1>n, <3>1
    <3> QED
      BY <1>1, <3>1, <3>2, <3>3, TakingUpKeeps
  <2> QED
    BY <2>1, <2>2
<1>5. CASE RenameGroup(c)
  <2>1. PICK g \in GroupId, n \in Name :
          /\ Readable(g) /\ group[g].name # n /\ pc[c] = "idle"
          /\ Enter(c, "rn_check", [Locals EXCEPT !.g = g, !.nm = n,
                                     !.old = group[g].name, !.ttl = group[g].ttl])
    BY <1>5, Zenon DEF RenameGroup, Asked
  <2>2. /\ pc'[c] = "rn_check" /\ loc'[c].g = g /\ loc'[c].nm = n
        /\ loc'[c].old = group[g].name /\ loc'[c].ttl = group[g].ttl
    BY <1>0, <2>1 DEF Enter, CallsTyped, Locals
  <2>3. byName[group[g].name] = g
    BY <1>n, <2>1
  <2> QED
    BY <1>1, <2>1, <2>2, <2>3, TakingUpKeeps
<1>6. CASE RenameCheck(c)
  <2>1. /\ pc[c] = "rn_check"
        /\ \/ pc'[c] = "rn_record" /\ loc'[c] = loc[c] /\ byName[loc[c].nm] = NoId
           \/ pc'[c] = "idle"
    BY <1>0, <1>6 DEF RenameCheck, Goto, CallsTyped
  <2>2. \A g \in GroupId : Readable(g) /\ loc[c].g = g =>
          group[g].name = loc[c].old /\ loc[c].ttl = group[g].ttl
    BY <2>1 DEF NamesHold, Named, Timed, OwnAt
  <2> QED
    BY <1>1, <2>1, <2>2, TakingUpKeeps DEF NamesHold
<1>7. CASE CreateRoute(c)
  <2>1. PICK g, q :
          /\ g \in GroupId /\ Readable(g) /\ pc[c] = "idle"
          /\ Enter(c, "cr_list", [Locals EXCEPT !.g = g, !.pat = q, !.nm = group[g].name])
    BY <1>7, Zenon DEF CreateRoute, Asked
  <2>2. pc'[c] = "cr_list" /\ loc'[c].g = g /\ loc'[c].nm = group[g].name
    BY <1>0, <2>1 DEF Enter, CallsTyped, Locals
  <2> QED
    BY <1>1, <2>1, <2>2, TakingUpKeeps
<1>8. CASE CascadeRead(c)
  <2>1. /\ pc[c] = "cd_read" /\ loc[c].g \in GroupId
        /\ \/ /\ Readable(loc[c].g) /\ pc'[c] = "cd_list"
              /\ loc'[c].g = loc[c].g /\ loc'[c].nm = group[loc[c].g].name
           \/ pc'[c] = "cd_list" /\ loc'[c].cd = "gone"
           \/ pc'[c] \in {"idle", "sw_release"}
    <3>1. /\ pc[c] = "cd_read" /\ loc[c].g \in GroupId
          /\ loc[c].fail \in {"idle", "sw_release"}
      BY <1>0, <1>8 DEF CascadeRead, Prepared, LocalRecord
    <3>2. CASE Abort(c)
      BY <1>0, <3>1, <3>2 DEF Abort, Goto, CallsTyped
    <3>3. CASE ~Abort(c)
      <4> DEFINE found == [loc[c] EXCEPT !.cd = "found", !.nm = group[loc[c].g].name]
                 gone == [loc[c] EXCEPT !.cd = "gone"]
      <4>1. \/ Readable(loc[c].g) /\ Enter(c, "cd_list", found)
            \/ Enter(c, "cd_list", gone)
        BY <1>8, <3>3, Zenon DEF CascadeRead
      <4>2. /\ found.g = loc[c].g /\ found.nm = group[loc[c].g].name
            /\ gone.cd = "gone"
        BY <1>0 DEF LocalRecord
      <4> HIDE DEF found, gone
      <4> QED
        BY <1>0, <3>1, <4>1, <4>2 DEF Enter, CallsTyped
    <3> QED
      BY <3>2, <3>3
  <2>2. Readable(loc[c].g) => byName[group[loc[c].g].name] = loc[c].g
    BY <1>n, <2>1
  <2> QED
    BY <1>1, <2>1, <2>2, TakingUpKeeps
<1> QED
  BY <1>2, <1>3, <1>4, <1>5, <1>6, <1>7, <1>8

(* The caller arms the two TTLs of a group, one after the other.           *)
LEMMA ArmingKeeps ==
  ASSUME IInv, Known, NEW c \in Proc, NamesHold(c),
         IndexGroup(c) \/ ArmRecord(c) \/ ArmName(c)
  PROVE  NamesHold(c)'
<1>0. /\ CallsTyped /\ loc[c] \in LocalRecord /\ Prepared(pc[c], loc[c])
      /\ byName \in [Name -> GroupId \cup {NoId}] /\ nameTtl = [n \in Name |-> nameTtl[n]]
  BY LocTyped DEF IInv, TypeOK, GroupsTyped
<1> DEFINE g == loc[c].g
           n == loc[c].nm
<1>1. g \in GroupId /\ n \in Name /\ byName[n] \in {g, NoId} /\ NoId \notin GroupId
  BY <1>0 DEF IndexGroup, ArmRecord, ArmName, Next1, Prepared, NamesHold, Held, NoId, GroupId
<1>2. UNCHANGED <<group, byName>>
  BY DEF IndexGroup, ArmRecord, ArmName
<1>3. ASSUME NEW h \in GroupId, Readable(h)'
      PROVE  Readable(h) /\ Named(c, h) /\ Timed(c, h) /\ group[h].name \in Name
  BY <1>2, <1>3, NamesTyped DEF NamesHold, Readable
<1> USE DEF CarryLabels, Found, Hunting
<1>4. CASE IndexGroup(c)
  <2>1. /\ pc[c] = "cg_index" /\ pc'[c] = "arm_record" /\ loc'[c] = loc[c]
        /\ UNCHANGED <<recArmed, nameTtl>>
    BY <1>0, <1>4 DEF IndexGroup, Next1, Goto, CallsTyped
  <2>2. Held(c)'
    BY <1>2, <2>1 DEF NamesHold, Held
  <2>3. ASSUME NEW h \in GroupId, Readable(h)' PROVE Named(c, h)' /\ Timed(c, h)'
    BY <1>2, <1>3, <2>1, <2>3 DEF Named, Timed, OwnAt
  <2> QED
    BY <2>2, <2>3 DEF NamesHold
<1>5. CASE ArmRecord(c)
  <2>1. /\ pc[c] = "arm_record" /\ pc'[c] = "arm_name" /\ loc'[c] = loc[c]
        /\ recArmed' = IF loc[c].ttl = 0 \/ group[g].has = {}
                         THEN recArmed \ {g} ELSE recArmed \cup {g}
        /\ nameTtl' = [m \in Name |->
             IF byName[m] = g /\ nameTtl[m] = "armed" THEN "stale" ELSE nameTtl[m]]
    BY <1>0, <1>5 DEF ArmRecord, Next1, Goto, CallsTyped
  <2>2. Held(c)'
    BY <1>2, <2>1 DEF NamesHold, Held
  <2>3. ASSUME NEW h \in GroupId, Readable(h)' PROVE Named(c, h)' /\ Timed(c, h)'
    <3>1. Named(c, h)' /\ byName[group[h].name] = h
      BY <1>2, <1>3, <2>1, <2>3 DEF Named, OwnAt
    <3>2. CASE h = g
      <4>1. loc[c].ttl = group[g].ttl /\ group[g].has # {}
        BY <1>3, <2>1, <2>3, <3>2 DEF Timed, OwnAt, Readable, GroupMandatory
      <4>2. g \in recArmed' <=> group[g].ttl # 0
        BY <2>1, <4>1
      <4>3. nameTtl'[group[g].name] # "armed"
        BY <1>3, <2>1, <2>3, <3>1, <3>2
      <4> QED
        BY <1>2, <2>1, <3>1, <3>2, <4>1, <4>2, <4>3 DEF Timed, OwnAt
    <3>3. CASE h # g
      <4>1. (h \in recArmed' <=> h \in recArmed) /\ nameTtl'[group[h].name] = nameTtl[group[h].name]
        BY <1>3, <2>1, <2>3, <3>1, <3>3
      <4> QED
        BY <1>2, <1>3, <2>1, <2>3, <3>1, <3>3, <4>1 DEF Timed, OwnAt
    <3> QED
      BY <3>2, <3>3
  <2> QED
    BY <2>2, <2>3 DEF NamesHold
<1>6. CASE ArmName(c)
  <2>1. /\ pc[c] = "arm_name" /\ pc'[c] \in {"idle", "pt_flags", "cr_list", "rn_list"}
        /\ pc'[c] \in {"cr_list", "rn_list"} => loc'[c] = loc[c]
        /\ recArmed' = recArmed
        /\ nameTtl' = [nameTtl EXCEPT ![n] =
             IF loc[c].ttl = 0 \/ byName[n] = NoId THEN "none" ELSE "armed"]
    BY <1>0, <1>6 DEF ArmName, Return, Goto, CallsTyped, LocalRecord, Prepared
  <2>2. Held(c)'
    BY <1>2, <2>1 DEF NamesHold, Held
  <2>3. ASSUME NEW h \in GroupId, Readable(h)' PROVE Named(c, h)' /\ Timed(c, h)'
    <3>1. Named(c, h)' /\ byName[group[h].name] = h
      BY <1>2, <1>3, <2>1, <2>3 DEF Named, OwnAt
    <3>2. CASE h = g
      <4>1. loc[c].ttl = group[g].ttl /\ group[g].name = n /\ (g \in recArmed <=> group[g].ttl # 0)
        BY <1>3, <2>1, <2>3, <3>2 DEF Named, Timed, OwnAt
      <4>2. nameTtl'[n] = IF group[g].ttl = 0 THEN "none" ELSE "armed"
        BY <1>0, <1>1, <2>1, <3>1, <3>2, <4>1
      <4> QED
        BY <1>2, <2>1, <3>1, <3>2, <4>1, <4>2 DEF Timed, OwnAt
    <3>3. CASE h # g
      <4>1. group[h].name # n
        BY <1>1, <3>1, <3>3
      <4>2. nameTtl'[group[h].name] = nameTtl[group[h].name]
        BY <1>0, <2>1, <4>1
      <4> QED
        BY <1>2, <1>3, <2>1, <2>3, <3>1, <3>3, <4>2 DEF Timed, OwnAt
    <3> QED
      BY <3>2, <3>3
  <2> QED
    BY <2>2, <2>3 DEF NamesHold
<1> QED
  BY <1>4, <1>5, <1>6

(* A new group takes a name that is free, and a patch writes a TTL that it *)
(* is about to arm.                                                        *)
LEMMA ConfiguringKeeps ==
  ASSUME IInv, Known, NEW c \in Proc, NamesHold(c), WriteGroup(c) \/ PatchTtl(c)
  PROVE  NamesHold(c)'
<1>0. /\ CallsTyped /\ loc[c] \in LocalRecord /\ Prepared(pc[c], loc[c])
      /\ byName \in [Name -> GroupId \cup {NoId}] /\ nameTtl = [n \in Name |-> nameTtl[n]]
      /\ nextGroup \in Nat
  BY LocTyped, Bounds DEF IInv, TypeOK, GroupsTyped
<1> DEFINE n == loc[c].nm
<1>1. n \in Name /\ NoId \notin GroupId
  BY <1>0 DEF WriteGroup, PatchTtl, Next1, Prepared, NoId, GroupId
<1> USE DEF CarryLabels, Found, Hunting
<1>2. CASE WriteGroup(c)
  <2> DEFINE g == nextGroup + 1
             new == [has |-> GroupField \ {"last_activity_at"}, name |-> n, ttl |-> loc[c].ttl]
  <2>1. /\ pc[c] = "cg_write" /\ pc'[c] = "cg_index" /\ loc'[c] = [loc[c] EXCEPT !.g = g]
        /\ g \in GroupId /\ group' = [group EXCEPT ![g] = new]
        /\ byName' = [byName EXCEPT ![n] = g] /\ nameTtl' = [nameTtl EXCEPT ![n] = "none"]
        /\ recArmed' = recArmed
    BY <1>0, <1>2, Bounds DEF WriteGroup, Enter, CallsTyped, GroupId
  <2>2. loc'[c].g = g /\ loc'[c].nm = n /\ loc'[c].ttl = loc[c].ttl
    BY <1>0, <2>1 DEF LocalRecord
  <2>3. ~Readable(g)
    BY <1>0, <2>1, NamesTyped
  <2>4. byName[n] = NoId
    BY <2>1 DEF NamesHold, Held
  <2>5. Held(c)'
    BY <1>0, <1>1, <2>1, <2>2 DEF Held
  <2>6. ASSUME NEW h \in GroupId, Readable(h)' PROVE Named(c, h)' /\ Timed(c, h)'
    <3>1. CASE h = g
      <4>1. group'[h].name = n /\ group'[h].ttl = loc[c].ttl
        BY <2>1, <3>1 DEF IInv, TypeOK, GroupsTyped
      <4>2. byName'[n] = h /\ nameTtl'[n] = "none"
        BY <1>0, <1>1, <2>1, <3>1
      <4> QED
        BY <2>1, <2>2, <3>1, <4>1, <4>2 DEF Named, Timed, OwnAt
    <3>2. CASE h # g
      <4>1. group'[h] = group[h] /\ Readable(h)
        BY <2>1, <2>6, <3>2 DEF Readable
      <4>2. Named(c, h) /\ Timed(c, h) /\ group[h].name \in Name /\ byName[group[h].name] = h
        BY <2>1, <4>1, NamesTyped DEF NamesHold, Named, OwnAt
      <4>3. /\ byName'[group[h].name] = byName[group[h].name]
            /\ nameTtl'[group[h].name] = nameTtl[group[h].name]
        BY <1>0, <1>1, <2>1, <2>4, <4>2
      <4> QED
        BY <2>1, <2>2, <3>2, <4>1, <4>2, <4>3 DEF Named, Timed, OwnAt
    <3> QED
      BY <3>1, <3>2
  <2> QED
    BY <2>5, <2>6 DEF NamesHold
<1>3. CASE PatchTtl(c)
  <2> DEFINE g == loc[c].g
  <2>1. /\ pc[c] = "pt_ttl" /\ pc'[c] = "arm_record" /\ loc'[c] = loc[c]
        /\ group' = [group EXCEPT ![g].has = @ \cup {"ttl_seconds"}, ![g].ttl = loc[c].ttl]
        /\ UNCHANGED <<byName, nameTtl, recArmed>>
    BY <1>0, <1>3 DEF PatchTtl, Next1, Goto, CallsTyped
  <2>2. Held(c)'
    BY <2>1 DEF NamesHold, Held
  <2>3. ASSUME NEW h \in GroupId, Readable(h)' PROVE Named(c, h)' /\ Timed(c, h)'
    <3>1. /\ "id" \in group[h].has /\ group'[h].name = group[h].name
          /\ group'[h].ttl = IF h = g THEN loc[c].ttl ELSE group[h].ttl
      BY <2>1, <2>3 DEF IInv, TypeOK, GroupsTyped, Readable, GroupMandatory
    <3>2. Named(c, h) /\ Timed(c, h)
      BY <3>1, ReadsById DEF NamesHold
    <3>3. Named(c, h)'
      BY <2>1, <3>1, <3>2 DEF Named, OwnAt
    <3>4. Timed(c, h)'
      BY <2>1, <3>1, <3>2 DEF Timed, OwnAt
    <3> QED
      BY <3>3, <3>4
  <2> QED
    BY <2>2, <2>3 DEF NamesHold
<1> QED
  BY <1>2, <1>3

(* A rename moves the record, drops the old name and takes the new one,    *)
(* none of which is another group's.                                       *)
LEMMA RenamingKeeps ==
  ASSUME IInv, Known, NEW c \in Proc, NamesHold(c),
         RenameRecord(c) \/ RenameDrop(c) \/ RenameSet(c)
  PROVE  NamesHold(c)'
<1>0. /\ CallsTyped /\ loc[c] \in LocalRecord /\ Prepared(pc[c], loc[c])
      /\ byName \in [Name -> GroupId \cup {NoId}] /\ nameTtl = [n \in Name |-> nameTtl[n]]
  BY LocTyped DEF IInv, TypeOK, GroupsTyped
<1> DEFINE g == loc[c].g
           n == loc[c].nm
           old == loc[c].old
<1>1. /\ g \in GroupId /\ n \in Name /\ NoId \notin GroupId /\ byName[n] = NoId
      /\ pc[c] \in {"rn_record", "rn_drop", "rn_set"} /\ UNCHANGED recArmed
  BY <1>0 DEF RenameRecord, RenameDrop, RenameSet, Next1, Prepared, NamesHold, Held, NoId, GroupId
<1>2. ASSUME NEW h \in GroupId, Readable(h)
      PROVE  /\ Named(c, h) /\ Timed(c, h) /\ group[h].name \in Name
             /\ h # g => byName[group[h].name] = h
  BY <1>1, <1>2, NamesTyped DEF NamesHold, Named, OwnAt
<1> USE DEF CarryLabels, Found, Hunting
<1>3. CASE RenameRecord(c)
  <2>1. /\ pc[c] = "rn_record" /\ pc'[c] = "rn_drop" /\ loc'[c] = loc[c]
        /\ group' = [group EXCEPT ![g].has = @ \cup {"name"}, ![g].name = n]
        /\ UNCHANGED <<byName, nameTtl>>
    BY <1>0, <1>3 DEF RenameRecord, Next1, Goto, CallsTyped
  <2>2. Held(c)'
    BY <2>1 DEF NamesHold, Held
  <2>3. ASSUME NEW h \in GroupId, Readable(h)' PROVE Named(c, h)' /\ Timed(c, h)'
    <3>1. /\ "id" \in group[h].has /\ group'[h].ttl = group[h].ttl
          /\ group'[h].name = IF h = g THEN n ELSE group[h].name
      BY <2>1, <2>3 DEF IInv, TypeOK, GroupsTyped, Readable, GroupMandatory
    <3>2. Named(c, h) /\ Timed(c, h)
      BY <1>2, <3>1, ReadsById
    <3>3. Named(c, h)'
      BY <2>1, <3>1, <3>2 DEF Named, OwnAt
    <3>4. Timed(c, h)'
      BY <1>1, <2>1, <3>1, <3>2 DEF Timed, OwnAt
    <3> QED
      BY <3>3, <3>4
  <2> QED
    BY <2>2, <2>3 DEF NamesHold
<1>4. CASE RenameDrop(c)
  <2>1. /\ pc[c] = "rn_drop" /\ pc'[c] = "rn_set" /\ loc'[c] = loc[c] /\ UNCHANGED group
        /\ byName' = [byName EXCEPT ![old] = NoId] /\ nameTtl' = [nameTtl EXCEPT ![old] = "none"]
    BY <1>0, <1>4 DEF RenameDrop, Next1, Goto, CallsTyped
  <2>2. old \in Name \ {n} /\ byName[old] \in {g, NoId}
    BY <2>1 DEF NamesHold, Held
  <2>3. Held(c)'
    BY <1>0, <1>1, <2>1, <2>2 DEF Held
  <2>4. ASSUME NEW h \in GroupId, Readable(h)' PROVE Named(c, h)' /\ Timed(c, h)'
    <3>1. Readable(h) /\ group'[h] = group[h]
      BY <2>1, <2>4 DEF Readable
    <3>2. CASE h = g
      BY <1>1, <1>2, <2>1, <3>1, <3>2 DEF Named, Timed, OwnAt
    <3>3. CASE h # g
      <4>1. /\ byName'[group[h].name] = byName[group[h].name]
            /\ nameTtl'[group[h].name] = nameTtl[group[h].name]
        BY <1>0, <1>1, <1>2, <2>1, <2>2, <3>1, <3>3
      <4> QED
        BY <1>1, <1>2, <2>1, <3>1, <3>3, <4>1 DEF Named, Timed, OwnAt
    <3> QED
      BY <3>2, <3>3
  <2> QED
    BY <2>3, <2>4 DEF NamesHold
<1>5. CASE RenameSet(c)
  <2>1. /\ pc[c] = "rn_set" /\ pc'[c] = "arm_name" /\ loc'[c] = [loc[c] EXCEPT !.ret = "rn_list"]
        /\ UNCHANGED group
        /\ byName' = [byName EXCEPT ![n] = g] /\ nameTtl' = [nameTtl EXCEPT ![n] = "none"]
    BY <1>0, <1>5 DEF RenameSet, Enter, CallsTyped
  <2>2. loc'[c].g = g /\ loc'[c].nm = n /\ loc'[c].ttl = loc[c].ttl
    BY <1>0, <2>1 DEF LocalRecord
  <2>3. Held(c)'
    BY <1>0, <1>1, <2>1, <2>2 DEF Held
  <2>4. ASSUME NEW h \in GroupId, Readable(h)' PROVE Named(c, h)' /\ Timed(c, h)'
    <3>1. Readable(h) /\ group'[h] = group[h]
      BY <2>1, <2>4 DEF Readable
    <3>2. CASE h = g
      <4>1. group[h].name = n /\ loc[c].ttl = group[h].ttl /\ (h \in recArmed <=> group[h].ttl # 0)
        BY <1>2, <2>1, <3>1, <3>2 DEF Named, Timed, OwnAt
      <4>2. byName'[n] = h /\ nameTtl'[n] = "none"
        BY <1>0, <1>1, <2>1, <3>2
      <4> QED
        BY <1>1, <2>1, <2>2, <3>1, <3>2, <4>1, <4>2 DEF Named, Timed, OwnAt
    <3>3. CASE h # g
      <4>1. /\ byName'[group[h].name] = byName[group[h].name]
            /\ nameTtl'[group[h].name] = nameTtl[group[h].name]
        BY <1>0, <1>1, <1>2, <2>1, <3>1, <3>3
      <4> QED
        BY <1>1, <1>2, <2>1, <2>2, <3>1, <3>3, <4>1 DEF Named, Timed, OwnAt
    <3> QED
      BY <3>2, <3>3
  <2> QED
    BY <2>3, <2>4 DEF NamesHold
<1> QED
  BY <1>3, <1>4, <1>5

(* A cascade drops the name its group had when it was read, which has not  *)
(* become another group's.                                                 *)
LEMMA DroppingKeeps ==
  ASSUME IInv, Known, NEW c \in Proc, NamesHold(c), CascadeName(c) \/ CascadeRecord(c)
  PROVE  NamesHold(c)'
<1>0. /\ CallsTyped /\ loc[c] \in LocalRecord /\ Prepared(pc[c], loc[c])
      /\ byName \in [Name -> GroupId \cup {NoId}] /\ nameTtl = [n \in Name |-> nameTtl[n]]
  BY LocTyped DEF IInv, TypeOK, GroupsTyped
<1> DEFINE g == loc[c].g
           n == loc[c].nm
<1> USE DEF CarryLabels, Found, Hunting
<1>1. /\ g \in GroupId /\ NoId \notin GroupId /\ pc[c] \in {"cd_name", "cd_record"}
      /\ n \in Name /\ byName[n] \in {g, NoId}
  BY <1>0 DEF CascadeName, CascadeRecord, Next1, Prepared, NamesHold, Held, NoId, GroupId
<1>2. CASE CascadeName(c)
  <2>1. /\ pc[c] = "cd_name" /\ pc'[c] = "cd_record" /\ loc'[c] = loc[c]
        /\ UNCHANGED <<group, recArmed>>
        /\ byName' = [byName EXCEPT ![n] = NoId] /\ nameTtl' = [nameTtl EXCEPT ![n] = "none"]
    BY <1>0, <1>2 DEF CascadeName, Next1, Goto, CallsTyped
  <2>2. Held(c)'
    BY <1>0, <1>1, <2>1 DEF NamesHold, Held
  <2>3. ASSUME NEW h \in GroupId, Readable(h)' PROVE Named(c, h)' /\ Timed(c, h)'
    <3>1. Readable(h) /\ group'[h] = group[h]
      BY <2>1, <2>3 DEF Readable
    <3>2. Named(c, h) /\ Timed(c, h) /\ group[h].name \in Name /\ byName[group[h].name] = h
      BY <2>1, <3>1, NamesTyped DEF NamesHold, Named, OwnAt
    <3>3. CASE h = g
      BY <2>1, <3>1, <3>2, <3>3 DEF Named, Timed, OwnAt
    <3>4. CASE h # g
      <4>1. /\ byName'[group[h].name] = byName[group[h].name]
            /\ nameTtl'[group[h].name] = nameTtl[group[h].name]
        BY <1>0, <1>1, <2>1, <3>2, <3>4
      <4> QED
        BY <2>1, <3>1, <3>2, <3>4, <4>1 DEF Named, Timed, OwnAt
    <3> QED
      BY <3>3, <3>4
  <2> QED
    BY <2>2, <2>3 DEF NamesHold
<1>3. CASE CascadeRecord(c)
  <2>1. /\ pc[c] = "cd_record" /\ pc'[c] = "cd_all" /\ loc'[c] = loc[c]
        /\ group' = [group EXCEPT ![g].has = group[g].has \cap {"callout_enabled"}]
        /\ recArmed' \in {recArmed, recArmed \ {g}}
        /\ UNCHANGED <<byName, nameTtl>>
    BY <1>0, <1>3 DEF CascadeRecord, Next1, Goto, CallsTyped
  <2>2. Held(c)'
    BY <2>1 DEF NamesHold, Held
  <2>3. ASSUME NEW h \in GroupId, Readable(h)' PROVE Named(c, h)' /\ Timed(c, h)'
    <3>1. h # g /\ group'[h] = group[h]
      BY <2>1, <2>3 DEF Readable, GroupMandatory, IInv, TypeOK, GroupsTyped
    <3>2. Readable(h)
      BY <2>3, <3>1 DEF Readable
    <3>3. Named(c, h) /\ Timed(c, h)
      BY <3>2 DEF NamesHold
    <3> QED
      BY <2>1, <3>1, <3>3 DEF Named, Timed, OwnAt
  <2> QED
    BY <2>2, <2>3 DEF NamesHold
<1> QED
  BY <1>2, <1>3

LEMMA LNextNames ==
  ASSUME NEW c \in Proc, OneCaller(c), ~TightTtl
  PROVE  IInv /\ Known /\ SweepInv /\ GoneInv /\ NameInv(c) /\ [LNext]_vars => NameInv(c)'
<1> SUFFICES ASSUME IInv, Known, SweepInv, GoneInv, NameInv(c), [LNext]_vars, faults' = 0
             PROVE  NamesHold(c)'
  BY DEF NameInv
<1>0. faults \in Nat
  BY Bounds DEF IInv, TypeOK, CountsTyped
<1>1. CASE Call(c)
  <2>1. faults' >= faults /\ ~Fault(c)
    BY <1>0, <1>1, CallAlone DEF Fault
  <2>2. NamesHold(c)
    <3>1. faults = 0
      BY <1>0, <2>1
    <3> QED
      BY <3>1 DEF NameInv
  <2>3. CASE ArmRecord(c) \/ ArmName(c) \/ IndexGroup(c)
    BY <2>2, <2>3, ArmingKeeps
  <2>4. CASE WriteGroup(c) \/ PatchTtl(c)
    BY <2>2, <2>4, ConfiguringKeeps
  <2>5. CASE RenameRecord(c) \/ RenameDrop(c) \/ RenameSet(c)
    BY <2>2, <2>5, RenamingKeeps
  <2>6. CASE CascadeName(c) \/ CascadeRecord(c)
    BY <2>2, <2>6, DroppingKeeps
  <2>7. CASE GroupsStay
    BY <1>1, <2>1, <2>2, <2>3, <2>4, <2>5, <2>6, <2>7, CallCarriesOn, CallTakesUp, MovingKeeps
       DEF NamesHold
  <2> QED
    BY <1>1, <2>3, <2>4, <2>5, <2>6, <2>7, CallLeavesGroups
<1>2. CASE Expire
  <2>1. faults' = faults
    BY <1>2 DEF Expire, ExpireRecord, ExpireName, others
  <2> QED
    BY <1>2, <2>1, ExpiringKeeps DEF NameInv
<1>3. CASE ~Call(c) /\ ~Expire
  BY <1>3, OthersStay, MovingKeeps DEF NameInv
<1> QED
  BY <1>1, <1>2, <1>3

LEMMA InitNames == ASSUME NEW c \in Proc PROVE Init => NameInv(c) /\ GoneInv
<1> SUFFICES ASSUME Init PROVE NamesHold(c) /\ GoneInv
  BY DEF NameInv
<1>1. PICK ng \in 0 .. MaxGroups :
        /\ SeedName \in [1 .. ng -> Name]
        /\ \A g, h \in 1 .. ng : SeedName[g] = SeedName[h] => g = h
  BY SeedAssumption
<1>2. DOMAIN SeedName = 1 .. ng
  BY <1>1
<1>3. \A p \in Proc : pc[p] = "idle"
  BY DEF Init
<1>4. Held(c) /\ GoneInv
  BY <1>3, SweeperAssumption DEF Held, GoneInv, GoneLabels, Found, Hunting
<1>5. ASSUME NEW g \in GroupId, Readable(g) PROVE Named(c, g) /\ Timed(c, g)
  <2>1. g \in 1 .. ng /\ group[g].name = SeedName[g] /\ group[g].ttl = 1 /\ g \in recArmed
    <3>1. group[g] = IF g \in DOMAIN SeedName
            THEN [has |-> GroupField \ {"last_activity_at"}, name |-> SeedName[g], ttl |-> 1]
            ELSE NoGroup
      BY DEF Init
    <3>2. recArmed = DOMAIN SeedName
      BY DEF Init
    <3> QED
      BY <1>2, <1>5, <3>1, <3>2 DEF NoGroup, Readable, GroupMandatory
  <2>2. byName[SeedName[g]] = g /\ g # NoId /\ SeedName[g] \in Name
    <3> DEFINE k == CHOOSE h \in DOMAIN SeedName : SeedName[h] = SeedName[g]
    <3>1. SeedName[g] \in Name /\ g \in DOMAIN SeedName
      BY <1>1, <1>2, <2>1
    <3>2. k \in DOMAIN SeedName /\ SeedName[k] = SeedName[g]
      BY <3>1, Zenon
    <3>3. k = g
      BY <1>1, <1>2, <2>1, <3>2
    <3>4. byName[SeedName[g]] = k
      BY <3>1, Zenon DEF Init
    <3> QED
      BY <1>2, <2>1, <3>1, <3>3, <3>4 DEF NoId
  <2>3. nameTtl[SeedName[g]] = "armed"
    BY <2>2 DEF Init
  <2> QED
    BY <1>3, <2>1, <2>2, <2>3 DEF Named, Timed, OwnAt, CarryLabels
<1> QED
  BY <1>4, <1>5 DEF NamesHold

(* With one API caller, next to any number of sweepers, the two TTLs of a  *)
(* group that lives run as configured once the calls on it are over, as    *)
(* long as no command fails and no key expires between two EXPIREs.        *)
THEOREM OneCallerTtlAsConfigured ==
  ASSUME NEW c \in Proc, OneCaller(c), ~TightTtl
  PROVE  LSpec => [](faults = 0 => TtlAsConfigured)
<1>1. Init => IInv /\ Known /\ SweepInv /\ GoneInv /\ NameInv(c)
  BY InitTyped, InitDirected, InitSpares, InitNames
<1>2. IInv /\ Known /\ SweepInv /\ GoneInv /\ NameInv(c) /\ [LNext]_vars
        => IInv' /\ Known' /\ SweepInv' /\ GoneInv' /\ NameInv(c)'
  BY LNextTyped, LNextSpares, LNextGone, LNextNames
<1>3. NameInv(c) => (faults = 0 => TtlAsConfigured)
  <2> SUFFICES ASSUME NameInv(c), faults = 0, NEW g \in LiveQuiet
               PROVE  /\ g \in recArmed <=> group[g].ttl # 0
                      /\ nameTtl[group[g].name] = IF group[g].ttl = 0 THEN "none" ELSE "armed"
    BY DEF TtlAsConfigured
  <2>1. Timed(c, g) /\ (pc[c] = "idle" \/ loc[c].g # g)
    BY DEF LiveQuiet, Quiet, NameInv, NamesHold
  <2> QED
    BY <2>1 DEF Timed, OwnAt
<1> QED
  BY <1>1, <1>2, <1>3, PTL DEF LSpec
-----------------------------------------------------------------------------
(* The copies of the name that the routes of a group carry, with one API   *)
(* caller and until a command fails: a rename leaves the old name only on  *)
(* the routes it has yet to list or to write.                              *)

BehindLabels == {"arm_name", "rn_drop", "rn_set", "rn_list", "rn_scan", "rn_routes"}

Behind(c, g, r) ==
  \/ OwnAt(c, g, {"rn_drop", "rn_set", "rn_list"})
  \/ OwnAt(c, g, {"arm_name"}) /\ loc[c].ret = "rn_list"
  \/ OwnAt(c, g, {"rn_scan"}) /\ r \in loc[c].todo \cup loc[c].done
  \/ OwnAt(c, g, {"rn_routes"}) /\ r \in loc[c].done

Copied(c, g) ==
  /\ \A r \in inGroup[g] : route[r].gname = group[g].name \/ Behind(c, g, r)
  /\ OwnAt(c, g, {"rn_scan"}) => loc[c].todo \subseteq inGroup[g]
  /\ OwnAt(c, g, {"cr_group"}) => route[loc[c].r].gname = group[g].name

CopyInv(c) == faults = 0 => \A g \in GroupId : Readable(g) => Copied(c, g)

(* A step that neither renames group g nor files a route for it            *)
CopiesStay(g) ==
  /\ group'[g].name = group[g].name /\ inGroup'[g] \subseteq inGroup[g]
  /\ \A r \in RouteId : route'[r].gname = route[r].gname

(* and that is no step of a rename.                                        *)
OffCopies(c) ==
  \/ pc'[c] = pc[c] /\ loc'[c] = loc[c] /\ UNCHANGED inGroup
  \/ pc[c] \notin BehindLabels /\ pc'[c] \notin {"rn_scan", "cr_group"}

LEMMA StayingCopied ==
  ASSUME IInv, FiledInv, NEW c \in Proc, NEW g \in GroupId, Copied(c, g), CopiesStay(g),
         \/ pc'[c] = pc[c] /\ loc'[c] = loc[c] /\ inGroup'[g] = inGroup[g]
         \/ pc[c] \notin BehindLabels /\ pc'[c] \notin {"rn_scan", "cr_group"}
  PROVE  Copied(c, g)'
<1>1. /\ inGroup[g] \subseteq RouteId
      /\ pc[c] = "cr_group" => loc[c].r \in RouteId
  BY LocTyped DEF IInv, TypeOK, RoutesTyped, Prepared
<1>2. CASE pc'[c] = pc[c] /\ loc'[c] = loc[c] /\ inGroup'[g] = inGroup[g]
  BY <1>1, <1>2 DEF Copied, CopiesStay, Behind, OwnAt
<1>3. CASE pc[c] \notin BehindLabels /\ pc'[c] \notin {"rn_scan", "cr_group"}
  <2>1. \A r : ~Behind(c, g, r)
    BY <1>3 DEF Behind, OwnAt, BehindLabels
  <2> QED
    BY <1>1, <1>3, <2>1 DEF Copied, CopiesStay, OwnAt
<1> QED
  BY <1>2, <1>3

(* The calls that keep a group's name, a route's copy and the listing      *)
LEMMA CallKeepsCopies ==
  ASSUME IInv, NEW p \in Proc, Call(p), NEW g \in GroupId
  PROVE  \/ CopiesStay(g)
         \/ WriteGroup(p) \/ RenameRecord(p) \/ RenameRoute(p) \/ WriteRoute(p) \/ IndexInGroup(p)
<1> SUFFICES ASSUME ~WriteGroup(p), ~RenameRecord(p), ~RenameRoute(p), ~WriteRoute(p),
                    ~IndexInGroup(p)
             PROVE  CopiesStay(g)
  OBVIOUS
<1>1. group'[g].name = group[g].name
  <2>1. \/ UNCHANGED group
        \/ PatchTtl(p) \/ PatchFlags(p) \/ HitGroup(p) \/ CascadeRecord(p)
    BY Frame, Zenon
  <2> QED
    <3>1. CASE UNCHANGED group \/ PatchTtl(p)
      BY <3>1 DEF PatchTtl, IInv, TypeOK, GroupsTyped
    <3>2. CASE PatchFlags(p) \/ HitGroup(p)
      <4>1. PICK fields : \/ group' = group
                          \/ group' = [group EXCEPT ![loc[p].g].has = @ \cup fields]
        BY <3>2, Zenon DEF PatchFlags, HitGroup
      <4> QED
        BY <4>1 DEF IInv, TypeOK, GroupsTyped
    <3>3. CASE CascadeRecord(p)
      BY <3>3 DEF CascadeRecord, IInv, TypeOK, GroupsTyped
    <3> QED
      BY <2>1, <3>1, <3>2, <3>3
<1>2. inGroup'[g] \subseteq inGroup[g]
  <2>1. UNCHANGED inGroup \/ StripInGroup(p) \/ CascadeMembers(p)
    BY Frame, Zenon
  <2> QED
    BY <2>1 DEF StripInGroup, CascadeMembers, IInv, TypeOK, RoutesTyped
<1>3. ASSUME NEW r \in RouteId PROVE route'[r].gname = route[r].gname
  <2>1. \/ UNCHANGED route
        \/ HitRoute(p) \/ UpdatePattern(p) \/ UpdateArtifact(p) \/ StripRecord(p)
    BY Frame, Zenon
  <2> QED
    <3>1. CASE UNCHANGED route \/ HitRoute(p)
      BY <3>1 DEF HitRoute, IInv, TypeOK, RoutesTyped
    <3>2. CASE UpdatePattern(p)
      BY <3>2 DEF UpdatePattern, IInv, TypeOK, RoutesTyped
    <3>3. CASE UpdateArtifact(p)
      BY <3>3 DEF UpdateArtifact, IInv, TypeOK, RoutesTyped
    <3>4. CASE StripRecord(p)
      BY <3>4 DEF StripRecord, IInv, TypeOK, RoutesTyped
    <3> QED
      BY <2>1, <3>1, <3>2, <3>3, <3>4
<1> QED
  BY <1>1, <1>2, <1>3 DEF CopiesStay

(* The calls that are no part of a rename                                  *)
LEMMA CallOffCopies ==
  ASSUME IInv, NEW c \in Proc, Call(c)
  PROVE  \/ OffCopies(c)
         \/ ArmName(c) \/ RenameDrop(c) \/ RenameSet(c) \/ RenameRecord(c) \/ RenameRoute(c)
         \/ ListRoutes(c) \/ ScanRoutes(c) \/ WriteRoute(c) \/ Fault(c)
<1>0. CallsTyped /\ loc[c] \in LocalRecord /\ Prepared(pc[c], loc[c])
  BY LocTyped DEF IInv
<1> USE DEF BehindLabels
<1>1. CASE \/ ArmRecord(c) \/ IndexGroup(c) \/ PatchTtl(c) \/ PatchFlags(c)
           \/ HitRoute(c) \/ HitGroup(c) \/ RenameCheck(c) \/ IndexInGroup(c) \/ IndexAll(c)
           \/ IndexOwner(c) \/ UpdatePattern(c) \/ UpdateArtifact(c) \/ ClearCounters(c)
  <2>1. PICK label \in {"arm_name", "arm_record", "idle", "hit_group", "bump", "rn_record",
                        "up_path", "up_artifact", "cr_all", "cr_owner"} :
          Goto(c, label) /\ pc[c] \notin BehindLabels
    BY <1>0, <1>1, Zenon DEF ArmRecord, IndexGroup, PatchTtl, PatchFlags, HitRoute,
       HitGroup, RenameCheck, IndexInGroup, IndexAll, IndexOwner,
       UpdatePattern, UpdateArtifact, ClearCounters, Next1
  <2> QED
    BY <1>0, <2>1 DEF Goto, CallsTyped, OffCopies
<1>2. CASE \/ CreateGroup(c) \/ PatchGroup(c) \/ RefreshGroup(c) \/ Dispatch(c)
           \/ RenameGroup(c) \/ CreateRoute(c) \/ UpdateRoute(c) \/ DeleteRoute(c)
           \/ DeleteGroup(c) \/ ClearJournal(c)
  <2>1. /\ pc[c] = "idle"
        /\ \E label \in {"hit_route", "rn_check", "up_artifact", "up_list", "cd_read",
                         "cj_counters", "cg_write", "pt_flags", "pt_ttl", "arm_record",
                         "cr_list", "st_number"} : \E l : Enter(c, label, l)
    BY <1>2, Zenon DEF CreateGroup, PatchGroup, RefreshGroup, Dispatch, DeleteRoute,
       RenameGroup, CreateRoute, UpdateRoute, DeleteGroup, ClearJournal, Asked
  <2> QED
    BY <1>0, <2>1 DEF Enter, CallsTyped, OffCopies
<1>3. CASE WriteGroup(c) \/ Bump(c) \/ NextNumber(c)
  <2>1. pc[c] \notin BehindLabels /\ pc'[c] \in {"cg_index", "arm_record", "idle", "cr_write"}
    BY <1>0, <1>3, Zenon DEF WriteGroup, Bump, NextNumber, Enter, Goto, CallsTyped
  <2> QED
    BY <2>1 DEF OffCopies
<1>4. CASE Cascade(c)
  <2>1. pc[c] \in Hunting /\ pc'[c] \in {"idle", "sw_probe", "sw_release"} \cup Hunting
    BY <1>4, CascadeHunts
  <2> QED
    BY <2>1 DEF OffCopies, Hunting
<1>5. CASE SetState(c) \/ ClearState(c)
  BY <1>5 DEF SetState, ClearState, OffCopies, Asked
<1> QED
  BY <1>1, <1>2, <1>3, <1>4, <1>5 DEF Call

(* The steps that write a name or a copy of one                            *)
LEMMA WritingCopies ==
  ASSUME IInv, Known, FiledInv, NEW c \in Proc, NamesHold(c), NEW g \in GroupId,
         Readable(g), Copied(c, g),
         RenameRecord(c) \/ RenameRoute(c) \/ WriteRoute(c) \/ IndexInGroup(c)
  PROVE  Copied(c, g)'
<1>0. /\ CallsTyped /\ loc[c] \in LocalRecord /\ Prepared(pc[c], loc[c]) /\ Filed /\ InHand(c)
      /\ Named(c, g) /\ 1 .. nextRoute \subseteq RouteId
      /\ \A r \in inGroup[g] : r \in RouteId /\ Belongs(r, g)
  BY LocTyped, NumbersInRange DEF IInv, TypeOK, RoutesTyped, FiledInv, Filed, NamesHold
<1> DEFINE h == loc[c].g
           n == loc[c].nm
<1>1. CASE RenameRecord(c)
  <2>1. /\ pc[c] = "rn_record" /\ pc'[c] = "rn_drop" /\ loc'[c] = loc[c]
        /\ UNCHANGED <<route, inGroup>> /\ \A k \in GroupId : k # h => group'[k] = group[k]
    BY <1>0, <1>1 DEF RenameRecord, Next1, Goto, CallsTyped, routeVars, IInv, TypeOK, GroupsTyped
  <2>2. CASE h = g
    BY <2>1, <2>2 DEF Copied, Behind, OwnAt
  <2>3. CASE h # g
    BY <2>1, <2>3 DEF Copied, Behind, OwnAt
  <2> QED
    BY <2>2, <2>3
<1>2. CASE RenameRoute(c)
  <2>1. pc[c] = "rn_routes" /\ UNCHANGED <<group, inGroup>>
    BY <1>2 DEF RenameRoute, groupVars
  <2>2. CASE loc[c].done = {}
    <3>1. pc'[c] = "idle" /\ UNCHANGED route
      BY <1>0, <1>2, <2>2 DEF RenameRoute, Goto, CallsTyped
    <3> QED
      BY <2>1, <2>2, <3>1 DEF Copied, Behind, OwnAt
  <2>3. CASE loc[c].done # {}
    <3>1. PICK r \in loc[c].done :
            /\ Enter(c, "rn_routes", [loc[c] EXCEPT !.done = @ \ {r}])
            /\ route' = [route EXCEPT ![r].has = @ \cup {"group_name"}, ![r].gname = n]
      BY <1>2, <2>3, Zenon DEF RenameRoute
    <3>2. /\ pc'[c] = "rn_routes" /\ loc'[c].g = h /\ loc'[c].done = loc[c].done \ {r}
      BY <1>0, <3>1 DEF Enter, CallsTyped, LocalRecord
    <3>3. /\ r \in RouteId /\ Belongs(r, h)
          /\ \A s \in RouteId : route'[s].gname = IF s = r THEN n ELSE route[s].gname
      BY <1>0, <2>1, <3>1 DEF InHand, ListLabels, LocalRecord, IInv, TypeOK, RoutesTyped
    <3>4. CASE h = g
      <4>1. group[g].name = n
        BY <1>0, <2>1, <3>4 DEF Named, OwnAt, CarryLabels
      <4> QED
        BY <1>0, <2>1, <3>2, <3>3, <3>4, <4>1 DEF Copied, Behind, OwnAt
    <3>5. CASE h # g
      <4>1. r \notin inGroup[g]
        BY <1>0, <3>3, <3>5 DEF Belongs
      <4> QED
        BY <1>0, <2>1, <3>2, <3>3, <3>5, <4>1 DEF Copied, Behind, OwnAt
    <3> QED
      BY <3>4, <3>5
  <2> QED
    BY <2>2, <2>3
<1>3. CASE WriteRoute(c)
  <2>1. PICK r : r = nextRoute + 1
    OBVIOUS
  <2>2. /\ pc[c] = "cr_write" /\ pc'[c] = "cr_group" /\ loc'[c] = [loc[c] EXCEPT !.r = r]
        /\ UNCHANGED <<group, inGroup>> /\ r \in RouteId
        /\ route'[r].gname = n /\ \A s \in RouteId : s # r => route'[s] = route[s]
    BY <1>0, <1>3, <2>1, Bounds
    DEF WriteRoute, Enter, CallsTyped, groupVars, IInv, TypeOK, RoutesTyped, RouteId
  <2>3. loc'[c].g = h /\ loc'[c].r = r
    BY <1>0, <2>2 DEF LocalRecord
  <2>4. r \notin inGroup[g]
    BY <1>0, <2>1, Bounds DEF Belongs, IInv, TypeOK, RoutesTyped
  <2>5. \A s \in inGroup'[g] : route'[s].gname = group'[g].name
    BY <1>0, <2>2, <2>4 DEF Copied, Behind, OwnAt
  <2>6. h = g => route'[r].gname = group'[g].name
    BY <1>0, <2>2 DEF Named, OwnAt, CarryLabels
  <2> QED
    BY <2>2, <2>3, <2>5, <2>6 DEF Copied, OwnAt
<1>4. CASE IndexInGroup(c)
  <2>1. /\ pc[c] = "cr_group" /\ pc'[c] = "cr_all" /\ UNCHANGED <<group, route>>
        /\ inGroup'[g] = IF g = h THEN inGroup[g] \cup {loc[c].r} ELSE inGroup[g]
    BY <1>0, <1>4 DEF IndexInGroup, Next1, Goto, CallsTyped, groupVars, IInv, TypeOK, RoutesTyped
  <2> QED
    BY <2>1 DEF Copied, Behind, OwnAt
<1> QED
  BY <1>1, <1>2, <1>3, <1>4

(* The steps of a rename on its way to the routes it renames: none of the  *)
(* records it lists is malformed.                                          *)
LEMMA ListingCopies ==
  ASSUME IInv, NEW c \in Proc, NEW g \in GroupId, Sound(c, g), Copied(c, g),
         CopiesStay(g),
         ArmName(c) \/ RenameDrop(c) \/ RenameSet(c) \/ ListRoutes(c) \/ ScanRoutes(c)
  PROVE  Copied(c, g)'
<1>0. /\ CallsTyped /\ loc[c] \in LocalRecord /\ Prepared(pc[c], loc[c])
      /\ inGroup[g] \subseteq RouteId
  BY LocTyped DEF IInv, TypeOK, RoutesTyped
<1>1. UNCHANGED <<inGroup, route>> /\ group'[g].name = group[g].name
  BY DEF ArmName, RenameDrop, RenameSet, ListRoutes, ScanRoutes, store, routeVars, CopiesStay
<1>2. CASE ArmName(c)
  <2>1. /\ pc[c] = "arm_name" /\ pc'[c] = loc[c].ret
        /\ loc[c].ret \in {"idle", "pt_flags", "cr_list", "rn_list", "sw_probe"}
        /\ loc[c].ret # "idle" => loc'[c] = loc[c]
    BY <1>0, <1>2 DEF ArmName, Return, Goto, CallsTyped, LocalRecord
  <2> QED
    BY <1>1, <2>1 DEF Copied, Behind, OwnAt
<1>3. CASE RenameDrop(c)
  <2>1. pc[c] = "rn_drop" /\ pc'[c] = "rn_set" /\ loc'[c] = loc[c]
    BY <1>0, <1>3 DEF RenameDrop, Next1, Goto, CallsTyped
  <2> QED
    BY <1>1, <2>1 DEF Copied, Behind, OwnAt
<1>4. CASE RenameSet(c)
  <2>1. pc[c] = "rn_set" /\ pc'[c] = "arm_name" /\ loc'[c].g = loc[c].g /\ loc'[c].ret = "rn_list"
    BY <1>0, <1>4 DEF RenameSet, Enter, CallsTyped, LocalRecord
  <2> QED
    BY <1>1, <2>1 DEF Copied, Behind, OwnAt
<1>5. CASE ListRoutes(c)
  <2>1. /\ pc[c] \in {"cr_list", "up_list", "rn_list"} /\ pc'[c] = After[pc[c]]
        /\ loc'[c].g = loc[c].g /\ loc'[c].todo = inGroup[loc[c].g]
    BY <1>0, <1>5 DEF ListRoutes, Enter, CallsTyped, LocalRecord, After
  <2>2. \/ pc[c] = "rn_list" /\ pc'[c] = "rn_scan"
        \/ pc[c] \in {"cr_list", "up_list"} /\ pc'[c] \in {"cr_scan", "up_scan"}
    BY <2>1 DEF After
  <2> QED
    BY <1>1, <2>1, <2>2 DEF Copied, Behind, OwnAt
<1>6. CASE ScanRoutes(c) /\ pc[c] # "rn_scan"
  <2>1. pc[c] \in {"cr_scan", "up_scan"}
    BY <1>6, Zenon DEF ScanRoutes, Scanned
  <2>2. pc'[c] \in {"idle", pc[c], Scanned[pc[c]]}
    BY <1>0, <1>6, Zenon DEF ScanRoutes, Enter, Goto, CallsTyped
  <2>3. pc'[c] \in {"idle", "cr_scan", "up_scan", "cr_number", "up_write"}
    BY <2>1, <2>2 DEF Scanned
  <2> QED
    BY <1>1, <2>1, <2>3 DEF Copied, Behind, OwnAt
<1>7. CASE ScanRoutes(c) /\ pc[c] = "rn_scan"
  <2>1. CASE loc[c].todo = {}
    <3>1. pc'[c] = "rn_routes" /\ loc'[c] = loc[c]
      BY <1>0, <1>7, <2>1 DEF ScanRoutes, Scanned, Goto, CallsTyped
    <3> QED
      BY <1>1, <1>7, <2>1, <3>1 DEF Copied, Behind, OwnAt
  <2>2. CASE loc[c].todo # {}
    <3>1. PICK r \in loc[c].todo :
            IF ~Intact(r)
              THEN Goto(c, "idle")
              ELSE Enter(c, "rn_scan", [loc[c] EXCEPT !.todo = @ \ {r}, !.done = @ \cup {r}])
      BY <1>7, <2>2 DEF ScanRoutes, Conflicting
    <3>2. CASE loc[c].g = g
      <4>1. Intact(r)
        BY <1>7, <3>2 DEF Copied, OwnAt, Sound
      <4>2. Enter(c, "rn_scan", [loc[c] EXCEPT !.todo = @ \ {r}, !.done = @ \cup {r}])
        BY <3>1, <4>1, Zenon
      <4>3. /\ pc'[c] = "rn_scan" /\ loc'[c].g = g
            /\ loc'[c].todo = loc[c].todo \ {r} /\ loc'[c].done = loc[c].done \cup {r}
        BY <1>0, <3>2, <4>2 DEF Enter, CallsTyped, LocalRecord
      <4> QED
        BY <1>1, <1>7, <3>2, <4>3 DEF Copied, Behind, OwnAt
    <3>3. CASE loc[c].g # g
      <4>1. CASE Goto(c, "idle")
        BY <1>0, <1>1, <1>7, <3>3, <4>1 DEF Goto, CallsTyped, Copied, Behind, OwnAt
      <4>2. CASE Enter(c, "rn_scan", [loc[c] EXCEPT !.todo = @ \ {r}, !.done = @ \cup {r}])
        <5>1. pc'[c] = "rn_scan" /\ loc'[c].g = loc[c].g
          BY <1>0, <4>2 DEF Enter, CallsTyped, LocalRecord
        <5> QED
          BY <1>1, <3>3, <5>1 DEF Copied, Behind, OwnAt
      <4> QED
        BY <3>1, <4>1, <4>2, Zenon
    <3> QED
      BY <3>2, <3>3
  <2> QED
    BY <2>1, <2>2
<1> QED
  BY <1>2, <1>3, <1>4, <1>5, <1>6, <1>7

(* The steps of the sweepers and of the store                              *)
LEMMA OthersCopies ==
  ASSUME NEW c \in Proc, OneCaller(c), IInv, Known, SweepInv, FiledInv, [LNext]_vars, ~Call(c),
         faults' = 0, NEW g \in GroupId
  PROVE  CopiesStay(g)
<1>1. ASSUME NEW s \in Proc \ {c}, Call(s) PROVE CopiesStay(g)
  <2>1. pc[s] \in StripLabels \cup LoopLabels
    BY <1>1, SweeperAway
  <2>2. /\ ~WriteGroup(s) /\ ~RenameRecord(s) /\ ~RenameRoute(s) /\ ~WriteRoute(s)
        /\ ~IndexInGroup(s)
    BY <2>1 DEF WriteGroup, RenameRecord, RenameRoute, WriteRoute, IndexInGroup, Next1
  <2> QED
    BY <1>1, <2>2, CallKeepsCopies
<1>2. ASSUME NEW s \in Sweeper, Sweep(s) PROVE CopiesStay(g)
  <2>1. UNCHANGED store
    BY <1>2, SweepAlone DEF OneCaller
  <2> QED
    BY <2>1 DEF CopiesStay, store, groupVars, routeVars
<1>3. CASE Expire
  <2>1. UNCHANGED <<route, inGroup>>
    BY <1>3 DEF Expire, ExpireRecord, ExpireName, routeVars
  <2>2. group'[g].name = group[g].name
    BY <1>3 DEF Expire, ExpireRecord, ExpireName, IInv, TypeOK, GroupsTyped
  <2> QED
    BY <2>1, <2>2 DEF CopiesStay
<1>4. CASE LeaseExpires \/ UNCHANGED vars
  BY <1>4 DEF CopiesStay, LeaseExpires, vars, store, groupVars, routeVars
<1> QED
  BY <1>1, <1>2, <1>3, <1>4 DEF LNext, Next

LEMMA CallerCopies ==
  ASSUME IInv, Known, FiledInv, NEW c \in Proc, SoundInv(c), NameInv(c), CopyInv(c), Call(c)
  PROVE  CopyInv(c)'
<1> SUFFICES ASSUME faults' = 0, NEW g \in GroupId, Readable(g)' PROVE Copied(c, g)'
  BY DEF CopyInv
<1>0. CallsTyped /\ faults = 0 /\ ~Fault(c)
  <2>1. faults \in Nat /\ faults' >= faults
    BY CallAlone, Bounds DEF IInv, TypeOK, CountsTyped
  <2> QED
    BY <2>1 DEF IInv, Fault
<1>1. CASE WriteGroup(c)
  <2>1. PICK h : h = nextGroup + 1
    OBVIOUS
  <2>2. /\ pc[c] = "cg_write" /\ pc'[c] = "cg_index" /\ UNCHANGED <<route, inGroup>>
        /\ \A k \in GroupId : k # h => group'[k] = group[k]
    BY <1>0, <1>1, <2>1 DEF WriteGroup, Enter, CallsTyped, routeVars, IInv, TypeOK, GroupsTyped
  <2>3. CASE g = h
    <3>1. \A r : ~Belongs(r, g)
      BY <2>1, <2>3, Bounds DEF Known, GroupsOpened, Belongs, IInv, TypeOK, GroupsTyped
    <3>2. inGroup[g] = {}
      BY <3>1 DEF FiledInv, Filed
    <3> QED
      BY <2>2, <3>2 DEF Copied, OwnAt
  <2>4. CASE g # h
    <3>1. Readable(g) /\ Copied(c, g)
      BY <1>0, <2>2, <2>4 DEF Readable, CopyInv
    <3> QED
      BY <2>2, <2>4, <3>1 DEF Copied, Behind, OwnAt
  <2> QED
    BY <2>3, <2>4
<1>2. CASE ~WriteGroup(c)
  <2>1. nextGroup' = nextGroup
    BY <1>2, Frame
  <2>2. Readable(g)
    BY <2>1, CallKnown, LivesOn
  <2>3. Copied(c, g) /\ Sound(c, g) /\ NamesHold(c)
    BY <1>0, <2>2 DEF CopyInv, SoundInv, NameInv
  <2>4. CASE RenameRecord(c) \/ RenameRoute(c) \/ WriteRoute(c) \/ IndexInGroup(c)
    BY <2>2, <2>3, <2>4, WritingCopies
  <2>5. CASE ~(RenameRecord(c) \/ RenameRoute(c) \/ WriteRoute(c) \/ IndexInGroup(c))
    <3>1. CopiesStay(g)
      BY <1>2, <2>5, CallKeepsCopies
    <3>2. CASE ArmName(c) \/ RenameDrop(c) \/ RenameSet(c) \/ ListRoutes(c) \/ ScanRoutes(c)
      BY <2>3, <3>1, <3>2, ListingCopies
    <3>3. CASE OffCopies(c)
      BY <2>3, <3>1, <3>3, StayingCopied DEF OffCopies
    <3> QED
      BY <1>0, <2>5, <3>2, <3>3, CallOffCopies
  <2> QED
    BY <2>4, <2>5
<1> QED
  BY <1>1, <1>2

LEMMA LNextCopies ==
  ASSUME NEW c \in Proc, OneCaller(c)
  PROVE  IInv /\ Known /\ SweepInv /\ FiledInv /\ SoundInv(c) /\ NameInv(c) /\ CopyInv(c)
           /\ [LNext]_vars => CopyInv(c)'
<1> SUFFICES ASSUME IInv, Known, SweepInv, FiledInv, SoundInv(c), NameInv(c), CopyInv(c),
                    [LNext]_vars
             PROVE  CopyInv(c)'
  OBVIOUS
<1>1. CASE Call(c)
  BY <1>1, CallerCopies
<1>2. CASE ~Call(c)
  <2> SUFFICES ASSUME faults' = 0, NEW g \in GroupId, Readable(g)' PROVE Copied(c, g)'
    BY DEF CopyInv
  <2>1. /\ faults = 0 /\ nextGroup' = nextGroup /\ inGroup'[g] = inGroup[g]
        /\ pc'[c] = pc[c] /\ loc'[c] = loc[c] /\ Known' /\ Settled
    BY <1>2, OthersSpare DEF Spared
  <2>2. Readable(g) /\ CopiesStay(g)
    BY <1>2, <2>1, LivesOn, OthersCopies
  <2> QED
    BY <2>1, <2>2, StayingCopied DEF CopyInv
<1> QED
  BY <1>1, <1>2

LEMMA InitCopies == ASSUME NEW c \in Proc PROVE Init => CopyInv(c)
<1> SUFFICES ASSUME Init, NEW g \in GroupId, Readable(g) PROVE Copied(c, g)
  BY DEF CopyInv
<1>1. PICK ng \in 0 .. MaxGroups, nr \in 0 .. MaxRoutes :
        /\ SeedName \in [1 .. ng -> Name]
        /\ SeedRoute \in [1 .. nr -> [group : 1 .. ng, pat : Pattern]]
  BY SeedAssumption
<1>2. /\ DOMAIN SeedName = 1 .. ng /\ DOMAIN SeedRoute = 1 .. nr
      /\ 1 .. nr \subseteq RouteId
  BY <1>1, Bounds DEF RouteId
<1>3. g \in DOMAIN SeedName /\ group[g].name = SeedName[g]
  <2>1. group[g] = IF g \in DOMAIN SeedName
          THEN [has |-> GroupField \ {"last_activity_at"}, name |-> SeedName[g], ttl |-> 1]
          ELSE NoGroup
    BY DEF Init
  <2> QED
    BY <2>1 DEF NoGroup, Readable, GroupMandatory
<1>4. ASSUME NEW r \in inGroup[g] PROVE route[r].gname = SeedName[g]
  <2>1. r \in DOMAIN SeedRoute /\ SeedRoute[r].group = g
    BY DEF Init
  <2>2. r \in RouteId
    BY <1>2, <2>1
  <2> QED
    BY <2>1, <2>2 DEF Init
<1>5. pc[c] = "idle"
  BY DEF Init
<1> QED
  BY <1>3, <1>4, <1>5 DEF Copied, OwnAt

(* With one API caller, next to any number of sweepers, the name of a      *)
(* group that lives leads to it and is the one its routes carry, once the  *)
(* calls on it are over, as long as no command fails and no key expires    *)
(* between two EXPIREs.                                                    *)
THEOREM OneCallerNameTracks ==
  ASSUME NEW c \in Proc, OneCaller(c), ~TightTtl
  PROVE  LSpec => [](faults = 0 => NameTracks)
<1> DEFINE Setting == IInv /\ Known /\ SweepInv /\ FiledInv /\ ReadInv /\ GoneInv
           Caller  == SoundInv(c) /\ NameInv(c) /\ CopyInv(c)
<1>1. Init => Setting /\ Caller
  <2>1. Init => ReadInv
    BY DEF Init, ReadInv, ReadLabels
  <2> QED
    BY <2>1, InitTyped, InitDirected, InitSpares, InitFiled, InitSound, InitNames, InitCopies
<1>2. Setting /\ Caller /\ [LNext]_vars => Setting' /\ Caller'
  BY LNextTyped, LNextSpares, LNextFiled, LNextRead, LNextSound, LNextGone, LNextNames,
     LNextCopies
<1>3. NameInv(c) /\ CopyInv(c) => (faults = 0 => NameTracks)
  <2> SUFFICES ASSUME NameInv(c), CopyInv(c), faults = 0, NEW g \in LiveQuiet
               PROVE  /\ byName[group[g].name] = g
                      /\ \A r \in inGroup[g] : route[r].gname = group[g].name
    BY DEF NameTracks
  <2>1. Named(c, g) /\ Copied(c, g) /\ (pc[c] = "idle" \/ loc[c].g # g)
    BY DEF LiveQuiet, Quiet, NameInv, NamesHold, CopyInv
  <2> QED
    BY <2>1 DEF Named, Copied, Behind, OwnAt
<1> QED
  BY <1>1, <1>2, <1>3, PTL DEF LSpec
-----------------------------------------------------------------------------
(* What is left of a group: as long as it has a key, the sweepers will     *)
(* find it through a route, or some call is on its way to delete the key.  *)
(* Of the calls, only a dispatch, a PUT of group state and the deletion of *)
(* a single route can part the keys of a group from its routes; nor does   *)
(* a group that never had a route lead a sweeper anywhere.                 *)

NoLitter ==
  /\ \A p \in Proc : Ops[p] \cap {"dispatch", "set_state", "delete_route"} = {}
  /\ \A g \in DOMAIN SeedName : \E r \in DOMAIN SeedRoute : SeedRoute[r].group = g

ToData     == EmptyingLabels \cup {"cd_data"}
ToCounters == ToData \cup {"cd_counters", "cr_write", "cr_group", "cr_all"}
ToMembers  == EmptyingLabels \cup {"cr_all"}
ToKv       == {"st_all", "st_owner", "st_kv"}

GroupData(g) == {"gkv", "journal"} \X {g}
HasKv(r) == <<"kv", r>> \in spaces

Anchored(g) == \E r \in routeAll : route[r].group = g

(* Call p has group g, or takes the keys of route r, in hand.              *)
Hands(p, g, labels) == pc[p] \in labels /\ loc[p].g = g
Takes(p, r) == pc[p] \in ToKv /\ loc[p].r = r

Tended(g, labels) == Anchored(g) \/ \E p \in Proc : Hands(p, g, labels)

Followed(g) ==
  /\ counter[g] # 0 => Tended(g, ToCounters)
  /\ inGroup[g] # {} => Tended(g, ToMembers)
  /\ spaces \cap GroupData(g) # {} => Tended(g, ToData)

FollowedKv(r) ==
  HasKv(r) =>
    /\ r \in 1 .. nextRoute /\ ~At(r, IndexLabels)
    /\ r \in inGroup[route[r].group] \/ \E p \in Proc : Takes(p, r)

(* A cascade has yet to come to every member of the group with keys.       *)
Carried(p) ==
  /\ pc[p] \in StripLabels => loc[p].cd # "none"
  /\ pc[p] \in EmptyingLabels \ {"cd_list"} => \A r \in inGroup[loc[p].g] : HasKv(r) =>
       r \in loc[p].todo \/ (r = loc[p].r /\ pc[p] \in StripLabels \ {"st_record"})
  /\ pc[p] = "cd_members" => loc[p].todo = {}

Tidy ==
  /\ \A g \in GroupId : Followed(g)
  /\ \A r \in RouteId : FollowedKv(r)
  /\ \A p \in Proc : Carried(p)

TidyInv == faults = 0 => Tidy

(* Call p goes on with the group, or leaves it to the sweepers.            *)
Goes(p, g, labels) == Hands(p, g, labels) => Hands(p, g, labels)' \/ Anchored(g)'

(* A step of call p parts no key from the routes.                          *)
TidyStep(p) ==
  /\ spaces' \subseteq spaces
  /\ \A r \in routeAll : r \in routeAll' \/ Hands(p, route[r].group, EmptyingLabels)'
  /\ \A g \in GroupId :
       /\ counter'[g] # 0 => \/ Hands(p, g, ToCounters)'
                             \/ counter[g] # 0 /\ Goes(p, g, ToCounters)
       /\ inGroup'[g] # {} => \/ Hands(p, g, ToMembers)'
                              \/ inGroup[g] # {} /\ Goes(p, g, ToMembers)
       /\ spaces' \cap GroupData(g) # {} => Goes(p, g, ToData)
       /\ \A r \in inGroup'[g] : r \in inGroup[g] \/ ~HasKv(r)
  /\ pc'[p] \in IndexLabels => \/ pc[p] \in IndexLabels /\ loc'[p].r = loc[p].r
                               \/ loc'[p].r = nextRoute + 1
  /\ \A r \in RouteId : HasKv(r)' =>
       /\ r \in inGroup[route[r].group] => r \in inGroup'[route[r].group] \/ Takes(p, r)'
       /\ Takes(p, r) => Takes(p, r)'
  /\ Carried(p)'

LEMMA TendedStays ==
  ASSUME FiledInv, Placed, NEW p \in Proc, Elsewhere(p), TidyStep(p), NEW g, NEW labels,
         EmptyingLabels \subseteq labels, Tended(g, labels), Goes(p, g, labels)
  PROVE  Tended(g, labels)'
<1>1. ASSUME NEW r \in routeAll, route[r].group = g PROVE Tended(g, labels)'
  <2>1. route'[r].group = g
    BY <1>1 DEF FiledInv, Filed, Placed
  <2>2. r \in routeAll' \/ Hands(p, g, EmptyingLabels)'
    BY <1>1, <2>1 DEF TidyStep, Hands
  <2> QED
    BY <2>1, <2>2 DEF Tended, Anchored, Hands
<1>2. ASSUME NEW q \in Proc, Hands(q, g, labels) PROVE Tended(g, labels)'
  <2>1. CASE q = p
    BY <1>2, <2>1 DEF Goes, Tended
  <2>2. CASE q # p
    BY <1>2, <2>2 DEF Hands, Elsewhere, Tended
  <2> QED
    BY <2>1, <2>2
<1> QED
  BY <1>1, <1>2 DEF Tended, Anchored

LEMMA TidyStepKeeps ==
  ASSUME IInv, FiledInv, Tidy, Placed, NEW p \in Proc, Elsewhere(p), TidyStep(p)
  PROVE  Tidy'
<1>1. ASSUME NEW g \in GroupId PROVE Followed(g)'
  <2>0. /\ EmptyingLabels \subseteq ToData /\ EmptyingLabels \subseteq ToCounters
        /\ EmptyingLabels \subseteq ToMembers /\ Followed(g)
    BY DEF ToData, ToCounters, ToMembers, Tidy
  <2>1. counter'[g] # 0 => Tended(g, ToCounters)'
    <3>1. Hands(p, g, ToCounters)' => Tended(g, ToCounters)'
      BY DEF Tended
    <3> QED
      BY <2>0, <3>1, TendedStays DEF Followed, TidyStep
  <2>2. inGroup'[g] # {} => Tended(g, ToMembers)'
    <3>1. Hands(p, g, ToMembers)' => Tended(g, ToMembers)'
      BY DEF Tended
    <3> QED
      BY <2>0, <3>1, TendedStays DEF Followed, TidyStep
  <2>3. spaces' \cap GroupData(g) # {} => Tended(g, ToData)'
    <3>1. spaces' \cap GroupData(g) # {} => spaces \cap GroupData(g) # {}
      BY DEF TidyStep
    <3> QED
      BY <2>0, <3>1, TendedStays DEF Followed, TidyStep
  <2> QED
    BY <2>1, <2>2, <2>3 DEF Followed, GroupData
<1>2. ASSUME NEW r \in RouteId PROVE FollowedKv(r)'
  <2> SUFFICES ASSUME HasKv(r)'
               PROVE  /\ r \in 1 .. nextRoute' /\ ~At(r, IndexLabels)'
                      /\ r \in inGroup'[route'[r].group] \/ \E q \in Proc : Takes(q, r)'
    BY DEF FollowedKv
  <2>1. /\ r \in 1 .. nextRoute /\ ~At(r, IndexLabels)
        /\ r \in inGroup[route[r].group] \/ \E q \in Proc : Takes(q, r)
    BY DEF Tidy, FollowedKv, HasKv, TidyStep
  <2>2. r \in 1 .. nextRoute' /\ route'[r].group = route[r].group
    BY <2>1 DEF Placed
  <2>3. r # nextRoute + 1
    BY <2>1, Bounds DEF IInv, TypeOK, RoutesTyped
  <2>4. ~At(r, IndexLabels)'
    BY <2>1, <2>3 DEF At, TidyStep, Elsewhere
  <2>5. ASSUME NEW q \in Proc, Takes(q, r) PROVE Takes(q, r)'
    BY <2>5 DEF TidyStep, Takes, Elsewhere
  <2>6. r \in inGroup[route[r].group] => r \in inGroup'[route[r].group] \/ Takes(p, r)'
    BY DEF TidyStep
  <2> QED
    BY <2>1, <2>2, <2>4, <2>5, <2>6
<1>3. ASSUME NEW q \in Proc PROVE Carried(q)'
  <2>1. CASE q = p
    BY <2>1 DEF TidyStep
  <2>2. CASE q # p
    <3>1. pc'[q] = pc[q] /\ loc'[q] = loc[q] /\ Carried(q)
      BY <2>2 DEF Elsewhere, Tidy
    <3>2. \A r : HasKv(r)' => HasKv(r)
      BY DEF HasKv, TidyStep
    <3>3. pc[q] \in EmptyingLabels => loc[q].g \in GroupId
      BY LocTyped DEF IInv, Prepared, EmptyingLabels
    <3>4. pc[q] \in EmptyingLabels =>
            \A r \in inGroup'[loc[q].g] : r \in inGroup[loc[q].g] \/ ~HasKv(r)
      BY <3>3 DEF TidyStep
    <3> QED
      BY <3>1, <3>2, <3>4 DEF Carried
  <2> QED
    BY <2>1, <2>2
<1> QED
  BY <1>1, <1>2, <1>3 DEF Tidy

LEMMA ClearTidies ==
  ASSUME NEW p \in Proc, pc[p] \notin ToCounters,
         pc'[p] \notin IndexLabels \cup (EmptyingLabels \ {"cd_list"}),
         UNCHANGED <<inGroup, routeAll>>, spaces' \subseteq spaces,
         \A g \in GroupId : counter'[g] \in {counter[g], 0}
  PROVE  TidyStep(p)
<1> USE DEF EmptyingLabels
<1>1. \A g : Goes(p, g, ToCounters) /\ Goes(p, g, ToMembers) /\ Goes(p, g, ToData)
  BY DEF Goes, Hands, ToCounters, ToMembers, ToData
<1>2. \A r : ~Takes(p, r)
  BY DEF Takes, ToKv, ToCounters, ToData
<1>3. Carried(p)'
  BY DEF Carried
<1> QED
  BY <1>1, <1>2, <1>3 DEF TidyStep

(* The number, the record and the indexes of a new route                   *)
LEMMA FilingTidies ==
  ASSUME IInv, FiledInv, Tidy, Placed, NEW p \in Proc,
         NextNumber(p) \/ WriteRoute(p) \/ IndexInGroup(p) \/ IndexAll(p)
  PROVE  TidyStep(p)
<1>0. /\ CallsTyped /\ loc[p] \in LocalRecord /\ Prepared(pc[p], loc[p])
      /\ pc[p] \in IndexLabels => Belongs(loc[p].r, loc[p].g)
  BY LocTyped DEF IInv, FiledInv, InHand, HandLabels
<1> USE DEF EmptyingLabels, ToCounters, ToMembers, ToData, Hands, Goes
<1>1. CASE NextNumber(p)
  <2>1. /\ pc[p] = "cr_number" /\ pc'[p] = "cr_write" /\ loc'[p].g = loc[p].g
        /\ UNCHANGED <<inGroup, routeAll, spaces>>
        /\ \A g \in GroupId : g # loc[p].g => counter'[g] = counter[g]
    BY <1>0, <1>1
    DEF NextNumber, Enter, CallsTyped, LocalRecord, routeVars, IInv, TypeOK, CountsTyped
  <2> QED
    BY <2>1 DEF TidyStep, Takes, ToKv, Carried
<1>2. CASE WriteRoute(p)
  <2>1. /\ pc[p] = "cr_write" /\ pc'[p] = "cr_group"
        /\ loc'[p].g = loc[p].g /\ loc'[p].r = nextRoute + 1
        /\ UNCHANGED <<inGroup, routeAll, spaces, counter>>
    BY <1>0, <1>2 DEF WriteRoute, Enter, CallsTyped, LocalRecord
  <2> QED
    BY <2>1 DEF TidyStep, Takes, ToKv, Carried
<1>3. CASE IndexInGroup(p)
  <2>1. /\ pc[p] = "cr_group" /\ pc'[p] = "cr_all" /\ loc'[p] = loc[p]
        /\ UNCHANGED <<routeAll, spaces, counter>>
        /\ \A g \in GroupId : inGroup'[g] = IF g = loc[p].g THEN inGroup[g] \cup {loc[p].r}
                                                           ELSE inGroup[g]
    BY <1>0, <1>3 DEF IndexInGroup, Next1, Goto, CallsTyped, IInv, TypeOK, RoutesTyped
  <2>2. ~HasKv(loc[p].r)
    BY <1>0, <2>1 DEF Tidy, FollowedKv, At, Prepared
  <2>3. \A r \in RouteId :
          HasKv(r)' /\ r \in inGroup[route[r].group] => r \in inGroup'[route[r].group]
    <3>1. \A r \in RouteId : HasKv(r)' => route[r].group \in GroupId
      BY <2>1 DEF Tidy, FollowedKv, HasKv, IInv, TypeOK, RoutesTyped
    <3> QED
      BY <2>1, <3>1
  <2> QED
    BY <2>1, <2>2, <2>3 DEF TidyStep, Takes, ToKv, Carried
<1>4. CASE IndexAll(p)
  <2>1. /\ pc[p] = "cr_all" /\ pc'[p] = "cr_owner" /\ loc'[p] = loc[p]
        /\ UNCHANGED <<inGroup, spaces, counter, route>> /\ routeAll' = routeAll \cup {loc[p].r}
    BY <1>0, <1>4 DEF IndexAll, Next1, Goto, CallsTyped
  <2>2. Anchored(loc[p].g)'
    BY <1>0, <2>1 DEF Anchored, Belongs
  <2> QED
    BY <2>1, <2>2 DEF TidyStep, Takes, ToKv, Carried
<1> QED
  BY <1>1, <1>2, <1>3, <1>4

(* The deletion of a route's keys by a cascade                             *)
LEMMA StrippingTidies ==
  ASSUME IInv, FiledInv, Tidy, Placed, NEW p \in Proc,
         \/ StripNumber(p) \/ StripInGroup(p) \/ StripAll(p) \/ StripOwner(p) \/ StripKv(p)
         \/ StripRecord(p)
  PROVE  TidyStep(p)
<1> USE DEF EmptyingLabels
<1>0. /\ CallsTyped /\ loc[p] \in LocalRecord /\ Prepared(pc[p], loc[p])
      /\ pc[p] \in StripLabels /\ Belongs(loc[p].r, loc[p].g) /\ Carried(p)
  <2>1. pc[p] \in StripLabels
    BY Zenon DEF StripNumber, StripInGroup, StripAll, StripOwner, StripKv, StripRecord, Next1
  <2> QED
    BY <2>1, LocTyped DEF IInv, FiledInv, InHand, HandLabels, Tidy
<1>1. /\ loc'[p] = loc[p]
      /\ pc[p] = "st_number" => pc'[p] = "st_group"
      /\ pc[p] = "st_group" => pc'[p] = "st_all"
      /\ pc[p] = "st_all" => pc'[p] = "st_owner"
      /\ pc[p] = "st_owner" => pc'[p] = "st_kv"
      /\ pc[p] = "st_kv" => pc'[p] = "st_record"
      /\ pc[p] = "st_record" => pc'[p] = "cd_unlist"
  <2>1. CASE StripNumber(p) \/ StripInGroup(p) \/ StripAll(p) \/ StripOwner(p) \/ StripKv(p)
    BY <1>0, <2>1 DEF StripNumber, StripInGroup, StripAll, StripOwner, StripKv, Next1, Goto,
       CallsTyped
  <2>2. CASE StripRecord(p)
    BY <1>0, <2>2 DEF StripRecord, Enter, CallsTyped, Carried
  <2> QED
    BY <2>1, <2>2
<1>2. UNCHANGED counter
  BY DEF StripNumber, StripInGroup, StripAll, StripOwner, StripKv, StripRecord
<1>3. /\ spaces' = IF pc[p] = "st_kv" THEN spaces \ {<<"kv", loc[p].r>>} ELSE spaces
      /\ routeAll' = IF pc[p] = "st_all" THEN routeAll \ {loc[p].r} ELSE routeAll
      /\ \A g \in GroupId : inGroup'[g] =
           IF pc[p] = "st_group" /\ g = loc[p].g THEN inGroup[g] \ {loc[p].r} ELSE inGroup[g]
  <2>1. CASE StripNumber(p) \/ StripOwner(p) \/ StripRecord(p)
    BY <2>1 DEF StripNumber, StripOwner, StripRecord, Next1
  <2>2. CASE StripInGroup(p)
    BY <2>2 DEF StripInGroup, Next1, IInv, TypeOK, RoutesTyped
  <2>3. CASE StripAll(p) \/ StripKv(p)
    BY <2>3 DEF StripAll, StripKv, Next1, routeVars
  <2> QED
    BY <2>1, <2>2, <2>3
<1>4. pc'[p] \in EmptyingLabels \ {"cd_list", "cd_members"}
  BY <1>0, <1>1
<1>5. \A g : Goes(p, g, ToCounters) /\ Goes(p, g, ToMembers) /\ Goes(p, g, ToData)
  BY <1>1, <1>4 DEF Goes, Hands, ToCounters, ToMembers, ToData
<1>6. \A r \in routeAll : r \in routeAll' \/ Hands(p, route[r].group, EmptyingLabels)'
  BY <1>0, <1>1, <1>3, <1>4 DEF Hands, Belongs, Placed
<1>7. \A r \in RouteId : HasKv(r)' =>
        /\ r \in inGroup[route[r].group] => r \in inGroup'[route[r].group] \/ Takes(p, r)'
        /\ Takes(p, r) => Takes(p, r)'
  <2> SUFFICES ASSUME NEW r \in RouteId, HasKv(r)'
               PROVE  /\ r \in inGroup[route[r].group] =>
                           r \in inGroup'[route[r].group] \/ Takes(p, r)'
                      /\ Takes(p, r) => Takes(p, r)'
    OBVIOUS
  <2>1. r \in 1 .. nextRoute /\ ~(pc[p] = "st_kv" /\ r = loc[p].r)
    BY <1>3 DEF Tidy, FollowedKv, HasKv
  <2>2. route[r].group \in GroupId
    BY <2>1 DEF IInv, TypeOK, RoutesTyped
  <2>3. Takes(p, r) => Takes(p, r)'
    BY <1>1, <2>1 DEF Takes, ToKv
  <2>4. r \in inGroup[route[r].group] => r \in inGroup'[route[r].group] \/ Takes(p, r)'
    <3> SUFFICES ASSUME r \in inGroup[route[r].group], r \notin inGroup'[route[r].group]
                 PROVE  Takes(p, r)'
      OBVIOUS
    <3>1. pc[p] = "st_group" /\ r = loc[p].r
      BY <1>3, <2>2
    <3> QED
      BY <1>1, <3>1 DEF Takes, ToKv
  <2> QED
    BY <2>3, <2>4
<1>8. Carried(p)'
  <2>1. ASSUME NEW r \in inGroup'[loc[p].g], HasKv(r)'
        PROVE  \/ r \in loc[p].todo
               \/ r = loc[p].r /\ pc'[p] \in StripLabels \ {"st_record"}
    <3>1. r \in inGroup[loc[p].g] /\ HasKv(r) /\ ~(pc[p] = "st_kv" /\ r = loc[p].r)
      BY <1>0, <1>3, <2>1 DEF HasKv, Prepared
    <3>2. \/ r \in loc[p].todo
          \/ r = loc[p].r /\ pc[p] \in StripLabels \ {"st_record"}
      BY <1>0, <3>1 DEF Carried
    <3> QED
      BY <1>1, <3>1, <3>2
  <2> QED
    BY <1>0, <1>1, <1>4, <2>1 DEF Carried
<1> QED
  BY <1>2, <1>3, <1>4, <1>5, <1>6, <1>7, <1>8 DEF TidyStep

(* The rest of a cascade                                                   *)
LEMMA CascadingTidies ==
  ASSUME IInv, FiledInv, ReadInv, Tidy, Placed, NEW p \in Proc,
         \/ CascadeList(p) \/ CascadeRoute(p) \/ CascadeUnlist(p) \/ CascadeMembers(p)
         \/ CascadeData(p) \/ CascadeCounters(p)
  PROVE  TidyStep(p)
<1> USE DEF EmptyingLabels
<1>0. /\ CallsTyped /\ loc[p] \in LocalRecord /\ Prepared(pc[p], loc[p]) /\ Carried(p)
      /\ loc[p].g \in GroupId
      /\ pc[p] \in {"cd_list", "cd_route", "cd_unlist", "cd_members", "cd_data", "cd_counters"}
  BY LocTyped, Zenon DEF IInv, Tidy, Prepared, CascadeList, CascadeRoute, CascadeUnlist,
     CascadeMembers, CascadeData, CascadeCounters, Next1
<1>1. CASE CascadeList(p)
  <2>1. /\ pc[p] = "cd_list" /\ pc'[p] = "cd_route" /\ loc'[p].g = loc[p].g
        /\ loc'[p].todo = inGroup[loc[p].g] /\ UNCHANGED <<inGroup, spaces, routeAll, counter>>
    BY <1>0, <1>1 DEF CascadeList, Enter, CallsTyped, LocalRecord, store, routeVars
  <2>2. \A g : Goes(p, g, ToCounters) /\ Goes(p, g, ToMembers) /\ Goes(p, g, ToData)
    BY <2>1 DEF Goes, Hands, ToCounters, ToMembers, ToData
  <2>3. Carried(p)'
    BY <2>1 DEF Carried
  <2> QED
    BY <2>1, <2>2, <2>3 DEF TidyStep, Takes, ToKv
<1>2. CASE CascadeRoute(p)
  <2>0. pc[p] = "cd_route" /\ loc[p].cd # "none" /\ UNCHANGED <<inGroup, spaces, routeAll, counter>>
    BY <1>2 DEF CascadeRoute, store, routeVars, ReadInv, ReadLabels
  <2> DEFINE strip(r) == [loc[p] EXCEPT !.r = r, !.n = route[r].number, !.todo = @ \ {r}]
  <2>1. CASE loc[p].todo = {} /\ Goto(p, "cd_members")
    <3>1. pc'[p] = "cd_members" /\ loc'[p] = loc[p]
      BY <1>0, <2>1 DEF Goto, CallsTyped
    <3>2. \A g : Goes(p, g, ToCounters) /\ Goes(p, g, ToMembers) /\ Goes(p, g, ToData)
      BY <2>0, <3>1 DEF Goes, Hands, ToCounters, ToMembers, ToData
    <3>3. Carried(p)'
      BY <1>0, <2>0, <2>1, <3>1 DEF Carried, HasKv
    <3> QED
      BY <2>0, <3>1, <3>2, <3>3 DEF TidyStep, Takes, ToKv
  <2>2. ASSUME NEW r \in loc[p].todo, NEW label \in {"st_number", "st_kv"},
               Enter(p, label, strip(r))
        PROVE  TidyStep(p)
    <3>1. /\ pc'[p] = label /\ loc'[p].g = loc[p].g /\ loc'[p].r = r
          /\ loc'[p].todo = loc[p].todo \ {r} /\ loc'[p].cd = loc[p].cd
      BY <1>0, <2>2 DEF Enter, CallsTyped, LocalRecord
    <3>2. \A g : Goes(p, g, ToCounters) /\ Goes(p, g, ToMembers) /\ Goes(p, g, ToData)
      BY <2>0, <3>1 DEF Goes, Hands, ToCounters, ToMembers, ToData
    <3>3. Carried(p)'
      BY <1>0, <2>0, <3>1 DEF Carried, HasKv
    <3> QED
      BY <2>0, <3>1, <3>2, <3>3 DEF TidyStep, Takes, ToKv
  <2>3. \/ loc[p].todo = {} /\ Goto(p, "cd_members")
        \/ \E r \in loc[p].todo, label \in {"st_number", "st_kv"} : Enter(p, label, strip(r))
    BY <1>2, Zenon DEF CascadeRoute
  <2> QED
    BY <2>1, <2>2, <2>3, Zenon
<1>3. CASE CascadeUnlist(p)
  <2>1. /\ pc[p] = "cd_unlist" /\ pc'[p] = "cd_route" /\ loc'[p] = loc[p]
        /\ routeAll' = routeAll \ {loc[p].r} /\ UNCHANGED <<inGroup, spaces, counter>>
    BY <1>0, <1>3 DEF CascadeUnlist, Next1, Goto, CallsTyped
  <2>2. \A g : Goes(p, g, ToCounters) /\ Goes(p, g, ToMembers) /\ Goes(p, g, ToData)
    BY <2>1 DEF Goes, Hands, ToCounters, ToMembers, ToData
  <2>3. Carried(p)'
    BY <1>0, <2>1 DEF Carried, HasKv
  <2>4. \A r \in routeAll : r \in routeAll' \/ Hands(p, route[r].group, EmptyingLabels)'
    <3>1. Belongs(loc[p].r, loc[p].g)
      BY <2>1 DEF FiledInv, InHand, HandLabels
    <3> QED
      BY <2>1, <3>1 DEF Hands, Belongs, Placed
  <2> QED
    BY <2>1, <2>2, <2>3, <2>4 DEF TidyStep, Takes, ToKv
<1>4. CASE CascadeMembers(p)
  <2>1. /\ pc[p] = "cd_members" /\ pc'[p] = "cd_data" /\ loc'[p] = loc[p]
        /\ UNCHANGED <<routeAll, spaces, counter>>
        /\ \A g \in GroupId : inGroup'[g] = IF g = loc[p].g THEN {} ELSE inGroup[g]
    BY <1>0, <1>4 DEF CascadeMembers, Next1, Goto, CallsTyped, IInv, TypeOK, RoutesTyped
  <2>2. \A g : Goes(p, g, ToCounters) /\ Goes(p, g, ToData)
               /\ (g # loc[p].g => Goes(p, g, ToMembers))
    BY <2>1 DEF Goes, Hands, ToCounters, ToMembers, ToData
  <2>3. \A r \in inGroup[loc[p].g] : ~HasKv(r)
    BY <1>0, <2>1 DEF Carried
  <2>4. \A r \in RouteId :
          HasKv(r)' /\ r \in inGroup[route[r].group] => r \in inGroup'[route[r].group]
    BY <2>1, <2>3 DEF Tidy, FollowedKv, HasKv, IInv, TypeOK, RoutesTyped
  <2>5. Carried(p)'
    BY <2>1 DEF Carried
  <2> QED
    BY <2>1, <2>2, <2>4, <2>5 DEF TidyStep, Takes, ToKv
<1>5. CASE CascadeData(p)
  <2>1. /\ pc[p] = "cd_data" /\ pc'[p] = "cd_counters" /\ loc'[p] = loc[p]
        /\ UNCHANGED <<routeAll, inGroup, counter>>
        /\ spaces' = spaces \ ({"gkv", "journal"} \X {loc[p].g})
    BY <1>0, <1>5 DEF CascadeData, Next1, Goto, CallsTyped, routeVars
  <2>2. \A g : Goes(p, g, ToCounters) /\ Goes(p, g, ToMembers)
               /\ (g # loc[p].g => Goes(p, g, ToData))
    BY <2>1 DEF Goes, Hands, ToCounters, ToMembers, ToData
  <2>3. spaces' \cap GroupData(loc[p].g) = {}
    BY <2>1 DEF GroupData
  <2>4. Carried(p)'
    BY <2>1 DEF Carried
  <2> QED
    BY <2>1, <2>2, <2>3, <2>4 DEF TidyStep, Takes, ToKv
<1>6. CASE CascadeCounters(p)
  <2>1. /\ pc[p] = "cd_counters" /\ pc'[p] \in {"cd_name", "cd_all"} /\ loc'[p] = loc[p]
        /\ UNCHANGED <<routeAll, inGroup, spaces>>
        /\ \A g \in GroupId : counter'[g] = IF g = loc[p].g THEN 0 ELSE counter[g]
    BY <1>0, <1>6 DEF CascadeCounters, Next1, Goto, CallsTyped, routeVars, IInv, TypeOK, CountsTyped
  <2>2. \A g : Goes(p, g, ToData) /\ Goes(p, g, ToMembers)
               /\ (g # loc[p].g => Goes(p, g, ToCounters))
    BY <2>1 DEF Goes, Hands, ToCounters, ToMembers, ToData
  <2>3. Carried(p)'
    BY <2>1 DEF Carried
  <2> QED
    BY <2>1, <2>2, <2>3 DEF TidyStep, Takes, ToKv
<1> QED
  BY <1>1, <1>2, <1>3, <1>4, <1>5, <1>6

(* The calls that do none of this                                          *)
LEMMA CallClears ==
  ASSUME IInv, NoLitter, NEW p \in Proc, Call(p)
  PROVE  \/ /\ pc[p] \notin ToCounters
            /\ pc'[p] \notin IndexLabels \cup (EmptyingLabels \ {"cd_list"})
         \/ NextNumber(p) \/ WriteRoute(p) \/ IndexInGroup(p) \/ IndexAll(p)
         \/ StripNumber(p) \/ StripInGroup(p) \/ StripAll(p) \/ StripOwner(p) \/ StripKv(p)
         \/ StripRecord(p) \/ CascadeList(p) \/ CascadeRoute(p) \/ CascadeUnlist(p)
         \/ CascadeMembers(p) \/ CascadeData(p) \/ CascadeCounters(p) \/ Fault(p)
<1>0. CallsTyped /\ loc[p] \in LocalRecord /\ Prepared(pc[p], loc[p])
  BY LocTyped DEF IInv
<1> DEFINE Clears == /\ pc[p] \notin ToCounters
                     /\ pc'[p] \notin IndexLabels \cup (EmptyingLabels \ {"cd_list"})
<1> USE DEF EmptyingLabels, ToCounters, ToData
<1>1. CASE \/ ArmRecord(p) \/ ArmName(p) \/ IndexGroup(p) \/ PatchTtl(p) \/ PatchFlags(p)
           \/ HitRoute(p) \/ HitGroup(p) \/ RenameCheck(p) \/ RenameRecord(p)
           \/ RenameDrop(p) \/ IndexOwner(p)
           \/ UpdatePattern(p) \/ UpdateArtifact(p) \/ ClearCounters(p)
           \/ CascadeName(p) \/ CascadeRecord(p)
  <2>1. PICK label \in {"arm_name", "arm_record", "idle", "hit_group", "bump", "rn_record",
                        "rn_drop", "rn_set", "up_path", "up_artifact", "pt_flags",
                        "cr_list", "rn_list", "sw_probe", "cd_all", "cd_record"} :
          Goto(p, label) /\ pc[p] \notin ToCounters
    BY <1>0, <1>1, Zenon DEF ArmRecord, ArmName, Return, LocalRecord, IndexGroup, PatchTtl,
       PatchFlags, HitRoute, HitGroup, RenameCheck, RenameRecord, RenameDrop, IndexOwner,
       UpdatePattern, UpdateArtifact, ClearCounters, Next1, CascadeName, CascadeRecord
  <2>2. Clears
    BY <1>0, <2>1 DEF Goto, CallsTyped
  <2> QED
    BY <2>2
<1>2. CASE \/ CreateGroup(p) \/ PatchGroup(p) \/ RefreshGroup(p) \/ Dispatch(p)
           \/ RenameGroup(p) \/ CreateRoute(p) \/ UpdateRoute(p)
           \/ DeleteGroup(p) \/ ClearJournal(p)
  <2>1. /\ pc[p] = "idle"
        /\ \E label \in {"hit_route", "rn_check", "up_artifact", "up_list", "cd_read",
                         "cj_counters", "cg_write", "pt_flags", "pt_ttl", "arm_record",
                         "cr_list"} : \E l : Enter(p, label, l)
    BY <1>2, Zenon DEF CreateGroup, PatchGroup, RefreshGroup, Dispatch,
       RenameGroup, CreateRoute, UpdateRoute, DeleteGroup, ClearJournal, Asked
  <2>2. Clears
    BY <1>0, <2>1 DEF Enter, CallsTyped
  <2> QED
    BY <2>2
<1>3. CASE \/ WriteGroup(p) \/ Bump(p) \/ RenameSet(p) \/ RenameRoute(p) \/ CascadeDone(p)
  <2>1. pc[p] = "cd_all" => loc[p].ret \in {"idle", "sw_probe"}
    BY <1>0 DEF Prepared
  <2>2. /\ pc[p] \in {"cg_write", "bump", "rn_set", "rn_routes", "cd_all"}
        /\ pc'[p] \in {"cg_index", "arm_record", "idle", "arm_name", "rn_routes", "sw_probe"}
    BY <1>0, <1>3, <2>1, Zenon DEF WriteGroup, Bump, RenameSet, RenameRoute,
       CascadeDone, Enter, Goto, CallsTyped
  <2>3. Clears
    BY <2>2
  <2> QED
    BY <2>3
<1>4. CASE ListRoutes(p) \/ ScanRoutes(p)
  <2>1. /\ pc[p] \in {"cr_list", "up_list", "rn_list", "cr_scan", "up_scan", "rn_scan"}
        /\ pc'[p] \in {"idle", "cr_scan", "up_scan", "rn_scan", "cr_number", "up_write",
                       "rn_routes"}
    <3>1. CASE ListRoutes(p)
      <4>1. pc[p] \in {"cr_list", "up_list", "rn_list"} /\ pc'[p] = After[pc[p]]
        BY <1>0, <3>1 DEF ListRoutes, Enter, CallsTyped, After
      <4> QED
        BY <4>1 DEF After
    <3>2. CASE ScanRoutes(p)
      <4>1. pc[p] \in {"cr_scan", "up_scan", "rn_scan"}
        BY <3>2, Zenon DEF ScanRoutes, Scanned
      <4>2. pc'[p] \in {"idle", pc[p], Scanned[pc[p]]}
        BY <1>0, <3>2, Zenon DEF ScanRoutes, Enter, Goto, CallsTyped
      <4> QED
        BY <4>1, <4>2 DEF Scanned
    <3> QED
      BY <1>4, <3>1, <3>2
  <2>2. Clears
    BY <2>1
  <2> QED
    BY <2>2
<1>5. CASE CascadeRead(p)
  <2>1. pc[p] = "cd_read" /\ loc[p].fail \in {"idle", "sw_release"}
    BY <1>0, <1>5, Zenon DEF CascadeRead, LocalRecord
  <2>2. pc'[p] \in {"cd_list", loc[p].fail}
    BY <1>0, <1>5, Zenon DEF CascadeRead, Abort, Enter, Goto, CallsTyped
  <2>3. Clears
    BY <2>1, <2>2
  <2> QED
    BY <2>3
<1>6. CASE SetState(p) \/ ClearState(p)
  <2>1. pc[p] = "idle" /\ pc'[p] = pc[p]
    BY <1>6 DEF SetState, ClearState, Asked
  <2>2. Clears
    BY <2>1
  <2> QED
    BY <2>2
<1>7. ~DeleteRoute(p)
  BY DEF DeleteRoute, Asked, NoLitter
<1> QED
  BY <1>1, <1>2, <1>3, <1>4, <1>5, <1>6, <1>7, Zenon DEF Call, Cascade

LEMMA CallTidies ==
  ASSUME IInv, Known, FiledInv, ReadInv, NoLitter, NEW p \in Proc, Call(p), Tidy, ~Fault(p)
  PROVE  Tidy'
<1>0. Placed /\ Elsewhere(p)
  BY CallPlaced, CallAlone
<1>1. CASE NextNumber(p) \/ WriteRoute(p) \/ IndexInGroup(p) \/ IndexAll(p)
  BY <1>0, <1>1, FilingTidies, TidyStepKeeps
<1>2. CASE \/ StripNumber(p) \/ StripInGroup(p) \/ StripAll(p) \/ StripOwner(p) \/ StripKv(p)
           \/ StripRecord(p)
  BY <1>0, <1>2, StrippingTidies, TidyStepKeeps
<1>3. CASE \/ CascadeList(p) \/ CascadeRoute(p) \/ CascadeUnlist(p)
           \/ CascadeMembers(p) \/ CascadeData(p) \/ CascadeCounters(p)
  BY <1>0, <1>3, CascadingTidies, TidyStepKeeps
<1>4. CASE /\ pc[p] \notin ToCounters
           /\ pc'[p] \notin IndexLabels \cup (EmptyingLabels \ {"cd_list"})
           /\ ~NextNumber(p)
  <2>1. pc[p] \notin {"cr_group", "cr_all", "st_group", "st_all", "cd_members", "cd_unlist",
                      "cd_counters"}
    BY <1>4 DEF ToCounters, ToData, EmptyingLabels
  <2>2. UNCHANGED <<inGroup, routeAll>>
    BY <2>1, Frame DEF IndexInGroup, StripInGroup, CascadeMembers, IndexAll, StripAll,
       CascadeUnlist, Next1
  <2>3. \A g \in GroupId : counter'[g] \in {counter[g], 0}
    <3>1. UNCHANGED counter \/ ClearCounters(p)
      BY <1>4, <2>1, Frame DEF CascadeCounters, Next1
    <3> QED
      BY <3>1 DEF ClearCounters, IInv, TypeOK, CountsTyped
  <2>4. spaces' \subseteq spaces
    <3>1. ~Dispatch(p) /\ ~SetState(p)
      BY DEF Dispatch, SetState, Asked, NoLitter
    <3>2. \/ UNCHANGED spaces
          \/ StripKv(p) \/ CascadeData(p) \/ ClearState(p) \/ ClearJournal(p)
      BY <3>1, Frame, Zenon
    <3> QED
      BY <3>2 DEF StripKv, CascadeData, ClearState, ClearJournal
  <2>5. TidyStep(p)
    BY <1>4, <2>2, <2>3, <2>4, ClearTidies
  <2> QED
    BY <1>0, <2>5, TidyStepKeeps
<1> QED
  BY <1>1, <1>2, <1>3, <1>4, CallClears

LEMMA LNextTidy ==
  IInv /\ Known /\ FiledInv /\ ReadInv /\ NoLitter /\ TidyInv /\ [LNext]_vars => TidyInv'
<1> SUFFICES ASSUME IInv, Known, FiledInv, ReadInv, NoLitter, TidyInv, [LNext]_vars, faults' = 0
             PROVE  Tidy'
  BY DEF TidyInv
<1>0. faults \in Nat
  BY Bounds DEF IInv, TypeOK, CountsTyped
<1>1. ASSUME NEW p \in Proc, Call(p) PROVE Tidy'
  <2>1. faults' >= faults
    BY <1>1, CallAlone
  <2>2. faults = 0 /\ ~Fault(p)
    BY <1>0, <2>1 DEF Fault
  <2> QED
    BY <1>1, <2>2, CallTidies DEF TidyInv
<1>2. ASSUME NEW s \in Sweeper, Sweep(s) PROVE Tidy'
  <2>1. /\ s \in Proc /\ Elsewhere(s) /\ UNCHANGED store
        /\ pc'[s] \in SweepLabels \cup {"idle", "cd_read"}
    BY <1>2, SweepAlone
  <2>2. faults = 0 /\ ~Crash(s)
    <3>1. faults' = faults \/ faults' = faults + 1
      BY <1>2, Zenon
        DEF Sweep, Claim, SweepList, SweepRead, SweepProbe, SweepEnd, Release, Crash, others
    <3> QED
      BY <1>0, <3>1 DEF Crash
  <2>3. pc[s] \in SweepLabels \cup {"idle"}
    BY <1>2, <2>2, Zenon
    DEF Sweep, Claim, SweepList, SweepRead, SweepProbe, SweepEnd, Release, SweepLabels
  <2>4. Placed /\ UNCHANGED <<inGroup, routeAll, spaces, counter>>
    BY <2>1 DEF store, routeVars, Placed
  <2>5. TidyStep(s)
    <3>1. /\ pc[s] \notin ToCounters
          /\ pc'[s] \notin IndexLabels \cup (EmptyingLabels \ {"cd_list"})
      BY <2>1, <2>3 DEF ToCounters, ToData, EmptyingLabels
    <3> QED
      BY <2>1, <2>4, <3>1, ClearTidies
  <2> QED
    BY <2>1, <2>2, <2>4, <2>5, TidyStepKeeps DEF TidyInv
<1>3. CASE Expire \/ LeaseExpires \/ UNCHANGED vars
  <2>1. UNCHANGED <<pc, loc, inGroup, routeAll, route, nextRoute, spaces, counter, faults>>
    BY <1>3 DEF Expire, ExpireRecord, ExpireName, LeaseExpires, vars, store, routeVars, others
  <2> QED
    BY <2>1 DEF TidyInv, Tidy, Followed, FollowedKv, Carried, Tended, Anchored, Hands, Takes,
       HasKv, At
<1> QED
  BY <1>1, <1>2, <1>3 DEF LNext, Next

LEMMA InitTidy == Init /\ NoLitter => TidyInv
<1> SUFFICES ASSUME Init, NoLitter PROVE Tidy
  BY DEF TidyInv
<1>1. PICK ng \in 0 .. MaxGroups, nr \in 0 .. MaxRoutes :
        SeedRoute \in [1 .. nr -> [group : 1 .. ng, pat : Pattern]]
  BY SeedAssumption
<1>2. /\ DOMAIN SeedRoute = 1 .. nr /\ 1 .. nr \subseteq RouteId /\ nr \in Nat
      /\ nextRoute = nr /\ routeAll = DOMAIN SeedRoute
  <2>1. DOMAIN SeedRoute = 1 .. nr /\ 1 .. nr \subseteq RouteId /\ nr \in Nat
    BY <1>1, Bounds DEF RouteId
  <2>2. nextRoute = nr
    BY <2>1, FS_Interval DEF Init
  <2> QED
    BY <2>1, <2>2 DEF Init
<1>3. \A r \in 1 .. nr : route[r].group = SeedRoute[r].group /\ SeedRoute[r].group \in GroupId
  BY <1>1, <1>2, Bounds DEF Init, GroupId
<1>4. \A p \in Proc : pc[p] = "idle"
  BY DEF Init
<1>5. \A g \in DOMAIN SeedName : Anchored(g)
  BY <1>2, <1>3 DEF NoLitter, Anchored
<1>6. ASSUME NEW g \in GroupId PROVE Followed(g)
  <2>1. counter[g] # 0 \/ spaces \cap GroupData(g) # {} => g \in DOMAIN SeedName
    BY DEF Init, Kept, GroupData
  <2>2. inGroup[g] # {} => Anchored(g)
    <3>1. inGroup[g] = {r \in DOMAIN SeedRoute : SeedRoute[r].group = g}
      BY DEF Init
    <3> QED
      BY <1>2, <1>3, <3>1 DEF Anchored
  <2> QED
    BY <1>5, <2>1, <2>2 DEF Followed, Tended
<1>7. ASSUME NEW r \in RouteId PROVE FollowedKv(r)
  <2> SUFFICES ASSUME HasKv(r)
               PROVE  /\ r \in 1 .. nextRoute /\ ~At(r, IndexLabels)
                      /\ r \in inGroup[route[r].group]
    BY DEF FollowedKv
  <2>1. r \in DOMAIN SeedRoute
    BY DEF Init, Kept, HasKv
  <2>2. r \in inGroup[route[r].group]
    BY <1>2, <1>3, <2>1 DEF Init
  <2> QED
    BY <1>2, <1>4, <2>1, <2>2 DEF At
<1>8. \A p \in Proc : Carried(p)
  BY <1>4 DEF Carried, EmptyingLabels
<1> QED
  BY <1>6, <1>7, <1>8 DEF Tidy

(* Nothing is left of a group that is gone once its routes have left the   *)
(* listing the sweepers work from, whatever calls and sweepers raced, as   *)
(* long as no command fails and no call is a dispatch, a PUT of group      *)
(* state or the deletion of a single route.                                *)
THEOREM SweptGroupsLeaveNothing ==
  ASSUME NoLitter
  PROVE  LSpec => []NothingLeftUnlessFault
<1>1. Init => IInv /\ Known /\ SweepInv /\ FiledInv /\ ReadInv /\ TidyInv
  <2>1. Init => ReadInv
    BY DEF Init, ReadInv, ReadLabels
  <2> QED
    BY <2>1, InitTyped, InitDirected, InitSpares, InitFiled, InitTidy
<1>2. IInv /\ Known /\ SweepInv /\ FiledInv /\ ReadInv /\ TidyInv /\ [LNext]_vars
        => IInv' /\ Known' /\ SweepInv' /\ FiledInv' /\ ReadInv' /\ TidyInv'
  BY LNextTyped, LNextSpares, LNextFiled, LNextRead, LNextTidy
<1>3. IInv /\ FiledInv /\ TidyInv => NothingLeftUnlessFault
  <2> SUFFICES ASSUME IInv, FiledInv, Tidy, NEW g \in 1 .. nextGroup, Swept(g)
               PROVE  /\ counter[g] = 0 /\ inGroup[g] = {}
                      /\ spaces \cap ({"gkv", "journal"} \X {g}) = {}
                      /\ \A r \in 1 .. nextRoute : route[r].group = g => <<"kv", r>> \notin spaces
    BY DEF NothingLeftUnlessFault, TidyInv
  <2>1. g \in GroupId /\ Followed(g)
    BY Bounds DEF Tidy, IInv, TypeOK, GroupsTyped, GroupId
  <2>2. ~Anchored(g) /\ \A p \in Proc : pc[p] = "idle" \/ loc[p].g # g
    BY DEF Swept, Quiet, Anchored
  <2>3. \A labels : "idle" \notin labels => ~Tended(g, labels)
    BY <2>2 DEF Tended, Hands
  <2>4. "idle" \notin ToCounters /\ "idle" \notin ToMembers /\ "idle" \notin ToData
    BY DEF ToCounters, ToMembers, ToData, EmptyingLabels
  <2>5. counter[g] = 0 /\ inGroup[g] = {} /\ spaces \cap GroupData(g) = {}
    BY <2>1, <2>3, <2>4 DEF Followed
  <2>6. ASSUME NEW r \in 1 .. nextRoute, route[r].group = g PROVE ~HasKv(r)
    <3>1. r \in RouteId /\ FollowedKv(r)
      BY NumbersInRange DEF Tidy
    <3>2. ASSUME NEW p \in Proc, Takes(p, r) PROVE FALSE
      BY <2>2, <2>6, <3>2 DEF Takes, ToKv, FiledInv, InHand, HandLabels, Belongs
    <3> QED
      BY <2>5, <2>6, <3>1, <3>2 DEF FollowedKv
  <2> QED
    BY <2>5, <2>6 DEF HasKv, GroupData
<1> QED
  BY <1>1, <1>2, <1>3, PTL DEF LSpec
=============================================================================
