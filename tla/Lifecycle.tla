----------------------------- MODULE Lifecycle ------------------------------
(***************************************************************************)
(* The lifecycle sweeper (src/crates/wm-host/src/lifecycle.rs) of every    *)
(* replica, running against the registry next to the API calls.  A sweeper *)
(* is a process of Registry that is asked no operation: it claims a lease, *)
(* lists all routes, probes the group of each and cascades the groups that *)
(* do not read.                                                            *)
(***************************************************************************)
EXTENDS Registry

CONSTANTS
  Sweeper      \* the sweeper tasks, one per replica

ASSUME SweeperAssumption ==
  /\ Sweeper \subseteq Proc /\ NoSweeper \notin Sweeper
  /\ \A s \in Sweeper : Ops[s] = {}

(* claim_sweep: SET NX EX; the tick is skipped when a sibling holds it, and *)
(* a storage error lets the sweep go ahead                                 *)
Claim(s) ==
  /\ pc[s] = "idle"
  /\ Enter(s, "sw_list", [Locals EXCEPT !.fail = "sw_release"])
  /\ \/ lease = NoSweeper /\ lease' = s /\ UNCHANGED <<calls, faults>>
     \/ faults < MaxFaults /\ faults' = faults + 1 /\ UNCHANGED <<calls, lease>>
  /\ UNCHANGED store

(* list_routes: SMEMBERS route:all, then HGETALL of each                   *)
SweepList(s) ==
  /\ pc[s] = "sw_list"
  /\ Enter(s, "sw_read", [loc[s] EXCEPT !.todo = routeAll])
  /\ UNCHANGED <<store, others>>

(* One record that does not read fails the whole pass.                     *)
SweepRead(s) ==
  /\ pc[s] = "sw_read"
  /\ IF loc[s].todo = {}
       THEN Goto(s, "sw_probe")
       ELSE \E r \in loc[s].todo :
              IF Intact(r)
                THEN Enter(s, "sw_read", [loc[s] EXCEPT !.todo = @ \ {r},
                                            !.left = @ \cup {route[r].group}])
                ELSE Abort(s)
  /\ UNCHANGED <<store, others>>

(* The group is probed through its name.                                   *)
SlipSweepProbe(s) ==
  /\ pc[s] = "sw_probe" /\ loc[s].left # {}
  /\ \E g \in loc[s].left :
       LET l == [loc[s] EXCEPT !.left = @ \ {g}] IN
       IF \E n \in Name : byName[n] = g
         THEN Enter(s, "sw_probe", l)
         ELSE Enter(s, "cd_read", [l EXCEPT !.g = g, !.ret = "sw_probe"])
  /\ UNCHANGED <<store, others>>

(* read_group_by_ref(g).is_ok() keeps the group; every other answer, a     *)
(* storage error too, cascades it.                                         *)
SweepProbe(s) ==
  /\ pc[s] = "sw_probe" /\ loc[s].left # {}
  /\ \E g \in loc[s].left :
       LET l == [loc[s] EXCEPT !.left = @ \ {g}]
           cascade == [l EXCEPT !.g = g, !.ret = "sw_probe"] IN
       \/ /\ Readable(g)
          /\ Enter(s, "sw_probe", l)
          /\ UNCHANGED others
       \/ /\ ~Readable(g)
          /\ Enter(s, "cd_read", cascade)
          /\ UNCHANGED others
       \/ /\ faults < MaxFaults
          /\ Enter(s, "cd_read", cascade)
          /\ faults' = faults + 1 /\ UNCHANGED <<calls, lease>>
  /\ UNCHANGED store

SweepEnd(s) ==
  /\ pc[s] = "sw_probe" /\ loc[s].left = {}
  /\ Goto(s, "sw_release")
  /\ UNCHANGED <<store, others>>

(* release_sweep: DEL, whoever holds the lease by now                      *)
Release(s) ==
  /\ pc[s] = "sw_release"
  /\ Goto(s, "idle")
  /\ lease' = NoSweeper
  /\ UNCHANGED <<store, calls, faults>>

(* The replica stops in the middle of a pass and starts again.             *)
Crash(s) ==
  /\ pc[s] # "idle" /\ faults < MaxFaults
  /\ Goto(s, "idle")
  /\ faults' = faults + 1
  /\ UNCHANGED <<store, calls, lease>>

(* The lease is set without a TTL.                                         *)
SlipLeaseExpires == FALSE

(* The lease's own TTL                                                     *)
LeaseExpires ==
  /\ lease # NoSweeper
  /\ lease' = NoSweeper
  /\ UNCHANGED <<store, pc, loc, calls, faults>>

Sweep(s) ==
  \/ Claim(s) \/ SweepList(s) \/ SweepRead(s) \/ SweepProbe(s) \/ SweepEnd(s)
  \/ Release(s) \/ Crash(s)

LNext == Next \/ (\E s \in Sweeper : Sweep(s)) \/ LeaseExpires

LSpec == Init /\ [][LNext]_vars

-----------------------------------------------------------------------------
(* Properties                                                              *)

(* The labels of cascade_delete_group once it is past its own read         *)
CascadeLabels ==
  {"cd_list", "cd_route", "cd_unlist", "cd_members", "cd_data", "cd_counters",
   "cd_name", "cd_record", "cd_all", "st_number", "st_group", "st_all",
   "st_owner", "st_kv", "st_record"}

(* A sweeper deletes nothing of a group that lives: between its probe, its *)
(* cascade's own read and its last command the group stays gone, however   *)
(* the calls on the group interleave with it.                              *)
SweepSparesLive ==
  \A s \in Sweeper : pc[s] \in CascadeLabels => ~Readable(loc[s].g)

(* Nothing is left of a group that is gone and whose routes have all left  *)
(* the listing the sweepers work from, since no sweep comes back to it: no *)
(* key of its handlers, no journal entry and no number.  Commands that     *)
(* fail, crashes and calls that started before the end are the exceptions. *)
Swept(g) ==
  ~Readable(g) /\ Quiet(g) /\ \A r \in routeAll : route[r].group # g

NothingLeftUnlessFault ==
  faults = 0 =>
    \A g \in 1 .. nextGroup : Swept(g) =>
      /\ counter[g] = 0 /\ inGroup[g] = {}
      /\ spaces \cap ({"gkv", "journal"} \X {g}) = {}
      /\ \A r \in 1 .. nextRoute : route[r].group = g => <<"kv", r>> \notin spaces

(* The routes of a group that is gone all leave the listing the sweepers   *)
(* work from, through sweepers that race each other, lose their lease to   *)
(* its TTL, crash, or meet an error: the next sweep goes on where one      *)
(* stopped.  The one exception is a route that an interrupted sweep had    *)
(* taken out of its group's set and not yet out of the listing: cascades   *)
(* go by the set and never find it again.                                  *)
Stranded(r) == faults > 0 /\ r \notin inGroup[route[r].group]

SweepConverges ==
  \A r \in RouteId :
    (r \in routeAll /\ ~Readable(route[r].group)) ~> (r \notin routeAll \/ Stranded(r))

(* Whoever crashes or stalls while it holds the lease, sweeps go on being  *)
(* started: a stuck lease cannot wedge the sweepers.                       *)
SweepsGoOn == []<>(\E s \in Sweeper : pc[s] = "sw_list")

(* A sweeper task goes on ticking, a call that was started goes on, and the *)
(* lease's TTL runs out; new calls need not come, nor need a group expire.  *)
LFairness ==
  /\ \A s \in Sweeper : WF_vars(Sweep(s) \/ Cascade(s))
  /\ \A p \in Proc \ Sweeper :
       WF_vars(pc[p] # "idle" /\ Call(p))
  /\ WF_vars(LeaseExpires)

LFairSpec == LSpec /\ LFairness
=============================================================================
