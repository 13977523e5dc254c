------------------------------- MODULE Access --------------------------------
(* Who may do what to which group (api.rs, ui/mod.rs, mcp/tools).          *)
(*                                                                         *)
(* The three front ends come to the same gates: a handler looks up what it *)
(* was asked for, lets in the owner or an administrator, and then calls    *)
(* the registry, which looks it up again: a route by its slug, a group by  *)
(* its id.  Look-up and call are separate steps; each operation of the     *)
(* registry is one (module Registry takes them apart).  The browser only   *)
(* comes with a session; MCP only with a token.                            *)
(*                                                                         *)
(* A group has at most one route in its life: the slug of a route is its   *)
(* group's name.                                                           *)
EXTENDS Accounts

CONSTANTS
  Group, Name,   \* the groups that will be, in order of creation; their names
  Estate         \* the groups that exist: [name, owner, routed]

ASSUME AccessAssumption ==
  /\ Group = 1 .. Cardinality(Group)
  /\ DOMAIN Estate \subseteq Group /\ None \notin Name
  /\ Estate \in [DOMAIN Estate -> [name : Name, owner : DOMAIN Seed, routed : BOOLEAN]]

(* The maker of a group's route, 0 before it has had one, owns the route.  *)
NoGroup == [live |-> FALSE, name |-> None, owner |-> 0, maker |-> 0, routed |-> FALSE]

AccessInit ==
  /\ Init
  /\ group = [g \in Group |-> IF g \notin DOMAIN Estate THEN NoGroup
       ELSE [live |-> TRUE, name |-> Estate[g].name, owner |-> Estate[g].owner,
             maker |-> IF Estate[g].routed THEN Estate[g].owner ELSE 0,
             routed |-> Estate[g].routed]]
  /\ orphaning = {}

(* group:by-name; 0 when the name is free                                  *)
Lookup(n) ==
  IF \E g \in Group : group[g].live /\ group[g].name = n
    THEN CHOOSE g \in Group : group[g].live /\ group[g].name = n ELSE 0

Routed(g) == g # 0 /\ group[g].live /\ group[g].routed

(* The gate of every handler lets everyone in.                             *)
SlipMay(p, owner) == TRUE

(* The gate of every handler                                               *)
May(p, owner) == job[p].admin \/ job[p].user = owner

Browser(p) == At(p, "ready") /\ job[p].cred[1] = "session"
Agent(p) == At(p, "ready") /\ job[p].cred[1] = "token"

Unmoved == UNCHANGED <<accounts, credentials, issued, others>>
Untouched == UNCHANGED <<accounts, credentials, issued, withdrawn, excused, freed>>

(* The registry did what it was asked, to these groups; or could not.      *)
Did(p, gs) == Work(p, [job[p] EXCEPT !.at = "done", !.hits = gs])

(* The answer is sent.                                                     *)
Answer(p) == At(p, "done") /\ End(p) /\ Unmoved

-----------------------------------------------------------------------------
(* Routes: {group}/{number}                                                *)

(* get_route_by_slug and the gate; the slug is kept for the act.           *)
BySlug(p, act) == \E n \in Name :
  LET g == Lookup(n) IN
  /\ Ask(p, "route")
  /\ IF Routed(g) /\ May(p, group[g].maker)
       THEN Work(p, [job[p] EXCEPT !.at = act, !.op = "route", !.name = n, !.gate = g])
       ELSE Refuse(p)
  /\ Unmoved

(* What is shown is the record the gate read.                              *)
Shown(p) == \E n \in Name :
  LET g == Lookup(n) IN
  /\ Ask(p, "route")
  /\ IF Routed(g) /\ May(p, group[g].maker)
       THEN Work(p, [job[p] EXCEPT !.at = "done", !.op = "route", !.gate = g,
                                   !.hits = {g}])
       ELSE Refuse(p)
  /\ Unmoved

ApiGetRoute(p) == Shown(p)
ApiRouteSource(p) == Shown(p)
ApiDryRun(p) == Shown(p)
UiRouteDetail(p) == Browser(p) /\ Shown(p)
UiSourceEditPage(p) == Browser(p) /\ Shown(p)
UiDryRunPage(p) == Browser(p) /\ Shown(p)
UiDryRun(p) == Browser(p) /\ Shown(p)
McpShowRoute(p) == Agent(p) /\ Shown(p)
McpShowSource(p) == Agent(p) /\ Shown(p)
McpDryRun(p) == Agent(p) /\ Shown(p)

ApiPatchRoute(p) == BySlug(p, "update_route")
ApiDeleteRoute(p) == BySlug(p, "delete_route")
ApiGetRouteState(p) == BySlug(p, "route_data")
ApiSetRouteState(p) == BySlug(p, "route_data")
ApiClearRouteState(p) == BySlug(p, "route_data")
UiRouteDelete(p) == Browser(p) /\ BySlug(p, "delete_route")
UiRouteState(p) == Browser(p) /\ BySlug(p, "route_data")
UiRouteStateClear(p) == Browser(p) /\ BySlug(p, "route_data")
UiRouteStateSet(p) == Browser(p) /\ BySlug(p, "route_data")
McpUpdateRoute(p) == Agent(p) /\ BySlug(p, "update_route")
McpDeleteRoute(p) == Agent(p) /\ BySlug(p, "delete_route")
McpShowRouteState(p) == Agent(p) /\ BySlug(p, "route_data")
McpSetRouteState(p) == Agent(p) /\ BySlug(p, "route_data")
McpClearRouteState(p) == Agent(p) /\ BySlug(p, "route_data")

(* The source editor passes a gate of its own, then that of the PATCH.     *)
UiSourceEdit(p) == Browser(p) /\ BySlug(p, "patch_route")

PatchCore(p) ==
  LET g == Lookup(job[p].name) IN
  /\ At(p, "patch_route")
  /\ IF Routed(g) /\ May(p, group[g].maker)
       THEN Work(p, [job[p] EXCEPT !.at = "update_route", !.gate = g])
       ELSE Refuse(p)
  /\ Unmoved

(* update_route, and the reads and writes of a route's state, go by what   *)
(* the slug leads to now.                                                  *)
UpdateRoute(p) ==
  LET g == Lookup(job[p].name) IN
  /\ At(p, "update_route")
  /\ IF Routed(g) THEN Did(p, {g}) ELSE End(p)
  /\ Unmoved

RouteData(p) ==
  LET g == Lookup(job[p].name) IN
  /\ At(p, "route_data")
  /\ IF Routed(g) THEN Did(p, {g}) ELSE End(p)
  /\ Unmoved

DeleteRoute(p) ==
  LET g == Lookup(job[p].name) IN
  /\ At(p, "delete_route")
  /\ IF Routed(g)
       THEN group' = [group EXCEPT ![g].routed = FALSE] /\ Did(p, {g})
       ELSE UNCHANGED group /\ End(p)
  /\ Untouched /\ UNCHANGED orphaning

-----------------------------------------------------------------------------
(* Groups, by name or id                                                   *)

ByRef(p, act) == \E n \in Name :
  LET g == Lookup(n) IN
  /\ Ask(p, "group")
  /\ IF g # 0 /\ May(p, group[g].owner)
       THEN Work(p, [job[p] EXCEPT !.at = act, !.op = "group", !.gate = g])
       ELSE Refuse(p)
  /\ Unmoved

(* A patch renames first, when it has a name.                              *)
Patch(p) == ByRef(p, "rename") \/ ByRef(p, "group_data")

(* The journal is for those who own a route in the group.                  *)
Journal(p) == \E n \in Name :
  LET g == Lookup(n) IN
  /\ Ask(p, "group")
  /\ IF g # 0 /\ (job[p].admin \/ (Routed(g) /\ group[g].maker = job[p].user))
       THEN Work(p, [job[p] EXCEPT !.at = "group_data", !.op = "journal", !.gate = g])
       ELSE Refuse(p)
  /\ Unmoved

(* An unmatched request is for the owner of the group it was addressed to. *)
Unmatched(p) == \E g \in Group :
  /\ Ask(p, "group")
  /\ IF job[p].admin \/ (group[g].live /\ group[g].owner = job[p].user)
       THEN Work(p, [job[p] EXCEPT !.at = "done", !.op = "group", !.gate = g,
                                   !.hits = {g}])
       ELSE Refuse(p)
  /\ Unmoved

(* A group is shown as the gate read it.                                   *)
ShownGroup(p) == \E n \in Name :
  LET g == Lookup(n) IN
  /\ Ask(p, "group")
  /\ IF g # 0 /\ May(p, group[g].owner)
       THEN Work(p, [job[p] EXCEPT !.at = "done", !.op = "group", !.gate = g,
                                   !.hits = {g}])
       ELSE Refuse(p)
  /\ Unmoved

(* A probe of the routes goes by the name of the group the gate let into.  *)
Probing(p) == \E n \in Name :
  LET g == Lookup(n) IN
  /\ Ask(p, "group")
  /\ IF g # 0 /\ May(p, group[g].owner)
       THEN Work(p, [job[p] EXCEPT !.at = "probe", !.op = "probe", !.name = n, !.gate = g])
       ELSE Refuse(p)
  /\ Unmoved

Probe(p) ==
  /\ At(p, "probe")
  /\ Did(p, {Lookup(job[p].name)} \ {0})
  /\ Unmoved

(* Listings: filters and pages narrow what the caller may see.             *)
ListGroups(p) ==
  /\ Ask(p, "group")
  /\ Work(p, [job[p] EXCEPT !.at = "done", !.op = "groups",
       !.hits = {g \in Group : group[g].live /\ May(p, group[g].owner)}])
  /\ Unmoved

ListRoutes(p) ==
  /\ Ask(p, "group")
  /\ Work(p, [job[p] EXCEPT !.at = "done", !.op = "routes",
       !.hits = {g \in Group : Routed(g) /\ May(p, group[g].maker)}])
  /\ Unmoved

ApiListGroups(p) == ListGroups(p)
ApiListRoutes(p) == ListRoutes(p)
UiHome(p) == Browser(p) /\ ListGroups(p)
UiGroups(p) == Browser(p) /\ ListGroups(p)
UiRoutes(p) == Browser(p) /\ ListRoutes(p)
UiUnmatched(p) == Browser(p) /\ ListGroups(p)
UiUnmatchedDetail(p) == Browser(p) /\ Unmatched(p)
UiLiveJournal(p) == Browser(p) /\ Journal(p)
UiJournalEntry(p) == Browser(p) /\ Journal(p)
ApiJournal(p) == Journal(p)
ApiCallback(p) == Journal(p)
ApiUnmatched(p) == Unmatched(p)
McpListJournal(p) == Agent(p) /\ Journal(p)
McpListCallbacks(p) == Agent(p) /\ Journal(p)
McpShowCallback(p) == Agent(p) /\ Journal(p)
McpShowUnmatched(p) == Agent(p) /\ Unmatched(p)
McpListUnmatched(p) == Agent(p) /\ ListGroups(p)
McpSummarize(p) == Agent(p) /\ ListGroups(p)
ApiGetGroup(p) == ShownGroup(p)
McpShowGroup(p) == Agent(p) /\ ShownGroup(p)
ApiMatch(p) == Probing(p)
UiGroupMatch(p) == Browser(p) /\ Probing(p)
McpFindRoute(p) == Agent(p) /\ Probing(p)
McpListGroups(p) == Agent(p) /\ ListGroups(p)
McpListRoutes(p) == Agent(p) /\ ListRoutes(p)

ApiPatchGroup(p) == Patch(p)
ApiDeleteGroup(p) == ByRef(p, "drop")
ApiRefreshGroup(p) == ByRef(p, "group_data")
ApiGroupState(p) == ByRef(p, "group_data")
ApiSetGroupState(p) == ByRef(p, "group_data")
ApiClearGroupState(p) == ByRef(p, "group_data")
ApiClearJournal(p) == ByRef(p, "group_data")
ApiExport(p) == ByRef(p, "group_data")
UiGroupDetail(p) == Browser(p) /\ ByRef(p, "group_data")
UiGroupRefresh(p) == Browser(p) /\ ByRef(p, "group_data")
UiGroupEdit(p) == Browser(p) /\ Patch(p)
UiGroupDelete(p) == Browser(p) /\ ByRef(p, "drop")
UiJournalClear(p) == Browser(p) /\ ByRef(p, "group_data")
UiGroupState(p) == Browser(p) /\ ByRef(p, "group_data")
UiGroupStateClear(p) == Browser(p) /\ ByRef(p, "group_data")
UiGroupStateSet(p) == Browser(p) /\ ByRef(p, "group_data")
UiCallbacks(p) == Browser(p) /\ ByRef(p, "group_data")
UiExport(p) == Browser(p) /\ ByRef(p, "group_data")
McpUpdateGroup(p) == Agent(p) /\ Patch(p)
McpDeleteGroup(p) == Agent(p) /\ ByRef(p, "drop")
McpRefreshGroup(p) == Agent(p) /\ ByRef(p, "group_data")
McpClearJournal(p) == Agent(p) /\ ByRef(p, "group_data")
McpClearGroupState(p) == Agent(p) /\ ByRef(p, "group_data")
McpShowGroupState(p) == Agent(p) /\ ByRef(p, "group_data")
McpSetGroupState(p) == Agent(p) /\ ByRef(p, "group_data")
McpExport(p) == Agent(p) /\ ByRef(p, "group_data")

(* What the registry is given is the id: the group itself, if it is there. *)
GroupData(p) ==
  LET g == job[p].gate IN
  /\ At(p, "group_data")
  /\ IF group[g].live THEN Did(p, {g}) ELSE End(p)
  /\ Unmoved

Rename(p) == \E n \in Name :
  LET g == job[p].gate IN
  /\ At(p, "rename")
  /\ IF group[g].live /\ Lookup(n) \in {0, g}
       THEN group' = [group EXCEPT ![g].name = n] /\ (Did(p, {g}) \/ Step(p, "group_data"))
       ELSE UNCHANGED group /\ End(p)
  /\ Untouched /\ UNCHANGED orphaning

(* cascade_delete_group takes the routes along, whoever owns them.         *)
Drop(p) ==
  LET g == job[p].gate IN
  /\ At(p, "drop")
  /\ IF group[g].live
       THEN group' = [group EXCEPT ![g].live = FALSE, ![g].routed = FALSE] /\ Did(p, {g})
       ELSE UNCHANGED group /\ End(p)
  /\ Untouched /\ UNCHANGED orphaning

-----------------------------------------------------------------------------
(* Creation: everyone may have groups, and put routes into their own.      *)

Unmade == {g \in Group : group[g].name = None}

(* Somebody whose account is going or gone                                 *)
Leaving(u) ==
  \/ ~ Whole(u)
  \/ \E q \in Thread : job[q].op = "delete_user" /\ job[q].id = u
       /\ job[q].at \in {"delete_read", "cascade", "drop_hash", "drop_name",
                         "disown", "drop_token", "unmail", "unlist", "wipe"}

(* create_group: the name must be free.                                    *)
Make(p) == \E n \in Name :
  /\ Ask(p, "create")
  /\ IF Lookup(n) = 0 /\ Unmade # {}
       THEN /\ group' = [group EXCEPT ![Smallest(Unmade)] =
                 [live |-> TRUE, name |-> n, owner |-> job[p].user,
                  maker |-> 0, routed |-> FALSE]]
            /\ Work(p, [job[p] EXCEPT !.at = "done", !.op = "create",
                          !.gate = Smallest(Unmade), !.hits = {Smallest(Unmade)}])
       ELSE UNCHANGED group /\ End(p)
  /\ Untouched /\ UNCHANGED orphaning

ApiCreateGroup(p) == Make(p)
UiGroupNew(p) == Browser(p) /\ Make(p)
McpCreateGroup(p) == Agent(p) /\ Make(p)

(* create_route_core: with a reference, the group must be there and yours; *)
Into(p) == \E n \in Name :
  LET g == Lookup(n) IN
  /\ Ask(p, "create")
  /\ IF g # 0 /\ May(p, group[g].owner)
       THEN Work(p, [job[p] EXCEPT !.at = "new_route", !.op = "create",
                                   !.name = n, !.gate = g])
       ELSE Refuse(p)
  /\ Unmoved

(* without one, the registry makes a group for the route.                  *)
Alone(p) ==
  /\ Ask(p, "create")
  /\ Work(p, [job[p] EXCEPT !.at = "implicit", !.op = "create"])
  /\ Unmoved

ApiCreateRoute(p) == Into(p) \/ Alone(p)
UiRouteNew(p) == Browser(p) /\ (Into(p) \/ Alone(p))
McpCreateRoute(p) == Agent(p) /\ (Into(p) \/ Alone(p))

(* The arguments were no good, or the source does not compile; an import   *)
(* takes back what it made,                                                *)
Fail(p) == IF job[p].new = None THEN End(p) ELSE Step(p, "rollback")

Decline(p) ==
  /\ job[p].at \in {"update_route", "route_data", "rename", "group_data", "new_route"}
  /\ Fail(p)
  /\ Unmoved

(* unless its caller has left while the source was compiled, or the group  *)
(* could not be given its callout flag.                                    *)
Abandon(p) ==
  /\ job[p].at \in {"import_route", "new_route"} /\ job[p].new # None
  /\ End(p)
  /\ Unmoved

(* After the source was compiled the registry looks the group up again.    *)
NewRoute(p) ==
  LET g == Lookup(job[p].name) IN
  /\ At(p, "new_route")
  /\ IF g # 0 /\ group[g].maker = 0
       THEN /\ group' = [group EXCEPT ![g].maker = job[p].user, ![g].routed = TRUE]
            /\ orphaning' = orphaning \cup {u \in {job[p].user} : Leaving(u)}
            /\ Did(p, {g})
       ELSE UNCHANGED registry /\ Fail(p)
  /\ Untouched

(* import_group_core: the group first,                                     *)
Import(p) == \E n \in Name :
  LET g == Smallest(Unmade) IN
  /\ Ask(p, "create") /\ Unmade # {}
  /\ IF Lookup(n) = 0
       THEN /\ group' = [group EXCEPT ![g] = [live |-> TRUE, name |-> n,
                 owner |-> job[p].user, maker |-> 0, routed |-> FALSE]]
            /\ Work(p, [job[p] EXCEPT !.at = "import_route", !.op = "create",
                                      !.id = g, !.name = n, !.new = n])
       ELSE UNCHANGED group /\ End(p)
  /\ Untouched /\ UNCHANGED orphaning

ApiImport(p) == Import(p)
UiImport(p) == Browser(p) /\ Import(p)
McpImport(p) == Agent(p) /\ Import(p)

(* then its routes, through the gate, by the name it had;                  *)
ImportRoute(p) ==
  LET g == Lookup(job[p].name) IN
  /\ At(p, "import_route")
  /\ IF g # 0 /\ May(p, group[g].owner)
       THEN Work(p, [job[p] EXCEPT !.at = "new_route", !.gate = g])
       ELSE Fail(p)
  /\ Unmoved

(* a route that fails takes the whole group back, by id.                   *)
Rollback(p) ==
  LET g == job[p].id IN
  /\ At(p, "rollback")
  /\ group' = [group EXCEPT ![g].live = FALSE, ![g].routed = FALSE]
  /\ End(p)
  /\ Untouched /\ UNCHANGED orphaning

(* The implicit group has a name nobody else has.                          *)
Implicit(p) == \E n \in Name :
  LET g == Smallest(Unmade) IN
  /\ At(p, "implicit") /\ Unmade # {} /\ Lookup(n) = 0
  /\ group' = [group EXCEPT ![g] = [live |-> TRUE, name |-> n,
       owner |-> job[p].user, maker |-> job[p].user, routed |-> TRUE]]
  /\ orphaning' = orphaning \cup {u \in {job[p].user} : Leaving(u)}
  /\ Work(p, [job[p] EXCEPT !.at = "done", !.gate = g, !.hits = {g}])
  /\ Untouched

-----------------------------------------------------------------------------
(* Accounts, from the browser                                              *)

UiCreateUser(p) == Browser(p) /\ CreateUser(p)
UiSetAdmin(p) == Browser(p) /\ PatchUser(p)
UiDeleteUser(p) == Browser(p) /\ DeleteUser(p)
UiCreateToken(p) == Browser(p) /\ CreateToken(p)
UiRevokeToken(p) == Browser(p) /\ RevokeToken(p)
UiRenameToken(p) == Browser(p) /\ RenameToken(p)
UiSignOutEverywhere(p) == Browser(p) /\ SignOutEverywhere(p)

(* Accounts are deleted whatever they own.                                 *)
SlipCheckOwned(p) == At(p, "owned") /\ Step(p, "delete_read") /\ Unmoved

(* An account that owns routes is not deleted.                             *)
CheckOwned(p) ==
  /\ At(p, "owned")
  /\ IF \E g \in Group : Routed(g) /\ group[g].maker = job[p].id
       THEN Refuse(p) ELSE Step(p, "delete_read")
  /\ Unmoved

-----------------------------------------------------------------------------

Credentials(p) ==
  \/ Present(p) \/ TouchRead(p) \/ TouchWrite(p) \/ LoadUser(p)
  \/ TokenFind(p) \/ TokenRead(p) \/ TokenStamp(p) \/ Logout(p)
  \/ SignOutEverywhere(p) \/ UiSignOutEverywhere(p) \/ BumpEpoch(p)

SignIn(p) ==
  \/ PasswordLogin(p) \/ Callback(p) \/ Identity(p) \/ Known(p) \/ FindIndex(p)
  \/ FindUser(p) \/ Scan(p) \/ Heal(p) \/ WriteUser(p) \/ Claim(p) \/ Enlist(p)
  \/ Sync(p) \/ Reindex(p) \/ Link(p) \/ Mint(p)

Administration(p) ==
  \/ CreateUser(p) \/ PatchUser(p) \/ DeleteUser(p)
  \/ UiCreateUser(p) \/ UiSetAdmin(p) \/ UiDeleteUser(p)
  \/ MayPatch(p) \/ MayDelete(p) \/ CountAdmins(p) \/ PatchRead(p) \/ PatchWrite(p)
  \/ CheckOwned(p) \/ DeleteRead(p) \/ CascadeToken(p) \/ Unmail(p) \/ Unlist(p)
  \/ WipeUser(p)

Tokens(p) ==
  \/ CreateToken(p) \/ UiCreateToken(p) \/ TokenFree(p) \/ WriteToken(p)
  \/ IndexHash(p) \/ IndexName(p) \/ IndexOwner(p)
  \/ RenameToken(p) \/ UiRenameToken(p) \/ RenameFind(p) \/ SetName(p)
  \/ NameToken(p) \/ DropOld(p)
  \/ RevokeToken(p) \/ UiRevokeToken(p) \/ RevokeFind(p) \/ DropHash(p)
  \/ DropName(p) \/ Disown(p) \/ DropToken(p)

RouteCalls(p) ==
  \/ ApiGetRoute(p) \/ ApiRouteSource(p) \/ ApiDryRun(p) \/ ApiPatchRoute(p)
  \/ ApiDeleteRoute(p) \/ ApiGetRouteState(p) \/ ApiSetRouteState(p)
  \/ ApiClearRouteState(p) \/ UiRouteDetail(p) \/ UiSourceEditPage(p)
  \/ UiDryRunPage(p) \/ UiDryRun(p) \/ UiRouteDelete(p) \/ UiRouteState(p)
  \/ UiRouteStateClear(p) \/ UiRouteStateSet(p) \/ UiSourceEdit(p)
  \/ McpShowRoute(p) \/ McpShowSource(p) \/ McpDryRun(p) \/ McpUpdateRoute(p)
  \/ McpDeleteRoute(p) \/ McpShowRouteState(p) \/ McpSetRouteState(p)
  \/ McpClearRouteState(p)
  \/ PatchCore(p) \/ UpdateRoute(p) \/ RouteData(p) \/ DeleteRoute(p)

GroupCalls(p) ==
  \/ ApiPatchGroup(p) \/ ApiDeleteGroup(p) \/ ApiRefreshGroup(p)
  \/ ApiGroupState(p) \/ ApiSetGroupState(p) \/ ApiClearGroupState(p)
  \/ ApiClearJournal(p) \/ ApiExport(p) \/ ApiListGroups(p) \/ ApiListRoutes(p)
  \/ UiHome(p) \/ UiGroups(p) \/ UiRoutes(p) \/ UiUnmatched(p)
  \/ UiUnmatchedDetail(p) \/ UiLiveJournal(p) \/ UiJournalEntry(p)
  \/ UiGroupDetail(p) \/ UiGroupRefresh(p) \/ UiGroupEdit(p) \/ UiGroupDelete(p)
  \/ UiJournalClear(p) \/ UiGroupMatch(p) \/ UiGroupState(p)
  \/ UiGroupStateClear(p) \/ UiGroupStateSet(p) \/ UiCallbacks(p) \/ UiExport(p)
  \/ McpUpdateGroup(p) \/ McpDeleteGroup(p) \/ McpRefreshGroup(p)
  \/ McpClearJournal(p) \/ McpClearGroupState(p) \/ McpShowGroupState(p)
  \/ McpSetGroupState(p) \/ McpExport(p) \/ McpListGroups(p) \/ McpListRoutes(p)
  \/ ApiJournal(p) \/ ApiCallback(p) \/ ApiUnmatched(p) \/ ApiGetGroup(p)
  \/ ApiMatch(p) \/ McpListJournal(p) \/ McpListCallbacks(p) \/ McpShowCallback(p)
  \/ McpShowUnmatched(p) \/ McpListUnmatched(p) \/ McpSummarize(p)
  \/ McpShowGroup(p) \/ McpFindRoute(p)
  \/ Probe(p) \/ GroupData(p) \/ Rename(p) \/ Drop(p)

Creations(p) ==
  \/ ApiCreateGroup(p) \/ UiGroupNew(p) \/ McpCreateGroup(p)
  \/ ApiCreateRoute(p) \/ UiRouteNew(p) \/ McpCreateRoute(p)
  \/ ApiImport(p) \/ UiImport(p) \/ McpImport(p)
  \/ ImportRoute(p) \/ NewRoute(p) \/ Implicit(p) \/ Decline(p) \/ Abandon(p)
  \/ Rollback(p)

AccessNext == \E p \in Thread :
  \/ Credentials(p) \/ SignIn(p) \/ Administration(p) \/ Tokens(p)
  \/ RouteCalls(p) \/ GroupCalls(p) \/ Creations(p) \/ Answer(p)

Spec == AccessInit /\ [][AccessNext]_avars

(* Whoever the call is for                                                 *)
OwnerOf(p, g) ==
  IF job[p].op \in {"route", "routes", "journal"} THEN group[g].maker
  ELSE group[g].owner

(* Through whichever front end, nobody but the owner or an administrator   *)
(* reads or changes a group or a route, with one exception: a slug or a    *)
(* name that led to another group when the gate looked at it.  What is     *)
(* called by id, or read by the gate itself, has no exception.             *)
OwnersOnlyUnlessRebound == \A p \in Thread : At(p, "done") =>
  \A g \in job[p].hits :
    \/ job[p].admin \/ OwnerOf(p, g) = job[p].user
    \/ job[p].op \in {"route", "create", "probe"} /\ g # job[p].gate

(* A live route has an owner with an account: an account that owns one is  *)
(* not deleted, unless it creates it after the deletion has looked.        *)
OwnersExist == \A g \in Group :
  Routed(g) => Whole(group[g].maker) \/ group[g].maker \in orphaning

=============================================================================
