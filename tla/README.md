# Verification of wiremirage

wiremirage hosts mock HTTP endpoints.  A *route* is a method list, a path
pattern and a handler; routes live in *groups*, whose name doubles as a
subdomain; a group may expire.  Several replicas of the host share one Valkey
store and tell each other about changes over its pub/sub.  This directory holds
TLA+ models of the host, their TLC configurations, and machine-checked proofs.
All paths below are relative to `src/crates/wm-host/src/` unless they say
otherwise.

## 1. The system and its parts

| part | state it keeps | operations | talks to | hard behaviour |
|---|---|---|---|---|
| registry (`registry.rs`) | hashes, sets and strings in the store: group and route records, seven indexes, the number counter, TTLs | create, patch, rename, refresh, delete of groups; create, update, delete of routes; hit recording; clearing of state and journal | the store, one command at a time, no transaction | every operation is a sequence of commands that other replicas' sequences, an expiry, an error or a crash can fall into |
| sweeper (`lifecycle.rs`) | a lease key | tick: claim, list, probe, cascade, release | registry, route table | races siblings and API calls; crashes with the lease; one bad record |
| route table (`route_table.rs`) | in memory: route records, compiled artifacts, read-through slots | lookups, hooks after each API write, read-through on a miss, reload, full resync | registry, bus | reads of storage and of caches outside the lock they are written under |
| invalidation bus (`bus.rs`) | the subscriber's session | publish, receive, reconnect | Valkey pub/sub | at-most-once, lost connections |
| patterns (`pattern.rs`) | none | parse, match, conflict | registry (creates, updates), table (lookups) | tails, parameters and literals; table order |
| dispatch (`server.rs`) | the request in progress | match, revalidate, run the handler, stream, journal, record the hit, bump, spawn callbacks | all of the above | the request's future, the handler's thread and the client end in any order |
| handler runtime, callouts (`runtime.rs`, `host_state.rs`, `callout.rs`, `egress.rs`) | a WASM instance or JS engine per request | run, host calls, outbound calls | store, network | hand-over of a streaming head, a full channel, names that resolve anew |
| dry runs (`dry_run.rs`) | a copy of the handler's state under `dryrun:{id}:` | snapshot, override, run, drain, clean up | runtime, store | ends by trap, timeout, lost client or crash |
| journal (`journal.rs`, `journal_filter.rs`) | numbered entries with a TTL, a broadcast ring per replica | record, list, count, clear, subscribe | store, bus | numbers against expiry and clearing, lag and lost publishes of a tail |
| stores (`store/`) | memory or Valkey | get, set, counters, lists, hashes, sets, TTL commands | | the map must answer as Valkey does |
| accounts (`auth.rs`, `session.rs`, `auth_api.rs`, `local_auth.rs`) | users and their indexes, tokens, sessions, the session epoch | sign in, link, create, patch, delete, issue, rename, revoke, sign out | store | read, check and write are separate commands |
| OAuth server (`mcp_oauth.rs`) | clients, pending consents, codes, access and refresh tokens | register, authorize, consent, exchange, refresh, revoke, disconnect | store, accounts | a record is consumed by a read and a write |
| HTTP API, MCP tools, web UI (`api.rs`, `mcp/`, `ui/`) | none of their own | validation, ownership, then a registry operation, then a table hook | registry, table, journal | what the gate looked up is looked up again by what it guards |

The properties that make each part correct, and the lines where they could go
wrong, are the hazards of `PROJECT.json`.  In short: a slug `{group}/{n}` names
one route for ever; no interleaving loses a route or leaves an index that leads
nowhere; names and TTLs are what was configured; the sweeper reaps what is gone,
all of it, and nothing else, and never gets stuck; every replica ends up with the
stored routes and with artifacts compiled from them; a request has one answer,
which is in the journal before anyone sees it; a reader of the journal is told
of every record or of how many it missed; a withdrawn credential lets nobody in;
and nobody acts on a group or a route that is not theirs.

## 2. The modules

    SlugDirectory            what the registry promises about slugs
       ^ refined by
    Registry                 the registry, command by command
       ^ EXTENDS
    Lifecycle                registry + sweepers           <- RegistryProofs
    RouteTable               tables, caches and the bus    <- RouteTableProofs
    RouteMatch               patterns, conflicts, lookup   <- RouteMatchProofs
    Invocation               one run of a handler          <- InvocationProofs
    HandlerStore             the two store backends        <- HandlerStoreProofs
    JournalStore             the journal in the store      <- JournalProofs
    JournalTail              the journal's live tails      <- JournalProofs
    Accounts                 users, sessions, tokens
       ^ EXTENDS
    Access                   who may do what, through the three front ends
                                                           <- AccountsProofs
    OAuth                    the OAuth server              <- OAuthProofs

The model of a part contains what it needs of its neighbours and no more: each
module says at its top what is one step there and taken apart elsewhere.

**Registry.** The keys of the store are variables: `group` is `group:{g}`,
`byName` is `group:by-name:{n}`, `groupAll` is `group:all` (and the owner set,
written alike), `route`, `byNumber`, `inGroup`, `routeAll`, `byOwner` likewise,
`counter` is the field `next_route_number` of `group:counters:{g}`, `spaces` the
handler-data and journal namespaces that are not empty.  A record is the set of
hash fields present, plus the values a property tells apart; a record that lacks
a mandatory field is what `decode_group` and `decode_route` call malformed, and
one without fields is a missing key.  A *process* is one call in progress; `pc`
is the command it sends next and `loc` the local variables of the Rust function.
Each action is one command with the code around it.  Commands are merged only
where nothing can be told apart between them: the HSETs that write a record under
a new ULID, the HDELs that empty one, and the HSETs on one visible record of
fields that no property distinguishes (`UpdateArtifact`, `HitRoute`,
`PatchFlags`).  An update's HSET of methods and its HSET of path are two steps
(`up_write`, `up_path`), because a pair of the new one with the old other was
never checked for conflicts.  TTLs are abstracted to "0" and "positive":
a running TTL may fire at any moment, and `nameTtl` keeps what the code's order
of arming guarantees, that a by-name key armed after its record does not go
first (unless `TightTtl` allows expiry between the two EXPIREs of one call).
`Fault` is a storage error that leaves the function through `?`, or equally the
death of the replica.  Ids are handed out in order, as ULIDs are never reused.
In the loops over set members the order is free.  `lease` is the sweepers' key,
declared here so that the steps of calls and of sweepers share one set of
variables.

**Lifecycle** adds the sweeper tasks: processes that claim the lease, list all
routes, probe each group and run Registry's cascade on it.  `Crash` ends a pass
anywhere, `LeaseExpires` may come at any time, and `Release` deletes the lease
whoever holds it, as the code does.

**RouteTable** has two or more replicas with `table`, `cache` (both artifact
caches: they are filled and evicted alike) and `recent` (the read-through slots);
workers are the API and dispatch threads, and each replica has one subscriber.
A step is one critical section, one read of storage or one publish.  Registry
operations commit in one step here, since their interleavings are Registry's
subject.  A table holds a *sequence* of copies per route, so duplicates show.
The variables `late` and `raced` are history: groups whose rows a read-through
set out of date, and routes whose artifact was inserted out of date.  They are
set by what happens, read by no action, and let a property say "unless that
named race happened".

**RouteMatch** is the pure logic: segments, `match_path`, method overlap,
`routes_conflict`, `find_match`.  The state is one group's table in search order,
reached by creates and edits that pass the conflict check, deletes, and reloads
in any order.

**SlugDirectory** is the abstract specification: groups open and close once;
a route is published once, under a number that no route of its open group ever
had, and is withdrawn once.  The refinement mapping is at the end of Registry.

**Invocation** follows one request from `dispatch` to what it leaves behind.
`task` is the request's future, or the task that outlives it (the journal task of
a stream); `thread` is the handler on its blocking thread with the `HostState`
its imports work on; `client` what the client sees.  The three go on separately,
which is the point: `Leave` drops the future at whichever await it is, and never
the thread.  The channel of chunks is `sent` minus `got`, and `Send` waits as
`blocking_send` does.  The task sees a head and the end of the thread in
either order (`TakeHead`, `Journal`, `JoinFails`), as its two polls do.  A dry run
is the same thread under another task, with `shadow`, the keys of its namespace,
those among them that have a TTL, and those that its best-effort cleanup could
not delete (`refused`).
`callback` holds the callbacks; addresses are a set with the policy's verdicts
given by constants, and `Normal` maps an IPv4-mapped address to its IPv4 form.

**HandlerStore** drives the in-memory map and Valkey with the same calls, side
by side.  What they do alike is written once; what they do differently has a
definition for each (`MemoryRange` and `ValkeyRange`, `MemoryCounts` and
`ValkeyCounts`, which say what parses as a number and which error an overflow is,
and an emptied container).  `Parting` names, call by call, where
their answers are known to differ, and `SameError` the one error that has two
names; `apart` remembers the keys on which a call of `Parting` was made.

**JournalStore** is the stored journal: counter, record and index entry are
written by separate commands, records expire, a clearing deletes what it finds and
sets the counter back, a rename changes the name that later records bear.  A
*stream* is one numbered sequence (handled requests of a group, its callbacks,
the unmatched requests of the host).  A reader pages from the newest down, one
scan step at a time, or counts the recent unmatched requests in the same way:
the counter first, then number by number, with anything in between; the look-up
of one number, index and then record, is one step.  Two of its fields are history: `owed` is what was listed
when it began, and `given` what it was given so far and its filter let through.

**JournalTail** is the other half: per replica a broadcast ring of bounded
capacity with a receiver per consumer (`rx`), and the subscriber task (`session`)
that connects while someone is attached (`permit` is the stored permit of
`Notify`).  A record is delivered on its own replica first and then published;
the task drops what its own replica published.

**Accounts** has one action per storage command of every call that writes users,
their indexes (by email, by identity, the set of all), sessions and tokens.  A
record is whole or a *stub* that no longer decodes.  When a sign-in finds its
account wiped, the look-up by email and the write of the index entry that follows
are one step (`Reindex`).  `job[p]` is the call of
thread `p`, with what it read so far.  Four variables are history, set by what
happens and read by no action: `withdrawn`, the credentials that were revoked;
`excused`, that the last administrator may be gone for a reason the model names;
`freed`, the emails whose index entry a deletion took from *another* account
(3.1, item 13); and `orphaning`, who creates routes while, or after, the account
is deleted.

**Access** extends it with groups, routes and the gates.  Every handler of the
API, page of the browser and tool of MCP is the same shape: present a
credential, look up, let the owner or an administrator pass, act by looking up
again.  `job[p].gate` is the group that the gate saw, `job[p].hits` those that
were read or changed.  Registry operations are one step here, and a group has at
most one route in its life, so that the slug of a route is its group's name.

**OAuth** has one action per storage command of the server's endpoints.  A
record is one field of JSON, read whole and written back whole; nothing ties the
write to the read.  `approved`, `known`, `children`, `raced` and `cut` are
history: who approved which code, which tokens reached their client, how many
pairs a code or token bought, which were held by two requests at once, which
grants a disconnection ended.

The operators whose names start with `Slip` are not part of the models: each is
a mistake one could make in the definition after it, and `PROJECT.json`'s
`mutants` says which property notices it.

## 3. The runs

| run | instance | question and result |
|---|---|---|
| `registry` | 2 API threads, 1 group with a route, 3 calls, 3 routes, expiry any time | Types; numbers unique; no route lost; every step refines `SlugDirectory`. 302 thousand states. |
| `lifecycle_api` | 1 API thread with all operations, 2 calls, 1 sweeper, 2 groups, 2 patterns, TTLs 0 and positive | Indexes, conflict freedom, names, TTLs; the sweeper spares live groups. 2.1 million. |
| `sweepers` | 2 sweepers, 1 refresh, 1 fault | Nothing is left behind without a fault; with one, sweeps reach every route but a stranded one, and go on. 168 thousand. |
| `route_table` | 2 replicas, 2 workers, 1 route, 2 events, 1 fault | Tables and artifacts fresh once all is quiet, but for the named races. 1.1 million. |
| `readiness` | 2 replicas, 1 route created in the run, 2 events, 1 fault | The route becomes and stays reachable on every replica, whichever read or publish fails or replica restarts after it was created; tables end up fresh. 836 thousand. |
| `route_match` | 8 patterns x 3 method lists (two disjoint, one ANY), up to 3 routes, 7 paths | Matching is never ambiguous and does not depend on table order. 4.7 thousand. |
| `journal_store` | 2 writers, 3 records of one kind, pages of one, a count capped at 2, a clearing, a rename | Paging gives every record that stays listed once (a reader that filters: of its name, and unless renamed meanwhile); the count of unmatched requests, read record by record, is right. 1.4 million. |
| `journal_tail` | 2 replicas, 1 consumer, ring of 2, 4 events, 1 fault | Once, or counted as missed; a tail that attaches wakes the task. 365 thousand. |
| `handler_store` | 1 key, lists up to 2, counters up to 2 | Both backends hold and answer the same but for `Parting`. 1.9 thousand. |
| `invocation` | 1 request, channel of 2, 4 chunks, 2 callbacks, 5 addresses, 1 crash | Journal before answer, chunks accounted for, vetted targets, dry runs that answer leave only what their cleanup failed to delete, threads end. 37 thousand. |
| `oauth` | 2 requests, 2 users, 2 clients, 1 code, 2 refresh tokens, 1 fault | Tokens go back to consents, one pair per code or token, a disconnection cuts off. 585 thousand. |
| `accounts` | 2 threads, 3 calls, 9 plans | Withdrawn credentials, emails, the last administrator, ownership through every front end. 324 thousand. |

All properties hold.  Deadlock is not checked where calls, events or ids are
bounded: such a system stops when the bound is used up.

*Bounds.* Constants called `Max...` count what is started, allocated or goes
wrong in a run.  The interesting cases need few of each.  Two callers, each with a
different operation in progress, show every pairwise race of the registry, and a
third call shows what the first two left behind; two patterns, one of them taken,
make a conflict and a free choice; three route ids allow create, delete and create
again; two sweepers, one fault and one crash cover a cascade resumed by another
sweeper.  On the table side one delete or update against one dispatch, or two
against each other or against a reconnection, are the pairs the code's comments
speak of.  Three records and pages of one let a reader stand between two
records while one is added, expires or is cleared.  A ring of two against four
events overflows twice over; one lost connection falls between any two of its
steps.  Two events in `readiness` let the create be followed by one more: an
update, a delete, a lost connection, a read-through that fails, a publish that
fails, or a replica that restarts between commit and hook (a fault is an event
too).  A channel of two and four chunks fills, drains and fills again.  Requests
do not interact in Invocation, so one is enough.  Counters that end at 2 reach
their overflow after two calls, and lists of two have a range for every case of
its arithmetic (each index runs from one beyond either end).  One code, two
refresh tokens and two threads give the double spend of a code, of a token, and
each of them against revocation and disconnection.  `MCPlans` of Accounts names
pairs of call sets whose interleaving is of interest, as all pairs of all calls
would be too many: each reads something that the other writes.

*What the bounds leave out.* The sliding refresh and the patch of one group by
two callers at once, and two creates of one name or one pattern, do break
`TtlAsConfigured`, `NameTracks` and `ConflictFree`; those are checked and
proved with one caller, against sweepers and expiry, and the hazards say so.  The run
`registry` asks for no deletion of a group and no clearing of a journal, which
take the counter away (3.1); `lifecycle_api` has them.  The run `sweepers` asks
its API thread only for refreshes: a dispatch wedges the sweepers (3.1) and would
make its liveness properties false.  `NothingLeftUnlessFault` excuses faults, and
`SweepConverges` the one route that a fault strands: a command that fails between
the removal of a route from `route:in-group` and from `route:all` leaves an orphan
that no later cascade finds (3.1).  `ConflictFree` and the other properties of one caller
are checked without faults: an update that fails half way leaves a pair of methods
and path that no check has seen (3.1).  The run `lifecycle_api` has one method
list; updates that give the methods or the path alone, and what their check sees,
are covered by the proof of `OneCallerConflictFree`.  The run `journal_store` has
one group; that a count keeps to the groups its caller may see is covered for any
number of groups by the proof.  Its constraint `OneKind` keeps to one kind of
record per behaviour: streams share no key but the hash with a group's counters,
which only a clearing deletes.

*Fairness.* `LFairness` asks that a sweeper task goes on ticking
(`lifecycle.rs`, `spawn`, loops for ever), that a call that was started goes on
(its thread is scheduled; every command returns), and that the lease's TTL runs
out.  It does not ask for new calls or for expiry.  `Fairness` of RouteTable asks that
a started call goes on, that the revalidation interval passes, and, as strong
fairness, that whoever gets a 404 for a route that exists asks again while the
route is missing; readiness is a promise to such a client.  Nothing is assumed of
the subscriber or of the bus, so the read-through alone carries the property.
`FairSpec` of JournalTail asks for the steps of the subscriber task alone: a loop
that the runtime polls, whose connection attempts and sleeps end.  Consumers and
publishers come and go as they like.  `Fairness` of Invocation asks that wasm that
runs is interrupted at its deadline (the epoch ticker), that a task that is ready
runs, and that a client that stays reads what it is sent; a client may leave
instead, and a handler need not finish by itself.

### 3.1 Where the code and its words disagree

Met while modelling, and the reason for an excuse in a property or a limit in a
run.  None of them is a run of its own: each is reached by the models once the
excuse or the limit is taken away.

1. *A late dispatch wedges the sweepers.*  `record_route_hit` writes
   `last_activity_at` to the group's hash whether or not the group still exists.
   On an expired group that makes a record that does not decode;
   `cascade_delete_group` returns the error before it removes anything and
   `single_pass` stops there, now and at every later tick.
2. *A storage error is taken for an expired group.*  The sweeper's probe is
   `is_ok()`; a failed read leads to a cascade whose own read may succeed.
3. *Clearing a journal resets route numbers.*  Both counters share the hash
   `group:counters:{g}`, which the clearing deletes (`registry.rs:685`).
4. *An artifact inserted after its eviction.*  Compiling happens outside the
   lock; an update in between evicts nothing yet.
5. *A reload installs rows from before a delete.*  Storage is read before the
   table's lock is taken.
6. *The map is not quite Valkey.*  A list range that starts past the end or stops
   before the beginning gives elements from the map and none from Valkey
   (`store/memory.rs:148`); a counter in `+1` is counted by the map and
   refused by Valkey; and a sum out of range is `StoreError::IncrOverflow` from
   the map (`store/memory.rs:99`) and `StoreError::Backend` from Valkey, where the
   comment at `store/valkey.rs:40` says that the overflow path is lost.  The full
   list is `Parting`, and `SameError` for the overflow.
7. *A dry run's keys may stay.*  The comment at `dry_run.rs:15` trusts the TTL of
   the snapshot, but a plain SET by an override or by the handler takes the TTL
   away; what a crash or a dropped request leaves is then never removed (a
   cleanup that fails has the same result, item 14).
8. *A code is not consumed atomically.*  The comments at `mcp_oauth.rs:247` and
   `:294` promise that only the first consumption succeeds; a read and a write
   are two commands, and two requests may both read before either writes.
9. *A client that leaves before the head leaves no journal entry*, while the
   handler runs to its end with all its effects.
10. *A touch may bring back a session* that its owner logged out between the
    touch's read and its write (`session.rs:191`).
11. *A deleted account never signs in again.*  `delete_user` leaves the field
    `session_epoch`, so the record of a deleted account is not empty but does not
    decode: a returning identity fails on it, and the branch at `auth.rs:355`
    that drops a "stale identity index pointing at a deleted user record" and
    creates the account anew is never reached.
12. *The gate and the act look up twice.*  A handler that goes by slug or name
    looks up for its gate and again for its action; a rename, or a deletion and
    a new creation, in between lead the second to another group
    (`api.rs:2221`).
13. *Two deletions of one account free the email of a third.*  `delete_user`
    deletes `user:by-email:{email}` without looking where it leads
    (`auth.rs:478`).  If the account was read by two deletions, and the person
    signed in anew after the first, the second takes the entry of the new account
    away, and one more sign-in makes a second account of that email.  It takes
    three calls at once, so the run `accounts`, with its two threads, never makes
    `freed` anything but empty; it was the proof for any number of threads that
    needed the excuse.
14. *A dry run may answer with its keys still there.*  An error of
    `cleanup_dry_run` is logged and the answer is sent (`dry_run.rs:127`).  The
    comment there counts on the TTL of the snapshot; a key whose TTL a SET took
    away stays for ever.
15. *A head may be answered as a whole.*  The comment at `server.rs:1000` says that
    a handler that streams and returns at once still takes the streaming path;
    the select polls the head first and the thread second, and a handler that
    commits its head and returns between the two polls is answered, and
    journaled, from its result.
16. *A filtered listing drops records after a rename.*  `list_journal` always
    filters by the name the group has at that request (`api.rs:1662`), and a
    record bears the name of its time (`journal_filter.rs:137`), so that with any
    filter set the records from before a rename are listed no more, and a client
    that pages across a rename sees the set change under it.
17. *An interrupted strip strands a route.*  `lifecycle.rs:183` calls a partially
    cleaned state fine.  A cascade or delete that ends between the SREM from
    `route:in-group:{g}` and the SREM from `route:all` (`registry.rs:1222`) leaves
    the id in the listing; later cascades go by the group's set and do not find
    it, and the sweepers come to its group in every pass in vain.
18. *Half an update is a route nobody checked.*  `update_route` checks the new
    methods with the new path and then writes one after the other
    (`registry.rs:1133`); an error or a crash in between leaves new methods with
    the old path, which may conflict with a sibling.

## 4. The proofs

A theorem holds for every value of its module's constants, and assumes what the
module assumes and no more.

*Type correctness of the registry* (`RegistryProofs`, theorem `RegistryTyped`):
`TypeOK` is not only about types.  It says that indexes and records hold only ids
that were handed out and that a field that is present has a value.  It is not
inductive as it stands, because a command writes what an earlier one put in
`loc`.  The invariant `IInv` adds, per label of `pc`, which local variables are
set (`Prepared`).  The proof has one lemma per operation or small group of
operations and one step per action in it.  `LifecycleTyped` adds the steps of the
sweepers, next to which the calls run in `Lifecycle`.

*The registry while no counter is deleted* (second part of `RegistryProofs`).
Three theorems assume that no caller deletes a group or clears a journal (`NoReset`).  The
assumption is needed: a clearing deletes the hash in which the route counter
lives too, and a cascade of a live group deletes it while creates may be under
way.  Creates, updates, deletes of routes, renames, patches, refreshes,
dispatches, expiry and errors all remain, in any number.

- `NumbersStayUnique`: two routes of a group that reads never share a number.
  The invariant `NumberInv` says that no call is at a command that resets a
  counter (`NoResetting`), that the counter is not below any number written or
  drawn (`Counted`), and that numbers written and drawn are pairwise different
  (`Distinct`).
- `DirectoryImplemented`: the registry implements `SlugDirectory`.  The mapping
  goes by ids that are present, so it needs `Known`: a record with an id is whole
  and was handed out, and every route and every call is of a group that was
  opened.  Each command is then one of two kinds: `Steady`, a stutter of the
  directory, or one of the four writes and drops of a record, which open, close,
  publish or withdraw; that a published number is new is `NumberInv`.
- `NoRouteIsLost`: until an error ends a call half way (`faults = 0`, in the
  theorem's own statement), a route whose record reads is under its number and in
  every listing once no call works on its group.  The invariant `ListedInv`
  describes the calls that are still at work: each of the four indexes has the
  route, or has a call on its way to it that adds it, or that takes it out
  (`Marked`), and such a call has the right group and number in hand (`Owned`).

*The sweepers spare the living* (third part of `RegistryProofs`), for any number
of sweepers next to any number of calls, and without `NoReset`: calls may delete
groups and clear journals as well.  That a sweeper read "gone" a while ago is no
proof that the group is gone now, so two facts carry it.  `Known`, which every
step keeps, says that whatever a route names or a call holds is a group that was
opened; and `Settled` says of every step that a group which was opened and has no
id does not get one again, since ids are used once and no command but the
creating one writes the field.  `SweepInv` then says that the groups a sweeper has
yet to probe were opened, that it makes no calls of its own, and that until the
first error it is, past its probe, at a group whose id is gone (`Aimed`).

- `SweepersSpareTheLiving`: until a command fails no sweeper is in the middle of
  cascading a group that reads.  The condition, part of the theorem's statement,
  is needed: a failed probe is taken for an expired group (section 3.1).
- `SweepersSpareTheLivingAlways`: with a storage that answers every command
  (`MaxFaults = 0`) the same without a condition.

*One API caller* (fourth part of `RegistryProofs`): the theorems about `ConflictFree`,
`NoDanglingIndex`, `TtlAsConfigured` and `NameTracks` are about one caller next to
any number of sweepers (`OneCaller`), any number of groups and routes, every
operation and every expiry.  With two callers on one group the four properties fail
(section 3), because the checks and the writes they allow are separate commands.

- `FiledInv`, for any number of callers, says that a set or hash of a group, and a
  list some call took from it, holds only routes that belong to that group, under
  their own numbers; no step ever moves a route (`Placed`).
- `OneCallerConflictFree` (`ConfInv`): while the caller checks a pattern, a member
  of the group is the route in hand, was found free of conflict, or has yet to be
  read.  Nobody files a route or changes a pattern meanwhile, since sweepers only
  take out.  Between the two writes of an update the route in hand may conflict
  (`HalfEdited`), and no other pair does (`Peace`); what the patch leaves alone or
  has written already is as the record has it (`Merged`), so that the second write
  makes the pair that was checked.  A fault may end the call there, which is why
  the theorem asks for none.  It assumes of `Clash` that it is symmetric, which
  `RouteMatchProofs!ConflictSymmetric` proves of the code's check.
- `OneCallerNoDanglingIndex` (`SoundInv`): the members of a group that reads are
  intact, but for the route the caller is writing, stripping or has yet to strip.
  Here the sweepers must be kept away, so it rests on `SweepInv`.
- `OneCallerTtlAsConfigured` (`NameInv`): the caller knows that the name it is about
  to take is free and the one it leaves is nobody else's (`Held`); a group's name
  leads to it but while the caller moves or deletes it (`Named`); and its two TTLs
  run as configured but between the two commands that arm them (`Timed`).  A sweeper
  deletes no name, since it finds its group gone (`GoneInv`).
- `OneCallerNameTracks` (`CopyInv`): a route carries the name of its group, or a
  rename is under way that has yet to list or to write it (`Behind`).

All four hold until a command fails or a process dies, as their statements say: a
create, an update or a rename that stops half way leaves just what they exclude.  The last two assume
that no key expires between two `EXPIRE`s of one call (`~TightTtl`), without which
a group can lose its name while its record lives.

*What sweepers leave* (fifth part of `RegistryProofs`, theorem
`SweptGroupsLeaveNothing`), for any number of callers and sweepers that race, and
until a command fails, as in the property itself.  `TidyInv` follows each kind of
key: as long as a group has a counter, members, handler state or a journal, a
route of it is in `route:all`, where sweepers find it (`Anchored`), or a call is on
its way to delete that key (`Tended`); the state of a route is reached through its
group's members, or a call has it in hand (`FollowedKv`); and a cascade that
empties a group has yet to come to every member with state (`Carried`).  So when
the routes have left the list and the calls are over, nothing is left.  The
hypothesis `NoLitter` excludes three operations: a dispatch or a PUT of group state
that began before the group's end can write keys after it, and the deletion of
the last single route takes the anchor away.  It also asks that every seeded group
has a route, because no sweep ever comes to a group without one.

*Matching* (`RouteMatchProofs`): for every set of patterns, methods and paths,
and tables of any bound.  The core of `MatchingIsUnambiguous` is a lemma that two
patterns of one shape which accept the same path do conflict, so the conflict
check keeps them out of one table; the invariant is that no two routes of the
table conflict, which every action keeps.  `AnswersAreStable` says of the same
tables that a request has one winner among the routes (`Wins`), a notion that
does not mention rows: the lookup returns the winner (`AnswerIsWinners`), because
the first row that matches in its order exists (`LeastNumber`, from the
well-foundedness of the numbers) and two that tie would be ambiguous.  A step
that keeps the set of routes keeps the winner.

*Route tables and artifacts* (`RouteTableProofs`), for any number of replicas,
workers, routes, groups, calls and lost connections.  `TablesTyped` needs to know
of each call in progress that what it will put into the table is a record, and
that what it will evict belongs to the group it will announce (`Fits`).  The two
others hold until an error or a restart, as the properties say themselves, and
rest on `FineUnlessFault`, a statement about one replica and one route:

- `TablesEndUpFresh` (`TableInv`): the row is fresh or excused, or a message about
  its group is queued for the replica or still to be sent by a call that committed
  (`Coming`), or the subscriber is about to replace the row (`Reloading`).  That
  is not inductive, because a reload installs what it read a while ago; so the
  invariant says of rows in hand that they are what storage has, or that a message
  is coming (`InHand`).  A hook may set rows to anything, since it announces their
  group; a replica that misses a message is about to read everything again.
- `ArtifactsEndUpFresh` (`ArtifactInv`): the artifact is of the stored source, or
  absent, or its insertion was out of date, or its eviction is still to come at an
  updating call, in a message or in a resync (`Evicting`), or the route was deleted
  and cannot come back.

*The stored journal* (`JournalProofs`), for any number of writers, readers,
groups and records, any page size and any cap.  `JournalTyped`: a record is
written by one writer and has no date before it is written.

- `PagingIsExact` (`PageInv`): an index entry leads to a record of that stream and
  number which its writer has let go (`Indexed`), and a group without a rename has
  the name of its records (`Named`).  A reader's line of numbers falls, from what
  it has seen over its page to the number it looks at next (`Falling`), so nothing
  comes twice even where a clearing hands numbers out again; and what it is owed
  is below that number, on the page, given, or no longer listed (`Covered`).  To a
  reader that filters by name this applies while the group keeps its name: after a
  rename the code drops listed records (3.1, item 16), and the property says so.
- `WindowIsExact`: the walk of a count is an invariant of the same kind (`Tallied`),
  since records come and go while it reads.  It has counted each request of the
  window above its place that stayed (`Covered`), every one it counted was in the
  window and visible, and it ends at number 0, at the cap, or at a request that is
  too old (`Ended`), which excuses only what has an earlier number than that one.

*Live tails* (`JournalProofs`, theorem `TailsAreAccounted`), for any number of
replicas, consumers and events, any capacity of the ring and any faults.  The
invariant `TailInv` says that an event which is not published yet is known on its
own replica only (`PublishedOnce`), that what a connection still has to bring is
not in the ring and was not received (`GivenOnce`), and that what a consumer is
owed and will not get is no more than it was or will be told (`Reckoned`).  The
step that matters is a push to a full ring: one event falls out, one more is
counted, and the others are still there (`PushingKeeps`, `OneMoreTold`).

*The stores* (`HandlerStoreProofs`, theorems `StoresAgree` and
`StoresAnswerAlike`): for any keys, fields, values and lengths.  The invariant
is that what Valkey holds has the shape of its kind and no container is empty
(`Shaped`), and that the map holds a twin of it, the same item or an emptied
container for an absent key.  The step is a lemma about one call on twins,
by cases on the call; without the excuse of `Parting` it is false in each of the
cases that `Parting` names, and errors are alike up to `SameError`.  That list ranges agree is arithmetic on the two
ways of clamping indices.

*A handler's run* (`InvocationProofs`), five invariants of one specification.
`AnswersAreJournaled`: that a request which passed the journal has an entry is
inductive together with the property.  `CallbacksAreVetted`: a callback that was
vetted carries permitted addresses only, and connects to one of those it carries.
`DryRunsCleanUp`: before a handler is spawned and from its join on no thread of
the request runs, so nobody writes after the cleanup, and what an answered dry
run leaves is what the cleanup failed to delete.  `StreamsAreAccounted`: the
invariant `StreamInv` relates handler, task and client of a stream.  What was sent
and not read fits the channel and only a handler between start and finish adds to
it (`Channel`); the place of the task says what the handler and the client have
seen (`Placed`); what was shown, noticed or written is final (`Final`).
`TypeCorrect`: no more callbacks than were scheduled, counted by cardinality, and
no key with a TTL but those that exist (`HeldInv`).

*The OAuth server* (`OAuthProofs`).  `TokensGoBackToConsents`: the invariant adds
to the property that an approval's code was handed out, so that none is
overwritten (`Minted`), that codes and refresh tokens say the user and client of
the approval they go back to (`CodesOwned`, `TokensOwned`), and what a request
knows at each of its steps (`RequestsSound`): the record it read may be gone or
changed by the time it writes, but what it says of user, client and grant is
still so, because approvals are only ever added.  Two further invariants stand on
this one.

- `OnePairOfTokens` rests on `PairInv`.  Records age in one direction, also when
  one is written back over a newer one: what is spent or revoked in a record that
  somebody holds is never again what it was when it was unused.  So a request that
  mints does so for something taken (`Held`), something never held by two has one
  holder (`OneHolder`), and once it has its pair it is taken and nobody is about to
  mint again (`OnePair`).
- `DisconnectedIsCutOff` rests on `CutInv`: a token that reached its client is in
  its user's index (`Indexed`), a token on its way is the business of its request
  alone (`OnItsWay`), and a disconnection is sure of the grants nobody works on,
  whose live tokens it has yet to look at or to write (`Cuts`); when it is done
  nothing more can come of them (`Finished`).

*Accounts and gates* (`AccountsProofs`), for the specification of Access, which
contains that of Accounts, and any number of threads, users, emails, credentials,
groups and calls.  The base is `Typed`: what records hold, and per label what a
task has in hand.  One lemma per action shows that it keeps `Typed` and says what
else it moves; the five proofs then look at those moves alone, each with an
inductive invariant of its own.

- `RoutesHaveOwners` (`OwnInv`): the owner of a live route exists and no deletion
  of it has looked for routes yet, unless it creates routes while being deleted.
- `EmailsAreClaimed` (`EmailInv`): an account in creation is known to its thread
  alone (`Reserved`); an account that claims an email has its index entry, unless
  a deletion took it (`Entered`); and so two whole accounts of one email are going
  or the email was freed (`Single`).
- `AnAdminIsLeft` (`AdminInv`): there is an administrator whom no demotion or
  deletion past its count aims at, or `excused` says why not.  It assumes that
  one administrator exists at the start, as the bootstrap provides.
- `OwnersOnly` (`GateInv`): a group that was not made belongs to nobody (`Blank`),
  and a caller who was let in by a gate owns what the gate saw, or is an
  administrator, until the call answers (`Entitled`), since groups and routes never
  change hands.
- `WithdrawnStayOut` (`WithdrawnInv`): no session or sign-in is dated later than
  its account's epoch (`Stamped`), whoever has a session in hand has it for one
  account (`Touched`), and so a withdrawn session is gone or void, and void again
  when a touch writes it back (`Voided`).  A token in creation is known to its
  writer alone (`Sighted`), and a revoked one is out of the hash index or leads to
  what is left of an account (`Unhashed`, `Revoked`).  A call that began with a
  withdrawn credential can only end, whatever step it is at (`Doomed`).

*What stays with TLC.*  Liveness and everything under fairness, with anything
that needs ENABLED, is out of the prover's reach; so is what recursion over
sequences computes for every length.  That sweeps go on and clean up in the end
(`SweepConverges`, `SweepsGoOn`) is therefore model-checked and not
proved.  Every invariant that a run checks is stated by a theorem, some of them
under a hypothesis that the run meets and the code does not always.  A deletion of a
group or a clearing breaks what is proved under `NoReset`; with two callers on one
group `ConflictFree`, `NoDanglingIndex`, `NameTracks` and `TtlAsConfigured` are
false; and with a dispatch, a PUT of state or the deletion of a single route so is
`NothingLeftUnlessFault`.  The run `sweepers` asks for refreshes only; the theorem
covers every other operation as well.

## 5. Not modelled

* Pure output and sequential code: metrics, logs, the capabilities text, templates
  of the web UI, the command line and its client, the transpiler's third-party
  compiler.
* The text of names, patterns, slugs, URLs and cursors; password hashing and
  PKCE arithmetic; body limits, reserved paths and near-miss suggestions of
  dispatch; CSRF tokens and form parsing.
* The exchange with an identity provider (`oidc.rs`, `github_oauth.rs`) and its
  one-shot login state: Accounts begins where an identity has been proved.
* The windows of the login throttle, the expiry of sessions and API tokens, the
  bootstrap of the first administrator, records from before emails became the
  identifier.
* TTL commands of the store backends: the map accepts them and never expires a
  key, so there is nothing to compare.
* Two callers at once on one group for `ConflictFree`, `NameTracks` and
  `TtlAsConfigured`, where the properties do not hold (section 3).
* A record of the journal whose read fails while the store answers the next one:
  listings and the count take it for a gap, as they take one that expired
  (`journal.rs:651`, `:813`).
* In Accounts a scan of all accounts is one step, as is a registry operation in
  Access.  Indexes that lead to a record that is gone altogether do not arise
  there: a deleted account keeps its `session_epoch` field as a stub.
