----------------------------- MODULE Invocation ------------------------------
(* One run of a handler, from the request that asks for it to what it      *)
(* leaves behind. A mock request is dispatched (server.rs) and its handler *)
(* runs on a blocking thread, answers at once or streams, is journaled and *)
(* has its callbacks sent. A dry run (dry_run.rs) runs the same handler    *)
(* over a copy of its state and throws the copy away.                      *)
(*                                                                         *)
(* The request's future and the handler's thread are separate: a client    *)
(* that leaves takes the future with it at any of its awaits, never the    *)
(* thread.                                                                 *)
EXTENDS Integers, FiniteSets

CONSTANTS
  Req,
  Key,          \* keys of the route's and of the group's bucket
  Cap,          \* STREAM_CHANNEL_CAP
  MaxCallbacks, \* MAX_CALLBACKS_PER_REQUEST
  Addr,         \* addresses a callback's host may resolve to
  Normal,       \* Normal[a]: a, or the IPv4 address that it maps
  Special,      \* SPECIAL_USE
  Allow, Deny,  \* WM_EGRESS_ALLOW, WM_EGRESS_DENY
  MaxChunks,    \* bound: chunks that one handler writes
  MaxCrashes    \* bound

ASSUME InvocationAssumption ==
  /\ Cap \in Nat \ {0} /\ MaxCallbacks \in Nat /\ MaxChunks \in Nat /\ MaxCrashes \in Nat
  /\ Normal \in [Addr -> Addr]
  /\ Special \subseteq Addr /\ Allow \subseteq Addr /\ Deny \subseteq Addr

VARIABLES
  task,     \* the future of the request, or the task that outlives it
  thread,   \* the handler on its blocking thread, with its HostState
  client,   \* what the client sees
  record,   \* the journal entry of the request
  shadow,   \* the keys under dryrun:{run_id}:, those with a TTL, and history:
            \* those whose removal failed
  callback, \* the callbacks that were spawned
  crashes   \* bound

vars == <<task, thread, client, record, shadow, callback, crashes>>

NoThread == [pc |-> "none", engine |-> FALSE, callouts |-> FALSE, started |-> FALSE,
             open |-> FALSE, sent |-> 0, tried |-> 0, noticed |-> FALSE, ok |-> FALSE,
             scheduled |-> 0]
NoRecord == [chunks |-> 0, is |-> "none"]

Init ==
  /\ task = [r \in Req |-> "new"]
  /\ thread = [r \in Req |-> NoThread]
  /\ client = [r \in Req |-> [here |-> TRUE, got |-> 0, sees |-> "nothing"]]
  /\ record = [r \in Req |-> NoRecord]
  /\ shadow = [r \in Req |-> [keys |-> {}, ttl |-> {}, refused |-> {}]]
  /\ callback = [r \in Req |-> {}]
  /\ crashes = 0

Become(r, pc) == task' = [task EXCEPT ![r] = pc]
Sees(r, what) == client' = [client EXCEPT ![r].sees = what]
InThread(r) == thread[r].pc = "running"

\* Somebody holds the receiver of the chunks.
Listening(r) ==
  \/ task[r] \in {"awaiting", "draining"}
  \/ task[r] \in {"streaming", "stream_journaled", "answered"} /\ client[r].here

-----------------------------------------------------------------------------
(* Dispatch, up to the handler.                                            *)

\* A body that is too large, an apex path, an unknown group, a source that
\* does not transpile: answered and not journaled.
Refuse(r) ==
  /\ task[r] = "new"
  /\ Become(r, "answered")
  /\ Sees(r, "refusal")
  /\ UNCHANGED <<thread, record, shadow, callback, crashes>>

\* No route, also after the table was read again: journaled, then answered.
Unmatched(r) ==
  /\ task[r] = "new"
  /\ Become(r, "answered")
  /\ record' = [record EXCEPT ![r].is = "unmatched"]
  /\ Sees(r, "refusal")
  /\ UNCHANGED <<thread, shadow, callback, crashes>>

Spawned(engine, callouts) ==
  [NoThread EXCEPT !.pc = "running", !.engine = engine, !.callouts = callouts, !.open = engine]

\* A route is matched and its handler spawned. Callbacks need the engine, the
\* egress switch and the group's flag, as they are now.
Match(r, engine, callouts) ==
  /\ task[r] = "new"
  /\ callouts => engine
  /\ thread' = [thread EXCEPT ![r] = Spawned(engine, callouts)]
  /\ Become(r, "awaiting")
  /\ UNCHANGED <<client, record, shadow, callback, crashes>>

-----------------------------------------------------------------------------
(* The handler: the imports of the engine world.                           *)

\* response-stream.start: the first one wins.
Start(r) ==
  /\ InThread(r) /\ thread[r].engine /\ ~ thread[r].started
  /\ thread' = [thread EXCEPT ![r].started = TRUE]
  /\ UNCHANGED <<task, client, record, shadow, callback, crashes>>

\* Wrong: a chunk may be sent before the head.
SlipMayWrite(x) == x.open

\* write-chunk is FALSE before start and after finish.
MayWrite(x) == x.open /\ x.started

WriteChunk(r) ==
  /\ InThread(r) /\ MayWrite(thread[r]) /\ thread[r].tried < MaxChunks
  /\ thread' = [thread EXCEPT ![r].pc = "sending", ![r].tried = @ + 1]
  /\ UNCHANGED <<task, client, record, shadow, callback, crashes>>

AfterSend(x, taken) ==
  IF taken THEN [x EXCEPT !.pc = "running", !.sent = @ + 1]
  ELSE [x EXCEPT !.pc = "running", !.noticed = TRUE]

\* Wrong: one chunk more than the channel has room for.
SlipRoom(r) == thread[r].sent - client[r].got <= Cap

Room(r) == thread[r].sent - client[r].got < Cap

\* blocking_send: it waits for room, and ends when there is nobody to read.
Send(r) ==
  /\ thread[r].pc = "sending"
  /\ Listening(r) => Room(r)
  /\ thread' = [thread EXCEPT ![r] = AfterSend(@, Listening(r))]
  /\ UNCHANGED <<task, client, record, shadow, callback, crashes>>

FinishStream(r) ==
  /\ InThread(r) /\ thread[r].open
  /\ thread' = [thread EXCEPT ![r].open = FALSE]
  /\ UNCHANGED <<task, client, record, shadow, callback, crashes>>

\* callback.schedule: refused when the gate is shut and beyond the limit.
Schedule(r) ==
  /\ InThread(r) /\ thread[r].callouts /\ thread[r].scheduled < MaxCallbacks
  /\ thread' = [thread EXCEPT ![r].scheduled = @ + 1]
  /\ UNCHANGED <<task, client, record, shadow, callback, crashes>>

IsDry(r) == task[r] \in {"draining", "joining", "cleanup", "cleaned", "abandoned"}

\* The buckets of a dry run have the prefix of the run. SET makes the key
\* anew, without a TTL; INCR, RPUSH, ... keep the one it has.
Touch(r, k, anew) ==
  /\ InThread(r) /\ IsDry(r)
  /\ shadow' = [shadow EXCEPT ![r].keys = @ \cup {k}, ![r].ttl = IF anew THEN @ \ {k} ELSE @]
  /\ UNCHANGED <<task, thread, client, record, callback, crashes>>

\* It returns, or not: an exception, the memory limit, a panic, the epoch
\* deadline, which is looked at only while wasm runs, never in blocking_send.
End(r, ok) ==
  /\ InThread(r)
  /\ thread' = [thread EXCEPT ![r].pc = "done", ![r].ok = ok, ![r].open = FALSE]
  /\ UNCHANGED <<task, client, record, shadow, callback, crashes>>

-----------------------------------------------------------------------------
(* Dispatch, from the head or the end of the handler on.                   *)

\* The select looks for a head first, and then for the end of the handler.
TakeHead(r) ==
  /\ task[r] = "awaiting" /\ thread[r].started
  /\ Become(r, "streaming")
  /\ Sees(r, "head")
  /\ UNCHANGED <<thread, record, shadow, callback, crashes>>

\* StreamSummary::from_state, which the buffered path ignores.
Disposition(r) ==
  IF task[r] = "awaiting" THEN "buffered"
  ELSE IF thread[r].noticed THEN "client_disconnected"
  ELSE IF thread[r].ok THEN "finished" ELSE "trapped"

\* Wrong: the entry of a stream is written with its head.
SlipMayJournal(r) == thread[r].pc = "done" \/ task[r] = "streaming"

MayJournal(r) == thread[r].pc = "done"

\* record_handled, record_route_hit and the sliding bump: best effort. No
\* await comes after this on the buffered path. A handler that sends its head
\* after the select looked for it, and is done before the select looks for
\* its end, takes this path as well.
Journal(r) ==
  /\ MayJournal(r)
  /\ \/ task[r] = "awaiting" /\ Become(r, "journaled")
     \/ task[r] = "streaming" /\ Become(r, "stream_journaled")
  /\ \E written \in BOOLEAN :
       record' = [record EXCEPT ![r] =
         [chunks |-> thread[r].sent, is |-> IF written THEN Disposition(r) ELSE "failed"]]
  /\ UNCHANGED <<thread, client, shadow, callback, crashes>>

\* A thread that panicked is not journaled and has its callbacks forgotten: a
\* request that waits is answered with an error, a stream just ends.
JoinFails(r) ==
  /\ thread[r].pc = "done" /\ ~ thread[r].ok
  /\ \/ task[r] = "awaiting" /\ Sees(r, "refusal")
     \/ task[r] = "streaming" /\ UNCHANGED client
  /\ Become(r, "answered")
  /\ UNCHANGED <<thread, record, shadow, callback, crashes>>

Due == [st |-> "due", addrs |-> {}, to |-> {}]

\* Wrong: the answer does not wait for the journal.
SlipMayAnswer(r) ==
  \/ task[r] \in {"journaled", "stream_journaled"}
  \/ task[r] = "awaiting" /\ thread[r].pc = "done" /\ ~ thread[r].started

MayAnswer(r) == task[r] \in {"journaled", "stream_journaled"}

\* spawn_callbacks, one task for each, and then the buffered answer.
Answer(r) ==
  /\ MayAnswer(r)
  /\ callback' = [callback EXCEPT ![r] = {[n |-> i, fire |-> Due] : i \in 1..thread[r].scheduled}]
  /\ IF task[r] = "stream_journaled" THEN UNCHANGED client
     ELSE Sees(r, IF thread[r].ok THEN "response" ELSE "error")
  /\ Become(r, "answered")
  /\ UNCHANGED <<thread, record, shadow, crashes>>

-----------------------------------------------------------------------------
(* Callbacks.                                                              *)

\* EgressPolicy::evaluate
Permitted(a) ==
  LET ip == Normal[a] IN ip \notin Deny /\ (ip \in Allow \/ ip \notin Special)

\* check_resolved: one denied address denies them all, and so does none.
Vetted(addrs) == addrs # {} /\ \A a \in addrs : Permitted(a)

Fire(r, c, after) == callback' = [callback EXCEPT ![r] = (@ \ {c}) \cup {[c EXCEPT !.fire = after]}]

\* The delay is over and the host resolved: a bad URL and a failed lookup end
\* as an empty set does.
Resolve(r, c, addrs) ==
  /\ c \in callback[r] /\ c.fire.st = "due"
  /\ Fire(r, c, IF Vetted(addrs) THEN [st |-> "vetted", addrs |-> addrs, to |-> {}]
                ELSE [Due EXCEPT !.st = "denied"])
  /\ UNCHANGED <<task, thread, client, record, shadow, crashes>>

\* Wrong: the client resolves the host again.
SlipTargets(c) == Addr

\* The client's resolver is pinned to the addresses that were vetted.
Targets(c) == c.fire.addrs

\* One attempt, no redirect; then the callback's own journal entry.
Deliver(r, c, a) ==
  /\ c \in callback[r] /\ c.fire.st = "vetted"
  /\ a \in Targets(c)
  /\ Fire(r, c, [st |-> "fired", addrs |-> c.fire.addrs, to |-> {a}])
  /\ UNCHANGED <<task, thread, client, record, shadow, crashes>>

-----------------------------------------------------------------------------
(* A dry run.                                                              *)

\* The copies, the TTL on what they made, and the overrides, which are SETs.
\* Nothing is awaited here, and a copy or an override that fails ends the run.
Snapshot(r, copied) ==
  /\ task[r] = "new"
  /\ Become(r, "copied")
  /\ shadow' = [shadow EXCEPT ![r].keys = copied]
  /\ UNCHANGED <<thread, client, record, callback, crashes>>

\* One PEXPIRE per key, up to the first that fails, which is only logged.
ArmShadow(r) ==
  /\ task[r] = "copied"
  /\ Become(r, "armed")
  /\ \E armed \in SUBSET shadow[r].keys : shadow' = [shadow EXCEPT ![r].ttl = armed]
  /\ UNCHANGED <<thread, client, record, callback, crashes>>

Override(r, k) ==
  /\ task[r] = "armed"
  /\ shadow' = [shadow EXCEPT ![r].keys = @ \cup {k}, ![r].ttl = @ \ {k}]
  /\ UNCHANGED <<task, thread, client, record, callback, crashes>>

\* The engine never may call out here, and its chunks are drained as they
\* come; a component has none.
RunDry(r, engine) ==
  /\ task[r] = "armed"
  /\ thread' = [thread EXCEPT ![r] = Spawned(engine, FALSE)]
  /\ Become(r, IF engine THEN "draining" ELSE "joining")
  /\ UNCHANGED <<client, record, shadow, callback, crashes>>

SnapshotFails(r) ==
  /\ task[r] \in {"copied", "armed"}
  /\ Become(r, "cleanup")
  /\ UNCHANGED <<thread, client, record, shadow, callback, crashes>>

Drain(r) ==
  /\ task[r] = "draining" /\ client[r].got < thread[r].sent
  /\ client' = [client EXCEPT ![r].got = @ + 1]
  /\ UNCHANGED <<task, thread, record, shadow, callback, crashes>>

\* The chunks end with their sender, which finish drops before the handler
\* is done.
Drained(r) ==
  /\ task[r] = "draining" /\ ~ thread[r].open /\ client[r].got = thread[r].sent
  /\ Become(r, "joining")
  /\ UNCHANGED <<thread, client, record, shadow, callback, crashes>>

\* Wrong: the end of the chunks is taken for the end of the handler.
SlipHandlerOver(r) == TRUE

HandlerOver(r) == thread[r].pc = "done"

Joined(r) ==
  /\ task[r] = "joining" /\ HandlerOver(r)
  /\ Become(r, "cleanup")
  /\ UNCHANGED <<thread, client, record, shadow, callback, crashes>>

\* cleanup_dry_run, whatever the outcome: one DEL per key that SCAN gave, up
\* to the first that fails, which is only logged.
Cleanup(r) ==
  /\ task[r] = "cleanup"
  /\ \E left \in SUBSET shadow[r].keys :
       shadow' = [shadow EXCEPT
         ![r] = [keys |-> left, ttl |-> shadow[r].ttl \cap left, refused |-> left]]
  /\ Become(r, "cleaned")
  /\ Sees(r, "response")
  /\ UNCHANGED <<thread, record, callback, crashes>>

\* 60 seconds after they were armed, which a handler that streams may outlive.
Expire(r, k) ==
  /\ k \in shadow[r].ttl
  /\ shadow' = [shadow EXCEPT ![r].keys = @ \ {k}, ![r].ttl = @ \ {k}]
  /\ UNCHANGED <<task, thread, client, record, callback, crashes>>

-----------------------------------------------------------------------------
(* Clients and the process.                                                *)

Read(r) ==
  /\ client[r].here /\ client[r].sees = "head" /\ client[r].got < thread[r].sent
  /\ client' = [client EXCEPT ![r].got = @ + 1]
  /\ UNCHANGED <<task, thread, record, shadow, callback, crashes>>

\* A trap ends the body as finish does.
ReadEnd(r) ==
  /\ client[r].here /\ client[r].sees = "head"
  /\ ~ thread[r].open /\ client[r].got = thread[r].sent
  /\ Sees(r, "end")
  /\ UNCHANGED <<task, thread, record, shadow, callback, crashes>>

\* The future is dropped where it waits. A stream's journal task goes on.
Leave(r) ==
  /\ client[r].here
  /\ task[r] \in {"new", "awaiting", "draining", "joining", "streaming", "stream_journaled",
                  "answered"}
  /\ client' = [client EXCEPT ![r].here = FALSE]
  /\ CASE task[r] \in {"new", "awaiting"} -> Become(r, "dropped")
       [] task[r] \in {"draining", "joining"} -> Become(r, "abandoned")
       [] task[r] \in {"streaming", "stream_journaled", "answered"} -> UNCHANGED task
  /\ UNCHANGED <<thread, record, shadow, callback, crashes>>

\* The thread of a process that died.
Killed(x) == [x EXCEPT !.pc = IF @ = "done" THEN "done" ELSE "none", !.open = FALSE]

\* What is in Valkey stays.
Crash ==
  /\ crashes < MaxCrashes
  /\ crashes' = crashes + 1
  /\ task' = [r \in Req |-> IF task[r] \in {"answered", "cleaned"} THEN task[r] ELSE "crashed"]
  /\ thread' = [r \in Req |-> Killed(thread[r])]
  /\ callback' = [r \in Req |-> {c \in callback[r] : c.fire.st \notin {"due", "vetted"}}]
  /\ client' = [r \in Req |-> [client[r] EXCEPT !.here = FALSE]]
  /\ UNCHANGED <<record, shadow>>

-----------------------------------------------------------------------------

Dispatch(r) ==
  \/ Refuse(r) \/ Unmatched(r) \/ TakeHead(r) \/ Journal(r) \/ JoinFails(r) \/ Answer(r)
  \/ \E engine, callouts \in BOOLEAN : Match(r, engine, callouts)

Handler(r) ==
  \/ Start(r) \/ WriteChunk(r) \/ Send(r) \/ FinishStream(r) \/ Schedule(r)
  \/ \E k \in Key, anew \in BOOLEAN : Touch(r, k, anew)
  \/ \E ok \in BOOLEAN : End(r, ok)

Callbacks(r) ==
  \E c \in callback[r] :
    \/ \E addrs \in SUBSET Addr : Resolve(r, c, addrs)
    \/ \E a \in Addr : Deliver(r, c, a)

DryRun(r) ==
  \/ \E copied \in SUBSET Key : Snapshot(r, copied)
  \/ ArmShadow(r) \/ SnapshotFails(r) \/ Drain(r) \/ Drained(r) \/ Joined(r) \/ Cleanup(r)
  \/ \E k \in Key : Override(r, k) \/ Expire(r, k)
  \/ \E engine \in BOOLEAN : RunDry(r, engine)

Next ==
  \/ \E r \in Req : Dispatch(r) \/ Handler(r) \/ Callbacks(r) \/ DryRun(r)
                    \/ Read(r) \/ ReadEnd(r) \/ Leave(r)
  \/ Crash

Spec == Init /\ [][Next]_vars

\* Wasm that runs is interrupted at its deadline, a task that is ready runs,
\* and a client that stays reads what it is sent.
Fairness ==
  \A r \in Req :
    /\ WF_vars(\E ok \in BOOLEAN : End(r, ok))
    /\ WF_vars(Send(r)) /\ WF_vars(TakeHead(r)) /\ WF_vars(Journal(r)) /\ WF_vars(Answer(r))
    /\ WF_vars(Drain(r)) /\ WF_vars(Drained(r)) /\ WF_vars(Joined(r)) /\ WF_vars(Cleanup(r))
    /\ WF_vars(Read(r))

FairSpec == Spec /\ Fairness

-----------------------------------------------------------------------------

\* The channel holds what was sent and not read, within its capacity.
TypeOK ==
  /\ \A r \in Req :
       /\ thread[r].pc \in {"none", "running", "sending", "done"}
       /\ client[r].got \in 0..thread[r].sent
       /\ thread[r].sent - client[r].got <= Cap
       /\ thread[r].sent <= thread[r].tried
       /\ thread[r].scheduled \in 0..MaxCallbacks
       /\ shadow[r].keys \subseteq Key /\ shadow[r].ttl \subseteq shadow[r].keys
       /\ Cardinality(callback[r]) <= thread[r].scheduled
  /\ crashes \in 0..MaxCrashes

\* Who sees what a handler answered, or is called back by it, finds the
\* request in the journal, unless the write of the entry failed (server.rs:
\* "now that the response is built and the request is journaled"). A stream's
\* head comes before its entry.
JournalFirst ==
  \A r \in Req :
    /\ client[r].sees \in {"response", "error"} => task[r] = "cleaned" \/ record[r].is # "none"
    /\ callback[r] # {} => record[r].is # "none"

\* The entry of a stream counts the chunks the channel took: no fewer than
\* the client got, and exactly those when it read to the end. The client is
\* called disconnected only when it left.
StreamAccounted ==
  \A r \in Req :
    /\ record[r].is \in {"finished", "trapped", "client_disconnected"} =>
         /\ client[r].got <= record[r].chunks
         /\ client[r].sees = "end" => client[r].got = record[r].chunks
    /\ record[r].is = "client_disconnected" => ~ client[r].here

\* A callback connects to permitted addresses only, whatever the name
\* resolves to the next time, and also when it was mapped into IPv6.
OnlyVetted ==
  \A r \in Req : \A c \in callback[r] : \A a \in c.fire.to : Permitted(a)

\* A dry run that answers leaves no handler that could still write, so that
\* no key comes to its namespace afterwards: what is left there was there
\* when the cleanup ran, and is what the cleanup failed to remove.
DryCleaned ==
  \A r \in Req : task[r] = "cleaned" =>
    shadow[r].keys \subseteq shadow[r].refused /\ thread[r].pc \in {"none", "done"}

\* Every handler ends: neither a write before start, nor a full channel, nor
\* a client that goes away keeps its thread.
HandlersEnd ==
  \A r \in Req : thread[r].pc \in {"running", "sending"} ~> thread[r].pc \in {"none", "done"}
=============================================================================
