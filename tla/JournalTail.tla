---------------------------- MODULE JournalTail -----------------------------
(* The live tail of the journal: what is recorded on one replica reaches   *)
(* the SSE streams and the waiting tools of every replica.                 *)
(*                                                                         *)
(* Each replica has a bounded local broadcast (Journal::bus) that its      *)
(* consumers read, and one subscriber task (bus.rs) that feeds it from the *)
(* channel of the store while a consumer is attached. A writer delivers to *)
(* its own replica first and then publishes; the task drops what its own   *)
(* replica published.                                                      *)
EXTENDS Integers, FiniteSets, Sequences, SequencesExt

CONSTANTS
  Traffic,      \* the groups that receive traffic
  Replica,
  Consumer,     \* SSE streams, wait_for_request, tail_journal
  At,           \* At[t]: the replica that serves t
  Filter,       \* Filter[t]: the filter's group, or AnyGroup
  AnyGroup,
  Tool,         \* Tool[t]: "sse" never ends by itself
  Need,         \* count, max_entries
  Capacity,     \* JOURNAL_BUS_CAPACITY
  EventId,      \* bound: events that are held somewhere at one time
  Event,        \* Event[id]: the kind, the group and the origin of each
  MaxFaults     \* bound: connections and PUBLISH commands that fail

ASSUME TailAssumption ==
  /\ At \in [Consumer -> Replica]
  /\ AnyGroup \notin Traffic
  /\ Filter \in [Consumer -> Traffic \cup {AnyGroup}]
  /\ Tool \in [Consumer -> {"sse", "wait", "tail"}]
  /\ Need \in Nat \ {0} /\ Capacity \in Nat \ {0}
  /\ Event \in [EventId -> [kind : {"handled", "unmatched"}, group : Traffic, from : Replica]]
  /\ MaxFaults \in Nat

VARIABLES
  unsent,   \* events that are delivered locally and not yet published
  rx,       \* the consumers and their broadcast receivers
  session,  \* the subscriber task of each replica
  permit,   \* the permit that Journal::demand stores
  pipe,     \* what the store sent to a live session and it has not read
  faults    \* bound

tailVars == <<unsent, rx, session, permit, pipe, faults>>

Detached == [open |-> FALSE, buf |-> <<>>, missed |-> 0, dropped |-> 0,
             got |-> <<>>, owed |-> {}]

TailInit ==
  /\ unsent = {}
  /\ rx = [t \in Consumer |-> Detached]
  /\ session = [r \in Replica |-> "check"]
  /\ permit = [r \in Replica |-> FALSE]
  /\ pipe = [r \in Replica |-> <<>>]
  /\ faults = 0

Attached(r) == {t \in Consumer : At[t] = r /\ rx[t].open}

\* broadcast::Sender::send as one receiver sees it: a full ring forgets its
\* oldest event, and the receiver will be told how many it missed.
Pushed(x, id) ==
  IF Len(x.buf) < Capacity
  THEN [x EXCEPT !.buf = Append(@, id)]
  ELSE [x EXCEPT !.buf = Append(Tail(@), id), !.missed = @ + 1]

Sent(r, id) ==
  [t \in Consumer |-> IF t \in Attached(r) THEN Pushed(rx[t], id) ELSE rx[t]]

\* owed is what a consumer must be given or told it missed: what its own
\* replica sends while it is attached, and what a sibling publishes while the
\* session of its replica is up.
Owing(x, ts, id) ==
  [t \in Consumer |-> IF t \in ts THEN [x[t] EXCEPT !.owed = @ \cup {id}] ELSE x[t]]

Fault == faults < MaxFaults /\ faults' = faults + 1

-----------------------------------------------------------------------------
(* Publishing, at the end of record_handled and record_unmatched.          *)

\* An event that nobody holds any more can happen again: there is no end to
\* them.
Held(id) ==
  \/ id \in unsent
  \/ \E r \in Replica : Contains(pipe[r], id)
  \/ \E t \in Consumer : Contains(rx[t].buf, id) \/ Contains(rx[t].got, id)
                         \/ id \in rx[t].owed

\* The local broadcast comes first, and does not depend on the session.
Deliver(id) ==
  LET r == Event[id].from
  IN  /\ ~ Held(id)
      /\ unsent' = unsent \cup {id}
      /\ rx' = Owing(Sent(r, id), Attached(r), id)
      /\ UNCHANGED <<session, permit, pipe, faults>>

\* PUBLISH reaches every live session, the publisher's own included.
Publish(id) ==
  LET live == {r \in Replica : session[r] = "live"}
      reached == UNION {Attached(r) : r \in live \ {Event[id].from}}
  IN  /\ id \in unsent
      /\ unsent' = unsent \ {id}
      /\ pipe' = [r \in Replica |-> IF r \in live THEN Append(pipe[r], id) ELSE pipe[r]]
      /\ rx' = Owing(rx, reached, id)
      /\ UNCHANGED <<session, permit, faults>>

\* A PUBLISH that fails is logged.
PublishFails(id) ==
  /\ Fault
  /\ id \in unsent
  /\ unsent' = unsent \ {id}
  /\ UNCHANGED <<rx, session, permit, pipe>>

-----------------------------------------------------------------------------
(* The subscriber task.                                                    *)

Goto(r, pc) == session' = [session EXCEPT ![r] = pc]

\* await_demand: the count, and if nobody is attached the notification, which
\* is only registered when it is first polled.
CheckDemand(r) ==
  /\ session[r] = "check"
  /\ Goto(r, IF Attached(r) # {} THEN "connect" ELSE "wait")
  /\ UNCHANGED <<unsent, rx, permit, pipe, faults>>

Sleep(r) ==
  /\ session[r] = "wait"
  /\ ~ permit[r]
  /\ Goto(r, "asleep")
  /\ UNCHANGED <<unsent, rx, permit, pipe, faults>>

Woken(r) ==
  /\ session[r] \in {"wait", "asleep"}
  /\ permit[r]
  /\ permit' = [permit EXCEPT ![r] = FALSE]
  /\ Goto(r, "connect")
  /\ UNCHANGED <<unsent, rx, pipe, faults>>

Connect(r) ==
  /\ session[r] = "connect"
  /\ Goto(r, "live")
  /\ UNCHANGED <<unsent, rx, permit, pipe, faults>>

ConnectFails(r) ==
  /\ Fault
  /\ session[r] = "connect"
  /\ Goto(r, "backoff")
  /\ UNCHANGED <<unsent, rx, permit, pipe>>

\* The stream ends under the session; what it had not read is lost, and
\* nothing of it is owed any more.
StreamEnds(r) ==
  LET lost == {id \in EventId : Contains(pipe[r], id) /\ Event[id].from # r}
  IN  /\ Fault
      /\ session[r] = "live"
      /\ Goto(r, "backoff")
      /\ pipe' = [pipe EXCEPT ![r] = <<>>]
      /\ rx' = [t \in Consumer |-> IF At[t] = r THEN [rx[t] EXCEPT !.owed = @ \ lost]
                                                ELSE rx[t]]
      /\ UNCHANGED <<unsent, permit>>

Retry(r) ==
  /\ session[r] = "backoff"
  /\ Goto(r, "check")
  /\ UNCHANGED <<unsent, rx, permit, pipe, faults>>

\* Wrong: no look at the origin.
SlipPump(r) ==
  /\ session[r] = "live"
  /\ pipe[r] # <<>>
  /\ pipe' = [pipe EXCEPT ![r] = Tail(@)]
  /\ rx' = Sent(r, Head(pipe[r]))
  /\ UNCHANGED <<unsent, session, permit, faults>>

\* One message. An event of this replica was delivered when it was recorded.
Pump(r) ==
  LET id == Head(pipe[r])
  IN  /\ session[r] = "live"
      /\ pipe[r] # <<>>
      /\ pipe' = [pipe EXCEPT ![r] = Tail(@)]
      /\ rx' = IF Event[id].from = r THEN rx ELSE Sent(r, id)
      /\ UNCHANGED <<unsent, session, permit, faults>>

\* JOURNAL_IDLE_CHECK: five seconds without a message, and nobody attached.
IdleCheck(r) ==
  /\ session[r] = "live"
  /\ pipe[r] = <<>>
  /\ Attached(r) = {}
  /\ Goto(r, "check")
  /\ UNCHANGED <<unsent, rx, permit, pipe, faults>>

-----------------------------------------------------------------------------
(* Consumers.                                                              *)

\* JournalFilter::matches on the group, and what the tool does with the
\* event: wait_for_request counts handled requests only, and a filter on the
\* group hides every unmatched request.
Matches(t, id) ==
  LET e == Event[id]
  IN  IF e.kind = "unmatched" THEN Filter[t] = AnyGroup /\ Tool[t] # "wait"
                              ELSE Filter[t] \in {AnyGroup, e.group}

Satisfied(t) ==
  /\ Tool[t] # "sse"
  /\ Cardinality({i \in DOMAIN rx[t].got : Matches(t, rx[t].got[i])}) >= Need

\* Wrong: notify_waiters, which stores no permit.
SlipNotify(r) == permit' = [permit EXCEPT ![r] = session[r] = "asleep"]

\* subscribe: the receiver first, then notify_one, whose permit is kept when
\* the task is not waiting for it yet.
Notify(r) == permit' = [permit EXCEPT ![r] = TRUE]

Subscribe(t) ==
  /\ ~ rx[t].open
  /\ rx' = [rx EXCEPT ![t] = [Detached EXCEPT !.open = TRUE]]
  /\ Notify(At[t])
  /\ UNCHANGED <<unsent, session, pipe, faults>>

\* recv: Lagged, the count of the missed events, comes before the next event.
Lagged(t) ==
  /\ rx[t].open /\ ~ Satisfied(t)
  /\ rx[t].missed > 0
  /\ rx' = [rx EXCEPT ![t].dropped = @ + rx[t].missed, ![t].missed = 0]
  /\ UNCHANGED <<unsent, session, permit, pipe, faults>>

Receive(t) ==
  /\ rx[t].open /\ ~ Satisfied(t)
  /\ rx[t].missed = 0 /\ rx[t].buf # <<>>
  /\ rx' = [rx EXCEPT ![t].buf = Tail(@), ![t].got = Append(@, Head(rx[t].buf))]
  /\ UNCHANGED <<unsent, session, permit, pipe, faults>>

\* The tool has what it was asked for; its deadline passes while there is
\* nothing to receive (timeout_at polls the receiver first); or the client of
\* a stream goes away. The receiver is dropped.
Leave(t) ==
  /\ rx[t].open
  /\ Satisfied(t) \/ Tool[t] = "sse" \/ (rx[t].buf = <<>> /\ rx[t].missed = 0)
  /\ rx' = [rx EXCEPT ![t] = Detached]
  /\ UNCHANGED <<unsent, session, permit, pipe, faults>>

-----------------------------------------------------------------------------
TailNext ==
  \/ \E id \in EventId : \/ Deliver(id)
                    \/ Publish(id)
                    \/ PublishFails(id)
  \/ \E r \in Replica : \/ CheckDemand(r) \/ Sleep(r) \/ Woken(r) \/ Connect(r)
                        \/ ConnectFails(r) \/ StreamEnds(r) \/ Retry(r) \/ Pump(r) \/ IdleCheck(r)
  \/ \E t \in Consumer : Subscribe(t) \/ Lagged(t) \/ Receive(t) \/ Leave(t)

TailSpec == TailInit /\ [][TailNext]_tailVars

\* The task is a loop that tokio polls; its connection attempts and its sleeps
\* end. Consumers come, read and go as they like.
FairSpec ==
  /\ TailSpec
  /\ \A r \in Replica :
       /\ WF_tailVars(CheckDemand(r) \/ Sleep(r) \/ Woken(r) \/ Connect(r) \/ Retry(r) \/ Pump(r))
       /\ WF_tailVars(IdleCheck(r))

-----------------------------------------------------------------------------
\* The live tail, across lag, lost connections and lost publishes: nothing
\* reaches a consumer twice, and of what its own replica recorded since it
\* attached, whatever the state of the subscriber task, and of what siblings
\* published while the task's session was up, all is received, on its way, or
\* counted in the drops it is told of.
TailAccounted ==
  \A t \in Consumer : rx[t].open =>
    LET given == rx[t].got \o rx[t].buf
        queue == pipe[At[t]]
        coming == {i \in DOMAIN queue : Event[queue[i]].from # At[t]}
        absent == rx[t].owed \ (Range(given) \cup {queue[i] : i \in coming})
    IN  /\ IsInjective(given)
        /\ \A i \in coming : queue[i] \notin Range(given)
        /\ \A i, j \in coming : queue[i] = queue[j] => i = j
        /\ Cardinality(absent) <= rx[t].missed + rx[t].dropped

\* The subscriber task never idles while a consumer is attached: the
\* notification of one that attaches between the task's look at the count and
\* its wait is not lost.
DemandServed ==
  \A r \in Replica : Attached(r) # {} ~> session[r] = "live" \/ Attached(r) = {}
=============================================================================
