-------------------------- MODULE InvocationProofs ---------------------------
(* For any number of requests, addresses, chunks and crashes, any capacity *)
(* of the channel and any limit on callbacks: a callback connects to       *)
(* permitted addresses only, nobody sees what a handler did before it is   *)
(* in the journal, a dry run that answered leaves no handler behind, and   *)
(* the journal of a stream counts what the channel took.                   *)
EXTENDS Invocation, FiniteSetTheorems, TLAPS

-----------------------------------------------------------------------------
(* Callbacks.                                                              *)

(* What a callback holds: once it was vetted its addresses are permitted,  *)
(* and so is wherever it connected to.                                     *)
Clean(c) ==
  /\ c = [n |-> c.n, fire |-> c.fire]
  /\ c.fire = [st |-> c.fire.st, addrs |-> c.fire.addrs, to |-> c.fire.to]
  /\ c.fire.st = "vetted" => \A a \in c.fire.addrs : Permitted(a)
  /\ \A a \in c.fire.to : Permitted(a)

CallbackInv ==
  /\ callback = [r \in Req |-> callback[r]]
  /\ \A r \in Req : \A c \in callback[r] : Clean(c)

(* A callback that goes on is replaced by one that is clean again.         *)
LEMMA FireClean ==
  ASSUME CallbackInv, NEW r \in Req, NEW c \in callback[r], NEW st, NEW addrs, NEW to,
         Fire(r, c, [st |-> st, addrs |-> addrs, to |-> to]),
         st = "vetted" => \A a \in addrs : Permitted(a),
         \A a \in to : Permitted(a)
  PROVE  CallbackInv'
<1> DEFINE after == [st |-> st, addrs |-> addrs, to |-> to]
           next == [n |-> c.n, fire |-> after]
<1>1. Clean(c)
  BY DEF CallbackInv
<1>2. [c EXCEPT !.fire = after] = next
  <2>1. \A f : [[n |-> c.n, fire |-> f] EXCEPT !.fire = after] = next
    OBVIOUS
  <2> QED
    BY <1>1, <2>1 DEF Clean
<1>3. Clean(next)
  BY DEF Clean
<1> HIDE DEF after, next
<1>4. callback' = [callback EXCEPT ![r] = (@ \ {c}) \cup {next}]
  BY <1>2 DEF Fire, after
<1> QED
  BY <1>3, <1>4 DEF CallbackInv

LEMMA ResolveClean ==
  ASSUME CallbackInv, NEW r \in Req, NEW c, NEW addrs, Resolve(r, c, addrs)
  PROVE  CallbackInv'
<1>1. CASE Vetted(addrs)
  <2>1. Fire(r, c, [st |-> "vetted", addrs |-> addrs, to |-> {}]) /\ c \in callback[r]
    BY <1>1 DEF Resolve, Due
  <2> QED
    BY <1>1, <2>1, FireClean DEF Vetted
<1>2. CASE ~ Vetted(addrs)
  <2>1. Fire(r, c, [st |-> "denied", addrs |-> {}, to |-> {}]) /\ c \in callback[r]
    BY <1>2 DEF Resolve, Due
  <2> QED
    BY <2>1, FireClean
<1> QED
  BY <1>1, <1>2

LEMMA DeliverClean ==
  ASSUME CallbackInv, NEW r \in Req, NEW c, NEW a, Deliver(r, c, a)
  PROVE  CallbackInv'
<1>1. c \in callback[r] /\ c.fire.st = "vetted" /\ a \in c.fire.addrs
  BY DEF Deliver, Targets
<1>2. Clean(c)
  BY <1>1 DEF CallbackInv
<1>3. Permitted(a)
  BY <1>1, <1>2 DEF Clean
<1>4. Fire(r, c, [st |-> "fired", addrs |-> c.fire.addrs, to |-> {a}])
  BY DEF Deliver
<1> QED
  BY <1>1, <1>3, <1>4, FireClean

(* Only an answer, a callback that goes on and a crash change callbacks.   *)
LEMMA CallbacksKeep ==
  ASSUME NEW r \in Req,
         \/ Dispatch(r) /\ ~ Answer(r)
         \/ Handler(r) \/ DryRun(r) \/ Read(r) \/ ReadEnd(r) \/ Leave(r)
  PROVE  UNCHANGED callback
<1>1. CASE Dispatch(r) /\ ~ Answer(r)
  BY <1>1 DEF Dispatch, Refuse, Unmatched, TakeHead, Journal, JoinFails, Match
<1>2. CASE Handler(r)
  BY <1>2 DEF Handler, Start, WriteChunk, Send, FinishStream, Schedule, Touch, End
<1>3. CASE DryRun(r)
  BY <1>3 DEF DryRun, Snapshot, ArmShadow, SnapshotFails, Drain, Drained, Joined, Cleanup,
              Override, Expire, RunDry
<1>4. CASE Read(r) \/ ReadEnd(r) \/ Leave(r)
  BY <1>4 DEF Read, ReadEnd, Leave
<1> QED
  BY <1>1, <1>2, <1>3, <1>4

LEMMA CallbackStep == CallbackInv /\ [Next]_vars => CallbackInv'
<1> SUFFICES ASSUME CallbackInv, [Next]_vars PROVE CallbackInv'
  OBVIOUS
<1>1. ASSUME NEW r \in Req, Answer(r) PROVE CallbackInv'
  <2> DEFINE fresh == {[n |-> i, fire |-> Due] : i \in 1..thread[r].scheduled}
  <2>1. \A c \in fresh : Clean(c)
    BY DEF Clean, Due
  <2>2. callback' = [callback EXCEPT ![r] = fresh]
    BY <1>1 DEF Answer
  <2> HIDE DEF fresh
  <2> QED
    BY <2>1, <2>2 DEF CallbackInv
<1>2. ASSUME NEW r \in Req, Callbacks(r) PROVE CallbackInv'
  BY <1>2, ResolveClean, DeliverClean DEF Callbacks
<1>3. CASE Crash
  BY <1>3 DEF Crash, CallbackInv
<1>4. ASSUME NEW r \in Req,
             \/ Dispatch(r) /\ ~ Answer(r)
             \/ Handler(r) \/ DryRun(r) \/ Read(r) \/ ReadEnd(r) \/ Leave(r)
      PROVE  UNCHANGED callback
  BY <1>4, CallbacksKeep
<1>5. CASE UNCHANGED callback
  BY <1>5 DEF CallbackInv
<1> QED
  BY <1>1, <1>2, <1>3, <1>4, <1>5 DEF Next, vars

(* However the name of its host resolves, before, after or in parts: no    *)
(* callback connects to an address that the policy denies (egress.rs,      *)
(* callout.rs).                                                            *)
THEOREM CallbacksAreVetted == Spec => []OnlyVetted
<1>1. Init => CallbackInv
  BY DEF Init, CallbackInv
<1>2. CallbackInv => OnlyVetted
  BY DEF CallbackInv, Clean, OnlyVetted
<1> QED
  BY <1>1, <1>2, CallbackStep, PTL DEF Spec
-----------------------------------------------------------------------------
(* The journal.                                                            *)

(* A request that passed the journal has an entry, and so has whatever it  *)
(* showed or started afterwards.                                           *)
JournalInv ==
  /\ task = [r \in Req |-> task[r]]
  /\ client = [r \in Req |-> client[r]]
  /\ record = [r \in Req |-> record[r]]
  /\ callback = [r \in Req |-> callback[r]]
  /\ \A r \in Req : "sees" \in DOMAIN client[r] /\ "is" \in DOMAIN record[r]
  /\ \A r \in Req : MayAnswer(r) => record[r].is # "none"
  /\ JournalFirst

(* Steps that show nothing, start nothing and do not pass the journal.     *)
LEMMA NothingShown ==
  ASSUME JournalInv, UNCHANGED <<record, callback>>,
         task' = [r \in Req |-> task'[r]], client' = [r \in Req |-> client'[r]],
         \A r \in Req :
           /\ "sees" \in DOMAIN client'[r]
           /\ client'[r].sees \in {"response", "error"} =>
                client'[r].sees = client[r].sees \/ task'[r] = "cleaned"
           /\ MayAnswer(r)' => MayAnswer(r)
           /\ task[r] = "cleaned" => task'[r] = "cleaned"
  PROVE  JournalInv'
BY DEF JournalInv, JournalFirst, MayAnswer

LEMMA DispatchJournals ==
  ASSUME JournalInv, NEW r \in Req, Dispatch(r)
  PROVE  JournalInv'
<1>1. CASE Refuse(r) \/ TakeHead(r)
  BY <1>1, NothingShown DEF Refuse, TakeHead, Become, Sees, MayAnswer, JournalInv
<1>2. CASE \E engine, callouts \in BOOLEAN : Match(r, engine, callouts)
  BY <1>2, NothingShown DEF Match, Become, MayAnswer, JournalInv
<1>3. CASE Unmatched(r)
  BY <1>3 DEF Unmatched, Become, Sees, JournalInv, JournalFirst, MayAnswer
<1>4. CASE Journal(r)
  <2>1. PICK written \in BOOLEAN :
          record' = [record EXCEPT ![r] =
            [chunks |-> thread[r].sent, is |-> IF written THEN Disposition(r) ELSE "failed"]]
    BY <1>4 DEF Journal
  <2> DEFINE what == IF written THEN Disposition(r) ELSE "failed"
  <2>2. what # "none"
    BY DEF Disposition
  <2> HIDE DEF what
  <2>3. record' = [record EXCEPT ![r] = [chunks |-> thread[r].sent, is |-> what]]
    BY <2>1 DEF what
  <2>4. task[r] # "cleaned" /\ (task' = [task EXCEPT ![r] = "journaled"]
                               \/ task' = [task EXCEPT ![r] = "stream_journaled"])
    BY <1>4 DEF Journal, Become
  <2>5. UNCHANGED <<client, callback>>
    BY <1>4 DEF Journal
  <2> QED
    BY <2>2, <2>3, <2>4, <2>5 DEF JournalInv, JournalFirst, MayAnswer
<1>5. CASE Answer(r)
  <2>1. record[r].is # "none"
    BY <1>5 DEF Answer, JournalInv
  <2>2. \E what : UNCHANGED client \/ Sees(r, what)
    BY <1>5 DEF Answer
  <2>3. /\ client' = [s \in Req |-> client'[s]]
        /\ \A s \in Req : "sees" \in DOMAIN client'[s] /\ (s # r => client'[s] = client[s])
    BY <2>2 DEF Sees, JournalInv
  <2>4. /\ callback' = [s \in Req |-> callback'[s]]
        /\ \A s \in Req \ {r} : callback'[s] = callback[s]
        /\ task' = [task EXCEPT ![r] = "answered"] /\ UNCHANGED record
    BY <1>5 DEF Answer, Become, JournalInv
  <2> QED
    BY <2>1, <2>3, <2>4 DEF JournalInv, JournalFirst, MayAnswer
<1>6. CASE JoinFails(r)
  <2>1. /\ task[r] # "cleaned" /\ task' = [task EXCEPT ![r] = "answered"]
        /\ UNCHANGED <<record, callback>>
        /\ UNCHANGED client \/ client' = [client EXCEPT ![r].sees = "refusal"]
    BY <1>6 DEF JoinFails, Become, Sees
  <2> QED
    BY <2>1, NothingShown DEF MayAnswer, JournalInv
<1> QED
  BY <1>1, <1>2, <1>3, <1>4, <1>5, <1>6 DEF Dispatch

LEMMA JournalStep == JournalInv /\ [Next]_vars => JournalInv'
<1> SUFFICES ASSUME JournalInv, [Next]_vars PROVE JournalInv'
  OBVIOUS
<1>1. ASSUME NEW r \in Req, Dispatch(r) PROVE JournalInv'
  BY <1>1, DispatchJournals
<1>2. ASSUME NEW r \in Req, Handler(r) PROVE JournalInv'
  <2>1. UNCHANGED <<task, client, record, callback>>
    BY <1>2 DEF Handler, Start, WriteChunk, Send, FinishStream, Schedule, Touch, End
  <2> QED
    BY <2>1 DEF JournalInv, JournalFirst, MayAnswer
<1>3. ASSUME NEW r \in Req, Callbacks(r) PROVE JournalInv'
  <2>1. PICK c, after : c \in callback[r] /\ Fire(r, c, after) /\ UNCHANGED <<task, client, record>>
    BY <1>3 DEF Callbacks, Resolve, Deliver
  <2>2. callback[r] # {} /\ callback' = [s \in Req |-> callback'[s]]
        /\ \A s \in Req \ {r} : callback'[s] = callback[s]
    BY <2>1 DEF Fire, JournalInv
  <2> QED
    BY <2>1, <2>2 DEF JournalInv, JournalFirst, MayAnswer
<1>4. ASSUME NEW r \in Req, DryRun(r) PROVE JournalInv'
  <2>1. CASE \/ \E copied \in SUBSET Key : Snapshot(r, copied)
             \/ ArmShadow(r) \/ SnapshotFails(r) \/ Drained(r) \/ Joined(r)
             \/ \E engine \in BOOLEAN : RunDry(r, engine)
    <3>1. UNCHANGED <<client, record, callback>> /\ task[r] # "cleaned"
      BY <2>1 DEF Snapshot, ArmShadow, SnapshotFails, Drained, Joined, RunDry
    <3>2. \E pc : pc \notin {"journaled", "stream_journaled"} /\ task' = [task EXCEPT ![r] = pc]
      BY <2>1 DEF Snapshot, ArmShadow, SnapshotFails, Drained, Joined, RunDry, Become
    <3> QED
      BY <3>1, <3>2, NothingShown DEF MayAnswer, JournalInv
  <2>2. CASE \E k \in Key : Override(r, k) \/ Expire(r, k)
    <3>1. UNCHANGED <<task, client, record, callback>>
      BY <2>2 DEF Override, Expire
    <3> QED
      BY <3>1 DEF JournalInv, JournalFirst, MayAnswer
  <2>3. CASE Drain(r)
    BY <2>3, NothingShown DEF Drain, MayAnswer, JournalInv
  <2>4. CASE Cleanup(r)
    BY <2>4, NothingShown DEF Cleanup, Become, Sees, MayAnswer, JournalInv
  <2> QED
    BY <1>4, <2>1, <2>2, <2>3, <2>4 DEF DryRun
<1>5. ASSUME NEW r \in Req, Read(r) \/ ReadEnd(r) PROVE JournalInv'
  BY <1>5, NothingShown DEF Read, ReadEnd, Sees, MayAnswer, JournalInv
<1>6. ASSUME NEW r \in Req, Leave(r) PROVE JournalInv'
  <2>1. client' = [client EXCEPT ![r].here = FALSE] /\ UNCHANGED <<record, callback>>
    BY <1>6 DEF Leave
  <2>2. \/ UNCHANGED task
        \/ task[r] # "cleaned" /\ \E pc \in {"dropped", "abandoned"} : task' = [task EXCEPT ![r] = pc]
    BY <1>6 DEF Leave, Become
  <2> QED
    BY <2>1, <2>2, NothingShown DEF MayAnswer, JournalInv
<1>7. CASE Crash
  <2>1. UNCHANGED record
    BY <1>7 DEF Crash
  <2>2. /\ task' = [r \in Req |-> task'[r]]
        /\ \A r \in Req : ~ MayAnswer(r)' /\ (task[r] = "cleaned" => task'[r] = "cleaned")
    BY <1>7 DEF Crash, MayAnswer
  <2>3. /\ client' = [r \in Req |-> client'[r]]
        /\ \A r \in Req : "sees" \in DOMAIN client'[r] /\ client'[r].sees = client[r].sees
    BY <1>7 DEF Crash, JournalInv
  <2>4. /\ callback' = [r \in Req |-> callback'[r]]
        /\ \A r \in Req : callback'[r] \subseteq callback[r]
    BY <1>7 DEF Crash
  <2> QED
    BY <2>1, <2>2, <2>3, <2>4 DEF JournalInv, JournalFirst
<1>8. CASE UNCHANGED vars
  BY <1>8 DEF vars, JournalInv, JournalFirst, MayAnswer
<1> QED
  BY <1>1, <1>2, <1>3, <1>4, <1>5, <1>6, <1>7, <1>8 DEF Next

(* Whoever sees the answer of a handler, or is called back by it, finds    *)
(* the request in the journal, unless its write failed (server.rs); also   *)
(* when clients leave, tasks are dropped and the process dies.             *)
THEOREM AnswersAreJournaled == Spec => []JournalFirst
<1>1. Init => JournalInv
  BY DEF Init, JournalInv, JournalFirst, MayAnswer, NoRecord
<1>2. JournalInv => JournalFirst
  BY DEF JournalInv
<1> QED
  BY <1>1, <1>2, JournalStep, PTL DEF Spec
-----------------------------------------------------------------------------
(* Dry runs.                                                               *)

(* Where a request has no handler that runs: before one was spawned, and   *)
(* from the moment it was joined.                                          *)
AtRest == {"new", "copied", "armed", "cleanup", "cleaned"}

DryInv ==
  /\ task = [r \in Req |-> task[r]]
  /\ thread = [r \in Req |-> thread[r]]
  /\ shadow = [r \in Req |-> shadow[r]]
  /\ \A r \in Req : task[r] \in AtRest => thread[r].pc \in {"none", "done"}
  /\ \A r \in Req : task[r] = "cleaned" => shadow[r].keys \subseteq shadow[r].refused

(* Only a handler that runs changes its thread, and then not at rest.      *)
LEMMA HandlerAwake ==
  ASSUME DryInv, NEW r \in Req, Handler(r)
  PROVE  DryInv'
<1>1. task[r] \notin AtRest /\ UNCHANGED task
  BY DEF Handler, Start, WriteChunk, Send, FinishStream, Schedule, Touch, End, InThread, DryInv
<1>2. /\ thread' = [s \in Req |-> thread'[s]]
      /\ \A s \in Req \ {r} : thread'[s] = thread[s]
  BY DEF Handler, Start, WriteChunk, Send, FinishStream, Schedule, Touch, End, DryInv
<1>3. /\ shadow' = [s \in Req |-> shadow'[s]]
      /\ \A s \in Req \ {r} : shadow'[s] = shadow[s]
  BY DEF Handler, Start, WriteChunk, Send, FinishStream, Schedule, Touch, End, DryInv
<1> QED
  BY <1>1, <1>2, <1>3 DEF DryInv, AtRest

(* The request goes on, and neither its thread nor its keys change.        *)
LEMMA GoesOn ==
  ASSUME DryInv, NEW r \in Req, UNCHANGED <<thread, shadow>>,
         NEW pc, task' = [task EXCEPT ![r] = pc],
         pc # "cleaned", pc \in AtRest => thread[r].pc \in {"none", "done"}
  PROVE  DryInv'
BY DEF DryInv

LEMMA DispatchDry ==
  ASSUME DryInv, NEW r \in Req, Dispatch(r)
  PROVE  DryInv'
<1>1. CASE Refuse(r) \/ Unmatched(r) \/ TakeHead(r) \/ Journal(r) \/ JoinFails(r) \/ Answer(r)
  <2>1. \E pc : task' = [task EXCEPT ![r] = pc] /\ pc \notin AtRest
    BY <1>1 DEF Refuse, Unmatched, TakeHead, Journal, JoinFails, Answer, Become, AtRest
  <2>2. UNCHANGED <<thread, shadow>>
    BY <1>1 DEF Refuse, Unmatched, TakeHead, Journal, JoinFails, Answer
  <2> QED
    BY <2>1, <2>2, GoesOn DEF AtRest
<1>2. CASE \E engine, callouts \in BOOLEAN : Match(r, engine, callouts)
  <2>1. /\ task' = [task EXCEPT ![r] = "awaiting"] /\ UNCHANGED shadow
        /\ \E x : thread' = [thread EXCEPT ![r] = x]
    BY <1>2 DEF Match, Become
  <2> QED
    BY <2>1 DEF DryInv, AtRest
<1> QED
  BY <1>1, <1>2 DEF Dispatch

LEMMA DryRunDry ==
  ASSUME DryInv, NEW r \in Req, DryRun(r)
  PROVE  DryInv'
<1>1. CASE \/ \E copied \in SUBSET Key : Snapshot(r, copied)
           \/ ArmShadow(r) \/ SnapshotFails(r)
  <2>1. /\ task[r] \in AtRest \ {"cleaned"} /\ UNCHANGED thread
        /\ \E pc \in AtRest \ {"cleaned"} : task' = [task EXCEPT ![r] = pc]
    BY <1>1 DEF Snapshot, ArmShadow, SnapshotFails, Become, AtRest
  <2>2. /\ shadow' = [s \in Req |-> shadow'[s]]
        /\ \A s \in Req \ {r} : shadow'[s] = shadow[s]
    BY <1>1 DEF Snapshot, ArmShadow, SnapshotFails, DryInv
  <2> QED
    BY <2>1, <2>2 DEF DryInv
<1>2. CASE \E k \in Key : Override(r, k)
  <2>1. UNCHANGED <<task, thread>> /\ task[r] # "cleaned"
    BY <1>2 DEF Override, DryInv
  <2>2. /\ shadow' = [s \in Req |-> shadow'[s]]
        /\ \A s \in Req \ {r} : shadow'[s] = shadow[s]
    BY <1>2 DEF Override, DryInv
  <2> QED
    BY <2>1, <2>2 DEF DryInv
<1>8. ASSUME NEW k \in Key, Expire(r, k) PROVE DryInv'
  <2>1. UNCHANGED <<task, thread>>
    BY <1>8 DEF Expire
  <2>2. /\ shadow' = [s \in Req |-> shadow'[s]]
        /\ \A s \in Req \ {r} : shadow'[s] = shadow[s]
    BY <1>8 DEF Expire, DryInv
  <2>3. shadow[r].keys \subseteq shadow[r].refused => shadow'[r].keys \subseteq shadow'[r].refused
    <3> DEFINE d == shadow[r]
               ks == d.keys \ {k}
               d2 == [d EXCEPT !.keys = ks, !.ttl = @ \ {k}]
    <3>1. shadow'[r] = d2
      BY <1>8 DEF Expire, DryInv
    <3> HIDE DEF d
    <3>2. d2.refused = d.refused /\ (d2.keys = ks \/ d2.keys = d.keys)
      OBVIOUS
    <3> QED
      BY <3>1, <3>2 DEF d
  <2> QED
    BY <2>1, <2>2, <2>3 DEF DryInv
<1>3. CASE \E engine \in BOOLEAN : RunDry(r, engine)
  <2>1. /\ UNCHANGED shadow /\ \E x : thread' = [thread EXCEPT ![r] = x]
        /\ \E pc \in {"draining", "joining"} : task' = [task EXCEPT ![r] = pc]
    BY <1>3 DEF RunDry, Become
  <2> QED
    BY <2>1 DEF DryInv, AtRest
<1>4. CASE Drain(r)
  BY <1>4 DEF Drain, DryInv
<1>5. CASE Drained(r)
  BY <1>5, GoesOn DEF Drained, Become, AtRest
<1>6. CASE Joined(r)
  BY <1>6, GoesOn DEF Joined, Become, HandlerOver
<1>7. CASE Cleanup(r)
  <2>1. /\ task[r] = "cleanup" /\ task' = [task EXCEPT ![r] = "cleaned"] /\ UNCHANGED thread
        /\ \E left, ttl : shadow' = [shadow EXCEPT
             ![r] = [keys |-> left, ttl |-> ttl, refused |-> left]]
    BY <1>7 DEF Cleanup, Become
  <2>2. /\ shadow' = [s \in Req |-> shadow'[s]]
        /\ \A s \in Req \ {r} : shadow'[s] = shadow[s]
        /\ shadow'[r].keys \subseteq shadow'[r].refused
    BY <2>1 DEF DryInv
  <2>3. /\ task' = [s \in Req |-> task'[s]] /\ task'[r] = "cleaned"
        /\ \A s \in Req \ {r} : task'[s] = task[s]
    BY <2>1 DEF DryInv
  <2>4. thread[r].pc \in {"none", "done"} /\ UNCHANGED thread
    BY <2>1 DEF DryInv, AtRest
  <2> QED
    BY <2>2, <2>3, <2>4 DEF DryInv
<1> QED
  BY <1>1, <1>2, <1>3, <1>4, <1>5, <1>6, <1>7, <1>8 DEF DryRun

(* A thread that a crash ends was done, or is none.                        *)
LEMMA ThreadEnds ==
  ASSUME NEW x, x.pc \in {"none", "done"}
  PROVE  Killed(x).pc \in {"none", "done"}
<1> DEFINE pc == IF x.pc = "done" THEN "done" ELSE "none"
           y == [x EXCEPT !.pc = pc, !.open = FALSE]
<1>1. pc = x.pc
  OBVIOUS
<1> HIDE DEF pc
<1>2. y.pc = pc \/ y.pc = x.pc
  OBVIOUS
<1> QED
  BY <1>1, <1>2 DEF pc, Killed

LEMMA DryStep == DryInv /\ [Next]_vars => DryInv'
<1> SUFFICES ASSUME DryInv, [Next]_vars PROVE DryInv'
  OBVIOUS
<1>1. ASSUME NEW r \in Req, Leave(r) PROVE DryInv'
  <2>1. \/ UNCHANGED task
        \/ \E pc \in {"dropped", "abandoned"} : task' = [task EXCEPT ![r] = pc]
    BY <1>1 DEF Leave, Become
  <2>2. UNCHANGED <<thread, shadow>>
    BY <1>1 DEF Leave
  <2> QED
    BY <2>1, <2>2 DEF DryInv, AtRest
<1>2. CASE Crash
  <2>1. /\ task' = [r \in Req |-> task'[r]]
        /\ \A r \in Req : task'[r] \in AtRest => task'[r] = task[r]
    BY <1>2 DEF Crash, AtRest
  <2>2. /\ thread' = [r \in Req |-> thread'[r]]
        /\ UNCHANGED shadow
    BY <1>2 DEF Crash
  <2>3. \A r \in Req : task'[r] \in AtRest => task[r] = "cleaned"
    BY <1>2 DEF Crash, AtRest
  <2>4. \A r \in Req : task'[r] \in AtRest => thread'[r].pc \in {"none", "done"}
    <3>1. \A r \in Req : thread'[r] = Killed(thread[r])
      BY <1>2 DEF Crash
    <3> QED
      <4> SUFFICES ASSUME NEW r \in Req, task'[r] \in AtRest
                   PROVE  thread'[r].pc \in {"none", "done"}
        OBVIOUS
      <4>1. thread[r].pc \in {"none", "done"}
        BY <2>3 DEF DryInv, AtRest
      <4> QED
        BY <3>1, <4>1, ThreadEnds
  <2> QED
    BY <2>1, <2>2, <2>3, <2>4 DEF DryInv, AtRest
<1>3. ASSUME NEW r \in Req, Read(r) \/ ReadEnd(r) \/ Callbacks(r) PROVE DryInv'
  <2>1. UNCHANGED <<task, thread, shadow>>
    BY <1>3 DEF Read, ReadEnd, Callbacks, Resolve, Deliver
  <2> QED
    BY <2>1 DEF DryInv
<1>4. CASE UNCHANGED vars
  BY <1>4 DEF vars, DryInv
<1> QED
  BY <1>1, <1>2, <1>3, <1>4, HandlerAwake, DispatchDry, DryRunDry DEF Next

(* A dry run that answered left no handler that could still write: every   *)
(* key of its namespace is one that the cleanup found and failed to remove *)
(* (dry_run.rs:127-131, cleanup_dry_run).                                  *)
THEOREM DryRunsCleanUp == Spec => []DryCleaned
<1>1. Init => DryInv
  BY DEF Init, DryInv, NoThread
<1>2. DryInv => DryCleaned
  BY DEF DryInv, DryCleaned, AtRest
<1> QED
  BY <1>1, <1>2, DryStep, PTL DEF Spec
-----------------------------------------------------------------------------
(* Streams.                                                                *)

Places ==
  {"new", "awaiting", "streaming", "journaled", "stream_journaled", "answered", "dropped",
   "copied", "armed", "draining", "joining", "cleanup", "cleaned", "abandoned", "crashed"}
Counters == {"none", "running", "sending", "done"}
Threads ==
  [pc : Counters, engine : BOOLEAN, callouts : BOOLEAN, started : BOOLEAN, open : BOOLEAN,
   sent : Nat, tried : Nat, noticed : BOOLEAN, ok : BOOLEAN, scheduled : 0..MaxCallbacks]
Views == {"nothing", "refusal", "head", "end", "response", "error"}
Clients == [here : BOOLEAN, got : Nat, sees : Views]
Streamed == {"finished", "trapped", "client_disconnected"}
Records == [chunks : Nat, is : Streamed \cup {"none", "unmatched", "buffered", "failed"}]

Shapes ==
  /\ task \in [Req -> Places]
  /\ thread \in [Req -> Threads]
  /\ client \in [Req -> Clients]
  /\ record \in [Req -> Records]

(* A request at place p with the handler x, the client c and the entry e.  *)
(* What was sent and not read fits into the channel, and only a handler    *)
(* that writes between start and finish adds to it.                        *)
Channel(x, c) ==
  /\ c.got <= x.sent
  /\ x.sent <= x.tried
  /\ x.sent - c.got <= Cap
  /\ x.pc = "sending" => x.open /\ x.sent < x.tried
  /\ x.pc \in {"none", "done"} => ~ x.open

(* What its place says about its handler and its client.                   *)
Placed(p, x, c, e) ==
  /\ p \in {"new", "copied", "armed"} =>
       x = NoThread /\ c.got = 0 /\ c.sees = "nothing" /\ e.is = "none"
  /\ p \in {"journaled", "stream_journaled"} => x.pc = "done"
  /\ p \in {"cleanup", "cleaned"} => x.pc \in {"none", "done"}
  /\ p = "joining" => ~ x.open
  /\ p \in {"dropped", "abandoned", "crashed"} => ~ c.here

(* What was shown, noticed or written about a stream is final.             *)
Final(x, c, e) ==
  /\ c.sees = "end" => ~ x.open /\ c.got = x.sent
  /\ x.noticed => ~ c.here
  /\ e.is \in Streamed => x.pc = "done" /\ e.chunks = x.sent
  /\ e.is = "client_disconnected" => ~ c.here

Sound(p, x, c, e) == Channel(x, c) /\ Placed(p, x, c, e) /\ Final(x, c, e)

StreamInv ==
  /\ Shapes
  /\ \A r \in Req : Sound(task[r], thread[r], client[r], record[r])

LEMMA StreamInit == Init => StreamInv
<1> SUFFICES ASSUME Init PROVE StreamInv
  OBVIOUS
<1>1. NoThread \in Threads
  BY InvocationAssumption DEF NoThread, Threads, Counters
<1>2. NoRecord \in Records
  BY DEF NoRecord, Records, Streamed
<1>3. [here |-> TRUE, got |-> 0, sees |-> "nothing"] \in Clients
  BY DEF Clients, Views
<1>4. Shapes
  BY <1>1, <1>2, <1>3 DEF Init, Shapes, Places
<1>5. ASSUME NEW r \in Req PROVE Sound(task[r], thread[r], client[r], record[r])
  BY InvocationAssumption DEF Init, Sound, Channel, Placed, Final, NoThread, NoRecord, Streamed
<1> QED
  BY <1>4, <1>5 DEF StreamInv

(* A step of a request gives it its parts anew, each of its shape, and     *)
(* leaves those of the others.                                             *)
LEMMA Replaced ==
  ASSUME StreamInv, NEW r \in Req,
         NEW p \in Places, NEW x \in Threads, NEW c \in Clients, NEW e \in Records,
         task' = [task EXCEPT ![r] = p], thread' = [thread EXCEPT ![r] = x],
         client' = [client EXCEPT ![r] = c], record' = [record EXCEPT ![r] = e],
         Sound(p, x, c, e)
  PROVE  StreamInv'
<1>1. Shapes'
  BY DEF StreamInv, Shapes
<1>2. ASSUME NEW s \in Req PROVE Sound(task[s], thread[s], client[s], record[s])'
  <2>1. CASE s = r
    <3>1. task'[s] = p /\ thread'[s] = x /\ client'[s] = c /\ record'[s] = e
      BY <2>1 DEF StreamInv, Shapes
    <3> QED
      BY <3>1 DEF Sound, Channel, Placed, Final
  <2>2. CASE s # r
    <3>1. /\ task'[s] = task[s] /\ thread'[s] = thread[s]
          /\ client'[s] = client[s] /\ record'[s] = record[s]
      BY <2>2 DEF StreamInv, Shapes
    <3> QED
      BY <3>1 DEF StreamInv, Sound, Channel, Placed, Final
  <2> QED
    BY <2>1, <2>2
<1> QED
  BY <1>1, <1>2 DEF StreamInv

(* What a step leaves alone it gives as it was.                            *)
LEMMA Same ==
  ASSUME StreamInv, NEW r \in Req
  PROVE  /\ task[r] \in Places /\ thread[r] \in Threads
         /\ client[r] \in Clients /\ record[r] \in Records
         /\ Sound(task[r], thread[r], client[r], record[r])
         /\ task = [task EXCEPT ![r] = task[r]] /\ thread = [thread EXCEPT ![r] = thread[r]]
         /\ client = [client EXCEPT ![r] = client[r]] /\ record = [record EXCEPT ![r] = record[r]]
BY DEF StreamInv, Shapes

LEMMA ClientShapes ==
  ASSUME NEW c \in Clients, NEW v \in Views, NEW n \in Nat
  PROVE  /\ [c EXCEPT !.sees = v] \in Clients
         /\ [c EXCEPT !.got = n] \in Clients
         /\ [c EXCEPT !.here = FALSE] \in Clients
BY DEF Clients

LEMMA SpawnedShape ==
  ASSUME NEW engine \in BOOLEAN, NEW callouts \in BOOLEAN
  PROVE  /\ Spawned(engine, callouts) \in Threads
         /\ Spawned(engine, callouts).pc = "running" /\ Spawned(engine, callouts).sent = 0
         /\ Spawned(engine, callouts).open = engine /\ Spawned(engine, callouts).tried = 0
         /\ Spawned(engine, callouts).noticed = FALSE
<1>1. NoThread \in Threads /\ NoThread.sent = 0 /\ NoThread.tried = 0 /\ NoThread.noticed = FALSE
  BY InvocationAssumption DEF NoThread, Threads, Counters
<1>2. Spawned(engine, callouts) \in Threads
  <2>1. \A pc \in Counters :
          [NoThread EXCEPT !.pc = pc, !.engine = engine, !.callouts = callouts, !.open = engine]
            \in Threads
    BY <1>1 DEF Threads
  <2> QED
    BY <2>1 DEF Spawned, Counters
<1> QED
  BY <1>1, <1>2 DEF Spawned, Threads

(* A request that gets its handler: nothing was sent, shown or written.    *)
LEMMA SpawnedSound ==
  ASSUME NEW engine \in BOOLEAN, NEW callouts \in BOOLEAN, NEW c, NEW e, NEW x,
         NEW before \in {"new", "armed"}, Sound(before, x, c, e),
         NEW p \in {"awaiting", "draining", "joining"}, p = "joining" => ~ engine
  PROVE  Sound(p, Spawned(engine, callouts), c, e)
<1> DEFINE y == Spawned(engine, callouts)
<1>1. y.pc = "running" /\ y.sent = 0 /\ y.tried = 0 /\ y.noticed = FALSE /\ y.open = engine
  BY SpawnedShape
<1> HIDE DEF y
<1>2. c.got = 0 /\ c.sees = "nothing" /\ e.is = "none"
  BY DEF Sound, Placed
<1>3. Channel(y, c)
  BY <1>1, <1>2, InvocationAssumption DEF Channel
<1>4. Placed(p, y, c, e) /\ Final(y, c, e)
  BY <1>1, <1>2 DEF Placed, Final, Streamed
<1> QED
  BY <1>3, <1>4 DEF Sound, y

(* One chunk of those that were sent is read.                              *)
LEMMA OneRead ==
  ASSUME NEW c \in Clients, NEW x \in Threads, NEW p, NEW e,
         Sound(p, x, c, e), c.got < x.sent, p \notin {"new", "copied", "armed"}
  PROVE  /\ [c EXCEPT !.got = @ + 1] \in Clients
         /\ Sound(p, x, [c EXCEPT !.got = @ + 1], e)
<1> DEFINE c2 == [c EXCEPT !.got = @ + 1]
<1>1. c2 \in Clients /\ c2.got = c.got + 1 /\ c2.here = c.here /\ c2.sees = c.sees
  BY DEF Clients
<1>2. c.got \in Nat /\ x.sent \in Nat
  BY DEF Clients, Threads
<1> HIDE DEF c2
<1>3. Channel(x, c2)
  BY <1>1, <1>2, InvocationAssumption DEF Sound, Channel
<1>4. Placed(p, x, c2, e) /\ Final(x, c2, e)
  BY <1>1, <1>2 DEF Sound, Placed, Final
<1> QED
  BY <1>1, <1>3, <1>4 DEF Sound, c2

LEMMA DispatchStreams ==
  ASSUME StreamInv, NEW r \in Req, Dispatch(r)
  PROVE  StreamInv'
<1> DEFINE x == thread[r]
           c == client[r]
           e == record[r]
           seen(v) == [c EXCEPT !.sees = v]
<1>a. /\ x \in Threads /\ c \in Clients /\ e \in Records /\ Sound(task[r], x, c, e)
      /\ thread = [thread EXCEPT ![r] = x] /\ client = [client EXCEPT ![r] = c]
      /\ record = [record EXCEPT ![r] = e]
  BY Same
<1>b. \A v \in Views : /\ seen(v) \in Clients /\ seen(v).here = c.here
                       /\ seen(v).got = c.got /\ seen(v).sees = v
  BY <1>a, ClientShapes DEF Clients
<1>c. \A v : client' = [client EXCEPT ![r].sees = v] => client' = [client EXCEPT ![r] = seen(v)]
  OBVIOUS
<1>1. CASE Refuse(r)
  <2> HIDE DEF x, c, e, seen
  <2>1. /\ task' = [task EXCEPT ![r] = "answered"] /\ thread' = [thread EXCEPT ![r] = x]
        /\ client' = [client EXCEPT ![r] = seen("refusal")] /\ record' = [record EXCEPT ![r] = e]
    BY <1>a, <1>1, <1>c DEF Refuse, Become, Sees
  <2>2. Sound("answered", x, seen("refusal"), e)
    BY <1>a, <1>1, <1>b DEF Refuse, Sound, Channel, Placed, Final, Views, Streamed, NoThread
  <2> QED
    BY <1>a, <1>b, <2>1, <2>2, Replaced DEF Places, Views
<1>2. CASE Unmatched(r)
  <2> DEFINE e2 == [e EXCEPT !.is = "unmatched"]
  <2>0. record' = [record EXCEPT ![r] = e2]
    BY <1>2 DEF Unmatched
  <2> HIDE DEF x, c, e, seen
  <2>1. e2 \in Records /\ e2.is = "unmatched"
    BY <1>a DEF Records
  <2> HIDE DEF e2
  <2>2. /\ task' = [task EXCEPT ![r] = "answered"] /\ thread' = [thread EXCEPT ![r] = x]
        /\ client' = [client EXCEPT ![r] = seen("refusal")]
    BY <1>a, <1>2, <1>c DEF Unmatched, Become, Sees
  <2>3. Sound("answered", x, seen("refusal"), e2)
    BY <1>a, <1>2, <1>b, <2>1
    DEF Unmatched, Sound, Channel, Placed, Final, Views, Streamed, NoThread
  <2> QED
    BY <1>a, <1>b, <2>0, <2>1, <2>2, <2>3, Replaced DEF Places, Views
<1>3. CASE TakeHead(r)
  <2> HIDE DEF x, c, e, seen
  <2>1. /\ task' = [task EXCEPT ![r] = "streaming"] /\ client' = [client EXCEPT ![r] = seen("head")]
        /\ thread' = [thread EXCEPT ![r] = x] /\ record' = [record EXCEPT ![r] = e]
    BY <1>a, <1>3, <1>c DEF TakeHead, Become, Sees
  <2>2. Sound("streaming", x, seen("head"), e)
    BY <1>a, <1>3, <1>b DEF TakeHead, Sound, Channel, Placed, Final, Views
  <2> QED
    BY <1>a, <1>b, <2>1, <2>2, Replaced DEF Places, Views
<1>4. CASE Journal(r)
  <2>1. PICK written \in BOOLEAN :
          record' = [record EXCEPT ![r] =
            [chunks |-> x.sent, is |-> IF written THEN Disposition(r) ELSE "failed"]]
    BY <1>4 DEF Journal
  <2>2. x.pc = "done"
    BY <1>4 DEF Journal, MayJournal
  <2> DEFINE e2 == [chunks |-> x.sent, is |-> IF written THEN Disposition(r) ELSE "failed"]
  <2>3. /\ e2.chunks = x.sent
        /\ e2.is \in {"failed", "buffered", "finished", "trapped", "client_disconnected"}
        /\ e2.is = "client_disconnected" => x.noticed
    BY DEF Disposition
  <2> HIDE DEF x, c, e, seen
  <2>4. e2 \in Records
    BY <1>a, <2>3 DEF Records, Streamed, Threads
  <2>5. record' = [record EXCEPT ![r] = e2]
    BY <2>1
  <2> HIDE DEF e2
  <2>6. PICK p \in {"journaled", "stream_journaled"} : task' = [task EXCEPT ![r] = p]
    BY <1>4 DEF Journal, Become
  <2>7. thread' = [thread EXCEPT ![r] = x] /\ client' = [client EXCEPT ![r] = c]
    BY <1>a, <1>4 DEF Journal
  <2>8. Sound(p, x, c, e2)
    BY <1>a, <2>2, <2>3 DEF Sound, Channel, Placed, Final, Streamed
  <2> QED
    <3>1. p \in Places
      BY DEF Places
    <3> QED
      BY <1>a, <2>4, <2>5, <2>6, <2>7, <2>8, <3>1, Replaced
<1>5. CASE Answer(r)
  <2> HIDE DEF x, c, e, seen
  <2>1. /\ task' = [task EXCEPT ![r] = "answered"]
        /\ thread' = [thread EXCEPT ![r] = x] /\ record' = [record EXCEPT ![r] = e]
    BY <1>a, <1>5 DEF Answer, Become
  <2>2. PICK c2 \in {c, seen("response"), seen("error")} : client' = [client EXCEPT ![r] = c2]
    BY <1>a, <1>5, <1>c DEF Answer, Sees
  <2>3. /\ c2 \in Clients /\ c2.here = c.here /\ c2.got = c.got
        /\ c2.sees \in {c.sees, "response", "error"}
    BY <1>a, <1>b, <2>2 DEF Views
  <2>4. Sound("answered", x, c2, e)
    BY <1>a, <2>3 DEF Sound, Channel, Placed, Final
  <2> QED
    BY <1>a, <2>1, <2>2, <2>3, <2>4, Replaced DEF Places
<1>6. ASSUME NEW engine \in BOOLEAN, NEW callouts \in BOOLEAN, Match(r, engine, callouts)
      PROVE  StreamInv'
  <2> HIDE DEF x, c, e, seen
  <2>1. /\ task' = [task EXCEPT ![r] = "awaiting"]
        /\ thread' = [thread EXCEPT ![r] = Spawned(engine, callouts)]
        /\ client' = [client EXCEPT ![r] = c] /\ record' = [record EXCEPT ![r] = e]
    BY <1>a, <1>6 DEF Match, Become
  <2>2. task[r] = "new"
    BY <1>6 DEF Match
  <2>3. Sound("awaiting", Spawned(engine, callouts), c, e)
    BY <1>a, <2>2, SpawnedSound
  <2> QED
    BY <1>a, <2>1, <2>3, SpawnedShape, Replaced DEF Places
<1>7. CASE JoinFails(r)
  <2> HIDE DEF x, c, e, seen
  <2>1. /\ task' = [task EXCEPT ![r] = "answered"]
        /\ thread' = [thread EXCEPT ![r] = x] /\ record' = [record EXCEPT ![r] = e]
    BY <1>a, <1>7 DEF JoinFails, Become
  <2>2. PICK c2 \in {c, seen("refusal")} : client' = [client EXCEPT ![r] = c2]
    BY <1>a, <1>7, <1>c DEF JoinFails, Sees
  <2>3. /\ c2 \in Clients /\ c2.here = c.here /\ c2.got = c.got
        /\ c2.sees \in {c.sees, "refusal"}
    BY <1>a, <1>b, <2>2 DEF Views
  <2>4. Sound("answered", x, c2, e)
    BY <1>a, <2>3 DEF Sound, Channel, Placed, Final
  <2> QED
    BY <1>a, <2>1, <2>2, <2>3, <2>4, Replaced DEF Places
<1> QED
  BY <1>1, <1>2, <1>3, <1>4, <1>5, <1>6, <1>7 DEF Dispatch

LEMMA HandlerStreams ==
  ASSUME StreamInv, NEW r \in Req, Handler(r)
  PROVE  StreamInv'
<1> DEFINE x == thread[r]
           c == client[r]
           e == record[r]
<1>a. /\ x \in Threads /\ c \in Clients /\ e \in Records /\ Sound(task[r], x, c, e)
      /\ task[r] \in Places /\ task = [task EXCEPT ![r] = task[r]]
      /\ client = [client EXCEPT ![r] = c] /\ record = [record EXCEPT ![r] = e]
  BY Same
<1>b. UNCHANGED <<task, client, record>>
  BY DEF Handler, Start, WriteChunk, Send, FinishStream, Schedule, Touch, End
<1>c. x.pc \in {"running", "sending"}
  BY DEF Handler, Start, WriteChunk, Send, FinishStream, Schedule, Touch, End, InThread
<1>d. /\ task[r] \notin {"new", "copied", "armed"}
      /\ task[r] \notin {"journaled", "stream_journaled", "cleanup", "cleaned"}
      /\ e.is \notin Streamed
  BY <1>a, <1>c DEF Sound, Placed, Final, NoThread
<1>e. ASSUME NEW y \in Threads, thread' = [thread EXCEPT ![r] = y],
             Channel(y, c), task[r] = "joining" => ~ y.open,
             c.sees = "end" => ~ y.open /\ c.got = y.sent, y.noticed => ~ c.here
      PROVE  StreamInv'
  <2> HIDE DEF x, c, e
  <2>1. Placed(task[r], y, c, e) /\ Final(y, c, e)
    BY <1>a, <1>d, <1>e DEF Sound, Placed, Final
  <2>2. Sound(task[r], y, c, e)
    BY <1>e, <2>1 DEF Sound
  <2> QED
    BY <1>a, <1>b, <1>e, <2>2, Replaced
<1>1. CASE Start(r)
  <2> DEFINE y == [x EXCEPT !.started = TRUE]
  <2>1. thread' = [thread EXCEPT ![r] = y]
    BY <1>1 DEF Start
  <2> HIDE DEF x, c, e
  <2>2. y \in Threads
    BY <1>a DEF Threads
  <2>3. /\ y.pc = x.pc /\ y.open = x.open /\ y.sent = x.sent
        /\ y.tried = x.tried /\ y.noticed = x.noticed
    BY <1>a DEF Threads
  <2> HIDE DEF y
  <2> QED
    BY <1>a, <1>e, <2>1, <2>2, <2>3 DEF Sound, Channel, Placed, Final
<1>2. CASE WriteChunk(r)
  <2> DEFINE y == [x EXCEPT !.pc = "sending", !.tried = @ + 1]
  <2>1. thread' = [thread EXCEPT ![r] = y] /\ x.open
    BY <1>2 DEF WriteChunk, MayWrite
  <2> HIDE DEF x, c, e
  <2>2. x.sent \in Nat /\ x.tried \in Nat /\ x.tried + 1 \in Nat
    BY <1>a DEF Threads
  <2>3. y \in Threads
    BY <1>a, <2>2 DEF Threads, Counters
  <2>4. /\ y.pc = "sending" /\ y.open = x.open /\ y.sent = x.sent
        /\ y.tried = x.tried + 1 /\ y.noticed = x.noticed
    BY <1>a DEF Threads
  <2> HIDE DEF y
  <2>5. Channel(y, c)
    BY <1>a, <2>1, <2>2, <2>4 DEF Sound, Channel
  <2> QED
    BY <1>a, <1>e, <2>1, <2>3, <2>4, <2>5 DEF Sound, Placed, Final
<1>3. CASE Send(r) /\ Listening(r)
  <2> DEFINE y == [x EXCEPT !.pc = "running", !.sent = @ + 1]
  <2>1. thread' = [thread EXCEPT ![r] = y]
    BY <1>3 DEF Send, AfterSend
  <2>2. x.pc = "sending" /\ x.sent - c.got < Cap
    BY <1>3 DEF Send, Room
  <2> HIDE DEF x, c, e
  <2>3. x.sent \in Nat /\ x.tried \in Nat /\ c.got \in Nat
    BY <1>a DEF Threads, Clients
  <2>4. y \in Threads
    <3>1. x.sent + 1 \in Nat
      BY <2>3
    <3> QED
      BY <1>a, <3>1 DEF Threads, Counters
  <2>5. /\ y.pc = "running" /\ y.open = x.open /\ y.sent = x.sent + 1
        /\ y.tried = x.tried /\ y.noticed = x.noticed
    BY <1>a DEF Threads
  <2> HIDE DEF y
  <2>6. x.open /\ x.sent < x.tried /\ c.got <= x.sent
    BY <1>a, <2>2 DEF Sound, Channel
  <2>7. Channel(y, c)
    BY <2>2, <2>3, <2>5, <2>6, InvocationAssumption DEF Channel
  <2> QED
    BY <1>a, <1>e, <2>1, <2>4, <2>5, <2>6, <2>7 DEF Sound, Placed, Final
<1>4. CASE Send(r) /\ ~ Listening(r)
  <2> DEFINE y == [x EXCEPT !.pc = "running", !.noticed = TRUE]
  <2>1. thread' = [thread EXCEPT ![r] = y]
    BY <1>4 DEF Send, AfterSend
  <2>2. x.pc = "sending"
    BY <1>4 DEF Send
  <2>3. task[r] \in {"awaiting", "draining"} => Listening(r)
    BY DEF Listening
  <2>4. task[r] \in {"streaming", "stream_journaled", "answered"} /\ c.here => Listening(r)
    BY DEF Listening
  <2> HIDE DEF x, c, e
  <2>5. y \in Threads
    BY <1>a DEF Threads, Counters
  <2>6. /\ y.pc = "running" /\ y.open = x.open /\ y.sent = x.sent /\ y.tried = x.tried
    BY <1>a DEF Threads
  <2> HIDE DEF y
  <2>7. x.open /\ ~ c.here
    BY <1>4, <1>a, <1>d, <2>2, <2>3, <2>4 DEF Sound, Channel, Placed, Places
  <2> QED
    BY <1>a, <1>e, <2>1, <2>2, <2>5, <2>6, <2>7 DEF Sound, Channel, Placed, Final
<1>5. CASE FinishStream(r)
  <2> DEFINE y == [x EXCEPT !.open = FALSE]
  <2>1. thread' = [thread EXCEPT ![r] = y] /\ x.pc = "running"
    BY <1>5 DEF FinishStream, InThread
  <2> HIDE DEF x, c, e
  <2>2. y \in Threads
    BY <1>a DEF Threads
  <2>3. /\ y.pc = x.pc /\ y.open = FALSE /\ y.sent = x.sent
        /\ y.tried = x.tried /\ y.noticed = x.noticed
    BY <1>a DEF Threads
  <2> HIDE DEF y
  <2> QED
    BY <1>a, <1>e, <2>1, <2>2, <2>3 DEF Sound, Channel, Placed, Final
<1>6. CASE Schedule(r)
  <2> DEFINE y == [x EXCEPT !.scheduled = @ + 1]
  <2>1. thread' = [thread EXCEPT ![r] = y] /\ x.scheduled < MaxCallbacks
    BY <1>6 DEF Schedule
  <2> HIDE DEF x, c, e
  <2>2. y \in Threads
    <3>1. x.scheduled + 1 \in 0..MaxCallbacks
      BY <1>a, <2>1, InvocationAssumption DEF Threads
    <3> QED
      BY <1>a, <3>1 DEF Threads
  <2>3. /\ y.pc = x.pc /\ y.open = x.open /\ y.sent = x.sent
        /\ y.tried = x.tried /\ y.noticed = x.noticed
    BY <1>a DEF Threads
  <2> HIDE DEF y
  <2> QED
    BY <1>a, <1>e, <2>1, <2>2, <2>3 DEF Sound, Channel, Placed, Final
<1>7. ASSUME NEW ok \in BOOLEAN, End(r, ok) PROVE StreamInv'
  <2> DEFINE y == [x EXCEPT !.pc = "done", !.ok = ok, !.open = FALSE]
  <2>1. thread' = [thread EXCEPT ![r] = y]
    BY <1>7 DEF End
  <2> HIDE DEF x, c, e
  <2>2. y \in Threads
    BY <1>a DEF Threads, Counters
  <2>3. /\ y.pc = "done" /\ y.open = FALSE /\ y.sent = x.sent
        /\ y.tried = x.tried /\ y.noticed = x.noticed
    BY <1>a DEF Threads
  <2> HIDE DEF y
  <2> QED
    BY <1>a, <1>e, <2>1, <2>2, <2>3 DEF Sound, Channel, Placed, Final
<1>8. ASSUME NEW k \in Key, NEW anew \in BOOLEAN, Touch(r, k, anew) PROVE StreamInv'
  <2>1. UNCHANGED thread
    BY <1>8 DEF Touch
  <2> QED
    BY <1>b, <2>1 DEF StreamInv, Shapes
<1> QED
  BY <1>1, <1>2, <1>3, <1>4, <1>5, <1>6, <1>7, <1>8 DEF Handler

LEMMA DryRunStreams ==
  ASSUME StreamInv, NEW r \in Req, DryRun(r)
  PROVE  StreamInv'
<1> DEFINE x == thread[r]
           c == client[r]
           e == record[r]
<1>a. /\ x \in Threads /\ c \in Clients /\ e \in Records /\ Sound(task[r], x, c, e)
      /\ task[r] \in Places /\ task = [task EXCEPT ![r] = task[r]]
      /\ thread = [thread EXCEPT ![r] = x]
      /\ client = [client EXCEPT ![r] = c] /\ record = [record EXCEPT ![r] = e]
  BY Same
<1>b. UNCHANGED record
  BY DEF DryRun, Snapshot, ArmShadow, SnapshotFails, Drain, Drained, Joined, Cleanup, Override,
         Expire, RunDry
<1>1. ASSUME NEW p \in Places, task' = [task EXCEPT ![r] = p], UNCHANGED <<thread, client>>,
             Placed(p, x, c, e)
      PROVE  StreamInv'
  <2> HIDE DEF x, c, e
  <2>1. Sound(p, x, c, e)
    BY <1>a, <1>1 DEF Sound
  <2> QED
    BY <1>a, <1>b, <1>1, <2>1, Replaced
<1>2. CASE \E copied \in SUBSET Key : Snapshot(r, copied)
  <2>1. Placed("copied", x, c, e)
    BY <1>a, <1>2 DEF Snapshot, Sound, Placed
  <2> QED
    BY <1>1, <1>2, <2>1 DEF Snapshot, Become, Places
<1>3. CASE ArmShadow(r)
  <2>1. Placed("armed", x, c, e)
    BY <1>a, <1>3 DEF ArmShadow, Sound, Placed
  <2> QED
    BY <1>1, <1>3, <2>1 DEF ArmShadow, Become, Places
<1>4. CASE SnapshotFails(r)
  <2>1. Placed("cleanup", x, c, e)
    BY <1>a, <1>4 DEF SnapshotFails, Sound, Placed, NoThread
  <2> QED
    BY <1>1, <1>4, <2>1 DEF SnapshotFails, Become, Places
<1>5. CASE Drained(r)
  <2>1. Placed("joining", x, c, e)
    BY <1>5 DEF Drained, Placed
  <2> QED
    BY <1>1, <1>5, <2>1 DEF Drained, Become, Places
<1>6. CASE Joined(r)
  <2>1. Placed("cleanup", x, c, e)
    BY <1>6 DEF Joined, HandlerOver, Placed
  <2> QED
    BY <1>1, <1>6, <2>1 DEF Joined, Become, Places
<1>7. CASE Drain(r)
  <2> DEFINE c2 == [c EXCEPT !.got = @ + 1]
  <2>1. client' = [client EXCEPT ![r] = c2] /\ c.got < x.sent /\ UNCHANGED <<task, thread>>
    BY <1>7 DEF Drain
  <2>2. task[r] = "draining"
    BY <1>7 DEF Drain
  <2> HIDE DEF x, c, e
  <2>3. c2 \in Clients /\ Sound("draining", x, c2, e)
    BY <1>a, <2>1, <2>2, OneRead
  <2> HIDE DEF c2
  <2> QED
    BY <1>a, <1>b, <2>1, <2>2, <2>3, Replaced
<1>8. CASE Cleanup(r)
  <2> DEFINE c2 == [c EXCEPT !.sees = "response"]
  <2>1. /\ client' = [client EXCEPT ![r] = c2] /\ task' = [task EXCEPT ![r] = "cleaned"]
        /\ UNCHANGED thread
    BY <1>8 DEF Cleanup, Become, Sees
  <2>2. task[r] = "cleanup"
    BY <1>8 DEF Cleanup
  <2> HIDE DEF x, c, e
  <2>3. c2 \in Clients /\ c2.here = c.here /\ c2.got = c.got /\ c2.sees = "response"
    BY <1>a DEF Clients, Views
  <2> HIDE DEF c2
  <2>4. Sound("cleaned", x, c2, e)
    BY <1>a, <2>2, <2>3 DEF Sound, Channel, Placed, Final
  <2>5. "cleaned" \in Places
    BY DEF Places
  <2> QED
    BY <1>a, <1>b, <2>1, <2>3, <2>4, <2>5, Replaced
<1>9. ASSUME NEW engine \in BOOLEAN, RunDry(r, engine) PROVE StreamInv'
  <2> DEFINE p == IF engine THEN "draining" ELSE "joining"
  <2>1. /\ task' = [task EXCEPT ![r] = p] /\ UNCHANGED client
        /\ thread' = [thread EXCEPT ![r] = Spawned(engine, FALSE)]
    BY <1>9 DEF RunDry, Become
  <2>2. task[r] = "armed"
    BY <1>9 DEF RunDry
  <2> HIDE DEF x, c, e
  <2>3. p \in {"awaiting", "draining", "joining"} /\ p \in Places /\ (p = "joining" => ~ engine)
    BY DEF Places
  <2> HIDE DEF p
  <2>4. Sound(p, Spawned(engine, FALSE), c, e)
    <3>1. FALSE \in BOOLEAN /\ "armed" \in {"new", "armed"} /\ Sound("armed", x, c, e)
      BY <1>a, <2>2
    <3> QED
      BY <2>3, <3>1, SpawnedSound
  <2>5. Spawned(engine, FALSE) \in Threads
    BY SpawnedShape
  <2> QED
    BY <1>a, <1>b, <2>1, <2>3, <2>4, <2>5, Replaced
<1>10. ASSUME NEW k \in Key, Override(r, k) \/ Expire(r, k) PROVE StreamInv'
  <2>1. UNCHANGED <<task, thread, client>>
    BY <1>10 DEF Override, Expire
  <2> QED
    BY <1>b, <2>1 DEF StreamInv, Shapes
<1> QED
  BY <1>2, <1>3, <1>4, <1>5, <1>6, <1>7, <1>8, <1>9, <1>10 DEF DryRun

LEMMA ClientStreams ==
  ASSUME StreamInv, NEW r \in Req, Read(r) \/ ReadEnd(r) \/ Leave(r)
  PROVE  StreamInv'
<1> DEFINE x == thread[r]
           c == client[r]
           e == record[r]
<1>a. /\ x \in Threads /\ c \in Clients /\ e \in Records /\ Sound(task[r], x, c, e)
      /\ task[r] \in Places /\ task = [task EXCEPT ![r] = task[r]]
      /\ thread = [thread EXCEPT ![r] = x] /\ record = [record EXCEPT ![r] = e]
  BY Same
<1>b. UNCHANGED <<thread, record>>
  BY DEF Read, ReadEnd, Leave
<1>1. CASE Read(r)
  <2> DEFINE c2 == [c EXCEPT !.got = @ + 1]
  <2>1. /\ client' = [client EXCEPT ![r] = c2] /\ c.got < x.sent /\ c.sees = "head"
        /\ UNCHANGED task
    BY <1>1 DEF Read
  <2> HIDE DEF x, c, e
  <2>2. c2 \in Clients /\ Sound(task[r], x, c2, e)
    <3>1. task[r] \notin {"new", "copied", "armed"}
      BY <1>a, <2>1 DEF Sound, Placed
    <3> QED
      BY <1>a, <2>1, <3>1, OneRead
  <2> HIDE DEF c2
  <2> QED
    BY <1>a, <1>b, <2>1, <2>2, Replaced
<1>2. CASE ReadEnd(r)
  <2> DEFINE c2 == [c EXCEPT !.sees = "end"]
  <2>1. client' = [client EXCEPT ![r] = c2] /\ UNCHANGED task
    BY <1>2 DEF ReadEnd, Sees
  <2>2. c.sees = "head" /\ ~ x.open /\ c.got = x.sent
    BY <1>2 DEF ReadEnd
  <2> HIDE DEF x, c, e
  <2>3. c2 \in Clients /\ c2.here = c.here /\ c2.got = c.got /\ c2.sees = "end"
    BY <1>a DEF Clients, Views
  <2> HIDE DEF c2
  <2>4. Sound(task[r], x, c2, e)
    BY <1>a, <2>2, <2>3 DEF Sound, Channel, Placed, Final
  <2> QED
    BY <1>a, <1>b, <2>1, <2>3, <2>4, Replaced
<1>3. CASE Leave(r)
  <2> DEFINE c2 == [c EXCEPT !.here = FALSE]
  <2>1. client' = [client EXCEPT ![r] = c2]
    BY <1>3 DEF Leave
  <2>2. PICK p \in {task[r], "dropped", "abandoned"} :
          /\ task' = [task EXCEPT ![r] = p]
          /\ p = task[r] => task[r] \in {"streaming", "stream_journaled", "answered"}
    <3>1. CASE task[r] \in {"new", "awaiting"}
      BY <1>3, <3>1 DEF Leave, Become
    <3>2. CASE task[r] \in {"draining", "joining"}
      BY <1>3, <3>2 DEF Leave, Become
    <3>3. CASE task[r] \in {"streaming", "stream_journaled", "answered"}
      BY <1>3, <1>a, <3>3 DEF Leave
    <3> QED
      BY <1>3, <3>1, <3>2, <3>3 DEF Leave
  <2> HIDE DEF x, c, e
  <2>3. c2 \in Clients /\ c2.here = FALSE /\ c2.got = c.got /\ c2.sees = c.sees
    BY <1>a DEF Clients
  <2> HIDE DEF c2
  <2>4. p \in Places
    BY <1>a DEF Places
  <2>5. Sound(p, x, c2, e)
    BY <1>a, <2>2, <2>3 DEF Sound, Channel, Placed, Final
  <2> QED
    BY <1>a, <1>b, <2>1, <2>2, <2>3, <2>4, <2>5, Replaced
<1> QED
  BY <1>1, <1>2, <1>3

LEMMA CrashStreams == StreamInv /\ Crash => StreamInv'
<1> SUFFICES ASSUME StreamInv, Crash PROVE StreamInv'
  OBVIOUS
<1>1. ASSUME NEW r \in Req
      PROVE  /\ task'[r] \in Places /\ thread'[r] \in Threads /\ client'[r] \in Clients
             /\ Sound(task'[r], thread'[r], client'[r], record[r])
  <2> DEFINE x == thread[r]
             c == client[r]
             p == IF task[r] \in {"answered", "cleaned"} THEN task[r] ELSE "crashed"
             pc == IF x.pc = "done" THEN "done" ELSE "none"
             y == [x EXCEPT !.pc = pc, !.open = FALSE]
             c2 == [c EXCEPT !.here = FALSE]
  <2>1. thread'[r] = y /\ client'[r] = c2 /\ task'[r] = p
    BY DEF Crash, Killed
  <2>2. x \in Threads /\ c \in Clients /\ task[r] \in Places /\ Sound(task[r], x, c, record[r])
    BY Same
  <2> HIDE DEF x, c
  <2>3. pc \in Counters /\ (x.pc = "done" <=> pc = "done") /\ pc \in {"none", "done"}
    BY DEF Counters
  <2>4. /\ p \in Places /\ p \in {"answered", "cleaned", "crashed"}
        /\ p # "crashed" => p = task[r]
    BY <2>2 DEF Places
  <2> HIDE DEF pc, p
  <2>5. y \in Threads
    BY <2>2, <2>3 DEF Threads
  <2>6. /\ y.pc = pc /\ y.open = FALSE /\ y.sent = x.sent /\ y.tried = x.tried
    BY <2>2 DEF Threads
  <2>7. c2 \in Clients /\ c2.here = FALSE /\ c2.got = c.got /\ c2.sees = c.sees
    BY <2>2 DEF Clients
  <2> HIDE DEF y, c2
  <2>8. Sound(p, y, c2, record[r])
    BY <2>2, <2>3, <2>4, <2>6, <2>7 DEF Sound, Channel, Placed, Final
  <2> QED
    BY <2>1, <2>4, <2>5, <2>7, <2>8
<1>2. Shapes'
  BY <1>1 DEF Crash, StreamInv, Shapes
<1>3. UNCHANGED record
  BY DEF Crash
<1> QED
  BY <1>1, <1>2, <1>3 DEF StreamInv

LEMMA StreamStep == StreamInv /\ [Next]_vars => StreamInv'
<1> SUFFICES ASSUME StreamInv, [Next]_vars PROVE StreamInv'
  OBVIOUS
<1>1. ASSUME NEW r \in Req, Callbacks(r) PROVE UNCHANGED <<task, thread, client, record>>
  BY <1>1 DEF Callbacks, Resolve, Deliver
<1>2. ASSUME UNCHANGED <<task, thread, client, record>> PROVE StreamInv'
  BY <1>2 DEF StreamInv, Shapes
<1>3. CASE UNCHANGED vars
  BY <1>2, <1>3 DEF vars
<1> QED
  BY <1>1, <1>2, <1>3, DispatchStreams, HandlerStreams, DryRunStreams, ClientStreams, CrashStreams
  DEF Next

(* The journal of a stream counts what the channel took: never fewer than  *)
(* the client got, exactly those when it read to the end; and only a       *)
(* client that left is called disconnected (server.rs, StreamSummary). For *)
(* a channel of any capacity, and however the client, the handler's thread *)
(* and the task that journals interleave.                                  *)
THEOREM StreamsAreAccounted == Spec => []StreamAccounted
<1>1. StreamInv => StreamAccounted
  BY DEF StreamInv, Sound, Channel, Final, StreamAccounted, Streamed
<1> QED
  BY <1>1, StreamInit, StreamStep, PTL DEF Spec
-----------------------------------------------------------------------------
(* What a request holds.                                                   *)

(* Callbacks are those its handler scheduled, at most; the keys of a dry   *)
(* run that may expire are among its keys.                                 *)
Holds(r) ==
  /\ IsFiniteSet(callback[r]) /\ Cardinality(callback[r]) <= thread[r].scheduled
  /\ task[r] \in {"new", "copied", "armed"} => callback[r] = {}
  /\ shadow[r] \in [keys : SUBSET Key, ttl : SUBSET Key, refused : SUBSET Key]
  /\ shadow[r].ttl \subseteq shadow[r].keys
  /\ task[r] = "new" => shadow[r].ttl = {}

HeldInv ==
  /\ StreamInv
  /\ callback = [r \in Req |-> callback[r]] /\ shadow = [r \in Req |-> shadow[r]]
  /\ \A r \in Req : Holds(r)
  /\ crashes \in 0..MaxCrashes

(* No step takes back what the handler of a request scheduled, but one     *)
(* that starts its handler.                                                *)
LEMMA Scheduled ==
  ASSUME StreamInv, [Next]_vars, NEW r \in Req
  PROVE  \/ thread'[r].scheduled >= thread[r].scheduled
         \/ task[r] \in {"new", "armed"} /\ thread'[r].scheduled = 0
<1> DEFINE x == thread[r]
<1>a. thread \in [Req -> Threads] /\ x \in Threads /\ x.scheduled \in Nat
  BY InvocationAssumption DEF StreamInv, Shapes, Threads
<1>1. ASSUME NEW s \in Req, s # r,
             \/ Dispatch(s) \/ Handler(s) \/ Callbacks(s) \/ DryRun(s)
             \/ Read(s) \/ ReadEnd(s) \/ Leave(s)
      PROVE  thread'[r] = thread[r]
  <2>1. CASE Dispatch(s)
    BY <1>1, <1>a, <2>1 DEF Dispatch, Refuse, Unmatched, TakeHead, Journal, JoinFails, Answer, Match
  <2>2. CASE Handler(s)
    BY <1>1, <1>a, <2>2 DEF Handler, Start, WriteChunk, Send, FinishStream, Schedule, Touch, End
  <2>3. CASE Callbacks(s) \/ Read(s) \/ ReadEnd(s) \/ Leave(s)
    BY <2>3 DEF Callbacks, Resolve, Deliver, Read, ReadEnd, Leave
  <2>4. CASE DryRun(s)
    BY <1>1, <1>a, <2>4 DEF DryRun, Snapshot, ArmShadow, SnapshotFails, Drain, Drained, Joined,
                            Cleanup, Override, Expire, RunDry
  <2> QED
    BY <1>1, <2>1, <2>2, <2>3, <2>4
<1>2. ASSUME Dispatch(r)
      PROVE  thread'[r] = thread[r] \/ (task[r] = "new" /\ thread'[r].scheduled = 0)
  <2>1. CASE \E engine, callouts \in BOOLEAN : Match(r, engine, callouts)
    BY <1>a, <2>1 DEF Match, Spawned, NoThread
  <2>2. CASE Refuse(r) \/ Unmatched(r) \/ TakeHead(r) \/ Journal(r) \/ JoinFails(r) \/ Answer(r)
    <3>1. UNCHANGED thread
      BY <2>2 DEF Refuse, Unmatched, TakeHead, Journal, JoinFails, Answer
    <3> QED
      BY <3>1
  <2> QED
    BY <1>2, <2>1, <2>2 DEF Dispatch
<1>3. ASSUME DryRun(r)
      PROVE  thread'[r] = thread[r] \/ (task[r] = "armed" /\ thread'[r].scheduled = 0)
  <2>1. CASE \E engine \in BOOLEAN : RunDry(r, engine)
    BY <1>a, <2>1 DEF RunDry, Spawned, NoThread
  <2>2. ASSUME ~ \E engine \in BOOLEAN : RunDry(r, engine)
        PROVE  UNCHANGED thread
    BY <1>3, <2>2 DEF DryRun, Snapshot, ArmShadow, SnapshotFails, Drain, Drained, Joined, Cleanup,
                      Override, Expire
  <2> QED
    BY <2>1, <2>2
<1>4. ASSUME Handler(r) PROVE thread'[r].scheduled \in {x.scheduled, x.scheduled + 1}
  <2>1. CASE Start(r) \/ WriteChunk(r) \/ FinishStream(r) \/ Schedule(r)
    <3>1. CASE Start(r)
      BY <1>a, <3>1 DEF Start, Threads
    <3>2. CASE WriteChunk(r)
      BY <1>a, <3>2 DEF WriteChunk, Threads
    <3>3. CASE FinishStream(r)
      BY <1>a, <3>3 DEF FinishStream, Threads
    <3>4. CASE Schedule(r)
      BY <1>a, <3>4 DEF Schedule, Threads
    <3> QED
      BY <2>1, <3>1, <3>2, <3>3, <3>4
  <2>2. CASE Send(r)
    <3>1. CASE Listening(r)
      BY <1>a, <2>2, <3>1 DEF Send, AfterSend, Threads
    <3>2. CASE ~ Listening(r)
      BY <1>a, <2>2, <3>2 DEF Send, AfterSend, Threads
    <3> QED
      BY <3>1, <3>2
  <2>3. CASE \E k \in Key, anew \in BOOLEAN : Touch(r, k, anew)
    BY <2>3 DEF Touch
  <2>4. CASE \E ok \in BOOLEAN : End(r, ok)
    BY <1>a, <2>4 DEF End, Threads
  <2> QED
    BY <1>4, <2>1, <2>2, <2>3, <2>4 DEF Handler
<1>5. ASSUME Callbacks(r) \/ Read(r) \/ ReadEnd(r) \/ Leave(r) PROVE thread'[r] = thread[r]
  BY <1>5 DEF Callbacks, Resolve, Deliver, Read, ReadEnd, Leave
<1>6. CASE Crash
  <2> DEFINE pc == IF x.pc = "done" THEN "done" ELSE "none"
             y == [x EXCEPT !.pc = pc, !.open = FALSE]
  <2>1. thread'[r] = y
    BY <1>6 DEF Crash, Killed
  <2> HIDE DEF pc
  <2>2. y.scheduled = x.scheduled
    BY <1>a DEF Threads
  <2> QED
    BY <1>a, <2>1, <2>2
<1>7. CASE UNCHANGED vars
  BY <1>7, <1>a DEF vars
<1> QED
  <2> HIDE DEF x
  <2>1. x = thread[r]
    BY DEF x
  <2>2. thread'[r] = thread[r] => thread'[r].scheduled >= thread[r].scheduled
    BY <1>a, <2>1
  <2>3. Handler(r) => thread'[r].scheduled >= thread[r].scheduled
    BY <1>a, <1>4, <2>1
  <2> QED
    BY <1>1, <1>2, <1>3, <1>5, <1>6, <1>7, <2>2, <2>3 DEF Next

(* A finite set loses nothing of its bound when one element is replaced.   *)
LEMMA ReplaceOne ==
  ASSUME NEW S, IsFiniteSet(S), NEW a \in S, NEW b
  PROVE  /\ IsFiniteSet((S \ {a}) \cup {b})
         /\ Cardinality((S \ {a}) \cup {b}) <= Cardinality(S)
<1>1. /\ IsFiniteSet(S \ {a}) /\ Cardinality(S \ {a}) = Cardinality(S) - 1
      /\ Cardinality(S) \in Nat
  BY FS_RemoveElement, FS_CardinalityType
<1>2. Cardinality(S \ {a}) \in Nat
  BY <1>1, FS_CardinalityType
<1>3. /\ IsFiniteSet((S \ {a}) \cup {b})
      /\ Cardinality((S \ {a}) \cup {b}) \in {Cardinality(S \ {a}), Cardinality(S \ {a}) + 1}
  BY <1>1, FS_AddElement
<1> QED
  BY <1>1, <1>2, <1>3

(* The callbacks of an answer: one for each that was scheduled.            *)
LEMMA OnePerSchedule ==
  ASSUME NEW n \in Nat
  PROVE  LET cs == {[n |-> i, fire |-> Due] : i \in 1..n}
         IN  IsFiniteSet(cs) /\ Cardinality(cs) <= n
<1> DEFINE cs == {[n |-> i, fire |-> Due] : i \in 1..n}
           f == [i \in 1..n |-> [n |-> i, fire |-> Due]]
<1>1. f \in Surjection(1..n, cs)
  BY DEF Surjection
<1>2. IsFiniteSet(1..n) /\ Cardinality(1..n) = n
  BY FS_Interval
<1> HIDE DEF f, cs
<1>3. IsFiniteSet(cs) /\ Cardinality(cs) <= n
  BY <1>1, <1>2, FS_Surjection
<1> QED
  BY <1>3 DEF cs

(* The callbacks of a request: fewer, changed ones, or those of an answer. *)
LEMMA CallbackCount ==
  ASSUME HeldInv, [Next]_vars, NEW r \in Req
  PROVE  /\ IsFiniteSet(callback'[r])
         /\ \/ Cardinality(callback'[r]) <= Cardinality(callback[r])
            \/ Answer(r) /\ Cardinality(callback'[r]) <= thread[r].scheduled
<1>0. /\ callback = [s \in Req |-> callback[s]] /\ IsFiniteSet(callback[r])
      /\ Cardinality(callback[r]) \in Nat /\ thread[r].scheduled \in Nat
  BY FS_CardinalityType, InvocationAssumption DEF HeldInv, Holds, StreamInv, Shapes, Threads
<1>1. CASE callback'[r] = callback[r]
  BY <1>0, <1>1
<1>2. CASE Answer(r)
  <2>1. callback'[r] = {[n |-> i, fire |-> Due] : i \in 1..thread[r].scheduled}
    BY <1>0, <1>2 DEF Answer
  <2> QED
    BY <1>0, <1>2, <2>1, OnePerSchedule
<1>3. ASSUME NEW c \in callback[r], NEW after, Fire(r, c, after)
      PROVE  IsFiniteSet(callback'[r]) /\ Cardinality(callback'[r]) <= Cardinality(callback[r])
  BY <1>0, <1>3, ReplaceOne DEF Fire
<1>4. CASE Crash
  <2>1. callback'[r] \in SUBSET callback[r]
    BY <1>4 DEF Crash
  <2> QED
    BY <1>0, <2>1, FS_Subset
<1>5. ASSUME NEW s \in Req, s # r, Answer(s) \/ Callbacks(s) PROVE callback'[r] = callback[r]
  BY <1>0, <1>5 DEF Answer, Callbacks, Resolve, Deliver, Fire
<1>6. ASSUME Callbacks(r) PROVE \E c \in callback[r] : \E after : Fire(r, c, after)
  BY <1>6 DEF Callbacks, Resolve, Deliver
<1>7. ASSUME NEW s \in Req,
             \/ Dispatch(s) /\ ~ Answer(s)
             \/ Handler(s) \/ DryRun(s) \/ Read(s) \/ ReadEnd(s) \/ Leave(s)
      PROVE  UNCHANGED callback
  BY <1>7, CallbacksKeep
<1>8. CASE UNCHANGED vars
  BY <1>0, <1>8 DEF vars
<1> QED
  BY <1>1, <1>2, <1>3, <1>4, <1>5, <1>6, <1>7, <1>8 DEF Next

(* What a step makes of the keys of a dry run.                             *)
Shadowed(d) ==
  /\ d \in [keys : SUBSET Key, ttl : SUBSET Key, refused : SUBSET Key]
  /\ d.ttl \subseteq d.keys

LEMMA ShadowChanges ==
  ASSUME HeldInv, NEW r \in Req, NEW d, Shadowed(d), shadow' = [shadow EXCEPT ![r] = d]
  PROVE  shadow' = [s \in Req |-> shadow'[s]] /\ \A s \in Req : Shadowed(shadow'[s])
BY DEF HeldInv, Holds, Shadowed

LEMMA KeysAnew ==
  ASSUME NEW d, Shadowed(d), NEW ks \in SUBSET Key, NEW ts \in SUBSET Key
  PROVE  /\ ts \subseteq ks => Shadowed([d EXCEPT !.keys = ks, !.ttl = ts])
         /\ d.ttl \subseteq ks => Shadowed([d EXCEPT !.keys = ks])
         /\ ts \subseteq d.keys => Shadowed([d EXCEPT !.ttl = ts])
<1> USE DEF Shadowed
<1>1. ts \subseteq ks => Shadowed([d EXCEPT !.keys = ks, !.ttl = ts])
  OBVIOUS
<1>2. d.ttl \subseteq ks => Shadowed([d EXCEPT !.keys = ks])
  OBVIOUS
<1>3. ts \subseteq d.keys => Shadowed([d EXCEPT !.ttl = ts])
  OBVIOUS
<1> QED
  BY <1>1, <1>2, <1>3

LEMMA ShadowStep ==
  ASSUME HeldInv, [Next]_vars
  PROVE  shadow' = [s \in Req |-> shadow'[s]] /\ \A s \in Req : Shadowed(shadow'[s])
<1>a. ASSUME NEW r \in Req
      PROVE  /\ Shadowed(shadow[r]) /\ shadow[r].keys \in SUBSET Key
             /\ shadow[r].ttl \in SUBSET Key /\ shadow[r].ttl \subseteq shadow[r].keys
  BY DEF HeldInv, Holds, Shadowed
<1>b. ASSUME UNCHANGED shadow
      PROVE  shadow' = [s \in Req |-> shadow'[s]] /\ \A s \in Req : Shadowed(shadow'[s])
  BY <1>a, <1>b DEF HeldInv
<1>1. ASSUME NEW r \in Req, NEW k \in Key, NEW anew \in BOOLEAN, Touch(r, k, anew)
      PROVE  \E d : Shadowed(d) /\ shadow' = [shadow EXCEPT ![r] = d]
  <2> DEFINE ks == shadow[r].keys \cup {k}
             ts == IF anew THEN shadow[r].ttl \ {k} ELSE shadow[r].ttl
  <2>1. ks \in SUBSET Key /\ ts \in SUBSET Key /\ ts \subseteq ks
    BY <1>a
  <2>2. shadow' = [shadow EXCEPT ![r] = [shadow[r] EXCEPT !.keys = ks, !.ttl = ts]]
    BY <1>1 DEF Touch
  <2> HIDE DEF ks, ts
  <2>3. Shadowed([shadow[r] EXCEPT !.keys = ks, !.ttl = ts])
    BY <1>a, <2>1, KeysAnew
  <2> QED
    BY <2>2, <2>3
<1>2. ASSUME NEW r \in Req, NEW copied \in SUBSET Key, Snapshot(r, copied)
      PROVE  \E d : Shadowed(d) /\ shadow' = [shadow EXCEPT ![r] = d]
  <2>1. shadow' = [shadow EXCEPT ![r] = [shadow[r] EXCEPT !.keys = copied]] /\ task[r] = "new"
    BY <1>2 DEF Snapshot
  <2>2. shadow[r].ttl \subseteq copied
    BY <2>1 DEF HeldInv, Holds
  <2> QED
    BY <1>a, <2>1, <2>2, KeysAnew
<1>3. ASSUME NEW r \in Req, ArmShadow(r)
      PROVE  \E d : Shadowed(d) /\ shadow' = [shadow EXCEPT ![r] = d]
  <2>1. PICK ts \in SUBSET shadow[r].keys : shadow' = [shadow EXCEPT ![r].ttl = ts]
    BY <1>3 DEF ArmShadow
  <2>2. ts \in SUBSET Key /\ ts \subseteq shadow[r].keys
    BY <1>a
  <2>3. shadow' = [shadow EXCEPT ![r] = [shadow[r] EXCEPT !.ttl = ts]]
    BY <2>1
  <2> QED
    BY <1>a, <2>2, <2>3, KeysAnew
<1>4. ASSUME NEW r \in Req, NEW k \in Key, Override(r, k) \/ Expire(r, k)
      PROVE  \E d : Shadowed(d) /\ shadow' = [shadow EXCEPT ![r] = d]
  <2> DEFINE ts == shadow[r].ttl \ {k}
  <2>1. PICK ks \in {shadow[r].keys \cup {k}, shadow[r].keys \ {k}} :
          shadow' = [shadow EXCEPT ![r] = [shadow[r] EXCEPT !.keys = ks, !.ttl = ts]]
    BY <1>4 DEF Override, Expire
  <2>2. ks \in SUBSET Key /\ ts \in SUBSET Key /\ ts \subseteq ks
    BY <1>a, <2>1
  <2> HIDE DEF ts
  <2>3. Shadowed([shadow[r] EXCEPT !.keys = ks, !.ttl = ts])
    BY <1>a, <2>2, KeysAnew
  <2> QED
    BY <2>1, <2>3
<1>5. ASSUME NEW r \in Req, Cleanup(r)
      PROVE  \E d : Shadowed(d) /\ shadow' = [shadow EXCEPT ![r] = d]
  <2>1. PICK left \in SUBSET shadow[r].keys :
          shadow' = [shadow EXCEPT
            ![r] = [keys |-> left, ttl |-> shadow[r].ttl \cap left, refused |-> left]]
    BY <1>5 DEF Cleanup
  <2>2. Shadowed([keys |-> left, ttl |-> shadow[r].ttl \cap left, refused |-> left])
    BY <1>a DEF Shadowed
  <2> QED
    BY <2>1, <2>2
<1>6. ASSUME NEW r \in Req, \E d : Shadowed(d) /\ shadow' = [shadow EXCEPT ![r] = d]
      PROVE  shadow' = [s \in Req |-> shadow'[s]] /\ \A s \in Req : Shadowed(shadow'[s])
  BY <1>6, ShadowChanges
<1>7. ASSUME NEW r \in Req, DryRun(r)
      PROVE  UNCHANGED shadow \/ \E d : Shadowed(d) /\ shadow' = [shadow EXCEPT ![r] = d]
  BY <1>2, <1>3, <1>4, <1>5, <1>7
  DEF DryRun, SnapshotFails, Drain, Drained, Joined, RunDry
<1>8. ASSUME NEW r \in Req, Handler(r)
      PROVE  UNCHANGED shadow \/ \E d : Shadowed(d) /\ shadow' = [shadow EXCEPT ![r] = d]
  BY <1>1, <1>8 DEF Handler, Start, WriteChunk, Send, FinishStream, Schedule, End
<1>9. ASSUME NEW r \in Req, Dispatch(r) PROVE UNCHANGED shadow
  BY <1>9 DEF Dispatch, Refuse, Unmatched, TakeHead, Journal, JoinFails, Answer, Match
<1>10. ASSUME NEW r \in Req, Callbacks(r) \/ Read(r) \/ ReadEnd(r) \/ Leave(r)
       PROVE  UNCHANGED shadow
  BY <1>10 DEF Callbacks, Resolve, Deliver, Read, ReadEnd, Leave
<1>11. Crash \/ UNCHANGED vars => UNCHANGED shadow
  BY DEF Crash, vars
<1> QED
  BY <1>b, <1>6, <1>7, <1>8, <1>9, <1>10, <1>11 DEF Next

(* Only an answer gives callbacks to a request, and none is yet to start.  *)
LEMMA NoEarlyCallback ==
  ASSUME HeldInv, [Next]_vars, NEW r \in Req, task'[r] \in {"new", "copied", "armed"}
  PROVE  task[r] \in {"new", "copied", "armed"} /\ ~ Answer(r)
<1>0. task = [s \in Req |-> task[s]]
  BY DEF HeldInv, StreamInv, Shapes
<1>1. ASSUME NEW s \in Req, Dispatch(s)
      PROVE  task'[r] = task[r] \/ task'[r] \notin {"new", "copied", "armed"}
  BY <1>0, <1>1 DEF Dispatch, Refuse, Unmatched, TakeHead, Journal, JoinFails, Answer, Match, Become
<1>2. ASSUME NEW s \in Req, DryRun(s)
      PROVE  \/ task'[r] = task[r] \/ task'[r] \notin {"new", "copied", "armed"}
             \/ task[r] \in {"new", "copied"}
  <2>1. CASE \/ \E copied \in SUBSET Key : Snapshot(s, copied)
             \/ ArmShadow(s)
    BY <1>0, <2>1 DEF Snapshot, ArmShadow, Become
  <2>2. CASE SnapshotFails(s) \/ Drained(s) \/ Joined(s) \/ Cleanup(s)
    BY <1>0, <2>2 DEF SnapshotFails, Drained, Joined, Cleanup, Become
  <2>3. CASE Drain(s) \/ \E k \in Key : Override(s, k) \/ Expire(s, k)
    BY <2>3 DEF Drain, Override, Expire
  <2>4. CASE \E engine \in BOOLEAN : RunDry(s, engine)
    BY <1>0, <2>4 DEF RunDry, Become
  <2> QED
    BY <1>2, <2>1, <2>2, <2>3, <2>4 DEF DryRun
<1>3. ASSUME NEW s \in Req, Leave(s)
      PROVE  task'[r] = task[r] \/ task'[r] \notin {"new", "copied", "armed"}
  BY <1>0, <1>3 DEF Leave, Become
<1>4. ASSUME NEW s \in Req, Handler(s) \/ Callbacks(s) \/ Read(s) \/ ReadEnd(s)
      PROVE  UNCHANGED task
  BY <1>4 DEF Handler, Start, WriteChunk, Send, FinishStream, Schedule, Touch, End,
              Callbacks, Resolve, Deliver, Read, ReadEnd
<1>5. CASE Crash
  BY <1>5 DEF Crash
<1>6. UNCHANGED vars => task'[r] = task[r]
  BY DEF vars
<1>7. ~ Answer(r)
  BY <1>0 DEF Answer, Become
<1> QED
  BY <1>1, <1>2, <1>3, <1>4, <1>5, <1>6, <1>7 DEF Next

(* A request that is new has no key that expires, and stays so.           *)
LEMMA NoEarlyExpiry ==
  ASSUME HeldInv, [Next]_vars, NEW r \in Req, task'[r] = "new"
  PROVE  shadow'[r].ttl = {}
<1>0. /\ task = [s \in Req |-> task[s]] /\ shadow = [s \in Req |-> shadow[s]]
      /\ Holds(r)
  BY DEF HeldInv, StreamInv, Shapes
<1>1. ASSUME NEW s \in Req, DryRun(s)
      PROVE  task[r] = "new" /\ shadow'[r].ttl = {}
  <2>1. CASE \E copied \in SUBSET Key : Snapshot(s, copied)
    BY <1>0, <1>1, <2>1 DEF Snapshot, Become, Holds
  <2>2. CASE ArmShadow(s) \/ SnapshotFails(s) \/ Drained(s) \/ Joined(s) \/ Cleanup(s)
    BY <1>0, <1>1, <2>2 DEF ArmShadow, SnapshotFails, Drained, Joined, Cleanup, Become, Holds
  <2>3. CASE Drain(s)
    BY <1>0, <1>1, <2>3 DEF Drain, Holds
  <2>4. ASSUME NEW k \in Key, Override(s, k) \/ Expire(s, k)
        PROVE  task[r] = "new" /\ shadow'[r].ttl = {}
    BY <1>0, <1>1, <2>4 DEF Override, Expire, Holds
  <2>5. CASE \E engine \in BOOLEAN : RunDry(s, engine)
    BY <1>0, <1>1, <2>5 DEF RunDry, Become, Holds
  <2> QED
    BY <1>1, <2>1, <2>2, <2>3, <2>4, <2>5 DEF DryRun
<1>2. ASSUME NEW s \in Req, Handler(s)
      PROVE  task[r] = "new" /\ shadow'[r].ttl = {}
  <2>1. CASE \E k \in Key, anew \in BOOLEAN : Touch(s, k, anew)
    BY <1>0, <2>1 DEF Touch, IsDry, Holds
  <2>2. ASSUME ~ \E k \in Key, anew \in BOOLEAN : Touch(s, k, anew)
        PROVE  UNCHANGED <<task, shadow>>
    BY <1>2, <2>2 DEF Handler, Start, WriteChunk, Send, FinishStream, Schedule, End
  <2> QED
    BY <1>0, <2>1, <2>2 DEF Holds
<1>3. ASSUME NEW s \in Req, Dispatch(s)
      PROVE  UNCHANGED shadow /\ task[r] = "new"
  BY <1>0, <1>3 DEF Dispatch, Refuse, Unmatched, TakeHead, Journal, JoinFails, Answer, Match, Become
<1>4. ASSUME NEW s \in Req, Callbacks(s) \/ Read(s) \/ ReadEnd(s) \/ Leave(s)
      PROVE  UNCHANGED shadow /\ task[r] = "new"
  BY <1>0, <1>4 DEF Callbacks, Resolve, Deliver, Read, ReadEnd, Leave, Become
<1>5. Crash \/ UNCHANGED vars => UNCHANGED shadow /\ task[r] = "new"
  BY DEF Crash, vars
<1> QED
  BY <1>0, <1>1, <1>2, <1>3, <1>4, <1>5 DEF Next, Holds

LEMMA HeldStep == HeldInv /\ [Next]_vars => HeldInv'
<1> SUFFICES ASSUME HeldInv, [Next]_vars PROVE HeldInv'
  OBVIOUS
<1>1. StreamInv'
  BY StreamStep DEF HeldInv
<1>2. callback' = [r \in Req |-> callback'[r]]
  BY CallbacksKeep DEF HeldInv, Next, Callbacks, Resolve, Deliver, Fire, Answer, Crash, vars
<1>3. crashes' \in 0..MaxCrashes
  <2>1. ASSUME NEW r \in Req, Dispatch(r) \/ Handler(r) PROVE UNCHANGED crashes
    BY <2>1 DEF Dispatch, Refuse, Unmatched, TakeHead, Journal, JoinFails, Answer, Match,
                Handler, Start, WriteChunk, Send, FinishStream, Schedule, Touch, End
  <2>2. ASSUME NEW r \in Req, Callbacks(r) \/ Read(r) \/ ReadEnd(r) \/ Leave(r)
        PROVE  UNCHANGED crashes
    BY <2>2 DEF Callbacks, Resolve, Deliver, Read, ReadEnd, Leave
  <2>3. ASSUME NEW r \in Req, DryRun(r) PROVE UNCHANGED crashes
    BY <2>3 DEF DryRun, Snapshot, ArmShadow, SnapshotFails, Drain, Drained, Joined, Cleanup,
                Override, Expire, RunDry
  <2>4. Crash \/ UNCHANGED crashes
    BY <2>1, <2>2, <2>3 DEF Next, vars
  <2> QED
    BY <2>4, InvocationAssumption DEF HeldInv, Crash
<1>4. ASSUME NEW r \in Req PROVE Holds(r)'
  <2>a. IsFiniteSet(callback[r]) /\ Cardinality(callback[r]) <= thread[r].scheduled
    BY DEF HeldInv, Holds
  <2>b. thread[r].scheduled \in Nat /\ thread'[r].scheduled \in Nat
    BY <1>1, InvocationAssumption DEF HeldInv, StreamInv, Shapes, Threads
  <2>c. IsFiniteSet(callback'[r])
    BY CallbackCount
  <2>d. Cardinality(callback[r]) \in Nat /\ Cardinality(callback'[r]) \in Nat
    BY <2>a, <2>c, FS_CardinalityType
  <2>1. task'[r] \in {"new", "copied", "armed"} => callback'[r] = {}
    <3>1. ASSUME task'[r] \in {"new", "copied", "armed"} PROVE Cardinality(callback'[r]) = 0
      <4>1. callback[r] = {} /\ ~ Answer(r)
        BY <3>1, NoEarlyCallback DEF HeldInv, Holds
      <4>2. Cardinality(callback[r]) = 0
        BY <4>1, FS_EmptySet
      <4>3. Cardinality(callback'[r]) <= Cardinality(callback[r])
        BY <4>1, CallbackCount
      <4> QED
        BY <4>2, <4>3, <2>d
    <3> QED
      BY <3>1, <2>c, FS_EmptySet
  <2>2. Cardinality(callback'[r]) <= thread'[r].scheduled
    <3>1. CASE thread'[r].scheduled >= thread[r].scheduled
      BY <2>a, <2>b, <2>d, <3>1, CallbackCount
    <3>2. CASE task[r] \in {"new", "armed"} /\ thread'[r].scheduled = 0
      <4>1. callback[r] = {} /\ ~ Answer(r)
        BY <3>2 DEF HeldInv, Holds, Answer, MayAnswer
      <4> QED
        BY <3>2, <4>1, <2>d, CallbackCount, FS_EmptySet
    <3> QED
      BY <3>1, <3>2, Scheduled DEF HeldInv
  <2>3. Shadowed(shadow'[r])
    BY ShadowStep
  <2>4. task'[r] = "new" => shadow'[r].ttl = {}
    BY NoEarlyExpiry
  <2> QED
    BY <2>c, <2>1, <2>2, <2>3, <2>4 DEF Holds, Shadowed
<1>5. shadow' = [r \in Req |-> shadow'[r]]
  BY ShadowStep
<1> QED
  BY <1>1, <1>2, <1>3, <1>4, <1>5 DEF HeldInv

(* The channel of a stream never holds more than its capacity, the client  *)
(* never gets a chunk that was not sent, and no handler has more callbacks *)
(* than it was allowed to schedule: for any capacity and any limit         *)
(* (server.rs, callout.rs; dry_run.rs for the keys).                       *)
THEOREM TypeCorrect == Spec => []TypeOK
<1>1. Init => HeldInv
  <2> SUFFICES ASSUME Init PROVE HeldInv
    OBVIOUS
  <2>1. ASSUME NEW r \in Req PROVE Holds(r)
    <3>1. callback[r] = {} /\ thread[r].scheduled = 0
          /\ shadow[r] = [keys |-> {}, ttl |-> {}, refused |-> {}]
      BY DEF Init, NoThread
    <3> QED
      BY <3>1, FS_EmptySet DEF Holds
  <2> QED
    BY <2>1, StreamInit, InvocationAssumption DEF Init, HeldInv
<1>2. HeldInv => TypeOK
  <2> SUFFICES ASSUME HeldInv PROVE TypeOK
    OBVIOUS
  <2>1. ASSUME NEW r \in Req
        PROVE  /\ thread[r].pc \in {"none", "running", "sending", "done"}
               /\ thread[r].scheduled \in 0..MaxCallbacks
               /\ thread[r].sent \in Nat /\ client[r].got \in Nat
    BY DEF HeldInv, StreamInv, Shapes, Threads, Counters, Clients
  <2>2. ASSUME NEW r \in Req PROVE Channel(thread[r], client[r]) /\ Holds(r)
    BY DEF HeldInv, StreamInv, Sound
  <2> QED
    BY <2>1, <2>2 DEF TypeOK, HeldInv, Channel, Holds
<1> QED
  BY <1>1, <1>2, HeldStep, PTL DEF Spec
=============================================================================
