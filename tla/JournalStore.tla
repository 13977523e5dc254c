---------------------------- MODULE JournalStore ----------------------------
(* The stored side of the request journal (journal.rs): numbered records   *)
(* with a time to live, an index from number to record, and the readers     *)
(* that page through them from the newest down.                            *)
(*                                                                         *)
(* A stream is one numbered sequence: the requests a group handled, the    *)
(* callbacks of a group, and the unmatched requests of the whole host. One *)
(* action is one command of the key-value store.                           *)
EXTENDS Integers, FiniteSets, Sequences, Functions

CONSTANTS
  Group,        \* the groups that receive traffic
  Name,         \* the names they may bear
  NoName,       \* no filter on the name
  Writer,       \* dispatch threads and callback tasks that record outcomes
  Work,         \* Work[w]: the kinds of record w writes
  Reader,       \* clients that page through one stream
  MaxRecords,   \* bound: records ever written
  PageLimit,    \* ListCursor.limit, after the clamp to 1..MAX_LIMIT
  ScanCap,      \* UNMATCHED_WINDOW_SCAN_CAP
  MaxRenames    \* bound

Kind == {"handled", "callback", "unmatched"}
Host == "host"
Stream == ({"handled", "callback"} \X Group) \cup {<<"unmatched", Host>>}

ASSUME StoreAssumption ==
  /\ Work \in [Writer -> SUBSET Kind]
  /\ Host \notin Group
  /\ MaxRecords \in Nat /\ PageLimit \in Nat \ {0} /\ ScanCap \in Nat \ {0}
  /\ Name # {} /\ NoName \notin Name
  /\ MaxRenames \in Nat

Id == 1..MaxRecords          \* record ULIDs, in the order they are issued
NoId == 0
Number == 1..MaxRecords      \* no counter passes the number of records

VARIABLES
  counter,   \* group:counters:{g} next_*_number, unmatched:counter
  entry,     \* what was recorded under each id so far
  stored,    \* ids whose record key has not expired or been deleted
  index,     \* *:by-number:{n}
  writer,    \* what each writer still has to do
  name,      \* the current name of each group, and how often it changed
  clearing,  \* how far the clearing of a group's journal is (bound: one)
  reader     \* the clients that page or count

vars == <<counter, entry, stored, index, writer, name, clearing, reader>>

StreamOf(kind, g) == IF kind = "unmatched" THEN <<kind, Host>> ELSE <<kind, g>>

IdleWriter == [pc |-> "idle", id |-> NoId]
IdleReader == [pc |-> "idle", stream |-> <<"unmatched", Host>>, visible |-> Group,
               filter |-> NoName, since |-> 0, n |-> 0, page |-> <<>>, seen |-> <<>>,
               given |-> {}, owed |-> {},
               cutoff |-> 0, scanned |-> 0, count |-> 0, saturated |-> FALSE]

Init ==
  /\ counter = [s \in Stream |-> 0]
  /\ entry = <<>>
  /\ stored = {}
  /\ index = [s \in Stream |-> [n \in Number |-> NoId]]
  /\ writer = [w \in Writer |-> IdleWriter]
  /\ name \in [Group -> [now : Name, renames : {0}]]
  /\ clearing = [g \in Group |-> "no"]
  /\ reader = [p \in Reader |-> IdleReader]

-----------------------------------------------------------------------------
(* Recording: the number, the record with its time to live, the index. The *)
(* three commands of one call are not a transaction, and a command that    *)
(* fails ends the call where it is.                                        *)

Step(w, pc) == writer' = [writer EXCEPT ![w].pc = pc]

\* The record is dated between the INCR and the SET: at is the rank by date of
\* an unmatched record, the only one whose date is read, as name is of a
\* handled one.
Issue(w, kind, g) ==
  LET s == StreamOf(kind, g)
      id == Len(entry) + 1
  IN  /\ writer[w] = IdleWriter
      /\ kind \in Work[w]
      /\ id \in Id
      /\ counter' = [counter EXCEPT ![s] = @ + 1]
      /\ entry' = Append(entry, [stream |-> s, number |-> counter[s] + 1,
                                 group |-> g, at |-> 0,
                                 name |-> IF kind = "handled" THEN name[g].now ELSE NoName])
      /\ writer' = [writer EXCEPT ![w] = [pc |-> "write", id |-> id]]
      /\ UNCHANGED <<stored, index, name, clearing, reader>>

Now == Cardinality({i \in DOMAIN entry : entry[i].at # 0}) + 1

WriteRecord(w) ==
  /\ writer[w].pc = "write"
  /\ stored' = stored \cup {writer[w].id}
  /\ entry' = [entry EXCEPT ![writer[w].id].at =
                              IF entry[writer[w].id].stream[1] = "unmatched" THEN Now ELSE 0]
  /\ Step(w, "index")
  /\ UNCHANGED <<counter, index, name, clearing, reader>>

IndexRecord(w) ==
  LET r == entry[writer[w].id]
  IN  /\ writer[w].pc = "index"
      /\ index' = [index EXCEPT ![r.stream][r.number] = writer[w].id]
      /\ writer' = [writer EXCEPT ![w] = IdleWriter]
      /\ UNCHANGED <<counter, entry, stored, name, clearing, reader>>

\* The `?` of the second or third command: the record stays unindexed, or
\* its number stays a gap; dispatch logs the error and answers as usual.
AbandonRecord(w) ==
  /\ writer[w].pc \in {"write", "index"}
  /\ writer' = [writer EXCEPT ![w] = IdleWriter]
  /\ UNCHANGED <<counter, entry, stored, index, name, clearing, reader>>

-----------------------------------------------------------------------------
(* Expiry and clearing.                                                    *)

\* Key expiry. Every record has a time to live. The index of a handled request
\* expires after its record, the other two indexes have no time to live: a
\* reader takes a missing index and a dangling one for the same gap, so the
\* model keeps them all.
ExpireRecord(id) ==
  /\ stored' = stored \ {id}
  /\ id \in stored
  /\ UNCHANGED <<counter, entry, index, writer, name, clearing, reader>>

\* clear_group_journal, and the same three commands of the group's cascade:
\* records, index, then the counters of both streams. Callback records and
\* their index stay.
ClearRecords(g) ==
  /\ clearing[g] = "no"
  /\ stored' = {i \in stored : entry[i].stream # <<"handled", g>>}
  /\ clearing' = [clearing EXCEPT ![g] = "index"]
  /\ UNCHANGED <<counter, entry, index, writer, name, reader>>

ClearIndex(g) ==
  /\ clearing[g] = "index"
  /\ index' = [index EXCEPT ![<<"handled", g>>] = [n \in Number |-> NoId]]
  /\ clearing' = [clearing EXCEPT ![g] = "counters"]
  /\ UNCHANGED <<counter, entry, stored, writer, name, reader>>

ClearCounters(g) ==
  /\ clearing[g] = "counters"
  /\ counter' = [counter EXCEPT ![<<"handled", g>>] = 0, ![<<"callback", g>>] = 0]
  /\ clearing' = [clearing EXCEPT ![g] = "once"]
  /\ UNCHANGED <<entry, stored, index, writer, name, reader>>

\* rename_group; what is recorded keeps the name of its day.
RenameGroup(g, n) ==
  /\ name[g].now # n
  /\ name[g].renames < MaxRenames
  /\ name' = [name EXCEPT ![g] = [now |-> n, renames |-> @.renames + 1]]
  /\ UNCHANGED <<counter, entry, stored, index, writer, clearing, reader>>

-----------------------------------------------------------------------------
(* Listing: a page walks down one number at a time, skips the gaps, and    *)
(* the client asks for the next page with the last number it was given.    *)

\* get_via_bucket: index, then record; either may be missing.
Found(s, n) == index[s][n] \in stored

\* list_unmatched shows a caller the records of its groups alone.
Visible(p, id) == reader[p].stream[1] = "unmatched" => entry[id].group \in reader[p].visible

\* What a reader that starts now is entitled to: what is listed right now.
Listed(s, groups) ==
  {index[s][n] : n \in {m \in 1..counter[s] :
      Found(s, m) /\ (s[1] = "unmatched" => entry[index[s][m]].group \in groups)}}

\* list_journal looks the group up by the name it is asked for and filters on
\* the name of what it found: the name that the group bears when the page is
\* asked for. since is how often it had been renamed.
FilterOn(filtered, s) == IF filtered THEN name[s[2]].now ELSE NoName

StartListing(p, s, groups, filtered) ==
  /\ reader[p].pc = "idle"
  /\ counter[s] > 0
  /\ filtered => s[1] = "handled"
  /\ reader' = [reader EXCEPT ![p] =
        [IdleReader EXCEPT !.pc = "walk", !.stream = s, !.visible = groups, !.n = counter[s],
             !.filter = FilterOn(filtered, s),
             !.since = IF filtered THEN name[s[2]].renames ELSE 0,
             !.owed = {i \in Listed(s, groups) : filtered => entry[i].name = name[s[2]].now}]]
  /\ UNCHANGED <<counter, entry, stored, index, writer, name, clearing>>

\* Wrong: the walk does not stop at the limit.
SlipWalk(p) ==
  LET r == reader[p]
      id == index[r.stream][r.n]
      hit == Found(r.stream, r.n) /\ Visible(p, id)
  IN  /\ r.pc = "walk" /\ r.n > 0
      /\ reader' = [reader EXCEPT ![p].n = @ - 1,
                                  ![p].page = IF hit THEN Append(@, id) ELSE @]
      /\ UNCHANGED <<counter, entry, stored, index, writer, name, clearing>>

\* One number of the walk.
Walk(p) ==
  LET r == reader[p]
      id == index[r.stream][r.n]
      hit == Found(r.stream, r.n) /\ Visible(p, id)
  IN  /\ r.pc = "walk"
      /\ r.n > 0 /\ Len(r.page) < PageLimit
      /\ reader' = [reader EXCEPT ![p].n = @ - 1,
                                  ![p].page = IF hit THEN Append(@, id) ELSE @]
      /\ UNCHANGED <<counter, entry, stored, index, writer, name, clearing>>

\* A filtered listing passes each record of the page through
\* JournalFilter::matches_handled, which compares names. The other fields of
\* the filter are taken to accept everything.
Accepts(r, id) == r.filter \in {NoName, entry[id].name}

\* The page is answered: next_before is the last number of the page unless
\* that is 1 or the page is empty, and the next page starts below it. History
\* keeps the pages as they were walked and what the client got of them.
PageFull(r) == Len(r.page) = PageLimit \/ r.n = 0

\* Wrong: the cursor is taken to include its own number.
SlipNextStart(r) == IF r.page = <<>> THEN 0 ELSE entry[r.page[Len(r.page)]].number

NextStart(r) ==
  IF r.page = <<>> THEN 0 ELSE entry[r.page[Len(r.page)]].number - 1

Answer(p) ==
  LET r == reader[p]
      more == NextStart(r) > 0
  IN  /\ r.pc = "walk"
      /\ PageFull(r)
      /\ reader' = [reader EXCEPT ![p].pc = IF more THEN "walk" ELSE "done",
                                  ![p].n = NextStart(r),
                                  ![p].filter = FilterOn(r.filter # NoName, r.stream),
                                  ![p].page = <<>>,
                                  ![p].seen = @ \o r.page,
                                  ![p].given = @ \cup {id \in Range(r.page) : Accepts(r, id)}]
      /\ UNCHANGED <<counter, entry, stored, index, writer, name, clearing>>

EndListing(p) ==
  /\ reader[p].pc \in {"done", "counted"}
  /\ reader' = [reader EXCEPT ![p] = IdleReader]
  /\ UNCHANGED <<counter, entry, stored, index, writer, name, clearing>>

(* Counting: count_unmatched_since walks down from the newest unmatched    *)
(* request to the first one dated before the cutoff. count, scanned and     *)
(* saturated are the variables of the code, given and owed are history.    *)

\* The cutoff is a date of the past, or now.
StartCount(p, groups, cutoff) ==
  LET s == <<"unmatched", Host>>
  IN  /\ reader[p].pc = "idle"
      /\ counter[s] > 0
      /\ cutoff \in 1..Now
      /\ reader' = [reader EXCEPT ![p] =
            [IdleReader EXCEPT !.pc = "count", !.stream = s, !.visible = groups,
                 !.n = counter[s], !.cutoff = cutoff,
                 !.owed = {i \in Listed(s, groups) : entry[i].at >= cutoff}]]
      /\ UNCHANGED <<counter, entry, stored, index, writer, name, clearing>>

Counting(r) == r.pc = "count" /\ r.n > 0 /\ r.scanned < ScanCap

\* Wrong: a gap is taken for the end of the window.
SlipTooOld(r) == Found(r.stream, r.n) => entry[index[r.stream][r.n]].at < r.cutoff

TooOld(r) == Found(r.stream, r.n) /\ entry[index[r.stream][r.n]].at < r.cutoff

CountOne(p) ==
  LET r == reader[p]
      id == index[r.stream][r.n]
      hit == Found(r.stream, r.n) /\ Visible(p, id)
  IN  /\ Counting(r) /\ ~ TooOld(r)
      /\ reader' = [reader EXCEPT ![p].n = @ - 1,
                                  ![p].scanned = @ + 1,
                                  ![p].count = IF hit THEN @ + 1 ELSE @,
                                  ![p].given = IF hit THEN @ \cup {id} ELSE @]
      /\ UNCHANGED <<counter, entry, stored, index, writer, name, clearing>>

StopAtOld(p) ==
  /\ Counting(reader[p]) /\ TooOld(reader[p])
  /\ reader' = [reader EXCEPT ![p].pc = "counted"]
  /\ UNCHANGED <<counter, entry, stored, index, writer, name, clearing>>

\* Out of numbers, or at the cap: saturated only in the second case.
RunOut(p) ==
  /\ reader[p].pc = "count" /\ ~ Counting(reader[p])
  /\ reader' = [reader EXCEPT ![p].pc = "counted", ![p].saturated = reader[p].n > 0]
  /\ UNCHANGED <<counter, entry, stored, index, writer, name, clearing>>

-----------------------------------------------------------------------------
Next ==
  \/ \E w \in Writer : \/ \E kind \in Kind, g \in Group : Issue(w, kind, g)
                       \/ WriteRecord(w)
                       \/ IndexRecord(w)
                       \/ AbandonRecord(w)
  \/ \E id \in Id : ExpireRecord(id)
  \/ \E g \in Group : \/ ClearRecords(g) \/ ClearIndex(g) \/ ClearCounters(g)
                      \/ \E n \in Name : RenameGroup(g, n)
  \/ \E p \in Reader : \/ \E s \in Stream, groups \in {Group} \cup {{g} : g \in Group},
                              filtered \in BOOLEAN : StartListing(p, s, groups, filtered)
                       \/ Walk(p)
                       \/ Answer(p)
                       \/ EndListing(p)
                       \/ \E groups \in {Group} \cup {{g} : g \in Group}, 
                             cutoff \in 1..MaxRecords + 1 :
                            StartCount(p, groups, cutoff)
                       \/ CountOne(p) \/ StopAtOld(p) \/ RunOut(p)

Spec == Init /\ [][Next]_vars

-----------------------------------------------------------------------------
\* Every variable has its shape.
TypeOK ==
  /\ counter \in [Stream -> 0..MaxRecords]
  /\ Len(entry) <= MaxRecords
  /\ \A i \in DOMAIN entry :
       /\ entry[i].stream \in Stream
       /\ entry[i].number \in Number
       /\ entry[i].group \in Group
       /\ entry[i].name \in Name \cup {NoName}
       /\ entry[i].at \in 0..MaxRecords
  /\ stored \subseteq DOMAIN entry
  /\ index \in [Stream -> [Number -> {NoId} \cup DOMAIN entry]]
  /\ \A w \in Writer : writer[w].pc \in {"idle", "write", "index"}
                       /\ writer[w].id \in {NoId} \cup DOMAIN entry
  /\ name \in [Group -> [now : Name, renames : 0..MaxRenames]]
  /\ clearing \in [Group -> {"no", "index", "counters", "once"}]
  /\ \A p \in Reader : /\ reader[p].pc \in {"idle", "walk", "done", "count", "counted"}
                       /\ reader[p].filter \in Name \cup {NoName}
                       /\ reader[p].n \in 0..MaxRecords
                       /\ Len(reader[p].page) <= PageLimit
                       /\ reader[p].scanned <= ScanCap
                       /\ reader[p].owed \subseteq DOMAIN entry

\* A client that pages from the newest record down, with next_before as its
\* cursor, while records are written, expire and are cleared, and whole
\* numbers are handed out again: it is given no record twice, and it has been
\* given every record that was listed when it began and is still listed. One
\* that filters by the group's name has been given those of them that bear
\* the name the group had when it began, unless the group was renamed while
\* it paged: from then on its pages accept another name.
Still(r) == {i \in r.owed : i \in stored /\ index[r.stream][entry[i].number] = i}

PagingExact ==
  \A p \in Reader :
    LET r == reader[p]
        line == r.seen \o r.page
        renamed == r.filter # NoName /\ name[r.stream[2]].renames > r.since
    IN  /\ \A i, j \in DOMAIN line : i # j => line[i] # line[j]
        /\ r.pc = "done" /\ ~ renamed => Still(r) \subseteq r.given

\* count_unmatched_since, read command by command while requests are recorded
\* and expire: it counts no request twice and none outside the window or the
\* caller's groups; and when it does not say that the cap stopped it, it has
\* counted every request of the window that was there when it began and still
\* is, those excepted that have an earlier number than a request of before
\* the window (numbers are handed out before requests are dated).
UnmatchedWindow ==
  \A p \in Reader :
    LET r == reader[p]
        behind(i) == \E j \in DOMAIN entry : /\ entry[j].stream = r.stream
                                             /\ entry[j].number > entry[i].number
                                             /\ entry[j].at \in 1..r.cutoff - 1
    IN  r.pc \in {"count", "counted"} =>
          /\ r.count = Cardinality(r.given)
          /\ \A i \in r.given : entry[i].at >= r.cutoff /\ entry[i].group \in r.visible
          /\ r.pc = "counted" /\ ~ r.saturated =>
               \A i \in Still(r) \ r.given : behind(i)
=============================================================================
