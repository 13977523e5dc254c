--------------------------- MODULE JournalProofs ---------------------------
(* For any number of writers, readers, groups and records, whatever the    *)
(* size of a page and the cap of a scan: the journal's keys keep their     *)
(* shape, a client that pages from the newest record down is given what    *)
(* stays listed, once, and the count of recent unmatched requests takes in *)
(* what it should.  The inductive invariant is Typed /\ PageInv.           *)
(* The live tail is at the end, with an invariant of its own, TailInv.     *)
EXTENDS JournalStore, JournalTail, FiniteSetTheorems, SequenceTheorems, TLAPS

Entry == [stream : Stream, number : Number, group : Group, name : Name \cup {NoName},
          at : 0 .. MaxRecords]
Writing == [pc : {"idle", "write", "index"}, id : 0 .. MaxRecords]
Reading == [pc : {"idle", "walk", "done", "count", "counted"}, stream : Stream,
            visible : SUBSET Group, filter : Name \cup {NoName}, since : 0 .. MaxRenames,
            n : 0 .. MaxRecords, page : Seq(Id), seen : Seq(Id),
            given : SUBSET Id, owed : SUBSET Id, cutoff : 0 .. MaxRecords + 1,
            scanned : 0 .. ScanCap, count : Nat, saturated : BOOLEAN]

Recorded == 1 .. Len(entry)

(* A number is counted before its record exists.                           *)
EntriesTyped ==
  /\ counter \in [Stream -> 0 .. MaxRecords]
  /\ \A s \in Stream : counter[s] <= Len(entry)
  /\ entry \in Seq(Entry) /\ Len(entry) <= MaxRecords
  /\ stored \subseteq Recorded
  /\ index \in [Stream -> [Number -> {NoId} \cup Recorded]]
  /\ name \in [Group -> [now : Name, renames : 0 .. MaxRenames]]
  /\ clearing \in [Group -> {"no", "index", "counters", "once"}]

(* A record that is not written yet has no date, and a record is written   *)
(* by one writer.                                                          *)
Busy(w) == writer[w].pc # "idle"

WritersTyped ==
  /\ writer \in [Writer -> Writing]
  /\ \A w \in Writer : writer[w].id \in {NoId} \cup Recorded
  /\ \A w \in Writer : Busy(w) =>
       /\ writer[w].id \in Recorded
       /\ writer[w].pc = "write" => entry[writer[w].id].at = 0
       /\ \A v \in Writer \ {w} : Busy(v) => writer[v].id # writer[w].id

ReadersTyped ==
  /\ reader \in [Reader -> Reading]
  /\ \A p \in Reader :
       /\ Len(reader[p].page) <= PageLimit
       /\ reader[p].owed \subseteq Recorded
       /\ \A k \in 1 .. Len(reader[p].page) : reader[p].page[k] \in Recorded
       /\ \A k \in 1 .. Len(reader[p].seen) : reader[p].seen[k] \in Recorded

Typed == EntriesTyped /\ WritersTyped /\ ReadersTyped

LEMMA TypedIsTypeOK ==
  ASSUME Typed
  PROVE  TypeOK
<1>1. DOMAIN entry = Recorded /\ Len(entry) \in Nat /\ \A i \in Recorded : entry[i] \in Entry
  BY LenProperties, ElementOfSeq DEF Typed, EntriesTyped, Recorded
<1>2. \A i \in Recorded : /\ entry[i].stream \in Stream /\ entry[i].number \in Number
                          /\ entry[i].group \in Group /\ entry[i].name \in Name \cup {NoName}
                          /\ entry[i].at \in 0 .. MaxRecords
  BY <1>1 DEF Entry
<1>3. \A w \in Writer : /\ writer[w].pc \in {"idle", "write", "index"}
                        /\ writer[w].id \in {NoId} \cup Recorded
  BY DEF Typed, WritersTyped, Writing
<1>4. \A p \in Reader : /\ reader[p].pc \in {"idle", "walk", "done", "count", "counted"}
                        /\ reader[p].filter \in Name \cup {NoName}
                        /\ reader[p].n \in 0 .. MaxRecords /\ reader[p].scanned <= ScanCap
  BY StoreAssumption DEF Typed, ReadersTyped, Reading
<1>. QED  BY <1>1, <1>2, <1>3, <1>4 DEF Typed, EntriesTyped, ReadersTyped, TypeOK

-----------------------------------------------------------------------------
(* What holds initially.                                                   *)
LEMMA IdleTyped ==
  /\ IdleReader \in Reading /\ IdleReader.page = <<>> /\ IdleReader.seen = <<>>
  /\ Len(IdleReader.page) = 0 /\ Len(IdleReader.seen) = 0
  /\ IdleReader.owed = {} /\ IdleReader.given = {} /\ IdleReader.pc = "idle"
  /\ IdleReader.filter = NoName
<1>1. <<>> \in Seq(Id) /\ <<"unmatched", Host>> \in Stream
  BY EmptySeq DEF Stream
<1>. QED  BY <1>1, EmptySeq, StoreAssumption DEF IdleReader, Reading

LEMMA TypedInit ==
  ASSUME Init
  PROVE  Typed
<1>. USE StoreAssumption
<1>1. entry \in Seq(Entry) /\ Len(entry) = 0 /\ Recorded = {}
  BY EmptySeq DEF Init, Recorded
<1>2. EntriesTyped
  BY <1>1 DEF Init, EntriesTyped, NoId
<1>3. WritersTyped
  BY DEF Init, WritersTyped, IdleWriter, Writing, Busy, NoId
<1>4. IdleReader \in Reading /\ Len(IdleReader.page) = 0 /\ Len(IdleReader.seen) = 0
      /\ IdleReader.owed = {}
  BY IdleTyped
<1>5. ReadersTyped
  BY <1>4 DEF Init, ReadersTyped
<1>. QED  BY <1>2, <1>3, <1>5 DEF Typed

(* Records are added and dated, and never change otherwise.                *)
Same(i) ==
  /\ entry'[i].stream = entry[i].stream /\ entry'[i].number = entry[i].number
  /\ entry'[i].group = entry[i].group /\ entry'[i].name = entry[i].name

Growing == Len(entry) <= Len(entry)' /\ \A i \in Recorded : Same(i)

LEMMA ReadersStayTyped ==
  ASSUME Typed, Growing, UNCHANGED reader, Len(entry)' \in Nat
  PROVE  ReadersTyped'
<1>1. Recorded \subseteq Recorded'
  <2>1. Len(entry) \in Nat
    BY LenProperties DEF Typed, EntriesTyped
  <2>. QED  BY <2>1 DEF Growing, Recorded
<1>. QED  BY <1>1 DEF Typed, ReadersTyped

LEMMA Records ==
  ASSUME Typed
  PROVE  /\ Len(entry) \in Nat /\ Len(entry) <= MaxRecords /\ Recorded \subseteq Id
         /\ DOMAIN entry = Recorded /\ \A i \in Recorded : entry[i] \in Entry
<1>1. Len(entry) \in Nat /\ DOMAIN entry = Recorded /\ \A i \in Recorded : entry[i] \in Entry
  BY LenProperties, ElementOfSeq DEF Typed, EntriesTyped, Recorded
<1>. QED  BY <1>1, StoreAssumption DEF Typed, EntriesTyped, Recorded, Id

-----------------------------------------------------------------------------
(* Recording.                                                              *)

LEMMA StreamsOfKinds ==
  ASSUME NEW kind \in Kind, NEW g \in Group
  PROVE  StreamOf(kind, g) \in Stream
BY DEF StreamOf, Stream, Kind

LEMMA IssueTyped ==
  ASSUME Typed, NEW w \in Writer, NEW kind \in Kind, NEW g \in Group, Issue(w, kind, g)
  PROVE  /\ Typed' /\ Growing /\ Len(entry)' = Len(entry) + 1
         /\ writer'[w] = [pc |-> "write", id |-> Len(entry) + 1]
         /\ entry'[Len(entry) + 1].at = 0 /\ \A i \in Recorded : entry'[i] = entry[i]
<1>. DEFINE s == StreamOf(kind, g)
            id == Len(entry) + 1
            e == [stream |-> s, number |-> counter[s] + 1, group |-> g, at |-> 0,
                  name |-> IF kind = "handled" THEN name[g].now ELSE NoName]
<1>1. /\ writer[w] = IdleWriter /\ id \in Id
      /\ counter' = [counter EXCEPT ![s] = @ + 1] /\ entry' = Append(entry, e)
      /\ writer' = [writer EXCEPT ![w] = [pc |-> "write", id |-> id]]
      /\ UNCHANGED <<stored, index, name, clearing, reader>>
  BY DEF Issue
<1>2. /\ Len(entry) \in Nat /\ Len(entry) <= MaxRecords /\ Recorded \subseteq Id
      /\ \A i \in Recorded : entry[i] \in Entry
  BY Records
<1>3. s \in Stream /\ counter[s] \in Nat /\ counter[s] + 1 <= id /\ id \in 1 .. MaxRecords
  BY <1>1, <1>2, StreamsOfKinds DEF Typed, EntriesTyped, Id
<1>. HIDE DEF s
<1>4. e \in Entry
  BY <1>3, StoreAssumption DEF Typed, EntriesTyped, Entry, Number
<1>. HIDE DEF e
<1>5. /\ entry' \in Seq(Entry) /\ Len(entry)' = id /\ entry'[id] = e
      /\ \A i \in Recorded : entry'[i] = entry[i]
  BY <1>1, <1>2, <1>4, AppendProperties DEF Typed, EntriesTyped, Recorded
<1>6. Recorded' = Recorded \cup {id} /\ id \notin Recorded
  BY <1>2, <1>5 DEF Recorded
<1>7. Growing
  BY <1>2, <1>5 DEF Growing, Same
<1>8. EntriesTyped'
  <2>1. counter' \in [Stream -> 0 .. MaxRecords] /\ \A z \in Stream : counter'[z] <= Len(entry)'
    <3>1. counter \in [Stream -> 0 .. MaxRecords] /\ \A z \in Stream : counter[z] <= Len(entry)
      BY DEF Typed, EntriesTyped
    <3>2. counter[s] + 1 \in 0 .. MaxRecords
      BY <1>2, <1>3, StoreAssumption
    <3>3. counter' \in [Stream -> 0 .. MaxRecords]
      BY <1>1, <1>3, <3>1, <3>2
    <3>4. \A z \in Stream : counter'[z] = IF z = s THEN counter[s] + 1 ELSE counter[z]
      BY <1>1, <1>3, <3>1
    <3>5. Len(entry)' = Len(entry) + 1
      BY <1>5
    <3>. QED  BY <1>2, <1>3, <3>1, <3>3, <3>4, <3>5
  <2>2. index' \in [Stream -> [Number -> {NoId} \cup Recorded']]
    BY <1>1, <1>6 DEF Typed, EntriesTyped
  <2>. QED  BY <1>1, <1>3, <1>5, <1>6, <2>1, <2>2 DEF Typed, EntriesTyped
<1>9. WritersTyped'
  <2>1. \A v \in Writer : v # w => writer'[v] = writer[v]
    BY <1>1
  <2>2. writer'[w] = [pc |-> "write", id |-> id]
    BY <1>1 DEF Typed, WritersTyped
  <2>3. writer' \in [Writer -> Writing]
    BY <1>1, <1>3 DEF Typed, WritersTyped, Writing
  <2>4. e.at = 0
    BY DEF e
  <2>. QED  BY <1>5, <1>6, <2>1, <2>2, <2>3, <2>4 DEF Typed, WritersTyped, Busy
<1>10. ReadersTyped'
  BY <1>1, <1>2, <1>5, <1>7, ReadersStayTyped
<1>11. e.at = 0
  BY DEF e
<1>. QED  BY <1>1, <1>5, <1>7, <1>8, <1>9, <1>10, <1>11 DEF Typed, WritersTyped

(* There is a date for every record.                                       *)
LEMMA DatesSuffice ==
  ASSUME Typed, NEW i \in Recorded, entry[i].at = 0
  PROVE  Now \in 1 .. MaxRecords
<1>. DEFINE dated == {j \in DOMAIN entry : entry[j].at # 0}
<1>1. Len(entry) \in Nat /\ Len(entry) <= MaxRecords /\ DOMAIN entry = Recorded
  BY Records
<1>2. IsFiniteSet(Recorded) /\ Cardinality(Recorded) = Len(entry)
  <2>1. 1 \in Int /\ Len(entry) \in Int
    BY <1>1
  <2>2. /\ IsFiniteSet(1 .. Len(entry))
        /\ Cardinality(1 .. Len(entry)) = IF 1 > Len(entry) THEN 0 ELSE Len(entry) - 1 + 1
    BY <2>1, FS_Interval
  <2>. QED  BY <1>1, <2>2 DEF Recorded
<1>3. dated \in SUBSET Recorded /\ dated # Recorded
  BY <1>1
<1>4. IsFiniteSet(dated) /\ Cardinality(dated) <= Len(entry) /\ Cardinality(dated) # Len(entry)
  BY <1>2, <1>3, FS_Subset
<1>5. Cardinality(dated) \in Nat
  BY <1>4, FS_CardinalityType
<1>6. Now = Cardinality(dated) + 1
  BY DEF Now
<1>. QED  BY <1>1, <1>4, <1>5, <1>6, StoreAssumption

LEMMA WriteTyped ==
  ASSUME Typed, NEW w \in Writer, WriteRecord(w)
  PROVE  /\ Typed' /\ Growing /\ Len(entry)' = Len(entry)
         /\ writer[w].pc = "write" /\ writer[w].id \in Recorded
         /\ writer'[w] = [pc |-> "index", id |-> writer[w].id]
         /\ entry[writer[w].id].at = 0
         /\ entry[writer[w].id].stream[1] = "unmatched" => entry'[writer[w].id].at # 0
         /\ \A i \in Recorded \ {writer[w].id} : entry'[i] = entry[i]
<1>. DEFINE i == writer[w].id
            d == IF entry[i].stream[1] = "unmatched" THEN Now ELSE 0
<1>1. /\ writer[w].pc = "write" /\ stored' = stored \cup {i}
      /\ entry' = [entry EXCEPT ![i].at = d]
      /\ writer' = [writer EXCEPT ![w].pc = "index"]
      /\ UNCHANGED <<counter, index, name, clearing, reader>>
  BY DEF WriteRecord, Step
<1>2. /\ Len(entry) \in Nat /\ Len(entry) <= MaxRecords /\ DOMAIN entry = Recorded
      /\ \A j \in Recorded : entry[j] \in Entry
  BY Records
<1>3. i \in Recorded /\ entry[i].at = 0
  BY <1>1 DEF Typed, WritersTyped, Busy
<1>4. d \in 0 .. MaxRecords /\ (entry[i].stream[1] = "unmatched" => d # 0)
  BY <1>3, DatesSuffice, StoreAssumption
<1>5. PICK e : e = [entry[i] EXCEPT !.at = d]
  OBVIOUS
<1>6. e \in Entry /\ e.stream = entry[i].stream /\ e.number = entry[i].number
      /\ e.group = entry[i].group /\ e.name = entry[i].name /\ e.at = d
  BY <1>2, <1>3, <1>4, <1>5 DEF Entry
<1>7. entry' = [entry EXCEPT ![i] = e]
  BY <1>1, <1>5
<1>. HIDE DEF d
<1>8. /\ entry' \in Seq(Entry) /\ Len(entry)' = Len(entry)
      /\ \A j \in Recorded : entry'[j] = IF j = i THEN e ELSE entry[j]
  BY <1>3, <1>6, <1>7, ExceptSeq DEF Typed, EntriesTyped, Recorded
<1>9. Growing /\ Recorded' = Recorded
  BY <1>2, <1>6, <1>8 DEF Growing, Same, Recorded
<1>10. EntriesTyped'
  BY <1>1, <1>3, <1>8, <1>9 DEF Typed, EntriesTyped
<1>11. /\ writer' \in [Writer -> Writing] /\ \A v \in Writer \ {w} : writer'[v] = writer[v]
       /\ writer'[w] = [pc |-> "index", id |-> i]
  BY <1>1 DEF Typed, WritersTyped, Writing
<1>12. WritersTyped'
  BY <1>1, <1>3, <1>8, <1>9, <1>11 DEF Typed, WritersTyped, Busy
<1>13. ReadersTyped'
  BY <1>1, <1>2, <1>8, <1>9, ReadersStayTyped
<1>14. entry[i].stream[1] = "unmatched" => entry'[i].at # 0
  BY <1>3, <1>4, <1>6, <1>8
<1>. QED  BY <1>1, <1>3, <1>8, <1>9, <1>10, <1>11, <1>12, <1>13, <1>14 DEF Typed

LEMMA IndexTyped ==
  ASSUME Typed, NEW w \in Writer, IndexRecord(w)
  PROVE  /\ Typed' /\ Growing /\ writer[w].id \in Recorded /\ writer'[w] = IdleWriter
         /\ entry[writer[w].id].stream \in Stream /\ entry[writer[w].id].number \in Number
<1>. DEFINE i == writer[w].id
            r == entry[i]
<1>1. /\ writer[w].pc = "index" /\ index' = [index EXCEPT ![r.stream][r.number] = i]
      /\ writer' = [writer EXCEPT ![w] = IdleWriter]
      /\ UNCHANGED <<counter, entry, stored, name, clearing, reader>>
  BY DEF IndexRecord
<1>2. i \in Recorded /\ r \in Entry
  BY <1>1, Records DEF Typed, WritersTyped, Busy
<1>3. r.stream \in Stream /\ r.number \in Number
  BY <1>2 DEF Entry
<1>4. index' \in [Stream -> [Number -> {NoId} \cup Recorded]]
  BY <1>1, <1>2, <1>3 DEF Typed, EntriesTyped
<1>5. EntriesTyped' /\ Growing /\ Recorded' = Recorded
  BY <1>1, <1>4, Records DEF Typed, EntriesTyped, Recorded, Growing, Same
<1>6. IdleWriter \in Writing /\ IdleWriter.pc = "idle" /\ IdleWriter.id = NoId
  BY StoreAssumption DEF IdleWriter, Writing, NoId
<1>7. WritersTyped'
  BY <1>1, <1>5, <1>6 DEF Typed, WritersTyped, Busy
<1>8. ReadersTyped'
  BY <1>1, <1>5 DEF Typed, ReadersTyped
<1>. QED  BY <1>1, <1>2, <1>3, <1>5, <1>7, <1>8 DEF Typed, WritersTyped

LEMMA AbandonTyped ==
  ASSUME Typed, NEW w \in Writer, AbandonRecord(w)
  PROVE  Typed' /\ Growing /\ writer'[w] = IdleWriter
<1>1. /\ writer' = [writer EXCEPT ![w] = IdleWriter]
      /\ UNCHANGED <<counter, entry, stored, index, name, clearing, reader>>
  BY DEF AbandonRecord
<1>5. EntriesTyped' /\ Growing /\ Recorded' = Recorded
  BY <1>1, Records DEF Typed, EntriesTyped, Recorded, Growing, Same
<1>6. IdleWriter \in Writing /\ IdleWriter.pc = "idle" /\ IdleWriter.id = NoId
  BY StoreAssumption DEF IdleWriter, Writing, NoId
<1>7. WritersTyped'
  BY <1>1, <1>5, <1>6 DEF Typed, WritersTyped, Busy
<1>8. ReadersTyped'
  BY <1>1, <1>5 DEF Typed, ReadersTyped
<1>. QED  BY <1>1, <1>5, <1>7, <1>8 DEF Typed, WritersTyped

-----------------------------------------------------------------------------
(* Expiry, clearing and renaming.                                          *)
Tidy ==
  \/ \E id \in Id : ExpireRecord(id)
  \/ \E g \in Group : \/ ClearRecords(g) \/ ClearIndex(g) \/ ClearCounters(g)
                      \/ \E n \in Name : RenameGroup(g, n)

LEMMA TidyTyped ==
  ASSUME Typed, Tidy
  PROVE  /\ Typed' /\ Growing /\ UNCHANGED <<entry, writer, reader>> /\ stored' \subseteq stored
         /\ \A s \in Stream, n \in Number : index'[s][n] \in {index[s][n], NoId}
         /\ \A g \in Group : name'[g] = name[g] \/ name'[g].renames > name[g].renames
<1>1. UNCHANGED <<entry, writer, reader>>
  BY DEF Tidy, ExpireRecord, ClearRecords, ClearIndex, ClearCounters, RenameGroup
<1>2. Growing /\ Recorded' = Recorded
  BY <1>1, Records DEF Recorded, Growing, Same
<1>3. ReadersTyped' /\ WritersTyped'
  BY <1>1, <1>2 DEF Typed, ReadersTyped, WritersTyped, Busy
<1>. DEFINE Goal == /\ EntriesTyped' /\ stored' \subseteq stored
                    /\ \A s \in Stream, n \in Number : index'[s][n] \in {index[s][n], NoId}
                    /\ \A g \in Group : name'[g] = name[g] \/ name'[g].renames > name[g].renames
<1>4. ASSUME NEW id \in Id, ExpireRecord(id)
      PROVE  Goal
  BY <1>1, <1>2, <1>4 DEF ExpireRecord, Typed, EntriesTyped
<1>5. ASSUME NEW g \in Group, ClearRecords(g)
      PROVE  Goal
  BY <1>1, <1>2, <1>5 DEF ClearRecords, Typed, EntriesTyped
<1>6. ASSUME NEW g \in Group, ClearIndex(g)
      PROVE  Goal
  <2>1. index' \in [Stream -> [Number -> {NoId} \cup Recorded]]
        /\ \A s \in Stream, n \in Number : index'[s][n] \in {index[s][n], NoId}
    BY <1>6 DEF ClearIndex, Typed, EntriesTyped
  <2>. QED  BY <1>1, <1>2, <1>6, <2>1 DEF ClearIndex, Typed, EntriesTyped
<1>7. ASSUME NEW g \in Group, ClearCounters(g)
      PROVE  Goal
  <2>1. counter' \in [Stream -> 0 .. MaxRecords]
        /\ \A s \in Stream : counter'[s] <= Len(entry)
    <3>1. counter' = [counter EXCEPT ![<<"handled", g>>] = 0, ![<<"callback", g>>] = 0]
      BY <1>7 DEF ClearCounters
    <3>2. counter \in [Stream -> 0 .. MaxRecords] /\ 0 \in 0 .. MaxRecords
          /\ \A s \in Stream : counter[s] <= Len(entry)
      BY StoreAssumption DEF Typed, EntriesTyped
    <3>3. counter' \in [Stream -> 0 .. MaxRecords]
      BY <3>1, <3>2
    <3>4. \A s \in Stream : counter'[s] \in {0, counter[s]}
      BY <3>1, <3>2
    <3>. QED  BY <3>2, <3>3, <3>4, Records
  <2>. QED  BY <1>1, <1>2, <1>7, <2>1 DEF ClearCounters, Typed, EntriesTyped
<1>8. ASSUME NEW g \in Group, NEW n \in Name, RenameGroup(g, n)
      PROVE  Goal
  <2>1. name' = [name EXCEPT ![g] = [now |-> n, renames |-> name[g].renames + 1]]
        /\ name[g].renames < MaxRenames /\ name[g].renames \in Nat
    BY <1>8 DEF RenameGroup, Typed, EntriesTyped
  <2>2. name' \in [Group -> [now : Name, renames : 0 .. MaxRenames]]
    BY <2>1, StoreAssumption DEF Typed, EntriesTyped
  <2>3. \A h \in Group : name'[h] = name[h] \/ name'[h].renames > name[h].renames
    BY <2>1 DEF Typed, EntriesTyped
  <2>. QED  BY <1>1, <1>2, <1>8, <2>2, <2>3 DEF RenameGroup, Typed, EntriesTyped
<1>. QED  BY <1>1, <1>2, <1>3, <1>4, <1>5, <1>6, <1>7, <1>8 DEF Tidy, Typed

-----------------------------------------------------------------------------
(* Reading.                                                                *)
(* A record that a reader finds on its way                                 *)
Hit(p) ==
  LET r == reader[p] IN Found(r.stream, r.n) /\ Visible(p, index[r.stream][r.n])

LEMMA ReaderTyped ==
  ASSUME Typed, NEW p \in Reader
  PROVE  /\ reader[p] \in Reading /\ reader[p].stream \in Stream
         /\ reader[p].n \in 0 .. MaxRecords /\ reader[p].n \in Nat
         /\ reader[p].page \in Seq(Id) /\ reader[p].seen \in Seq(Id)
         /\ Len(reader[p].page) \in Nat /\ Len(reader[p].seen) \in Nat
         /\ DOMAIN reader[p].page = 1 .. Len(reader[p].page)
         /\ reader[p].given \subseteq Id /\ reader[p].owed \subseteq Recorded
         /\ Len(reader[p].page) <= PageLimit
         /\ \A k \in 1 .. Len(reader[p].page) : reader[p].page[k] \in Recorded
         /\ \A k \in 1 .. Len(reader[p].seen) : reader[p].seen[k] \in Recorded
         /\ reader[p].cutoff \in Nat /\ reader[p].scanned \in 0 .. ScanCap
         /\ reader[p].count \in Nat
<1>1. reader[p] \in Reading
  BY DEF Typed, ReadersTyped
<1>2. /\ reader[p].stream \in Stream /\ reader[p].n \in 0 .. MaxRecords
      /\ reader[p].page \in Seq(Id) /\ reader[p].seen \in Seq(Id)
      /\ reader[p].given \subseteq Id /\ reader[p].cutoff \in Nat
      /\ reader[p].scanned \in 0 .. ScanCap /\ reader[p].count \in Nat
  BY <1>1, StoreAssumption DEF Reading
<1>. QED  BY <1>1, <1>2, LenProperties, StoreAssumption DEF Typed, ReadersTyped

(* A reader becomes r, the rest stays.                                     *)
Becomes(p, r) ==
  /\ reader' = [reader EXCEPT ![p] = r]
  /\ UNCHANGED <<counter, entry, stored, index, writer, name, clearing>>

LEMMA BecomesTyped ==
  ASSUME Typed, NEW p \in Reader, NEW r \in Reading, Becomes(p, r),
         Len(r.page) <= PageLimit, r.owed \subseteq Recorded,
         \A k \in 1 .. Len(r.page) : r.page[k] \in Recorded,
         \A k \in 1 .. Len(r.seen) : r.seen[k] \in Recorded
  PROVE  Typed' /\ Growing /\ Recorded' = Recorded
<1>1. EntriesTyped' /\ Growing /\ Recorded' = Recorded
  BY Records DEF Becomes, Typed, EntriesTyped, Recorded, Growing, Same
<1>2. WritersTyped'
  BY <1>1 DEF Becomes, Typed, WritersTyped, Busy
<1>3. ReadersTyped'
  BY <1>1 DEF Becomes, Typed, ReadersTyped
<1>. QED  BY <1>1, <1>2, <1>3 DEF Typed

LEMMA Listing ==
  ASSUME Typed, NEW s \in Stream, NEW groups, NEW i \in Listed(s, groups)
  PROVE  /\ i \in stored /\ i \in Recorded
         /\ s[1] = "unmatched" => entry[i].group \in groups
         /\ \E n \in Number : n <= counter[s] /\ index[s][n] = i
<1>1. PICK n \in 1 .. counter[s] :
        /\ i = index[s][n] /\ index[s][n] \in stored
        /\ s[1] = "unmatched" => entry[index[s][n]].group \in groups
  BY DEF Listed, Found
<1>2. n \in Number /\ n <= counter[s]
  BY StoreAssumption DEF Typed, EntriesTyped, Number
<1>. QED  BY <1>1, <1>2 DEF Typed, EntriesTyped

(* What a client starts with                                               *)
Opened(s, groups, filtered) ==
  [IdleReader EXCEPT !.pc = "walk", !.stream = s, !.visible = groups, !.n = counter[s],
       !.filter = FilterOn(filtered, s),
       !.since = IF filtered THEN name[s[2]].renames ELSE 0,
       !.owed = {i \in Listed(s, groups) : filtered => entry[i].name = name[s[2]].now}]

Begun(groups, cutoff) ==
  [IdleReader EXCEPT !.pc = "count", !.stream = <<"unmatched", Host>>, !.visible = groups,
       !.n = counter[<<"unmatched", Host>>], !.cutoff = cutoff,
       !.owed = {i \in Listed(<<"unmatched", Host>>, groups) : entry[i].at >= cutoff}]

Opening(r, s, groups, filtered) ==
  /\ r.pc = "walk" /\ r.stream = s /\ r.visible = groups /\ r.n = counter[s]
  /\ r.owed \subseteq Listed(s, groups) /\ Len(r.page) = 0 /\ Len(r.seen) = 0
  /\ ~ filtered => r.filter = NoName
  /\ filtered => /\ s[2] \in Group /\ r.filter = name[s[2]].now
                 /\ r.since = name[s[2]].renames
                 /\ \A i \in r.owed : entry[i].name = name[s[2]].now

Beginning(r, s, groups, cutoff) ==
  /\ r.pc = "count" /\ r.stream = s /\ r.visible = groups /\ r.n = counter[s]
  /\ r.cutoff = cutoff /\ r.filter = NoName
  /\ r.owed = {i \in Listed(s, groups) : entry[i].at >= cutoff}
  /\ r.given = {} /\ r.count = 0 /\ r.page = <<>>
  /\ Len(r.page) = 0 /\ Len(r.seen) = 0

LEMMA StartTyped ==
  ASSUME Typed, NEW p \in Reader, NEW s \in Stream,
         NEW groups \in {Group} \cup {{g} : g \in Group}, NEW filtered \in BOOLEAN,
         StartListing(p, s, groups, filtered)
  PROVE  /\ Typed' /\ Growing
         /\ \E r : Becomes(p, r) /\ Opening(r, s, groups, filtered)
<1>0. PICK r : r = Opened(s, groups, filtered)
  OBVIOUS
<1>1. Becomes(p, r) /\ (filtered => s[1] = "handled")
  BY <1>0 DEF StartListing, Becomes, Opened
<1>2. Listed(s, groups) \subseteq Recorded
  BY Listing
<1>3. groups \subseteq Group /\ counter[s] \in 0 .. MaxRecords /\ Recorded \subseteq Id
  BY Records DEF Typed, EntriesTyped
<1>4. filtered => s[2] \in Group
  BY <1>1 DEF Stream
<1>5. \A g \in Group : name[g].now \in Name /\ name[g].renames \in 0 .. MaxRenames
  BY DEF Typed, EntriesTyped
<1>6. /\ r.pc = "walk" /\ r.stream = s /\ r.visible = groups /\ r.n = counter[s]
      /\ r.filter = FilterOn(filtered, s)
      /\ r.since = (IF filtered THEN name[s[2]].renames ELSE 0)
      /\ r.owed = {i \in Listed(s, groups) : filtered => entry[i].name = name[s[2]].now}
      /\ r.page = <<>> /\ r.seen = <<>> /\ Len(r.page) = 0 /\ Len(r.seen) = 0
  BY <1>0, EmptySeq DEF IdleReader, Opened
<1>7. r \in Reading
  <2>1. FilterOn(filtered, s) \in Name \cup {NoName}
    BY <1>4, <1>5 DEF FilterOn
  <2>2. (IF filtered THEN name[s[2]].renames ELSE 0) \in 0 .. MaxRenames
    BY <1>4, <1>5, StoreAssumption
  <2>3. {i \in Listed(s, groups) : filtered => entry[i].name = name[s[2]].now} \subseteq Id
    BY <1>2, <1>3
  <2>. QED  BY <1>0, <1>3, <2>1, <2>2, <2>3, IdleTyped DEF Opened, Reading
<1>8. Typed' /\ Growing
  <2>1. r.owed \subseteq Recorded /\ Len(r.page) <= PageLimit
    BY <1>2, <1>6, StoreAssumption
  <2>2. /\ \A k \in 1 .. Len(r.page) : r.page[k] \in Recorded
        /\ \A k \in 1 .. Len(r.seen) : r.seen[k] \in Recorded
    BY <1>6
  <2>. QED  BY <1>1, <1>7, <2>1, <2>2, BecomesTyped
<1>9. Opening(r, s, groups, filtered)
  BY <1>4, <1>6 DEF FilterOn, Opening
<1>. QED  BY <1>1, <1>8, <1>9

LEMMA CountTyped ==
  ASSUME Typed, NEW p \in Reader, NEW groups \in {Group} \cup {{g} : g \in Group},
         NEW cutoff \in 1 .. MaxRecords + 1, StartCount(p, groups, cutoff),
         NEW s, s = <<"unmatched", Host>>
  PROVE  /\ Typed' /\ Growing
         /\ \E r : Becomes(p, r) /\ Beginning(r, s, groups, cutoff)
<1>0. PICK r : r = Begun(groups, cutoff)
  OBVIOUS
<1>1. Becomes(p, r) /\ s \in Stream
  BY <1>0 DEF StartCount, Becomes, Begun, Stream
<1>2. Listed(s, groups) \subseteq Recorded
  BY <1>1, Listing
<1>3. groups \subseteq Group /\ counter[s] \in 0 .. MaxRecords /\ Recorded \subseteq Id
  BY <1>1, Records DEF Typed, EntriesTyped
<1>4. /\ r.pc = "count" /\ r.stream = s /\ r.visible = groups /\ r.n = counter[s]
      /\ r.cutoff = cutoff /\ r.filter = NoName
      /\ r.owed = {i \in Listed(s, groups) : entry[i].at >= cutoff}
      /\ r.given = {} /\ r.count = 0
      /\ r.page = <<>> /\ r.seen = <<>> /\ Len(r.page) = 0 /\ Len(r.seen) = 0
  BY <1>0, EmptySeq DEF IdleReader, Begun
<1>5. r \in Reading
  <2>1. {i \in Listed(s, groups) : entry[i].at >= cutoff} \subseteq Id
    BY <1>2, <1>3
  <2>2. cutoff \in 0 .. MaxRecords + 1
    BY StoreAssumption
  <2>. QED  BY <1>1, <1>3, <2>1, <2>2, <1>0, IdleTyped DEF Begun, Reading
<1>6. Typed' /\ Growing
  <2>1. r.owed \subseteq Recorded /\ Len(r.page) <= PageLimit
    BY <1>2, <1>4, StoreAssumption
  <2>2. /\ \A k \in 1 .. Len(r.page) : r.page[k] \in Recorded
        /\ \A k \in 1 .. Len(r.seen) : r.seen[k] \in Recorded
    BY <1>4
  <2>. QED  BY <1>1, <1>5, <2>1, <2>2, BecomesTyped
<1>7. Beginning(r, s, groups, cutoff)
  BY <1>4 DEF Beginning
<1>. QED  BY <1>1, <1>6, <1>7

LEMMA WalkTyped ==
  ASSUME Typed, NEW p \in Reader, Walk(p)
  PROVE  /\ Typed' /\ Growing /\ Recorded' = Recorded
         /\ reader[p].n \in Number
         /\ Hit(p) => index[reader[p].stream][reader[p].n] \in Recorded
         /\ Becomes(p, [reader[p] EXCEPT !.n = reader[p].n - 1,
              !.page = IF Hit(p) THEN Append(reader[p].page, index[reader[p].stream][reader[p].n])
                                 ELSE reader[p].page])
<1>. DEFINE o == reader[p]
            id == index[o.stream][o.n]
            page == IF Hit(p) THEN Append(o.page, id) ELSE o.page
<1>1. /\ o.pc = "walk" /\ o.n > 0 /\ Len(o.page) < PageLimit
      /\ reader' = [reader EXCEPT ![p].n = o.n - 1, ![p].page = page]
      /\ UNCHANGED <<counter, entry, stored, index, writer, name, clearing>>
  BY DEF Walk, Hit
<1>2. /\ o \in Reading /\ o.stream \in Stream /\ o.n \in 0 .. MaxRecords
      /\ o.page \in Seq(Id) /\ Len(o.page) \in Nat /\ o.owed \subseteq Recorded
      /\ \A k \in 1 .. Len(o.page) : o.page[k] \in Recorded
      /\ \A k \in 1 .. Len(o.seen) : o.seen[k] \in Recorded
  BY ReaderTyped
<1>3. o.n \in Number /\ o.n - 1 \in 0 .. MaxRecords
  BY <1>1, <1>2, StoreAssumption DEF Number
<1>4. Hit(p) => id \in Recorded
  BY DEF Hit, Found, Typed, EntriesTyped
<1>5. PICK r : r = [o EXCEPT !.n = o.n - 1, !.page = page]
  OBVIOUS
<1>6. Becomes(p, r)
  BY <1>1, <1>5 DEF Becomes
<1>7. /\ page \in Seq(Id) /\ Len(page) <= PageLimit
      /\ \A k \in 1 .. Len(page) : page[k] \in Recorded
  <2>1. CASE Hit(p)
    <3>1. id \in Id /\ page = Append(o.page, id)
      BY <1>4, <2>1, Records
    <3>2. /\ page \in Seq(Id) /\ Len(page) = Len(o.page) + 1 /\ page[Len(o.page) + 1] = id
          /\ \A k \in 1 .. Len(o.page) : page[k] = o.page[k]
      BY <1>2, <3>1, AppendProperties
    <3>. QED  BY <1>1, <1>2, <1>4, <2>1, <3>2, StoreAssumption
  <2>2. CASE ~ Hit(p)
    BY <1>1, <1>2, <2>2, StoreAssumption
  <2>. QED  BY <2>1, <2>2
<1>. HIDE DEF page
<1>8. r \in Reading /\ r.page = page /\ r.owed = o.owed /\ r.seen = o.seen
  BY <1>2, <1>3, <1>5, <1>7 DEF Reading
<1>9. Typed' /\ Growing /\ Recorded' = Recorded
  <2>1. /\ r \in Reading /\ Len(r.page) <= PageLimit
        /\ \A k \in 1 .. Len(r.page) : r.page[k] \in Recorded
    BY <1>7, <1>8
  <2>2. /\ r.owed \subseteq Recorded
        /\ \A k \in 1 .. Len(r.seen) : r.seen[k] \in Recorded
    BY <1>2, <1>8
  <2>. QED  BY <1>6, <2>1, <2>2, BecomesTyped
<1>. QED  BY <1>3, <1>4, <1>5, <1>6, <1>9 DEF page

(* The last number of a page that is not empty                             *)
LEMMA LastOfPage ==
  ASSUME Typed, NEW p \in Reader, reader[p].page # <<>>
  PROVE  /\ Len(reader[p].page) \in 1 .. Len(reader[p].page)
         /\ reader[p].page[Len(reader[p].page)] \in Recorded
         /\ NextStart(reader[p]) = entry[reader[p].page[Len(reader[p].page)]].number - 1
         /\ NextStart(reader[p]) \in 0 .. MaxRecords
<1>1. Len(reader[p].page) \in 1 .. Len(reader[p].page)
  BY ReaderTyped, EmptySeq
<1>2. reader[p].page[Len(reader[p].page)] \in Recorded
  BY <1>1, ReaderTyped
<1>3. entry[reader[p].page[Len(reader[p].page)]].number \in Number
  BY <1>2, Records DEF Entry
<1>. QED  BY <1>1, <1>2, <1>3, StoreAssumption DEF NextStart, Number

(* A filter is on the name that the group bears, if it was not renamed     *)
(* since, and then what is owed bears that name.                           *)
Steady(r) == r.filter = NoName \/ name[r.stream[2]].renames = r.since

Agreed(r) == r.filter # NoName =>
  /\ r.stream[2] \in Group /\ r.since \in Nat /\ r.since <= name[r.stream[2]].renames
  /\ Steady(r) => /\ r.filter = name[r.stream[2]].now
                  /\ \A i \in r.owed : entry[i].name = r.filter

Picked(p) == {id \in Range(reader[p].page) : Accepts(reader[p], id)}

(* What is in two sequences one after the other                            *)
LEMMA Joined ==
  ASSUME NEW S, NEW s \in Seq(S), NEW t \in Seq(S), NEW k \in 1 .. Len(s \o t)
  PROVE  \/ k \in 1 .. Len(s) /\ (s \o t)[k] = s[k]
         \/ k > Len(s) /\ k - Len(s) \in 1 .. Len(t) /\ (s \o t)[k] = t[k - Len(s)]
<1>1. PICK m \in Nat : m = Len(s)
  BY LenProperties
<1>2. PICK n \in Nat : n = Len(t)
  BY LenProperties
<1>3. PICK u : u = s \o t
  OBVIOUS
<1>4. Len(u) = m + n /\ \A i \in 1 .. m + n : u[i] = IF i <= m THEN s[i] ELSE t[i - m]
  BY <1>1, <1>2, <1>3, ConcatProperties
<1>5. k \in 1 .. m + n
  BY <1>3, <1>4
<1>6. \/ k \in 1 .. m /\ u[k] = s[k]
      \/ k > m /\ k - m \in 1 .. n /\ u[k] = t[k - m]
  BY <1>4, <1>5
<1>. QED  BY <1>1, <1>2, <1>3, <1>6

LEMMA AnswerTyped ==
  ASSUME Typed, NEW p \in Reader, Answer(p), Agreed(reader[p])
  PROVE  /\ Typed' /\ Growing /\ Recorded' = Recorded
         /\ reader[p].pc = "walk" /\ PageFull(reader[p]) /\ NextStart(reader[p]) \in 0 .. MaxRecords
         /\ Becomes(p, [reader[p] EXCEPT
              !.pc = IF NextStart(reader[p]) > 0 THEN "walk" ELSE "done",
              !.n = NextStart(reader[p]),
              !.filter = FilterOn(reader[p].filter # NoName, reader[p].stream), !.page = <<>>,
              !.seen = reader[p].seen \o reader[p].page,
              !.given = reader[p].given \cup Picked(p)])
<1>. DEFINE o == reader[p]
            pc == IF NextStart(o) > 0 THEN "walk" ELSE "done"
            seen == o.seen \o o.page
            given == o.given \cup Picked(p)
            filter == FilterOn(o.filter # NoName, o.stream)
<1>1. /\ o.pc = "walk" /\ PageFull(o)
      /\ reader' = [reader EXCEPT ![p].pc = pc, ![p].n = NextStart(o), ![p].filter = filter,
                                  ![p].page = <<>>, ![p].seen = seen, ![p].given = given]
      /\ UNCHANGED <<counter, entry, stored, index, writer, name, clearing>>
  BY DEF Answer, Picked
<1>2. /\ o \in Reading /\ o.page \in Seq(Id) /\ o.seen \in Seq(Id)
      /\ Len(o.page) \in Nat /\ Len(o.seen) \in Nat
      /\ DOMAIN o.page = 1 .. Len(o.page) /\ o.owed \subseteq Recorded
      /\ \A k \in 1 .. Len(o.page) : o.page[k] \in Recorded
      /\ \A k \in 1 .. Len(o.seen) : o.seen[k] \in Recorded
  BY ReaderTyped
<1>3. NextStart(o) \in 0 .. MaxRecords
  BY LastOfPage, StoreAssumption DEF NextStart
<1>4. PICK r : r = [o EXCEPT !.pc = pc, !.n = NextStart(o), !.filter = filter, !.page = <<>>,
                             !.seen = seen, !.given = given]
  OBVIOUS
<1>5. Becomes(p, r)
  BY <1>1, <1>4 DEF Becomes
<1>6. /\ seen \in Seq(Id) /\ \A k \in 1 .. Len(seen) : seen[k] \in Recorded
  <2>1. /\ seen \in Seq(Id) /\ Len(seen) = Len(o.seen) + Len(o.page)
        /\ \A k \in 1 .. Len(o.seen) + Len(o.page) : seen[k] =
              IF k <= Len(o.seen) THEN o.seen[k] ELSE o.page[k - Len(o.seen)]
    BY <1>2, ConcatProperties
  <2>2. ASSUME NEW k \in 1 .. Len(seen) PROVE seen[k] \in Recorded
    <3>1. o.page \in Seq(Id) /\ o.seen \in Seq(Id)
      BY <1>2
    <3>2. \/ k \in 1 .. Len(o.seen) /\ seen[k] = o.seen[k]
          \/ k - Len(o.seen) \in 1 .. Len(o.page) /\ seen[k] = o.page[k - Len(o.seen)]
      BY <2>2, <3>1, Joined
    <3>. QED  BY <1>2, <3>2
  <2>. QED  BY <2>1, <2>2
<1>7. /\ given \subseteq Id /\ pc \in {"idle", "walk", "done", "count", "counted"}
      /\ filter \in Name \cup {NoName}
  <2>1. Picked(p) \subseteq Id
    BY <1>2, Records DEF Picked, Range
  <2>2. filter \in Name \cup {NoName}
    BY DEF FilterOn, Agreed, Typed, EntriesTyped
  <2>. QED  BY <2>1, <2>2, ReaderTyped
<1>8. <<>> \in Seq(Id) /\ Len(<<>>) = 0
  BY EmptySeq
<1>. HIDE DEF seen, given, pc, filter
<1>9. r \in Reading /\ r.page = <<>> /\ r.owed = o.owed /\ r.seen = seen
  BY <1>2, <1>3, <1>4, <1>6, <1>7, <1>8 DEF Reading
<1>10. Len(r.page) = 0 /\ Len(r.page) <= PageLimit
  BY <1>8, <1>9, StoreAssumption
<1>11. \A k \in 1 .. Len(r.page) : r.page[k] \in Recorded
  BY <1>10
<1>12. /\ r.owed \subseteq Recorded
       /\ \A k \in 1 .. Len(r.seen) : r.seen[k] \in Recorded
  BY <1>2, <1>6, <1>9
<1>13. r \in Reading
  BY <1>9
<1>14. Typed' /\ Growing /\ Recorded' = Recorded
  BY <1>5, <1>10, <1>11, <1>12, <1>13, BecomesTyped
<1>. QED  BY <1>1, <1>3, <1>4, <1>5, <1>14 DEF seen, given, pc, filter

LEMMA EndTyped ==
  ASSUME Typed, NEW p \in Reader, EndListing(p)
  PROVE  Typed' /\ Growing /\ Recorded' = Recorded /\ Becomes(p, IdleReader)
<1>1. Becomes(p, IdleReader)
  BY DEF EndListing, Becomes
<1>2. IdleReader \in Reading /\ Len(IdleReader.page) = 0 /\ Len(IdleReader.seen) = 0
      /\ IdleReader.owed = {}
  BY IdleTyped
<1>3. Len(IdleReader.page) <= PageLimit /\ IdleReader.owed \subseteq Recorded
  BY <1>2, StoreAssumption
<1>4. /\ \A k \in 1 .. Len(IdleReader.page) : IdleReader.page[k] \in Recorded
      /\ \A k \in 1 .. Len(IdleReader.seen) : IdleReader.seen[k] \in Recorded
  BY <1>2
<1>. QED  BY <1>1, <1>2, <1>3, <1>4, BecomesTyped

-----------------------------------------------------------------------------
(* What a page says, and what it does not.                                 *)

(* An index entry leads to the record of its number, which nobody writes.  *)
Free(i) == \A w \in Writer : Busy(w) => writer[w].id # i

Indexed ==
  \A s \in Stream, n \in Number : index[s][n] # NoId =>
    LET i == index[s][n] IN
    i \in Recorded /\ entry[i].stream = s /\ entry[i].number = n /\ Free(i)

(* What is stored of the unmatched requests was dated.                     *)
Dated == \A i \in stored : entry[i].stream[1] = "unmatched" => entry[i].at # 0

(* The walk goes down: what was seen is above the page, and both are above *)
(* the number to be looked at next.                                        *)
Falling(r) ==
  /\ \A k \in 1 .. Len(r.page) : entry[r.page[k]].number > r.n
  /\ \A j, k \in 1 .. Len(r.page) : j < k => entry[r.page[j]].number > entry[r.page[k]].number
  /\ \A k \in 1 .. Len(r.seen) : entry[r.seen[k]].number > r.n
  /\ \A j, k \in 1 .. Len(r.seen) : j < k => entry[r.seen[j]].number > entry[r.seen[k]].number
  /\ \A j \in 1 .. Len(r.seen), k \in 1 .. Len(r.page) :
       entry[r.seen[j]].number > entry[r.page[k]].number

Wanted(r, i) ==
  /\ i \in stored /\ index[r.stream][entry[i].number] = i
  /\ Steady(r)

(* What is owed is nobody's to write, and was given or is on the page once *)
(* the walk is past it, as long as it is listed.                           *)
Covered(r) == \A i \in r.owed :
  /\ Free(i)
  /\ r.stream[1] = "unmatched" => entry[i].group \in r.visible
  /\ Wanted(r, i) /\ entry[i].number > r.n =>
       i \in r.given \/ \E k \in 1 .. Len(r.page) : r.page[k] = i

Finished(r) == r.pc = "done" => r.n = 0 /\ r.page = <<>>

(* A count has every request of the window above the number to be looked   *)
(* at next, and stopped before the cap at number 0 or at an older request. *)
Ended(r) ==
  /\ \E j \in Recorded : /\ entry[j].stream = r.stream /\ entry[j].number = r.n
                         /\ entry[j].at \in 1 .. r.cutoff - 1
  /\ \A i \in r.owed : Wanted(r, i) => entry[i].number # r.n

Tallied(r) == r.pc \in {"count", "counted"} =>
  /\ r.stream = <<"unmatched", Host>> /\ r.filter = NoName /\ r.page = <<>>
  /\ r.cutoff \in Nat /\ r.cutoff >= 1
  /\ IsFiniteSet(r.given) /\ r.count = Cardinality(r.given)
  /\ \A i \in r.given : /\ i \in Recorded /\ entry[i].at >= r.cutoff
                        /\ entry[i].group \in r.visible /\ entry[i].number > r.n
  /\ \A i \in r.owed : entry[i].at >= r.cutoff
  /\ r.pc = "counted" /\ ~ r.saturated => r.n = 0 \/ Ended(r)

Paging(p) ==
  LET r == reader[p]
  IN  Falling(r) /\ Covered(r) /\ Finished(r) /\ Agreed(r) /\ Tallied(r)

PageInv == Indexed /\ Dated /\ \A p \in Reader : Paging(p)

LEMMA PageInit ==
  ASSUME Init
  PROVE  PageInv
<1>1. Recorded = {} /\ Len(<<>>) = 0
  BY EmptySeq DEF Init, Recorded
<1>2. Indexed
  BY DEF Init, Indexed
<1>3. Dated
  BY DEF Init, Dated
<1>4. ASSUME NEW p \in Reader
      PROVE  Paging(p)
  <2>1. reader[p] = IdleReader
    BY DEF Init
  <2>. QED  BY <2>1, IdleTyped DEF Paging, Falling, Covered, Finished, Agreed, Tallied
<1>. QED  BY <1>2, <1>3, <1>4 DEF PageInv

(* A step that stores, lists, frees and dates nothing of old leaves the    *)
(* readers as they are.                                                    *)
Fading ==
  /\ Growing /\ UNCHANGED reader
  /\ \A i \in Recorded : Free(i) =>
       /\ Free(i)'
       /\ i \in stored' => i \in stored
       /\ \A s \in Stream, n \in Number : index'[s][n] = i => index[s][n] = i
  /\ \A i \in Recorded : entry[i].at # 0 => entry'[i].at = entry[i].at
  /\ \A g \in Group : name'[g] = name[g] \/ name'[g].renames > name[g].renames

LEMMA PagesFade ==
  ASSUME Typed, Typed', PageInv, Fading, NEW p \in Reader
  PROVE  Paging(p)'
<1>. DEFINE r == reader[p]
<1>1. /\ reader'[p] = r /\ r.stream \in Stream /\ r.owed \subseteq Recorded
      /\ \A k \in 1 .. Len(r.page) : r.page[k] \in Recorded
      /\ \A k \in 1 .. Len(r.seen) : r.seen[k] \in Recorded
  BY ReaderTyped DEF Fading
<1>2. \A i \in Recorded : Same(i) /\ entry[i].number \in Number /\ entry[i].group \in Group
  BY Records DEF Fading, Growing, Entry
<1>3. Falling(r) /\ Covered(r) /\ Finished(r) /\ Agreed(r) /\ Tallied(r)
  BY DEF PageInv, Paging
<1>4. Falling(reader[p])'
  <2>1. \A i \in Recorded : entry'[i].number = entry[i].number
    BY <1>2 DEF Same
  <2>. PICK o : o = r
    OBVIOUS
  <2>2. \A k \in 1 .. Len(o.page) : entry'[o.page[k]].number = entry[o.page[k]].number
    BY <1>1, <2>1
  <2>3. \A k \in 1 .. Len(o.seen) : entry'[o.seen[k]].number = entry[o.seen[k]].number
    BY <1>1, <2>1
  <2>4. reader'[p] = o
    BY <1>1
  <2>5. Falling(o)
    BY <1>3
  <2>. HIDE DEF r
  <2>6. /\ \A k \in 1 .. Len(o.page) : entry'[o.page[k]].number > o.n
        /\ \A j, k \in 1 .. Len(o.page) :
             j < k => entry'[o.page[j]].number > entry'[o.page[k]].number
    BY <2>2, <2>5 DEF Falling
  <2>7. /\ \A k \in 1 .. Len(o.seen) : entry'[o.seen[k]].number > o.n
        /\ \A j, k \in 1 .. Len(o.seen) :
             j < k => entry'[o.seen[j]].number > entry'[o.seen[k]].number
    BY <2>3, <2>5 DEF Falling
  <2>8. \A j \in 1 .. Len(o.seen), k \in 1 .. Len(o.page) :
          entry'[o.seen[j]].number > entry'[o.page[k]].number
    BY <2>2, <2>3, <2>5 DEF Falling
  <2>. QED  BY <2>4, <2>6, <2>7, <2>8 DEF Falling
<1>7. (Steady(r)' => Steady(r)) /\ Agreed(r)'
  <2>1. CASE r.filter = NoName
    BY <1>1, <2>1 DEF Steady, Agreed
  <2>2. CASE r.filter # NoName
    <3>1. PICK g \in Group : g = r.stream[2]
      BY <1>3, <2>2 DEF Agreed
    <3>2. /\ name[g].renames \in Nat /\ name'[g].renames \in Nat
          /\ name'[g] = name[g] \/ name'[g].renames > name[g].renames
      BY DEF Typed, EntriesTyped, Fading
    <3>3. r.since \in Nat /\ r.since <= name[g].renames
      BY <1>3, <2>2, <3>1 DEF Agreed
    <3>4. Steady(r)' => Steady(r) /\ name'[g] = name[g]
      BY <1>1, <2>2, <3>1, <3>2, <3>3 DEF Steady
    <3>5. \A i \in r.owed : entry'[i].name = entry[i].name
      BY <1>1, <1>2 DEF Same
    <3>. QED  BY <1>1, <1>3, <2>2, <3>1, <3>2, <3>3, <3>4, <3>5 DEF Agreed
  <2>. QED  BY <2>1, <2>2
<1>5. ASSUME NEW i \in r.owed
      PROVE  /\ Free(i)'
             /\ r.stream[1] = "unmatched" => entry'[i].group \in r.visible
             /\ Wanted(r, i)' => Wanted(r, i)
             /\ entry'[i].number = entry[i].number
  <2>1. i \in Recorded /\ Free(i)
    BY <1>1, <1>3 DEF Covered
  <2>2. Same(i) /\ entry[i].number \in Number /\ entry[i].group \in Group
    BY <1>2, <2>1
  <2>3. Free(i)' /\ (i \in stored' => i \in stored)
        /\ (index'[r.stream][entry[i].number] = i => index[r.stream][entry[i].number] = i)
    BY <1>1, <2>1, <2>2 DEF Fading
  <2>4. Wanted(r, i)' => Wanted(r, i)
    BY <1>1, <1>7, <2>2, <2>3 DEF Wanted, Same
  <2>. QED  BY <1>3, <2>2, <2>3, <2>4 DEF Covered, Same
<1>6. Covered(reader[p])'
  BY <1>1, <1>3, <1>5 DEF Covered, Wanted
<1>8. Tallied(reader[p])'
  <2>. SUFFICES ASSUME r.pc \in {"count", "counted"}
                PROVE  Tallied(r)'
    BY <1>1 DEF Tallied
  <2>1. /\ r.cutoff \in Nat /\ r.cutoff >= 1
        /\ \A i \in r.given : /\ i \in Recorded /\ entry[i].at >= r.cutoff
                              /\ entry[i].group \in r.visible /\ entry[i].number > r.n
        /\ \A i \in r.owed : entry[i].at >= r.cutoff
    BY <1>3 DEF Tallied
  <2>2. Recorded \subseteq Recorded'
    BY Records DEF Fading, Growing, Recorded, Typed, EntriesTyped
  <2>3. \A i \in Recorded : entry[i].at \in Nat
                           /\ (entry[i].at >= 1 => entry'[i].at = entry[i].at)
    <3>1. \A i \in Recorded : entry[i].at \in Nat
      BY Records DEF Entry
    <3>. QED  BY <3>1 DEF Fading
  <2>4. \A i \in r.given : /\ i \in Recorded' /\ entry'[i].at >= r.cutoff
                           /\ entry'[i].group \in r.visible /\ entry'[i].number > r.n
    BY <1>2, <2>1, <2>2, <2>3 DEF Same
  <2>5. \A i \in r.owed : entry'[i].at >= r.cutoff
    BY <1>1, <2>1, <2>3
  <2>6. Ended(r) => Ended(r)'
    <3>. SUFFICES ASSUME Ended(r)
                  PROVE  Ended(r)'
      OBVIOUS
    <3>1. PICK j \in Recorded : /\ entry[j].stream = r.stream /\ entry[j].number = r.n
                               /\ entry[j].at \in 1 .. r.cutoff - 1
      BY DEF Ended
    <3>2. /\ j \in Recorded' /\ entry'[j].stream = r.stream /\ entry'[j].number = r.n
          /\ entry'[j].at \in 1 .. r.cutoff - 1
      BY <1>2, <2>2, <2>3, <3>1 DEF Same
    <3>3. \A i \in r.owed : Wanted(r, i)' => entry'[i].number # r.n
      BY <1>5 DEF Ended
    <3>. QED  BY <1>1, <3>2, <3>3 DEF Ended, Wanted, Steady
  <2>. QED  BY <1>1, <1>3, <2>4, <2>5, <2>6 DEF Tallied
<1>. QED  BY <1>1, <1>3, <1>4, <1>6, <1>7, <1>8 DEF Paging, Finished, Agreed, Steady

-----------------------------------------------------------------------------
(* The steps that fade, one by one.                                        *)

LEMMA IssuePaging ==
  ASSUME Typed, PageInv, NEW w \in Writer, NEW kind \in Kind, NEW g \in Group,
         Issue(w, kind, g)
  PROVE  PageInv'
<1>. DEFINE id == Len(entry) + 1
<1>1. /\ Typed' /\ Growing /\ Len(entry)' = id /\ writer'[w] = [pc |-> "write", id |-> id]
      /\ \A i \in Recorded : entry'[i] = entry[i]
  BY IssueTyped
<1>2. /\ writer[w] = IdleWriter /\ UNCHANGED <<stored, index, name, clearing, reader>>
      /\ \A v \in Writer \ {w} : writer'[v] = writer[v]
  BY DEF Issue
<1>3. Len(entry) \in Nat /\ id \notin Recorded /\ Recorded' = Recorded \cup {id}
  BY <1>1, Records DEF Recorded
<1>4. \A i \in Recorded : Free(i) => Free(i)'
  BY <1>1, <1>2, <1>3 DEF Free, Busy, IdleWriter
<1>5. \A i \in Recorded : Same(i) /\ entry[i].group \in Group
  BY <1>1, Records DEF Growing, Entry
<1>6. Indexed'
  BY <1>2, <1>3, <1>4, <1>5 DEF Indexed, PageInv, Same
<1>7. Dated'
  BY <1>1, <1>2 DEF Dated, PageInv, Typed, EntriesTyped
<1>8. Fading
  BY <1>1, <1>2, <1>4 DEF Fading
<1>9. \A p \in Reader : Paging(p)'
  BY <1>1, <1>8, PagesFade
<1>. QED  BY <1>6, <1>7, <1>9 DEF PageInv

LEMMA WritePaging ==
  ASSUME Typed, PageInv, NEW w \in Writer, WriteRecord(w)
  PROVE  PageInv'
<1>1. /\ Typed' /\ Growing /\ Len(entry)' = Len(entry)
      /\ writer[w].pc = "write" /\ writer[w].id \in Recorded
      /\ writer'[w] = [pc |-> "index", id |-> writer[w].id]
      /\ entry[writer[w].id].at = 0
      /\ entry[writer[w].id].stream[1] = "unmatched" => entry'[writer[w].id].at # 0
      /\ \A i \in Recorded \ {writer[w].id} : entry'[i] = entry[i]
  BY WriteTyped
<1>2. /\ UNCHANGED <<index, name, clearing, reader>> /\ stored' = stored \cup {writer[w].id}
      /\ \A v \in Writer \ {w} : writer'[v] = writer[v]
  BY DEF WriteRecord, Step
<1>3. Recorded' = Recorded
  BY <1>1 DEF Recorded
<1>4. \A i \in Recorded : Free(i) => Free(i)' /\ (i \in stored' => i \in stored)
  BY <1>1, <1>2 DEF Free, Busy
<1>5. \A i \in Recorded : Same(i) /\ entry[i].group \in Group
  BY <1>1, Records DEF Growing, Entry
<1>6. Indexed'
  BY <1>2, <1>3, <1>4, <1>5 DEF Indexed, PageInv, Same
<1>7. Dated'
  BY <1>1, <1>2, <1>5 DEF Dated, PageInv, Same, Typed, EntriesTyped
<1>8. Fading
  BY <1>1, <1>2, <1>4 DEF Fading
<1>9. \A p \in Reader : Paging(p)'
  BY <1>1, <1>8, PagesFade
<1>. QED  BY <1>6, <1>7, <1>9 DEF PageInv

LEMMA IndexPaging ==
  ASSUME Typed, PageInv, NEW w \in Writer, IndexRecord(w)
  PROVE  PageInv'
<1>0. PICK i : i = writer[w].id
  OBVIOUS
<1>1. /\ Typed' /\ Growing /\ i \in Recorded /\ writer'[w] = IdleWriter
      /\ entry[i].stream \in Stream /\ entry[i].number \in Number
  BY <1>0, IndexTyped
<1>2. /\ writer[w].pc = "index" /\ UNCHANGED <<entry, stored, name, clearing, reader>>
      /\ index' = [index EXCEPT ![entry[i].stream][entry[i].number] = i]
      /\ \A v \in Writer \ {w} : writer'[v] = writer[v]
  BY <1>0 DEF IndexRecord
<1>3. index \in [Stream -> [Number -> {NoId} \cup Recorded]] /\ Recorded' = Recorded
  BY <1>2 DEF Typed, EntriesTyped, Recorded
<1>4. \A s \in Stream, n \in Number :
        index'[s][n] = IF s = entry[i].stream /\ n = entry[i].number THEN i ELSE index[s][n]
  BY <1>1, <1>2, <1>3
<1>5. \A j \in Recorded : Free(j) => Free(j)' /\ j # i
  BY <1>0, <1>1, <1>2 DEF Free, Busy, IdleWriter
<1>6. Free(i)'
  <2>1. \A v \in Writer \ {w} : Busy(v) => writer[v].id # i
    BY <1>0, <1>2 DEF Typed, WritersTyped, Busy
  <2>. QED  BY <1>1, <1>2, <2>1 DEF Free, Busy, IdleWriter
<1>7. Indexed'
  <2>. SUFFICES ASSUME NEW s \in Stream, NEW n \in Number, index'[s][n] # NoId
                PROVE  LET j == index'[s][n] IN
                       /\ j \in Recorded /\ entry[j].stream = s /\ entry[j].number = n
                       /\ \A v \in Writer : Busy(v)' => writer'[v].id # j
    BY <1>2, <1>3 DEF Indexed, Free
  <2>1. CASE index'[s][n] = i /\ s = entry[i].stream /\ n = entry[i].number
    BY <1>1, <1>6, <2>1 DEF Free
  <2>2. CASE index'[s][n] = index[s][n]
    <3>1. PICK j : j = index[s][n]
      OBVIOUS
    <3>2. j \in Recorded /\ entry[j].stream = s /\ entry[j].number = n /\ Free(j)
      BY <2>2, <3>1 DEF Indexed, PageInv
    <3>3. Free(j)'
      BY <1>5, <3>2
    <3>. QED  BY <2>2, <3>1, <3>2, <3>3 DEF Free
  <2>. QED  BY <1>4, <2>1, <2>2
<1>8. Dated'
  BY <1>2 DEF Dated, PageInv
<1>9. Fading
  BY <1>1, <1>2, <1>4, <1>5 DEF Fading
<1>10. \A p \in Reader : Paging(p)'
  BY <1>1, <1>9, PagesFade
<1>. QED  BY <1>7, <1>8, <1>10 DEF PageInv

LEMMA AbandonPaging ==
  ASSUME Typed, PageInv, NEW w \in Writer, AbandonRecord(w)
  PROVE  PageInv'
<1>1. Typed' /\ Growing /\ writer'[w] = IdleWriter
  BY AbandonTyped
<1>2. /\ UNCHANGED <<entry, stored, index, name, clearing, reader>>
      /\ \A v \in Writer \ {w} : writer'[v] = writer[v]
  BY DEF AbandonRecord
<1>3. Recorded' = Recorded
  BY <1>2 DEF Recorded
<1>4. \A i \in Recorded : Free(i) => Free(i)'
  BY <1>1, <1>2 DEF Free, Busy, IdleWriter
<1>5. Indexed' /\ Dated'
  BY <1>2, <1>3, <1>4 DEF Indexed, Dated, PageInv
<1>6. Fading
  BY <1>1, <1>2, <1>4 DEF Fading
<1>. QED  BY <1>1, <1>5, <1>6, PagesFade DEF PageInv

LEMMA TidyPaging ==
  ASSUME Typed, PageInv, Tidy
  PROVE  PageInv'
<1>1. /\ Typed' /\ Growing /\ UNCHANGED <<entry, writer, reader>> /\ stored' \subseteq stored
      /\ \A s \in Stream, n \in Number : index'[s][n] \in {index[s][n], NoId}
      /\ \A g \in Group : name'[g] = name[g] \/ name'[g].renames > name[g].renames
  BY TidyTyped
<1>2. Recorded' = Recorded /\ \A i : Free(i)' <=> Free(i)
  BY <1>1 DEF Recorded, Free, Busy
<1>3. Indexed'
  BY <1>1, <1>2 DEF Indexed, PageInv
<1>5. Dated'
  BY <1>1 DEF Dated, PageInv
<1>6. Fading
  <2>1. \A i \in Recorded : i # NoId
    BY DEF Recorded, NoId
  <2>. QED  BY <1>1, <1>2, <2>1 DEF Fading
<1>. QED  BY <1>1, <1>3, <1>5, <1>6, PagesFade DEF PageInv

-----------------------------------------------------------------------------
(* The steps of a reader.                                                  *)

LEMMA BecomesPaging ==
  ASSUME Typed, PageInv, NEW p \in Reader, NEW r, Becomes(p, r),
         Falling(r), Covered(r), Finished(r), Agreed(r), Tallied(r)
  PROVE  PageInv'
<1>1. \A q \in Reader : reader'[q] = IF q = p THEN r ELSE reader[q]
  BY DEF Becomes, Typed, ReadersTyped
<1>2. UNCHANGED <<counter, entry, stored, index, writer, name, clearing>>
  BY DEF Becomes
<1>3. Recorded' = Recorded /\ \A i : Free(i)' <=> Free(i)
  BY <1>2 DEF Recorded, Free, Busy
<1>4. Indexed' /\ Dated'
  BY <1>2, <1>3 DEF PageInv, Indexed, Dated
<1>5. ASSUME NEW q \in Reader
      PROVE  Paging(q)'
  <2>1. PICK x : x = reader'[q]
    OBVIOUS
  <2>2. Falling(x) /\ Covered(x) /\ Finished(x) /\ Agreed(x) /\ Tallied(x)
    BY <1>1, <2>1 DEF PageInv, Paging
  <2>3. Falling(reader[q])'
    BY <1>2, <2>1, <2>2 DEF Falling
  <2>4. Covered(reader[q])'
    BY <1>2, <1>3, <2>1, <2>2 DEF Covered, Wanted, Steady
  <2>5. Agreed(reader[q])'
    BY <1>2, <2>1, <2>2 DEF Agreed, Steady
  <2>6. Tallied(reader[q])'
    BY <1>2, <1>3, <2>1, <2>2 DEF Tallied, Ended, Wanted, Steady
  <2>. QED  BY <2>1, <2>2, <2>3, <2>4, <2>5, <2>6 DEF Paging, Finished
<1>. QED  BY <1>4, <1>5 DEF PageInv

LEMMA ListedCovered ==
  ASSUME Typed, PageInv, NEW s \in Stream, NEW groups, NEW i \in Listed(s, groups)
  PROVE  /\ Free(i) /\ ~ (entry[i].number > counter[s])
         /\ s[1] = "unmatched" => entry[i].group \in groups
<1>1. /\ i \in Recorded
      /\ s[1] = "unmatched" => entry[i].group \in groups
      /\ \E n \in Number : n <= counter[s] /\ index[s][n] = i
  BY Listing
<1>2. PICK n \in Number : n <= counter[s] /\ index[s][n] = i
  BY <1>1
<1>3. i # NoId
  BY <1>1 DEF Recorded, NoId
<1>4. entry[i].number = n /\ Free(i)
  BY <1>2, <1>3 DEF PageInv, Indexed
<1>5. counter[s] \in Nat /\ n \in Nat
  BY DEF Typed, EntriesTyped, Number
<1>. QED  BY <1>1, <1>2, <1>4, <1>5

LEMMA StartPaging ==
  ASSUME Typed, PageInv, NEW p \in Reader, NEW s \in Stream,
         NEW groups \in {Group} \cup {{g} : g \in Group}, NEW filtered \in BOOLEAN,
         StartListing(p, s, groups, filtered)
  PROVE  PageInv'
<1>1. PICK r : Becomes(p, r) /\ Opening(r, s, groups, filtered)
  BY StartTyped
<1>2. Opening(r, s, groups, filtered)
  BY <1>1
<1>3. Falling(r) /\ Finished(r) /\ Tallied(r)
  BY <1>2 DEF Opening, Falling, Finished, Tallied
<1>4. Covered(r)
  BY <1>2, ListedCovered DEF Opening, Covered
<1>5. Agreed(r)
  <2>1. \A g \in Group : name[g].renames \in Nat
    BY DEF Typed, EntriesTyped
  <2>. QED  BY <1>2, <2>1 DEF Opening, Agreed
<1>. QED  BY <1>1, <1>3, <1>4, <1>5, BecomesPaging

LEMMA WalkPaging ==
  ASSUME Typed, PageInv, NEW p \in Reader, Walk(p)
  PROVE  PageInv'
<1>1. PICK o : o = reader[p]
  OBVIOUS
<1>2. PICK id : id = index[o.stream][o.n]
  OBVIOUS
<1>3. PICK page : page = IF Hit(p) THEN Append(o.page, id) ELSE o.page
  OBVIOUS
<1>4. PICK r : r = [o EXCEPT !.n = o.n - 1, !.page = page]
  OBVIOUS
<1>5. Becomes(p, r) /\ o.n \in Number /\ (Hit(p) => id \in Recorded) /\ o.pc = "walk"
  <2>1. Becomes(p, [o EXCEPT !.n = o.n - 1, !.page = IF Hit(p) THEN Append(o.page, id) ELSE o.page])
    BY <1>1, <1>2, WalkTyped
  <2>2. o.n \in Number /\ (Hit(p) => id \in Recorded) /\ o.pc = "walk"
    BY <1>1, <1>2, WalkTyped DEF Walk
  <2>. QED  BY <1>3, <1>4, <2>1, <2>2
<1>6. /\ o \in Reading /\ o.stream \in Stream /\ o.page \in Seq(Id) /\ Len(o.page) \in Nat
      /\ o.n \in Nat /\ o.owed \subseteq Recorded
      /\ \A k \in 1 .. Len(o.page) : o.page[k] \in Recorded
      /\ \A k \in 1 .. Len(o.seen) : o.seen[k] \in Recorded
  BY <1>1, ReaderTyped
<1>7. /\ r.n = o.n - 1 /\ r.page = page /\ r.pc = o.pc /\ r.stream = o.stream
      /\ r.visible = o.visible /\ r.filter = o.filter /\ r.seen = o.seen
      /\ r.given = o.given /\ r.owed = o.owed /\ r.since = o.since
  BY <1>4, <1>6 DEF Reading
<1>8. Falling(o) /\ Covered(o) /\ Agreed(o)
  BY <1>1 DEF PageInv, Paging
<1>13. Agreed(r) /\ Tallied(r) /\ Finished(r) /\ (Steady(r) <=> Steady(o))
  BY <1>5, <1>7, <1>8 DEF Agreed, Tallied, Finished, Steady
<1>9. \A i \in Recorded : entry[i].number \in Nat
  BY Records DEF Entry, Number
<1>10. Hit(p) <=> /\ id \in stored
                  /\ o.stream[1] = "unmatched" => entry[id].group \in o.visible
  BY <1>1, <1>2 DEF Hit, Found, Visible
<1>11. CASE Hit(p)
  <2>1. id \in Recorded /\ id \in Id /\ id # NoId
    BY <1>5, <1>11, Records DEF Recorded, NoId
  <2>2. entry[id].number = o.n
    BY <1>2, <1>5, <1>6, <2>1 DEF PageInv, Indexed
  <2>3. PICK m \in Nat : m = Len(o.page)
    BY <1>6
  <2>4. /\ page \in Seq(Id) /\ Len(page) = m + 1 /\ page[m + 1] = id
        /\ \A k \in 1 .. m : page[k] = o.page[k]
    BY <1>3, <1>6, <1>11, <2>1, <2>3, AppendProperties
  <2>5. \A k \in 1 .. m : entry[page[k]].number \in Nat /\ entry[page[k]].number > o.n
    BY <1>6, <1>8, <1>9, <2>3, <2>4 DEF Falling
  <2>6. \A k \in 1 .. Len(o.seen) : entry[o.seen[k]].number \in Nat /\ entry[o.seen[k]].number > o.n
    BY <1>6, <1>8, <1>9 DEF Falling
  <2>7. \A k \in 1 .. m + 1 : entry[page[k]].number > o.n - 1
    BY <1>6, <2>2, <2>4, <2>5
  <2>8. \A j, k \in 1 .. m + 1 : j < k => entry[page[j]].number > entry[page[k]].number
    <3>1. \A j, k \in 1 .. m : j < k => entry[page[j]].number > entry[page[k]].number
      BY <1>8, <2>3, <2>4 DEF Falling
    <3>2. \A j \in 1 .. m : entry[page[j]].number > entry[page[m + 1]].number
      BY <2>2, <2>4, <2>5
    <3>. QED  BY <3>1, <3>2
  <2>9. \A j \in 1 .. Len(o.seen), k \in 1 .. m + 1 :
          entry[o.seen[j]].number > entry[page[k]].number
    <3>1. \A j \in 1 .. Len(o.seen), k \in 1 .. m :
            entry[o.seen[j]].number > entry[page[k]].number
      BY <1>8, <2>3, <2>4 DEF Falling
    <3>2. \A j \in 1 .. Len(o.seen) : entry[o.seen[j]].number > entry[page[m + 1]].number
      BY <2>2, <2>4, <2>6
    <3>. QED  BY <3>1, <3>2
  <2>10. \A k \in 1 .. Len(o.seen) : entry[o.seen[k]].number > o.n - 1
    BY <1>6, <2>6
  <2>11. Falling(r)
    <3>1. \A j, k \in 1 .. Len(o.seen) : j < k =>
             entry[o.seen[j]].number > entry[o.seen[k]].number
      BY <1>8 DEF Falling
    <3>. QED  BY <1>7, <2>4, <2>7, <2>8, <2>9, <2>10, <3>1 DEF Falling
  <2>12. ASSUME NEW i \in o.owed, Wanted(o, i), entry[i].number > o.n - 1
         PROVE  i \in o.given \/ \E k \in 1 .. m + 1 : page[k] = i
    <3>1. CASE entry[i].number > o.n
      <4>1. i \in o.given \/ \E k \in 1 .. m : o.page[k] = i
        BY <1>8, <2>3, <2>12, <3>1 DEF Covered
      <4>. QED  BY <2>4, <4>1
    <3>2. CASE entry[i].number = o.n
      <4>1. i = id
        BY <1>2, <2>12, <3>2 DEF Wanted
      <4>. QED  BY <2>4, <4>1
    <3>3. entry[i].number \in Nat
      BY <1>6, <1>9
    <3>. QED  BY <1>6, <2>12, <3>1, <3>2, <3>3
  <2>13. Covered(r)
    BY <1>7, <1>8, <1>13, <2>4, <2>12 DEF Covered, Wanted
  <2>. QED  BY <1>5, <1>13, <2>11, <2>13, BecomesPaging
<1>12. CASE ~ Hit(p)
  <2>1. page = o.page
    BY <1>3, <1>12
  <2>2. Falling(r)
    <3>1. \A k \in 1 .. Len(o.page) : entry[o.page[k]].number \in Nat
      BY <1>6, <1>9
    <3>2. \A k \in 1 .. Len(o.seen) : entry[o.seen[k]].number \in Nat
      BY <1>6, <1>9
    <3>3. \A k \in 1 .. Len(o.page) : entry[o.page[k]].number > o.n - 1
      BY <1>6, <1>8, <3>1 DEF Falling
    <3>4. \A k \in 1 .. Len(o.seen) : entry[o.seen[k]].number > o.n - 1
      BY <1>6, <1>8, <3>2 DEF Falling
    <3>. QED  BY <1>7, <1>8, <2>1, <3>3, <3>4 DEF Falling
  <2>3. ASSUME NEW i \in o.owed, Wanted(o, i), entry[i].number > o.n - 1
        PROVE  i \in o.given \/ \E k \in 1 .. Len(page) : page[k] = i
    <3>1. CASE entry[i].number > o.n
      BY <1>8, <2>1, <2>3, <3>1 DEF Covered
    <3>2. CASE entry[i].number = o.n
      <4>1. i = id /\ i \in stored
        BY <1>2, <2>3, <3>2 DEF Wanted
      <4>2. o.stream[1] = "unmatched" => entry[i].group \in o.visible
        BY <1>8 DEF Covered
      <4>. QED  BY <1>10, <1>12, <4>1, <4>2
    <3>3. entry[i].number \in Nat
      BY <1>6, <1>9
    <3>. QED  BY <1>6, <2>3, <3>1, <3>2, <3>3
  <2>4. Covered(r)
    BY <1>7, <1>8, <1>13, <2>3 DEF Covered, Wanted
  <2>. QED  BY <1>5, <1>13, <2>2, <2>4, BecomesPaging
<1>. QED  BY <1>11, <1>12

(* A page that is answered passes on whatever bears the name of the day.   *)
LEMMA AnswerPaging ==
  ASSUME Typed, PageInv, NEW p \in Reader, Answer(p)
  PROVE  PageInv'
<1>1. PICK o : o = reader[p]
  OBVIOUS
<1>2. PICK n : n = NextStart(o)
  OBVIOUS
<1>3. PICK seen : seen = o.seen \o o.page
  OBVIOUS
<1>4. PICK r : r = [o EXCEPT !.pc = IF n > 0 THEN "walk" ELSE "done", !.n = n,
                             !.filter = FilterOn(o.filter # NoName, o.stream), !.page = <<>>,
                             !.seen = seen, !.given = o.given \cup Picked(p)]
  OBVIOUS
<1>8. Falling(o) /\ Covered(o) /\ Agreed(o)
  BY <1>1 DEF PageInv, Paging
<1>5. Becomes(p, r) /\ PageFull(o) /\ n \in 0 .. MaxRecords
  BY <1>1, <1>2, <1>3, <1>4, <1>8, AnswerTyped
<1>6. /\ o \in Reading /\ o.page \in Seq(Id) /\ o.seen \in Seq(Id) /\ Len(o.page) \in Nat
      /\ o.n \in Nat /\ o.owed \subseteq Recorded /\ DOMAIN o.page = 1 .. Len(o.page)
      /\ \A k \in 1 .. Len(o.page) : o.page[k] \in Recorded
      /\ \A k \in 1 .. Len(o.seen) : o.seen[k] \in Recorded
  BY <1>1, ReaderTyped
<1>7. /\ r.n = n /\ r.page = <<>> /\ r.stream = o.stream /\ r.visible = o.visible
      /\ r.filter = FilterOn(o.filter # NoName, o.stream) /\ r.since = o.since
      /\ r.seen = seen /\ r.given = o.given \cup Picked(p)
      /\ r.owed = o.owed /\ (r.pc = "done" => ~ n > 0) /\ Len(<<>>) = 0
      /\ r.pc \in {"walk", "done"}
  BY <1>4, <1>6, EmptySeq DEF Reading
<1>13. Agreed(r) /\ Tallied(r) /\ (Steady(r) => Steady(o))
  <2>1. \A g \in Group : name[g].now \in Name
    BY DEF Typed, EntriesTyped
  <2>2. CASE o.filter = NoName
    BY <1>7, <2>2 DEF Agreed, Tallied, Steady, FilterOn
  <2>3. CASE o.filter # NoName
    <3>1. o.stream[2] \in Group /\ r.filter = name[o.stream[2]].now /\ r.filter # NoName
      BY <1>7, <1>8, <2>1, <2>3, StoreAssumption DEF Agreed, FilterOn
    <3>2. Steady(r) => Steady(o)
      BY <1>7, <3>1 DEF Steady
    <3>3. Agreed(r)
      BY <1>7, <1>8, <2>3, <3>1, <3>2 DEF Agreed
    <3>. QED  BY <1>7, <3>2, <3>3 DEF Tallied
  <2>. QED  BY <2>2, <2>3
<1>9. \A i \in Recorded : entry[i].number \in Nat
  BY Records DEF Entry, Number
<1>10. \A i \in 1 .. Len(seen) :
         \/ i \in 1 .. Len(o.seen) /\ seen[i] = o.seen[i]
         \/ i > Len(o.seen) /\ i - Len(o.seen) \in 1 .. Len(o.page) /\ seen[i] = o.page[i - Len(o.seen)]
  BY <1>3, <1>6, Joined
<1>11. CASE o.page = <<>>
  <2>1. n = 0 /\ o.n = 0 /\ Len(o.page) = 0
    BY <1>2, <1>5, <1>7, <1>11, StoreAssumption DEF NextStart, PageFull
  <2>2. seen = o.seen
    BY <1>3, <1>6, <1>11, ConcatEmptySeq
  <2>3. Falling(r)
    BY <1>7, <1>8, <2>1, <2>2 DEF Falling
  <2>4. Covered(r)
    BY <1>7, <1>8, <1>13, <2>1 DEF Covered, Wanted
  <2>5. Finished(r)
    BY <1>7, <2>1 DEF Finished
  <2>. QED  BY <1>5, <1>13, <2>3, <2>4, <2>5, BecomesPaging
<1>12. CASE o.page # <<>>
  <2>1. PICK m \in Nat : m = Len(o.page)
    BY <1>6
  <2>2. PICK l \in Nat : l = Len(o.seen)
    BY <1>1, ReaderTyped
  <2>3. m \in 1 .. m /\ n = entry[o.page[m]].number - 1 /\ o.page[m] \in Recorded
    BY <1>1, <1>2, <1>12, <2>1, LastOfPage
  <2>4. \A k \in 1 .. m : entry[o.page[k]].number \in Nat /\ entry[o.page[k]].number > n
    <3>1. \A k \in 1 .. m : entry[o.page[k]].number \in Nat
      BY <1>6, <1>9, <2>1
    <3>2. \A k \in 1 .. m : k < m => entry[o.page[k]].number > entry[o.page[m]].number
      BY <1>8, <2>1, <2>3 DEF Falling
    <3>. QED  BY <2>3, <3>1, <3>2
  <2>5. \A k \in 1 .. l : entry[o.seen[k]].number \in Nat /\ entry[o.seen[k]].number > n
    <3>1. \A k \in 1 .. l : entry[o.seen[k]].number \in Nat
      BY <1>6, <1>9, <2>2
    <3>2. \A k \in 1 .. l : entry[o.seen[k]].number > entry[o.page[m]].number
      BY <1>8, <2>1, <2>2, <2>3 DEF Falling
    <3>. QED  BY <1>9, <2>3, <3>1, <3>2
  <2>6. n >= o.n
    BY <1>6, <1>8, <1>9, <2>1, <2>3 DEF Falling
  <2>7. \A i \in 1 .. Len(seen) : \/ i \in 1 .. l /\ seen[i] = o.seen[i]
                                  \/ i > l /\ i - l \in 1 .. m /\ seen[i] = o.page[i - l]
    BY <1>10, <2>1, <2>2
  <2>8. \A i \in 1 .. Len(seen) : entry[seen[i]].number > n
    BY <2>4, <2>5, <2>7
  <2>9. ASSUME NEW i \in 1 .. Len(seen), NEW j \in 1 .. Len(seen), i < j
        PROVE  entry[seen[i]].number > entry[seen[j]].number
    <3>1. CASE j \in 1 .. l /\ seen[j] = o.seen[j]
      <4>1. i \in 1 .. l /\ seen[i] = o.seen[i]
        BY <2>7, <2>9, <3>1
      <4>. QED  BY <1>8, <2>2, <2>9, <3>1, <4>1 DEF Falling
    <3>2. CASE j > l /\ j - l \in 1 .. m /\ seen[j] = o.page[j - l]
      <4>1. CASE i \in 1 .. l /\ seen[i] = o.seen[i]
        BY <1>8, <2>1, <2>2, <3>2, <4>1 DEF Falling
      <4>2. CASE i > l /\ i - l \in 1 .. m /\ seen[i] = o.page[i - l]
        <5>1. PICK a \in 1 .. m : a = i - l
          BY <4>2
        <5>2. PICK b \in 1 .. m : b = j - l
          BY <3>2
        <5>3. a < b
          BY <2>9, <5>1, <5>2, <2>2
        <5>. QED  BY <1>8, <2>1, <3>2, <4>2, <5>1, <5>2, <5>3 DEF Falling
      <4>. QED  BY <2>7, <4>1, <4>2
    <3>. QED  BY <2>7, <3>1, <3>2
  <2>10. Falling(r)
    BY <1>7, <2>8, <2>9 DEF Falling
  <2>11. ASSUME NEW i \in o.owed, Wanted(o, i), entry[i].number > n
         PROVE  i \in o.given \cup Picked(p)
    <3>1. i \in Recorded /\ entry[i].number \in Nat
      BY <1>6, <1>9
    <3>2. i \in o.given \/ \E k \in 1 .. Len(o.page) : o.page[k] = i
      <4>1. entry[i].number > o.n
        BY <1>5, <1>6, <2>6, <2>11, <3>1, StoreAssumption
      <4>. QED  BY <1>8, <2>11, <4>1 DEF Covered
    <3>3. Accepts(o, i)
      BY <1>8, <2>11, <3>1 DEF Accepts, Wanted, Agreed
    <3>. QED  BY <1>1, <1>6, <3>2, <3>3 DEF Picked, Range
  <2>12. Covered(r)
    BY <1>7, <1>8, <1>13, <2>11 DEF Covered, Wanted
  <2>13. Finished(r)
    BY <1>5, <1>7, StoreAssumption DEF Finished
  <2>. QED  BY <1>5, <1>13, <2>10, <2>12, <2>13, BecomesPaging
<1>. QED  BY <1>11, <1>12

LEMMA EndPaging ==
  ASSUME Typed, PageInv, NEW p \in Reader, EndListing(p)
  PROVE  PageInv'
<1>1. Becomes(p, IdleReader)
  BY EndTyped
<1>2. /\ Falling(IdleReader) /\ Covered(IdleReader) /\ Finished(IdleReader)
      /\ Agreed(IdleReader) /\ Tallied(IdleReader)
  BY IdleTyped DEF Falling, Covered, Finished, Agreed, Tallied
<1>. QED  BY <1>1, <1>2, BecomesPaging

-----------------------------------------------------------------------------
(* The window of unmatched requests.                                       *)
LEMMA CountPaging ==
  ASSUME Typed, PageInv, NEW p \in Reader, NEW groups \in {Group} \cup {{g} : g \in Group},
         NEW cutoff \in 1 .. MaxRecords + 1, StartCount(p, groups, cutoff)
  PROVE  PageInv'
<1>2. PICK s \in Stream : s = <<"unmatched", Host>>
  BY DEF Stream
<1>1. PICK r : Becomes(p, r) /\ Beginning(r, s, groups, cutoff)
  BY <1>2, CountTyped
<1>3. Beginning(r, s, groups, cutoff)
  BY <1>1
<1>4. Falling(r) /\ Finished(r) /\ Agreed(r)
  BY <1>3 DEF Beginning, Falling, Finished, Agreed
<1>5. Covered(r)
  BY <1>3, ListedCovered DEF Beginning, Covered
<1>6. Tallied(r)
  BY <1>2, <1>3, FS_EmptySet, StoreAssumption DEF Beginning, Tallied
<1>. QED  BY <1>1, <1>4, <1>5, <1>6, BecomesPaging

(* What is known of a client that counts                                   *)
LEMMA CountFacts ==
  ASSUME Typed, PageInv, NEW p \in Reader, NEW o, o = reader[p], Counting(o)
  PROVE  /\ o \in Reading /\ o.stream \in Stream /\ o.stream[1] = "unmatched"
         /\ o.n \in Number /\ o.n \in Nat
         /\ o.page = <<>> /\ Len(o.page) = 0 /\ Len(o.page) <= PageLimit
         /\ o.given \subseteq Id /\ o.owed \subseteq Recorded
         /\ o.scanned \in Nat /\ o.scanned + 1 \in 0 .. ScanCap /\ o.count \in Nat
         /\ \A k \in 1 .. Len(o.page) : o.page[k] \in Recorded
         /\ \A k \in 1 .. Len(o.seen) : o.seen[k] \in Recorded
         /\ Falling(o) /\ Covered(o) /\ Tallied(o) /\ o.pc = "count"
         /\ o.filter = NoName /\ o.cutoff \in Nat /\ o.cutoff >= 1
         /\ \A i \in Recorded : entry[i].number \in Nat
<1>1. /\ o \in Reading /\ o.stream \in Stream
      /\ o.n \in 0 .. MaxRecords /\ o.n \in Nat /\ o.given \subseteq Id /\ o.owed \subseteq Recorded
      /\ Len(o.page) <= PageLimit
      /\ \A k \in 1 .. Len(o.page) : o.page[k] \in Recorded
      /\ \A k \in 1 .. Len(o.seen) : o.seen[k] \in Recorded
      /\ o.scanned \in 0 .. ScanCap /\ o.count \in Nat
  BY ReaderTyped
<1>2. o.pc = "count" /\ o.n > 0 /\ o.scanned < ScanCap
  BY DEF Counting
<1>3. Falling(o) /\ Covered(o) /\ Tallied(o)
  BY DEF PageInv, Paging
<1>4. /\ o.stream = <<"unmatched", Host>> /\ o.filter = NoName /\ o.page = <<>>
      /\ o.cutoff \in Nat /\ o.cutoff >= 1
  BY <1>2, <1>3 DEF Tallied
<1>5. o.n \in Number /\ o.scanned + 1 \in 0 .. ScanCap
  BY <1>1, <1>2, StoreAssumption DEF Number
<1>6. \A i \in Recorded : entry[i].number \in Nat
  BY Records DEF Entry, Number
<1>. QED  BY <1>1, <1>2, <1>3, <1>4, <1>5, <1>6, EmptySeq

LEMMA CountOneKeeps ==
  ASSUME Typed, PageInv, NEW p \in Reader, CountOne(p)
  PROVE  Typed' /\ PageInv'
<1>1. PICK o : o = reader[p]
  OBVIOUS
<1>2. PICK id : id = index[o.stream][o.n]
  OBVIOUS
<1>3. PICK given : given = IF Hit(p) THEN o.given \cup {id} ELSE o.given
  OBVIOUS
<1>4. PICK count : count = IF Hit(p) THEN o.count + 1 ELSE o.count
  OBVIOUS
<1>5. PICK r : r = [o EXCEPT !.n = o.n - 1, !.scanned = o.scanned + 1, !.count = count,
                             !.given = given]
  OBVIOUS
<1>6. Counting(o) /\ ~ TooOld(o)
  BY <1>1 DEF CountOne
<1>7. Becomes(p, r)
  BY <1>1, <1>2, <1>3, <1>4, <1>5, Zenon DEF CountOne, Hit, Becomes
<1>8. /\ o \in Reading /\ o.stream \in Stream /\ o.stream[1] = "unmatched"
      /\ o.n \in Number /\ o.n \in Nat
      /\ o.page = <<>> /\ Len(o.page) = 0 /\ Len(o.page) <= PageLimit
      /\ o.given \subseteq Id /\ o.owed \subseteq Recorded
      /\ o.scanned \in Nat /\ o.scanned + 1 \in 0 .. ScanCap /\ o.count \in Nat
      /\ \A k \in 1 .. Len(o.page) : o.page[k] \in Recorded
      /\ \A k \in 1 .. Len(o.seen) : o.seen[k] \in Recorded
      /\ Falling(o) /\ Covered(o) /\ Tallied(o) /\ o.pc = "count"
      /\ o.filter = NoName /\ o.cutoff \in Nat /\ o.cutoff >= 1
      /\ \A i \in Recorded : entry[i].number \in Nat
  BY <1>1, <1>6, CountFacts
<1>9. Hit(p) <=> id \in stored /\ entry[id].group \in o.visible
  BY <1>1, <1>2, <1>8 DEF Hit, Found, Visible
<1>10. id \in stored =>
         /\ id \in Recorded /\ id \in Id /\ entry[id].number = o.n
         /\ entry[id].at \in Nat /\ entry[id].at >= o.cutoff
  <2>. SUFFICES ASSUME id \in stored
                PROVE  /\ id \in Recorded /\ id \in Id /\ entry[id].number = o.n
                       /\ entry[id].at \in Nat /\ entry[id].at >= o.cutoff
    OBVIOUS
  <2>1. id \in Recorded /\ id \in Id /\ id # NoId /\ entry[id] \in Entry
    BY Records DEF Typed, EntriesTyped, Recorded, NoId
  <2>2. entry[id].number = o.n
    BY <1>2, <1>8, <2>1 DEF PageInv, Indexed
  <2>3. entry[id].at \in Nat
    BY <2>1, StoreAssumption DEF Entry
  <2>4. ~ (entry[id].at < o.cutoff)
    BY <1>2, <1>6 DEF TooOld, Found
  <2>. QED  BY <1>8, <2>1, <2>2, <2>3, <2>4
<1>11. /\ r.n = o.n - 1 /\ r.page = <<>> /\ r.pc = "count" /\ r.stream = o.stream
       /\ r.visible = o.visible /\ r.filter = NoName /\ r.seen = o.seen
       /\ r.given = given /\ r.owed = o.owed /\ r.count = count /\ r.cutoff = o.cutoff
  BY <1>5, <1>8 DEF Reading
<1>12. given \subseteq Id /\ count \in Nat
  BY <1>3, <1>4, <1>8, <1>9, <1>10
<1>13. r \in Reading
  <2>1. o.n - 1 \in 0 .. MaxRecords
    BY <1>8, StoreAssumption DEF Number
  <2>. QED  BY <1>5, <1>8, <1>12, <2>1 DEF Reading
<1>14. Typed'
  BY <1>7, <1>8, <1>11, <1>13, BecomesTyped
<1>15. Falling(r)
  <2>1. \A k \in 1 .. Len(o.seen) : entry[o.seen[k]].number \in Nat
    BY <1>8
  <2>2. \A k \in 1 .. Len(o.seen) : entry[o.seen[k]].number > o.n
    BY <1>8 DEF Falling
  <2>3. \A k \in 1 .. Len(o.seen) : entry[o.seen[k]].number > o.n - 1
    BY <1>8, <2>1, <2>2
  <2>. QED  BY <1>8, <1>11, <2>3 DEF Falling
<1>16. Covered(r)
  <2>1. ASSUME NEW i \in o.owed, Wanted(o, i), entry[i].number > o.n - 1
        PROVE  i \in given
    <3>1. entry[i].number \in Nat
      BY <1>8
    <3>2. CASE entry[i].number > o.n
      BY <1>3, <1>8, <2>1, <3>2 DEF Covered
    <3>3. CASE entry[i].number = o.n
      <4>1. i = id /\ i \in stored
        BY <1>2, <2>1, <3>3 DEF Wanted
      <4>2. entry[i].group \in o.visible
        BY <1>8 DEF Covered
      <4>. QED  BY <1>3, <1>9, <4>1, <4>2
    <3>. QED  BY <1>8, <2>1, <3>1, <3>2, <3>3
  <2>2. Steady(r) /\ Steady(o)
    BY <1>8, <1>11 DEF Steady
  <2>. QED  BY <1>8, <1>11, <2>1, <2>2 DEF Covered, Wanted
<1>17. IsFiniteSet(given) /\ count = Cardinality(given)
  <2>1. IsFiniteSet(o.given) /\ o.count = Cardinality(o.given)
    BY <1>8 DEF Tallied
  <2>2. CASE Hit(p)
    <3>1. id \notin o.given
      <4>1. entry[id].number = o.n
        BY <1>9, <1>10, <2>2
      <4>2. \A i \in o.given : entry[i].number > o.n
        BY <1>8 DEF Tallied
      <4>. QED  BY <1>8, <4>1, <4>2
    <3>. QED  BY <1>3, <1>4, <2>1, <2>2, <3>1, FS_AddElement
  <2>3. CASE ~ Hit(p)
    BY <1>3, <1>4, <2>1, <2>3
  <2>. QED  BY <2>2, <2>3
<1>18. \A i \in given : /\ i \in Recorded /\ entry[i].at >= o.cutoff
                        /\ entry[i].group \in o.visible /\ entry[i].number > o.n - 1
  <2>1. \A i \in o.given : /\ i \in Recorded /\ entry[i].at >= o.cutoff
                           /\ entry[i].group \in o.visible /\ entry[i].number > o.n
    BY <1>8 DEF Tallied
  <2>2. \A i \in o.given : entry[i].number > o.n - 1
    BY <1>8, <2>1
  <2>3. Hit(p) => /\ id \in Recorded /\ entry[id].at >= o.cutoff
                  /\ entry[id].group \in o.visible /\ entry[id].number > o.n - 1
    BY <1>8, <1>9, <1>10
  <2>. QED  BY <1>3, <2>1, <2>2, <2>3
<1>19. Tallied(r)
  <2>1. o.stream = <<"unmatched", Host>> /\ \A i \in o.owed : entry[i].at >= o.cutoff
    BY <1>8 DEF Tallied
  <2>. QED  BY <1>8, <1>11, <1>17, <1>18, <2>1 DEF Tallied
<1>20. Finished(r) /\ Agreed(r)
  BY <1>11 DEF Finished, Agreed
<1>. QED  BY <1>7, <1>14, <1>15, <1>16, <1>19, <1>20, BecomesPaging

(* A count that is over                                                    *)
LEMMA OverKeeps ==
  ASSUME Typed, PageInv, NEW p \in Reader, reader[p].pc = "count", NEW saturated \in BOOLEAN,
         NEW r, r = [reader[p] EXCEPT !.pc = "counted", !.saturated = saturated],
         Becomes(p, r), ~ saturated => reader[p].n = 0 \/ Ended(reader[p])
  PROVE  Typed' /\ PageInv'
<1>1. PICK o : o = reader[p]
  OBVIOUS
<1>2. /\ o \in Reading /\ Len(o.page) <= PageLimit /\ o.owed \subseteq Recorded
      /\ \A k \in 1 .. Len(o.page) : o.page[k] \in Recorded
      /\ \A k \in 1 .. Len(o.seen) : o.seen[k] \in Recorded
  BY <1>1, ReaderTyped
<1>3. r \in Reading
  BY <1>1, <1>2 DEF Reading
<1>4. /\ r.pc = "counted" /\ r.saturated = saturated /\ r.n = o.n /\ r.page = o.page
      /\ r.stream = o.stream /\ r.visible = o.visible /\ r.filter = o.filter /\ r.since = o.since
      /\ r.seen = o.seen /\ r.given = o.given /\ r.owed = o.owed /\ r.count = o.count
      /\ r.cutoff = o.cutoff
  BY <1>1, <1>2 DEF Reading
<1>5. Typed'
  BY <1>2, <1>3, <1>4, BecomesTyped
<1>6. Falling(o) /\ Covered(o) /\ Agreed(o) /\ Tallied(o) /\ o.pc = "count"
  BY <1>1 DEF PageInv, Paging
<1>7. (Steady(r) <=> Steady(o)) /\ \A i : Wanted(r, i) <=> Wanted(o, i)
  BY <1>4 DEF Steady, Wanted
<1>8. Falling(r)
  BY <1>4, <1>6 DEF Falling
<1>9. Covered(r)
  BY <1>4, <1>6, <1>7 DEF Covered
<1>10. Finished(r) /\ Agreed(r)
  BY <1>4, <1>6, <1>7 DEF Finished, Agreed
<1>11. Ended(o) => Ended(r)
  BY <1>4, <1>7 DEF Ended
<1>12. Tallied(r)
  BY <1>1, <1>4, <1>6, <1>11 DEF Tallied
<1>. QED  BY <1>5, <1>8, <1>9, <1>10, <1>12, BecomesPaging

LEMMA StopKeeps ==
  ASSUME Typed, PageInv, NEW p \in Reader, StopAtOld(p)
  PROVE  Typed' /\ PageInv'
<1>1. PICK o : o = reader[p]
  OBVIOUS
<1>2. PICK r : r = [o EXCEPT !.pc = "counted", !.saturated = o.saturated]
  OBVIOUS
<1>3. /\ o.stream \in Stream /\ o.n \in Number /\ o \in Reading /\ o.owed \subseteq Recorded
      /\ o.pc = "count" /\ Tallied(o) /\ o.cutoff \in Nat /\ o.stream[1] = "unmatched"
  <2>1. Counting(o)
    BY <1>1 DEF StopAtOld
  <2>. QED  BY <1>1, <2>1, CountFacts
<1>4. Becomes(p, r) /\ o.saturated \in BOOLEAN
  <2>1. reader' = [reader EXCEPT ![p] = [o EXCEPT !.pc = "counted"]]
    BY <1>1 DEF StopAtOld
  <2>2. r = [o EXCEPT !.pc = "counted"]
    BY <1>2, <1>3 DEF Reading
  <2>. QED  BY <1>3, <2>1, <2>2 DEF Becomes, StopAtOld, Reading
<1>5. PICK j : j = index[o.stream][o.n]
  OBVIOUS
<1>6. j \in stored /\ entry[j].at < o.cutoff
  BY <1>1, <1>5 DEF StopAtOld, TooOld, Found
<1>7. j \in Recorded /\ j # NoId /\ entry[j].at \in Nat
  <2>1. j \in Recorded
    BY <1>6 DEF Typed, EntriesTyped
  <2>. QED  BY <2>1, Records, StoreAssumption DEF Entry, Recorded, NoId
<1>8. entry[j].stream = o.stream /\ entry[j].number = o.n
  BY <1>3, <1>5, <1>7 DEF PageInv, Indexed
<1>9. entry[j].at \in 1 .. o.cutoff - 1
  <2>1. entry[j].at # 0
    BY <1>3, <1>6, <1>8 DEF PageInv, Dated
  <2>. QED  BY <1>3, <1>6, <1>7, <2>1
<1>10. ASSUME NEW i \in o.owed, Wanted(o, i)
       PROVE  entry[i].number # o.n
  <2>. SUFFICES ASSUME entry[i].number = o.n
                PROVE  FALSE
    OBVIOUS
  <2>1. i = j
    BY <1>5, <1>10 DEF Wanted
  <2>2. entry[i].at >= o.cutoff
    BY <1>3 DEF Tallied
  <2>. QED  BY <1>3, <1>6, <1>7, <2>1, <2>2
<1>11. Ended(o)
  BY <1>7, <1>8, <1>9, <1>10 DEF Ended
<1>. QED  BY <1>1, <1>2, <1>3, <1>4, <1>11, OverKeeps

LEMMA RunOutKeeps ==
  ASSUME Typed, PageInv, NEW p \in Reader, RunOut(p)
  PROVE  Typed' /\ PageInv'
<1>1. reader[p].n \in Nat
  BY ReaderTyped
<1>2. PICK r : r = [reader[p] EXCEPT !.pc = "counted", !.saturated = reader[p].n > 0]
  OBVIOUS
<1>3. Becomes(p, r) /\ reader[p].pc = "count"
  BY <1>2 DEF RunOut, Becomes
<1>4. CASE reader[p].n > 0
  <2>1. r = [reader[p] EXCEPT !.pc = "counted", !.saturated = TRUE]
    BY <1>2, <1>4
  <2>. QED  BY <1>3, <2>1, OverKeeps
<1>5. CASE ~ reader[p].n > 0
  <2>1. reader[p].n = 0 /\ (reader[p].n > 0) = FALSE
    BY <1>1, <1>5
  <2>2. r = [reader[p] EXCEPT !.pc = "counted", !.saturated = FALSE]
    BY <1>2, <2>1, Zenon
  <2>. QED  BY <1>3, <2>1, <2>2, OverKeeps
<1>. QED  BY <1>4, <1>5

LEMMA WindowHolds ==
  ASSUME Typed, PageInv
  PROVE  UnmatchedWindow
<1>. SUFFICES ASSUME NEW p \in Reader, NEW r, r = reader[p], r.pc \in {"count", "counted"}
              PROVE  /\ r.count = Cardinality(r.given)
                     /\ \A i \in r.given : entry[i].at >= r.cutoff /\ entry[i].group \in r.visible
                     /\ r.pc = "counted" /\ ~ r.saturated =>
                          \A i \in Still(r) \ r.given :
                            \E j \in DOMAIN entry : /\ entry[j].stream = r.stream
                                                    /\ entry[j].number > entry[i].number
                                                    /\ entry[j].at \in 1..r.cutoff - 1
  BY Zenon DEF UnmatchedWindow
<1>1. Covered(r) /\ Tallied(r)
  BY DEF PageInv, Paging
<1>2. /\ r.count = Cardinality(r.given)
      /\ \A i \in r.given : entry[i].at >= r.cutoff /\ entry[i].group \in r.visible
  BY <1>1 DEF Tallied
<1>3. ASSUME r.pc = "counted", ~ r.saturated, NEW i \in Still(r), i \notin r.given
      PROVE  \E j \in DOMAIN entry : /\ entry[j].stream = r.stream
                                     /\ entry[j].number > entry[i].number
                                     /\ entry[j].at \in 1..r.cutoff - 1
  <2>1. r.owed \subseteq Recorded /\ r.n \in Nat
    BY ReaderTyped
  <2>2. i \in r.owed /\ Wanted(r, i)
    BY <1>1 DEF Still, Wanted, Steady, Tallied
  <2>3. ~ (entry[i].number > r.n)
    <3>1. \A k \in 1 .. Len(r.page) : FALSE
      BY <1>1, EmptySeq DEF Tallied
    <3>. QED  BY <1>1, <1>3, <2>2, <3>1 DEF Covered
  <2>4. entry[i].number \in Nat /\ entry[i].number > 0 /\ DOMAIN entry = Recorded
    BY <2>1, <2>2, Records DEF Entry, Number
  <2>5. r.n = 0 \/ Ended(r)
    BY <1>1, <1>3 DEF Tallied
  <2>6. Ended(r)
    BY <2>1, <2>3, <2>4, <2>5
  <2>7. entry[i].number # r.n
    BY <2>2, <2>6 DEF Ended
  <2>8. PICK j \in Recorded : /\ entry[j].stream = r.stream /\ entry[j].number = r.n
                             /\ entry[j].at \in 1 .. r.cutoff - 1
    BY <2>6 DEF Ended
  <2>. QED  BY <2>1, <2>3, <2>4, <2>7, <2>8
<1>. QED  BY <1>2, <1>3

-----------------------------------------------------------------------------
LEMMA PagesAreExact ==
  ASSUME Typed, PageInv
  PROVE  PagingExact
<1>. SUFFICES ASSUME NEW p \in Reader, NEW o, o = reader[p]
              PROVE  /\ \A i, j \in DOMAIN (o.seen \o o.page) :
                          i # j => (o.seen \o o.page)[i] # (o.seen \o o.page)[j]
                     /\ /\ o.pc = "done"
                        /\ ~ (o.filter # NoName /\ name[o.stream[2]].renames > o.since)
                        => Still(o) \subseteq o.given
  BY Zenon DEF PagingExact
<1>1. /\ o.page \in Seq(Id) /\ o.seen \in Seq(Id)  /\ o.owed \subseteq Recorded
      /\ \A k \in 1 .. Len(o.page) : o.page[k] \in Recorded
      /\ \A k \in 1 .. Len(o.seen) : o.seen[k] \in Recorded
  BY ReaderTyped
<1>2. Falling(o) /\ Covered(o) /\ Finished(o) /\ Agreed(o)
  BY DEF PageInv, Paging
<1>3. \A i \in Recorded : entry[i].number \in Nat /\ entry[i].number > 0
                         /\ entry[i].group \in Group
  BY Records DEF Entry, Number
<1>4. PICK line : line = o.seen \o o.page
  OBVIOUS
<1>5. DOMAIN line = 1 .. Len(line) /\ Len(line) \in Nat
  BY <1>1, <1>4, ConcatProperties, LenProperties
<1>6. PICK l \in Nat : l = Len(o.seen)
  BY <1>1, LenProperties
<1>7. \A i \in 1 .. Len(line) :
        \/ i \in 1 .. l /\ line[i] = o.seen[i]
        \/ i > l /\ i - l \in 1 .. Len(o.page) /\ line[i] = o.page[i - l]
  <2>. SUFFICES ASSUME NEW i \in 1 .. Len(o.seen \o o.page)
                PROVE  \/ i \in 1 .. Len(o.seen) /\ (o.seen \o o.page)[i] = o.seen[i]
                       \/ /\ i > Len(o.seen) /\ i - Len(o.seen) \in 1 .. Len(o.page)
                          /\ (o.seen \o o.page)[i] = o.page[i - Len(o.seen)]
    BY <1>4, <1>6
  <2>. QED  BY <1>1, Joined
<1>8. ASSUME NEW i \in 1 .. Len(line), NEW j \in 1 .. Len(line), i < j
      PROVE  line[i] # line[j]
  <2>1. CASE j \in 1 .. l /\ line[j] = o.seen[j]
    <3>1. i \in 1 .. l /\ line[i] = o.seen[i]
      BY <1>5, <1>7, <1>8, <2>1
    <3>. QED  BY <1>1, <1>2, <1>3, <1>6, <1>8, <2>1, <3>1 DEF Falling
  <2>2. CASE j > l /\ j - l \in 1 .. Len(o.page) /\ line[j] = o.page[j - l]
    <3>1. CASE i \in 1 .. l /\ line[i] = o.seen[i]
      <4>1. PICK a \in 1 .. Len(o.page) : a = j - l
        BY <2>2
      <4>2. entry[o.seen[i]].number > entry[o.page[a]].number
        BY <1>2, <1>6, <3>1, <4>1 DEF Falling
      <4>3. o.page[a] \in Recorded
        BY <1>1
      <4>4. PICK n \in Nat : n = entry[o.page[a]].number
        BY <1>3, <4>3
      <4>5. o.seen[i] # o.page[a]
        BY <4>2, <4>4
      <4>. QED  BY <2>2, <3>1, <4>1, <4>5
    <3>2. CASE i > l /\ i - l \in 1 .. Len(o.page) /\ line[i] = o.page[i - l]
      <4>1. PICK a \in 1 .. Len(o.page) : a = i - l
        BY <3>2
      <4>2. PICK b \in 1 .. Len(o.page) : b = j - l
        BY <2>2
      <4>3. a < b
        BY <1>5, <1>6, <1>8, <4>1, <4>2
      <4>4. entry[o.page[a]].number > entry[o.page[b]].number
        BY <1>2, <4>3 DEF Falling
      <4>5. o.page[a] # o.page[b]
        <5>1. o.page[b] \in Recorded
          BY <1>1
        <5>2. PICK n \in Nat : n = entry[o.page[b]].number
          BY <1>3, <5>1
        <5>. QED  BY <4>4, <5>2
      <4>. QED  BY <2>2, <3>2, <4>1, <4>2, <4>5
    <3>. QED  BY <1>7, <3>1, <3>2
  <2>. QED  BY <1>7, <2>1, <2>2
<1>9. ASSUME o.pc = "done", ~ (o.filter # NoName /\ name[o.stream[2]].renames > o.since),
             NEW i \in Still(o)
      PROVE  i \in o.given
  <2>1. o.n = 0 /\ Len(o.page) = 0
    BY <1>2, <1>9, EmptySeq DEF Finished
  <2>2. i \in o.owed /\ i \in stored /\ index[o.stream][entry[i].number] = i /\ i \in Recorded
    BY <1>1, <1>9 DEF Still
  <2>3. Steady(o)
    <3>1. \A g \in Group : name[g].renames \in Nat
      BY DEF Typed, EntriesTyped
    <3>. QED  BY <1>2, <1>9, <3>1 DEF Agreed, Steady
  <2>4. Wanted(o, i)
    BY <1>9, <2>2, <2>3 DEF Wanted
  <2>. QED  BY <1>2, <1>3, <2>1, <2>2, <2>4 DEF Covered
<1>10. \A i, j \in DOMAIN line : i # j => line[i] # line[j]
  <2>. SUFFICES ASSUME NEW i \in 1 .. Len(line), NEW j \in 1 .. Len(line), i # j
                PROVE  line[i] # line[j]
    BY <1>5
  <2>1. i < j \/ j < i
    BY <1>5
  <2>. QED  BY <1>8, <2>1
<1>11. \A i, j \in DOMAIN (o.seen \o o.page) :
         i # j => (o.seen \o o.page)[i] # (o.seen \o o.page)[j]
  <2>. DEFINE q == o.seen \o o.page
  <2>1. line = q
    BY <1>4
  <2>. HIDE DEF q
  <2>2. \A i, j \in DOMAIN q : i # j => q[i] # q[j]
    BY <1>10, <2>1
  <2>. QED  BY <2>2 DEF q
<1>12. /\ o.pc = "done"
       /\ ~ (o.filter # NoName /\ name[o.stream[2]].renames > o.since)
       => Still(o) \subseteq o.given
  BY <1>9, Zenon
<1>. QED  BY <1>11, <1>12

LEMMA EveryStep ==
  ASSUME Typed, PageInv, [Next]_vars
  PROVE  Typed' /\ PageInv'
<1>1. CASE UNCHANGED vars
  <2>1. UNCHANGED <<counter, entry, stored, index, writer, name, clearing, reader>>
    BY <1>1 DEF vars
  <2>2. Typed'
    BY <2>1 DEF Typed, EntriesTyped, WritersTyped, ReadersTyped, Recorded, Busy
  <2>3. PageInv'
    BY <2>1 DEF PageInv, Indexed, Dated, Paging, Falling, Covered, Finished, Wanted, Free,
      Busy, Recorded, Agreed, Steady, Tallied, Ended
  <2>. QED  BY <2>2, <2>3
<1>2. ASSUME NEW w \in Writer, NEW kind \in Kind, NEW g \in Group, Issue(w, kind, g)
      PROVE  Typed' /\ PageInv'
  BY <1>2, IssueTyped, IssuePaging
<1>3. ASSUME NEW w \in Writer, WriteRecord(w)
      PROVE  Typed' /\ PageInv'
  BY <1>3, WriteTyped, WritePaging
<1>4. ASSUME NEW w \in Writer, IndexRecord(w)
      PROVE  Typed' /\ PageInv'
  BY <1>4, IndexTyped, IndexPaging
<1>5. ASSUME NEW w \in Writer, AbandonRecord(w)
      PROVE  Typed' /\ PageInv'
  BY <1>5, AbandonTyped, AbandonPaging
<1>6. ASSUME Tidy
      PROVE  Typed' /\ PageInv'
  BY <1>6, TidyTyped, TidyPaging
<1>7. ASSUME NEW p \in Reader, NEW s \in Stream,
             NEW groups \in {Group} \cup {{g} : g \in Group}, NEW filtered \in BOOLEAN,
             StartListing(p, s, groups, filtered)
      PROVE  Typed' /\ PageInv'
  BY <1>7, StartTyped, StartPaging
<1>8. ASSUME NEW p \in Reader, Walk(p)
      PROVE  Typed' /\ PageInv'
  BY <1>8, WalkTyped, WalkPaging
<1>9. ASSUME NEW p \in Reader, Answer(p)
      PROVE  Typed' /\ PageInv'
  BY <1>9, AnswerTyped, AnswerPaging DEF PageInv, Paging
<1>10. ASSUME NEW p \in Reader, EndListing(p)
       PROVE  Typed' /\ PageInv'
  BY <1>10, EndTyped, EndPaging
<1>11. ASSUME NEW p \in Reader, NEW groups \in {Group} \cup {{g} : g \in Group},
              NEW cutoff \in 1 .. MaxRecords + 1, StartCount(p, groups, cutoff)
       PROVE  Typed' /\ PageInv'
  BY <1>11, CountTyped, CountPaging
<1>12. ASSUME NEW p \in Reader, CountOne(p)
       PROVE  Typed' /\ PageInv'
  BY <1>12, CountOneKeeps
<1>13. ASSUME NEW p \in Reader, StopAtOld(p)
       PROVE  Typed' /\ PageInv'
  BY <1>13, StopKeeps
<1>14. ASSUME NEW p \in Reader, RunOut(p)
       PROVE  Typed' /\ PageInv'
  BY <1>14, RunOutKeeps
<1>. QED  BY <1>1, <1>2, <1>3, <1>4, <1>5, <1>6, <1>7, <1>8, <1>9, <1>10, <1>11, <1>12, <1>13,
             <1>14 DEF Next, Tidy

LEMMA Invariant == Spec => [](Typed /\ PageInv)
<1>1. Init => Typed /\ PageInv
  BY TypedInit, PageInit
<1>2. Typed /\ PageInv /\ [Next]_vars => (Typed /\ PageInv)'
  BY EveryStep
<1>. QED  BY <1>1, <1>2, PTL DEF Spec

(* The keys of the journal and the calls that work on them keep their      *)
(* shape: an index leads to a record that was issued, a date is one of as  *)
(* many as there are records, a page is no longer than its limit           *)
(* (journal.rs).                                                           *)
THEOREM JournalTyped == Spec => []TypeOK
<1>1. Typed => TypeOK
  BY TypedIsTypeOK
<1>. QED  BY <1>1, Invariant, PTL

(* A client that pages from the newest record down is given no record      *)
(* twice, and every record that was listed when it began and is still      *)
(* listed when it is done: for any number of writers and pages of any      *)
(* size, while records expire, are cleared, and numbers start again. One   *)
(* that filters by the group's name is given those of them that bore it    *)
(* when it began, if the group is not renamed meanwhile (journal.rs,       *)
(* ListCursor; api.rs, list_journal).                                      *)
THEOREM PagingIsExact == Spec => []PagingExact
<1>1. Typed /\ PageInv => PagingExact
  BY PagesAreExact
<1>. QED  BY <1>1, Invariant, PTL

(* The count of recent unmatched requests, read number by number while     *)
(* requests are recorded and expire: it takes in no older one, none twice  *)
(* and none of another caller's groups; where it does not say that it      *)
(* stopped at its cap it has all that were there when it began and are     *)
(* still, but for those with an earlier number than an older request       *)
(* (journal.rs, count_unmatched_since).                                    *)
THEOREM WindowIsExact == Spec => []UnmatchedWindow
<1>1. Typed /\ PageInv => UnmatchedWindow
  BY WindowHolds
<1>. QED  BY <1>1, Invariant, PTL

-----------------------------------------------------------------------------
(* The live tail, for any number of replicas, consumers and events, any    *)
(* size of the ring and any number of lost connections and publishes.      *)

Receiver == [open : BOOLEAN, buf : Seq(EventId), missed : Nat, dropped : Nat,
             got : Seq(EventId), owed : SUBSET EventId]

TailTyped ==
  /\ unsent \subseteq EventId
  /\ pipe \in [Replica -> Seq(EventId)]
  /\ rx \in [Consumer -> Receiver]
  /\ \A t \in Consumer : IsFiniteSet(rx[t].owed)

(* An event is published once, and until then nobody hears of it but the   *)
(* consumers of the replica it is from.                                    *)
Foreign(r, id) == Event[id].from # r
Unheard(x, id) == ~Contains(x.got, id) /\ ~Contains(x.buf, id)
PublishedOnce ==
  /\ \A r \in Replica : IsInjective(pipe[r])
  /\ \A id \in unsent :
       /\ \A r \in Replica : ~Contains(pipe[r], id)
       /\ \A t \in Consumer : Foreign(At[t], id) => Unheard(rx[t], id) /\ id \notin rx[t].owed

(* A receiver holds an event once, and not one that is still to come.      *)
Once(x) ==
  /\ IsInjective(x.got) /\ IsInjective(x.buf)
  /\ \A id \in EventId : ~(Contains(x.got, id) /\ Contains(x.buf, id))
Coming(q, r, id) == Contains(q, id) /\ Foreign(r, id)
GivenOnce ==
  \A t \in Consumer :
    /\ Once(rx[t])
    /\ \A id \in EventId : Coming(pipe[At[t]], At[t], id) => Unheard(rx[t], id)

(* What a receiver is owed and neither has nor will get                    *)
Absent(x, q, r) == {id \in x.owed : Unheard(x, id) /\ ~Coming(q, r, id)}
Told(x, q, r) == x.open => Cardinality(Absent(x, q, r)) <= x.missed + x.dropped
Reckoned == \A t \in Consumer : Told(rx[t], pipe[At[t]], At[t])

TailInv == TailTyped /\ PublishedOnce /\ GivenOnce /\ Reckoned

(* Sequences of events.                                                    *)
LEMMA Appending ==
  ASSUME NEW s \in Seq(EventId), NEW id \in EventId
  PROVE  /\ Append(s, id) \in Seq(EventId)
         /\ \A e : Contains(Append(s, id), e) <=> Contains(s, e) \/ e = id
         /\ IsInjective(s) /\ ~Contains(s, id) => IsInjective(Append(s, id))
<1> DEFINE a == Append(s, id)
<1>1. /\ a \in Seq(EventId) /\ Len(s) \in Nat /\ Len(a) = Len(s) + 1
      /\ \A i \in 1 .. Len(s) : a[i] = s[i]
      /\ a[Len(s) + 1] = id
  BY AppendProperties, LenProperties
<1>2. DOMAIN a = 1 .. Len(s) + 1 /\ DOMAIN s = 1 .. Len(s)
  BY <1>1, LenProperties
<1> HIDE DEF a
<1>3. ASSUME NEW e PROVE Contains(a, e) <=> Contains(s, e) \/ e = id
  <2>1. 1 .. Len(s) + 1 = 1 .. Len(s) \cup {Len(s) + 1}
    BY <1>1
  <2> QED
    BY <1>1, <2>1 DEF Contains
<1>4. ASSUME IsInjective(s), ~Contains(s, id) PROVE IsInjective(a)
  BY <1>1, <1>2, <1>4 DEF IsInjective, Contains
<1> QED
  BY <1>1, <1>3, <1>4 DEF a

LEMMA Dropping ==
  ASSUME NEW s \in Seq(EventId), s # <<>>
  PROVE  /\ Tail(s) \in Seq(EventId) /\ Head(s) \in EventId
         /\ \A e : Contains(s, e) <=> Contains(Tail(s), e) \/ e = Head(s)
         /\ IsInjective(s) => IsInjective(Tail(s)) /\ ~Contains(Tail(s), Head(s))
<1> DEFINE b == Tail(s)
<1>1. /\ b \in Seq(EventId) /\ Len(s) \in Nat \ {0} /\ Len(b) = Len(s) - 1
      /\ \A i \in 1 .. Len(b) : b[i] = s[i + 1]
      /\ Head(s) = s[1] /\ Head(s) \in EventId
  BY HeadTailProperties, EmptySeq, LenProperties
<1>2. DOMAIN b = 1 .. Len(s) - 1 /\ DOMAIN s = 1 .. Len(s)
  BY <1>1, LenProperties
<1> HIDE DEF b
<1>3. ASSUME NEW e PROVE Contains(s, e) <=> Contains(b, e) \/ e = Head(s)
  <2>1. ASSUME Contains(s, e), e # Head(s) PROVE Contains(b, e)
    <3>1. PICK i \in 1 .. Len(s) : s[i] = e
      BY <2>1 DEF Contains
    <3>2. i - 1 \in 1 .. Len(b) /\ b[i - 1] = e
      BY <1>1, <2>1, <3>1
    <3> QED
      BY <3>2 DEF Contains
  <2>2. ASSUME Contains(b, e) PROVE Contains(s, e)
    <3>1. PICK i \in 1 .. Len(b) : b[i] = e
      BY <2>2 DEF Contains
    <3>2. i + 1 \in 1 .. Len(s) /\ s[i + 1] = e
      BY <1>1, <3>1
    <3> QED
      BY <3>2 DEF Contains
  <2>3. Contains(s, Head(s))
    BY <1>1 DEF Contains
  <2> QED
    BY <2>1, <2>2, <2>3
<1>4. ASSUME IsInjective(s) PROVE IsInjective(b) /\ ~Contains(b, Head(s))
  <2>1. \A i \in 1 .. Len(b) : i + 1 \in 1 .. Len(s) /\ i + 1 # 1
    BY <1>1
  <2>2. ~Contains(b, Head(s))
    BY <1>1, <1>2, <1>4, <2>1 DEF IsInjective, Contains
  <2>3. \A i, j \in 1 .. Len(b) : b[i] = b[j] => i = j
    BY <1>1, <1>2, <1>4, <2>1 DEF IsInjective
  <2> QED
    BY <1>1, <1>2, <2>2, <2>3 DEF IsInjective
<1> QED
  BY <1>1, <1>3, <1>4 DEF b

LEMMA Nothing ==
  /\ <<>> \in Seq(EventId) /\ IsInjective(<<>>)
  /\ \A e : ~Contains(<<>>, e)
BY EmptySeq DEF IsInjective, Contains

(* A received sequence and a ring that share nothing, one after the other  *)
LEMMA Together ==
  ASSUME NEW x \in Receiver
  PROVE  /\ \A e : e \in Range(x.got \o x.buf) <=> Contains(x.got, e) \/ Contains(x.buf, e)
         /\ Once(x) => IsInjective(x.got \o x.buf)
<1> DEFINE g == x.got
           b == x.buf
           j == g \o b
<1>1. g \in Seq(EventId) /\ b \in Seq(EventId)
  BY DEF Receiver
<1> HIDE DEF g, b
<1>2. /\ Len(g) \in Nat /\ Len(b) \in Nat /\ Len(j) = Len(g) + Len(b)
      /\ \A i \in 1 .. Len(g) : j[i] = g[i] /\ g[i] \in EventId
      /\ \A i \in 1 .. Len(b) : j[i + Len(g)] = b[i] /\ b[i] \in EventId
      /\ DOMAIN j = 1 .. Len(j) /\ DOMAIN g = 1 .. Len(g) /\ DOMAIN b = 1 .. Len(b)
  <2>1. j \in Seq(EventId) /\ Len(j) = Len(g) + Len(b)
    BY <1>1, ConcatProperties
  <2>2. \A i \in 1 .. Len(g) + Len(b) :
           j[i] = IF i <= Len(g) THEN g[i] ELSE b[i - Len(g)]
    BY <1>1, ConcatProperties
  <2>3. /\ Len(g) \in Nat /\ Len(b) \in Nat
        /\ DOMAIN j = 1 .. Len(j) /\ DOMAIN g = 1 .. Len(g) /\ DOMAIN b = 1 .. Len(b)
        /\ \A i \in 1 .. Len(g) : g[i] \in EventId
        /\ \A i \in 1 .. Len(b) : b[i] \in EventId
    BY <1>1, <2>1, LenProperties, ElementOfSeq
  <2> HIDE DEF j
  <2> QED
    BY <2>1, <2>2, <2>3
<1> HIDE DEF j
<1>3. \A i \in 1 .. Len(j) : i \in 1 .. Len(g) \/ \E k \in 1 .. Len(b) : i = k + Len(g)
  <2>1. ASSUME NEW i \in 1 .. Len(j), i \notin 1 .. Len(g)
        PROVE  i - Len(g) \in 1 .. Len(b) /\ i = (i - Len(g)) + Len(g)
    BY <1>2, <2>1
  <2> QED
    BY <2>1
<1>4. ASSUME NEW e PROVE e \in Range(j) <=> Contains(g, e) \/ Contains(b, e)
  <2>1. ASSUME e \in Range(j) PROVE Contains(g, e) \/ Contains(b, e)
    <3>1. PICK i \in 1 .. Len(j) : j[i] = e
      BY <1>2, <2>1 DEF Range
    <3> QED
      BY <1>2, <1>3, <3>1 DEF Contains
  <2>2. ASSUME NEW i \in 1 .. Len(g) PROVE g[i] \in Range(j)
    <3>1. i \in 1 .. Len(j)
      BY <1>2
    <3> QED
      BY <1>2, <3>1 DEF Range
  <2>3. ASSUME NEW i \in 1 .. Len(b) PROVE b[i] \in Range(j)
    <3>1. i + Len(g) \in 1 .. Len(j)
      BY <1>2
    <3> QED
      BY <1>2, <3>1 DEF Range
  <2> QED
    BY <2>1, <2>2, <2>3 DEF Contains
<1>5. ASSUME Once(x) PROVE IsInjective(j)
  <2>1. /\ IsInjective(g) /\ IsInjective(b)
        /\ \A i \in 1 .. Len(g), k \in 1 .. Len(b) : g[i] # b[k]
    BY <1>2, <1>5 DEF Once, Contains, g, b
  <2>2. \A i \in 1 .. Len(g), k \in 1 .. Len(b) : j[i] # j[k + Len(g)]
    BY <1>2, <2>1
  <2>3. ASSUME NEW i \in 1 .. Len(j), NEW k \in 1 .. Len(j), j[i] = j[k] PROVE i = k
    <3>1. CASE i \in 1 .. Len(g) /\ k \in 1 .. Len(g)
      BY <1>2, <2>1, <2>3, <3>1 DEF IsInjective
    <3>2. CASE i \notin 1 .. Len(g) /\ k \notin 1 .. Len(g)
      <4>1. PICK u, v \in 1 .. Len(b) : i = u + Len(g) /\ k = v + Len(g)
        BY <1>3, <3>2
      <4>2. b[u] = b[v]
        BY <1>2, <2>3, <4>1
      <4> QED
        BY <1>2, <2>1, <4>1, <4>2 DEF IsInjective
    <3> QED
      BY <1>3, <2>2, <2>3, <3>1, <3>2
  <2> QED
    BY <1>2, <2>3 DEF IsInjective
<1> QED
  BY <1>4, <1>5 DEF j, g, b

LEMMA TailInvAccounts ==
  ASSUME TailInv PROVE TailAccounted
<1> SUFFICES ASSUME NEW t \in Consumer, rx[t].open
             PROVE  LET given == rx[t].got \o rx[t].buf
                        queue == pipe[At[t]]
                        coming == {i \in DOMAIN queue : Event[queue[i]].from # At[t]}
                        absent == rx[t].owed \ (Range(given) \cup {queue[i] : i \in coming})
                    IN  /\ IsInjective(given)
                        /\ \A i \in coming : queue[i] \notin Range(given)
                        /\ \A i, j \in coming : queue[i] = queue[j] => i = j
                        /\ Cardinality(absent) <= rx[t].missed + rx[t].dropped
  BY DEF TailAccounted
<1> DEFINE given == rx[t].got \o rx[t].buf
           queue == pipe[At[t]]
           coming == {i \in DOMAIN queue : Event[queue[i]].from # At[t]}
           absent == rx[t].owed \ (Range(given) \cup {queue[i] : i \in coming})
<1>1. rx[t] \in Receiver /\ At[t] \in Replica /\ queue \in Seq(EventId)
  BY TailAssumption DEF TailInv, TailTyped
<1>2. /\ IsInjective(given)
      /\ \A e : e \in Range(given) <=> ~Unheard(rx[t], e)
  BY <1>1, Together DEF TailInv, GivenOnce, Unheard
<1> HIDE DEF given
<1>3. /\ DOMAIN queue = 1 .. Len(queue) /\ \A i \in DOMAIN queue : queue[i] \in EventId
      /\ IsInjective(queue)
  BY <1>1, LenProperties, ElementOfSeq DEF TailInv, PublishedOnce
<1>4. \A e : e \in {queue[i] : i \in coming} <=> Coming(queue, At[t], e)
  BY <1>3 DEF Coming, Contains, Foreign
<1>5. absent = Absent(rx[t], queue, At[t])
  BY <1>2, <1>4 DEF Absent
<1>6. Cardinality(absent) <= rx[t].missed + rx[t].dropped
  BY <1>5 DEF TailInv, Reckoned, Told
<1>7. \A i \in coming : queue[i] \notin Range(given)
  BY <1>2, <1>3, <1>4 DEF TailInv, GivenOnce
<1>8. \A i, j \in coming : queue[i] = queue[j] => i = j
  BY <1>3 DEF IsInjective
<1> QED
  BY <1>2, <1>6, <1>7, <1>8 DEF given
(* What the ring does with an event it does not hold: it keeps it, at the  *)
(* cost of its oldest one when it is full, which is counted as missed.     *)
LEMMA PushingKeeps ==
  ASSUME NEW x \in Receiver, NEW id \in EventId, Once(x), Unheard(x, id)
  PROVE  /\ Pushed(x, id) \in Receiver /\ Once(Pushed(x, id))
         /\ Pushed(x, id).open = x.open /\ Pushed(x, id).owed = x.owed
         /\ \A e \in EventId : ~Unheard(Pushed(x, id), e) => ~Unheard(x, e) \/ e = id
         /\ \/ /\ Pushed(x, id).missed + Pushed(x, id).dropped = x.missed + x.dropped
               /\ \A e \in EventId : ~Unheard(x, e) \/ e = id => ~Unheard(Pushed(x, id), e)
            \/ /\ Pushed(x, id).missed + Pushed(x, id).dropped = x.missed + x.dropped + 1
               /\ \E h \in EventId : \A e \in EventId \ {h} :
                    ~Unheard(x, e) \/ e = id => ~Unheard(Pushed(x, id), e)
<1> DEFINE y == Pushed(x, id)
<1>1. /\ x.buf \in Seq(EventId) /\ x.got \in Seq(EventId)
      /\ x.missed \in Nat /\ x.dropped \in Nat /\ Len(x.buf) \in Nat
      /\ IsInjective(x.got) /\ IsInjective(x.buf) /\ ~Contains(x.buf, id) /\ ~Contains(x.got, id)
  BY LenProperties DEF Receiver, Once, Unheard
<1>2. CASE Len(x.buf) < Capacity
  <2> DEFINE b == Append(x.buf, id)
  <2>1. /\ y.buf = b /\ y.got = x.got /\ y.open = x.open /\ y.owed = x.owed
        /\ y.missed = x.missed /\ y.dropped = x.dropped /\ y = [x EXCEPT !.buf = b]
    BY <1>2 DEF Pushed, Receiver
  <2>2. /\ b \in Seq(EventId) /\ IsInjective(b)
        /\ \A e : Contains(b, e) <=> Contains(x.buf, e) \/ e = id
    BY <1>1, Appending
  <2> HIDE DEF b, y
  <2>3. y \in Receiver
    BY <2>1, <2>2 DEF Receiver
  <2>4. Once(y)
    BY <1>1, <2>1, <2>2 DEF Once
  <2>5. \A e \in EventId : ~Unheard(y, e) <=> ~Unheard(x, e) \/ e = id
    BY <2>1, <2>2 DEF Unheard
  <2> QED
    BY <2>1, <2>3, <2>4, <2>5 DEF y
<1>3. CASE ~(Len(x.buf) < Capacity)
  <2> DEFINE c == Tail(x.buf)
             b == Append(c, id)
             h == Head(x.buf)
  <2>1. /\ y.buf = b /\ y.got = x.got /\ y.open = x.open /\ y.owed = x.owed
        /\ y.missed = x.missed + 1 /\ y.dropped = x.dropped
        /\ y = [x EXCEPT !.buf = b, !.missed = x.missed + 1]
    BY <1>3 DEF Pushed, Receiver
  <2>2. x.buf # <<>>
    BY <1>1, <1>3, EmptySeq, TailAssumption
  <2>3. /\ c \in Seq(EventId) /\ h \in EventId /\ IsInjective(c)
        /\ \A e : Contains(x.buf, e) <=> Contains(c, e) \/ e = h
    BY <1>1, <2>2, Dropping
  <2> HIDE DEF c, h
  <2>4. ~Contains(c, id)
    BY <1>1, <2>3
  <2>5. /\ b \in Seq(EventId) /\ IsInjective(b)
        /\ \A e : Contains(b, e) <=> Contains(c, e) \/ e = id
    BY <2>3, <2>4, Appending
  <2> HIDE DEF b, y
  <2>6. y \in Receiver
    <3>1. x.missed + 1 \in Nat
      BY <1>1
    <3> QED
      BY <2>1, <2>5, <3>1 DEF Receiver
  <2>7. Once(y)
    BY <1>1, <2>1, <2>3, <2>5 DEF Once
  <2>8. \A e \in EventId : ~Unheard(y, e) => ~Unheard(x, e) \/ e = id
    BY <2>1, <2>3, <2>5 DEF Unheard
  <2>9. \A e \in EventId \ {h} : ~Unheard(x, e) \/ e = id => ~Unheard(y, e)
    BY <2>1, <2>3, <2>5 DEF Unheard
  <2>10. y.missed + y.dropped = x.missed + x.dropped + 1
    BY <1>1, <2>1
  <2> QED
    BY <2>1, <2>3, <2>6, <2>7, <2>8, <2>9, <2>10 DEF y
<1> QED
  BY <1>2, <1>3

(* A receiver of which no more is absent has been told of it all,          *)
LEMMA NoLessTold ==
  ASSUME NEW x \in Receiver, NEW y \in Receiver, NEW q, NEW p, NEW r,
         IsFiniteSet(x.owed), Told(x, q, r), y.open => x.open,
         Absent(y, p, r) \subseteq Absent(x, q, r),
         y.missed + y.dropped = x.missed + x.dropped
  PROVE  Told(y, p, r)
<1>1. IsFiniteSet(Absent(x, q, r))
  BY FS_Subset DEF Absent
<1>2. /\ Cardinality(Absent(y, p, r)) <= Cardinality(Absent(x, q, r))
      /\ Cardinality(Absent(y, p, r)) \in Nat /\ Cardinality(Absent(x, q, r)) \in Nat
  BY <1>1, FS_Subset, FS_CardinalityType
<1> QED
  BY <1>2 DEF Told, Receiver

(* and so has one that lost one event and counts one more.                 *)
LEMMA OneMoreTold ==
  ASSUME NEW x \in Receiver, NEW y \in Receiver, NEW q, NEW p, NEW r, NEW h,
         IsFiniteSet(x.owed), Told(x, q, r), y.open => x.open,
         Absent(y, p, r) \subseteq Absent(x, q, r) \cup {h},
         y.missed + y.dropped = x.missed + x.dropped + 1
  PROVE  Told(y, p, r)
<1> DEFINE a == Absent(x, q, r)
<1>1. IsFiniteSet(a)
  BY FS_Subset DEF Absent
<1> HIDE DEF a
<1>2. /\ IsFiniteSet(a \cup {h}) /\ Cardinality(a) \in Nat
      /\ Cardinality(a \cup {h}) <= Cardinality(a) + 1
  <2>1. Cardinality(a) \in Nat
    BY <1>1, FS_CardinalityType
  <2>2. /\ IsFiniteSet(a \cup {h})
        /\ Cardinality(a \cup {h}) \in {Cardinality(a), Cardinality(a) + 1}
    BY <1>1, FS_AddElement
  <2> QED
    BY <2>1, <2>2
<1>3. /\ Cardinality(Absent(y, p, r)) <= Cardinality(a \cup {h})
      /\ Cardinality(Absent(y, p, r)) \in Nat
  <2>1. Absent(y, p, r) \in SUBSET (a \cup {h})
    BY DEF a
  <2> QED
    BY <1>2, <2>1, FS_Subset, FS_CardinalityType
<1>4. y.open => Cardinality(a) <= x.missed + x.dropped
  BY DEF Told, a
<1>5. Cardinality(a \cup {h}) \in Nat
  BY <1>2, FS_CardinalityType
<1> QED
  BY <1>2, <1>3, <1>4, <1>5 DEF Told, Receiver

(* Publishing                                                              *)
LEMMA DeliverKeeps ==
  ASSUME TailInv, NEW id \in EventId, Deliver(id)
  PROVE  TailInv'
<1> DEFINE r == Event[id].from
           got(t) == t \in Attached(r)
           y(t) == [Pushed(rx[t], id) EXCEPT !.owed = @ \cup {id}]
<1>0. /\ unsent' = unsent \cup {id} /\ pipe' = pipe
      /\ rx' = [t \in Consumer |-> IF got(t) THEN y(t) ELSE rx[t]]
  BY DEF Deliver, Owing, Sent
<1>1. /\ r \in Replica /\ id \notin unsent
      /\ \A q \in Replica : ~Contains(pipe[q], id)
      /\ \A t \in Consumer : Unheard(rx[t], id) /\ id \notin rx[t].owed
  BY TailAssumption DEF Deliver, Held, Unheard
<1>2. ASSUME NEW t \in Consumer, got(t)
      PROVE  LET p == pipe[At[t]] IN
             /\ y(t) \in Receiver /\ IsFiniteSet(y(t).owed) /\ Once(y(t))
             /\ y(t).open /\ y(t).owed = rx[t].owed \cup {id}
             /\ \A e \in EventId : ~Unheard(y(t), e) => ~Unheard(rx[t], e) \/ e = id
             /\ Told(y(t), p, At[t])
  <2> DEFINE x == rx[t]
             z == Pushed(x, id)
             p == pipe[At[t]]
  <2>1. /\ x \in Receiver /\ Once(x) /\ IsFiniteSet(x.owed) /\ x.open
        /\ Told(x, p, At[t]) /\ Unheard(x, id) /\ x.owed \subseteq EventId
    BY <1>1, <1>2 DEF TailInv, TailTyped, GivenOnce, Reckoned, Attached, Receiver
  <2>2. /\ z \in Receiver /\ Once(z) /\ z.open = x.open /\ z.owed = x.owed
        /\ \A e \in EventId : ~Unheard(z, e) => ~Unheard(x, e) \/ e = id
        /\ \/ /\ z.missed + z.dropped = x.missed + x.dropped
              /\ \A e \in EventId : ~Unheard(x, e) \/ e = id => ~Unheard(z, e)
           \/ /\ z.missed + z.dropped = x.missed + x.dropped + 1
              /\ \E h \in EventId : \A e \in EventId \ {h} :
                    ~Unheard(x, e) \/ e = id => ~Unheard(z, e)
    BY <2>1, PushingKeeps
  <2> HIDE DEF z, x
  <2>3. y(t) = [z EXCEPT !.owed = @ \cup {id}]
    BY DEF z, x
  <2>4. /\ y(t) \in Receiver /\ y(t).owed = x.owed \cup {id} /\ y(t).open
        /\ y(t).got = z.got /\ y(t).buf = z.buf
        /\ y(t).missed = z.missed /\ y(t).dropped = z.dropped
    <3> DEFINE w == z.owed \cup {id}
    <3>1. w \in SUBSET EventId /\ y(t) = [z EXCEPT !.owed = w]
      BY <2>1, <2>2, <2>3
    <3>2. w = x.owed \cup {id}
      BY <2>2
    <3> HIDE DEF w, y
    <3>3. /\ y(t) \in Receiver /\ y(t).owed = w /\ y(t).open = z.open
          /\ y(t).got = z.got /\ y(t).buf = z.buf
          /\ y(t).missed = z.missed /\ y(t).dropped = z.dropped
      BY <2>2, <3>1 DEF Receiver
    <3> QED
      BY <2>1, <2>2, <3>2, <3>3
  <2> HIDE DEF y
  <2>5. IsFiniteSet(y(t).owed)
    BY <2>1, <2>4, FS_AddElement
  <2>6. \A e : Unheard(y(t), e) <=> Unheard(z, e)
    BY <2>4 DEF Unheard
  <2>7. Once(y(t))
    BY <2>2, <2>4 DEF Once
  <2>8. Told(y(t), p, At[t])
    <3>1. CASE /\ z.missed + z.dropped = x.missed + x.dropped
               /\ \A e \in EventId : ~Unheard(x, e) \/ e = id => ~Unheard(z, e)
      <4>1. Absent(y(t), p, At[t]) \subseteq Absent(x, p, At[t])
        BY <2>1, <2>4, <2>6, <3>1 DEF Absent
      <4> QED
        BY <2>1, <2>4, <3>1, <4>1, NoLessTold
    <3>2. CASE /\ z.missed + z.dropped = x.missed + x.dropped + 1
               /\ \E h \in EventId : \A e \in EventId \ {h} :
                    ~Unheard(x, e) \/ e = id => ~Unheard(z, e)
      <4>1. PICK h \in EventId : \A e \in EventId \ {h} :
                    ~Unheard(x, e) \/ e = id => ~Unheard(z, e)
        BY <3>2
      <4>2. Absent(y(t), p, At[t]) \subseteq Absent(x, p, At[t]) \cup {h}
        BY <2>1, <2>4, <2>6, <4>1 DEF Absent
      <4> QED
        BY <2>1, <2>4, <3>2, <4>2, OneMoreTold
    <3> QED
      BY <2>2, <3>1, <3>2
  <2> QED
    BY <2>2, <2>4, <2>5, <2>6, <2>7, <2>8 DEF x, y
<1>3. \A t \in Consumer : got(t) => At[t] = r
  BY DEF Attached
<1> HIDE DEF y, got
<1>4. TailTyped'
  BY <1>0, <1>2 DEF TailInv, TailTyped
<1>5. PublishedOnce'
  <2>1. ASSUME NEW e \in unsent', NEW t \in Consumer, Foreign(At[t], e)
        PROVE  Unheard(rx'[t], e) /\ e \notin rx'[t].owed
    <3>1. CASE e = id
      <4>1. rx'[t] = rx[t]
        BY <1>0, <1>3, <2>1, <3>1 DEF Foreign
      <4> QED
        BY <1>1, <3>1, <4>1
    <3>2. CASE e # id
      <4>1. e \in unsent /\ e \in EventId /\ Unheard(rx[t], e) /\ e \notin rx[t].owed
        BY <1>0, <2>1, <3>2 DEF TailInv, PublishedOnce, TailTyped
      <4> QED
        BY <1>0, <1>2, <3>2, <4>1
    <3> QED
      BY <3>1, <3>2
  <2> QED
    BY <1>0, <1>1, <2>1 DEF TailInv, PublishedOnce, Foreign
<1>6. GivenOnce'
  BY <1>0, <1>1, <1>2, TailAssumption DEF TailInv, GivenOnce, Coming
<1>7. Reckoned'
  BY <1>0, <1>2 DEF TailInv, Reckoned
<1> QED
  BY <1>4, <1>5, <1>6, <1>7 DEF TailInv

LEMMA PublishKeeps ==
  ASSUME TailInv, NEW id \in EventId, Publish(id)
  PROVE  TailInv'
<1> DEFINE from == Event[id].from
           live(r) == session[r] = "live"
           due(t) == rx[t].open /\ live(At[t]) /\ At[t] # from
           y(t) == [rx[t] EXCEPT !.owed = @ \cup {id}]
<1>0. /\ id \in unsent /\ unsent' = unsent \ {id}
      /\ pipe' = [r \in Replica |-> IF live(r) THEN Append(pipe[r], id) ELSE pipe[r]]
  BY DEF Publish
<1>1. rx' = [t \in Consumer |-> IF due(t) THEN y(t) ELSE rx[t]]
  <2> DEFINE reached == UNION {Attached(r) : r \in {q \in Replica : live(q)} \ {from}}
  <2>1. rx' = Owing(rx, reached, id)
    BY DEF Publish
  <2>2. \A t \in Consumer : t \in reached <=> due(t)
    BY TailAssumption DEF Attached
  <2> HIDE DEF reached
  <2> QED
    BY <2>1, <2>2 DEF Owing
<1>2. \A r \in Replica :
        /\ pipe[r] \in Seq(EventId) /\ pipe'[r] \in Seq(EventId)
        /\ IsInjective(pipe'[r])
        /\ \A e : Contains(pipe'[r], e) <=> Contains(pipe[r], e) \/ (live(r) /\ e = id)
  BY <1>0, Appending DEF TailInv, TailTyped, PublishedOnce
<1>3. ASSUME NEW t \in Consumer
      PROVE  /\ rx'[t] \in Receiver /\ IsFiniteSet(rx'[t].owed)
             /\ rx'[t].got = rx[t].got /\ rx'[t].buf = rx[t].buf
             /\ rx'[t].open = rx[t].open
             /\ rx'[t].missed = rx[t].missed /\ rx'[t].dropped = rx[t].dropped
             /\ rx'[t].owed = IF due(t) THEN rx[t].owed \cup {id} ELSE rx[t].owed
  <2>1. rx[t] \in Receiver /\ IsFiniteSet(rx[t].owed)
    BY DEF TailInv, TailTyped
  <2>2. IsFiniteSet(rx[t].owed \cup {id})
    BY <2>1, FS_AddElement
  <2> QED
    BY <1>1, <2>1, <2>2 DEF Receiver
<1> HIDE DEF y
<1>4. TailTyped'
  <2>1. rx' \in [Consumer -> Receiver]
    BY <1>1, <1>3
  <2> QED
    BY <1>0, <1>2, <1>3, <2>1 DEF TailInv, TailTyped
<1>5. \A t \in Consumer : \A e : Unheard(rx'[t], e) <=> Unheard(rx[t], e)
  BY <1>3 DEF Unheard
<1>6. PublishedOnce'
  <2>1. ASSUME NEW e \in unsent', NEW t \in Consumer, Foreign(At[t], e)
        PROVE  Unheard(rx'[t], e) /\ e \notin rx'[t].owed
    <3>1. e # id /\ Unheard(rx[t], e) /\ e \notin rx[t].owed
      BY <1>0, <2>1 DEF TailInv, PublishedOnce
    <3> QED
      BY <1>3, <1>5, <3>1
  <2>2. \A e \in unsent', r \in Replica : ~Contains(pipe'[r], e)
    BY <1>0, <1>2 DEF TailInv, PublishedOnce
  <2> QED
    BY <1>2, <2>1, <2>2 DEF PublishedOnce, Foreign
<1>7. GivenOnce'
  <2>1. \A t \in Consumer : Once(rx'[t])
    BY <1>3 DEF TailInv, GivenOnce, Once
  <2>2. \A t \in Consumer : Foreign(At[t], id) => Unheard(rx[t], id)
    BY <1>0 DEF TailInv, PublishedOnce
  <2>3. ASSUME NEW t \in Consumer, NEW e \in EventId, Coming(pipe'[At[t]], At[t], e)
        PROVE  Unheard(rx'[t], e)
    <3>1. Coming(pipe[At[t]], At[t], e) \/ (e = id /\ Foreign(At[t], id))
      BY <1>2, <2>3, TailAssumption DEF Coming
    <3> QED
      BY <1>5, <2>2, <3>1 DEF TailInv, GivenOnce
  <2> QED
    BY <2>1, <2>3 DEF GivenOnce, Coming, Foreign
<1>8. ASSUME NEW t \in Consumer PROVE Told(rx'[t], pipe'[At[t]], At[t])
  <2>1. At[t] \in Replica
    BY TailAssumption
  <2>2. \A e : Coming(pipe[At[t]], At[t], e) => Coming(pipe'[At[t]], At[t], e)
    BY <1>2, <2>1 DEF Coming
  <2>3. due(t) => Coming(pipe'[At[t]], At[t], id)
    BY <1>2, <2>1 DEF Coming, Foreign
  <2>4. Absent(rx'[t], pipe'[At[t]], At[t]) \subseteq Absent(rx[t], pipe[At[t]], At[t])
    <3> SUFFICES ASSUME NEW e \in Absent(rx'[t], pipe'[At[t]], At[t])
                 PROVE  e \in Absent(rx[t], pipe[At[t]], At[t])
      OBVIOUS
    <3>1. /\ e \in rx'[t].owed /\ Unheard(rx'[t], e)
          /\ ~Coming(pipe'[At[t]], At[t], e)
      BY DEF Absent
    <3>2. e \in rx[t].owed
      BY <1>3, <2>3, <3>1
    <3>3. Unheard(rx[t], e) /\ ~Coming(pipe[At[t]], At[t], e)
      BY <1>5, <2>2, <3>1
    <3> QED
      BY <3>2, <3>3 DEF Absent
  <2>5. rx[t] \in Receiver /\ IsFiniteSet(rx[t].owed) /\ Told(rx[t], pipe[At[t]], At[t])
    BY DEF TailInv, TailTyped, Reckoned
  <2> QED
    BY <1>3, <2>4, <2>5, NoLessTold
<1> QED
  BY <1>4, <1>6, <1>7, <1>8 DEF TailInv, Reckoned

(* The subscriber task: the end of a connection,                           *)
LEMMA StreamEndsKeeps ==
  ASSUME TailInv, NEW r \in Replica, StreamEnds(r)
  PROVE  TailInv'
<1> DEFINE lost == {id \in EventId : Contains(pipe[r], id) /\ Event[id].from # r}
           y(t) == [rx[t] EXCEPT !.owed = @ \ lost]
<1>0. /\ unsent' = unsent /\ pipe' = [pipe EXCEPT ![r] = <<>>]
      /\ rx' = [t \in Consumer |-> IF At[t] = r THEN y(t) ELSE rx[t]]
  BY DEF StreamEnds
<1>1. \A q \in Replica :
        /\ pipe'[q] \in Seq(EventId) /\ IsInjective(pipe'[q])
        /\ \A e : Contains(pipe'[q], e) <=> q # r /\ Contains(pipe[q], e)
  BY <1>0, Nothing DEF TailInv, TailTyped, PublishedOnce
<1>2. ASSUME NEW t \in Consumer
      PROVE  /\ rx'[t] \in Receiver /\ IsFiniteSet(rx'[t].owed)
             /\ rx'[t].got = rx[t].got /\ rx'[t].buf = rx[t].buf
             /\ rx'[t].open = rx[t].open
             /\ rx'[t].missed = rx[t].missed /\ rx'[t].dropped = rx[t].dropped
             /\ rx'[t].owed = IF At[t] = r THEN rx[t].owed \ lost ELSE rx[t].owed
  <2>1. rx[t] \in Receiver /\ IsFiniteSet(rx[t].owed)
    BY DEF TailInv, TailTyped
  <2>2. IsFiniteSet(rx[t].owed \ lost)
    BY <2>1, FS_Subset
  <2> QED
    BY <1>0, <2>1, <2>2 DEF Receiver
<1>3. TailTyped'
  <2>1. rx' \in [Consumer -> Receiver] /\ pipe' \in [Replica -> Seq(EventId)]
    BY <1>0, <1>1, <1>2, Nothing DEF TailInv, TailTyped
  <2> QED
    BY <1>0, <1>2, <2>1 DEF TailInv, TailTyped
<1>4. \A t \in Consumer : \A e : Unheard(rx'[t], e) <=> Unheard(rx[t], e)
  BY <1>2 DEF Unheard
<1>5. PublishedOnce'
  <2>1. ASSUME NEW e \in unsent', NEW t \in Consumer, Foreign(At[t], e)
        PROVE  Unheard(rx'[t], e) /\ e \notin rx'[t].owed
    BY <1>0, <1>2, <1>4, <2>1 DEF TailInv, PublishedOnce
  <2>2. \A e \in unsent', q \in Replica : ~Contains(pipe'[q], e)
    BY <1>0, <1>1 DEF TailInv, PublishedOnce
  <2> QED
    BY <1>1, <2>1, <2>2 DEF PublishedOnce, Foreign
<1>6. GivenOnce'
  <2>1. \A t \in Consumer : Once(rx'[t])
    BY <1>2 DEF TailInv, GivenOnce, Once
  <2> QED
    BY <1>1, <1>4, <2>1, TailAssumption DEF TailInv, GivenOnce, Coming
<1>7. ASSUME NEW t \in Consumer PROVE Told(rx'[t], pipe'[At[t]], At[t])
  <2>1. At[t] \in Replica /\ rx[t].owed \subseteq EventId
    BY TailAssumption DEF TailInv, TailTyped, Receiver
  <2>2. \A e \in EventId : Coming(pipe[At[t]], At[t], e) =>
          Coming(pipe'[At[t]], At[t], e) \/ (At[t] = r /\ e \in lost)
    BY <1>1, <2>1 DEF Coming, Foreign
  <2>3. Absent(rx'[t], pipe'[At[t]], At[t]) \subseteq Absent(rx[t], pipe[At[t]], At[t])
    BY <1>2, <1>4, <2>1, <2>2 DEF Absent
  <2>4. rx[t] \in Receiver /\ IsFiniteSet(rx[t].owed) /\ Told(rx[t], pipe[At[t]], At[t])
    BY DEF TailInv, TailTyped, Reckoned
  <2>5. rx'[t] \in Receiver /\ (rx'[t].open => rx[t].open)
    BY <1>2, <1>3 DEF TailTyped
  <2>6. rx'[t].missed + rx'[t].dropped = rx[t].missed + rx[t].dropped
    BY <1>2
  <2> QED
    BY <2>3, <2>4, <2>5, <2>6, NoLessTold
<1> QED
  BY <1>3, <1>5, <1>6, <1>7 DEF TailInv, Reckoned

(* and one message.                                                        *)
LEMMA PumpKeeps ==
  ASSUME TailInv, NEW r \in Replica, Pump(r)
  PROVE  TailInv'
<1> DEFINE id == Head(pipe[r])
           given(t) == Foreign(r, id) /\ t \in Attached(r)
<1>0. /\ unsent' = unsent /\ pipe' = [pipe EXCEPT ![r] = Tail(@)]
      /\ rx' = [t \in Consumer |-> IF given(t) THEN Pushed(rx[t], id) ELSE rx[t]]
  BY DEF Pump, Sent, Foreign, TailInv, TailTyped
<1>1. /\ id \in EventId /\ Contains(pipe[r], id)
      /\ \A q \in Replica :
        /\ pipe'[q] \in Seq(EventId) /\ IsInjective(pipe'[q])
        /\ \A e : Contains(pipe'[q], e) <=> Contains(pipe[q], e) /\ ~(q = r /\ e = id)
  <2>1. pipe[r] \in Seq(EventId) /\ pipe[r] # <<>> /\ IsInjective(pipe[r])
    BY DEF Pump, TailInv, TailTyped, PublishedOnce
  <2> QED
    BY <1>0, <2>1, Dropping DEF TailInv, TailTyped, PublishedOnce
<1> HIDE DEF id
<1>2. id \notin unsent /\ \A t \in Consumer : given(t) => Unheard(rx[t], id) /\ At[t] = r
  BY <1>1 DEF TailInv, PublishedOnce, GivenOnce, Coming, Attached
<1>3. ASSUME NEW t \in Consumer
      PROVE  /\ rx'[t] \in Receiver /\ Once(rx'[t])
             /\ rx'[t].open = rx[t].open /\ rx'[t].owed = rx[t].owed
             /\ \A e \in EventId : ~Unheard(rx'[t], e) =>
                  ~Unheard(rx[t], e) \/ (e = id /\ given(t))
             /\ Told(rx'[t], pipe'[At[t]], At[t])
  <2> DEFINE x == rx[t]
             y == rx'[t]
             p == pipe[At[t]]
             p1 == pipe'[At[t]]
  <2>1. /\ x \in Receiver /\ Once(x) /\ IsFiniteSet(x.owed) /\ At[t] \in Replica
        /\ Told(x, p, At[t]) /\ x.owed \subseteq EventId
    BY TailAssumption DEF TailInv, TailTyped, GivenOnce, Reckoned, Receiver
  <2>2. CASE given(t)
    <3>1. y = Pushed(x, id) /\ Unheard(x, id) /\ At[t] = r
      BY <1>0, <1>2, <2>2
    <3>2. /\ y \in Receiver /\ Once(y) /\ y.open = x.open /\ y.owed = x.owed
          /\ \A e \in EventId : ~Unheard(y, e) => ~Unheard(x, e) \/ e = id
          /\ \/ /\ y.missed + y.dropped = x.missed + x.dropped
                /\ \A e \in EventId : ~Unheard(x, e) \/ e = id => ~Unheard(y, e)
             \/ /\ y.missed + y.dropped = x.missed + x.dropped + 1
                /\ \E h \in EventId : \A e \in EventId \ {h} :
                      ~Unheard(x, e) \/ e = id => ~Unheard(y, e)
      BY <1>1, <2>1, <3>1, PushingKeeps
    <3>3. \A e : Coming(p, At[t], e) => Coming(p1, At[t], e) \/ e = id
      BY <1>1, <2>1 DEF Coming
    <3> HIDE DEF x, y, p, p1
    <3>4. Told(y, p1, At[t])
      <4>1. CASE /\ y.missed + y.dropped = x.missed + x.dropped
                 /\ \A e \in EventId : ~Unheard(x, e) \/ e = id => ~Unheard(y, e)
        <5>1. Absent(y, p1, At[t]) \subseteq Absent(x, p, At[t])
          BY <2>1, <3>2, <3>3, <4>1 DEF Absent
        <5> QED
          BY <2>1, <3>2, <4>1, <5>1, NoLessTold
      <4>2. CASE /\ y.missed + y.dropped = x.missed + x.dropped + 1
                 /\ \E h \in EventId : \A e \in EventId \ {h} :
                      ~Unheard(x, e) \/ e = id => ~Unheard(y, e)
        <5>1. PICK h \in EventId : \A e \in EventId \ {h} :
                      ~Unheard(x, e) \/ e = id => ~Unheard(y, e)
          BY <4>2
        <5>2. Absent(y, p1, At[t]) \subseteq Absent(x, p, At[t]) \cup {h}
          BY <2>1, <3>2, <3>3, <5>1 DEF Absent
        <5> QED
          BY <2>1, <3>2, <4>2, <5>2, OneMoreTold
      <4> QED
        BY <3>2, <4>1, <4>2
    <3> QED
      BY <2>2, <3>2, <3>4 DEF x, y, p1
  <2>3. CASE ~given(t)
    <3>1. y = x
      BY <1>0, <2>3
    <3>2. CASE t \in Attached(r) \/ At[t] # r
      <4>1. \A e : Coming(p, At[t], e) => Coming(p1, At[t], e)
        BY <1>1, <2>1, <2>3, <3>2 DEF Coming, Attached
      <4>2. Absent(y, p1, At[t]) \subseteq Absent(x, p, At[t])
        BY <3>1, <4>1 DEF Absent
      <4>3. Told(y, p1, At[t])
        BY <2>1, <3>1, <4>2, NoLessTold
      <4> QED
        BY <2>1, <3>1, <4>3
    <3>3. CASE t \notin Attached(r) /\ At[t] = r
      <4>1. ~x.open
        BY <3>3 DEF Attached
      <4> QED
        BY <2>1, <3>1, <4>1 DEF Told
    <3> QED
      BY <3>2, <3>3
  <2> QED
    BY <2>2, <2>3
<1> HIDE DEF given
<1>4. TailTyped'
  <2>1. rx' \in [Consumer -> Receiver] /\ pipe' \in [Replica -> Seq(EventId)]
    BY <1>0, <1>1, <1>3 DEF TailInv, TailTyped
  <2> QED
    BY <1>0, <1>3, <2>1 DEF TailInv, TailTyped
<1>5. PublishedOnce'
  BY <1>0, <1>1, <1>2, <1>3 DEF TailInv, PublishedOnce, TailTyped
<1>6. GivenOnce'
  BY <1>1, <1>2, <1>3, TailAssumption DEF TailInv, GivenOnce, Coming
<1> QED
  BY <1>3, <1>4, <1>5, <1>6 DEF TailInv, Reckoned

(* Consumers                                                               *)
LEMMA ConsumerKeeps ==
  ASSUME TailInv, NEW t \in Consumer,
         Subscribe(t) \/ Lagged(t) \/ Receive(t) \/ Leave(t)
  PROVE  TailInv'
<1> DEFINE x == rx[t]
           y == rx'[t]
           p == pipe[At[t]]
<1>0. /\ x \in Receiver /\ Once(x) /\ IsFiniteSet(x.owed) /\ Told(x, p, At[t])
      /\ x.buf \in Seq(EventId) /\ x.got \in Seq(EventId)
      /\ x.missed \in Nat /\ x.dropped \in Nat
  BY DEF TailInv, TailTyped, GivenOnce, Reckoned, Receiver
<1>1. /\ UNCHANGED <<unsent, pipe>>
      /\ rx' = [rx EXCEPT ![t] = y]
  BY DEF TailInv, TailTyped, Subscribe, Lagged, Receive, Leave
<1>2. /\ y \in Receiver /\ Once(y) /\ IsFiniteSet(y.owed) /\ Told(y, p, At[t])
      /\ y.owed \subseteq x.owed
      /\ \A e \in EventId : ~Unheard(y, e) => ~Unheard(x, e)
  <2>1. CASE Subscribe(t) \/ Leave(t)
    <3>1. y = Detached \/ y = [Detached EXCEPT !.open = TRUE]
      BY <2>1 DEF Subscribe, Leave, TailInv, TailTyped
    <3>2. /\ y.open \in BOOLEAN /\ y.buf = <<>> /\ y.got = <<>> /\ y.owed = {}
          /\ y.missed = 0 /\ y.dropped = 0 /\ y \in Receiver
      <4>1. /\ Detached \in Receiver
            /\ [Detached EXCEPT !.open = TRUE] \in Receiver
        BY Nothing DEF Detached, Receiver
      <4>2. /\ Detached.open = FALSE /\ Detached.buf = <<>> /\ Detached.got = <<>>
            /\ Detached.owed = {} /\ Detached.missed = 0 /\ Detached.dropped = 0
        BY DEF Detached
      <4>3. CASE y = Detached
        BY <4>1, <4>2, <4>3
      <4>4. CASE y = [Detached EXCEPT !.open = TRUE]
        BY <4>1, <4>4 DEF Detached
      <4> HIDE DEF y
      <4> QED
        BY <3>1, <4>3, <4>4
    <3> HIDE DEF y, x, p
    <3>3. Once(y) /\ \A e : Unheard(y, e)
      BY <3>2, Nothing DEF Once, Unheard
    <3>4. Told(y, p, At[t]) /\ IsFiniteSet(y.owed)
      <4>1. Absent(y, p, At[t]) = {}
        BY <3>2 DEF Absent
      <4> QED
        BY <3>2, <4>1, FS_EmptySet DEF Told
    <3> QED
      BY <3>2, <3>3, <3>4
  <2>2. CASE Lagged(t)
    <3>1. y = [x EXCEPT !.dropped = @ + x.missed, !.missed = 0]
      BY <2>2 DEF Lagged, TailInv, TailTyped
    <3>2. /\ y.open = x.open /\ y.buf = x.buf /\ y.got = x.got /\ y.owed = x.owed
          /\ y.missed = 0 /\ y.dropped = x.dropped + x.missed
          /\ y = [x EXCEPT !.dropped = x.dropped + x.missed, !.missed = 0]
      BY <1>0, <3>1 DEF Receiver
    <3> HIDE DEF y, x, p
    <3>3. x.dropped + x.missed \in Nat /\ y.missed + y.dropped = x.missed + x.dropped
      BY <1>0, <3>2
    <3>4. y \in Receiver
      <4> DEFINE z == [x EXCEPT !.dropped = x.dropped + x.missed]
      <4>1. z \in Receiver
        BY <1>0, <3>3 DEF Receiver
      <4>2. y = [z EXCEPT !.missed = 0]
        BY <1>0, <3>2 DEF Receiver
      <4> HIDE DEF z
      <4> QED
        BY <4>1, <4>2 DEF Receiver
    <3>5. Once(y) /\ \A e : Unheard(y, e) <=> Unheard(x, e)
      BY <1>0, <3>2 DEF Once, Unheard
    <3>6. Absent(y, p, At[t]) \subseteq Absent(x, p, At[t])
      BY <3>2, <3>5 DEF Absent
    <3> QED
      BY <1>0, <3>2, <3>3, <3>4, <3>5, <3>6, NoLessTold
  <2>3. CASE Receive(t)
    <3> DEFINE b == Tail(x.buf)
               h == Head(x.buf)
               g == Append(x.got, h)
    <3>1. y = [x EXCEPT !.buf = b, !.got = g] /\ x.buf # <<>>
      BY <2>3 DEF Receive, TailInv, TailTyped
    <3>2. /\ y.open = x.open /\ y.buf = b /\ y.got = g /\ y.owed = x.owed
          /\ y.missed = x.missed /\ y.dropped = x.dropped
      BY <1>0, <3>1 DEF Receiver
    <3>3. /\ b \in Seq(EventId) /\ h \in EventId /\ IsInjective(b) /\ ~Contains(b, h)
          /\ \A e : Contains(x.buf, e) <=> Contains(b, e) \/ e = h
      BY <1>0, <3>1, Dropping DEF Once
    <3> HIDE DEF y, x, p, h, b
    <3>4. ~Contains(x.got, h) /\ IsInjective(x.got)
      BY <1>0, <3>3 DEF Once
    <3>5. /\ g \in Seq(EventId) /\ IsInjective(g)
          /\ \A e : Contains(g, e) <=> Contains(x.got, e) \/ e = h
      BY <1>0, <3>3, <3>4, Appending
    <3> HIDE DEF g
    <3>6. y \in Receiver
      BY <1>0, <3>1, <3>3, <3>5 DEF Receiver
    <3>7. Once(y)
      BY <1>0, <3>2, <3>3, <3>5 DEF Once
    <3>8. \A e : Unheard(y, e) <=> Unheard(x, e)
      BY <3>2, <3>3, <3>5 DEF Unheard
    <3>9. Absent(y, p, At[t]) \subseteq Absent(x, p, At[t])
      BY <3>2, <3>8 DEF Absent
    <3>10. y.missed + y.dropped = x.missed + x.dropped
      BY <3>2
    <3> QED
      BY <1>0, <3>2, <3>6, <3>7, <3>8, <3>9, <3>10, NoLessTold
  <2> QED
    BY <2>1, <2>2, <2>3
<1>3. \A u \in Consumer : rx'[u] = IF u = t THEN y ELSE rx[u]
  BY <1>1 DEF TailInv, TailTyped
<1> HIDE DEF y
<1>4. TailTyped'
  BY <1>1, <1>2, <1>3 DEF TailInv, TailTyped
<1>5. PublishedOnce'
  <2>1. ASSUME NEW e \in unsent, NEW u \in Consumer, Foreign(At[u], e)
        PROVE  Unheard(rx'[u], e) /\ e \notin rx'[u].owed
    <3>1. e \in EventId /\ Unheard(rx[u], e) /\ e \notin rx[u].owed
      BY <2>1 DEF TailInv, PublishedOnce, TailTyped
    <3> QED
      BY <1>2, <1>3, <3>1
  <2> QED
    BY <1>1, <2>1 DEF TailInv, PublishedOnce, Foreign
<1>6. GivenOnce'
  BY <1>1, <1>2, <1>3 DEF TailInv, GivenOnce, Coming, Foreign
<1>7. Reckoned'
  BY <1>1, <1>2, <1>3 DEF TailInv, Reckoned
<1> QED
  BY <1>4, <1>5, <1>6, <1>7 DEF TailInv

(* No consumer is attached initially, and every step keeps the account.    *)
LEMMA TailInitTyped == TailInit => TailInv
<1> SUFFICES ASSUME TailInit PROVE TailInv
  OBVIOUS
<1>1. /\ Detached \in Receiver /\ Once(Detached) /\ IsFiniteSet(Detached.owed)
      /\ \A e : Unheard(Detached, e)
      /\ ~Detached.open
  BY Nothing, FS_EmptySet DEF Detached, Receiver, Once, Unheard
<1>2. /\ \A t \in Consumer : rx[t] = Detached
      /\ \A r \in Replica : pipe[r] = <<>>
      /\ unsent = {}
  BY DEF TailInit
<1>3. TailTyped
  BY <1>1, Nothing DEF TailInit, TailTyped
<1>4. PublishedOnce /\ GivenOnce
  BY <1>1, <1>2, Nothing, TailAssumption DEF PublishedOnce, GivenOnce
<1>5. Reckoned
  BY <1>1, <1>2 DEF Reckoned, Told
<1> QED
  BY <1>3, <1>4, <1>5 DEF TailInv

LEMMA TailNextKeeps == TailInv /\ [TailNext]_tailVars => TailInv'
<1> SUFFICES ASSUME TailInv, [TailNext]_tailVars PROVE TailInv'
  OBVIOUS
<1>1. ASSUME UNCHANGED <<rx, pipe>>, unsent' \subseteq unsent PROVE TailInv'
  <2>1. TailTyped' /\ GivenOnce' /\ Reckoned'
    BY <1>1 DEF TailInv, TailTyped, GivenOnce, Reckoned
  <2>2. PublishedOnce'
    BY <1>1 DEF TailInv, PublishedOnce
  <2> QED
    BY <2>1, <2>2 DEF TailInv
<1>2. ASSUME NEW id \in EventId, Deliver(id) \/ Publish(id) \/ PublishFails(id)
      PROVE  TailInv'
  <2>1. CASE PublishFails(id)
    BY <1>1, <2>1 DEF PublishFails
  <2> QED
    BY <1>2, <2>1, DeliverKeeps, PublishKeeps
<1>3. ASSUME NEW r \in Replica,
             \/ CheckDemand(r) \/ Sleep(r) \/ Woken(r) \/ Connect(r)
             \/ ConnectFails(r) \/ Retry(r) \/ IdleCheck(r)
      PROVE  TailInv'
  <2>1. UNCHANGED <<rx, pipe, unsent>>
    BY <1>3 DEF CheckDemand, Sleep, Woken, Connect, ConnectFails, Retry, IdleCheck
  <2> QED
    BY <1>1, <2>1
<1>4. CASE UNCHANGED tailVars
  BY <1>1, <1>4 DEF tailVars
<1> QED
  BY <1>2, <1>3, <1>4, StreamEndsKeeps, PumpKeeps, ConsumerKeeps DEF TailNext

(* TailSpec => []TailAccounted: no consumer of the live tail is given an   *)
(* event twice, and what it is owed it has, will get, or was told it       *)
(* missed (journal.rs, bus.rs).                                            *)
THEOREM TailsAreAccounted == TailSpec => []TailAccounted
BY TailInitTyped, TailNextKeeps, TailInvAccounts, PTL DEF TailSpec
=============================================================================
