------------------------- MODULE HandlerStoreProofs -------------------------
(* For every number of keys, fields and values: the map and Valkey hold    *)
(* the same and answer the same, on keys where no call of Parting was made. *)
EXTENDS HandlerStore, SequenceTheorems, TLAPS

(* What Valkey can hold under a key: no empty container, and data of the   *)
(* shape its kind asks for.                                                *)
Shaped(v) ==
  /\ v = [kind |-> v.kind, data |-> v.data]
  /\ v.kind = "none" <=> v.data = <<>>
  /\ v.kind = "bytes" => v.data = <<v.data[1]>>
  /\ v.kind = "list" => v.data \in Seq(Value)

IInv ==
  /\ mem = [k \in Key |-> mem[k]]
  /\ val = [k \in Key |-> val[k]]
  /\ \A k \in Key : Shaped(val[k])
  /\ BackendsAgree

(* The name of a call tells what kind it works on, and its arguments.      *)
LEMMA CallNames ==
  ASSUME NEW c
  PROVE  /\ c \in BytesCall => c.name \in {"get", "incr", "set_if_absent"}
         /\ c \in ListCall => c.name \in {"list_push", "list_pop", "list_length", "list_range"}
         /\ c \in HashCall => c.name \in {"hash_get", "hash_delete", "hash_set", "hash_keys",
                                          "hash_get_all", "hash_incr"}
         /\ c \in SetCall => c.name \in {"set_add", "set_remove", "set_contains", "set_members"}
         /\ c \in ListCall /\ c.name = "list_push" => c.x \in Value
         /\ c \in ListCall /\ c.name = "list_range" => c.x \in Index /\ c.y \in Index
BY DEF BytesCall, ListCall, HashCall, SetCall, Call

(* So a call is of one kind only, and asks for that kind of item.          *)
LEMMA Kinds ==
  ASSUME NEW c \in TypedCall
  PROVE  /\ c \in BytesCall => Needs(c) = "bytes" /\ c \notin ListCall \cup HashCall \cup SetCall
         /\ c \in ListCall => Needs(c) = "list" /\ c \notin BytesCall \cup HashCall \cup SetCall
         /\ c \in HashCall => Needs(c) = "hash" /\ c \notin BytesCall \cup ListCall \cup SetCall
         /\ c \in SetCall => Needs(c) = "set" /\ c \notin BytesCall \cup ListCall \cup HashCall
         /\ Needs(c) \in {"bytes", "list", "hash", "set"}
BY CallNames DEF Needs, TypedCall

(* Two outcomes of a call that a handler cannot tell apart.                *)
Alike(a, b) == a.data = b.data /\ a.out = b.out /\ SameError(a.err, b.err)

(* A counter that does not read as a loose number is counted alike.        *)
LEMMA CountedAlike ==
  ASSUME NEW data, NEW i, NEW by, i \in DOMAIN data => data[i] # Loose
  PROVE  Alike(Added(MemoryCounts, data, i, by), Added(ValkeyCounts, data, i, by))
BY DEF Added, MemoryCounts, ValkeyCounts, Alike, SameError, Gives, Fails

(* One operation at a time: a CASE, taken apart.                           *)
LEMMA DoneByKind ==
  ASSUME NEW counts, NEW c \in TypedCall, NEW data
  PROVE  /\ c \in BytesCall => Done(counts, c, data) = BasicOp(counts, c, data)
         /\ c \in ListCall => Done(counts, c, data) = ListOp(c, data)
         /\ c \in HashCall => Done(counts, c, data) = HashOp(counts, c, data)
         /\ c \in SetCall => Done(counts, c, data) = SetOp(c, data)
BY Kinds DEF Done

(* What a get, a counter and a set_if_absent compute.                      *)
LEMMA GetDone ==
  ASSUME NEW counts, NEW c \in TypedCall, NEW data, c.name = "get"
  PROVE  Done(counts, c, data) = Gives(data, data)
<1>1. c \in BytesCall
  BY CallNames DEF TypedCall
<1>2. BasicOp(counts, c, data) = Gives(data, data)
  BY DEF BasicOp
<1> QED
  BY <1>1, <1>2, DoneByKind

LEMMA IncrDone ==
  ASSUME NEW counts, NEW c \in TypedCall, NEW data, c.name = "incr"
  PROVE  Done(counts, c, data) = Added(counts, data, 1, c.x)
<1>1. c \in BytesCall
  BY CallNames DEF TypedCall
<1>2. BasicOp(counts, c, data) = Added(counts, data, 1, c.x)
  BY DEF BasicOp
<1> QED
  BY <1>1, <1>2, DoneByKind

LEMMA SetIfAbsentDone ==
  ASSUME NEW counts, NEW c \in TypedCall, NEW data, c.name = "set_if_absent"
  PROVE  /\ data = <<>> => Done(counts, c, data) = Gives(<<c.x>>, Flag(TRUE))
         /\ data # <<>> => Done(counts, c, data) = Gives(data, Flag(FALSE))
<1>1. c \in BytesCall
  BY CallNames DEF TypedCall
<1>2. BasicOp(counts, c, data) = IF data = <<>> THEN Gives(<<c.x>>, Flag(TRUE))
                                 ELSE Gives(data, Flag(FALSE))
  BY DEF BasicOp
<1> QED
  BY <1>1, <1>2, DoneByKind

(* What the list calls other than a range compute.                         *)
LEMMA ListOps ==
  ASSUME NEW c, NEW data
  PROVE  /\ c.name = "list_push" => ListOp(c, data) = Gives(Append(data, c.x), <<>>)
         /\ c.name = "list_pop" => ListOp(c, data) = IF data = <<>> THEN Gives(data, <<>>)
                                                    ELSE Gives(Tail(data), <<Head(data)>>)
         /\ c.name = "list_length" => ListOp(c, data) = Gives(data, <<Len(data)>>)
BY DEF ListOp

(* Hash calls are alike, but for a counter in a loose number.              *)
LEMMA HashCounts ==
  ASSUME NEW c \in HashCall, NEW data,
         c.name = "hash_incr" => ~ (c.x \in DOMAIN data /\ data[c.x] = Loose)
  PROVE  Alike(HashOp(MemoryCounts, c, data), HashOp(ValkeyCounts, c, data))
<1>1. CASE c.name = "hash_incr"
  <2>1. \A counts : HashOp(counts, c, data) = Added(counts, data, c.x, c.y)
    BY <1>1 DEF HashOp
  <2> QED
    BY <1>1, <2>1, CountedAlike
<1>2. CASE c.name # "hash_incr"
  BY <1>2, CallNames DEF HashOp, Alike, SameError
<1> QED
  BY <1>1, <1>2

(* Bytes that are one value: the counter's index is that value's.          *)
LEMMA BytesShape ==
  ASSUME NEW v, Shaped(v), v.kind = "bytes"
  PROVE  v = Bytes(v.data[1])
BY DEF Shaped, Bytes

(* What the backends compute on one item is the same, apart from Parting.  *)
LEMMA DoneAlike ==
  ASSUME NEW c \in TypedCall, NEW v, Shaped(v), ~ Parting(v, c),
         v.kind \in {"none", Needs(c)}
  PROVE  Alike(Done(MemoryCounts, c, v.data), Done(ValkeyCounts, c, v.data))
<1>1. CASE c \in BytesCall
  <2>1. CASE c.name = "incr"
    <3>1. 1 \in DOMAIN v.data => v.data[1] # Loose
      <4>1. CASE v.kind = "none"
        BY <4>1 DEF Shaped
      <4>2. CASE v.kind = "bytes"
        BY <2>1, <4>2, BytesShape DEF Parting
      <4> QED
        BY <1>1, <4>1, <4>2, Kinds
    <3> QED
      BY <2>1, <3>1, CountedAlike, IncrDone
  <2>2. CASE c.name = "get"
    BY <2>2, GetDone DEF Alike, SameError
  <2>3. CASE c.name = "set_if_absent"
    <3>1. CASE v.data = <<>>
      BY <2>3, <3>1, SetIfAbsentDone DEF Alike, SameError
    <3>2. CASE v.data # <<>>
      BY <2>3, <3>2, SetIfAbsentDone DEF Alike, SameError
    <3> QED
      BY <3>1, <3>2
  <2> QED
    BY <1>1, <2>1, <2>2, <2>3, CallNames
<1>2. CASE c \in ListCall \cup SetCall
  BY <1>2, DoneByKind DEF Alike, SameError
<1>3. CASE c \in HashCall
  <2>1. c.name = "hash_incr" => ~ (c.x \in DOMAIN v.data /\ v.data[c.x] = Loose)
    <3>1. CASE v.kind = "none"
      BY <3>1 DEF Shaped
    <3>2. CASE v.kind = "hash"
      BY <3>2 DEF Parting, Optional
    <3> QED
      BY <1>3, <3>1, <3>2, Kinds
  <2> QED
    BY <1>3, <2>1, HashCounts, DoneByKind
<1> QED
  BY <1>1, <1>2, <1>3 DEF TypedCall

(* Absent parts from nothing, and has the shape.                           *)
LEMMA AbsentPlain ==
  /\ Shaped(Absent)
  /\ \A c \in TypedCall : ~ Parting(Absent, c)
BY DEF Shaped, Absent, Parting, Emptied, Bytes

(* The same call, on twins.                                                *)
LEMMA CallKeepsTwins ==
  ASSUME NEW c \in TypedCall, NEW m, NEW v, Twin(m, v), Shaped(v), ~ Parting(m, c)
  PROVE  Twin(Memory(m, c).item, Valkey(v, c).item)
<1>1. Needs(c) # "none" /\ (c.name = "set_if_absent" => Needs(c) = "bytes")
  BY Kinds, CallNames DEF TypedCall
<1>2. CASE m = v /\ v.kind \notin {"none", Needs(c)}
  <2>1. c.name # "set_if_absent"
    BY <1>1, <1>2 DEF Parting
  <2> QED
    BY <1>2, <2>1 DEF Memory, Valkey, Answer, Twin
<1>3. CASE m = v /\ v.kind \in {"none", Needs(c)} /\ c.name = "set_if_absent"
  <2>1. CASE v = Absent
    <3>1. Done(MemoryCounts, c, v.data) = Gives(<<c.x>>, Flag(TRUE))
      BY <1>3, <2>1, SetIfAbsentDone DEF Absent
    <3>2. Memory(m, c).item = [kind |-> "bytes", data |-> <<c.x>>]
      BY <1>1, <1>3, <3>1 DEF Memory, Answer, Gives
    <3> QED
      BY <1>3, <2>1, <3>2 DEF Valkey, Answer, Bytes, Twin
  <2>2. CASE v # Absent
    <3>1. v.kind = "bytes" /\ v.data # <<>>
      BY <1>1, <1>3, <2>2 DEF Shaped, Absent
    <3>2. Done(MemoryCounts, c, v.data) = Gives(v.data, Flag(FALSE))
      BY <1>3, <3>1, SetIfAbsentDone
    <3>3. Memory(m, c).item = [kind |-> "bytes", data |-> v.data]
      BY <1>1, <1>3, <3>1, <3>2 DEF Memory, Answer, Gives
    <3> QED
      BY <1>3, <2>2, <3>1, <3>3 DEF Valkey, Answer, Shaped, Twin
  <2> QED
    BY <2>1, <2>2
<1>4. CASE m = v /\ v.kind \in {"none", Needs(c)} /\ c.name = "list_range"
  <2>1. Memory(m, c).item = IF v.data = <<>> /\ v = Absent THEN Absent
                            ELSE [kind |-> Needs(c), data |-> v.data]
    BY <1>4 DEF Memory, Answer, Gives
  <2>2. Valkey(v, c).item = IF v.data = <<>> THEN Absent ELSE [kind |-> Needs(c), data |-> v.data]
    BY <1>4 DEF Valkey, Answer, Gives
  <2> QED
    BY <1>1, <2>1, <2>2 DEF Twin, Emptied, Absent
<1>5. CASE m = v /\ v.kind \in {"none", Needs(c)} /\ c.name \notin {"set_if_absent", "list_range"}
  <2> DEFINE d == Done(MemoryCounts, c, v.data)
  <2>1. d.data = Done(ValkeyCounts, c, v.data).data
    BY <1>5, DoneAlike DEF Alike
  <2>2. Memory(m, c).item = IF d.data = <<>> /\ v = Absent THEN Absent
                            ELSE [kind |-> Needs(c), data |-> d.data]
    BY <1>5 DEF Memory, Answer
  <2>3. Valkey(v, c).item = IF d.data = <<>> THEN Absent ELSE [kind |-> Needs(c), data |-> d.data]
    BY <1>5, <2>1 DEF Valkey, Answer
  <2> QED
    BY <1>1, <2>2, <2>3 DEF Twin, Emptied, Absent
<1>6. CASE Emptied(m) /\ v = Absent
  <2>1. m.kind = Needs(c) /\ m.data = <<>> /\ m # Absent
    BY <1>6 DEF Parting, Emptied
  <2>2. CASE c.name = "set_if_absent"
    <3>1. Done(MemoryCounts, c, m.data) = Gives(<<c.x>>, Flag(TRUE))
      BY <2>1, <2>2, SetIfAbsentDone
    <3>2. Memory(m, c).item = [kind |-> "bytes", data |-> <<c.x>>]
      BY <1>1, <2>1, <2>2, <3>1 DEF Memory, Answer, Gives
    <3> QED
      BY <1>6, <2>2, <3>2 DEF Valkey, Answer, Bytes, Twin
  <2>3. CASE c.name = "list_range"
    BY <1>1, <1>6, <2>1, <2>3 DEF Memory, Valkey, Answer, Gives, Twin, Emptied, Absent
  <2>4. CASE c.name \notin {"set_if_absent", "list_range"}
    <3> DEFINE d == Done(MemoryCounts, c, <<>>)
    <3>1. d.data = Done(ValkeyCounts, c, <<>>).data
      BY AbsentPlain, DoneAlike, Kinds DEF Absent, Alike
    <3>2. Memory(m, c).item = [kind |-> Needs(c), data |-> d.data]
      BY <2>1, <2>4 DEF Memory, Answer
    <3>3. Valkey(v, c).item = IF d.data = <<>> THEN Absent ELSE [kind |-> Needs(c), data |-> d.data]
      BY <1>6, <2>4, <3>1 DEF Valkey, Answer, Absent
    <3> QED
      BY <1>1, <3>2, <3>3 DEF Twin, Emptied, Absent
  <2> QED
    BY <2>2, <2>3, <2>4
<1> QED
  BY <1>2, <1>3, <1>4, <1>5, <1>6 DEF Twin

(* What a call leaves of bytes is again one value.                         *)
LEMMA BytesDone ==
  ASSUME NEW c \in BytesCall, c.name # "set_if_absent", NEW v, Shaped(v),
         v.kind \in {"none", "bytes"}, NEW d, d = Done(ValkeyCounts, c, v.data).data,
         d # <<>>
  PROVE  d = <<d[1]>>
<1>1. v.data # <<>> => v.data = <<v.data[1]>>
  BY DEF Shaped
<1>2. CASE c.name = "get"
  BY <1>1, <1>2, GetDone DEF TypedCall, Gives
<1>3. CASE c.name = "incr"
  <2>1. d = Added(ValkeyCounts, v.data, 1, c.x).data
    BY <1>3, IncrDone DEF TypedCall
  <2>2. d = v.data \/ \E n : d = Put(v.data, 1, n)
    BY <2>1 DEF Added, Gives, Fails
  <2>3. DOMAIN v.data \cup {1} = {1}
    BY <1>1
  <2>4. \A n : Put(v.data, 1, n) = <<n>>
    BY <2>3 DEF Put
  <2> QED
    BY <1>1, <2>2, <2>4
<1> QED
  BY <1>2, <1>3, CallNames

(* What a call leaves of a list is again a list of values.                 *)
LEMMA ListDone ==
  ASSUME NEW c \in ListCall, c.name # "list_range", NEW data \in Seq(Value)
  PROVE  Done(ValkeyCounts, c, data).data \in Seq(Value)
<1>1. Done(ValkeyCounts, c, data) = ListOp(c, data)
  BY DoneByKind DEF TypedCall
<1>2. CASE c.name = "list_push"
  <2>1. c.x \in Value
    BY <1>2, CallNames
  <2>2. ListOp(c, data).data = Append(data, c.x)
    BY <1>2, ListOps DEF Gives
  <2> QED
    BY <1>1, <2>1, <2>2, AppendProperties
<1>3. CASE c.name = "list_pop"
  <2>1. ListOp(c, data) = IF data = <<>> THEN Gives(data, <<>>)
                          ELSE Gives(Tail(data), <<Head(data)>>)
    BY <1>3, ListOps
  <2>2. CASE data = <<>>
    BY <1>1, <2>1, <2>2 DEF Gives
  <2>3. CASE data # <<>>
    BY <1>1, <2>1, <2>3, HeadTailProperties DEF Gives
  <2> QED
    BY <2>2, <2>3
<1>4. CASE c.name = "list_length"
  BY <1>1, <1>4, ListOps DEF Gives
<1> QED
  BY <1>2, <1>3, <1>4, CallNames

(* Whatever is called, Valkey goes on holding items of their shape.        *)
LEMMA CallKeepsShape ==
  ASSUME NEW c \in TypedCall, NEW v, Shaped(v)
  PROVE  Shaped(Valkey(v, c).item)
<1>1. CASE c.name = "set_if_absent"
  BY <1>1 DEF Valkey, Answer, Bytes, Shaped
<1>2. CASE c.name # "set_if_absent" /\ v.kind \notin {"none", Needs(c)}
  BY <1>2 DEF Valkey, Answer
<1>3. CASE c.name = "list_range" /\ v.kind \in {"none", Needs(c)}
  <2>1. Needs(c) = "list"
    BY <1>3, CallNames, Kinds DEF TypedCall
  <2>2. Valkey(v, c).item = IF v.data = <<>> THEN Absent ELSE [kind |-> "list", data |-> v.data]
    BY <1>3, <2>1 DEF Valkey, Answer, Gives
  <2>3. CASE v.data = <<>>
    BY <2>2, <2>3, AbsentPlain
  <2>4. CASE v.data # <<>>
    <3>1. v.data \in Seq(Value)
      BY <1>3, <2>1, <2>4 DEF Shaped
    <3>2. Valkey(v, c).item = [kind |-> "list", data |-> v.data]
      BY <2>2, <2>4
    <3> QED
      BY <2>4, <3>1, <3>2 DEF Shaped
  <2> QED
    BY <2>3, <2>4
<1>4. CASE c.name \notin {"set_if_absent", "list_range"} /\ v.kind \in {"none", Needs(c)}
  <2> DEFINE d == Done(ValkeyCounts, c, v.data).data
  <2>1. Valkey(v, c).item = IF d = <<>> THEN Absent ELSE [kind |-> Needs(c), data |-> d]
    BY <1>4 DEF Valkey, Answer
  <2>2. Needs(c) \in {"bytes", "list", "hash", "set"}
    BY Kinds
  <2>3. Needs(c) = "bytes" /\ d # <<>> => d = <<d[1]>>
    <3> SUFFICES ASSUME Needs(c) = "bytes", d # <<>> PROVE d = <<d[1]>>
      OBVIOUS
    <3>1. c \in BytesCall
      BY Kinds DEF TypedCall
    <3> QED
      BY <1>4, <3>1, BytesDone
  <2>4. Needs(c) = "list" => d \in Seq(Value)
    <3> SUFFICES ASSUME Needs(c) = "list" PROVE d \in Seq(Value)
      OBVIOUS
    <3>1. c \in ListCall
      BY Kinds DEF TypedCall
    <3>2. v.data \in Seq(Value)
      BY <1>4, EmptySeq DEF Shaped
    <3> QED
      BY <1>4, <3>1, <3>2, ListDone
  <2>5. CASE d = <<>>
    BY <2>1, <2>5, AbsentPlain
  <2>6. CASE d # <<>>
    <3>1. Valkey(v, c).item = [kind |-> Needs(c), data |-> d]
      BY <2>1, <2>6
    <3> HIDE DEF d
    <3> QED
      BY <2>2, <2>3, <2>4, <2>6, <3>1 DEF Shaped
  <2> QED
    BY <2>5, <2>6
<1> QED
  BY <1>1, <1>2, <1>3, <1>4

-----------------------------------------------------------------------------
(* The invariant: what Valkey holds has its shape, and the map holds twins. *)

(* A value that was just set is the same in both.                          *)
LEMMA BytesTwin == ASSUME NEW w PROVE Shaped(Bytes(w)) /\ Twin(Bytes(w), Bytes(w))
BY DEF Shaped, Bytes, Twin

LEMMA InitInv == Init => IInv
BY AbsentPlain DEF Init, IInv, BackendsAgree, Twin

(* One lemma per kind of step.                                             *)
LEMMA TypedInv ==
  ASSUME IInv, NEW k \in Key, NEW c \in TypedCall, Typed(k, c)
  PROVE  IInv'
<1>1. mem' = [j \in Key |-> mem'[j]] /\ val' = [j \in Key |-> val'[j]]
  BY DEF IInv, Typed
<1>2. /\ mem'[k] = Memory(mem[k], c).item /\ val'[k] = Valkey(val[k], c).item
      /\ \A j \in Key \ {k} : mem'[j] = mem[j] /\ val'[j] = val[j]
  BY DEF IInv, Typed
<1>3. \A j \in Key : Shaped(val'[j])
  BY <1>2, CallKeepsShape DEF IInv
<1>4. BackendsAgree'
  <2> SUFFICES ASSUME NEW j \in Key, j \notin apart' PROVE Twin(mem'[j], val'[j])
    BY DEF BackendsAgree
  <2>1. j \notin apart /\ Twin(mem[j], val[j])
    BY DEF Typed, IInv, BackendsAgree
  <2>2. CASE j = k
    <3>1. ~ Parting(mem[k], c)
      BY <2>2 DEF Typed
    <3> QED
      BY <1>2, <2>1, <2>2, <3>1, CallKeepsTwins DEF IInv
  <2>3. CASE j # k
    BY <1>2, <2>1, <2>3
  <2> QED
    BY <2>2, <2>3
<1> QED
  BY <1>1, <1>3, <1>4 DEF IInv

LEMMA OverwriteInv ==
  ASSUME IInv, NEW k \in Key, NEW item, Shaped(item), Overwrite(k, item)
  PROVE  IInv'
<1>1. Twin(item, item)
  BY DEF Twin
<1>2. /\ mem'[k] = item /\ val'[k] = item
      /\ \A j \in Key \ {k} : mem'[j] = mem[j] /\ val'[j] = val[j]
      /\ mem' = [j \in Key |-> mem'[j]] /\ val' = [j \in Key |-> val'[j]]
  BY DEF IInv, Overwrite
<1>3. apart' = apart \ {k}
  BY DEF Overwrite
<1> QED
  BY <1>1, <1>2, <1>3 DEF IInv, BackendsAgree

LEMMA DeleteAllInv == IInv /\ DeleteAll => IInv'
<1> SUFFICES ASSUME IInv, DeleteAll PROVE IInv'
  OBVIOUS
<1>1. mem' = [k \in Key |-> Absent] /\ val' = [k \in Key |-> Absent]
  BY DEF DeleteAll, Listed, IInv
<1> QED
  BY <1>1, AbsentPlain DEF IInv, BackendsAgree, Twin

LEMMA StepInv == IInv /\ [Next]_vars => IInv'
<1> SUFFICES ASSUME IInv, [Next]_vars PROVE IInv'
  OBVIOUS
<1>1. ASSUME NEW k \in Key, CallBasic(k) \/ CallList(k) \/ CallHash(k) \/ CallSet(k)
      PROVE  IInv'
  <2>1. PICK c \in TypedCall : Typed(k, c)
    BY <1>1 DEF CallBasic, CallList, CallHash, CallSet, TypedCall
  <2> QED
    BY <2>1, TypedInv
<1>2. ASSUME NEW k \in Key, Set(k) PROVE IInv'
  BY <1>2, BytesTwin, OverwriteInv DEF Set
<1>3. ASSUME NEW k \in Key, Delete(k) PROVE IInv'
  BY <1>3, AbsentPlain, OverwriteInv DEF Delete
<1>4. CASE DeleteAll
  BY <1>4, DeleteAllInv
<1>5. CASE UNCHANGED vars
  BY <1>5 DEF vars, IInv, BackendsAgree
<1> QED
  BY <1>1, <1>2, <1>3, <1>4, <1>5 DEF Next

(* After any calls on any keys the map and Valkey hold the same, on every  *)
(* key where no call was made that they are known to answer differently    *)
(* (store/memory.rs, store/valkey.rs).                                     *)
THEOREM StoresAgree == Spec => []BackendsAgree
<1>1. IInv => BackendsAgree
  BY DEF IInv
<1> QED
  BY <1>1, InitInv, StepInv, PTL DEF Spec

-----------------------------------------------------------------------------
(* Answers.                                                                *)

(* A range that starts in the list and does not stop before it.            *)
LEMMA RangesAgree ==
  ASSUME NEW data \in Seq(Value), NEW x \in Index, NEW y \in Index,
         data # <<>> => x < Len(data) /\ y >= -Len(data)
  PROVE  MemoryRange(data, x, y) = ValkeyRange(data, x, y)
<1> DEFINE n == Len(data)
<1>1. n \in Nat /\ x \in Int /\ y \in Int
  BY StoreAssumption, LenProperties DEF Index
<1>2. CASE data = <<>>
  <2>1. MemoryRange(data, x, y) = <<>>
    BY <1>2 DEF MemoryRange
  <2>2. n = 0
    BY <1>2
  <2> DEFINE at(i) == IF i < 0 THEN n + i ELSE i
             low == (IF at(x) < 0 THEN 0 ELSE at(x)) + 1
             high == IF at(y) >= n THEN n ELSE at(y) + 1
  <2>3. low \in Int /\ high \in Int /\ high < low
    BY <1>1, <2>2
  <2>4. ValkeyRange(data, x, y) = SubSeq(data, low, high)
    BY DEF ValkeyRange
  <2> HIDE DEF low, high
  <2> QED
    BY <1>2, <2>1, <2>3, <2>4, EmptySeq, SubSeqProperties
<1>3. CASE data # <<>>
  <2> DEFINE within(i) == IF i >= 0 THEN (IF i < n THEN i ELSE n - 1)
                          ELSE IF n + i > 0 THEN n + i ELSE 0
             at(i) == IF i < 0 THEN n + i ELSE i
             low == (IF at(x) < 0 THEN 0 ELSE at(x)) + 1
             high == IF at(y) >= n THEN n ELSE at(y) + 1
             from == within(x) + 1
             to == within(y) + 1
  <2>1. n > 0 /\ n # 0
    BY <1>1, <1>3, EmptySeq
  <2>2. MemoryRange(data, x, y) = SubSeq(data, from, to)
    BY <2>1 DEF MemoryRange
  <2>3. ValkeyRange(data, x, y) = SubSeq(data, low, high)
    BY DEF ValkeyRange
  <2>4. from = low /\ to = high
    BY <1>1, <1>3, <2>1
  <2> HIDE DEF from, to, low, high
  <2> QED
    BY <2>2, <2>3, <2>4
<1> QED
  BY <1>2, <1>3

(* A call on twins is answered alike, unless it is one of Parting.         *)
LEMMA TwinsAnswerAlike ==
  ASSUME NEW c \in TypedCall, NEW m, NEW v, Twin(m, v), Shaped(v), ~ Parting(m, c)
  PROVE  /\ SameError(Memory(m, c).err, Valkey(v, c).err)
         /\ Memory(m, c).out = Valkey(v, c).out
<1>1. Needs(c) # "none" /\ (c.name = "set_if_absent" => Needs(c) = "bytes")
  BY Kinds, CallNames DEF TypedCall
<1>2. CASE v.kind \notin {"none", Needs(c)}
  <2>1. m = v
    BY <1>2 DEF Twin, Absent
  <2>2. c.name # "set_if_absent"
    BY <1>1, <1>2, <2>1 DEF Parting
  <2> QED
    BY <1>2, <2>1, <2>2 DEF Memory, Valkey, Answer, SameError
<1>3. CASE v.kind \in {"none", Needs(c)}
  <2>1. /\ m.kind \in {"none", Needs(c)} /\ m.data = v.data
        /\ ~ Parting(v, c)
    <3>1. CASE m = v
      BY <1>3, <3>1
    <3>2. CASE Emptied(m) /\ v = Absent
      BY <3>2, AbsentPlain DEF Parting, Emptied, Absent
    <3> QED
      BY <3>1, <3>2 DEF Twin
  <2>2. c.name # "list_range" =>
          /\ Memory(m, c).err = Done(MemoryCounts, c, m.data).err
          /\ Memory(m, c).out = Done(MemoryCounts, c, m.data).out
    BY <2>1 DEF Memory, Answer
  <2>3. CASE c.name = "set_if_absent"
    <3>1. CASE v.data = <<>>
      <4>1. v = Absent
        BY <3>1 DEF Shaped, Absent
      <4>2. Done(MemoryCounts, c, m.data) = Gives(<<c.x>>, Flag(TRUE))
        BY <2>1, <2>3, <3>1, SetIfAbsentDone
      <4>3. Memory(m, c).err = "none" /\ Memory(m, c).out = Flag(TRUE)
        BY <2>2, <2>3, <4>2 DEF Gives, Flag
      <4> QED
        BY <2>3, <4>1, <4>3 DEF Valkey, Answer, Gives, Flag, SameError
    <3>2. CASE v.data # <<>>
      <4>1. v # Absent
        BY <3>2 DEF Absent
      <4>2. Done(MemoryCounts, c, m.data) = Gives(m.data, Flag(FALSE))
        BY <2>1, <2>3, <3>2, SetIfAbsentDone
      <4>3. Memory(m, c).err = "none" /\ Memory(m, c).out = Flag(FALSE)
        BY <2>2, <2>3, <4>2 DEF Gives, Flag
      <4> QED
        BY <2>3, <4>1, <4>3 DEF Valkey, Answer, Gives, Flag, SameError
    <3> QED
      BY <3>1, <3>2
  <2>4. CASE c.name = "list_range"
    <3>1. c.x \in Index /\ c.y \in Index /\ Needs(c) = "list"
      BY <2>4, CallNames, Kinds DEF TypedCall
    <3>2. v.data \in Seq(Value) /\ (v.data # <<>> => v.kind = "list")
      BY <1>3, <3>1, EmptySeq DEF Shaped
    <3>3. v.data # <<>> => c.x < Len(v.data) /\ c.y >= -Len(v.data)
      <4>1. Len(v.data) \in Nat /\ c.x \in Int /\ c.y \in Int
        BY <3>1, <3>2, StoreAssumption, LenProperties DEF Index
      <4> QED
        BY <2>1, <2>4, <3>2, <4>1 DEF Parting
    <3>4. MemoryRange(v.data, c.x, c.y) = ValkeyRange(v.data, c.x, c.y)
      BY <3>1, <3>2, <3>3, RangesAgree
    <3> QED
      BY <1>3, <2>1, <2>4, <3>4 DEF Memory, Valkey, Answer, Gives, SameError
  <2>5. CASE c.name \notin {"set_if_absent", "list_range"}
    <3>1. Alike(Done(MemoryCounts, c, m.data), Done(ValkeyCounts, c, v.data))
      BY <1>3, <2>1, DoneAlike
    <3> QED
      BY <1>3, <2>1, <2>5, <3>1 DEF Memory, Valkey, Answer, Alike
  <2> QED
    BY <2>3, <2>4, <2>5
<1> QED
  BY <1>2, <1>3

(* A handler that was tested against the map is answered the same by       *)
(* Valkey, on every key without a call of Parting and until the next one:  *)
(* the same value, or an error of the same kind, which for a counter out   *)
(* of range bears another name on each (memory.rs:99, valkey.rs:38-59).    *)
THEOREM StoresAnswerAlike == Spec => []AnsweredAlike
<1>1. IInv => AnsweredAlike
  BY TwinsAnswerAlike DEF IInv, BackendsAgree, AnsweredAlike
<1> QED
  BY <1>1, InitInv, StepInv, PTL DEF Spec
=============================================================================
