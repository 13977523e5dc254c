---------------------------- MODULE HandlerStore ----------------------------
(* The buckets that handlers and the host itself work on, over the two     *)
(* backends of Storage: the in-memory map and Valkey. Both are driven with *)
(* the same calls, side by side, and their answers and contents compared.  *)
(*                                                                         *)
(* An item is a kind and its data, a function: <<v>> for bytes, a sequence *)
(* for a list, field -> value for a hash, member -> 1 for a set. What the  *)
(* two backends do alike is written once; what they do differently has a   *)
(* definition for each. Expiry is left out: the map never expires a key.   *)
EXTENDS Integers, Sequences, FiniteSets, Functions

CONSTANTS
  Key,      \* the keys of one bucket
  I64Max,   \* i64::MAX
  Text,     \* a value that is no number
  Loose,    \* a number as only Rust's parser takes it: "+1"
  Field,    \* fields of hashes and members of sets
  MaxList   \* bound: the length of a list

ASSUME StoreAssumption ==
  /\ I64Max \in Nat \ {0} /\ MaxList \in Nat /\ Field \subseteq Nat
  /\ Text \notin Int /\ Loose \notin Int /\ Text # Loose

VARIABLES
  mem,      \* Bucket::InMemory
  val,      \* Bucket::Valkey
  apart     \* keys on which a call was made that the backends answer differently

vars == <<mem, val, apart>>

Value == 1..I64Max \cup {Text, Loose}
By == {1, I64Max}
Index == -(MaxList + 1)..(MaxList + 1)

Absent == [kind |-> "none", data |-> <<>>]

Bytes(v) == [kind |-> "bytes", data |-> <<v>>]

\* A call: its name and up to two arguments.
Call(names, xs, ys) == [name : names, x : xs, y : ys]

BytesCall == Call({"get"}, {0}, {0}) \cup Call({"incr"}, By, {0})
               \cup Call({"set_if_absent"}, Value, {0})
ListCall == Call({"list_push"}, Value, {0}) \cup Call({"list_pop", "list_length"}, {0}, {0})
              \cup Call({"list_range"}, Index, Index)
HashCall == Call({"hash_get", "hash_delete"}, Field, {0}) \cup Call({"hash_set"}, Field, Value)
              \cup Call({"hash_keys", "hash_get_all"}, {0}, {0}) \cup Call({"hash_incr"}, Field, By)
SetCall == Call({"set_add", "set_remove", "set_contains"}, Field, {0})
             \cup Call({"set_members"}, {0}, {0})
TypedCall == BytesCall \cup ListCall \cup HashCall \cup SetCall

Needs(c) ==
  CASE c \in BytesCall -> "bytes" [] c \in ListCall -> "list"
    [] c \in HashCall -> "hash" [] c \in SetCall -> "set"

-----------------------------------------------------------------------------
(* What a call does to data of the right kind: the data after it, and its  *)
(* answer, an error or a function of values.                               *)

Gives(data, out) == [data |-> data, err |-> "none", out |-> out]
Fails(data, err) == [data |-> data, err |-> err, out |-> <<>>]

Optional(data, i) == IF i \in DOMAIN data THEN <<data[i]>> ELSE <<>>
Flag(b) == IF b THEN <<1>> ELSE <<0>>
Put(data, i, v) == [j \in DOMAIN data \cup {i} |-> IF j = i THEN v ELSE data[j]]
Less(data, i) == Restrict(data, DOMAIN data \ {i})
Names(data) == [i \in DOMAIN data |-> 1]

\* How a backend counts: the numbers it reads, i64::from_str against Valkey's
\* strict string2ll, and the error of a sum that is out of range. Valkey's is
\* told by its message, and only "not an integer" is looked for in it.
MemoryCounts == [parses |-> 1..I64Max \cup {Loose}, over |-> "IncrOverflow"]
ValkeyCounts == [parses |-> 1..I64Max, over |-> "Backend"]
Number(v) == IF v = Loose THEN 1 ELSE v

\* INCRBY and HINCRBY: an absent counter starts at by.
Added(counts, data, i, by) ==
  IF i \notin DOMAIN data THEN Gives(Put(data, i, by), <<by>>)
  ELSE IF data[i] \notin counts.parses THEN Fails(data, "NotInteger")
  ELSE IF Number(data[i]) + by > I64Max THEN Fails(data, counts.over)
  ELSE LET n == Number(data[i]) + by IN Gives(Put(data, i, n), <<n>>)

BasicOp(counts, c, data) ==
  CASE c.name = "get" -> Gives(data, data)
    [] c.name = "incr" -> Added(counts, data, 1, c.x)
    [] c.name = "set_if_absent" -> IF data = <<>> THEN Gives(<<c.x>>, Flag(TRUE))
                                   ELSE Gives(data, Flag(FALSE))

\* Wrong: the range ends before its stop.
SlipMemoryRange(data, start, stop) ==
  LET n == Len(data)
      within(i) == IF i >= 0 THEN (IF i < n THEN i ELSE n - 1)
                   ELSE IF n + i > 0 THEN n + i ELSE 0
  IN  IF n = 0 THEN <<>> ELSE SubSeq(data, within(start) + 1, within(stop))

\* An index that is out of the list is moved to its nearest element.
MemoryRange(data, start, stop) ==
  LET n == Len(data)
      within(i) == IF i >= 0 THEN (IF i < n THEN i ELSE n - 1)
                   ELSE IF n + i > 0 THEN n + i ELSE 0
  IN  IF n = 0 THEN <<>> ELSE SubSeq(data, within(start) + 1, within(stop) + 1)

\* LRANGE: what lies in the list of [start, stop].
ValkeyRange(data, start, stop) ==
  LET n == Len(data)
      at(i) == IF i < 0 THEN n + i ELSE i
  IN  SubSeq(data, (IF at(start) < 0 THEN 0 ELSE at(start)) + 1,
             IF at(stop) >= n THEN n ELSE at(stop) + 1)

ListOp(c, data) ==
  CASE c.name = "list_push" -> Gives(Append(data, c.x), <<>>)
    [] c.name = "list_pop" -> IF data = <<>> THEN Gives(data, <<>>)
                              ELSE Gives(Tail(data), <<Head(data)>>)
    [] c.name = "list_length" -> Gives(data, <<Len(data)>>)

HashOp(counts, c, data) ==
  CASE c.name = "hash_get" -> Gives(data, Optional(data, c.x))
    [] c.name = "hash_set" -> Gives(Put(data, c.x, c.y), <<>>)
    [] c.name = "hash_delete" -> Gives(Less(data, c.x), <<>>)
    [] c.name = "hash_keys" -> Gives(data, Names(data))
    [] c.name = "hash_get_all" -> Gives(data, data)
    [] c.name = "hash_incr" -> Added(counts, data, c.x, c.y)

SetOp(c, data) ==
  CASE c.name = "set_add" -> Gives(Put(data, c.x, 1), <<>>)
    [] c.name = "set_remove" -> Gives(Less(data, c.x), <<>>)
    [] c.name = "set_contains" -> Gives(data, Flag(c.x \in DOMAIN data))
    [] c.name = "set_members" -> Gives(data, data)

Done(counts, c, data) ==
  CASE c \in BytesCall -> BasicOp(counts, c, data)
    [] c \in ListCall -> ListOp(c, data)
    [] c \in HashCall -> HashOp(counts, c, data)
    [] c \in SetCall -> SetOp(c, data)

-----------------------------------------------------------------------------
(* The two backends.                                                       *)

Answer(item, r) == [item |-> item, err |-> r.err, out |-> r.out]

\* Wrong: the container is put in place before the kind is looked at.
SlipMemory(item, c) ==
  IF item.kind \notin {"none", Needs(c)}
  THEN Answer([kind |-> Needs(c), data |-> <<>>], Fails(<<>>, "WrongType"))
  ELSE LET r == IF c.name = "list_range" THEN Gives(item.data, MemoryRange(item.data, c.x, c.y))
                ELSE Done(MemoryCounts, c, item.data)
       IN  Answer(IF r.data = <<>> /\ item = Absent THEN Absent
                  ELSE [kind |-> Needs(c), data |-> r.data], r)

\* The map types a key by its value, an emptied container included. Reading
\* an absent key, or deleting from it, makes no key.
Memory(item, c) ==
  IF item.kind \notin {"none", Needs(c)} THEN Answer(item, Fails(<<>>, "WrongType"))
  ELSE LET r == IF c.name = "list_range" THEN Gives(item.data, MemoryRange(item.data, c.x, c.y))
                ELSE Done(MemoryCounts, c, item.data)
       IN  Answer(IF r.data = <<>> /\ item = Absent THEN Absent
                  ELSE [kind |-> Needs(c), data |-> r.data], r)

\* Valkey has no empty containers. SET NX asks only whether the key exists.
Valkey(item, c) ==
  IF c.name = "set_if_absent"
  THEN Answer(IF item = Absent THEN Bytes(c.x) ELSE item,
              Gives(<<>>, Flag(item = Absent)))
  ELSE IF item.kind \notin {"none", Needs(c)} THEN Answer(item, Fails(<<>>, "WrongType"))
  ELSE LET r == IF c.name = "list_range" THEN Gives(item.data, ValkeyRange(item.data, c.x, c.y))
                ELSE Done(ValkeyCounts, c, item.data)
       IN  Answer(IF r.data = <<>> THEN Absent ELSE [kind |-> Needs(c), data |-> r.data], r)

-----------------------------------------------------------------------------
(* Where the backends are known to part.                                   *)

Emptied(item) == item # Absent /\ item.data = <<>>

Twin(m, v) == m = v \/ (Emptied(m) /\ v = Absent)

Parting(item, c) ==
  \/ Emptied(item) /\ Needs(c) # item.kind
  \/ c.name = "set_if_absent" /\ item.kind \notin {"none", "bytes"}
  \/ c.name = "incr" /\ item = Bytes(Loose)
  \/ c.name = "hash_incr" /\ item.kind = "hash" /\ Optional(item.data, c.x) = <<Loose>>
  \/ /\ c.name = "list_range" /\ item.kind = "list"
     /\ c.x >= Len(item.data) \/ c.y < -Len(item.data)

Init ==
  /\ mem = [k \in Key |-> Absent]
  /\ val = [k \in Key |-> Absent]
  /\ apart = {}

Bounded(k, c) ==
  c.name = "list_push" =>
    \A item \in {mem[k], val[k]} : item.kind = "list" => Len(item.data) < MaxList

\* Bucket::get, list_push, ...: one command on the prefixed key. A handler
\* traps on an error.
Typed(k, c) ==
  /\ Bounded(k, c)
  /\ mem' = [mem EXCEPT ![k] = Memory(@, c).item]
  /\ val' = [val EXCEPT ![k] = Valkey(@, c).item]
  /\ apart' = IF Parting(mem[k], c) THEN apart \cup {k} ELSE apart

CallBasic(k) == \E c \in BytesCall : Typed(k, c)
CallList(k) == \E c \in ListCall : Typed(k, c)
CallHash(k) == \E c \in HashCall : Typed(k, c)
CallSet(k) == \E c \in SetCall : Typed(k, c)

\* Set and delete ask nothing of what the key held.
Overwrite(k, item) ==
  /\ mem' = [mem EXCEPT ![k] = item]
  /\ val' = [val EXCEPT ![k] = item]
  /\ apart' = apart \ {k}

Set(k) == \E v \in Value : Overwrite(k, Bytes(v))
Delete(k) == Overwrite(k, Absent)

\* list_keys, then a delete of each: what one backend lists.
Listed(store) == {k \in Key : store[k] # Absent}
DeleteAll ==
  /\ mem' = [k \in Key |-> IF k \in Listed(mem) THEN Absent ELSE mem[k]]
  /\ val' = [k \in Key |-> IF k \in Listed(val) THEN Absent ELSE val[k]]
  /\ apart' = {}

Next ==
  \/ \E k \in Key : CallBasic(k) \/ CallList(k) \/ CallHash(k) \/ CallSet(k) \/ Set(k) \/ Delete(k)
  \/ DeleteAll

Spec == Init /\ [][Next]_vars

-----------------------------------------------------------------------------
\* The tests run every case on both backends. After any calls the two hold
\* the same, but for a container that was emptied, on every key where no
\* call was made that they are known to answer differently since the key was
\* last set or deleted.
BackendsAgree == \A k \in Key \ apart : Twin(mem[k], val[k])

\* The errors of the two name the same failure, each in its own way: a sum
\* out of range is StoreError::IncrOverflow of the map, StoreError::Backend of
\* Valkey.
SameError(m, v) == m = v \/ (m = MemoryCounts.over /\ v = ValkeyCounts.over)

\* And a call on such a key is answered alike by both, a value by the same
\* value and an error by an error that names the same failure: a handler
\* tested against the map sees the same on Valkey, but for the calls of
\* Parting.
AnsweredAlike ==
  \A k \in Key \ apart : \A c \in TypedCall :
    \/ Parting(mem[k], c)
    \/ LET m == Memory(mem[k], c)
           v == Valkey(val[k], c)
       IN  SameError(m.err, v.err) /\ m.out = v.out
=============================================================================
