-------------------------- MODULE RouteMatchProofs --------------------------
(* Whatever the patterns, the paths and the size of the table are, the     *)
(* conflict check keeps matching unambiguous.                              *)
EXTENDS RouteMatch, SequenceTheorems, WellFoundedInduction, TLAPS

(* The tables the conflict check lets through: no two routes conflict.     *)
ConflictFree ==
  \A i, j \in Indexes : i # j => ~RoutesConflict(table[i], table[j])

IInv == TypeOK /\ ConflictFree

(* Two routes that both accept a request have overlapping methods.         *)
LEMMA MethodsOverlap ==
  ASSUME NEW s, NEW t, NEW m, MethodsMatch(s, m), MethodsMatch(t, m)
  PROVE  Overlaps(s, t)
BY DEF MethodsMatch, Overlaps

(* A pattern's prefix is no longer than the pattern.                       *)
LEMMA PrefixLength ==
  ASSUME NEW p \in Patterns
  PROVE  /\ Len(p) \in Nat /\ Prefix(p) \in Nat
         /\ HasTail(p) => Len(p) = Prefix(p) + 1
         /\ ~HasTail(p) => Len(p) = Prefix(p)
         /\ \A i \in 1 .. Prefix(p) : p[i].kind # "tail"
<1>1. p \in Seq(Segment) /\ Parsed(p)
  BY MatchAssumption
<1>2. Len(p) \in Nat /\ (p # <<>> => Len(p) > 0)
  BY <1>1, EmptySeq, LenProperties
<1>3. CASE HasTail(p)
  BY <1>1, <1>2, <1>3 DEF HasTail, Prefix, Parsed
<1>4. CASE ~HasTail(p)
  <2>1. \A i \in 1 .. Len(p) : p[i].kind # "tail"
    BY <1>1, <1>2, <1>4 DEF HasTail, Parsed
  <2> QED
    BY <1>2, <1>4, <2>1 DEF Prefix
<1> QED
  BY <1>3, <1>4

(* The heart of ADR-0028: two patterns of one kind and one prefix length   *)
(* that match the same path conflict.                                      *)
LEMMA CommonPathConflicts ==
  ASSUME NEW p \in Patterns, NEW q \in Patterns, NEW path \in Paths,
         MatchPath(p, path), MatchPath(q, path),
         HasTail(p) = HasTail(q), Prefix(p) = Prefix(q)
  PROVE  PatternsConflict(p, q)
<1>1. ASSUME NEW i \in 1 .. Prefix(p)
      PROVE  SegmentsCompatible(p[i], q[i])
  BY <1>1 DEF MatchPath, SegmentMatches, SegmentsCompatible
<1> QED
  BY <1>1 DEF PatternsConflict

(* Conflicts do not depend on which of two routes came first.              *)
LEMMA ConflictSymmetric ==
  ASSUME NEW s, NEW t, RoutesConflict(s, t)
  PROVE  RoutesConflict(t, s)
BY DEF RoutesConflict, Overlaps, PatternsConflict, SegmentsCompatible

(* Conflict-free tables answer no request in two ways.                     *)
LEMMA InvImpliesUnambiguous ==
  ASSUME IInv
  PROVE  Unambiguous
<1> SUFFICES ASSUME NEW req \in Request, NEW i \in Indexes, NEW j \in Indexes,
                    i # j, Accepts(table[i], req), Accepts(table[j], req),
                    HasTail(table[i].pattern) = HasTail(table[j].pattern),
                    \/ ~HasTail(table[i].pattern)
                    \/ Len(table[i].pattern) = Len(table[j].pattern)
             PROVE  FALSE
  BY DEF Unambiguous
<1> DEFINE p == table[i].pattern
           q == table[j].pattern
<1>1. table[i] \in Route /\ table[j] \in Route
  BY LenProperties, ElementOfSeq DEF IInv, TypeOK, Indexes
<1>2. p \in Patterns /\ q \in Patterns /\ req.path \in Paths
  BY <1>1 DEF Route, Request
<1>3. MatchPath(p, req.path) /\ MatchPath(q, req.path)
  BY DEF Accepts
<1>4. Prefix(p) = Prefix(q)
  <2>1. CASE ~HasTail(p)
    <3>1. ~HasTail(q)
      BY <2>1
    <3> QED
      BY <2>1, <3>1, <1>3 DEF MatchPath
  <2>2. CASE HasTail(p)
    <3>1. HasTail(q) /\ Len(p) = Len(q)
      BY <2>2
    <3>2. Len(p) = Prefix(p) + 1 /\ Prefix(p) \in Nat
      BY <2>2, <1>2, PrefixLength
    <3>3. Len(q) = Prefix(q) + 1 /\ Prefix(q) \in Nat
      BY <3>1, <1>2, PrefixLength
    <3>4. \A x, y \in Nat : x + 1 = y + 1 => x = y
      OBVIOUS
    <3>5. Prefix(p) + 1 = Prefix(q) + 1
      BY <3>1, <3>2, <3>3, Zenon
    <3> QED
      BY <3>2, <3>3, <3>4, <3>5, Zenon
  <2> QED
    BY <2>1, <2>2
<1>5. PatternsConflict(p, q)
  BY <1>2, <1>3, <1>4, CommonPathConflicts
<1>6. Overlaps(table[i].methods, table[j].methods)
  BY MethodsOverlap DEF Accepts
<1> QED
  BY <1>5, <1>6 DEF IInv, ConflictFree, RoutesConflict

(* What a create makes of the table.                                       *)
LEMMA Appended ==
  ASSUME table \in Seq(Route), NEW route \in Route
  PROVE  /\ Append(table, route) \in Seq(Route)
         /\ DOMAIN Append(table, route) = 1 .. Len(table) + 1
         /\ \A i \in 1 .. Len(table) : Append(table, route)[i] = table[i]
         /\ Append(table, route)[Len(table) + 1] = route
<1>1. /\ Append(table, route) \in Seq(Route)
      /\ Len(Append(table, route)) = Len(table) + 1
  BY AppendProperties
<1>2. DOMAIN Append(table, route) = 1 .. Len(table) + 1
  BY <1>1, LenProperties
<1> QED
  BY <1>1, <1>2, AppendProperties

(* A table whose rows are rows of the old one, each under an index of its  *)
(* own, is conflict free if the old one is.                                *)
LEMMA Rearranged ==
  ASSUME IInv, TypeOK',
         NEW f, \A i \in Indexes' : f[i] \in Indexes /\ table'[i] = table[f[i]],
         \A i, j \in Indexes' : i # j => f[i] # f[j]
  PROVE  IInv'
BY DEF IInv, ConflictFree, RoutesConflict

(* One more route, or another one in a row, that conflicts with no other.  *)
LEMMA Checked ==
  ASSUME IInv, TypeOK', NEW k \in Indexes', NEW route,
         table'[k] = route,
         \A i \in Indexes' \ {k} :
           i \in Indexes /\ table'[i] = table[i] /\ ~RoutesConflict(route, table[i])
  PROVE  IInv'
<1> SUFFICES ASSUME NEW i \in Indexes', NEW j \in Indexes', i # j
             PROVE  ~RoutesConflict(table[i], table[j])'
  BY DEF IInv, ConflictFree
<1>1. CASE i # k /\ j # k
  BY <1>1 DEF IInv, ConflictFree, RoutesConflict
<1>2. CASE i = k
  BY <1>2 DEF RoutesConflict
<1>3. CASE j = k
  <2>1. ~RoutesConflict(table'[i], route)
    BY <1>3, ConflictSymmetric
  <2> QED
    BY <1>3, <2>1 DEF RoutesConflict
<1> QED
  BY <1>1, <1>2, <1>3

(* No two rows conflict initially, and every step keeps it so.             *)
LEMMA MatchingInvariant == (Init => IInv) /\ (IInv /\ [Next]_table => IInv')
<1>1. Init => IInv
  BY EmptySeq DEF Init, IInv, TypeOK, ConflictFree, Indexes
<1>2. IInv /\ [Next]_table => IInv'
  <2> SUFFICES ASSUME IInv, [Next]_table PROVE IInv'
    OBVIOUS
  <2> USE DEF Indexes
  <2>0. /\ table \in Seq(Route) /\ Len(table) \in Nat
        /\ DOMAIN table = 1 .. Len(table)
        /\ \A i \in 1 .. Len(table) : table[i] \in Route
    BY LenProperties, ElementOfSeq DEF IInv, TypeOK
  <2>1. CASE Create
    <3>1. PICK route \in Route : Free(route, {}) /\ table' = Append(table, route)
      BY <2>1 DEF Create
    <3> DEFINE k == Len(table) + 1
    <3>2. /\ TypeOK' /\ DOMAIN table' = 1 .. k
          /\ \A i \in 1 .. Len(table) : table'[i] = table[i]
          /\ table'[k] = route
      <4>1. /\ Append(table, route) \in Seq(Route)
            /\ DOMAIN Append(table, route) = 1 .. k
            /\ \A i \in 1 .. Len(table) : Append(table, route)[i] = table[i]
            /\ Append(table, route)[k] = route
        BY <2>0, Appended
      <4> QED
        BY <3>1, <4>1 DEF TypeOK
    <3>3. k \in Indexes'
      BY <2>0, <3>2
    <3>4. ASSUME NEW i \in Indexes' \ {k}
          PROVE  /\ i \in Indexes /\ table'[i] = table[i]
                 /\ ~RoutesConflict(route, table[i])
      <4>1. i \in 1 .. Len(table)
        BY <2>0, <3>2, <3>4
      <4> QED
        BY <2>0, <3>1, <3>2, <4>1 DEF Free
    <3> HIDE DEF k
    <3> QED
      BY <3>2, <3>3, <3>4, Checked
  <2>2. CASE Update
    <3>1. PICK k \in Indexes, route \in Route :
            Free(route, {k}) /\ table' = [table EXCEPT ![k] = route]
      BY <2>2 DEF Update
    <3>2. TypeOK' /\ DOMAIN table' = DOMAIN table
      BY <2>0, <3>1 DEF TypeOK
    <3> QED
      BY <2>0, <3>1, <3>2, Checked DEF Free
  <2>3. CASE Delete
    <3>1. PICK k \in Indexes : table' = RemoveAt(table, k)
      BY <2>3 DEF Delete
    <3> DEFINE front == SubSeq(table, 1, k - 1)
               back  == SubSeq(table, k + 1, Len(table))
               f == [i \in 1 .. Len(table) - 1 |-> IF i < k THEN i ELSE i + 1]
    <3>2. /\ front \in Seq(Route) /\ Len(front) = k - 1
          /\ \A i \in 1 .. k - 1 : front[i] = table[i]
      BY <2>0, SubSeqProperties
    <3>3. /\ back \in Seq(Route) /\ Len(back) = Len(table) - k
          /\ \A i \in 1 .. Len(table) - k : back[i] = table[i + k]
      BY <2>0, SubSeqProperties
    <3>4. table' = front \o back
      BY <3>1 DEF RemoveAt
    <3> HIDE DEF front, back
    <3>5. /\ table' \in Seq(Route)
          /\ Len(table') = Len(front) + Len(back)
          /\ \A i \in 1 .. Len(front) + Len(back) :
               table'[i] = IF i <= Len(front) THEN front[i] ELSE back[i - Len(front)]
      BY <3>2, <3>3, <3>4, ConcatProperties, Zenon
    <3>6. TypeOK' /\ DOMAIN table' = 1 .. Len(table')
      BY <3>5, LenProperties, Zenon DEF TypeOK
    <3>7. Len(table') = Len(table) - 1
      BY <2>0, <3>2, <3>3, <3>5
    <3>8. ASSUME NEW i \in 1 .. Len(table) - 1
          PROVE  f[i] \in 1 .. Len(table) /\ table'[i] = table[f[i]]
      <4>1. CASE i < k
        BY <2>0, <3>2, <3>3, <3>5, <4>1
      <4>2. CASE ~(i < k)
        <5>1. /\ i \in 1 .. Len(front) + Len(back) /\ ~(i <= Len(front))
              /\ i - Len(front) \in 1 .. Len(table) - k
              /\ i - Len(front) + k = i + 1
          BY <2>0, <3>2, <3>3, <4>2
        <5>2. table'[i] = back[i - Len(front)]
          BY <3>5, <5>1, Zenon
        <5>3. back[i - Len(front)] = table[i - Len(front) + k]
          BY <3>3, <5>1, Zenon
        <5>4. f[i] = i + 1 /\ i + 1 \in 1 .. Len(table)
          BY <2>0, <4>2
        <5> QED
          BY <5>1, <5>2, <5>3, <5>4, Zenon
      <4> QED
        BY <4>1, <4>2
    <3>9. \A i, j \in 1 .. Len(table) - 1 : i # j => f[i] # f[j]
      BY <2>0
    <3> HIDE DEF f
    <3> QED
      BY <2>0, <3>6, <3>7, <3>8, <3>9, Rearranged
  <2>4. CASE Reload
    <3>1. PICK k, l \in Indexes :
            k < l /\ table' = [table EXCEPT ![k] = table[l], ![l] = table[k]]
      BY <2>4 DEF Reload
    <3> DEFINE f == [i \in Indexes |-> IF i = k THEN l ELSE IF i = l THEN k ELSE i]
    <3>2. /\ TypeOK' /\ DOMAIN table' = DOMAIN table
          /\ \A i \in Indexes : table'[i] = table[f[i]]
      BY <2>0, <3>1 DEF TypeOK
    <3>3. \A i \in Indexes : f[i] \in Indexes
      BY <3>1
    <3>4. \A i, j \in Indexes : i # j => f[i] # f[j]
      BY <2>0, <3>1
    <3> HIDE DEF f
    <3> QED
      BY <3>2, <3>3, <3>4, Rearranged
  <2>5. CASE UNCHANGED table
    BY <2>5 DEF IInv, TypeOK, ConflictFree, RoutesConflict
  <2> QED
    BY <2>1, <2>2, <2>3, <2>4, <2>5 DEF Next
<1> QED
  BY <1>1, <1>2

(* Spec => []Unambiguous: creates, edits, deletes and reloads in any order *)
(* never make a request match two specific routes, or two tail routes of   *)
(* the same length (pattern.rs, find_match_filtered).                      *)
THEOREM MatchingIsUnambiguous == Spec => []Unambiguous
BY MatchingInvariant, InvImpliesUnambiguous, PTL DEF Spec

-----------------------------------------------------------------------------
(* Which route answers depends on the rows alone: one that accepts the     *)
(* request and is specific, or no shorter than any other that accepts it   *)
(* where none of them is specific.                                         *)
Wins(a, req) ==
  /\ Accepts(a, req)
  /\ \/ ~HasTail(a.pattern)
     \/ \A b \in Rows : Accepts(b, req) =>
          HasTail(b.pattern) /\ Len(a.pattern) >= Len(b.pattern)

(* A row that wins is the answer.                                          *)
LEMMA WinnerAnswers ==
  ASSUME IInv, NEW req \in Request, NEW i \in Indexes, Wins(table[i], req)
  PROVE  Answer(req) = {table[i]}
<1> DEFINE hits == {j \in Indexes : Accepts(table[j], req)}
           specific == {j \in hits : ~HasTail(table[j].pattern)}
           longest == {k \in hits : \A j \in hits :
                         Len(table[k].pattern) >= Len(table[j].pattern)}
<1>0. /\ Indexes = 1 .. Len(table) /\ Len(table) \in Nat /\ i \in Nat /\ i # 0
      /\ \A j \in Indexes : table[j] \in Rows /\ Len(table[j].pattern) \in Nat
  <2>1. /\ Indexes = 1 .. Len(table) /\ Len(table) \in Nat
        /\ \A j \in Indexes : table[j] \in Route
    BY LenProperties, ElementOfSeq DEF IInv, TypeOK, Indexes
  <2>2. \A j \in Indexes : Len(table[j].pattern) \in Nat
    BY <2>1, PrefixLength DEF Route
  <2> QED
    BY <2>1, <2>2 DEF Rows
<1>1. i \in hits
  BY DEF Wins
<1>2. Min({i}) = i
  BY <1>0 DEF Min
<1>3. FindMatch(req) = i
  <2>1. CASE ~HasTail(table[i].pattern)
    <3>1. i \in specific
      BY <1>1, <2>1
    <3>2. \A j \in specific : j = i
      BY <2>1, <3>1, InvImpliesUnambiguous DEF Unambiguous, HasTail
    <3>3. specific = {i}
      BY <3>1, <3>2
    <3> QED
      BY <1>2, <3>3 DEF FindMatch
  <2>2. CASE HasTail(table[i].pattern)
    <3>1. \A j \in hits : HasTail(table[j].pattern)
                          /\ Len(table[i].pattern) >= Len(table[j].pattern)
      BY <1>0, <2>2 DEF Wins
    <3>2. specific = {} /\ i \in longest
      BY <1>1, <3>1
    <3>3. \A j \in longest : Len(table[j].pattern) = Len(table[i].pattern)
      BY <1>0, <1>1, <3>1
    <3>4. \A j \in longest : j = i
      BY <1>1, <3>1, <3>3, InvImpliesUnambiguous DEF Unambiguous
    <3>5. longest = {i} /\ hits # {}
      BY <1>1, <3>2, <3>4
    <3> QED
      BY <1>2, <3>2, <3>5 DEF FindMatch
  <2> QED
    BY <2>1, <2>2
<1> QED
  BY <1>0, <1>3 DEF Answer

(* A set of numbers that is not empty has a least one.                     *)
LEMMA LeastNumber ==
  ASSUME NEW S \in SUBSET Nat, S # {}
  PROVE  \E n \in S : \A m \in S : n <= m
<1> DEFINE Less == {ss \in Nat \X Nat : ss[1] < ss[2]}
<1>1. IsWellFoundedOn(Less, Nat)
  BY NatLessThanWellFounded DEF OpToRel
<1>2. \A m, n \in Nat : <<m, n>> \in Less <=> m < n
  OBVIOUS
<1> HIDE DEF Less
<1>3. PICK n \in S : \A m \in S : ~ (<<m, n>> \in Less)
  BY <1>1, WFMin
<1>4. ASSUME NEW m \in S PROVE n <= m
  <2>1. m \in Nat /\ n \in Nat
    OBVIOUS
  <2>2. ~ (m < n)
    BY <1>2, <1>3, <2>1
  <2> QED
    BY <2>1, <2>2
<1> QED
  BY <1>4

(* A request that some row accepts has a winner: the tails that accept one *)
(* path are not longer than it is.                                         *)
LEMMA WinnerExists ==
  ASSUME IInv, NEW req \in Request, NEW h \in Indexes, Accepts(table[h], req)
  PROVE  \E i \in Indexes : Wins(table[i], req)
<1>1. \A j \in Indexes : table[j].pattern \in Patterns /\ table[j] \in Rows
  <2>1. \A j \in Indexes : table[j] \in Route
    BY LenProperties, ElementOfSeq DEF IInv, TypeOK, Indexes
  <2> QED
    BY <2>1 DEF Route, Rows
<1>2. CASE \E i \in Indexes : Accepts(table[i], req) /\ ~HasTail(table[i].pattern)
  BY <1>2 DEF Wins
<1>3. CASE \A i \in Indexes : Accepts(table[i], req) => HasTail(table[i].pattern)
  <2> DEFINE length(j) == Len(table[j].pattern)
             bound == Len(req.path) + 1
             short == {bound - length(j) : j \in {k \in Indexes : Accepts(table[k], req)}}
  <2>1. bound \in Nat
    BY LenProperties, MatchAssumption DEF Request
  <2>2. ASSUME NEW j \in Indexes, Accepts(table[j], req)
        PROVE  length(j) \in Nat /\ bound - length(j) \in Nat
    <3>1. /\ length(j) \in Nat /\ Prefix(table[j].pattern) \in Nat
          /\ length(j) = Prefix(table[j].pattern) + 1
      BY <1>1, <1>3, <2>2, PrefixLength
    <3>2. Len(req.path) >= Prefix(table[j].pattern)
      BY <1>3, <2>2 DEF Accepts, MatchPath
    <3>3. Len(req.path) \in Nat
      BY LenProperties, MatchAssumption DEF Request
    <3> QED
      BY <3>1, <3>2, <3>3
  <2> HIDE DEF length, bound
  <2>3. short \in SUBSET Nat /\ short # {}
    BY <2>2
  <2>4. PICK n \in short : \A m \in short : n <= m
    BY <2>3, LeastNumber
  <2>5. PICK i \in Indexes : Accepts(table[i], req) /\ n = bound - length(i)
    BY <2>4
  <2>6. \A j \in Indexes : Accepts(table[j], req) => length(i) >= length(j)
    BY <2>1, <2>2, <2>4, <2>5
  <2> QED
    BY <1>3, <2>5, <2>6 DEF Wins, Rows, length
<1> QED
  BY <1>2, <1>3

(* So the answer is the set of the winners: it does not depend on the      *)
(* order of the rows.                                                      *)
LEMMA AnswerIsWinners ==
  ASSUME IInv, NEW req \in Request
  PROVE  Answer(req) = {a \in Rows : Wins(a, req)}
<1>1. CASE \E i \in Indexes : Accepts(table[i], req)
  <2>1. PICK i \in Indexes : Wins(table[i], req)
    BY <1>1, WinnerExists
  <2>2. Answer(req) = {table[i]}
    BY <2>1, WinnerAnswers
  <2>3. ASSUME NEW a \in Rows, Wins(a, req) PROVE a = table[i]
    <3>1. PICK j \in Indexes : a = table[j]
      BY DEF Rows
    <3>2. Answer(req) = {a}
      BY <2>3, <3>1, WinnerAnswers
    <3> QED
      BY <2>2, <3>2
  <2>4. table[i] \in Rows
    BY DEF Rows
  <2> QED
    BY <2>1, <2>2, <2>3, <2>4
<1>2. CASE \A i \in Indexes : ~Accepts(table[i], req)
  <2>1. FindMatch(req) = 0
    BY <1>2 DEF FindMatch
  <2> QED
    BY <1>2, <2>1 DEF Answer, Rows, Wins
<1> QED
  BY <1>1, <1>2

(* Spec => StableAnswers: whatever order a reload gives the routes, it     *)
(* changes no answer, and no create, edit or delete of another route takes *)
(* a request away from a specific one (route_table.rs, find_match).        *)
THEOREM AnswersAreStable == Spec => StableAnswers
<1> DEFINE Stays == \A req \in Request :
             /\ Rows' = Rows => Answer(req)' = Answer(req)
             /\ Specific(req) \subseteq Rows' => Specific(req) \subseteq Answer(req)'
<1>0. (IInv => \A req \in Request : Answer(req) = {a \in Rows : Wins(a, req)})'
  <2>1. IInv => \A req \in Request : Answer(req) = {a \in Rows : Wins(a, req)}
    BY AnswerIsWinners
  <2> QED
    BY <2>1, PTL
<1>1. ASSUME IInv, IInv' PROVE Stays
  <2> SUFFICES ASSUME NEW req \in Request
               PROVE  /\ Rows' = Rows => Answer(req)' = Answer(req)
                      /\ Specific(req) \subseteq Rows' => Specific(req) \subseteq Answer(req)'
    OBVIOUS
  <2>1. Answer(req) = {a \in Rows : Wins(a, req)}
    BY <1>1, AnswerIsWinners
  <2>2. Answer(req)' = {a \in Rows : Wins(a, req)}'
    BY <1>0, <1>1
  <2>3. Rows' = Rows => Answer(req)' = Answer(req)
    BY <2>1, <2>2 DEF Wins, Accepts
  <2>4. ASSUME NEW a \in Specific(req), a \in Rows' PROVE a \in Answer(req)'
    <3>1. Wins(a, req) /\ ~HasTail(a.pattern)
      BY <2>1 DEF Specific
    <3>2. Wins(a, req)'
      BY <3>1 DEF Wins, Accepts
    <3> QED
      BY <2>2, <2>4, <3>2
  <2> QED
    BY <2>3, <2>4
<1>2. Spec => []IInv
  BY MatchingInvariant, PTL DEF Spec
<1>3. IInv /\ IInv' /\ [Next]_table => [Stays]_table
  BY <1>1
<1> QED
  BY <1>2, <1>3, PTL DEF Spec, StableAnswers
=============================================================================
