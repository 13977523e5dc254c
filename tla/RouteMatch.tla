----------------------------- MODULE RouteMatch -----------------------------
(***************************************************************************)
(* How a request picks a route of its group: pattern.rs and find_match_*   *)
(* of route_table.rs (ADR-0028, ADR-0030).  A pattern is a sequence of     *)
(* segments, a path the sequence of its parts, "/" being the empty one.    *)
(* The state is the route table of one group, in the order in which it is  *)
(* searched; creates and edits pass the conflict check before they reach   *)
(* it, and a reload reads the same routes back in any order.               *)
(***************************************************************************)
EXTENDS Naturals, Sequences, SequencesExt, FiniteSetsExt

CONSTANTS
  Text,        \* literal segment texts
  Empty,       \* the text of an empty part, as in "/v1//charges"
  Method,      \* request methods
  Patterns,    \* the patterns, sequences of segments, that routes can have
  MethodSpecs, \* the method lists, as sets, that routes can have
  Paths,       \* request paths
  MaxTable     \* bound on the routes of the group

Segment == [kind : {"literal", "param", "tail"}, text : Text]

(* Pattern::parse accepts a tail only as the last segment.                 *)
Parsed(p) == \A i \in 1 .. Len(p) - 1 : p[i].kind # "tail"

ASSUME MatchAssumption ==
  /\ Empty \notin Text
  /\ Patterns \subseteq {p \in Seq(Segment) : Parsed(p)}
  /\ Paths \subseteq Seq(Text \cup {Empty})
  /\ MethodSpecs \subseteq SUBSET (Method \cup {"ANY"})
  /\ MaxTable \in Nat

Route == [methods : MethodSpecs, pattern : Patterns]
Request == [method : Method, path : Paths]

-----------------------------------------------------------------------------
HasTail(p) == p # <<>> /\ p[Len(p)].kind = "tail"

(* Number of segments before the tail, or of all of them                   *)
Prefix(p) == IF HasTail(p) THEN Len(p) - 1 ELSE Len(p)

SegmentMatches(segment, part) ==
  part # Empty /\ (segment.kind = "literal" => segment.text = part)

MatchPath(p, path) ==
  /\ IF HasTail(p) THEN Len(path) >= Prefix(p) ELSE Len(path) = Prefix(p)
  /\ \A i \in 1 .. Prefix(p) : SegmentMatches(p[i], path[i])

MethodsMatch(methods, m) == methods \cap {"ANY", m} # {}

Overlaps(a, b) == "ANY" \in a \cup b \/ a \cap b # {}

(* A parameter and a literal are taken for different.                      *)
SlipSegmentsCompatible(s, t) ==
  s.kind = t.kind /\ (s.kind = "literal" => s.text = t.text)

SegmentsCompatible(s, t) ==
  s.kind = "literal" /\ t.kind = "literal" => s.text = t.text

PatternsConflict(p, q) ==
  /\ HasTail(p) = HasTail(q)
  /\ Prefix(p) = Prefix(q)
  /\ \A i \in 1 .. Prefix(p) : SegmentsCompatible(p[i], q[i])

RoutesConflict(a, b) ==
  Overlaps(a.methods, b.methods) /\ PatternsConflict(a.pattern, b.pattern)

Accepts(route, req) ==
  MethodsMatch(route.methods, req.method) /\ MatchPath(route.pattern, req.path)

-----------------------------------------------------------------------------
VARIABLE table   \* the routes of the group, in table order

Indexes == DOMAIN table

(* The first of the tail routes answers, not the longest.                  *)
SlipFindMatch(req) ==
  LET hits     == {i \in Indexes : Accepts(table[i], req)}
      specific == {i \in hits : ~HasTail(table[i].pattern)}
  IN IF specific # {} THEN Min(specific)
     ELSE IF hits # {} THEN Min(hits) ELSE 0

(* find_match_in_group: index of the first specific route that accepts,    *)
(* else of the first of the tail routes with the longest prefix, else 0    *)
FindMatch(req) ==
  LET hits     == {i \in Indexes : Accepts(table[i], req)}
      specific == {i \in hits : ~HasTail(table[i].pattern)}
      longest  == {i \in hits : \A j \in hits :
                     Len(table[i].pattern) >= Len(table[j].pattern)}
  IN IF specific # {} THEN Min(specific)
     ELSE IF hits # {} THEN Min(longest) ELSE 0

(* scan_pattern_conflict of a route against all but the one edited          *)
Free(route, edited) ==
  \A i \in Indexes \ edited : ~RoutesConflict(route, table[i])

Init == table = <<>>

Create == \E route \in Route :
  /\ Len(table) < MaxTable /\ Free(route, {})
  /\ table' = Append(table, route)

Update == \E i \in Indexes : \E route \in Route :
  /\ Free(route, {i})
  /\ table' = [table EXCEPT ![i] = route]

Delete == \E i \in Indexes : table' = RemoveAt(table, i)

(* Two rows change places: reloads lead to every order.                    *)
Reload == \E i, j \in Indexes :
  /\ i < j
  /\ table' = [table EXCEPT ![i] = table[j], ![j] = table[i]]

Next == Create \/ Update \/ Delete \/ Reload

Spec == Init /\ [][Next]_table

-----------------------------------------------------------------------------
(* Properties                                                              *)

TypeOK == table \in Seq(Route)

(* At most one specific route accepts a request, and of the tail routes    *)
(* that do no two have the same length: what the conflict check lets in is *)
(* never ambiguous.                                                        *)
Unambiguous ==
  \A req \in Request : \A i, j \in Indexes :
    /\ i # j /\ Accepts(table[i], req) /\ Accepts(table[j], req)
    /\ HasTail(table[i].pattern) = HasTail(table[j].pattern)
    => /\ HasTail(table[i].pattern)
       /\ Len(table[i].pattern) # Len(table[j].pattern)

(* The route that answers a request does not depend on the order of the    *)
(* table: a reload from storage, which lists routes in any order, changes  *)
(* no answer, and neither does a create or an edit of another route take a *)
(* request away from a specific route.                                     *)
Answer(req) == IF FindMatch(req) = 0 THEN {} ELSE {table[FindMatch(req)]}
Rows == {table[i] : i \in Indexes}

Specific(req) == {a \in Answer(req) : ~HasTail(a.pattern)}

StableAnswers ==
  [][\A req \in Request :
       /\ Rows' = Rows => Answer(req)' = Answer(req)
       /\ Specific(req) \subseteq Rows' => Specific(req) \subseteq Answer(req)']_table
=============================================================================
