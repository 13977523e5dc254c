--------------------------- MODULE MCJournalStore ---------------------------
(* Two writers on one group and one client that pages and counts.         *)
EXTENDS JournalStore, TLC

CONSTANTS w1, w2, p1, g1, n1, n2

MCWork == [w \in Writer |-> Kind]

(* A bound: the records of one behaviour are all of one kind.  Streams     *)
(* share no key but the hash with a group's counters, which only the       *)
(* clearing deletes.                                                       *)
OneKind == \A i, j \in DOMAIN entry : entry[i].stream = entry[j].stream

Sym == Permutations({n1, n2}) \cup Permutations({w1, w2})
=============================================================================
