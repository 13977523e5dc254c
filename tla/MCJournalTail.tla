--------------------------- MODULE MCJournalTail ----------------------------
(* Two replicas, a consumer that tails everything on the first, and events *)
(* of both replicas.                                                       *)
EXTENDS JournalTail, TLC

CONSTANTS h1, h2, t1, g1

MCAt == t1 :> h1
MCFilter == t1 :> AnyGroup
MCTool == t1 :> "tail"
E(kind, from) == [kind |-> kind, group |-> g1, from |-> from]
MCEvent == <<E("handled", h1), E("handled", h2), E("unmatched", h2), E("handled", h1)>>
=============================================================================
