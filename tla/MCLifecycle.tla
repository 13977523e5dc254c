---------------------------- MODULE MCLifecycle -----------------------------
(* Sweepers and an API thread over a group with one route.                 *)
EXTENDS Lifecycle

CONSTANTS c1, s1, s2, n1, n2, m1, m2, p1, p2

ApiOps == {"create_group", "create_implicit", "patch_group", "refresh_group",
           "rename_group", "create_route", "update_route", "delete_route",
           "delete_group", "dispatch", "set_state", "clear_state",
           "clear_journal"}
MCApiOps == [p \in Proc |-> IF p = c1 THEN ApiOps ELSE {}]
MCOps == [p \in Proc |-> IF p = c1 THEN {"refresh_group"} ELSE {}]
MCClash == {<<q, q>> : q \in Pattern}
MCSeedName == <<n1>>
MCSeedRoute == << [group |-> 1, pat |-> [methods |-> m1, path |-> p1]] >>
=============================================================================
