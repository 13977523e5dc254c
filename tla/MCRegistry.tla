----------------------------- MODULE MCRegistry -----------------------------
(* Two API threads working on one group and on what they create.           *)
EXTENDS Registry, TLC

CONSTANTS c1, c2, n1, n2, m1, m2, p1, p2

AllOps == {"create_group", "create_implicit", "patch_group", "refresh_group",
           "rename_group", "create_route", "update_route", "delete_route",
           "dispatch"}
MCOps == [p \in {c1, c2} |-> AllOps]
MCClash == {<<q, q>> : q \in Pattern}
MCSeedName == <<n1>>
MCSeedRoute == << [group |-> 1, pat |-> [methods |-> m1, path |-> p1]] >>
Callers == Permutations({c1, c2})
=============================================================================
