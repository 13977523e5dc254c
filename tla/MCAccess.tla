------------------------------ MODULE MCAccess -------------------------------
(* Two threads, one of which serves two calls.  A behaviour keeps to one of *)
(* the plans: the calls whose interleavings are of interest.  u1 is the    *)
(* administrator and u2 owns the group that exists.                        *)
EXTENDS Access, TLC

CONSTANTS p, q, e1, e2, e3, local, oidc, github, t1, t2, x, y

MCThread == {p, q}
MCEmail == {e1, e2, e3}
MCLogin == {local, oidc, github}
MCMailOf == local :> e2 @@ oidc :> e3 @@ github :> e1
MCLocal == {local}
MCLinked == {github}
MCTokenName == {t1, t2}
MCName == {x, y}
MCMaxCalls == p :> 1 @@ q :> 2
MCSeed == <<[mail |-> e1, admin |-> TRUE], [mail |-> e2, admin |-> FALSE]>>
MCEstate == <<[name |-> x, owner |-> 2, routed |-> TRUE]>>

Plan(a, b) == p :> a @@ q :> b
MCPlans == {
  Plan({"sign_out", "revoke_token"}, {"logout", "sign_out", "revoke_token"}),
  Plan({"sign_in"}, {"create_user", "delete_user"}),
  Plan({"sign_in"}, {"patch_user", "sign_out"}),
  Plan({"create_user"}, {"create_user", "delete_user"}),
  Plan({"patch_user", "delete_user"}, {"patch_user", "delete_user"}),
  Plan({"create_token", "rename_token"}, {"revoke_token", "create_token"}),
  Plan({"create_token"}, {"delete_user"}),
  Plan({"route", "group"}, {"group", "create"}),
  Plan({"create"}, {"delete_user", "group"})}

=============================================================================
