---------------------------- MODULE MCInvocation -----------------------------
(* Requests of either kind; a channel of two chunks. Addresses: public, the*)
(* metadata address, its IPv4-mapped form, an internal one that is allowed *)
(* and a public one that is denied.                                        *)
EXTENDS Invocation, TLC

CONSTANTS r1, kv, gkv, pub, meta, mapped, ci, bad

MCReq == {r1}
MCKey == {kv, gkv}
MCAddr == {pub, meta, mapped, ci, bad}
MCNormal == [a \in MCAddr |-> IF a = mapped THEN meta ELSE a]
MCSpecial == {meta, ci}
MCAllow == {ci}
MCDeny == {bad}
=============================================================================
