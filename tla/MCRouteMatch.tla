---------------------------- MODULE MCRouteMatch ----------------------------
(* Routes that shadow, back up and conflict with each other, up to two      *)
(* segments deep                                                           *)
EXTENDS RouteMatch, TLC

CONSTANTS a, b, none, get, put

Seg(kind, text) == [kind |-> kind, text |-> text]
A == Seg("literal", a)
B == Seg("literal", b)
P == Seg("param", a)
T == Seg("tail", a)

MCPatterns ==
  {<<>>, <<A>>, <<B>>, <<T>>, <<A, P>>, <<P, B>>, <<A, T>>, <<P, T>>}
MCMethodSpecs == {{get}, {put}, {"ANY"}}
Sym == Permutations(Method)
MCPaths ==
  {<<>>, <<a>>, <<b>>, <<a, b>>, <<b, b>>, <<a, none>>, <<a, a, b>>}
=============================================================================
