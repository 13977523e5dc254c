---------------------------- MODULE MCRouteTable ----------------------------
(* Two replicas and one group.                                             *)
EXTENDS RouteTable

CONSTANTS h1, h2, w1, w2, w3, r1, r2, g1

MCHostOf == [w \in Worker |-> IF w = w2 THEN h2 ELSE h1]
MCGroupOf == [r \in Route |-> g1]
=============================================================================
