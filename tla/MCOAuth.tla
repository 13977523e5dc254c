------------------------------ MODULE MCOAuth --------------------------------
(* Two users, two clients, a code and the two refresh tokens that it may   *)
(* buy one after the other or at once; two requests at a time.             *)
EXTENDS OAuth, TLC

CONSTANTS t1, t2, u1, u2, cl, other, uri, port, v1, v2, lo, no

MCThread == {t1, t2}
MCUser == {u1, u2}
MCClient == {cl, other}
MCUri == {uri, port}
MCVerifier == {v1, v2}
MCRegisters == [c \in MCClient |-> {uri}]
MCLoopback == [u \in MCUri |-> lo]
Symmetry == Permutations(MCThread) \cup Permutations(MCUser) \cup Permutations(MCClient)
            \cup Permutations(MCUri) \cup Permutations(MCVerifier)
=============================================================================
