--------------------------- MODULE SlugDirectory ----------------------------
(***************************************************************************)
(* What the registry promises about slugs.  A group is opened once and     *)
(* closed once.  A route is published once, under a number no route of its *)
(* open group ever had, and is withdrawn once.                             *)
(***************************************************************************)
CONSTANTS Group, Route, Number

VARIABLES
  opened, open,       \* groups ever opened; those not closed since
  published, live     \* <<route, group, number>> ever published; still live

vars == <<opened, open, published, live>>

Init ==
  /\ opened \in SUBSET Group /\ open = opened
  /\ published \in SUBSET (Route \X opened \X Number) /\ live = published

Open(g) ==
  /\ g \notin opened
  /\ opened' = opened \cup {g} /\ open' = open \cup {g}
  /\ UNCHANGED <<published, live>>

Close(g) ==
  /\ g \in open
  /\ open' = open \ {g}
  /\ UNCHANGED <<opened, published, live>>

(* A create that was under way when its group was closed may still land.   *)
Publish(r, g, n) ==
  /\ g \in opened
  /\ \A e \in published : e[1] # r
  /\ g \in open => \A e \in published : e[2] = g => e[3] # n
  /\ published' = published \cup {<<r, g, n>>}
  /\ live' = live \cup {<<r, g, n>>}
  /\ UNCHANGED <<opened, open>>

Withdraw(e) ==
  /\ e \in live
  /\ live' = live \ {e}
  /\ UNCHANGED <<opened, open, published>>

Next ==
  \/ \E g \in Group : Open(g) \/ Close(g)
  \/ \E r \in Route, g \in Group, n \in Number : Publish(r, g, n)
  \/ \E e \in live : Withdraw(e)

Spec == Init /\ [][Next]_vars
=============================================================================
