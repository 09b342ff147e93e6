--------------------------- MODULE MCRavenManager ---------------------------
(***************************************************************************)
(* Instances of RavenManager for TLC.                                      *)
(***************************************************************************)
EXTENDS ManagerProperties

CONSTANTS g1, n1, n2, ip1, ip2, a1, c1

onNode(n) == [node |-> n, ip |-> NoIP]
behindLB == [endpoints |-> <<onNode(n1), onNode(n2)>>, lb |-> TRUE]

\* Specs
BehindOrNot == {behindLB, [behindLB EXCEPT !.lb = FALSE]}

\* NodeObjs
node(ready) == [ready |-> ready, gw |-> g1, addr |-> a1, podCIDR |-> c1,
                calico |-> FALSE]
ReadyOrGone == {node(TRUE)}
=============================================================================
