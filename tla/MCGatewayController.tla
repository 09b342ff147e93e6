------------------------ MODULE MCGatewayController ------------------------
(***************************************************************************)
(* Instances of GatewayController for TLC.  Each configuration picks the   *)
(* specs, the node contents and the service states the question is about.  *)
(***************************************************************************)
EXTENDS GatewayProperties, GatewayAdmission

CONSTANTS g1, g2, n1, n2, ip1, ip2, a1, a2, c1, c2

onNode(n, ip) == [nodeName |-> n, underNAT |-> FALSE, publicIP |-> ip]
ask(endpoints, lb) == [name |-> g1, selector |-> NoGateway,
                       endpoints |-> endpoints, lb |-> lb]

both == ask(<<onNode(n1, ip1), onNode(n2, NoIP)>>, FALSE)
second == ask(<<onNode(n2, NoIP)>>, FALSE)
bothLB == ask(<<onNode(n1, NoIP), onNode(n2, NoIP)>>, TRUE)
secondLB == ask(<<onNode(n2, NoIP)>>, TRUE)

\* Requests
Two == {both, second}
One == {both}
OneLB == {bothLB}
Refused == {ask(<< >>, TRUE), ask(<<onNode(n1, ip1)>>, TRUE),
            ask(<<onNode(NoName, NoIP)>>, FALSE), ask(<<onNode(n1, BadIP)>>, FALSE),
            ask(<<onNode(n2, NoIP),
                  [onNode(n1, ip1) EXCEPT !.underNAT = TRUE]>>, FALSE)}
Mixed == {both, bothLB, secondLB} \union Refused

\* A node outside Calico, in gateway g.
plain(g, ready) == [ready |-> ready, gw |-> g, addr |-> a1, podCIDR |-> c1,
                    calico |-> FALSE]

\* NodeObjs
ReadyOrNot == {plain(g1, TRUE), plain(g1, FALSE)}
ReadyOrNotOrAway == ReadyOrNot \union {plain(NoGateway, TRUE)}
OneOrOther == {plain(g1, TRUE), plain(g2, TRUE)}
calicoNode == [plain(g1, TRUE) EXCEPT !.calico = TRUE]
renumbered == [plain(g1, TRUE) EXCEPT !.addr = a2, !.podCIDR = c2]
CalicoOrNotReady == {calicoNode, plain(g1, FALSE)}
WithAddresses == {plain(g1, TRUE), plain(g1, FALSE), calicoNode, renumbered}

\* BlockSets
NoBlocks == {{}}
SomeBlocks == {{}, {[node |-> n1, cidr |-> c1, confirmed |-> TRUE],
                    [node |-> n1, cidr |-> c2, confirmed |-> FALSE]}}
=============================================================================
