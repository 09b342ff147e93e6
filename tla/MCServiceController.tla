------------------------ MODULE MCServiceController ------------------------
(***************************************************************************)
(* Instances of ServiceController for TLC.                                 *)
(***************************************************************************)
EXTENDS ServiceProperties

CONSTANTS g1, g2, n1, n2, ip1, a1, c1, pending

onNode(n) == [node |-> n, ip |-> NoIP]
LBSpec == [endpoints |-> <<onNode(n1), onNode(n2)>>, lb |-> TRUE]
PlainSpec == [LBSpec EXCEPT !.lb = FALSE]

gateway(spec, active) == [spec |-> spec, active |-> active, nodes |-> << >>]

\* Specs
TwoSpecs == {LBSpec, PlainSpec}

\* GatewayObjs
TwoActive == {gateway(LBSpec, NoEndpoint), gateway(LBSpec, onNode(n1)),
              gateway(LBSpec, onNode(n2)), gateway(PlainSpec, onNode(n2))}

\* NodeObjs
nodeAt(a) == [ready |-> TRUE, gw |-> g1, addr |-> a, podCIDR |-> c1,
              calico |-> FALSE]
OneAddress == {nodeAt(a1)}
=============================================================================
