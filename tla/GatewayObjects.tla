-------------------------- MODULE GatewayObjects ---------------------------
(***************************************************************************)
(* The Gateway and Node objects of the API server (gateway_types.go and    *)
(* what the controllers read of a Node), and operators on them.            *)
(***************************************************************************)
EXTENDS GatewayElection

CONSTANTS
    Gateways,     \* names of Gateway objects
    NoGateway,    \* no gateway label on a node; no request in progress
    Absent,       \* an object that does not exist
    Specs,        \* the specs users give to gateways
    NodeObjs,     \* the contents Node objects take
    Addrs,        \* values of GetNodeInternalIP
    CIDRs         \* pod address ranges

GatewaySpec == [endpoints : Seq(Endpoint), lb : BOOLEAN]
NodeInfo == [node : Nodes, privateIP : Addrs, subnets : SUBSET CIDRs]
Gateway == [spec : Specs, active : Endpoint \union {NoEndpoint},
            nodes : Seq(NodeInfo)]
Node == [ready : BOOLEAN, gw : Gateways \union {NoGateway}, addr : Addrs,
         podCIDR : CIDRs, calico : BOOLEAN]

Version(S) == S \union {Absent}

\* Specs as validateGateway lets them in: at least one endpoint, and no publicIP
\* when the gateway is exposed by the load balancer.
WellFormed(S) ==
    /\ S \subseteq GatewaySpec
    /\ \A s \in S : /\ s.endpoints # << >>
                    /\ s.lb => \A e \in Range(s.endpoints) : e.ip = NoIP

ASSUME SpecsAssumption == WellFormed(Specs)
ASSUME NodeObjsAssumption == NodeObjs \subseteq Node
ASSUME NamesAssumption == /\ NoGateway \notin Gateways
                          /\ Absent \notin Gateway \union Node

-----------------------------------------------------------------------------

\* The API server keeps what users send off the status subresource.
NewGateway(s) == [spec |-> s, active |-> NoEndpoint, nodes |-> << >>]

existing(objs) == {g \in Gateways : objs[g] # Absent}

\* A node view maps each node to its content or Absent.
managed(g, view) == {n \in Nodes : view[n] # Absent /\ view[n].gw = g}
readyIn(view, S) == {n \in S : view[n].ready}

namesIn(list) == {list[i].node : i \in DOMAIN list}

\* What Reconcile elects for a gateway object, given a view of the nodes.
electedFor(g, obj, view) ==
    electActiveEndpoint(readyIn(view, managed(g, view)),
                        obj.spec.endpoints, obj.active)
=============================================================================
