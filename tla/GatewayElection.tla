-------------------------- MODULE GatewayElection --------------------------
(***************************************************************************)
(* The pure part of the Gateway controller: the endpoints a Gateway        *)
(* declares, the endpoint that is active, and how Reconcile chooses it     *)
(* (gateway_controller.go, electActiveEndpoint and recordEndpointEvent).   *)
(***************************************************************************)
EXTENDS Naturals, Sequences, FiniteSetsExt

CONSTANTS
    Nodes,       \* names of Node objects
    PublicIPs,   \* non-empty values of Endpoint.PublicIP
    NoIP,        \* PublicIP = ""
    NoEndpoint   \* a nil *Endpoint

(***************************************************************************)
(* An Endpoint: UnderNAT and Config are compared together with PublicIP by *)
(* reflect.DeepEqual and never looked at otherwise; one field stands for   *)
(* the three.                                                              *)
(***************************************************************************)
Endpoint == [node : Nodes, ip : PublicIPs \union {NoIP}]

ASSUME NoEndpointAssumption == NoEndpoint \notin Endpoint
ASSUME NoIPAssumption == NoIP \notin PublicIPs

-----------------------------------------------------------------------------

\* The operators named "a variant with a bug" are not the code: each is a bug
\* that a change could bring in, and the properties tell it from the code.

\* A variant with a bug: readiness is not checked.
checkActiveUnready(ep, readyNodes, endpoints) ==
    ep # NoEndpoint /\ ep \in Range(endpoints)

\* An endpoint may be active if its node is among the managed nodes that are
\* ready and an equal endpoint is in the spec.
checkActive(ep, readyNodes, endpoints) ==
    /\ ep # NoEndpoint
    /\ ep.node \in readyNodes
    /\ ep \in Range(endpoints)

\* The first declared endpoint hosted by one of the nodes of S.
firstHostedBy(S, endpoints) ==
    endpoints[Min({i \in DOMAIN endpoints : endpoints[i].node \in S})]

\* A variant with a bug: the active endpoint is not preferred.
electAfresh(readyNodes, endpoints, active) ==
    IF \E i \in DOMAIN endpoints : endpoints[i].node \in readyNodes
    THEN firstHostedBy(readyNodes, endpoints)
    ELSE NoEndpoint

electActiveEndpoint(readyNodes, endpoints, active) ==
    IF checkActive(active, readyNodes, endpoints)
    THEN firstHostedBy({active.node}, endpoints)
    ELSE IF \E i \in DOMAIN endpoints : endpoints[i].node \in readyNodes
    THEN firstHostedBy(readyNodes, endpoints)
    ELSE NoEndpoint

(***************************************************************************)
(* The event Reconcile records for the change from previous to current:    *)
(* its kind and the node it names.                                         *)
(***************************************************************************)
NoEvent == [kind |-> "none", node |-> NoEndpoint]

EndpointEvent == {NoEvent}
                   \union [kind : {"elected", "lost"}, node : Nodes]

\* A variant with a bug: only the first election is told.
recordFirstOnly(previous, current) ==
    IF current # NoEndpoint /\ previous = NoEndpoint
    THEN [kind |-> "elected", node |-> current.node]
    ELSE NoEvent

recordEndpointEvent(previous, current) ==
    CASE current # NoEndpoint /\ current # previous ->
            [kind |-> "elected", node |-> current.node]
      [] current = NoEndpoint /\ previous # NoEndpoint ->
            [kind |-> "lost", node |-> previous.node]
      [] OTHER -> NoEvent

=============================================================================
