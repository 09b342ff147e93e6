------------------------- MODULE GatewayProperties -------------------------
(***************************************************************************)
(* What the Gateway controller promises.                                   *)
(***************************************************************************)
EXTENDS GatewayController, Watches

\* Type invariant of GatewayController: the variables that hold Gateway
\* objects, node views, requests and Reconcile's locals keep their shape.
TypeOK ==
    /\ gws \in [Gateways -> Version(Gateway)]
    /\ nodes \in [Nodes -> Version(NodeObjs)]
    /\ gwCache \in [Gateways -> Version(Gateway)]
    /\ nodeCache \in [Nodes -> Version(NodeObjs)]
    /\ gwWatch \in [Gateways -> Seq(Version(Gateway))]
    /\ nodeWatch \in [Nodes -> Seq(Version(NodeObjs))]
    /\ svc \in Services
    /\ blocks \in BlockSets
    /\ queue \subseteq Gateways
    /\ pc \in {"idle", "list", "svc", "collect"}
    /\ cur \in Gateways \union {NoGateway}
    /\ gw \in Version(Gateway)
    /\ pc # "idle" => cur \in Gateways /\ gw # Absent
    /\ fresh \in BOOLEAN
    /\ nodeList \in [Nodes -> Version(NodeObjs)]
    /\ activeEp \in Endpoint \union {NoEndpoint}
    /\ event \in EndpointEvent
    /\ infos \in Seq(NodeInfo)
    /\ disturbances \in 0..MaxDisturbances

-----------------------------------------------------------------------------
\* Helpers.

\* No two endpoints of the spec are on the same node.
OneEndpointPerNode(s) ==
    \A i, j \in DOMAIN s.endpoints :
        s.endpoints[i].node = s.endpoints[j].node => i = j

\* All that the worker may still look at says that n is a ready node of g.
views(n) == {nodes[n], nodeCache[n]} \union Range(nodeWatch[n])
              \union IF pc \in {"svc", "collect"} THEN {nodeList[n]} ELSE {}
SeenHealthy(n, g) ==
    \A v \in views(n) : v # Absent /\ v.gw = g /\ v.ready

nodeOf(ep) == IF ep = NoEndpoint THEN NoEndpoint ELSE ep.node

\* Nothing is left to deliver, to take from the queue or to finish.
Settled ==
    /\ queue = {} /\ pc = "idle"
    /\ gwWatch = noVersions(Gateways) /\ nodeWatch = noVersions(Nodes)

\* The declared endpoints of gateway g that a node view lets be active.
Competent(g, view) ==
    {e \in Range(gws[g].spec.endpoints) :
        e.node \in readyIn(view, managed(g, view))}

\* The status of gateway g is one its spec and a node view call for.
StatusFits(g, view) ==
    /\ namesIn(gws[g].nodes) = managed(g, view)
    /\ \A i, j \in DOMAIN gws[g].nodes :
          gws[g].nodes[i].node = gws[g].nodes[j].node => i = j
    /\ IF gws[g].active = NoEndpoint
       THEN Competent(g, view) = {}
       ELSE \E e \in Competent(g, view) :
               /\ e.node = gws[g].active.node
               /\ gws[g].spec.lb \/ e = gws[g].active

Converged(g) == gws[g] # Absent => StatusFits(g, nodes)

-----------------------------------------------------------------------------
\* Safety.

\* The node of the active endpoint is among the nodes of the same status:
\* the two fields come from one list of nodes, whatever changed meanwhile
\* (Reconcile, lines 84-126).
ActiveIsManaged ==
    \A g \in Gateways :
        gws[g] # Absent /\ gws[g].active # NoEndpoint =>
            gws[g].active.node \in namesIn(gws[g].nodes)

\* An endpoint becomes active only while the spec in the API server declares
\* it, although Reconcile elects from a cached copy of the gateway; behind a
\* load balancer it keeps its node and takes the Service's IP.
ElectedIsDeclared ==
    [][\A g \in Gateways :
         /\ gws[g] # Absent /\ gws'[g] # Absent
         /\ gws'[g].active \notin {gws[g].active, NoEndpoint}
         => \E e \in Range(gws[g].spec.endpoints) :
               /\ e.node = gws'[g].active.node
               /\ gws[g].spec.lb \/ e = gws'[g].active]_gws

\* The active endpoint of a gateway that is not behind the load balancer does
\* not change while every view of its node shows it ready and managed and the
\* spec declares it, however late caches and queued requests are
\* (electActiveEndpoint, lines 184-191).
NoSpuriousFailover ==
    [][\A g \in Gateways :
         /\ gws[g] # Absent /\ gws'[g] # Absent
         /\ ~gws[g].spec.lb /\ OneEndpointPerNode(gws[g].spec)
         /\ gws[g].active \in Range(gws[g].spec.endpoints)
         /\ SeenHealthy(gws[g].active.node, g)
         => gws'[g].active = gws[g].active]_gws

\* Every change of the active node that reaches the API server was announced
\* by an event that tells the same change (recordEndpointEvent runs first, on
\* a cached copy of the old status).
SwitchAnnounced ==
    [][\A g \in Gateways :
         /\ gws[g] # Absent /\ gws'[g] # Absent
         /\ nodeOf(gws'[g].active) # nodeOf(gws[g].active)
         => event = IF gws'[g].active = NoEndpoint
                    THEN [kind |-> "lost", node |-> gws[g].active.node]
                    ELSE [kind |-> "elected", node |-> gws'[g].active.node]]_gws

\* No wakeup is lost: when the controller has nothing left to do, every
\* status is the right one for the spec and the nodes in the API server
\* (NodeChangedPredicates, mapNodeToRequest, the work queue).
SettledConverged == Settled => \A g \in Gateways : Converged(g)

\* A right status stays right: with every change of a node delivered and no
\* request waiting, a Reconcile in progress may write the status anew, in the
\* order its list came in, but not from a view that is out of date
\* (Reconcile, lines 78-126; every event between them must have queued).
StaysConverged ==
    [][\A g \in Gateways :
         /\ gws[g] # Absent /\ Converged(g)
         /\ g \notin queue /\ gwWatch[g] = << >>
         /\ nodeWatch = noVersions(Nodes)
         /\ disturbances' = disturbances
         => Converged(g)']_vars

\* The controller implements AtomicGateway: each status that is written is an
\* atomic reconciliation of the gateway it is written to.
Atomic == INSTANCE AtomicGateway
ImplementsAtomicGateway == Atomic!Spec

-----------------------------------------------------------------------------
\* The inductive invariant behind the theorems.

\* The caches lag behind the API server and nothing more.
CachesTrail ==
    /\ \A g \in Gateways : Trails(gwCache[g], gwWatch[g], gws[g])
    /\ \A n \in Nodes : Trails(nodeCache[n], nodeWatch[n], nodes[n])

\* A copy whose resourceVersion is current is the gateway itself.
CopyIsFresh ==
    pc # "idle" /\ fresh => gw = gws[cur] /\ gwWatch[cur] = << >>

\* What Reconcile holds after its list is what the nodes listed call for.
HeldElection ==
    /\ pc \in {"svc", "collect"} =>
         /\ \A n \in Nodes : nodeList[n] # Absent => nodeList[n].gw = cur
         /\ event = recordEndpointEvent(gw.active,
                                        electedFor(cur, gw, nodeList))
    /\ pc = "svc" => gw.spec.lb /\ activeEp = electedFor(cur, gw, nodeList)
    /\ pc = "collect" => /\ Atomic!Publishes(activeEp, gw.spec,
                                             electedFor(cur, gw, nodeList))
                         /\ Atomic!ListsSome(infos, cur, nodeList)
    /\ pc # "collect" => infos = << >>

\* Two views agree on the nodes of g and on which of them are ready.
Agree(g, view, other) ==
    /\ managed(g, view) = managed(g, other)
    /\ readyIn(view, managed(g, view)) = readyIn(other, managed(g, other))

\* A cached gateway that is neither queued nor about to be is up to date with
\* the node cache, or the Reconcile in progress is.
WakeupPending ==
    \A g \in Gateways :
        gwCache[g] # Absent /\ g \notin queue /\ gwWatch[g] = << >> =>
            IF cur = g
            THEN fresh /\ pc \in {"svc", "collect"} =>
                    Agree(g, nodeList, nodeCache)
            ELSE StatusFits(g, nodeCache)

\* All the parts: it holds initially, every step keeps it, and the safety
\* properties follow from it.
IInv ==
    /\ TypeOK
    /\ pc = "idle" <=> cur = NoGateway
    /\ CachesTrail
    /\ CopyIsFresh
    /\ HeldElection
    /\ WakeupPending
    /\ ActiveIsManaged

-----------------------------------------------------------------------------
\* Liveness.

\* Once users, kubelets and faults leave it alone the controller gives every
\* gateway the status it should have, and keeps it.
EventuallyConverged == <>[](\A g \in Gateways : Converged(g))

-----------------------------------------------------------------------------
\* What comments and tests say of the controller and the code does not do.

\* "If the current active endpoint remains valid, then we don't change it."
\* (electActiveEndpoint, line 154), for every gateway.
KeepsValidEndpoint ==
    [][\A g \in Gateways :
         /\ gws[g] # Absent /\ gws'[g] # Absent
         /\ gws[g].active # NoEndpoint
         /\ \E e \in Range(gws[g].spec.endpoints) :
                e.node = gws[g].active.node
         /\ SeenHealthy(gws[g].active.node, g)
         => nodeOf(gws'[g].active) = gws[g].active.node]_gws

\* "... then the active endpoint should be removed" when its node is NotReady
\* (gateway_controller_test.go, line 57).
LostEndpointRemoved ==
    \A g \in Gateways :
        <>[](gws[g] # Absent /\ readyIn(nodes, managed(g, nodes)) = {})
            => <>[](gws[g] # Absent => gws[g].active = NoEndpoint)

\* "Nodes contains all information of nodes managed by Gateway."
\* (gateway_types.go, line 77).
SettledNodesCurrent ==
    Settled =>
      \A g \in Gateways : gws[g] # Absent =>
        Range(gws[g].nodes) =
          {[node |-> n, privateIP |-> nodes[n].addr,
            subnets |-> podCIDRs(n, nodes[n])] : n \in managed(g, nodes)}
=============================================================================
