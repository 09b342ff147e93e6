------------------------- MODULE ServiceProperties -------------------------
(***************************************************************************)
(* What the Service controller promises.                                   *)
(***************************************************************************)
EXTENDS ServiceController, Watches

\* Type invariant of ServiceController: objects, caches, versions under way
\* and Reconcile's locals keep their shape.
TypeOK ==
    /\ gws \in [Gateways -> Version(GatewayObjs)]
    /\ nodes \in [Nodes -> Version(NodeObjs)]
    /\ {svc, svcCache} \subseteq Version(ServiceObjs)
    /\ svcWatch \in Seq(Version(ServiceObjs))
    /\ {eps, epsCache} \subseteq Version(EndpointsObjs)
    /\ epsWatch \in Seq(Version(EndpointsObjs))
    /\ queued \in BOOLEAN
    /\ pc \in {"idle", "service", "createService", "endpoints",
               "getEndpoints", "createEndpoints", "updateEndpoints"}
    /\ gwList \in [Gateways -> Version(GatewayObjs)]
    /\ target \in Version(Target)
    /\ fresh \in BOOLEAN
    /\ missed \in BOOLEAN
    /\ disturbances \in 0..MaxDisturbances

-----------------------------------------------------------------------------
\* Helpers.

\* The nodes the Endpoints may lead to.
activeNodes(view) == {view[g].active.node : g \in serving(view)}

leadsTo(e, S) == e \in Target /\ e.node \in S

ServiceFits(view) == svc # Absent <=> exposed(view) # {}

EndpointsFit(view) ==
    /\ exposed(view) = {} => eps = Absent
    /\ serving(view) # {} => leadsTo(eps, activeNodes(view))

Settled == ~queued /\ pc = "idle" /\ svcWatch = << >> /\ epsWatch = << >>

-----------------------------------------------------------------------------

\* No wakeup is lost: at rest the Service exists exactly when a gateway is
\* exposed by it, and the Endpoints lead to the active node of such a gateway
\* or, without one, are gone (mapGatewayToRequest, ServicePredicates, the
\* caches).  A Service deleted before a broken watch has told of its creation
\* is the one thing the controller does not learn of.
SettledServed == Settled /\ ~missed => ServiceFits(gws) /\ EndpointsFit(gws)

\* The controller does not move the Endpoints off a node while every list of
\* gateways it may still act on has that node as the only active one
\* (reconcileEndpoint chooses, ensureEndpoint writes three calls later).
KeepsEndpoints ==
    [][/\ disturbances' = disturbances
       /\ eps \in Target
       /\ \A view \in {gws} \union IF pc = "idle" THEN {} ELSE {gwList} :
             activeNodes(view) = {eps.node}
       => leadsTo(eps', {eps.node})]_vars

-----------------------------------------------------------------------------
\* The inductive invariant behind the theorems.

\* The caches lag behind the API server and nothing more.
CachesTrail == /\ Trails(svcCache, svcWatch, svc)
               /\ Trails(epsCache, epsWatch, eps)

\* What Reconcile holds fits the gateways it listed.
HeldTarget ==
    /\ pc \in {"getEndpoints", "createEndpoints", "updateEndpoints"} =>
         leadsTo(target, activeNodes(gwList))
    /\ pc = "createService" => exposed(gwList) # {}

\* Two lists show the same exposed gateways, with the same active endpoints.
Agree(view, other) ==
    /\ exposed(view) = exposed(other)
    /\ \A g \in exposed(view) : view[g].active = other[g].active

\* Without a request in the queue, what was done so far is right for the
\* gateways in the cache, or an event is on its way that will queue one.
WakeupPending ==
    ~queued /\ ~missed =>
        /\ pc = "idle" => /\ svcWatch # << >> \/ ServiceFits(gws)
                          /\ epsWatch # << >> \/ EndpointsFit(gws)
        /\ pc # "idle" => Agree(gwList, gws)
        /\ pc \notin {"idle", "service", "createService"} =>
              svcWatch # << >> \/ ServiceFits(gws)

\* All the parts: every step keeps their conjunction.
IInv == TypeOK /\ CachesTrail /\ HeldTarget /\ WakeupPending

-----------------------------------------------------------------------------

\* Once it is left alone, with the node of every active endpoint there and
\* nothing missed, the controller comes to serve the gateways and goes on.
EventuallyServed ==
    <>[](~missed /\ \A n \in activeNodes(gws) : nodes[n] # Absent)
        => <>[](ServiceFits(gws) /\ EndpointsFit(gws))
=============================================================================
