------------------------- MODULE ManagerProperties -------------------------
(***************************************************************************)
(* What the two controllers promise together.                              *)
(***************************************************************************)
EXTENDS RavenManager, FiniteSets

\* Helpers.

exposedGateways == {g \in existing(gws) : gws[g].spec.lb}

\* What is sent to the IP that the status of g publishes comes to the active
\* node of an exposed gateway; without others, of g.
Reachable(g) ==
    /\ gws[g].active # NoEndpoint
    /\ gws[g].active.ip = service
    /\ eps \in S!Target
    /\ \E h \in exposedGateways : /\ gws[h].active # NoEndpoint
                                  /\ eps.node = gws[h].active.node

\* The Service has had one IP at most.
OneIngress == Cardinality(ingresses) <= 1

\* Both controllers, the informers and the cloud have nothing left to do.
Settled ==
    /\ queue = {} /\ pc = "idle"
    /\ gwWatch = G!noVersions(Gateways) /\ nodeWatch = G!noVersions(Nodes)
    /\ ~queued /\ servicePc = "idle" /\ svcWatch = << >> /\ epsWatch = << >>
    /\ service # NoIngress

-----------------------------------------------------------------------------

\* When nothing is left to do, the exposed gateways can be reached under the
\* IPs they publish, and without one there is no Service: neither controller
\* has taken an answer of the other for the last one too early.  A Service
\* that gets another IP is the exception: the Gateway controller does not
\* look at it again.
SettledReachable ==
    Settled /\ OneIngress =>
        /\ \A g \in exposedGateways : Reachable(g)
        /\ exposedGateways = {} => service = Absent /\ eps = Absent

-----------------------------------------------------------------------------
\* The inductive invariant behind the theorems.

\* Every version of the Service, the API server's, the cache's and those under
\* way, has an IP the cloud gave it, or none.
IngressesKnown ==
    /\ IsFiniteSet(ingresses) /\ ingresses \subseteq PublicIPs
    /\ {service, svc} \union Range(svcWatch)
          \subseteq {Absent, NoIngress} \union ingresses

\* Behind the load balancer, Reconcile writes only such an IP.
HeldIngress ==
    pc = "collect" /\ gw.spec.lb =>
        activeEp # NoEndpoint /\ activeEp.ip \in ingresses

\* An exposed gateway that is neither queued, nor about to be, nor in the hands
\* of Reconcile, publishes such an IP: Reconcile does not let it go before.
PublicationPending ==
    \A g \in S!exposed(gwCache) :
        g \notin queue /\ gwWatch[g] = << >> /\ cur # g =>
            gwCache[g].active # NoEndpoint /\ gwCache[g].active.ip \in ingresses

\* What each controller keeps alone, and what they keep together.
IInv ==
    /\ G!IInv /\ S!IInv /\ ~missed
    /\ IngressesKnown /\ HeldIngress /\ PublicationPending

-----------------------------------------------------------------------------
\* Liveness.

\* The controllers do not wait for each other: an exposed gateway comes to be
\* reachable (Reconcile waits for a Service that the Service controller makes
\* before there is an active endpoint), unless one has no ready node, which
\* ends the process again and again.
EventuallyReachable ==
    <>[](OneIngress /\ \A g \in exposedGateways :
            \E e \in Range(gws[g].spec.endpoints) :
                e.node \in readyIn(nodes, managed(g, nodes)))
        => <>[](\A g \in exposedGateways : Reachable(g))
=============================================================================
