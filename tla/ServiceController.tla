------------------------- MODULE ServiceController -------------------------
(***************************************************************************)
(* The Service controller (controllers/service): it keeps the load         *)
(* balancer Service raven-agent-service and the Endpoints of the same name *)
(* for the gateways that are exposed by it.                                *)
(*                                                                         *)
(* The controller writes the Service and the Endpoints and reads them from *)
(* caches that lag.  It only reads Gateways and Nodes, so their variables  *)
(* are what their informers' caches show.                                  *)
(***************************************************************************)
EXTENDS GatewayObjects

CONSTANTS
    GatewayObjs,    \* the contents Gateway objects take
    ServiceObjs,    \* the contents the Service takes: its ingress, if any
    NewService,     \* ... as it is created
    Foreign,        \* contents of the Endpoints that are not the controller's
    MaxLag,         \* bound: undelivered versions of one object
    MaxDisturbances \* bound: changes by others, faults, crashes

\* One subset with one address: a node's name and its internal IP.
Target == [node : Nodes, addr : Addrs]
EndpointsObjs == Target \union {Foreign}

ASSUME ObjsAssumption ==
    /\ GatewayObjs \subseteq Gateway
    /\ NewService \in ServiceObjs
    /\ Absent \notin ServiceObjs \union EndpointsObjs
    /\ Foreign \notin Target
ASSUME BoundsAssumption == MaxLag \in Nat \ {0} /\ MaxDisturbances \in Nat

VARIABLES
    gws,        \* Gateways, in the cache
    nodes,      \* Nodes, in the cache
    svc,        \* raven-agent-service in the API server,
    svcCache,   \* ... in the cache,
    svcWatch,   \* ... and its versions on their way there
    eps,        \* its Endpoints in the API server,
    epsCache,   \* ... in the cache,
    epsWatch,   \* ... and their versions on their way there
    queued,     \* the one name of the work queue waits in it
    \* Reconcile's locals; they have their idle values between two requests
    pc,         \* "idle", or the next client call
    gwList,     \* the gateways listed
    target,     \* the node the Endpoints shall lead to
    fresh,      \* the Endpoints read still have the current resourceVersion
    missed,     \* history: an object came and went between two lists, and no
                \* request has started since
    disturbances

cached == <<gws, nodes>>
service == <<svc, svcCache, svcWatch>>
endpoints == <<eps, epsCache, epsWatch>>
locals == <<pc, gwList, target, fresh>>
vars == <<gws, nodes, svc, svcCache, svcWatch, eps, epsCache, epsWatch,
          queued, pc, gwList, target, fresh, missed, disturbances>>

-----------------------------------------------------------------------------

IsGatewayExposeByLB(obj) == obj # Absent /\ obj.spec.lb

\* A variant with a bug: only gateways with an active endpoint count.
exposedServing(view) ==
    {g \in Gateways : IsGatewayExposeByLB(view[g]) /\ view[g].active # NoEndpoint}

exposed(view) == {g \in Gateways : IsGatewayExposeByLB(view[g])}

\* The exposed gateways that have an active endpoint.  The list has no
\* particular order: the first of them in it may be any.
serving(view) == {g \in exposed(view) : view[g].active # NoEndpoint}

\* Some object exists whose creation event queues the name.
someWork(view, s, e) == exposed(view) # {} \/ s # Absent \/ e # Absent

NoList == [g \in Gateways |-> Absent]

Init ==
    /\ gws \in [Gateways -> GatewayObjs \union {Absent}]
    /\ nodes \in [Nodes -> NodeObjs \union {Absent}]
    /\ svc \in ServiceObjs \union {Absent}
    /\ svcCache = svc /\ svcWatch = << >>
    /\ eps \in EndpointsObjs \union {Absent}
    /\ epsCache = eps /\ epsWatch = << >>
    /\ queued = someWork(gws, svc, eps)
    /\ pc = "idle" /\ gwList = NoList /\ target = Absent /\ fresh = FALSE
    /\ missed = FALSE
    /\ disturbances = 0

ForgetLocals ==
    pc' = "idle" /\ gwList' = NoList /\ target' = Absent /\ fresh' = FALSE

Disturb == /\ disturbances < MaxDisturbances
           /\ disturbances' = disturbances + 1

\* A version of the Service or of the Endpoints is written.
WriteService(obj) == svc' = obj /\ svcWatch' = Append(svcWatch, obj)
WriteEndpoints(obj) == eps' = obj /\ epsWatch' = Append(epsWatch, obj)

-----------------------------------------------------------------------------
(***************************************************************************)
(* The environment.                                                        *)
(***************************************************************************)

mapGatewayToRequest(obj) == IsGatewayExposeByLB(obj)

\* A variant with a bug: only the new object of an update is mapped.
gatewayQueuesNew(old, new) == mapGatewayToRequest(new)

\* EnqueueRequestsFromMapFunc maps both objects of an update.
gatewayQueues(old, new) ==
    mapGatewayToRequest(old) \/ mapGatewayToRequest(new)

\* Users and the Gateway controller change a Gateway, and the cache shows it.
ChangeGateway(g, obj) ==
    /\ gws[g] # obj
    /\ Disturb
    /\ gws' = [gws EXCEPT ![g] = obj]
    /\ queued' = (queued \/ gatewayQueues(gws[g], obj))
    /\ UNCHANGED <<nodes, service, endpoints, locals, missed>>

\* No watch of this controller is on Nodes.
ChangeNode(n, obj) ==
    /\ nodes[n] # obj
    /\ Disturb
    /\ nodes' = [nodes EXCEPT ![n] = obj]
    /\ UNCHANGED <<gws, service, endpoints, queued, locals, missed>>

\* A user deletes or creates the Service, the cloud sets its ingress.
ChangeService(obj) ==
    /\ svc # obj
    /\ Disturb
    /\ Len(svcWatch) < MaxLag
    /\ WriteService(obj)
    /\ UNCHANGED <<cached, svcCache, endpoints, queued, locals, missed>>

\* Users and Kubernetes' endpoints controller write and delete Endpoints.
ChangeEndpoints(obj) ==
    /\ eps # obj
    /\ Disturb
    /\ Len(epsWatch) < MaxLag
    /\ WriteEndpoints(obj)
    /\ fresh' = FALSE
    /\ UNCHANGED <<cached, service, epsCache, queued, pc, gwList, target, missed>>

-----------------------------------------------------------------------------
(***************************************************************************)
(* Informers: ServicePredicates and mapEndpointToRequest let every event   *)
(* of the two objects through.                                             *)
(***************************************************************************)

DeliverService ==
    /\ svcWatch # << >>
    /\ svcCache' = Head(svcWatch)
    /\ svcWatch' = Tail(svcWatch)
    /\ queued' = TRUE
    /\ UNCHANGED <<cached, svc, endpoints, locals, missed, disturbances>>

DeliverEndpoints ==
    /\ epsWatch # << >>
    /\ epsCache' = Head(epsWatch)
    /\ epsWatch' = Tail(epsWatch)
    /\ queued' = TRUE
    /\ UNCHANGED <<cached, service, eps, locals, missed, disturbances>>

\* A broken watch is replaced by a list.  A Service, or Endpoints, created
\* and deleted meanwhile leave no trace.
RelistService ==
    /\ svcWatch # << >>
    /\ svcCache' = svc
    /\ svcWatch' = << >>
    /\ queued' = (queued \/ svc # Absent \/ svcCache # Absent)
    /\ missed' = (missed \/ (svc = Absent /\ svcCache = Absent))
    /\ UNCHANGED <<cached, svc, endpoints, locals, disturbances>>

RelistEndpoints ==
    /\ epsWatch # << >>
    /\ epsCache' = eps
    /\ epsWatch' = << >>
    /\ queued' = (queued \/ eps # Absent \/ epsCache # Absent)
    /\ missed' = (missed \/ (eps = Absent /\ epsCache = Absent))
    /\ UNCHANGED <<cached, service, eps, locals, disturbances>>

\* The periodic resync repeats an update of every cached object.
Resync ==
    /\ queued' = (queued \/ someWork(gws, svcCache, epsCache))
    /\ UNCHANGED <<cached, service, endpoints, locals, missed, disturbances>>

-----------------------------------------------------------------------------
(***************************************************************************)
(* ServiceReconciler.Reconcile.                                            *)
(***************************************************************************)

StartReconcile ==
    /\ pc = "idle" /\ queued
    /\ queued' = FALSE
    /\ gwList' = gws
    /\ pc' = "service"
    /\ missed' = FALSE
    /\ UNCHANGED <<cached, service, endpoints, target, fresh, disturbances>>

\* A variant with a bug: an error drops the request.
RequeueNothing == queued' = queued /\ ForgetLocals

\* A returned error makes the work queue add the name again.
Requeue == queued' = TRUE /\ ForgetLocals

Return == queued' = queued /\ ForgetLocals

GetService ==
    /\ pc = "service" /\ exposed(gwList) # {}
    /\ pc' = IF svcCache = Absent THEN "createService" ELSE "endpoints"
    /\ UNCHANGED <<cached, service, endpoints, queued, gwList, target, fresh,
                   missed, disturbances>>

CreateService ==
    /\ pc = "createService"
    /\ IF svc = Absent
       THEN /\ WriteService(NewService)
            /\ pc' = "endpoints"
            /\ UNCHANGED <<queued, gwList, target, fresh>>
       ELSE UNCHANGED <<svc, svcWatch>> /\ Requeue
    /\ UNCHANGED <<cached, svcCache, endpoints, missed, disturbances>>

\* What a Delete call does; one of an absent object is ignored.
DeleteService ==
    IF svc # Absent THEN WriteService(Absent) ELSE UNCHANGED <<svc, svcWatch>>
DeleteEndpoints ==
    IF eps # Absent THEN WriteEndpoints(Absent) ELSE UNCHANGED <<eps, epsWatch>>

CleanService ==
    /\ pc = "service" /\ exposed(gwList) = {}
    /\ DeleteService
    /\ pc' = "endpoints"
    /\ UNCHANGED <<cached, svcCache, endpoints, queued, gwList, target, fresh,
                   missed, disturbances>>

\* A variant with a bug: a gateway that is not exposed serves too.
GetNodeOfAny(g) ==
    /\ pc = "endpoints" /\ exposed(gwList) # {}
    /\ gwList[g] # Absent /\ gwList[g].active # NoEndpoint
    /\ nodes[gwList[g].active.node] # Absent
    /\ target' = [node |-> gwList[g].active.node,
                  addr |-> nodes[gwList[g].active.node].addr]
    /\ pc' = "getEndpoints"
    /\ UNCHANGED <<cached, service, endpoints, queued, gwList, fresh, missed,
                   disturbances>>

\* Gateway g is the first serving one of the list.
GetNode(g) ==
    LET n == gwList[g].active.node
    IN  /\ pc = "endpoints" /\ g \in serving(gwList)
        /\ IF nodes[n] = Absent
           THEN Requeue
           ELSE /\ target' = [node |-> n, addr |-> nodes[n].addr]
                /\ pc' = "getEndpoints"
                /\ UNCHANGED <<queued, gwList, fresh>>
        /\ UNCHANGED <<cached, service, endpoints, missed, disturbances>>

\* Gateways are exposed and none is active: the Endpoints stay as they are.
LeaveEndpoints ==
    /\ pc = "endpoints" /\ exposed(gwList) # {} /\ serving(gwList) = {}
    /\ Return
    /\ UNCHANGED <<cached, service, endpoints, missed, disturbances>>

CleanEndpoint ==
    /\ pc = "endpoints" /\ exposed(gwList) = {}
    /\ DeleteEndpoints
    /\ Return
    /\ UNCHANGED <<cached, service, epsCache, missed, disturbances>>

GetEndpoints ==
    /\ pc = "getEndpoints"
    /\ IF epsCache = target
       THEN Return
       ELSE /\ pc' = IF epsCache = Absent THEN "createEndpoints"
                                          ELSE "updateEndpoints"
            /\ fresh' = (epsWatch = << >>)
            /\ UNCHANGED <<queued, gwList, target>>
    /\ UNCHANGED <<cached, service, endpoints, missed, disturbances>>

CreateEndpoints ==
    /\ pc = "createEndpoints"
    /\ IF eps = Absent
       THEN WriteEndpoints(target) /\ Return
       ELSE UNCHANGED <<eps, epsWatch>> /\ Requeue
    /\ UNCHANGED <<cached, service, epsCache, missed, disturbances>>

\* A copy that is not current is refused.
UpdateEndpoints ==
    /\ pc = "updateEndpoints"
    /\ IF fresh
       THEN WriteEndpoints(target) /\ Return
       ELSE UNCHANGED <<eps, epsWatch>> /\ Requeue
    /\ UNCHANGED <<cached, service, epsCache, missed, disturbances>>

\* A write is served and its answer is lost.
LoseReply ==
    /\ Disturb
    /\ \/ /\ pc = "createService" /\ svc = Absent
          /\ WriteService(NewService) /\ UNCHANGED <<eps, epsWatch>>
       \/ /\ pc = "service" /\ exposed(gwList) = {}
          /\ DeleteService /\ UNCHANGED <<eps, epsWatch>>
       \/ /\ pc = "endpoints" /\ exposed(gwList) = {}
          /\ DeleteEndpoints /\ UNCHANGED <<svc, svcWatch>>
       \/ /\ \/ pc = "createEndpoints" /\ eps = Absent
             \/ pc = "updateEndpoints" /\ fresh
          /\ WriteEndpoints(target) /\ UNCHANGED <<svc, svcWatch>>
    /\ Requeue
    /\ UNCHANGED <<cached, svcCache, epsCache, missed>>

\* A write fails.
FailReconcile ==
    /\ \/ pc \in {"createService", "createEndpoints", "updateEndpoints"}
       \/ pc \in {"service", "endpoints"} /\ exposed(gwList) = {}
    /\ Disturb
    /\ Requeue
    /\ UNCHANGED <<cached, service, endpoints, missed>>

\* The process starts again: caches are listed and their objects created.
Crash ==
    /\ Disturb
    /\ svcCache' = svc /\ svcWatch' = << >>
    /\ epsCache' = eps /\ epsWatch' = << >>
    /\ queued' = someWork(gws, svc, eps)
    /\ missed' = FALSE
    /\ ForgetLocals
    /\ UNCHANGED <<cached, svc, eps>>

-----------------------------------------------------------------------------

Environment ==
    \/ \E g \in Gateways, obj \in GatewayObjs \union {Absent} :
           ChangeGateway(g, obj)
    \/ \E n \in Nodes, obj \in NodeObjs \union {Absent} : ChangeNode(n, obj)
    \/ \E obj \in ServiceObjs \union {Absent} : ChangeService(obj)
    \/ \E obj \in {Foreign, Absent} : ChangeEndpoints(obj)

Informers ==
    \/ DeliverService \/ DeliverEndpoints
    \/ RelistService \/ RelistEndpoints
    \/ Resync

Proceed ==
    \/ StartReconcile
    \/ GetService \/ CreateService \/ CleanService
    \/ \E g \in Gateways : GetNode(g)
    \/ LeaveEndpoints \/ CleanEndpoint
    \/ GetEndpoints \/ CreateEndpoints \/ UpdateEndpoints

Next ==
    \/ Environment
    \/ Informers
    \/ Proceed
    \/ LoseReply \/ FailReconcile \/ Crash

Spec == Init /\ [][Next]_vars

(***************************************************************************)
(* Watches deliver and the worker does not stop.  Nothing forces a change  *)
(* from outside, a fault, a relist or the resync.                          *)
(***************************************************************************)
FairSpec == /\ Spec
            /\ WF_vars(DeliverService) /\ WF_vars(DeliverEndpoints)
            /\ WF_vars(Proceed)
=============================================================================
