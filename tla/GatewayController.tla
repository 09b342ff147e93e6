------------------------- MODULE GatewayController -------------------------
(***************************************************************************)
(* The Gateway controller (controllers/gateway): Gateway and Node objects  *)
(* in the API server, the informer caches that lag behind it, the work     *)
(* queue, and the single worker that runs GatewayReconciler.Reconcile one  *)
(* client call at a time.                                                  *)
(*                                                                         *)
(* Every client read is served by an informer cache and every write goes   *)
(* to the API server, which refuses a write made from an old copy.  A      *)
(* version that was written and is not in the cache yet waits in a FIFO    *)
(* per object.                                                             *)
(***************************************************************************)
EXTENDS GatewayObjects

CONSTANTS
    BlockSets,    \* the contents the Calico BlockAffinity list takes
    Services,     \* the states raven-agent-service takes
    NoService,    \* ... it does not exist,
    NoIngress,    \* ... it has no load balancer ingress yet; else its IP
    MaxLag,       \* bound: undelivered versions of one object
    MaxDisturbances \* bound: changes by users and kubelets, faults, crashes

Block == [node : Nodes, cidr : CIDRs, confirmed : BOOLEAN]

ASSUME BlockSetsAssumption == BlockSets \subseteq SUBSET Block
ASSUME ServicesAssumption ==
    /\ Services \subseteq {NoService, NoIngress, NoIP} \union PublicIPs
    /\ {NoService, NoIngress} \intersect (PublicIPs \union {NoIP}) = {}
ASSUME BoundsAssumption == MaxLag \in Nat \ {0} /\ MaxDisturbances \in Nat

VARIABLES
    gws,        \* [Gateways -> Gateway or Absent], in the API server
    nodes,      \* [Nodes -> NodeObjs or Absent], in the API server
    gwCache,    \* the Gateway informer's cache
    nodeCache,  \* the Node informer's cache
    gwWatch,    \* per gateway, the versions not in the cache yet
    nodeWatch,  \* per node, the versions not in the cache yet
    svc,        \* raven-agent-service, as its informer's cache shows it
    blocks,     \* BlockAffinity objects, as their informer's cache shows them
    queue,      \* the work queue: names waiting for Reconcile
    \* Reconcile's locals; they have their idle values between two requests
    pc,         \* "idle", "list", "svc" or "collect": the next client call
    cur,        \* req.Name
    gw,         \* the copy of the gateway read at the start
    fresh,      \* gw still has the API server's resourceVersion
    nodeList,   \* the managed nodes listed, Absent elsewhere
    activeEp,   \* the endpoint elected
    event,      \* the event recorded
    infos,      \* the NodeInfo list built so far
    disturbances

api == <<gws, nodes>>
gwInformer == <<gwCache, gwWatch>>
nodeInformer == <<nodeCache, nodeWatch>>
externals == <<svc, blocks>>
locals == <<pc, cur, gw, fresh, nodeList, activeEp, event, infos>>
vars == <<gws, nodes, gwCache, nodeCache, gwWatch, nodeWatch, svc, blocks,
          queue, pc, cur, gw, fresh, nodeList, activeEp, event, infos,
          disturbances>>

-----------------------------------------------------------------------------
\* getPodCIDRs: Calico's confirmed blocks on an annotated node.
podCIDRs(n, obj) ==
    IF obj.calico
    THEN {b.cidr : b \in {c \in blocks : c.node = n /\ c.confirmed}}
    ELSE {obj.podCIDR}

nodeInfo(n) == [node |-> n, privateIP |-> nodeList[n].addr,
                subnets |-> podCIDRs(n, nodeList[n])]

-----------------------------------------------------------------------------

NoNodes == [n \in Nodes |-> Absent]
noVersions(S) == [x \in S |-> << >>]

Init ==
    /\ gws \in [Gateways -> {NewGateway(s) : s \in Specs} \union {Absent}]
    /\ nodes \in [Nodes -> NodeObjs \union {Absent}]
    /\ gwCache = gws /\ gwWatch = noVersions(Gateways)
    /\ nodeCache = nodes /\ nodeWatch = noVersions(Nodes)
    /\ svc \in Services /\ blocks \in BlockSets
    /\ queue = existing(gws)
    /\ pc = "idle" /\ cur = NoGateway /\ gw = Absent /\ fresh = FALSE
    /\ nodeList = NoNodes /\ activeEp = NoEndpoint /\ event = NoEvent
    /\ infos = << >>
    /\ disturbances = 0

\* Reconcile returns, or the process exits: its locals are gone.
ForgetLocals ==
    /\ pc' = "idle" /\ cur' = NoGateway /\ gw' = Absent /\ fresh' = FALSE
    /\ nodeList' = NoNodes /\ activeEp' = NoEndpoint /\ event' = NoEvent
    /\ infos' = << >>

Disturb == /\ disturbances < MaxDisturbances
           /\ disturbances' = disturbances + 1

-----------------------------------------------------------------------------
(***************************************************************************)
(* The environment: users write Gateway specs, kubelets and users change   *)
(* Nodes, Calico its blocks, the cloud the load balancer.                  *)
(***************************************************************************)

\* A version is written: every copy read before is now old.
WriteGateway(g, obj) ==
    /\ gws' = [gws EXCEPT ![g] = obj]
    /\ gwWatch' = [gwWatch EXCEPT ![g] = Append(@, obj)]

UserWritesGateway(g, obj) ==
    /\ Disturb
    /\ Len(gwWatch[g]) < MaxLag
    /\ WriteGateway(g, obj)
    /\ fresh' = (fresh /\ cur # g)
    /\ UNCHANGED <<nodes, gwCache, nodeInformer, externals, queue, pc, cur,
                   gw, nodeList, activeEp, event, infos>>

CreateGateway(g, s) ==
    /\ gws[g] = Absent
    /\ UserWritesGateway(g, NewGateway(s))

\* The status subresource keeps an update of the spec off the status.
UpdateGateway(g, s) ==
    /\ gws[g] # Absent /\ gws[g].spec # s
    /\ UserWritesGateway(g, [gws[g] EXCEPT !.spec = s])

DeleteGateway(g) ==
    /\ gws[g] # Absent
    /\ UserWritesGateway(g, Absent)

ChangeNode(n, obj) ==
    /\ nodes[n] # obj
    /\ Disturb
    /\ Len(nodeWatch[n]) < MaxLag
    /\ nodes' = [nodes EXCEPT ![n] = obj]
    /\ nodeWatch' = [nodeWatch EXCEPT ![n] = Append(@, obj)]
    /\ UNCHANGED <<gws, gwInformer, nodeCache, externals, queue, locals>>

\* The reconciler only reads the Service and the BlockAffinities, and no
\* watch of this controller wakes it: their caches change and nothing else.
ChangeService(s) ==
    /\ svc # s
    /\ Disturb
    /\ svc' = s
    /\ UNCHANGED <<api, gwInformer, nodeInformer, blocks, queue, locals>>

ChangeBlocks(B) ==
    /\ blocks # B
    /\ Disturb
    /\ blocks' = B
    /\ UNCHANGED <<api, gwInformer, nodeInformer, svc, queue, locals>>

-----------------------------------------------------------------------------
(***************************************************************************)
(* Informers.  A delivered version enters the cache and its event handler  *)
(* runs.                                                                   *)
(***************************************************************************)

DeliverGateway(g) ==
    /\ gwWatch[g] # << >>
    /\ gwCache' = [gwCache EXCEPT ![g] = Head(gwWatch[g])]
    /\ gwWatch' = [gwWatch EXCEPT ![g] = Tail(@)]
    /\ queue' = queue \union {g}
    /\ UNCHANGED <<api, nodeInformer, externals, locals, disturbances>>

\* A broken watch is replaced by a list: only the last versions are seen.
RelistGateways ==
    /\ \E g \in Gateways : gwWatch[g] # << >>
    /\ gwCache' = gws
    /\ gwWatch' = noVersions(Gateways)
    /\ queue' = queue \union {g \in Gateways : gwWatch[g] # << >>}
    /\ UNCHANGED <<api, nodeInformer, externals, locals, disturbances>>

\* A variant with a bug: label changes are filtered out.
notableReadiness(old, new) ==
    old = Absent \/ new = Absent \/ old.ready # new.ready

\* NodeChangedPredicates: creations and deletions pass; updates do when
\* readiness or the gateway label changed.
notable(old, new) ==
    \/ old = Absent
    \/ new = Absent
    \/ old.gw # new.gw
    \/ old.ready # new.ready

\* A variant with a bug: an empty label is mapped too.
mapAnyLabel(obj) == IF obj = Absent THEN {} ELSE {obj.gw}

mapNodeToRequest(obj) ==
    IF obj = Absent THEN {} ELSE existing(gwCache) \intersect {obj.gw}

\* A variant with a bug: only the new object of an update is mapped.
requestsOfNew(old, new) ==
    IF notable(old, new) THEN mapNodeToRequest(new) ELSE {}

\* EnqueueRequestsFromMapFunc maps both objects of an update.
requests(old, new) ==
    IF notable(old, new)
    THEN mapNodeToRequest(old) \union mapNodeToRequest(new)
    ELSE {}

DeliverNode(n) ==
    /\ nodeWatch[n] # << >>
    /\ nodeCache' = [nodeCache EXCEPT ![n] = Head(nodeWatch[n])]
    /\ nodeWatch' = [nodeWatch EXCEPT ![n] = Tail(@)]
    /\ queue' = queue \union requests(nodeCache[n], Head(nodeWatch[n]))
    /\ UNCHANGED <<api, gwInformer, externals, locals, disturbances>>

RelistNodes ==
    /\ \E n \in Nodes : nodeWatch[n] # << >>
    /\ nodeCache' = nodes
    /\ nodeWatch' = noVersions(Nodes)
    /\ queue' = queue \union UNION {requests(nodeCache[n], nodes[n]) :
                        n \in {m \in Nodes : nodeCache[m] # nodes[m]}}
    /\ UNCHANGED <<api, gwInformer, externals, locals, disturbances>>

\* The informer's periodic resync repeats an update of every cached gateway;
\* the node predicate drops the repeated updates of nodes.
Resync ==
    /\ queue' = queue \union existing(gwCache)
    /\ UNCHANGED <<api, gwInformer, nodeInformer, externals, locals,
                   disturbances>>

-----------------------------------------------------------------------------
(***************************************************************************)
(* GatewayReconciler.Reconcile.                                            *)
(***************************************************************************)

StartReconcile(g) ==
    /\ pc = "idle" /\ g \in queue
    /\ queue' = queue \ {g}
    /\ IF gwCache[g] = Absent
       THEN UNCHANGED locals
       ELSE /\ pc' = "list" /\ cur' = g /\ gw' = gwCache[g]
            /\ fresh' = (gwWatch[g] = << >>)
            /\ UNCHANGED <<nodeList, activeEp, event, infos>>
    /\ UNCHANGED <<api, gwInformer, nodeInformer, externals, disturbances>>

ListNodes ==
    LET elected == electedFor(cur, gw, nodeCache)
    IN  /\ pc = "list"
        /\ nodeList' = [n \in Nodes |-> IF n \in managed(cur, nodeCache)
                                        THEN nodeCache[n] ELSE Absent]
        /\ activeEp' = elected
        /\ event' = recordEndpointEvent(gw.active, elected)
        /\ pc' = IF gw.spec.lb THEN "svc" ELSE "collect"
        /\ UNCHANGED <<api, gwInformer, nodeInformer, externals, queue, cur,
                       gw, fresh, infos, disturbances>>

\* A variant with a bug: an error drops the request.
RequeueNothing == queue' = queue /\ ForgetLocals

\* Any return that makes the work queue add the request again.
Requeue ==
    /\ queue' = queue \union {cur}
    /\ ForgetLocals

\* A variant with a bug: without an ingress the request is dropped.
GiveUpOnService ==
    /\ pc = "svc" /\ svc \in {NoService, NoIngress}
    /\ RequeueNothing
    /\ UNCHANGED <<api, gwInformer, nodeInformer, externals, disturbances>>

WaitForService ==
    /\ pc = "svc" /\ svc \in {NoService, NoIngress}
    /\ Requeue
    /\ UNCHANGED <<api, gwInformer, nodeInformer, externals, disturbances>>

UseServiceIP ==
    /\ pc = "svc" /\ svc \notin {NoService, NoIngress}
    /\ activeEp # NoEndpoint
    /\ activeEp' = [activeEp EXCEPT !.ip = svc]
    /\ pc' = "collect"
    /\ UNCHANGED <<api, gwInformer, nodeInformer, externals, queue, cur, gw,
                   fresh, nodeList, event, infos, disturbances>>

\* The process starts again: its caches are listed, every gateway is queued.
Restart ==
    /\ gwCache' = gws /\ gwWatch' = noVersions(Gateways)
    /\ nodeCache' = nodes /\ nodeWatch' = noVersions(Nodes)
    /\ queue' = existing(gws)
    /\ ForgetLocals
    /\ UNCHANGED <<api, externals>>

\* activeEp.PublicIP is assigned through a nil pointer.
PanicOnNilEndpoint ==
    /\ pc = "svc" /\ svc \notin {NoService, NoIngress}
    /\ activeEp = NoEndpoint
    /\ Restart
    /\ UNCHANGED disturbances

remaining == managed(cur, nodeList) \ namesIn(infos)

CollectNode(n) ==
    /\ pc = "collect" /\ n \in remaining
    /\ infos' = Append(infos, nodeInfo(n))
    /\ UNCHANGED <<api, gwInformer, nodeInformer, externals, queue, pc, cur,
                   gw, fresh, nodeList, activeEp, event, disturbances>>

\* What Reconcile sends: its copy with a new status.
newStatus == [gw EXCEPT !.active = activeEp, !.nodes = infos]

\* A variant with a bug: the status is patched whatever the version is.
ServePatch ==
    IF gws[cur] # Absent
    THEN WriteGateway(cur, [gws[cur] EXCEPT !.active = activeEp,
                                            !.nodes = infos])
    ELSE UNCHANGED <<gws, gwWatch>>

\* What the API server makes of the write: an old copy is refused, a write
\* that changes nothing makes no version.
ServeUpdate ==
    IF fresh /\ newStatus # gws[cur]
    THEN WriteGateway(cur, newStatus)
    ELSE UNCHANGED <<gws, gwWatch>>

UpdateStatus ==
    /\ pc = "collect" /\ remaining = {}
    /\ ServeUpdate
    /\ IF fresh THEN UNCHANGED queue /\ ForgetLocals ELSE Requeue
    /\ UNCHANGED <<nodes, gwCache, nodeInformer, externals, disturbances>>

\* The write is served and its answer is lost.
LoseReply ==
    /\ pc = "collect" /\ remaining = {} /\ fresh
    /\ Disturb
    /\ ServeUpdate
    /\ Requeue
    /\ UNCHANGED <<nodes, gwCache, nodeInformer, externals>>

\* A list or the write fails.
FailReconcile ==
    /\ pc \in {"list", "collect"}
    /\ Disturb
    /\ Requeue
    /\ UNCHANGED <<api, gwInformer, nodeInformer, externals>>

Crash == Disturb /\ Restart

-----------------------------------------------------------------------------

Environment ==
    \/ \E g \in Gateways, s \in Specs : CreateGateway(g, s)
    \/ \E g \in Gateways, s \in Specs : UpdateGateway(g, s)
    \/ \E g \in Gateways : DeleteGateway(g)
    \/ \E n \in Nodes, obj \in NodeObjs \union {Absent} : ChangeNode(n, obj)
    \/ \E s \in Services : ChangeService(s)
    \/ \E B \in BlockSets : ChangeBlocks(B)

Informers ==
    \/ \E g \in Gateways : DeliverGateway(g)
    \/ \E n \in Nodes : DeliverNode(n)
    \/ RelistGateways
    \/ RelistNodes
    \/ Resync

\* The steps the worker goes on taking once a request has started.
Proceed ==
    \/ ListNodes
    \/ WaitForService
    \/ UseServiceIP
    \/ PanicOnNilEndpoint
    \/ \E n \in Nodes : CollectNode(n)
    \/ UpdateStatus

Faults == LoseReply \/ FailReconcile \/ Crash

Next ==
    \/ Environment
    \/ Informers
    \/ \E g \in Gateways : StartReconcile(g)
    \/ Proceed
    \/ Faults

Spec == Init /\ [][Next]_vars

(***************************************************************************)
(* Watches deliver, the worker does not stop, and the work queue is FIFO:  *)
(* a name in it is taken some time after the worker is idle.  Nothing      *)
(* forces a user, a kubelet, a fault, a relist or the ten-hour resync.     *)
(***************************************************************************)
Fairness ==
    /\ \A g \in Gateways : /\ WF_vars(DeliverGateway(g))
                           /\ SF_vars(StartReconcile(g))
    /\ \A n \in Nodes : WF_vars(DeliverNode(n))
    /\ WF_vars(Proceed)

FairSpec == Spec /\ Fairness
=============================================================================
