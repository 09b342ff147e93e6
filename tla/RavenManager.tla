---------------------------- MODULE RavenManager ----------------------------
(***************************************************************************)
(* The two controllers in the one process of main.go.  They share the      *)
(* manager's caches and wait on each other's objects: the Gateway          *)
(* controller reads the Service that the Service controller makes, and the *)
(* Service controller reads the Gateways whose status the Gateway          *)
(* controller writes.  A panic of one ends both.                           *)
(*                                                                         *)
(* Their steps are those of GatewayController and ServiceController (with  *)
(* their properties); only where an event or a restart concerns both is a  *)
(* step written here.                                                      *)
(* Broken watches are left to the two modules.                             *)
(***************************************************************************)
EXTENDS GatewayObjects

CONSTANTS
    BlockSets, NoIngress, Foreign,
    MaxLag, MaxDisturbances     \* bounds, as in the two modules

VARIABLES
    \* API server
    gws, nodes, service, eps,
    \* the shared caches, and versions on their way there
    gwCache, gwWatch, nodeCache, nodeWatch, svc, svcWatch, epsCache, epsWatch,
    blocks,
    \* the Gateway controller
    queue, pc, cur, gw, fresh, nodeList, activeEp, event, infos,
    \* the Service controller
    queued, servicePc, gwList, target, epsFresh, missed,
    ingresses,      \* history: the IPs the Service was given
    disturbances

G == INSTANCE GatewayProperties
        WITH Services <- {Absent, NoIngress} \union PublicIPs,
             NoService <- Absent

\* What the Service controller reads are the caches of the manager.
S == INSTANCE ServiceProperties
        WITH gws <- gwCache, nodes <- nodeCache, svc <- service,
             svcCache <- svc, pc <- servicePc, fresh <- epsFresh,
             GatewayObjs <- Gateway, NewService <- NoIngress,
             ServiceObjs <- {NoIngress} \union PublicIPs

ASSUME BlockSetsAssumption == BlockSets \subseteq SUBSET G!Block
ASSUME ValuesAssumption ==
    /\ {Absent, NoIngress} \intersect (PublicIPs \union {NoIP}) = {}
    /\ Absent \notin {NoIngress, Foreign} \union S!Target
    /\ Foreign \notin S!Target
ASSUME BoundsAssumption == MaxLag \in Nat \ {0} /\ MaxDisturbances \in Nat

gatewayLocals == <<pc, cur, gw, fresh, nodeList, activeEp, event, infos>>
serviceLocals == <<servicePc, gwList, target, epsFresh, missed>>
gatewayOnly == <<gws, nodes, gwCache, gwWatch, nodeCache, nodeWatch, blocks,
                 queue, gatewayLocals>>
serviceOnly == <<service, svcWatch, eps, epsCache, epsWatch, queued,
                 serviceLocals>>
vars == <<gatewayOnly, svc, serviceOnly, ingresses, disturbances>>

\* The cluster has never had a gateway that was exposed.
Init ==
    /\ G!Init /\ svc = Absent
    /\ service = Absent /\ svcWatch = << >>
    /\ eps = Absent /\ epsCache = Absent /\ epsWatch = << >>
    /\ queued = S!someWork(gwCache, Absent, Absent)
    /\ servicePc = "idle" /\ gwList = S!NoList /\ target = Absent
    /\ epsFresh = FALSE /\ missed = FALSE
    /\ ingresses = {}

-----------------------------------------------------------------------------

\* A variant with a bug: the Service controller hears of a Gateway only when
\* it comes to be exposed or ceases to be.
DeliverGatewayExposure(g) ==
    /\ G!DeliverGateway(g)
    /\ queued' = (queued \/ S!exposed(gwCache) # S!exposed(gwCache'))
    /\ UNCHANGED <<service, svcWatch, eps, epsCache, epsWatch, serviceLocals,
                   ingresses>>

\* A change of a Gateway in the cache is an event for both.
DeliverGateway(g) ==
    /\ G!DeliverGateway(g)
    /\ queued' = (queued \/ S!gatewayQueues(gwCache[g], gwCache'[g]))
    /\ UNCHANGED <<service, svcWatch, eps, epsCache, epsWatch, serviceLocals,
                   ingresses>>

\* The process starts again with the manager's caches listed.
Restart ==
    /\ gwCache' = gws /\ gwWatch' = G!noVersions(Gateways)
    /\ nodeCache' = nodes /\ nodeWatch' = G!noVersions(Nodes)
    /\ svc' = service /\ svcWatch' = << >>
    /\ epsCache' = eps /\ epsWatch' = << >>
    /\ queue' = existing(gws)
    /\ queued' = S!someWork(gws, service, eps)
    /\ G!ForgetLocals /\ S!ForgetLocals
    /\ UNCHANGED <<gws, nodes, blocks, service, eps, missed, ingresses>>

Panic ==
    /\ pc = "svc" /\ svc \notin {Absent, NoIngress} /\ activeEp = NoEndpoint
    /\ Restart
    /\ UNCHANGED disturbances

Crash == G!Disturb /\ Restart

\* The cloud gives the Service an IP, not always the same.
SetIngress ==
    /\ service = NoIngress
    /\ \E ip \in PublicIPs : /\ S!WriteService(ip)
                             /\ ingresses' = ingresses \union {ip}
    /\ UNCHANGED <<gatewayOnly, svc, eps, epsCache, epsWatch, queued,
                   serviceLocals, disturbances>>

-----------------------------------------------------------------------------

Environment ==
    \/ /\ \/ \E g \in Gateways, s \in Specs : G!CreateGateway(g, s)
          \/ \E g \in Gateways, s \in Specs : G!UpdateGateway(g, s)
          \/ \E g \in Gateways : G!DeleteGateway(g)
          \/ \E n \in Nodes, obj \in NodeObjs \union {Absent} :
                G!ChangeNode(n, obj)
       /\ UNCHANGED <<serviceOnly, ingresses>>
    \/ /\ \/ S!ChangeService(Absent)
          \/ \E obj \in {Foreign, Absent} : S!ChangeEndpoints(obj)
       /\ UNCHANGED <<gatewayOnly, ingresses>>

DeliverNode(n) == G!DeliverNode(n) /\ UNCHANGED <<serviceOnly, ingresses>>

DeliverService == S!DeliverService /\ UNCHANGED <<gatewayOnly, ingresses>>

DeliverEndpoints == S!DeliverEndpoints /\ UNCHANGED <<gatewayOnly, ingresses>>

Resync ==
    \/ G!Resync /\ UNCHANGED <<serviceOnly, ingresses>>
    \/ S!Resync /\ UNCHANGED <<gatewayOnly, ingresses>>

StartReconcile(g) ==
    G!StartReconcile(g) /\ UNCHANGED <<serviceOnly, ingresses>>

ProceedGateway ==
    \/ /\ \/ G!ListNodes \/ G!WaitForService \/ G!UseServiceIP
          \/ \E n \in Nodes : G!CollectNode(n)
          \/ G!UpdateStatus
       /\ UNCHANGED <<serviceOnly, ingresses>>
    \/ Panic

ProceedService == S!Proceed /\ UNCHANGED <<gatewayOnly, ingresses>>

Faults ==
    \/ /\ G!LoseReply \/ G!FailReconcile
       /\ UNCHANGED <<serviceOnly, ingresses>>
    \/ /\ S!LoseReply \/ S!FailReconcile
       /\ UNCHANGED <<gatewayOnly, ingresses>>
    \/ Crash

Next ==
    \/ Environment
    \/ SetIngress
    \/ \E g \in Gateways : DeliverGateway(g) \/ StartReconcile(g)
    \/ \E n \in Nodes : DeliverNode(n)
    \/ DeliverService \/ DeliverEndpoints
    \/ Resync
    \/ ProceedGateway \/ ProceedService
    \/ Faults

Spec == Init /\ [][Next]_vars

(***************************************************************************)
(* As in the two modules; and the cloud gives a Service its IP some time.  *)
(***************************************************************************)
FairSpec ==
    /\ Spec
    /\ \A g \in Gateways : /\ WF_vars(DeliverGateway(g))
                           /\ SF_vars(StartReconcile(g))
    /\ \A n \in Nodes : WF_vars(DeliverNode(n))
    /\ WF_vars(DeliverService) /\ WF_vars(DeliverEndpoints)
    /\ WF_vars(ProceedGateway) /\ WF_vars(ProceedService)
    /\ WF_vars(SetIngress)
=============================================================================
