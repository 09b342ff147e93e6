------------------------ MODULE RavenManager_proofs -------------------------
(***************************************************************************)
(* Proofs about the two controllers in one process.  The proofs about each *)
(* are instantiated; what is new is how their steps meet.                  *)
(***************************************************************************)
EXTENDS ManagerProperties, FiniteSetTheorems, TLAPS

GatewayProofs == INSTANCE GatewaySafety_proofs
        WITH Services <- {Absent, NoIngress} \union PublicIPs,
             NoService <- Absent
ServiceProofs == INSTANCE ServiceController_proofs
        WITH gws <- gwCache, nodes <- nodeCache, svc <- service,
             svcCache <- svc, pc <- servicePc, fresh <- epsFresh,
             GatewayObjs <- Gateway, NewService <- NoIngress,
             ServiceObjs <- {NoIngress} \union PublicIPs

-----------------------------------------------------------------------------
(* The assumptions of the two modules.                                     *)

LEMMA GatewayAssumptions ==
    /\ NoEndpoint \notin GatewayProofs!Endpoint
    /\ NoIP \notin PublicIPs
    /\ GatewayProofs!WellFormed(Specs)
    /\ NodeObjs \subseteq GatewayProofs!Node
    /\ NoGateway \notin Gateways
    /\ Absent \notin GatewayProofs!Gateway \union GatewayProofs!Node
    /\ BlockSets \subseteq SUBSET GatewayProofs!Block
    /\ {Absent, NoIngress} \union PublicIPs
         \subseteq {Absent, NoIngress, NoIP} \union PublicIPs
    /\ {Absent, NoIngress} \intersect (PublicIPs \union {NoIP}) = {}
    /\ MaxLag \in Nat \ {0} /\ MaxDisturbances \in Nat
<1>1. NoEndpoint \notin GatewayProofs!Endpoint
  BY NoEndpointAssumption DEF GatewayProofs!Endpoint, Endpoint
<1>2. GatewayProofs!WellFormed(Specs)
  BY SpecsAssumption
     DEF GatewayProofs!WellFormed, WellFormed, GatewayProofs!GatewaySpec,
         GatewaySpec, GatewayProofs!Endpoint, Endpoint, GatewayProofs!Range, Range
<1>3. NodeObjs \subseteq GatewayProofs!Node
  BY NodeObjsAssumption DEF GatewayProofs!Node, Node
<1>4. Absent \notin GatewayProofs!Gateway \union GatewayProofs!Node
  BY NamesAssumption
     DEF GatewayProofs!Node, Node, GatewayProofs!Gateway, Gateway,
         GatewayProofs!Endpoint, Endpoint, GatewayProofs!NodeInfo, NodeInfo
<1>5. BlockSets \subseteq SUBSET GatewayProofs!Block
  BY BlockSetsAssumption DEF GatewayProofs!Block, G!Block
<1> QED
  BY <1>1, <1>2, <1>3, <1>4, <1>5, NoIPAssumption, NamesAssumption,
     ValuesAssumption, BoundsAssumption

LEMMA ServiceAssumptions ==
    /\ NoEndpoint \notin ServiceProofs!Endpoint
    /\ NoIP \notin PublicIPs
    /\ ServiceProofs!WellFormed(Specs)
    /\ NodeObjs \subseteq ServiceProofs!Node
    /\ NoGateway \notin Gateways
    /\ Absent \notin ServiceProofs!Gateway \union ServiceProofs!Node
    /\ Gateway \subseteq ServiceProofs!Gateway
    /\ NoIngress \in {NoIngress} \union PublicIPs
    /\ Absent \notin ({NoIngress} \union PublicIPs)
                       \union ServiceProofs!EndpointsObjs
    /\ Foreign \notin ServiceProofs!Target
    /\ MaxLag \in Nat \ {0} /\ MaxDisturbances \in Nat
<1>1. NoEndpoint \notin ServiceProofs!Endpoint
  BY NoEndpointAssumption DEF ServiceProofs!Endpoint, Endpoint
<1>2. ServiceProofs!WellFormed(Specs)
  BY SpecsAssumption
     DEF ServiceProofs!WellFormed, WellFormed, ServiceProofs!GatewaySpec,
         GatewaySpec, ServiceProofs!Endpoint, Endpoint, ServiceProofs!Range, Range
<1>3. NodeObjs \subseteq ServiceProofs!Node
  BY NodeObjsAssumption DEF ServiceProofs!Node, Node
<1>4. Gateway = ServiceProofs!Gateway /\ Node = ServiceProofs!Node
  BY DEF ServiceProofs!Node, Node, ServiceProofs!Gateway, Gateway,
         ServiceProofs!Endpoint, Endpoint, ServiceProofs!NodeInfo, NodeInfo
<1>5. Absent \notin ServiceProofs!Gateway \union ServiceProofs!Node
  BY <1>4, NamesAssumption
<1>6. /\ Absent \notin ({NoIngress} \union PublicIPs)
                         \union ServiceProofs!EndpointsObjs
      /\ Foreign \notin ServiceProofs!Target
  BY ValuesAssumption
     DEF ServiceProofs!EndpointsObjs, ServiceProofs!Target, S!Target
<1> QED
  BY <1>1, <1>2, <1>3, <1>4, <1>5, <1>6, NoIPAssumption, NamesAssumption,
     BoundsAssumption

-----------------------------------------------------------------------------
(* What the proofs about each controller show of its part.                 *)

LEMMA GatewayFacts ==
    /\ GatewayProofs!Init => GatewayProofs!IInv
    /\ GatewayProofs!IInv /\ [GatewayProofs!Next]_GatewayProofs!vars
         => GatewayProofs!IInv'
<1>1. GatewayProofs!Init => GatewayProofs!IInv
  BY GatewayAssumptions, GatewayProofs!IInvInit
<1> QED
  BY <1>1, GatewayAssumptions, GatewayProofs!IInvNext

LEMMA ServiceFacts ==
    /\ ServiceProofs!Init => ServiceProofs!IInv
    /\ ServiceProofs!IInv /\ [ServiceProofs!Next]_ServiceProofs!vars
         => ServiceProofs!IInv'
<1>1. ServiceProofs!Init => ServiceProofs!IInv
  BY ServiceAssumptions, ServiceProofs!IInvInit
<1> QED
  BY <1>1, ServiceAssumptions, ServiceProofs!IInvNext

-----------------------------------------------------------------------------
(* The proofs speak of their own instances of the two modules.  The        *)
(* operators are the same, definition by definition.                       *)

LEMMA SameGatewayInvariant == G!IInv <=> GatewayProofs!IInv
  BY
     DEF G!IInv, GatewayProofs!IInv, G!TypeOK, GatewayProofs!TypeOK,
         G!CachesTrail, GatewayProofs!CachesTrail, G!CopyIsFresh,
         GatewayProofs!CopyIsFresh, G!HeldElection,
         GatewayProofs!HeldElection, G!WakeupPending,
         GatewayProofs!WakeupPending, G!ActiveIsManaged,
         GatewayProofs!ActiveIsManaged, G!Trails, GatewayProofs!Trails,
         G!Agree, GatewayProofs!Agree, G!StatusFits,
         GatewayProofs!StatusFits, G!Competent, GatewayProofs!Competent,
         G!managed, GatewayProofs!managed, G!readyIn, GatewayProofs!readyIn,
         G!namesIn, GatewayProofs!namesIn, G!electedFor,
         GatewayProofs!electedFor, G!recordEndpointEvent,
         GatewayProofs!recordEndpointEvent, G!NoEvent, GatewayProofs!NoEvent,
         G!electActiveEndpoint, GatewayProofs!electActiveEndpoint,
         G!checkActive, GatewayProofs!checkActive, G!firstHostedBy,
         GatewayProofs!firstHostedBy, G!Range, GatewayProofs!Range, G!Min,
         GatewayProofs!Min, G!Version, GatewayProofs!Version, G!Gateway,
         GatewayProofs!Gateway, G!Endpoint, GatewayProofs!Endpoint,
         G!NodeInfo, GatewayProofs!NodeInfo, G!EndpointEvent,
         GatewayProofs!EndpointEvent, G!Atomic!Publishes,
         GatewayProofs!Atomic!Publishes, G!Atomic!ListsSome,
         GatewayProofs!Atomic!ListsSome, G!Atomic!managed,
         GatewayProofs!Atomic!managed, G!Atomic!namesIn,
         GatewayProofs!Atomic!namesIn

LEMMA SameGatewayInvariantNext == G!IInv' <=> GatewayProofs!IInv'
  BY SameGatewayInvariant, PTL

LEMMA SameGatewaySteps ==
    /\ G!Init <=> GatewayProofs!Init
    /\ G!Next <=> GatewayProofs!Next
    /\ G!vars = GatewayProofs!vars
  BY
     DEF G!Init, GatewayProofs!Init, G!Next, GatewayProofs!Next, G!vars,
         GatewayProofs!vars, G!NewGateway, GatewayProofs!NewGateway,
         G!noVersions, GatewayProofs!noVersions, G!existing,
         GatewayProofs!existing, G!NoNodes, GatewayProofs!NoNodes, G!NoEvent,
         GatewayProofs!NoEvent, G!Environment, GatewayProofs!Environment,
         G!Informers, GatewayProofs!Informers, G!StartReconcile,
         GatewayProofs!StartReconcile, G!Proceed, GatewayProofs!Proceed,
         G!Faults, GatewayProofs!Faults, G!CreateGateway,
         GatewayProofs!CreateGateway, G!UpdateGateway,
         GatewayProofs!UpdateGateway, G!DeleteGateway,
         GatewayProofs!DeleteGateway, G!ChangeNode, GatewayProofs!ChangeNode,
         G!ChangeService, GatewayProofs!ChangeService, G!ChangeBlocks,
         GatewayProofs!ChangeBlocks, G!DeliverGateway,
         GatewayProofs!DeliverGateway, G!DeliverNode,
         GatewayProofs!DeliverNode, G!RelistGateways,
         GatewayProofs!RelistGateways, G!RelistNodes,
         GatewayProofs!RelistNodes, G!Resync, GatewayProofs!Resync, G!locals,
         GatewayProofs!locals, G!api, GatewayProofs!api, G!gwInformer,
         GatewayProofs!gwInformer, G!nodeInformer,
         GatewayProofs!nodeInformer, G!externals, GatewayProofs!externals,
         G!ListNodes, GatewayProofs!ListNodes, G!WaitForService,
         GatewayProofs!WaitForService, G!UseServiceIP,
         GatewayProofs!UseServiceIP, G!PanicOnNilEndpoint,
         GatewayProofs!PanicOnNilEndpoint, G!CollectNode,
         GatewayProofs!CollectNode, G!UpdateStatus,
         GatewayProofs!UpdateStatus, G!LoseReply, GatewayProofs!LoseReply,
         G!FailReconcile, GatewayProofs!FailReconcile, G!Crash,
         GatewayProofs!Crash, G!UserWritesGateway,
         GatewayProofs!UserWritesGateway, G!Disturb, GatewayProofs!Disturb,
         G!requests, GatewayProofs!requests, G!electedFor,
         GatewayProofs!electedFor, G!managed, GatewayProofs!managed,
         G!recordEndpointEvent, GatewayProofs!recordEndpointEvent, G!Requeue,
         GatewayProofs!Requeue, G!Restart, GatewayProofs!Restart,
         G!remaining, GatewayProofs!remaining, G!nodeInfo,
         GatewayProofs!nodeInfo, G!ServeUpdate, GatewayProofs!ServeUpdate,
         G!ForgetLocals, GatewayProofs!ForgetLocals, G!WriteGateway,
         GatewayProofs!WriteGateway, G!notable, GatewayProofs!notable,
         G!mapNodeToRequest, GatewayProofs!mapNodeToRequest,
         G!electActiveEndpoint, GatewayProofs!electActiveEndpoint, G!readyIn,
         GatewayProofs!readyIn, G!namesIn, GatewayProofs!namesIn, G!podCIDRs,
         GatewayProofs!podCIDRs, G!newStatus, GatewayProofs!newStatus,
         G!checkActive, GatewayProofs!checkActive, G!firstHostedBy,
         GatewayProofs!firstHostedBy, G!Range, GatewayProofs!Range, G!Min,
         GatewayProofs!Min

LEMMA SameServiceInvariant == S!IInv <=> ServiceProofs!IInv
  BY
     DEF S!IInv, ServiceProofs!IInv, S!TypeOK, ServiceProofs!TypeOK,
         S!CachesTrail, ServiceProofs!CachesTrail, S!HeldTarget,
         ServiceProofs!HeldTarget, S!WakeupPending,
         ServiceProofs!WakeupPending, S!Trails, ServiceProofs!Trails,
         S!Agree, ServiceProofs!Agree, S!exposed, ServiceProofs!exposed,
         S!serving, ServiceProofs!serving, S!activeNodes,
         ServiceProofs!activeNodes, S!leadsTo, ServiceProofs!leadsTo,
         S!ServiceFits, ServiceProofs!ServiceFits, S!EndpointsFit,
         ServiceProofs!EndpointsFit, S!IsGatewayExposeByLB,
         ServiceProofs!IsGatewayExposeByLB, S!Version, ServiceProofs!Version,
         S!Target, ServiceProofs!Target, S!EndpointsObjs,
         ServiceProofs!EndpointsObjs

LEMMA SameServiceInvariantNext == S!IInv' <=> ServiceProofs!IInv'
  BY SameServiceInvariant, PTL

LEMMA SameServiceSteps ==
    /\ S!Init <=> ServiceProofs!Init
    /\ S!Next <=> ServiceProofs!Next
    /\ S!vars = ServiceProofs!vars
  BY
     DEF S!Init, ServiceProofs!Init, S!Next, ServiceProofs!Next, S!vars,
         ServiceProofs!vars, S!EndpointsObjs, ServiceProofs!EndpointsObjs,
         S!someWork, ServiceProofs!someWork, S!NoList, ServiceProofs!NoList,
         S!Environment, ServiceProofs!Environment, S!Informers,
         ServiceProofs!Informers, S!Proceed, ServiceProofs!Proceed,
         S!LoseReply, ServiceProofs!LoseReply, S!FailReconcile,
         ServiceProofs!FailReconcile, S!Crash, ServiceProofs!Crash, S!Target,
         ServiceProofs!Target, S!Gateway, ServiceProofs!Gateway, S!exposed,
         ServiceProofs!exposed, S!ChangeGateway, ServiceProofs!ChangeGateway,
         S!ChangeNode, ServiceProofs!ChangeNode, S!ChangeService,
         ServiceProofs!ChangeService, S!ChangeEndpoints,
         ServiceProofs!ChangeEndpoints, S!DeliverService,
         ServiceProofs!DeliverService, S!DeliverEndpoints,
         ServiceProofs!DeliverEndpoints, S!RelistService,
         ServiceProofs!RelistService, S!RelistEndpoints,
         ServiceProofs!RelistEndpoints, S!Resync, ServiceProofs!Resync,
         S!StartReconcile, ServiceProofs!StartReconcile, S!GetService,
         ServiceProofs!GetService, S!CreateService,
         ServiceProofs!CreateService, S!CleanService,
         ServiceProofs!CleanService, S!GetNode, ServiceProofs!GetNode,
         S!LeaveEndpoints, ServiceProofs!LeaveEndpoints, S!CleanEndpoint,
         ServiceProofs!CleanEndpoint, S!GetEndpoints,
         ServiceProofs!GetEndpoints, S!CreateEndpoints,
         ServiceProofs!CreateEndpoints, S!UpdateEndpoints,
         ServiceProofs!UpdateEndpoints, S!Disturb, ServiceProofs!Disturb,
         S!WriteService, ServiceProofs!WriteService, S!service,
         ServiceProofs!service, S!DeleteService, ServiceProofs!DeleteService,
         S!endpoints, ServiceProofs!endpoints, S!DeleteEndpoints,
         ServiceProofs!DeleteEndpoints, S!WriteEndpoints,
         ServiceProofs!WriteEndpoints, S!Requeue, ServiceProofs!Requeue,
         S!cached, ServiceProofs!cached, S!ForgetLocals,
         ServiceProofs!ForgetLocals, S!Endpoint, ServiceProofs!Endpoint,
         S!NodeInfo, ServiceProofs!NodeInfo, S!IsGatewayExposeByLB,
         ServiceProofs!IsGatewayExposeByLB, S!gatewayQueues,
         ServiceProofs!gatewayQueues, S!locals, ServiceProofs!locals,
         S!serving, ServiceProofs!serving, S!Return, ServiceProofs!Return,
         S!mapGatewayToRequest, ServiceProofs!mapGatewayToRequest

\* The inductive invariants of the two controllers.
LEMMA GatewayInductive ==
    /\ G!Init => G!IInv
    /\ G!IInv /\ G!Next => G!IInv'
  BY SameGatewayInvariant, SameGatewayInvariantNext, SameGatewaySteps,
     GatewayFacts

LEMMA ServiceInductive ==
    /\ S!Init => S!IInv
    /\ S!IInv /\ S!Next => S!IInv'
  BY SameServiceInvariant, SameServiceInvariantNext, SameServiceSteps,
     ServiceFacts

-----------------------------------------------------------------------------
(* What a step of one controller is to the other.                          *)

\* The Gateway controller's own variables stay: at most the Service's cached
\* version changes.
LEMMA GatewayLeft ==
    ASSUME G!IInv, svc' \in {Absent, NoIngress} \union PublicIPs,
           disturbances' \in 0..MaxDisturbances, UNCHANGED gatewayOnly
    PROVE  G!IInv'
<1>1. GatewayProofs!IInv
  BY SameGatewayInvariant
<1>2. UNCHANGED <<GatewayProofs!api, GatewayProofs!gwInformer,
                  GatewayProofs!nodeInformer, blocks, queue,
                  GatewayProofs!locals>>
  BY DEF gatewayOnly, gatewayLocals, GatewayProofs!api, GatewayProofs!gwInformer,
         GatewayProofs!nodeInformer, GatewayProofs!locals
<1>3. GatewayProofs!IInv'
  BY <1>1, <1>2, GatewayAssumptions, GatewayProofs!IInvExternals
<1> QED
  BY <1>3, SameGatewayInvariantNext

\* The Service controller's own variables and the cached gateways stay.
LEMMA ServiceLeft ==
    ASSUME S!IInv, nodeCache' \in [Nodes -> Version(NodeObjs)],
           disturbances' \in 0..MaxDisturbances,
           UNCHANGED <<gwCache, svc, serviceOnly>>
    PROVE  S!IInv'
<1>1. ServiceProofs!IInv
  BY SameServiceInvariant
<1>2. UNCHANGED <<gwCache, ServiceProofs!service, ServiceProofs!endpoints,
                  queued, ServiceProofs!locals, missed>>
  BY DEF serviceOnly, serviceLocals, ServiceProofs!service,
         ServiceProofs!endpoints, ServiceProofs!locals
<1>3. nodeCache' \in [Nodes -> ServiceProofs!Version(NodeObjs)]
  BY DEF Version, ServiceProofs!Version
<1>4. ServiceProofs!IInv'
  BY <1>1, <1>2, <1>3, ServiceAssumptions, ServiceProofs!IInvNodes
<1> QED
  BY <1>4, SameServiceInvariantNext

\* A gateway's version enters the cache that both read.
LEMMA ServiceSeesGateway ==
    ASSUME G!TypeOK, S!IInv, NEW g \in Gateways, DeliverGateway(g)
    PROVE  S!IInv'
<1>1. ServiceProofs!IInv
  BY SameServiceInvariant
<1> DEFINE obj == Head(gwWatch[g])
<1>2. obj \in ServiceProofs!Version(Gateway)
  <2>1. gwWatch[g] \in Seq(Version(Gateway)) /\ gwWatch[g] # << >>
    BY DEF G!TypeOK, G!Version, G!Gateway, Version, Gateway, DeliverGateway,
           G!DeliverGateway, G!Endpoint, Endpoint, G!NodeInfo, NodeInfo
  <2> QED
    BY <2>1 DEF Version, ServiceProofs!Version
<1>3. gwCache' = [gwCache EXCEPT ![g] = obj] /\ gwCache'[g] = obj
  BY DEF DeliverGateway, G!DeliverGateway, G!TypeOK
<1>4. /\ queued' = (queued \/ ServiceProofs!gatewayQueues(gwCache[g], obj))
      /\ UNCHANGED <<nodeCache, ServiceProofs!service, ServiceProofs!endpoints,
                     ServiceProofs!locals, missed, disturbances>>
  BY <1>3
     DEF DeliverGateway, G!DeliverGateway, serviceLocals, ServiceProofs!service,
         ServiceProofs!endpoints, ServiceProofs!locals, G!nodeInformer,
         G!externals, S!gatewayQueues, ServiceProofs!gatewayQueues,
         S!mapGatewayToRequest, ServiceProofs!mapGatewayToRequest,
         S!IsGatewayExposeByLB, ServiceProofs!IsGatewayExposeByLB
<1> HIDE DEF obj
<1>5. ServiceProofs!IInv'
  BY <1>1, <1>2, <1>3, <1>4, ServiceAssumptions, ServiceProofs!IInvGateway
<1> QED
  BY <1>5, SameServiceInvariantNext

\* The cloud's write to the Service is one more version under way.
LEMMA ServiceGetsIngress ==
    ASSUME S!IInv, SetIngress
    PROVE  S!IInv'
<1>1. ServiceProofs!IInv
  BY SameServiceInvariant
<1>2. PICK ip \in PublicIPs : S!WriteService(ip)
  BY DEF SetIngress
<1>3. /\ ip \in ServiceProofs!Version({NoIngress} \union PublicIPs)
      /\ ServiceProofs!WriteService(ip)
  BY <1>2 DEF S!WriteService, ServiceProofs!WriteService, ServiceProofs!Version
<1>4. UNCHANGED <<ServiceProofs!cached, svc, ServiceProofs!endpoints, queued,
                  ServiceProofs!locals, missed, disturbances>>
  BY DEF SetIngress, gatewayOnly, serviceLocals, ServiceProofs!cached,
         ServiceProofs!endpoints, ServiceProofs!locals
<1>5. ServiceProofs!IInv'
  BY <1>1, <1>3, <1>4, ServiceAssumptions, ServiceProofs!IInvIngress
<1> QED
  BY <1>5, SameServiceInvariantNext

\* The process starts again, both controllers with caches that are current.
LEMMA GatewayRestarts ==
    ASSUME G!IInv, S!TypeOK, Restart, disturbances' \in 0..MaxDisturbances
    PROVE  G!IInv'
<1>1. GatewayProofs!IInv
  BY SameGatewayInvariant
<1>2. svc' \in {Absent, NoIngress} \union PublicIPs
  BY DEF Restart, S!TypeOK, S!Version
<1>3. /\ gwCache' = gws /\ gwWatch' = GatewayProofs!noVersions(Gateways)
      /\ nodeCache' = nodes /\ nodeWatch' = GatewayProofs!noVersions(Nodes)
      /\ queue' = GatewayProofs!existing(gws)
      /\ UNCHANGED <<GatewayProofs!api, blocks>>
  BY DEF Restart, G!noVersions, GatewayProofs!noVersions, existing,
         GatewayProofs!existing, GatewayProofs!api
<1>4. GatewayProofs!ForgetLocals
  BY DEF Restart, G!ForgetLocals, GatewayProofs!ForgetLocals, G!NoNodes,
         GatewayProofs!NoNodes, G!NoEvent, GatewayProofs!NoEvent
<1>5. GatewayProofs!IInv'
  BY <1>1, <1>2, <1>3, <1>4, GatewayAssumptions, GatewayProofs!IInvRestart
<1> QED
  BY <1>5, SameGatewayInvariantNext

LEMMA ServiceRestarts ==
    ASSUME G!TypeOK, S!IInv, Restart, disturbances' \in 0..MaxDisturbances
    PROVE  S!IInv'
<1>1. ServiceProofs!IInv
  BY SameServiceInvariant
<1>2. /\ gwCache' \in [Gateways -> ServiceProofs!Version(Gateway)]
      /\ nodeCache' \in [Nodes -> ServiceProofs!Version(NodeObjs)]
  BY DEF Restart, G!TypeOK, G!Version, ServiceProofs!Version, G!Gateway,
         Gateway, G!Endpoint, Endpoint, G!NodeInfo, NodeInfo
<1>3. /\ svc' = service /\ svcWatch' = << >>
      /\ epsCache' = eps /\ epsWatch' = << >>
      /\ queued' = ServiceProofs!someWork(gwCache', service, eps)
      /\ UNCHANGED <<service, eps>>
  BY DEF Restart, S!someWork, ServiceProofs!someWork, S!exposed,
         ServiceProofs!exposed, S!IsGatewayExposeByLB,
         ServiceProofs!IsGatewayExposeByLB
<1>4. missed' \in BOOLEAN
  BY DEF Restart, S!IInv, S!TypeOK
<1>5. ServiceProofs!ForgetLocals
  BY DEF Restart, S!ForgetLocals, ServiceProofs!ForgetLocals, S!NoList,
         ServiceProofs!NoList
<1>6. ServiceProofs!IInv'
  BY <1>1, <1>2, <1>3, <1>4, <1>5, ServiceAssumptions, ServiceProofs!IInvRestart
<1> QED
  BY <1>6, SameServiceInvariantNext

-----------------------------------------------------------------------------
(* The steps of the manager, by whom they concern.                         *)

\* A step of the Gateway controller that the Service controller does not see,
\* or sees as a changed node.
GatewayAlone ==
    /\ G!Next
    /\ \/ \E g \in Gateways, s \in Specs : G!CreateGateway(g, s)
       \/ \E g \in Gateways, s \in Specs : G!UpdateGateway(g, s)
       \/ \E g \in Gateways : G!DeleteGateway(g)
       \/ \E n \in Nodes, obj \in NodeObjs \union {Absent} :
             G!ChangeNode(n, obj)
       \/ \E n \in Nodes : G!DeliverNode(n)
       \/ G!Resync
       \/ \E g \in Gateways : G!StartReconcile(g)
       \/ G!ListNodes \/ G!WaitForService \/ G!UseServiceIP
       \/ \E n \in Nodes : G!CollectNode(n)
       \/ G!UpdateStatus \/ G!LoseReply \/ G!FailReconcile
    /\ UNCHANGED <<gwCache, svc, serviceOnly, ingresses>>

\* A step of the Service controller: for the other one, at most another
\* version of the Service is in the cache.
ServiceAlone ==
    /\ S!Next
    /\ \/ S!ChangeService(Absent)
       \/ \E obj \in {Foreign, Absent} : S!ChangeEndpoints(obj)
       \/ S!DeliverService \/ S!DeliverEndpoints
       \/ S!Resync \/ S!Proceed \/ S!LoseReply \/ S!FailReconcile
    /\ UNCHANGED <<gatewayOnly, ingresses>>

LEMMA Steps ==
    ASSUME Next
    PROVE  \/ GatewayAlone
           \/ ServiceAlone
           \/ \E g \in Gateways : DeliverGateway(g)
           \/ SetIngress
           \/ Restart /\ (G!Disturb \/ UNCHANGED disturbances)
<1>1. CASE Environment
  <2>1. CASE /\ \/ \E g \in Gateways, s \in Specs : G!CreateGateway(g, s)
                \/ \E g \in Gateways, s \in Specs : G!UpdateGateway(g, s)
                \/ \E g \in Gateways : G!DeleteGateway(g)
                \/ \E n \in Nodes, obj \in NodeObjs \union {Absent} :
                      G!ChangeNode(n, obj)
             /\ UNCHANGED <<serviceOnly, ingresses>>
    <3>1. G!Environment
      BY <2>1 DEF G!Environment
    <3>2. UNCHANGED <<gwCache, svc>>
      BY <2>1 DEF G!CreateGateway, G!UpdateGateway, G!DeleteGateway,
                  G!UserWritesGateway, G!ChangeNode, G!externals, G!gwInformer
    <3> QED
      BY <2>1, <3>1, <3>2 DEF GatewayAlone, G!Next
  <2>2. CASE /\ \/ S!ChangeService(Absent)
                \/ \E obj \in {Foreign, Absent} : S!ChangeEndpoints(obj)
             /\ UNCHANGED <<gatewayOnly, ingresses>>
    BY <2>2 DEF ServiceAlone, S!Next, S!Environment
  <2> QED
    BY <1>1, <2>1, <2>2 DEF Environment
<1>2. ASSUME NEW g \in Gateways, StartReconcile(g) PROVE GatewayAlone
  BY <1>2 DEF StartReconcile, GatewayAlone, G!Next, G!StartReconcile, G!externals,
              G!gwInformer
<1>3. ASSUME NEW n \in Nodes, DeliverNode(n) PROVE GatewayAlone
  BY <1>3 DEF DeliverNode, GatewayAlone, G!Next, G!Informers, G!DeliverNode,
              G!externals, G!gwInformer
<1>4. CASE DeliverService \/ DeliverEndpoints
  BY <1>4 DEF DeliverService, DeliverEndpoints, ServiceAlone, S!Next, S!Informers
<1>5. CASE Resync
  BY <1>5 DEF Resync, GatewayAlone, G!Next, G!Informers, G!Resync, G!externals,
              G!gwInformer, ServiceAlone, S!Next, S!Informers
<1>6. CASE ProceedGateway /\ ~Panic
  BY <1>6 DEF ProceedGateway, GatewayAlone, G!Next, G!Proceed, G!ListNodes,
              G!WaitForService, G!UseServiceIP, G!CollectNode, G!UpdateStatus,
              G!externals, G!gwInformer
<1>7. CASE ProceedService
  BY <1>7 DEF ProceedService, ServiceAlone, S!Next
<1>8. CASE Panic \/ Crash
  BY <1>8 DEF Panic, Crash
<1>9. CASE Faults /\ ~Crash
  BY <1>9 DEF Faults, GatewayAlone, G!Next, G!Faults, G!LoseReply, G!FailReconcile,
              G!externals, G!gwInformer, ServiceAlone, S!Next
<1> QED
  BY <1>1, <1>2, <1>3, <1>4, <1>5, <1>6, <1>7, <1>8, <1>9 DEF Next

-----------------------------------------------------------------------------
(* Every step keeps the invariants of both controllers.                    *)

LEMMA PartsTyped ==
    /\ G!IInv => /\ G!TypeOK
                 /\ disturbances \in 0..MaxDisturbances
                 /\ nodeCache \in [Nodes -> Version(NodeObjs)]
                 /\ gwCache \in [Gateways -> Version(Gateway)]
                 /\ gwWatch \in [Gateways -> Seq(Version(Gateway))]
    /\ S!IInv => S!TypeOK /\ {service, svc} \subseteq {Absent, NoIngress} \union PublicIPs
  BY DEF G!IInv, G!TypeOK, G!Version, Version, S!IInv, S!TypeOK, S!Version,
         G!Gateway, Gateway, G!Endpoint, Endpoint, G!NodeInfo, NodeInfo

LEMMA PartsTypedNext ==
    /\ G!IInv' => /\ disturbances' \in 0..MaxDisturbances
                  /\ nodeCache' \in [Nodes -> Version(NodeObjs)]
    /\ S!IInv' => svc' \in {Absent, NoIngress} \union PublicIPs
  BY DEF G!IInv, G!TypeOK, G!Version, Version, S!IInv, S!TypeOK, S!Version

LEMMA PartsNext ==
    ASSUME G!IInv, S!IInv, Next
    PROVE  G!IInv' /\ S!IInv'
<1>1. CASE GatewayAlone
  <2>1. G!IInv'
    BY <1>1, GatewayInductive DEF GatewayAlone
  <2> QED
    BY <1>1, <2>1, PartsTypedNext, ServiceLeft DEF GatewayAlone
<1>2. CASE ServiceAlone
  <2>1. S!IInv'
    BY <1>2, ServiceInductive DEF ServiceAlone
  <2>2. disturbances' \in 0..MaxDisturbances
    BY <2>1 DEF S!IInv, S!TypeOK
  <2> QED
    BY <1>2, <2>1, <2>2, PartsTypedNext, GatewayLeft DEF ServiceAlone
<1>3. ASSUME NEW g \in Gateways, DeliverGateway(g)
      PROVE  G!IInv' /\ S!IInv'
  <2>1. G!Next
    BY <1>3 DEF DeliverGateway, G!Next, G!Informers
  <2> QED
    BY <1>3, <2>1, PartsTyped, GatewayInductive, ServiceSeesGateway
<1>4. CASE SetIngress
  <2>1. G!IInv'
    BY <1>4, PartsTyped, GatewayLeft DEF SetIngress
  <2> QED
    BY <1>4, <2>1, ServiceGetsIngress
<1>5. CASE Restart /\ (G!Disturb \/ UNCHANGED disturbances)
  <2>1. disturbances' \in 0..MaxDisturbances
    BY <1>5, PartsTyped, BoundsAssumption DEF G!Disturb
  <2> QED
    BY <1>5, <2>1, PartsTyped, GatewayRestarts, ServiceRestarts
<1> QED
  BY <1>1, <1>2, <1>3, <1>4, <1>5, Steps

-----------------------------------------------------------------------------
(* The parts that tie the controllers together.                            *)

\* Without broken watches no object comes and goes unseen.
LEMMA NothingMissed ==
    ASSUME ~missed, Next
    PROVE  ~missed'
<1>1. CASE GatewayAlone
  BY <1>1 DEF GatewayAlone, serviceOnly, serviceLocals
<1>2. CASE ServiceAlone
  BY <1>2 DEF ServiceAlone, S!ChangeService, S!ChangeEndpoints, S!DeliverService,
     S!DeliverEndpoints, S!Resync, S!Proceed, S!StartReconcile, S!GetService,
     S!CreateService, S!CleanService, S!GetNode, S!LeaveEndpoints,
     S!CleanEndpoint, S!GetEndpoints, S!CreateEndpoints, S!UpdateEndpoints,
     S!LoseReply, S!FailReconcile
<1>3. ASSUME NEW g \in Gateways, DeliverGateway(g) PROVE ~missed'
  BY <1>3 DEF DeliverGateway, serviceLocals
<1>4. CASE SetIngress \/ Restart
  BY <1>4 DEF SetIngress, Restart, serviceLocals
<1> QED
  BY <1>1, <1>2, <1>3, <1>4, Steps

\* The Service's versions, wherever they are.
versions == {service, svc} \union Range(svcWatch)

\* What a step of the Service controller does to them: it writes none with
\* an IP.
LEMMA ServiceVersions ==
    ASSUME S!TypeOK, ServiceAlone
    PROVE  versions' \subseteq versions \union {Absent, NoIngress}
<1> DEFINE Objs == {NoIngress} \union PublicIPs \union {Absent}
<1>1. svcWatch \in Seq(Objs)
  BY DEF S!TypeOK, S!Version
<1>2. ASSUME NEW obj \in {Absent, NoIngress}, S!WriteService(obj), svc' = svc
      PROVE  versions' \subseteq versions \union {Absent, NoIngress}
  BY <1>1, <1>2 DEF S!WriteService, versions, Range
<1>3. CASE UNCHANGED <<service, svc, svcWatch>>
  BY <1>3 DEF versions
<1>4. CASE S!DeliverService
  <2>1. svc' = svcWatch[1] /\ service' = service
    BY <1>1, <1>4 DEF S!DeliverService
  <2>2. \A i \in DOMAIN svcWatch' : i + 1 \in DOMAIN svcWatch
                                    /\ svcWatch'[i] = svcWatch[i + 1]
    BY <1>1, <1>4 DEF S!DeliverService
  <2>3. 1 \in DOMAIN svcWatch
    BY <1>1, <1>4 DEF S!DeliverService
  <2> QED
    BY <2>1, <2>2, <2>3 DEF versions, Range
<1>5. CASE S!ChangeService(Absent)
  BY <1>2, <1>5 DEF S!ChangeService
<1>6. CASE S!CreateService \/ S!CleanService \/ S!LoseReply
  BY <1>2, <1>3, <1>6 DEF S!CreateService, S!CleanService, S!LoseReply,
                          S!DeleteService
<1> QED
  BY <1>3, <1>4, <1>5, <1>6
     DEF ServiceAlone, S!ChangeEndpoints, S!DeliverEndpoints, S!Resync, S!Proceed,
         S!StartReconcile, S!GetService, S!GetNode, S!LeaveEndpoints,
         S!CleanEndpoint, S!GetEndpoints, S!CreateEndpoints,
         S!UpdateEndpoints, S!FailReconcile, S!service

LEMMA IngressesNext ==
    ASSUME IngressesKnown, S!TypeOK, Next
    PROVE  IngressesKnown'
<1> USE DEF versions, IngressesKnown
<1>1. CASE GatewayAlone
  BY <1>1 DEF GatewayAlone, serviceOnly
<1>2. CASE ServiceAlone
  <2>1. ingresses' = ingresses
    BY <1>2 DEF ServiceAlone
  <2> QED
    BY <1>2, <2>1, ServiceVersions
<1>3. ASSUME NEW g \in Gateways, DeliverGateway(g) PROVE IngressesKnown'
  BY <1>3 DEF DeliverGateway, G!DeliverGateway, G!externals
<1>4. CASE SetIngress
  <2>1. PICK ip \in PublicIPs : /\ S!WriteService(ip)
                                /\ ingresses' = ingresses \union {ip}
    BY <1>4 DEF SetIngress
  <2>2. svcWatch \in Seq({NoIngress} \union PublicIPs \union {Absent})
    BY DEF S!TypeOK, S!Version
  <2>3. Range(svcWatch') \subseteq Range(svcWatch) \union {ip}
    BY <2>1, <2>2 DEF S!WriteService, Range
  <2>4. svc' = svc /\ service' = ip
    BY <1>4, <2>1 DEF SetIngress, S!WriteService
  <2>5. IsFiniteSet(ingresses')
    BY <2>1, FS_AddElement
  <2> QED
    BY <2>1, <2>3, <2>4, <2>5
<1>5. CASE Restart
  BY <1>5 DEF Restart, Range
<1> QED
  BY <1>1, <1>2, <1>3, <1>4, <1>5, Steps

\* The election has given Reconcile an endpoint; its IP becomes the Service's.
LEMMA ServiceIPHeld ==
    ASSUME G!TypeOK, IngressesKnown, G!UseServiceIP
    PROVE  activeEp' # NoEndpoint /\ activeEp'.ip \in ingresses
<1>1. svc \in ingresses /\ svc \in PublicIPs
  BY DEF G!UseServiceIP, IngressesKnown
<1>2. activeEp \in Endpoint /\ activeEp' = [activeEp EXCEPT !.ip = svc]
  BY DEF G!UseServiceIP, G!TypeOK, G!Endpoint, Endpoint
<1>3. activeEp' \in Endpoint /\ activeEp'.ip = svc
  BY <1>1, <1>2 DEF Endpoint
<1> QED
  BY <1>1, <1>3, NoEndpointAssumption

LEMMA HeldNext ==
    ASSUME G!TypeOK, IngressesKnown, HeldIngress, Next
    PROVE  HeldIngress'
<1> USE DEF HeldIngress
<1>1. CASE GatewayAlone
  <2>1. ingresses' = ingresses
    BY <1>1 DEF GatewayAlone
  <2>2. CASE UNCHANGED <<pc, gw, activeEp>>
    BY <2>1, <2>2
  <2>3. CASE pc' = "idle"
    BY <2>3
  <2>4. CASE G!UseServiceIP
    BY <2>1, <2>4, ServiceIPHeld
  <2>5. CASE G!ListNodes
    BY <2>5 DEF G!ListNodes
  <2>6. ASSUME NEW g \in Gateways, G!StartReconcile(g)
        PROVE  UNCHANGED <<pc, gw, activeEp>> \/ pc' = "list"
    BY <2>6 DEF G!StartReconcile, G!locals
  <2>7. CASE \/ G!WaitForService \/ G!UpdateStatus \/ G!LoseReply
             \/ G!FailReconcile
    BY <2>3, <2>7 DEF G!WaitForService, G!UpdateStatus, G!LoseReply,
                      G!FailReconcile, G!Requeue, G!ForgetLocals
  <2> QED
    BY <1>1, <2>2, <2>4, <2>5, <2>6, <2>7
       DEF GatewayAlone, G!CreateGateway, G!UpdateGateway, G!DeleteGateway,
           G!UserWritesGateway, G!ChangeNode, G!DeliverNode, G!Resync,
           G!CollectNode, G!locals
<1>2. CASE ServiceAlone
  BY <1>2 DEF ServiceAlone, gatewayOnly, gatewayLocals
<1>3. ASSUME NEW g \in Gateways, DeliverGateway(g) PROVE HeldIngress'
  BY <1>3 DEF DeliverGateway, G!DeliverGateway, G!locals
<1>4. CASE SetIngress
  BY <1>4 DEF SetIngress, gatewayOnly, gatewayLocals
<1>5. CASE Restart
  BY <1>5 DEF Restart, G!ForgetLocals
<1> QED
  BY <1>1, <1>2, <1>3, <1>4, <1>5, Steps

\* The gateways that nobody is going to look at.
left == {g \in S!exposed(gwCache) :
            g \notin queue /\ gwWatch[g] = << >> /\ cur # g}

\* Reconcile leaves a gateway for good only when its copy is current and the
\* write changes nothing.
LEMMA LeftByReconcile ==
    ASSUME G!IInv, GatewayAlone, NEW g \in left'
    PROVE  \/ g \in left
           \/ cur = g /\ pc = "collect" /\ fresh /\ G!newStatus = gws[g]
<1>1. /\ g \in S!exposed(gwCache) /\ gwCache[g] # Absent /\ g \in Gateways
      /\ g \notin queue' /\ gwWatch'[g] = << >> /\ cur' # g
  BY DEF left, GatewayAlone, S!exposed, S!IsGatewayExposeByLB
<1>2. /\ gwWatch \in [Gateways -> Seq(Version(Gateway))]
      /\ G!TypeOK /\ (pc = "idle" => cur # g)
  BY <1>1, PartsTyped, NamesAssumption DEF G!IInv
<1> DEFINE Left == g \notin queue /\ gwWatch[g] = << >> /\ cur # g
<1>3. CASE queue \subseteq queue' /\ UNCHANGED <<gwWatch, cur>>
  BY <1>1, <1>3 DEF left
<1>4. CASE queue' = queue \union {cur} /\ UNCHANGED gwWatch
  BY <1>1, <1>4 DEF left
<1>5. ASSUME NEW h \in Gateways, NEW obj, G!UserWritesGateway(h, obj)
      PROVE  Left
  <2>1. h # g => gwWatch'[g] = gwWatch[g]
    BY <1>2, <1>5 DEF G!UserWritesGateway, G!WriteGateway
  <2>2. h = g => gwWatch'[g] # << >>
    BY <1>1, <1>2, <1>5 DEF G!UserWritesGateway, G!WriteGateway
  <2> QED
    BY <1>1, <1>5, <2>1, <2>2 DEF G!UserWritesGateway
<1>6. ASSUME NEW h \in Gateways, G!StartReconcile(h)
      PROVE  Left
  BY <1>1, <1>2, <1>6 DEF G!StartReconcile, G!locals, G!gwInformer
<1>7. CASE G!UpdateStatus \/ G!LoseReply
  <2>1. cur \in Gateways /\ pc = "collect"
    BY <1>2, <1>7 DEF G!UpdateStatus, G!LoseReply, G!TypeOK
  <2>2. CASE G!WriteGateway(cur, G!newStatus)
    <3>1. cur # g => gwWatch'[g] = gwWatch[g]
      BY <1>2, <2>1, <2>2 DEF G!WriteGateway
    <3>2. cur = g => gwWatch'[g] # << >>
      BY <1>2, <2>1, <2>2 DEF G!WriteGateway
    <3> QED
      BY <1>1, <1>7, <3>1, <3>2
         DEF left, G!UpdateStatus, G!LoseReply, G!Requeue
  <2>3. CASE UNCHANGED gwWatch
    BY <1>1, <1>7, <2>1, <2>3, <1>2
       DEF left, G!UpdateStatus, G!LoseReply, G!Requeue, G!ServeUpdate, G!WriteGateway
  <2> QED
    BY <1>7, <2>2, <2>3 DEF G!UpdateStatus, G!LoseReply, G!ServeUpdate
<1>8. CASE G!WaitForService \/ G!FailReconcile
  BY <1>4, <1>8 DEF G!WaitForService, G!FailReconcile, G!Requeue, G!gwInformer
<1>9. CASE \/ \E n \in Nodes, obj \in NodeObjs \union {Absent} :
                 G!ChangeNode(n, obj)
           \/ \E n \in Nodes : G!DeliverNode(n) \/ G!CollectNode(n)
           \/ G!Resync \/ G!ListNodes \/ G!UseServiceIP
  BY <1>3, <1>9 DEF G!ChangeNode, G!DeliverNode, G!Resync, G!ListNodes,
                    G!UseServiceIP, G!CollectNode, G!locals, G!gwInformer
<1> QED
  <2>1. Left => g \in left
    BY <1>1 DEF left
  <2> QED
    BY <1>5, <1>6, <1>7, <1>8, <1>9, <2>1
       DEF GatewayAlone, G!CreateGateway, G!UpdateGateway, G!DeleteGateway

LEMMA PublicationNext ==
    ASSUME G!IInv, HeldIngress, PublicationPending, Next
    PROVE  PublicationPending'
<1> DEFINE Published(g) == /\ gwCache[g].active # NoEndpoint
                           /\ gwCache[g].active.ip \in ingresses
<1>1. /\ \A g \in left : Published(g)
      /\ PublicationPending' <=> \A g \in left' : Published(g)'
  BY DEF PublicationPending, left
<1>2. CASE GatewayAlone
  <2>1. gwCache' = gwCache /\ ingresses' = ingresses
    BY <1>2 DEF GatewayAlone
  <2>2. ASSUME NEW g \in Gateways, g \in left', cur = g, pc = "collect", fresh,
               G!newStatus = gws[g]
        PROVE  Published(g)
    <3>1. gw = gws[g] /\ gwCache[g] = gws[g] /\ gw \in Gateway
      BY <2>2 DEF G!IInv, G!CopyIsFresh, G!CachesTrail, G!Trails, G!TypeOK,
                  G!Version, G!Gateway, Gateway, G!Endpoint, Endpoint,
                  G!NodeInfo, NodeInfo
    <3>2. gw.spec.lb
      BY <2>1, <2>2, <3>1 DEF left, S!exposed, S!IsGatewayExposeByLB
    <3>3. gwCache[g].active = activeEp
      BY <2>2, <3>1 DEF G!newStatus, Gateway
    <3> QED
      BY <2>2, <3>2, <3>3 DEF HeldIngress
  <2>3. left' \subseteq Gateways
    BY DEF left, S!exposed
  <2> QED
    BY <1>1, <1>2, <2>1, <2>2, <2>3, LeftByReconcile
<1>3. CASE ServiceAlone
  BY <1>1, <1>3 DEF ServiceAlone, left, gatewayOnly, gatewayLocals
<1>4. ASSUME NEW g \in Gateways, DeliverGateway(g) PROVE PublicationPending'
  <2>1. \A h \in left' : h # g /\ h \in Gateways
    BY <1>4 DEF DeliverGateway, G!DeliverGateway, left, S!exposed
  <2>2. \A h \in Gateways : h # g =>
            gwCache'[h] = gwCache[h] /\ gwWatch'[h] = gwWatch[h]
    BY <1>4, PartsTyped DEF DeliverGateway, G!DeliverGateway
  <2>3. cur' = cur /\ queue \subseteq queue' /\ ingresses' = ingresses
    BY <1>4 DEF DeliverGateway, G!DeliverGateway, G!locals
  <2> QED
    BY <1>1, <2>1, <2>2, <2>3 DEF left, S!exposed, S!IsGatewayExposeByLB
<1>5. CASE SetIngress
  <2>1. left' = left /\ gwCache' = gwCache
    BY <1>5 DEF SetIngress, left, gatewayOnly, gatewayLocals
  <2> QED
    BY <1>1, <1>5, <2>1 DEF SetIngress
<1>6. CASE Restart
  BY <1>1, <1>6 DEF Restart, left, existing, S!exposed, S!IsGatewayExposeByLB
<1> QED
  BY <1>2, <1>3, <1>4, <1>5, <1>6, Steps

-----------------------------------------------------------------------------
(* The theorems.                                                           *)

LEMMA InvInit == Init => IInv
<1> SUFFICES ASSUME Init PROVE IInv
  OBVIOUS
<1>1. G!Init
  BY DEF Init
<1>2. S!Init
  <2>1. gwCache \in [Gateways -> Gateway \union {Absent}]
    <3>1. << >> \in Seq(NodeInfo)
      OBVIOUS
    <3>2. \A s \in Specs : G!NewGateway(s) \in Gateway
      BY <3>1 DEF G!NewGateway, Gateway
    <3> QED
      BY <1>1, <3>2 DEF G!Init
  <2>2. nodeCache \in [Nodes -> NodeObjs \union {Absent}] /\ disturbances = 0
    BY <1>1 DEF G!Init
  <2> QED
    BY <2>1, <2>2 DEF Init, S!Init
<1>3. ~missed /\ IngressesKnown
  BY FS_EmptySet DEF Init, IngressesKnown, Range
<1>4. HeldIngress
  BY <1>1 DEF HeldIngress, G!Init
<1>5. PublicationPending
  BY <1>1 DEF G!Init, PublicationPending, G!existing, S!exposed,
              S!IsGatewayExposeByLB
<1> QED
  BY <1>1, <1>2, <1>3, <1>4, <1>5, GatewayInductive, ServiceInductive DEF IInv

LEMMA InvNext == IInv /\ [Next]_vars => IInv'
<1>1. IInv /\ Next => IInv'
  BY PartsTyped, PartsNext, NothingMissed, IngressesNext, HeldNext,
     PublicationNext DEF IInv
<1>2. ASSUME IInv, UNCHANGED vars PROVE IInv'
  <2>1. /\ UNCHANGED gatewayOnly /\ UNCHANGED <<svc, serviceOnly, ingresses>>
        /\ UNCHANGED disturbances
    BY <1>2 DEF vars
  <2>2. G!IInv'
    BY <1>2, <2>1, PartsTyped, GatewayLeft DEF IInv
  <2>3. S!IInv'
    <3>1. UNCHANGED <<gwCache, nodeCache>>
      BY <2>1 DEF gatewayOnly
    <3> QED
      BY <1>2, <2>1, <3>1, PartsTyped, ServiceLeft DEF IInv
  <2>4. ~missed' /\ IngressesKnown'
    BY <1>2, <2>1 DEF IInv, serviceOnly, serviceLocals, IngressesKnown
  <2>5. HeldIngress' /\ PublicationPending'
    BY <1>2, <2>1 DEF IInv, gatewayOnly, gatewayLocals, HeldIngress,
                      PublicationPending
  <2> QED
    BY <2>2, <2>3, <2>4, <2>5 DEF IInv
<1> QED
  BY <1>1, <1>2

\* The two controllers in one process keep what each keeps alone, although
\* each one's steps change what the other one reads, and what ties them
\* together.
THEOREM ManagerInvariant == Spec => []IInv
BY InvInit, InvNext, PTL DEF Spec

\* When nothing is left to do every exposed gateway can be reached under the
\* IP it publishes, as long as the Service had one IP only.
THEOREM ReachableAtRest == Spec => []SettledReachable
<1>1. IInv => SettledReachable
  <2> SUFFICES ASSUME IInv, Settled, OneIngress
               PROVE  /\ \A g \in exposedGateways : Reachable(g)
                      /\ exposedGateways = {} => service = Absent /\ eps = Absent
    BY DEF SettledReachable
  <2>1. gwCache = gws
    <3>1. \A g \in Gateways : gwWatch[g] = << >>
      BY DEF Settled, G!noVersions
    <3> QED
      BY <3>1 DEF IInv, G!IInv, G!CachesTrail, G!Trails, G!TypeOK
  <2>2. exposedGateways = S!exposed(gwCache)
    BY <2>1 DEF exposedGateways, existing, S!exposed, S!IsGatewayExposeByLB
  <2>3. S!ServiceFits(gwCache) /\ S!EndpointsFit(gwCache)
    BY DEF Settled, IInv, S!IInv, S!WakeupPending
  <2>4. ASSUME NEW g \in exposedGateways PROVE Reachable(g)
    <3>1. gws[g].active # NoEndpoint /\ gws[g].active.ip \in ingresses
      <4>1. cur = NoGateway /\ g \in Gateways /\ gwWatch[g] = << >>
        BY <2>4 DEF Settled, IInv, G!IInv, exposedGateways, existing, G!noVersions
      <4> QED
        BY <2>1, <2>2, <2>4, <4>1, NamesAssumption
           DEF IInv, PublicationPending, Settled
    <3>2. service \in ingresses
      BY <2>2, <2>3, <2>4 DEF S!ServiceFits, Settled, IInv, IngressesKnown
    <3>3. gws[g].active.ip = service
      <4>1. Cardinality(ingresses) \in Nat /\ Cardinality(ingresses) <= 1
        BY FS_CardinalityType DEF IInv, IngressesKnown, OneIngress
      <4>2. Cardinality(ingresses) # 0
        BY <3>2, FS_EmptySet DEF IInv, IngressesKnown
      <4>3. Cardinality(ingresses) = 1
        BY <4>1, <4>2
      <4> QED
        BY <3>1, <3>2, <4>3, FS_Singleton DEF IInv, IngressesKnown
    <3>4. g \in S!serving(gwCache)
      BY <2>1, <2>2, <2>4, <3>1 DEF S!serving
    <3>5. S!leadsTo(eps, S!activeNodes(gwCache))
      BY <2>3, <3>4 DEF S!EndpointsFit
    <3>6. eps \in S!Target /\ \E h \in exposedGateways :
                                /\ gws[h].active # NoEndpoint
                                /\ eps.node = gws[h].active.node
      BY <2>1, <2>2, <3>5 DEF S!leadsTo, S!activeNodes, S!serving
    <3> QED
      BY <3>1, <3>3, <3>6 DEF Reachable
  <2>5. exposedGateways = {} => service = Absent /\ eps = Absent
    BY <2>2, <2>3 DEF S!ServiceFits, S!EndpointsFit
  <2> QED
    BY <2>4, <2>5
<1> QED
  BY <1>1, ManagerInvariant, PTL

-----------------------------------------------------------------------------
(* What each controller promises alone holds in the composition.           *)

\* A step that changes a Gateway in the API server is one of the Gateway
\* controller's own module.
LEMMA StepsOfGateways ==
    ASSUME IInv, [Next]_vars
    PROVE  /\ GatewayProofs!IInv
           /\ GatewayProofs!Next \/ UNCHANGED <<gws, nodes>>
<1>1. GatewayProofs!IInv
  BY SameGatewayInvariant DEF IInv
<1>2. CASE GatewayAlone
  BY <1>1, <1>2, SameGatewaySteps DEF GatewayAlone
<1>3. ASSUME NEW g \in Gateways, DeliverGateway(g) PROVE UNCHANGED <<gws, nodes>>
  BY <1>3 DEF DeliverGateway, G!DeliverGateway, G!api
<1>4. CASE ServiceAlone \/ SetIngress \/ Restart \/ UNCHANGED vars
  BY <1>1, <1>4 DEF ServiceAlone, SetIngress, Restart, vars, gatewayOnly
<1> QED
  BY <1>1, <1>2, <1>3, <1>4, Steps

LEMMA GatewayInvariants == IInv => G!ActiveIsManaged /\ G!SettledConverged
<1> SUFFICES ASSUME IInv PROVE G!ActiveIsManaged /\ G!SettledConverged
  OBVIOUS
<1>1. GatewayProofs!IInv
  BY SameGatewayInvariant DEF IInv
<1>2. GatewayProofs!SettledConverged
  BY <1>1, GatewayAssumptions, GatewayProofs!ConvergedAtRest
<1>3. G!SettledConverged
  BY <1>2
     DEF G!SettledConverged, GatewayProofs!SettledConverged, G!Settled,
         GatewayProofs!Settled, G!Converged, GatewayProofs!Converged,
         G!StatusFits, GatewayProofs!StatusFits, G!Competent,
         GatewayProofs!Competent, G!managed, GatewayProofs!managed, G!readyIn,
         GatewayProofs!readyIn, G!namesIn, GatewayProofs!namesIn, G!Range,
         GatewayProofs!Range, G!noVersions, GatewayProofs!noVersions
<1> QED
  BY <1>3 DEF IInv, G!IInv

LEMMA DeclaredNext ==
    IInv /\ [Next]_vars =>
      [\A g \in Gateways :
         /\ gws[g] # Absent /\ gws'[g] # Absent
         /\ gws'[g].active \notin {gws[g].active, NoEndpoint}
         => \E e \in G!Range(gws[g].spec.endpoints) :
               /\ e.node = gws'[g].active.node
               /\ gws[g].spec.lb \/ e = gws'[g].active]_gws
<1>1. GatewayProofs!IInv /\ GatewayProofs!Next =>
        [\A g \in Gateways :
           /\ gws[g] # Absent /\ gws'[g] # Absent
           /\ gws'[g].active \notin {gws[g].active, NoEndpoint}
           => \E e \in GatewayProofs!Range(gws[g].spec.endpoints) :
                 /\ e.node = gws'[g].active.node
                 /\ gws[g].spec.lb \/ e = gws'[g].active]_gws
  BY GatewayAssumptions, GatewayProofs!DeclaredNext
<1> QED
  BY <1>1, StepsOfGateways DEF G!Range, GatewayProofs!Range

LEMMA AnnouncedNext ==
    IInv /\ [Next]_vars =>
      [\A g \in Gateways :
         /\ gws[g] # Absent /\ gws'[g] # Absent
         /\ G!nodeOf(gws'[g].active) # G!nodeOf(gws[g].active)
         => event = IF gws'[g].active = NoEndpoint
                    THEN [kind |-> "lost", node |-> gws[g].active.node]
                    ELSE [kind |-> "elected", node |-> gws'[g].active.node]]_gws
<1>1. GatewayProofs!IInv /\ GatewayProofs!Next =>
        [\A g \in Gateways :
           /\ gws[g] # Absent /\ gws'[g] # Absent
           /\ GatewayProofs!nodeOf(gws'[g].active)
                # GatewayProofs!nodeOf(gws[g].active)
           => event = IF gws'[g].active = NoEndpoint
                      THEN [kind |-> "lost", node |-> gws[g].active.node]
                      ELSE [kind |-> "elected", node |-> gws'[g].active.node]]_gws
  BY GatewayAssumptions, GatewayProofs!AnnouncedNext
<1> QED
  BY <1>1, StepsOfGateways DEF G!nodeOf, GatewayProofs!nodeOf

LEMMA KeptNext ==
    IInv /\ [Next]_vars =>
      [\A g \in Gateways :
         /\ gws[g] # Absent /\ gws'[g] # Absent
         /\ ~gws[g].spec.lb /\ G!OneEndpointPerNode(gws[g].spec)
         /\ gws[g].active \in G!Range(gws[g].spec.endpoints)
         /\ G!SeenHealthy(gws[g].active.node, g)
         => gws'[g].active = gws[g].active]_gws
<1>1. GatewayProofs!IInv /\ GatewayProofs!Next =>
        [\A g \in Gateways :
           /\ gws[g] # Absent /\ gws'[g] # Absent
           /\ ~gws[g].spec.lb /\ GatewayProofs!OneEndpointPerNode(gws[g].spec)
           /\ gws[g].active \in GatewayProofs!Range(gws[g].spec.endpoints)
           /\ GatewayProofs!SeenHealthy(gws[g].active.node, g)
           => gws'[g].active = gws[g].active]_gws
  BY GatewayAssumptions, GatewayProofs!KeptNext
<1> QED
  BY <1>1, StepsOfGateways
     DEF G!Range, GatewayProofs!Range, G!OneEndpointPerNode,
         GatewayProofs!OneEndpointPerNode, G!SeenHealthy,
         GatewayProofs!SeenHealthy, G!views, GatewayProofs!views

LEMMA StaysNext ==
    IInv /\ [Next]_vars =>
      [\A g \in Gateways :
         /\ gws[g] # Absent /\ G!Converged(g)
         /\ g \notin queue /\ gwWatch[g] = << >>
         /\ nodeWatch = G!noVersions(Nodes)
         /\ disturbances' = disturbances
         => G!Converged(g)']_G!vars
<1> SUFFICES ASSUME IInv, [Next]_vars, ~UNCHANGED G!vars, NEW g \in Gateways,
                    gws[g] # Absent, G!Converged(g), g \notin queue,
                    gwWatch[g] = << >>, nodeWatch = G!noVersions(Nodes),
                    disturbances' = disturbances
             PROVE  G!Converged(g)'
  OBVIOUS
<1>1. CASE UNCHANGED <<gws, nodes>>
  BY <1>1 DEF G!Converged, G!StatusFits, G!Competent, G!managed, G!readyIn,
              G!namesIn, G!Range
<1>2. CASE GatewayProofs!Next
  <2>1. /\ G!Converged(g) <=> GatewayProofs!Converged(g)
        /\ G!Converged(g)' <=> GatewayProofs!Converged(g)'
    BY DEF G!Converged, G!StatusFits, G!Competent, G!managed, G!readyIn,
           G!namesIn, G!Range, GatewayProofs!Converged,
           GatewayProofs!StatusFits, GatewayProofs!Competent,
           GatewayProofs!managed, GatewayProofs!readyIn,
           GatewayProofs!namesIn, GatewayProofs!Range
  <2>2. nodeWatch = GatewayProofs!noVersions(Nodes)
    BY DEF G!noVersions, GatewayProofs!noVersions
  <2>3. GatewayProofs!IInv /\ ~UNCHANGED GatewayProofs!vars
    BY StepsOfGateways, SameGatewaySteps DEF G!vars, GatewayProofs!vars
  <2>4. GatewayProofs!Converged(g)'
    BY <1>2, <2>1, <2>2, <2>3, GatewayAssumptions, GatewayProofs!StaysNext
  <2> QED
    BY <2>1, <2>4
<1> QED
  BY <1>1, <1>2, StepsOfGateways

LEMMA AtomicNext ==
    /\ Init => G!Atomic!Init
    /\ IInv /\ [Next]_vars => [G!Atomic!Next]_gws
<1>1. Init => G!Atomic!Init
  BY DEF Init, G!Init, G!Atomic!Init, G!NewGateway, G!Atomic!NewGateway
<1>2. GatewayProofs!IInv /\ GatewayProofs!Next => [GatewayProofs!Atomic!Next]_gws
  BY GatewayAssumptions, GatewayProofs!AtomicNext
<1>3. GatewayProofs!Atomic!Next <=> G!Atomic!Next
  BY DEF GatewayProofs!Atomic!Next, G!Atomic!Next, GatewayProofs!Atomic!UserWrites,
         G!Atomic!UserWrites, GatewayProofs!Atomic!NewGateway,
         G!Atomic!NewGateway, GatewayProofs!Atomic!Reconcile,
         G!Atomic!Reconcile, GatewayProofs!Atomic!Views, G!Atomic!Views,
         GatewayProofs!Atomic!Version, G!Atomic!Version,
         GatewayProofs!Atomic!Lists, G!Atomic!Lists,
         GatewayProofs!Atomic!ListsSome, G!Atomic!ListsSome,
         GatewayProofs!Atomic!managed, G!Atomic!managed,
         GatewayProofs!Atomic!namesIn, G!Atomic!namesIn,
         GatewayProofs!Atomic!Publishes, G!Atomic!Publishes,
         GatewayProofs!Atomic!electedFor, G!Atomic!electedFor,
         GatewayProofs!Atomic!readyIn, G!Atomic!readyIn,
         GatewayProofs!Atomic!electActiveEndpoint, G!Atomic!electActiveEndpoint,
         GatewayProofs!Atomic!checkActive, G!Atomic!checkActive,
         GatewayProofs!Atomic!firstHostedBy, G!Atomic!firstHostedBy,
         GatewayProofs!Atomic!Range, G!Atomic!Range,
         GatewayProofs!Atomic!Min, G!Atomic!Min
<1> QED
  BY <1>1, <1>2, <1>3, StepsOfGateways

\* The Service controller's promise: in a step of the other controller, or of
\* the cloud, the Endpoints stay.
LEMMA EndpointsNext ==
    IInv /\ [Next]_vars =>
      [/\ disturbances' = disturbances
       /\ eps \in S!Target
       /\ \A view \in {gwCache} \union IF servicePc = "idle" THEN {} ELSE {gwList} :
             S!activeNodes(view) = {eps.node}
       => S!leadsTo(eps', {eps.node})]_S!vars
<1> SUFFICES ASSUME IInv, [Next]_vars, disturbances' = disturbances,
                    eps \in S!Target,
                    \A view \in {gwCache} \union
                                  IF servicePc = "idle" THEN {} ELSE {gwList} :
                       S!activeNodes(view) = {eps.node}
             PROVE  S!leadsTo(eps', {eps.node})
  OBVIOUS
<1>1. CASE UNCHANGED eps
  BY <1>1 DEF S!leadsTo
<1>2. CASE ServiceAlone
  <2>1. ServiceProofs!IInv /\ ServiceProofs!Next
    BY <1>2, SameServiceInvariant, SameServiceSteps DEF IInv, ServiceAlone
  <2>2. /\ eps \in ServiceProofs!Target
        /\ \A view \in {gwCache} \union
                         IF servicePc = "idle" THEN {} ELSE {gwList} :
              ServiceProofs!activeNodes(view) = {eps.node}
    BY DEF S!Target, ServiceProofs!Target, S!activeNodes,
           ServiceProofs!activeNodes, S!serving, ServiceProofs!serving,
           S!exposed, ServiceProofs!exposed, S!IsGatewayExposeByLB,
           ServiceProofs!IsGatewayExposeByLB
  <2>3. CASE UNCHANGED ServiceProofs!vars
    BY <1>1, <2>3 DEF ServiceProofs!vars
  <2>4. CASE ~UNCHANGED ServiceProofs!vars
    <3>1. ServiceProofs!leadsTo(eps', {eps.node})
      BY <2>1, <2>2, <2>4, ServiceAssumptions, ServiceProofs!KeptNext
    <3> QED
      BY <3>1 DEF ServiceProofs!leadsTo, S!leadsTo, ServiceProofs!Target, S!Target
  <2> QED
    BY <2>3, <2>4
<1>3. CASE GatewayAlone \/ SetIngress \/ Restart \/ UNCHANGED vars
  BY <1>1, <1>3 DEF GatewayAlone, SetIngress, Restart, vars, serviceOnly
<1>4. ASSUME NEW g \in Gateways, DeliverGateway(g) PROVE UNCHANGED eps
  BY <1>4 DEF DeliverGateway
<1> QED
  BY <1>1, <1>2, <1>3, <1>4, Steps

LEMMA ServiceInvariants == IInv => S!SettledServed
BY DEF IInv, S!IInv, S!WakeupPending, S!SettledServed, S!Settled

\* In one process with the Service controller, which makes the Service it waits
\* for and whose panics and crashes are its own, the Gateway controller keeps
\* all it promises alone, and refines the same atomic gateway.
THEOREM GatewayPromisesKept ==
    Spec => /\ G!ImplementsAtomicGateway
            /\ G!ElectedIsDeclared /\ G!SwitchAnnounced
            /\ G!NoSpuriousFailover /\ G!StaysConverged
            /\ []G!ActiveIsManaged /\ []G!SettledConverged
<1>1. Spec => G!ImplementsAtomicGateway
  BY AtomicNext, ManagerInvariant, PTL
     DEF Spec, G!ImplementsAtomicGateway, G!Atomic!Spec
<1>2. Spec => G!ElectedIsDeclared
  BY DeclaredNext, ManagerInvariant, PTL DEF Spec, G!ElectedIsDeclared
<1>3. Spec => G!SwitchAnnounced
  BY AnnouncedNext, ManagerInvariant, PTL DEF Spec, G!SwitchAnnounced
<1>4. Spec => G!NoSpuriousFailover
  BY KeptNext, ManagerInvariant, PTL DEF Spec, G!NoSpuriousFailover
<1>5. Spec => G!StaysConverged
  BY StaysNext, ManagerInvariant, PTL DEF Spec, G!StaysConverged
<1>6. Spec => []G!ActiveIsManaged /\ []G!SettledConverged
  BY GatewayInvariants, ManagerInvariant, PTL
<1> QED
  BY <1>1, <1>2, <1>3, <1>4, <1>5, <1>6

\* So does the Service controller, whose view of the gateways is now the cache
\* that the Gateway controller's writes come into.
THEOREM ServicePromisesKept == Spec => []S!SettledServed /\ S!KeepsEndpoints
<1>1. Spec => []S!SettledServed
  BY ServiceInvariants, ManagerInvariant, PTL
<1>2. Spec => S!KeepsEndpoints
  BY EndpointsNext, ManagerInvariant, PTL DEF Spec, S!KeepsEndpoints
<1> QED
  BY <1>1, <1>2
=============================================================================
