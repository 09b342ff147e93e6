--------------------- MODULE ServiceController_proofs ----------------------
(***************************************************************************)
(* Proofs about the Service controller, for any sets of gateways, nodes    *)
(* and object contents and any bounds.                                     *)
(***************************************************************************)
EXTENDS ServiceProperties, Watches_proofs

-----------------------------------------------------------------------------
(* TypeOK.                                                                 *)

LEMMA TypeInit == Init => TypeOK
<1> SUFFICES ASSUME Init PROVE TypeOK
  OBVIOUS
<1> USE DEF Version
<1>1. queued \in BOOLEAN
  BY DEF Init, someWork
<1>2. gwList \in [Gateways -> Version(GatewayObjs)]
  BY DEF Init, NoList
<1>3. disturbances \in 0..MaxDisturbances
  BY BoundsAssumption DEF Init
<1>4. /\ svc \in Version(ServiceObjs) /\ svcCache \in Version(ServiceObjs)
      /\ eps \in Version(EndpointsObjs)
      /\ epsCache \in Version(EndpointsObjs)
      /\ target \in Version(Target)
  BY DEF Init
<1>5. /\ svcWatch \in Seq(Version(ServiceObjs))
      /\ epsWatch \in Seq(Version(EndpointsObjs))
  BY DEF Init
<1>6. /\ gws \in [Gateways -> Version(GatewayObjs)]
      /\ nodes \in [Nodes -> Version(NodeObjs)]
      /\ pc = "idle" /\ fresh \in BOOLEAN /\ missed \in BOOLEAN
  BY DEF Init
<1> QED
  BY <1>1, <1>2, <1>3, <1>4, <1>5, <1>6 DEF TypeOK

LEMMA ForgetType ==
    ASSUME ForgetLocals
    PROVE  /\ pc' = "idle"
           /\ gwList' \in [Gateways -> Version(GatewayObjs)]
           /\ target' \in Version(Target)
           /\ fresh' \in BOOLEAN
BY DEF ForgetLocals, NoList, Version

\* A write of a version of the right kind keeps the types.
LEMMA WriteServiceType ==
    ASSUME TypeOK, NEW obj \in Version(ServiceObjs), WriteService(obj)
    PROVE  /\ svc' \in Version(ServiceObjs)
           /\ svcWatch' \in Seq(Version(ServiceObjs))
BY DEF WriteService, TypeOK

LEMMA WriteEndpointsType ==
    ASSUME TypeOK, NEW obj \in Version(EndpointsObjs), WriteEndpoints(obj)
    PROVE  /\ eps' \in Version(EndpointsObjs)
           /\ epsWatch' \in Seq(Version(EndpointsObjs))
BY DEF WriteEndpoints, TypeOK

LEMMA DisturbType ==
    ASSUME TypeOK, Disturb
    PROVE  disturbances' \in 0..MaxDisturbances
BY BoundsAssumption DEF TypeOK, Disturb

\* What the controller writes.
LEMMA WrittenType ==
    ASSUME TypeOK
    PROVE  /\ NewService \in Version(ServiceObjs)
           /\ Absent \in Version(ServiceObjs)
           /\ Absent \in Version(EndpointsObjs)
           /\ target # Absent => target \in Version(EndpointsObjs)
BY ObjsAssumption DEF TypeOK, Version, EndpointsObjs

LEMMA DeleteType ==
    ASSUME TypeOK
    PROVE  /\ DeleteService => /\ svc' \in Version(ServiceObjs)
                               /\ svcWatch' \in Seq(Version(ServiceObjs))
           /\ DeleteEndpoints => /\ eps' \in Version(EndpointsObjs)
                                 /\ epsWatch' \in Seq(Version(EndpointsObjs))
<1>1. ASSUME DeleteService
      PROVE  /\ svc' \in Version(ServiceObjs)
             /\ svcWatch' \in Seq(Version(ServiceObjs))
  BY <1>1, WriteServiceType, WrittenType DEF DeleteService, TypeOK
<1>2. ASSUME DeleteEndpoints
      PROVE  /\ eps' \in Version(EndpointsObjs)
             /\ epsWatch' \in Seq(Version(EndpointsObjs))
  BY <1>2, WriteEndpointsType, WrittenType DEF DeleteEndpoints, TypeOK
<1> QED
  BY <1>1, <1>2

LEMMA EnvironmentType == TypeOK /\ Environment => TypeOK'
<1> SUFFICES ASSUME TypeOK, Environment PROVE TypeOK'
  OBVIOUS
<1> USE DEF cached, service, endpoints, locals
<1>1. ASSUME NEW g \in Gateways, NEW obj \in GatewayObjs \union {Absent},
             ChangeGateway(g, obj)
      PROVE  TypeOK'
  <2>1. gws' \in [Gateways -> Version(GatewayObjs)]
    BY <1>1 DEF ChangeGateway, TypeOK, Version
  <2>2. queued' \in BOOLEAN
    BY <1>1, Zenon DEF ChangeGateway, TypeOK, gatewayQueues,
                       mapGatewayToRequest, IsGatewayExposeByLB
  <2> QED
    BY <1>1, <2>1, <2>2, DisturbType DEF ChangeGateway, TypeOK
<1>2. ASSUME NEW n \in Nodes, NEW obj \in NodeObjs \union {Absent},
             ChangeNode(n, obj)
      PROVE  TypeOK'
  BY <1>2, DisturbType DEF ChangeNode, TypeOK, Version
<1>3. ASSUME NEW obj \in ServiceObjs \union {Absent}, ChangeService(obj)
      PROVE  TypeOK'
  <2>1. obj \in Version(ServiceObjs)
    BY DEF Version
  <2> QED
    BY <1>3, <2>1, DisturbType, WriteServiceType DEF ChangeService, TypeOK
<1>4. ASSUME NEW obj \in {Foreign, Absent}, ChangeEndpoints(obj)
      PROVE  TypeOK'
  <2>1. obj \in Version(EndpointsObjs)
    BY DEF Version, EndpointsObjs
  <2> QED
    BY <1>4, <2>1, DisturbType, WriteEndpointsType DEF ChangeEndpoints, TypeOK
<1> QED
  BY <1>1, <1>2, <1>3, <1>4 DEF Environment

LEMMA InformersType == TypeOK /\ Informers => TypeOK'
<1> SUFFICES ASSUME TypeOK, Informers PROVE TypeOK'
  OBVIOUS
<1> USE DEF cached, service, endpoints, locals
<1>1. CASE DeliverService
  <2>1. /\ Head(svcWatch) \in Version(ServiceObjs)
        /\ Tail(svcWatch) \in Seq(Version(ServiceObjs))
    BY <1>1, HeadTailProperties DEF DeliverService, TypeOK
  <2> QED
    BY <1>1, <2>1 DEF DeliverService, TypeOK
<1>2. CASE DeliverEndpoints
  <2>1. /\ Head(epsWatch) \in Version(EndpointsObjs)
        /\ Tail(epsWatch) \in Seq(Version(EndpointsObjs))
    BY <1>2, HeadTailProperties DEF DeliverEndpoints, TypeOK
  <2> QED
    BY <1>2, <2>1 DEF DeliverEndpoints, TypeOK
<1>3. CASE RelistService
  BY <1>3 DEF RelistService, TypeOK
<1>4. CASE RelistEndpoints
  BY <1>4 DEF RelistEndpoints, TypeOK
<1>5. CASE Resync
  <2>1. queued' \in BOOLEAN
    BY <1>5 DEF Resync, TypeOK, someWork
  <2> QED
    BY <1>5, <2>1 DEF Resync, TypeOK
<1> QED
  BY <1>1, <1>2, <1>3, <1>4, <1>5 DEF Informers

LEMMA GetNodeType ==
    ASSUME TypeOK, NEW g \in serving(gwList),
           nodes[gwList[g].active.node] # Absent
    PROVE  [node |-> gwList[g].active.node,
            addr |-> nodes[gwList[g].active.node].addr] \in Target
<1>1. gwList[g] \in Gateway /\ gwList[g].active # NoEndpoint
  BY ObjsAssumption DEF serving, exposed, IsGatewayExposeByLB, TypeOK, Version
<1>2. gwList[g].active.node \in Nodes
  BY <1>1 DEF Gateway, Endpoint
<1>3. nodes[gwList[g].active.node] \in Node
  BY <1>2, NodeObjsAssumption DEF TypeOK, Version
<1> QED
  BY <1>2, <1>3 DEF Target, Node

LEMMA ProceedType == TypeOK /\ HeldTarget /\ Proceed => TypeOK'
<1> SUFFICES ASSUME TypeOK, HeldTarget, Proceed PROVE TypeOK'
  OBVIOUS
<1> USE DEF cached, service, endpoints, locals
<1>0. /\ Requeue => ForgetLocals /\ queued' \in BOOLEAN
      /\ Return => ForgetLocals /\ queued' \in BOOLEAN
  BY DEF Requeue, Return, TypeOK
<1>a. pc \in {"createEndpoints", "updateEndpoints"} =>
        target \in Version(EndpointsObjs)
  BY DEF HeldTarget, leadsTo, EndpointsObjs, Version
<1>1. CASE StartReconcile
  BY <1>1 DEF StartReconcile, TypeOK
<1>2. CASE GetService
  BY <1>2 DEF GetService, TypeOK
<1>3. CASE CreateService
  BY <1>3, <1>0, WriteServiceType, WrittenType, ForgetType
     DEF CreateService, TypeOK
<1>4. CASE CleanService
  BY <1>4, DeleteType DEF CleanService, TypeOK
<1>5. ASSUME NEW g \in Gateways, GetNode(g) PROVE TypeOK'
  BY <1>5, <1>0, GetNodeType, ForgetType DEF GetNode, TypeOK, Version
<1>6. CASE LeaveEndpoints
  BY <1>6, <1>0, ForgetType DEF LeaveEndpoints, TypeOK
<1>7. CASE CleanEndpoint
  BY <1>7, <1>0, DeleteType, ForgetType DEF CleanEndpoint, TypeOK
<1>8. CASE GetEndpoints
  BY <1>8, <1>0, ForgetType DEF GetEndpoints, TypeOK
<1>9. CASE CreateEndpoints
  BY <1>9, <1>0, <1>a, WriteEndpointsType, ForgetType
     DEF CreateEndpoints, TypeOK
<1>10. CASE UpdateEndpoints
  BY <1>10, <1>0, <1>a, WriteEndpointsType, ForgetType
     DEF UpdateEndpoints, TypeOK
<1> QED
  BY <1>1, <1>2, <1>3, <1>4, <1>5, <1>6, <1>7, <1>8, <1>9, <1>10 DEF Proceed

LEMMA FaultsType ==
    TypeOK /\ HeldTarget /\ (LoseReply \/ FailReconcile \/ Crash) => TypeOK'
<1> SUFFICES ASSUME TypeOK, HeldTarget, LoseReply \/ FailReconcile \/ Crash
             PROVE  TypeOK'
  OBVIOUS
<1> USE DEF cached, service, endpoints
<1>a. pc \in {"createEndpoints", "updateEndpoints"} =>
        target \in Version(EndpointsObjs)
  BY DEF HeldTarget, leadsTo, EndpointsObjs, Version
<1>1. CASE LoseReply
  <2>1. /\ svc' \in Version(ServiceObjs)
        /\ svcWatch' \in Seq(Version(ServiceObjs))
        /\ eps' \in Version(EndpointsObjs)
        /\ epsWatch' \in Seq(Version(EndpointsObjs))
    BY <1>1, <1>a, WriteServiceType, WriteEndpointsType, WrittenType,
       DeleteType DEF LoseReply, TypeOK
  <2> QED
    BY <1>1, <2>1, ForgetType, DisturbType DEF LoseReply, Requeue, TypeOK
<1>2. CASE FailReconcile
  <2> USE DEF locals
  <2> QED
    BY <1>2, ForgetType, DisturbType DEF FailReconcile, Requeue, TypeOK
<1>3. CASE Crash
  <2>1. queued' \in BOOLEAN
    BY <1>3 DEF Crash, someWork
  <2>2. /\ UNCHANGED <<gws, nodes, svc, eps>>
        /\ svcCache' = svc /\ epsCache' = eps
        /\ svcWatch' = << >> /\ epsWatch' = << >> /\ missed' = FALSE
        /\ ForgetLocals /\ Disturb
    BY <1>3 DEF Crash
  <2>3. /\ svcWatch' \in Seq(Version(ServiceObjs))
        /\ epsWatch' \in Seq(Version(EndpointsObjs))
    BY <2>2
  <2> QED
    BY <2>1, <2>2, <2>3, ForgetType, DisturbType DEF TypeOK
<1> QED
  BY <1>1, <1>2, <1>3

-----------------------------------------------------------------------------
(* CachesTrail.                                                            *)

\* What a step does to the Service and its cache.
ServiceStep ==
    \/ UNCHANGED service
    \/ /\ UNCHANGED svcCache
       /\ \E obj \in Version(ServiceObjs) : WriteService(obj)
    \/ DeliverService
    \/ svcCache' = svc' /\ svcWatch' = << >>

\* What a step does to the Endpoints and their cache.
EndpointsStep ==
    \/ UNCHANGED endpoints
    \/ /\ UNCHANGED epsCache
       /\ \E obj \in Version(EndpointsObjs) : WriteEndpoints(obj)
    \/ DeliverEndpoints
    \/ epsCache' = eps' /\ epsWatch' = << >>

LEMMA Steps ==
    ASSUME TypeOK, HeldTarget, [Next]_vars
    PROVE  ServiceStep /\ EndpointsStep
<1> USE DEF service, endpoints, ServiceStep, EndpointsStep
<1>a. /\ NewService \in Version(ServiceObjs)
      /\ Absent \in Version(ServiceObjs)
      /\ Absent \in Version(EndpointsObjs)
      /\ Foreign \in Version(EndpointsObjs)
      /\ pc \in {"createEndpoints", "updateEndpoints"} =>
           target \in Version(EndpointsObjs)
  BY WrittenType DEF HeldTarget, leadsTo, EndpointsObjs, Version
<1>b. /\ DeleteService => UNCHANGED <<svc, svcWatch>> \/ WriteService(Absent)
      /\ DeleteEndpoints => UNCHANGED <<eps, epsWatch>> \/ WriteEndpoints(Absent)
  BY DEF DeleteService, DeleteEndpoints
<1>1. CASE UNCHANGED vars
  BY <1>1 DEF vars
<1>2. CASE Environment
  <2>1. ASSUME NEW obj \in ServiceObjs \union {Absent}, ChangeService(obj)
        PROVE  ServiceStep /\ EndpointsStep
    BY <2>1, Version(ServiceObjs) = ServiceObjs \union {Absent}
       DEF ChangeService, Version
  <2>2. ASSUME NEW obj \in {Foreign, Absent}, ChangeEndpoints(obj)
        PROVE  ServiceStep /\ EndpointsStep
    BY <1>a, <2>2 DEF ChangeEndpoints
  <2>3. ASSUME NEW g \in Gateways, NEW obj \in GatewayObjs \union {Absent},
               ChangeGateway(g, obj)
        PROVE  ServiceStep /\ EndpointsStep
    BY <2>3 DEF ChangeGateway
  <2>4. ASSUME NEW n \in Nodes, NEW obj \in NodeObjs \union {Absent},
               ChangeNode(n, obj)
        PROVE  ServiceStep /\ EndpointsStep
    BY <2>4 DEF ChangeNode
  <2> QED
    BY <1>2, <2>1, <2>2, <2>3, <2>4 DEF Environment
<1>3. CASE Informers
  BY <1>3 DEF Informers, DeliverService, DeliverEndpoints, RelistService,
              RelistEndpoints, Resync
<1>4. CASE Proceed
  <2>1. CASE CreateService \/ CleanService
    BY <1>a, <1>b, <2>1 DEF CreateService, CleanService
  <2>2. CASE CleanEndpoint \/ CreateEndpoints \/ UpdateEndpoints
    BY <1>a, <1>b, <2>2 DEF CleanEndpoint, CreateEndpoints, UpdateEndpoints
  <2>3. ASSUME NEW g \in Gateways, GetNode(g)
        PROVE  ServiceStep /\ EndpointsStep
    BY <2>3 DEF GetNode
  <2>4. CASE StartReconcile \/ GetService \/ LeaveEndpoints \/ GetEndpoints
    BY <2>4 DEF StartReconcile, GetService, LeaveEndpoints, GetEndpoints
  <2> QED
    BY <1>4, <2>1, <2>2, <2>3, <2>4 DEF Proceed
<1>5. CASE LoseReply
  BY <1>a, <1>b, <1>5 DEF LoseReply
<1>6. CASE FailReconcile \/ Crash
  BY <1>6 DEF FailReconcile, Crash
<1> QED
  BY <1>1, <1>2, <1>3, <1>4, <1>5, <1>6 DEF Next

LEMMA TrailNext ==
    ASSUME TypeOK, HeldTarget, CachesTrail, [Next]_vars
    PROVE  CachesTrail'
<1>1. Trails(svcCache', svcWatch', svc')
  <2>1. CASE UNCHANGED service
    BY <2>1 DEF service, CachesTrail
  <2>2. ASSUME UNCHANGED svcCache, NEW obj \in Version(ServiceObjs),
               WriteService(obj)
        PROVE  Trails(svcCache', svcWatch', svc')
    BY <2>2, TrailsAppend DEF WriteService, TypeOK
  <2>3. CASE DeliverService
    BY <2>3, TrailsTail DEF DeliverService, TypeOK, CachesTrail
  <2>4. CASE svcCache' = svc' /\ svcWatch' = << >>
    BY <2>4 DEF Trails
  <2> QED
    BY <2>1, <2>2, <2>3, <2>4, Steps DEF ServiceStep
<1>2. Trails(epsCache', epsWatch', eps')
  <2>1. CASE UNCHANGED endpoints
    BY <2>1 DEF endpoints, CachesTrail
  <2>2. ASSUME UNCHANGED epsCache, NEW obj \in Version(EndpointsObjs),
               WriteEndpoints(obj)
        PROVE  Trails(epsCache', epsWatch', eps')
    BY <2>2, TrailsAppend DEF WriteEndpoints, TypeOK
  <2>3. CASE DeliverEndpoints
    BY <2>3, TrailsTail DEF DeliverEndpoints, TypeOK, CachesTrail
  <2>4. CASE epsCache' = eps' /\ epsWatch' = << >>
    BY <2>4 DEF Trails
  <2> QED
    BY <2>1, <2>2, <2>3, <2>4, Steps DEF EndpointsStep
<1> QED
  BY <1>1, <1>2 DEF CachesTrail

-----------------------------------------------------------------------------
(* HeldTarget.                                                             *)

LEMMA HeldNext ==
    ASSUME TypeOK, HeldTarget, [Next]_vars
    PROVE  HeldTarget'
<1> USE DEF cached, service, endpoints, locals
<1>0. ASSUME pc' = "idle" PROVE HeldTarget'
  BY <1>0 DEF HeldTarget
<1>a. ASSUME UNCHANGED <<pc, gwList, target>> PROVE HeldTarget'
  BY <1>a DEF HeldTarget
<1>b. ASSUME Requeue \/ Return PROVE HeldTarget'
  BY <1>b, <1>0 DEF Requeue, Return, ForgetLocals
<1>1. CASE UNCHANGED vars
  BY <1>1, <1>a DEF vars
<1>2. CASE Environment
  BY <1>2, <1>a DEF Environment, ChangeGateway, ChangeNode, ChangeService,
                    ChangeEndpoints
<1>3. CASE Informers
  BY <1>3, <1>a DEF Informers, DeliverService, DeliverEndpoints,
                    RelistService, RelistEndpoints, Resync
<1>4. CASE Proceed
  <2>1. CASE StartReconcile \/ GetService \/ CleanService
    BY <2>1 DEF StartReconcile, GetService, CleanService, HeldTarget
  <2>2. CASE CreateService
    BY <2>2, <1>b DEF CreateService, HeldTarget
  <2>3. ASSUME NEW g \in Gateways, GetNode(g) PROVE HeldTarget'
    <3>1. CASE nodes[gwList[g].active.node] = Absent
      BY <2>3, <3>1, <1>b DEF GetNode
    <3>2. CASE nodes[gwList[g].active.node] # Absent
      <4>1. /\ target' \in Target
            /\ target'.node = gwList[g].active.node
            /\ g \in serving(gwList) /\ gwList' = gwList
            /\ pc' = "getEndpoints"
        BY <2>3, <3>2, GetNodeType DEF GetNode
      <4> QED
        BY <4>1 DEF HeldTarget, leadsTo, activeNodes
    <3> QED
      BY <3>1, <3>2
  <2>4. CASE \/ LeaveEndpoints \/ CleanEndpoint \/ CreateEndpoints
             \/ UpdateEndpoints
    BY <2>4, <1>b DEF LeaveEndpoints, CleanEndpoint, CreateEndpoints,
                      UpdateEndpoints
  <2>5. CASE GetEndpoints
    BY <2>5, <1>b DEF GetEndpoints, HeldTarget
  <2> QED
    BY <1>4, <2>1, <2>2, <2>3, <2>4, <2>5 DEF Proceed
<1>5. CASE LoseReply \/ FailReconcile
  BY <1>5, <1>b DEF LoseReply, FailReconcile
<1>6. CASE Crash
  BY <1>6, <1>0 DEF Crash, ForgetLocals
<1> QED
  BY <1>1, <1>2, <1>3, <1>4, <1>5, <1>6 DEF Next

-----------------------------------------------------------------------------
(* WakeupPending.                                                          *)

\* Two lists that agree call for the same Service and Endpoints.
LEMMA AgreeFits ==
    ASSUME NEW view, NEW other, Agree(view, other)
    PROVE  /\ exposed(view) = exposed(other)
           /\ serving(view) = serving(other)
           /\ activeNodes(view) = activeNodes(other)
BY DEF Agree, serving, activeNodes

\* A change of a gateway that queues nothing leaves the list in agreement.
LEMMA SilentChangeAgrees ==
    ASSUME TypeOK, NEW g \in Gateways, NEW obj, gws' = [gws EXCEPT ![g] = obj],
           queued' = (queued \/ gatewayQueues(gws[g], obj)), ~queued'
    PROVE  ~queued /\ Agree(gws, gws')
<1>1. /\ ~queued /\ gws' = [gws EXCEPT ![g] = obj]
      /\ ~IsGatewayExposeByLB(gws[g]) /\ ~IsGatewayExposeByLB(obj)
  BY DEF gatewayQueues, mapGatewayToRequest
<1>2. \A h \in Gateways : gws'[h] = IF h = g THEN obj ELSE gws[h]
  BY <1>1 DEF TypeOK
<1>3. /\ g \notin exposed(gws) /\ g \notin exposed(gws')
      /\ \A h \in Gateways \ {g} : h \in exposed(gws) <=> h \in exposed(gws')
  BY <1>1, <1>2 DEF exposed
<1>4. exposed(gws) = exposed(gws')
  BY <1>3 DEF exposed
<1> QED
  BY <1>1, <1>2, <1>3, <1>4 DEF Agree, exposed

LEMMA AgreeTransitive ==
    ASSUME NEW u, NEW v, NEW w, Agree(u, v), Agree(v, w)
    PROVE  Agree(u, w)
BY DEF Agree

LEMMA PendingNext ==
    ASSUME IInv, [Next]_vars
    PROVE  WakeupPending'
<1>i. TypeOK /\ CachesTrail /\ HeldTarget /\ WakeupPending
  BY DEF IInv
<1> SUFFICES ASSUME ~queued', ~missed' PROVE WakeupPending'
  BY DEF WakeupPending
<1> USE DEF cached, service, endpoints, locals
<1>a. ASSUME ~queued, ~missed, UNCHANGED <<gws, service, endpoints, locals>>
      PROVE  WakeupPending'
  BY <1>i, <1>a DEF WakeupPending, ServiceFits, EndpointsFit
<1>b. /\ \A obj \in Version(ServiceObjs) : WriteService(obj) => svcWatch' # << >>
      /\ \A obj \in Version(EndpointsObjs) :
            WriteEndpoints(obj) => epsWatch' # << >>
  BY <1>i DEF WriteService, WriteEndpoints, TypeOK
<1>w. /\ {NewService, Absent} \subseteq Version(ServiceObjs)
      /\ {Foreign, Absent} \subseteq Version(EndpointsObjs)
      /\ pc \in {"createEndpoints", "updateEndpoints"} =>
           target \in Version(EndpointsObjs)
  BY <1>i, WrittenType DEF HeldTarget, leadsTo, EndpointsObjs, Version
<1>c. ~Requeue
  BY DEF Requeue
<1>1. CASE UNCHANGED vars
  BY <1>1, <1>a DEF vars
<1>2. CASE Environment
  <2>1. ASSUME NEW g \in Gateways, NEW obj \in GatewayObjs \union {Absent},
               ChangeGateway(g, obj)
        PROVE  WakeupPending'
    <3>1. /\ ~queued /\ ~missed /\ Agree(gws, gws')
          /\ UNCHANGED <<service, endpoints, locals>>
      BY <1>i, <2>1, SilentChangeAgrees DEF ChangeGateway
    <3>2. /\ exposed(gws) = exposed(gws') /\ serving(gws) = serving(gws')
          /\ activeNodes(gws) = activeNodes(gws')
      BY <3>1, AgreeFits
    <3>3. pc # "idle" => Agree(gwList', gws')
      BY <1>i, <3>1, AgreeTransitive DEF WakeupPending
    <3> QED
      BY <1>i, <3>1, <3>2, <3>3 DEF WakeupPending, ServiceFits, EndpointsFit
  <2>2. ASSUME NEW n \in Nodes, NEW obj \in NodeObjs \union {Absent},
               ChangeNode(n, obj)
        PROVE  WakeupPending'
    BY <1>a, <2>2 DEF ChangeNode
  <2>3. ASSUME NEW obj \in ServiceObjs \union {Absent}, ChangeService(obj)
        PROVE  WakeupPending'
    <3>1. /\ ~queued /\ ~missed /\ svcWatch' # << >>
          /\ UNCHANGED <<gws, endpoints, locals>>
      BY <1>b, <2>3 DEF ChangeService, Version
    <3> QED
      BY <1>i, <3>1 DEF WakeupPending, EndpointsFit
  <2>4. ASSUME NEW obj \in {Foreign, Absent}, ChangeEndpoints(obj)
        PROVE  WakeupPending'
    <3>1. /\ ~queued /\ ~missed /\ epsWatch' # << >>
          /\ UNCHANGED <<gws, service, pc, gwList>>
      BY <1>b, <1>w, <2>4 DEF ChangeEndpoints
    <3> QED
      BY <1>i, <3>1 DEF WakeupPending, ServiceFits
  <2> QED
    BY <1>2, <2>1, <2>2, <2>3, <2>4 DEF Environment
<1>3. CASE Informers
  <2>1. ~DeliverService /\ ~DeliverEndpoints
    BY DEF DeliverService, DeliverEndpoints
  <2>2. ~RelistService /\ ~RelistEndpoints
    BY DEF RelistService, RelistEndpoints
  <2>3. CASE Resync
    BY <1>a, <2>3 DEF Resync
  <2> QED
    BY <1>3, <2>1, <2>2, <2>3 DEF Informers
<1>4. CASE StartReconcile
  BY <1>4 DEF StartReconcile, WakeupPending, Agree
<1>5. CASE GetService
  <2>1. svcCache # Absent /\ svcWatch = << >> => ServiceFits(gws)
    BY <1>i, <1>5, AgreeFits
       DEF GetService, WakeupPending, ServiceFits, CachesTrail, Trails
  <2> QED
    BY <1>i, <1>5, <2>1 DEF GetService, WakeupPending, ServiceFits
<1>6. CASE CreateService
  <2>1. /\ ~queued /\ ~missed /\ svcWatch' # << >>
        /\ UNCHANGED <<gws, gwList>> /\ pc = "createService"
        /\ pc' = "endpoints"
    BY <1>6, <1>b, <1>c, <1>w DEF CreateService
  <2> QED
    BY <1>i, <2>1 DEF WakeupPending
<1>7. CASE CleanService
  <2>1. exposed(gws) = {}
    BY <1>i, <1>7, AgreeFits DEF CleanService, WakeupPending
  <2>2. svcWatch' # << >> \/ svc' = Absent
    BY <1>7, <1>b, <1>w DEF CleanService, DeleteService
  <2> QED
    BY <1>i, <1>7, <2>1, <2>2 DEF CleanService, WakeupPending, ServiceFits
<1>8. ASSUME NEW g \in Gateways, GetNode(g) PROVE WakeupPending'
  BY <1>i, <1>8, <1>c DEF GetNode, WakeupPending, ServiceFits
<1>9. CASE LeaveEndpoints
  <2>1. exposed(gws) # {} /\ serving(gws) = {}
    BY <1>i, <1>9, AgreeFits DEF LeaveEndpoints, Return, WakeupPending
  <2> QED
    BY <1>i, <1>9, <2>1 DEF LeaveEndpoints, Return, ForgetLocals,
                            WakeupPending, ServiceFits, EndpointsFit
<1>10. CASE CleanEndpoint
  <2>1. exposed(gws) = {} /\ serving(gws) = {}
    BY <1>i, <1>10, AgreeFits DEF CleanEndpoint, Return, WakeupPending, serving
  <2>2. epsWatch' # << >> \/ eps' = Absent
    BY <1>10, <1>b, <1>w DEF CleanEndpoint, DeleteEndpoints
  <2> QED
    BY <1>i, <1>10, <2>1, <2>2 DEF CleanEndpoint, Return, ForgetLocals,
                                   WakeupPending, ServiceFits, EndpointsFit
<1>11. CASE GetEndpoints
  <2>1. CASE epsCache = target
    <3>1. leadsTo(target, activeNodes(gws)) /\ ~queued /\ ~missed
      BY <1>i, <1>11, <2>1, AgreeFits
         DEF GetEndpoints, Return, HeldTarget, WakeupPending
    <3>2. exposed(gws) # {}
      BY <3>1 DEF leadsTo, activeNodes, serving
    <3>3. epsWatch # << >> \/ EndpointsFit(gws)
      BY <1>i, <2>1, <3>1, <3>2 DEF CachesTrail, Trails, EndpointsFit
    <3> QED
      BY <1>i, <1>11, <2>1, <3>1, <3>3
         DEF GetEndpoints, Return, ForgetLocals, WakeupPending, ServiceFits,
             EndpointsFit
  <2>2. CASE epsCache # target
    BY <1>i, <1>11, <2>2 DEF GetEndpoints, WakeupPending, ServiceFits
  <2> QED
    BY <2>1, <2>2
<1>12. CASE CreateEndpoints \/ UpdateEndpoints
  <2>1. /\ ~queued /\ ~missed /\ epsWatch' # << >>
        /\ UNCHANGED <<gws, service>> /\ pc' = "idle"
        /\ pc \in {"createEndpoints", "updateEndpoints"}
    BY <1>12, <1>b, <1>c, <1>w
       DEF CreateEndpoints, UpdateEndpoints, Return, ForgetLocals
  <2> QED
    BY <1>i, <2>1 DEF WakeupPending, ServiceFits
<1>13. ~LoseReply /\ ~FailReconcile
  BY <1>c DEF LoseReply, FailReconcile
<1>14. CASE Crash
  BY <1>14 DEF Crash, someWork, ForgetLocals, WakeupPending, ServiceFits,
               EndpointsFit, serving
<1> QED
  BY <1>1, <1>2, <1>3, <1>4, <1>5, <1>6, <1>7, <1>8, <1>9, <1>10, <1>11,
     <1>12, <1>13, <1>14 DEF Next, Proceed

-----------------------------------------------------------------------------
(* The inductive invariant.                                                *)

LEMMA IInvInit == Init => IInv
<1> SUFFICES ASSUME Init PROVE IInv
  OBVIOUS
<1>1. CachesTrail /\ HeldTarget
  BY DEF Init, CachesTrail, Trails, HeldTarget
<1>2. WakeupPending
  BY DEF Init, WakeupPending, someWork, ServiceFits, EndpointsFit, serving
<1> QED
  BY <1>1, <1>2, TypeInit DEF IInv

LEMMA IInvNext == IInv /\ [Next]_vars => IInv'
<1> SUFFICES ASSUME IInv, [Next]_vars PROVE IInv'
  OBVIOUS
<1>1. TypeOK /\ HeldTarget /\ CachesTrail
  BY DEF IInv
<1>2. TypeOK'
  <2>1. CASE UNCHANGED vars
    BY <1>1, <2>1 DEF vars, TypeOK
  <2> QED
    BY <1>1, <2>1, EnvironmentType, InformersType, ProceedType, FaultsType
       DEF Next
<1> QED
  BY <1>1, <1>2, TrailNext, HeldNext, PendingNext DEF IInv

-----------------------------------------------------------------------------
(* Steps of others that the module counts as disturbances, without the     *)
(* bound on these.                                                         *)

\* Nodes change in the cache.
LEMMA IInvNodes ==
    ASSUME IInv, nodes' \in [Nodes -> Version(NodeObjs)],
           disturbances' \in 0..MaxDisturbances,
           UNCHANGED <<gws, service, endpoints, queued, locals, missed>>
    PROVE  IInv'
<1> USE DEF service, endpoints, locals
<1>1. TypeOK'
  BY DEF IInv, TypeOK
<1>2. CachesTrail' /\ HeldTarget'
  BY DEF IInv, CachesTrail, HeldTarget
<1>3. WakeupPending'
  BY DEF IInv, WakeupPending, ServiceFits, EndpointsFit
<1> QED
  BY <1>1, <1>2, <1>3 DEF IInv

\* A gateway changes in the cache, or is shown again as it is.
LEMMA IInvGateway ==
    ASSUME IInv, NEW g \in Gateways, NEW obj \in Version(GatewayObjs),
           gws' = [gws EXCEPT ![g] = obj],
           queued' = (queued \/ gatewayQueues(gws[g], obj)),
           UNCHANGED <<nodes, service, endpoints, locals, missed, disturbances>>
    PROVE  IInv'
<1> USE DEF service, endpoints, locals
<1>1. TypeOK'
  <2>1. queued' \in BOOLEAN
    OBVIOUS
  <2>2. gws' \in [Gateways -> Version(GatewayObjs)]
    BY DEF IInv, TypeOK
  <2> QED
    BY <2>1, <2>2 DEF IInv, TypeOK
<1>2. CachesTrail' /\ HeldTarget'
  BY DEF IInv, CachesTrail, HeldTarget
<1>3. WakeupPending'
  <2> SUFFICES ASSUME ~queued', ~missed' PROVE WakeupPending'
    BY DEF WakeupPending
  <2>1. ~queued /\ ~missed /\ Agree(gws, gws')
    BY SilentChangeAgrees DEF IInv
  <2>2. /\ exposed(gws) = exposed(gws') /\ serving(gws) = serving(gws')
        /\ activeNodes(gws) = activeNodes(gws')
    BY <2>1, AgreeFits
  <2>3. pc # "idle" => Agree(gwList', gws')
    BY <2>1, AgreeTransitive DEF IInv, WakeupPending
  <2> QED
    BY <2>1, <2>2, <2>3 DEF IInv, WakeupPending, ServiceFits, EndpointsFit
<1> QED
  BY <1>1, <1>2, <1>3 DEF IInv

\* The cloud writes the Service.
LEMMA IInvIngress ==
    ASSUME IInv, NEW obj \in Version(ServiceObjs), WriteService(obj),
           UNCHANGED <<cached, svcCache, endpoints, queued, locals, missed,
                       disturbances>>
    PROVE  IInv'
<1> USE DEF cached, endpoints, locals
<1>a. svcWatch \in Seq(Version(ServiceObjs))
  BY DEF IInv, TypeOK
<1>1. TypeOK'
  BY DEF IInv, TypeOK, WriteService
<1>2. CachesTrail' /\ HeldTarget'
  BY <1>a, TrailsAppend DEF IInv, CachesTrail, HeldTarget, WriteService
<1>3. svcWatch' # << >>
  BY <1>a DEF WriteService
<1>4. WakeupPending'
  BY <1>3 DEF IInv, WakeupPending, EndpointsFit
<1> QED
  BY <1>1, <1>2, <1>4 DEF IInv

\* The process starts again, and finds the gateways and nodes as they are then.
LEMMA IInvRestart ==
    ASSUME IInv,
           gws' \in [Gateways -> Version(GatewayObjs)],
           nodes' \in [Nodes -> Version(NodeObjs)],
           svcCache' = svc, svcWatch' = << >>, epsCache' = eps, epsWatch' = << >>,
           queued' = someWork(gws', svc, eps), missed' \in BOOLEAN,
           ForgetLocals, disturbances' \in 0..MaxDisturbances,
           UNCHANGED <<svc, eps>>
    PROVE  IInv'
<1>1. TypeOK'
  <2>1. queued' \in BOOLEAN
    BY DEF someWork
  <2>2. /\ svcWatch' \in Seq(Version(ServiceObjs))
        /\ epsWatch' \in Seq(Version(EndpointsObjs))
    OBVIOUS
  <2> QED
    BY <2>1, <2>2, ForgetType DEF IInv, TypeOK
<1>2. CachesTrail' /\ HeldTarget'
  BY DEF CachesTrail, Trails, HeldTarget, ForgetLocals
<1>3. WakeupPending'
  BY DEF someWork, ForgetLocals, WakeupPending, ServiceFits, EndpointsFit, serving
<1> QED
  BY <1>1, <1>2, <1>3 DEF IInv

-----------------------------------------------------------------------------
(* The theorems.                                                           *)

\* The inductive invariant of the Service controller.
THEOREM ServiceInvariant == Spec => []IInv
BY IInvInit, IInvNext, PTL DEF Spec

\* The variables keep their types.
THEOREM ServiceTypeCorrect == Spec => []TypeOK
<1>1. IInv => TypeOK
  BY DEF IInv
<1> QED
  BY <1>1, ServiceInvariant, PTL

LEMMA AtRest == IInv => SettledServed
BY DEF IInv, WakeupPending, SettledServed, Settled

\* At rest the Service and the Endpoints are what the gateways call for: no
\* wakeup is lost.
THEOREM ServedAtRest == Spec => []SettledServed
BY AtRest, ServiceInvariant, PTL

LEMMA KeptNext ==
    IInv /\ [Next]_vars =>
      [/\ disturbances' = disturbances
       /\ eps \in Target
       /\ \A view \in {gws} \union IF pc = "idle" THEN {} ELSE {gwList} :
             activeNodes(view) = {eps.node}
       => leadsTo(eps', {eps.node})]_vars
<1> DEFINE Views == {gws} \union IF pc = "idle" THEN {} ELSE {gwList}
<1> SUFFICES ASSUME IInv, Next, disturbances' = disturbances, eps \in Target,
                    \A view \in Views : activeNodes(view) = {eps.node}
             PROVE  leadsTo(eps', {eps.node})
  OBVIOUS
<1>1. /\ TypeOK /\ HeldTarget
      /\ pc # "idle" => activeNodes(gwList) = {eps.node}
  BY DEF IInv
<1>2. CASE eps' = eps
  BY <1>2 DEF leadsTo
<1>3. CASE /\ pc \in {"createEndpoints", "updateEndpoints"}
           /\ eps' = target
  BY <1>1, <1>3 DEF HeldTarget, leadsTo
<1>4. exposed(gwList) = {} => pc = "idle"
  BY <1>1 DEF activeNodes, serving
<1>5. ~Disturb
  BY <1>1 DEF Disturb, TypeOK
<1>6. \/ eps' = eps
      \/ pc \in {"createEndpoints", "updateEndpoints"} /\ eps' = target
  <2> USE DEF endpoints
  <2>1. ~Environment
    BY <1>5 DEF Environment, ChangeGateway, ChangeNode, ChangeService,
                ChangeEndpoints
  <2>2. ~LoseReply /\ ~FailReconcile /\ ~Crash
    BY <1>5 DEF LoseReply, FailReconcile, Crash
  <2>3. CASE Informers
    BY <2>3 DEF Informers, DeliverService, DeliverEndpoints, RelistService,
                RelistEndpoints, Resync
  <2>4. ~CleanEndpoint
    BY <1>4 DEF CleanEndpoint
  <2>5. CASE Proceed
    BY <2>4, <2>5 DEF Proceed, StartReconcile, GetService, CreateService,
                      CleanService, GetNode, LeaveEndpoints, GetEndpoints,
                      CreateEndpoints, UpdateEndpoints, WriteEndpoints
  <2> QED
    BY <2>1, <2>2, <2>3, <2>5 DEF Next
<1> QED
  BY <1>2, <1>3, <1>6

\* The Endpoints are not moved off the only node that may be meant.
THEOREM EndpointsStay == Spec => KeepsEndpoints
BY KeptNext, ServiceInvariant, PTL DEF Spec, KeepsEndpoints
=============================================================================
