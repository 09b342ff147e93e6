--------------------- MODULE GatewayController_proofs ----------------------
(***************************************************************************)
(* Proofs about the Gateway controller, for any sets of gateways, nodes,   *)
(* specs and node contents and any bounds: what electActiveEndpoint        *)
(* returns, for every list of endpoints, and the types.                    *)
(***************************************************************************)
EXTENDS GatewayProperties, NaturalsInduction, WellFoundedInduction, TLAPS

-----------------------------------------------------------------------------
(* The election.                                                           *)

\* A non-empty set of naturals has a least element (used by firstHostedBy).
LEMMA MinOfNats ==
    ASSUME NEW S \in SUBSET Nat, S # {}
    PROVE  Min(S) \in S /\ \A y \in S : Min(S) <= y
<1>1. PICK x \in S : \A y \in S : ~(<<y, x>> \in OpToRel(<, Nat))
  BY WFMin, NatLessThanWellFounded
<1>2. \A y \in S : x <= y
  <2> TAKE y \in S
  <2>1. x \in Nat /\ y \in Nat
    OBVIOUS
  <2>2. <<y, x>> \in Nat \X Nat /\ <<y, x>>[1] = y /\ <<y, x>>[2] = x
    BY <2>1
  <2>3. ~(y < x)
    BY <1>1, <2>2 DEF OpToRel
  <2> QED
    BY <2>1, <2>3
<1> QED
  BY <1>1, <1>2 DEF Min

\* firstHostedBy returns the first declared endpoint on one of the nodes.
LEMMA FirstHosted ==
    ASSUME NEW endpoints \in Seq(Endpoint), NEW S,
           \E i \in DOMAIN endpoints : endpoints[i].node \in S
    PROVE  /\ firstHostedBy(S, endpoints) \in Range(endpoints)
           /\ firstHostedBy(S, endpoints) \in Endpoint
           /\ firstHostedBy(S, endpoints).node \in S
<1> DEFINE I == {i \in DOMAIN endpoints : endpoints[i].node \in S}
<1>1. I \in SUBSET Nat /\ I # {}
  OBVIOUS
<1>2. Min(I) \in I
  BY <1>1, MinOfNats
<1>3. firstHostedBy(S, endpoints) = endpoints[Min(I)]
  BY DEF firstHostedBy
<1>4. PICK m \in DOMAIN endpoints : /\ endpoints[m].node \in S
                                    /\ firstHostedBy(S, endpoints) = endpoints[m]
  BY <1>2, <1>3
<1>5. endpoints[m] \in Endpoint
  OBVIOUS
<1> QED
  BY <1>4, <1>5 DEF Range

\* Whatever electActiveEndpoint returns is declared and hosted by a ready
\* node, and it returns nil only when no declared endpoint is.
THEOREM ElectionSound ==
    ASSUME NEW endpoints \in Seq(Endpoint), NEW readyNodes,
           NEW active \in Endpoint \union {NoEndpoint}
    PROVE  LET elected == electActiveEndpoint(readyNodes, endpoints, active)
           IN  /\ elected \in Endpoint \union {NoEndpoint}
               /\ elected # NoEndpoint => /\ elected \in Range(endpoints)
                                          /\ elected.node \in readyNodes
               /\ elected = NoEndpoint =>
                    \A e \in Range(endpoints) : e.node \notin readyNodes
<1> DEFINE elected == electActiveEndpoint(readyNodes, endpoints, active)
<1>1. CASE checkActive(active, readyNodes, endpoints)
  <2>1. /\ active.node \in readyNodes
        /\ \E i \in DOMAIN endpoints : endpoints[i].node \in {active.node}
    BY <1>1 DEF checkActive, Range
  <2>2. elected = firstHostedBy({active.node}, endpoints)
    BY <1>1 DEF electActiveEndpoint
  <2> QED
    BY <2>1, <2>2, FirstHosted, NoEndpointAssumption
<1>2. CASE /\ ~checkActive(active, readyNodes, endpoints)
           /\ \E i \in DOMAIN endpoints : endpoints[i].node \in readyNodes
  <2>1. elected = firstHostedBy(readyNodes, endpoints)
    BY <1>2 DEF electActiveEndpoint
  <2> QED
    BY <1>2, <2>1, FirstHosted, NoEndpointAssumption
<1>3. CASE /\ ~checkActive(active, readyNodes, endpoints)
           /\ \A i \in DOMAIN endpoints : endpoints[i].node \notin readyNodes
  <2>1. elected = NoEndpoint
    BY <1>3 DEF electActiveEndpoint
  <2> QED
    BY <1>3, <2>1 DEF Range
<1> QED
  BY <1>1, <1>2, <1>3

\* The active endpoint stays while it is competent, provided no other
\* declared endpoint is on its node.
THEOREM ElectionSticky ==
    ASSUME NEW endpoints \in Seq(Endpoint), NEW readyNodes,
           NEW active \in Endpoint \union {NoEndpoint},
           checkActive(active, readyNodes, endpoints),
           \A i, j \in DOMAIN endpoints :
              endpoints[i].node = endpoints[j].node => i = j
    PROVE  electActiveEndpoint(readyNodes, endpoints, active) = active
<1> DEFINE first == firstHostedBy({active.node}, endpoints)
<1>1. PICK i \in DOMAIN endpoints : endpoints[i] = active
  BY DEF checkActive, Range
<1>2. first \in Range(endpoints) /\ first.node = active.node
  BY <1>1, FirstHosted
<1>3. PICK j \in DOMAIN endpoints : endpoints[j] = first
  BY <1>2 DEF Range
<1>4. first = active
  BY <1>1, <1>2, <1>3
<1> QED
  BY <1>4 DEF electActiveEndpoint

-----------------------------------------------------------------------------
(* Types of the values the actions compute.                                *)

LEMMA NewGatewayType ==
    ASSUME NEW s \in Specs
    PROVE  NewGateway(s) \in Gateway /\ NewGateway(s) # Absent
<1>1. << >> \in Seq(NodeInfo)
  OBVIOUS
<1>2. NewGateway(s) \in Gateway
  BY <1>1 DEF NewGateway, Gateway
<1> QED
  BY <1>2, NamesAssumption

LEMMA SpecType ==
    ASSUME NEW obj \in Gateway
    PROVE  obj.spec.endpoints \in Seq(Endpoint) /\ obj.spec.lb \in BOOLEAN
BY SpecsAssumption DEF WellFormed, Gateway, GatewaySpec

LEMMA ElectedType ==
    ASSUME NEW obj \in Gateway, NEW g, NEW view
    PROVE  electedFor(g, obj, view) \in Endpoint \union {NoEndpoint}
BY SpecType, ElectionSound DEF electedFor, Gateway

LEMMA EventType ==
    ASSUME NEW previous \in Endpoint \union {NoEndpoint},
           NEW current \in Endpoint \union {NoEndpoint}
    PROVE  recordEndpointEvent(previous, current) \in EndpointEvent
<1>1. CASE current # NoEndpoint /\ current # previous
  BY <1>1 DEF recordEndpointEvent, EndpointEvent, Endpoint
<1>2. CASE current = NoEndpoint /\ previous # NoEndpoint
  BY <1>2 DEF recordEndpointEvent, EndpointEvent, Endpoint
<1>3. CASE /\ ~(current # NoEndpoint /\ current # previous)
           /\ ~(current = NoEndpoint /\ previous # NoEndpoint)
  BY <1>3 DEF recordEndpointEvent, EndpointEvent
<1> QED
  BY <1>1, <1>2, <1>3

LEMMA NodeInfoType ==
    ASSUME TypeOK, NEW n \in managed(cur, nodeList)
    PROVE  nodeInfo(n) \in NodeInfo /\ n \in Nodes
<1>1. n \in Nodes /\ nodeList[n] \in NodeObjs
  BY DEF TypeOK, managed, Version
<1>2. nodeList[n].addr \in Addrs /\ nodeList[n].podCIDR \in CIDRs
  BY <1>1, NodeObjsAssumption DEF Node
<1>3. podCIDRs(n, nodeList[n]) \in SUBSET CIDRs
  BY <1>2, BlockSetsAssumption DEF podCIDRs, TypeOK, Block
<1> QED
  BY <1>1, <1>2, <1>3 DEF nodeInfo, NodeInfo

LEMMA NewStatusType ==
    ASSUME TypeOK, pc = "collect"
    PROVE  newStatus \in Gateway /\ newStatus # Absent
<1>1. gw \in Gateway /\ infos \in Seq(NodeInfo)
  BY DEF TypeOK, Version
<1>2. activeEp \in Endpoint \union {NoEndpoint}
  BY DEF TypeOK
<1>3. newStatus \in Gateway
  BY <1>1, <1>2 DEF newStatus, Gateway
<1> QED
  BY <1>3, NamesAssumption

-----------------------------------------------------------------------------
(* TypeOK.                                                                 *)

LEMMA TypeInit == Init => TypeOK
<1> SUFFICES ASSUME Init PROVE TypeOK
  OBVIOUS
<1> USE DEF Version
<1>1. gws \in [Gateways -> Version(Gateway)]
  BY NewGatewayType DEF Init
<1>2. \A S, T : noVersions(S) \in [S -> Seq(T)]
  BY DEF noVersions
<1>3. event \in EndpointEvent /\ infos \in Seq(NodeInfo)
  BY DEF Init, EndpointEvent
<1>4. nodeList \in [Nodes -> Version(NodeObjs)]
  BY DEF Init, NoNodes
<1>5. disturbances \in 0..MaxDisturbances
  BY BoundsAssumption DEF Init
<1>6. queue \subseteq Gateways
  BY DEF Init, existing
<1> QED
  BY <1>1, <1>2, <1>3, <1>4, <1>5, <1>6 DEF Init, TypeOK

\* The locals after ForgetLocals.
LEMMA ForgetType ==
    ASSUME ForgetLocals
    PROVE  /\ pc' \in {"idle", "list", "svc", "collect"}
           /\ cur' \in Gateways \union {NoGateway}
           /\ gw' \in Version(Gateway)
           /\ pc' = "idle"
           /\ fresh' \in BOOLEAN
           /\ nodeList' \in [Nodes -> Version(NodeObjs)]
           /\ activeEp' \in Endpoint \union {NoEndpoint}
           /\ event' \in EndpointEvent
           /\ infos' \in Seq(NodeInfo)
<1>1. << >> \in Seq(NodeInfo) /\ NoEvent \in EndpointEvent
  BY DEF EndpointEvent
<1>2. NoNodes \in [Nodes -> Version(NodeObjs)]
  BY DEF NoNodes, Version
<1> QED
  BY <1>1, <1>2 DEF ForgetLocals, Version

\* What is served by the API server when Reconcile writes.
LEMMA ServeType ==
    ASSUME TypeOK, pc = "collect", ServeUpdate
    PROVE  /\ gws' \in [Gateways -> Version(Gateway)]
           /\ gwWatch' \in [Gateways -> Seq(Version(Gateway))]
<1>1. newStatus \in Version(Gateway) /\ cur \in Gateways
  BY NewStatusType DEF Version, TypeOK
<1>2. CASE WriteGateway(cur, newStatus)
  BY <1>1, <1>2 DEF WriteGateway, TypeOK
<1>3. CASE UNCHANGED <<gws, gwWatch>>
  BY <1>3 DEF TypeOK
<1> QED
  BY <1>2, <1>3 DEF ServeUpdate

LEMMA RestartType ==
    ASSUME TypeOK, Restart, disturbances' \in 0..MaxDisturbances
    PROVE  TypeOK'
<1>1. \A S, T : noVersions(S) \in [S -> Seq(T)]
  BY DEF noVersions
<1> QED
  BY <1>1, ForgetType DEF Restart, TypeOK, api, externals, existing

LEMMA DisturbType ==
    ASSUME TypeOK, Disturb
    PROVE  disturbances' \in 0..MaxDisturbances
BY BoundsAssumption DEF TypeOK, Disturb

LEMMA UserWriteType ==
    ASSUME TypeOK, NEW g \in Gateways, NEW obj \in Version(Gateway),
           UserWritesGateway(g, obj)
    PROVE  TypeOK'
<1>1. /\ gws' \in [Gateways -> Version(Gateway)]
      /\ gwWatch' \in [Gateways -> Seq(Version(Gateway))]
  BY DEF UserWritesGateway, WriteGateway, TypeOK
<1>2. fresh' \in BOOLEAN
  BY DEF UserWritesGateway
<1> QED
  BY <1>1, <1>2, DisturbType DEF UserWritesGateway, TypeOK, nodeInformer, externals

LEMMA EnvironmentType == TypeOK /\ Environment => TypeOK'
<1> SUFFICES ASSUME TypeOK, Environment PROVE TypeOK'
  OBVIOUS
<1> USE DEF externals, locals, gwInformer, nodeInformer, api
<1>1. ASSUME NEW g \in Gateways, NEW s \in Specs, CreateGateway(g, s)
      PROVE  TypeOK'
  BY <1>1, NewGatewayType, UserWriteType DEF CreateGateway, Version
<1>2. ASSUME NEW g \in Gateways, NEW s \in Specs, UpdateGateway(g, s)
      PROVE  TypeOK'
  <2>1. gws[g] \in Gateway
    BY <1>2 DEF UpdateGateway, TypeOK, Version
  <2>2. [gws[g] EXCEPT !.spec = s] \in Gateway
    BY <2>1 DEF Gateway
  <2> QED
    BY <1>2, <2>2, UserWriteType DEF UpdateGateway, Version
<1>3. ASSUME NEW g \in Gateways, DeleteGateway(g)
      PROVE  TypeOK'
  BY <1>3, UserWriteType DEF DeleteGateway, Version
<1>4. ASSUME NEW n \in Nodes, NEW obj \in NodeObjs \union {Absent},
             ChangeNode(n, obj)
      PROVE  TypeOK'
  <2>1. /\ nodes' \in [Nodes -> Version(NodeObjs)]
        /\ nodeWatch' \in [Nodes -> Seq(Version(NodeObjs))]
    BY <1>4 DEF ChangeNode, TypeOK, Version
  <2> QED
    BY <1>4, <2>1, DisturbType DEF ChangeNode, TypeOK
<1>5. ASSUME NEW s \in Services, ChangeService(s)
      PROVE  TypeOK'
  BY <1>5, DisturbType DEF ChangeService, TypeOK
<1>6. ASSUME NEW B \in BlockSets, ChangeBlocks(B)
      PROVE  TypeOK'
  BY <1>6, DisturbType DEF ChangeBlocks, TypeOK
<1> QED
  BY <1>1, <1>2, <1>3, <1>4, <1>5, <1>6 DEF Environment

LEMMA InformersType == TypeOK /\ Informers => TypeOK'
<1> SUFFICES ASSUME TypeOK, Informers PROVE TypeOK'
  OBVIOUS
<1> USE DEF externals, locals, gwInformer, nodeInformer, api
<1>1. \A S, T : noVersions(S) \in [S -> Seq(T)]
  BY DEF noVersions
<1>2. \A old, new : requests(old, new) \subseteq Gateways
  BY DEF requests, mapNodeToRequest, existing
<1>3. ASSUME NEW g \in Gateways, DeliverGateway(g)
      PROVE  TypeOK'
  <2>1. /\ gwCache' \in [Gateways -> Version(Gateway)]
        /\ gwWatch' \in [Gateways -> Seq(Version(Gateway))]
    BY <1>3 DEF DeliverGateway, TypeOK
  <2> QED
    BY <1>3, <2>1 DEF DeliverGateway, TypeOK
<1>4. ASSUME NEW n \in Nodes, DeliverNode(n)
      PROVE  TypeOK'
  <2>1. /\ nodeCache' \in [Nodes -> Version(NodeObjs)]
        /\ nodeWatch' \in [Nodes -> Seq(Version(NodeObjs))]
    BY <1>4 DEF DeliverNode, TypeOK
  <2> QED
    BY <1>2, <1>4, <2>1 DEF DeliverNode, TypeOK
<1>5. CASE RelistGateways
  BY <1>1, <1>5 DEF RelistGateways, TypeOK
<1>6. CASE RelistNodes
  <2>1. queue' \subseteq Gateways
    BY <1>2, <1>6 DEF RelistNodes, TypeOK
  <2> QED
    BY <1>1, <1>6, <2>1 DEF RelistNodes, TypeOK
<1>7. CASE Resync
  BY <1>7 DEF Resync, TypeOK, existing
<1> QED
  BY <1>3, <1>4, <1>5, <1>6, <1>7 DEF Informers

LEMMA StartType ==
    ASSUME TypeOK, NEW g \in Gateways, StartReconcile(g)
    PROVE  TypeOK'
<1> USE DEF externals, locals, gwInformer, nodeInformer, api
<1>1. queue' \subseteq Gateways
  BY DEF StartReconcile, TypeOK
<1>2. CASE gwCache[g] = Absent
  BY <1>1, <1>2 DEF StartReconcile, TypeOK
<1>3. CASE gwCache[g] # Absent
  <2>1. gwCache[g] \in Version(Gateway)
    BY DEF TypeOK
  <2> QED
    BY <1>1, <1>3, <2>1 DEF StartReconcile, TypeOK
<1> QED
  BY <1>2, <1>3

LEMMA ListType ==
    ASSUME TypeOK, ListNodes
    PROVE  TypeOK'
<1> USE DEF externals, locals, gwInformer, nodeInformer, api
<1>1. gw \in Gateway /\ gw.active \in Endpoint \union {NoEndpoint}
  BY DEF ListNodes, TypeOK, Version, Gateway
<1>2. activeEp' \in Endpoint \union {NoEndpoint}
  BY <1>1, ElectedType DEF ListNodes
<1>3. event' \in EndpointEvent
  BY <1>1, ElectedType, EventType DEF ListNodes
<1>4. nodeList' \in [Nodes -> Version(NodeObjs)]
  BY DEF ListNodes, TypeOK, Version
<1>5. pc' \in {"idle", "list", "svc", "collect"} /\ cur \in Gateways
  BY DEF ListNodes, TypeOK
<1> QED
  BY <1>1, <1>2, <1>3, <1>4, <1>5 DEF ListNodes, TypeOK

LEMMA RequeueType ==
    ASSUME TypeOK, pc # "idle", Requeue
    PROVE  queue' \subseteq Gateways
BY DEF Requeue, TypeOK

LEMMA ProceedType == TypeOK /\ Proceed => TypeOK'
<1> SUFFICES ASSUME TypeOK, Proceed PROVE TypeOK'
  OBVIOUS
<1> USE DEF externals, locals, gwInformer, nodeInformer, api
<1>1. CASE ListNodes
  BY <1>1, ListType
<1>2. CASE WaitForService
  BY <1>2, RequeueType, ForgetType DEF WaitForService, Requeue, TypeOK
<1>3. CASE UseServiceIP
  <2>1. activeEp' \in Endpoint \union {NoEndpoint}
    BY <1>3, ServicesAssumption DEF UseServiceIP, TypeOK, Endpoint
  <2> QED
    BY <1>3, <2>1 DEF UseServiceIP, TypeOK
<1>4. CASE PanicOnNilEndpoint
  BY <1>4, RestartType DEF PanicOnNilEndpoint, TypeOK
<1>5. ASSUME NEW n \in Nodes, CollectNode(n)
      PROVE  TypeOK'
  <2>1. infos' \in Seq(NodeInfo)
    BY <1>5, NodeInfoType DEF CollectNode, remaining, TypeOK
  <2> QED
    BY <1>5, <2>1 DEF CollectNode, TypeOK
<1>6. CASE UpdateStatus
  <2>1. ForgetLocals /\ queue' \subseteq Gateways
    BY <1>6, RequeueType DEF UpdateStatus, Requeue, TypeOK
  <2> QED
    BY <1>6, <2>1, ServeType, ForgetType DEF UpdateStatus, TypeOK
<1> QED
  BY <1>1, <1>2, <1>3, <1>4, <1>5, <1>6 DEF Proceed

LEMMA FaultsType == TypeOK /\ Faults => TypeOK'
<1> SUFFICES ASSUME TypeOK, Faults PROVE TypeOK'
  OBVIOUS
<1> USE DEF externals, locals, gwInformer, nodeInformer, api
<1>1. CASE LoseReply
  BY <1>1, ServeType, RequeueType, ForgetType, DisturbType
     DEF LoseReply, Requeue, TypeOK
<1>2. CASE FailReconcile
  BY <1>2, RequeueType, ForgetType, DisturbType
     DEF FailReconcile, Requeue, TypeOK
<1>3. CASE Crash
  BY <1>3, RestartType, DisturbType DEF Crash
<1> QED
  BY <1>1, <1>2, <1>3 DEF Faults

LEMMA TypeNext == TypeOK /\ [Next]_vars => TypeOK'
<1>1. TypeOK /\ UNCHANGED vars => TypeOK'
  BY DEF vars, TypeOK
<1>2. TypeOK /\ Next => TypeOK'
  BY EnvironmentType, InformersType, StartType, ProceedType, FaultsType DEF Next
<1> QED
  BY <1>1, <1>2

\* The variables keep their types, whatever users, kubelets and faults do.
THEOREM TypeCorrect == Spec => []TypeOK
BY TypeInit, TypeNext, PTL DEF Spec
=============================================================================
