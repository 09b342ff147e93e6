----------------------- MODULE GatewaySafety_proofs ------------------------
(***************************************************************************)
(* The inductive invariant of the Gateway controller and the safety        *)
(* properties that follow from it.                                         *)
(***************************************************************************)
EXTENDS GatewayController_proofs, Watches_proofs

-----------------------------------------------------------------------------
(* CachesTrail.                                                            *)

LEMMA TrailsRelisted ==
    ASSUME gwCache' = gws', gwWatch' = noVersions(Gateways)
    PROVE  \A g \in Gateways : Trails(gwCache'[g], gwWatch'[g], gws'[g])
BY DEF Trails, noVersions

LEMMA WriteTrails ==
    ASSUME TypeOK, CachesTrail, NEW g \in Gateways,
           NEW obj \in Version(Gateway), WriteGateway(g, obj),
           UNCHANGED gwCache
    PROVE  \A h \in Gateways : Trails(gwCache'[h], gwWatch'[h], gws'[h])
<1> TAKE h \in Gateways
<1>1. CASE h = g
  <2>1. gwWatch'[h] = Append(gwWatch[h], obj) /\ gws'[h] = obj
    BY <1>1 DEF WriteGateway, TypeOK
  <2>2. gwWatch[h] \in Seq(Version(Gateway))
    BY DEF TypeOK
  <2> QED
    BY <2>1, <2>2, TrailsAppend
<1>2. CASE h # g
  BY <1>2 DEF WriteGateway, TypeOK, CachesTrail
<1> QED
  BY <1>1, <1>2

LEMMA ServeTrails ==
    ASSUME TypeOK, CachesTrail, pc = "collect", ServeUpdate, UNCHANGED gwCache
    PROVE  \A h \in Gateways : Trails(gwCache'[h], gwWatch'[h], gws'[h])
<1>1. newStatus \in Version(Gateway) /\ cur \in Gateways
  BY NewStatusType DEF Version, TypeOK
<1>2. CASE WriteGateway(cur, newStatus)
  BY <1>1, <1>2, WriteTrails
<1>3. CASE UNCHANGED <<gws, gwWatch>>
  BY <1>3 DEF CachesTrail
<1> QED
  BY <1>2, <1>3 DEF ServeUpdate

LEMMA RestartTrails ==
    ASSUME Restart
    PROVE  CachesTrail'
BY DEF Restart, CachesTrail, Trails, noVersions, api, externals

\* The variables of CachesTrail.
trailVars == <<gws, gwCache, gwWatch, nodes, nodeCache, nodeWatch>>

LEMMA TrailNext == TypeOK /\ CachesTrail /\ [Next]_vars => CachesTrail'
<1> SUFFICES ASSUME TypeOK, CachesTrail, [Next]_vars PROVE CachesTrail'
  OBVIOUS
<1> USE DEF externals, locals, gwInformer, nodeInformer, api
<1>0. ASSUME UNCHANGED trailVars PROVE CachesTrail'
  BY <1>0 DEF CachesTrail, trailVars
<1>1. ASSUME NEW g \in Gateways, NEW obj \in Version(Gateway),
             UserWritesGateway(g, obj)
      PROVE  CachesTrail'
  BY <1>1, WriteTrails DEF UserWritesGateway, CachesTrail
<1>2. CASE Environment
  <2>1. ASSUME NEW g \in Gateways, NEW s \in Specs, UpdateGateway(g, s)
        PROVE  CachesTrail'
    <3>1. [gws[g] EXCEPT !.spec = s] \in Gateway
      BY <2>1 DEF UpdateGateway, TypeOK, Version, Gateway
    <3> QED
      BY <1>1, <2>1, <3>1 DEF UpdateGateway, Version
  <2>2. ASSUME NEW n \in Nodes, NEW obj \in NodeObjs \union {Absent},
               ChangeNode(n, obj)
        PROVE  CachesTrail'
    <3>1. ASSUME NEW m \in Nodes
          PROVE  Trails(nodeCache'[m], nodeWatch'[m], nodes'[m])
      <4>1. nodeWatch[m] \in Seq(Version(NodeObjs)) /\ obj \in Version(NodeObjs)
        BY DEF TypeOK, Version
      <4>2. Trails(nodeCache[m], nodeWatch[m], nodes[m])
        BY DEF CachesTrail
      <4>3. CASE m = n
        <5>1. nodeWatch'[m] = Append(nodeWatch[m], obj) /\ nodes'[m] = obj
          BY <2>2, <4>3 DEF ChangeNode, TypeOK
        <5> QED
          BY <4>1, <5>1, TrailsAppend
      <4>4. CASE m # n
        BY <2>2, <4>2, <4>4 DEF ChangeNode, TypeOK
      <4> QED
        BY <4>3, <4>4
    <3> QED
      BY <2>2, <3>1 DEF ChangeNode, CachesTrail
  <2>3. ASSUME NEW s \in Services, ChangeService(s) PROVE CachesTrail'
    BY <1>0, <2>3 DEF ChangeService, trailVars
  <2>4. ASSUME NEW B \in BlockSets, ChangeBlocks(B) PROVE CachesTrail'
    BY <1>0, <2>4 DEF ChangeBlocks, trailVars
  <2>5. ASSUME NEW g \in Gateways, NEW s \in Specs, CreateGateway(g, s)
        PROVE  CachesTrail'
    BY <1>1, <2>5, NewGatewayType DEF CreateGateway, Version
  <2>6. ASSUME NEW g \in Gateways, DeleteGateway(g) PROVE CachesTrail'
    BY <1>1, <2>6 DEF DeleteGateway, Version
  <2> QED
    BY <1>2, <2>1, <2>2, <2>3, <2>4, <2>5, <2>6 DEF Environment
<1>3. CASE Informers
  <2>1. ASSUME NEW g \in Gateways, DeliverGateway(g) PROVE CachesTrail'
    <3>1. ASSUME NEW h \in Gateways
          PROVE  Trails(gwCache'[h], gwWatch'[h], gws'[h])
      <4>1. /\ gwWatch[h] \in Seq(Version(Gateway))
            /\ Trails(gwCache[h], gwWatch[h], gws[h])
        BY DEF TypeOK, CachesTrail
      <4>2. CASE h = g
        <5>1. /\ gwWatch[h] # << >> /\ gwCache'[h] = Head(gwWatch[h])
              /\ gwWatch'[h] = Tail(gwWatch[h]) /\ gws'[h] = gws[h]
          BY <2>1, <4>2 DEF DeliverGateway, TypeOK
        <5> QED
          BY <4>1, <5>1, TrailsTail
      <4>3. CASE h # g
        BY <2>1, <4>1, <4>3 DEF DeliverGateway, TypeOK
      <4> QED
        BY <4>2, <4>3
    <3> QED
      BY <2>1, <3>1 DEF DeliverGateway, CachesTrail
  <2>2. ASSUME NEW n \in Nodes, DeliverNode(n) PROVE CachesTrail'
    <3>1. ASSUME NEW m \in Nodes
          PROVE  Trails(nodeCache'[m], nodeWatch'[m], nodes'[m])
      <4>1. /\ nodeWatch[m] \in Seq(Version(NodeObjs))
            /\ Trails(nodeCache[m], nodeWatch[m], nodes[m])
        BY DEF TypeOK, CachesTrail
      <4>2. CASE m = n
        <5>1. /\ nodeWatch[m] # << >> /\ nodeCache'[m] = Head(nodeWatch[m])
              /\ nodeWatch'[m] = Tail(nodeWatch[m]) /\ nodes'[m] = nodes[m]
          BY <2>2, <4>2 DEF DeliverNode, TypeOK
        <5> QED
          BY <4>1, <5>1, TrailsTail
      <4>3. CASE m # n
        BY <2>2, <4>1, <4>3 DEF DeliverNode, TypeOK
      <4> QED
        BY <4>2, <4>3
    <3> QED
      BY <2>2, <3>1 DEF DeliverNode, CachesTrail
  <2>3. CASE RelistGateways
    BY <2>3, TrailsRelisted DEF RelistGateways, CachesTrail
  <2>4. CASE RelistNodes
    BY <2>4 DEF RelistNodes, CachesTrail, Trails, noVersions
  <2>5. CASE Resync
    BY <1>0, <2>5 DEF Resync, trailVars
  <2> QED
    BY <1>3, <2>1, <2>2, <2>3, <2>4, <2>5 DEF Informers
<1>4. CASE UpdateStatus \/ LoseReply
  BY <1>4, ServeTrails DEF UpdateStatus, LoseReply, CachesTrail
<1>5. CASE PanicOnNilEndpoint \/ Crash
  BY <1>5, RestartTrails DEF PanicOnNilEndpoint, Crash
<1>6. ASSUME NEW g \in Gateways, StartReconcile(g) PROVE CachesTrail'
  BY <1>0, <1>6 DEF StartReconcile, trailVars
<1>7. CASE ListNodes \/ WaitForService \/ UseServiceIP \/ FailReconcile
  BY <1>0, <1>7 DEF ListNodes, WaitForService, UseServiceIP, FailReconcile, trailVars
<1>8. ASSUME NEW n \in Nodes, CollectNode(n) PROVE CachesTrail'
  BY <1>0, <1>8 DEF CollectNode, trailVars
<1>9. CASE UNCHANGED vars
  BY <1>0, <1>9 DEF vars, trailVars
<1> QED
  BY <1>2, <1>3, <1>4, <1>5, <1>6, <1>7, <1>8, <1>9 DEF Next, Proceed, Faults

-----------------------------------------------------------------------------
(* CopyIsFresh.                                                            *)

LEMMA ForgetFresh ==
    ASSUME ForgetLocals
    PROVE  CopyIsFresh'
BY DEF ForgetLocals, CopyIsFresh

LEMMA FreshNext ==
    TypeOK /\ CachesTrail /\ CopyIsFresh /\ [Next]_vars => CopyIsFresh'
<1> SUFFICES ASSUME TypeOK, CachesTrail, CopyIsFresh, [Next]_vars
             PROVE  CopyIsFresh'
  OBVIOUS
<1> USE DEF externals, locals, gwInformer, nodeInformer, api
<1>0. ASSUME UNCHANGED <<gws, gwWatch, pc, cur, gw, fresh>>
      PROVE  CopyIsFresh'
  BY <1>0 DEF CopyIsFresh
<1>1. ASSUME NEW g \in Gateways, NEW obj, UserWritesGateway(g, obj)
      PROVE  CopyIsFresh'
  <2> SUFFICES ASSUME pc # "idle", fresh, cur # g
               PROVE  gws'[cur] = gws[cur] /\ gwWatch'[cur] = gwWatch[cur]
    BY <1>1 DEF UserWritesGateway, CopyIsFresh
  <2> QED
    BY <1>1 DEF UserWritesGateway, WriteGateway, TypeOK
<1>2. CASE Environment
  <2>1. ASSUME NEW n \in Nodes, NEW obj, ChangeNode(n, obj)
        PROVE  CopyIsFresh'
    BY <1>0, <2>1 DEF ChangeNode
  <2>2. ASSUME NEW s, ChangeService(s) \/ ChangeBlocks(s)
        PROVE  CopyIsFresh'
    BY <1>0, <2>2 DEF ChangeService, ChangeBlocks
  <2> QED
    BY <1>1, <1>2, <2>1, <2>2
       DEF Environment, CreateGateway, UpdateGateway, DeleteGateway
<1>3. ASSUME NEW g \in Gateways, DeliverGateway(g) PROVE CopyIsFresh'
  <2> SUFFICES ASSUME pc # "idle", fresh PROVE gwWatch'[cur] = << >>
    BY <1>3 DEF DeliverGateway, CopyIsFresh
  <2>1. cur # g
    BY <1>3 DEF DeliverGateway, CopyIsFresh
  <2> QED
    BY <1>3, <2>1 DEF DeliverGateway, CopyIsFresh, TypeOK
<1>4. CASE RelistGateways
  BY <1>4 DEF RelistGateways, CopyIsFresh, TypeOK, noVersions
<1>5. ASSUME NEW n \in Nodes, DeliverNode(n) PROVE CopyIsFresh'
  BY <1>0, <1>5 DEF DeliverNode
<1>6. CASE RelistNodes \/ Resync
  BY <1>0, <1>6 DEF RelistNodes, Resync
<1>7. ASSUME NEW g \in Gateways, StartReconcile(g) PROVE CopyIsFresh'
  <2>1. CASE gwCache[g] = Absent
    BY <1>0, <1>7, <2>1 DEF StartReconcile
  <2>2. CASE gwCache[g] # Absent
    BY <1>7, <2>2 DEF StartReconcile, CopyIsFresh, CachesTrail, Trails
  <2> QED
    BY <2>1, <2>2
<1>8. CASE ListNodes \/ UseServiceIP
  BY <1>8 DEF ListNodes, UseServiceIP, CopyIsFresh
<1>9. ASSUME NEW n \in Nodes, CollectNode(n) PROVE CopyIsFresh'
  BY <1>0, <1>9 DEF CollectNode
<1>10. CASE \/ WaitForService \/ PanicOnNilEndpoint \/ UpdateStatus
            \/ LoseReply \/ FailReconcile \/ Crash
  BY <1>10, ForgetFresh DEF WaitForService, PanicOnNilEndpoint, UpdateStatus,
     LoseReply, FailReconcile, Crash, Restart, Requeue
<1>11. CASE UNCHANGED vars
  BY <1>0, <1>11 DEF vars
<1> QED
  BY <1>2, <1>3, <1>4, <1>5, <1>6, <1>7, <1>8, <1>9, <1>10, <1>11
     DEF Next, Informers, Proceed, Faults

-----------------------------------------------------------------------------
(* HeldElection.                                                           *)

\* Leaving the other nodes out of a view changes no election.
LEMMA FilteredView ==
    ASSUME NEW g, NEW obj, NEW view, NEW listed,
           listed = [n \in Nodes |-> IF n \in managed(g, view)
                                    THEN view[n] ELSE Absent]
    PROVE  /\ Agree(g, listed, view)
           /\ electedFor(g, obj, listed) = electedFor(g, obj, view)
           /\ \A n \in Nodes : listed[n] # Absent => listed[n].gw = g
<1>1. managed(g, listed) = managed(g, view)
  BY DEF managed
<1>2. \A n \in managed(g, view) : listed[n] = view[n]
  BY DEF managed
<1>3. readyIn(listed, managed(g, listed)) = readyIn(view, managed(g, view))
  BY <1>1, <1>2 DEF readyIn
<1>4. \A n \in Nodes : listed[n] # Absent => listed[n].gw = g
  BY DEF managed
<1> QED
  BY <1>1, <1>3, <1>4 DEF Agree, electedFor

\* The operators of the abstract specification are the same ones.
LEMMA SameOperators ==
    /\ \A list : Atomic!namesIn(list) = namesIn(list)
    /\ \A g, view : Atomic!managed(g, view) = managed(g, view)
    /\ \A g, obj, view : Atomic!electedFor(g, obj, view)
                            = electedFor(g, obj, view)
<1>1. \A list : Atomic!namesIn(list) = namesIn(list)
  BY DEF Atomic!namesIn, namesIn
<1>2. \A g, view : Atomic!managed(g, view) = managed(g, view)
  BY DEF Atomic!managed, managed
<1>3. ASSUME NEW g, NEW obj, NEW view
      PROVE  Atomic!electedFor(g, obj, view) = electedFor(g, obj, view)
  <2>1. \A S : Atomic!readyIn(view, S) = readyIn(view, S)
    BY DEF Atomic!readyIn, readyIn
  <2>2. \A S, eps : Atomic!firstHostedBy(S, eps) = firstHostedBy(S, eps)
    BY DEF Atomic!firstHostedBy, firstHostedBy, Atomic!Min, Min
  <2>3. \A ep, S, eps : Atomic!checkActive(ep, S, eps) <=> checkActive(ep, S, eps)
    BY DEF Atomic!checkActive, checkActive, Atomic!Range, Range
  <2>4. \A S, eps, ep : Atomic!electActiveEndpoint(S, eps, ep)
                          = electActiveEndpoint(S, eps, ep)
    BY <2>2, <2>3 DEF Atomic!electActiveEndpoint, electActiveEndpoint
  <2> QED
    BY <1>2, <2>1, <2>4 DEF Atomic!electedFor, electedFor
<1> QED
  BY <1>1, <1>2, <1>3

LEMMA EmptyListed ==
    ASSUME NEW g, NEW view
    PROVE  Atomic!ListsSome(<< >>, g, view)
BY SameOperators DEF Atomic!ListsSome, namesIn

LEMMA AppendListed ==
    ASSUME TypeOK, Atomic!ListsSome(infos, cur, nodeList), NEW n \in remaining
    PROVE  Atomic!ListsSome(Append(infos, nodeInfo(n)), cur, nodeList)
<1> DEFINE longer == Append(infos, nodeInfo(n))
<1>1. n \in managed(cur, nodeList) /\ n \notin namesIn(infos)
  BY DEF remaining
<1>2. infos \in Seq(NodeInfo) /\ nodeInfo(n) \in NodeInfo
  BY <1>1, NodeInfoType DEF TypeOK
<1>3. /\ DOMAIN longer = DOMAIN infos \union {Len(infos) + 1}
      /\ \A i \in DOMAIN infos : longer[i] = infos[i]
      /\ longer[Len(infos) + 1] = nodeInfo(n)
      /\ Len(infos) + 1 \notin DOMAIN infos
  BY <1>2
<1>4. /\ namesIn(infos) \subseteq managed(cur, nodeList)
      /\ \A i, j \in DOMAIN infos : infos[i].node = infos[j].node => i = j
      /\ \A i \in DOMAIN infos :
            /\ infos[i].privateIP = nodeList[infos[i].node].addr
            /\ nodeList[infos[i].node].calico
                 \/ infos[i].subnets = {nodeList[infos[i].node].podCIDR}
  BY SameOperators DEF Atomic!ListsSome
<1>5. /\ nodeInfo(n).node = n /\ nodeInfo(n).privateIP = nodeList[n].addr
      /\ nodeList[n].calico \/ nodeInfo(n).subnets = {nodeList[n].podCIDR}
  BY DEF nodeInfo, podCIDRs
<1>6. \A i \in DOMAIN infos : infos[i].node # n
  BY <1>1 DEF namesIn
<1>7. namesIn(longer) \subseteq managed(cur, nodeList)
  BY <1>1, <1>3, <1>4, <1>5 DEF namesIn
<1>8. \A i, j \in DOMAIN longer : longer[i].node = longer[j].node => i = j
  BY <1>3, <1>4, <1>5, <1>6
<1>9. \A i \in DOMAIN longer :
         /\ longer[i].privateIP = nodeList[longer[i].node].addr
         /\ nodeList[longer[i].node].calico
              \/ longer[i].subnets = {nodeList[longer[i].node].podCIDR}
  BY <1>3, <1>4, <1>5
<1> QED
  BY <1>7, <1>8, <1>9, SameOperators DEF Atomic!ListsSome

LEMMA ForgetHeld ==
    ASSUME ForgetLocals
    PROVE  HeldElection'
BY DEF ForgetLocals, HeldElection

LEMMA HeldNext == TypeOK /\ HeldElection /\ [Next]_vars => HeldElection'
<1> SUFFICES ASSUME TypeOK, HeldElection, [Next]_vars PROVE HeldElection'
  OBVIOUS
<1> USE DEF externals, locals, gwInformer, nodeInformer, api
<1>0. ASSUME UNCHANGED <<pc, cur, gw, nodeList, activeEp, event, infos>>
      PROVE  HeldElection'
  BY <1>0 DEF HeldElection
<1>1. CASE Environment
  BY <1>0, <1>1 DEF Environment, CreateGateway, UpdateGateway, DeleteGateway,
     UserWritesGateway, ChangeNode, ChangeService, ChangeBlocks
<1>2. CASE Informers
  BY <1>0, <1>2 DEF Informers, DeliverGateway, RelistGateways, DeliverNode,
     RelistNodes, Resync
<1>3. ASSUME NEW g \in Gateways, StartReconcile(g) PROVE HeldElection'
  <2>1. CASE gwCache[g] = Absent
    BY <1>0, <1>3, <2>1 DEF StartReconcile
  <2>2. CASE gwCache[g] # Absent
    BY <1>3, <2>2 DEF StartReconcile, HeldElection
  <2> QED
    BY <2>1, <2>2
<1>4. CASE ListNodes
  <2> DEFINE elected == electedFor(cur, gw, nodeCache)
  <2>1. /\ electedFor(cur, gw, nodeList') = elected
        /\ \A n \in Nodes : nodeList'[n] # Absent => nodeList'[n].gw = cur
    BY <1>4, FilteredView DEF ListNodes
  <2>2. infos' = << >> /\ cur' = cur /\ gw' = gw /\ activeEp' = elected
        /\ event' = recordEndpointEvent(gw.active, elected)
        /\ pc' = IF gw.spec.lb THEN "svc" ELSE "collect"
    BY <1>4 DEF ListNodes, HeldElection
  <2>3. ~gw.spec.lb => Atomic!Publishes(elected, gw.spec, elected)
    BY DEF Atomic!Publishes
  <2>4. Atomic!ListsSome(<< >>, cur, nodeList')
    BY EmptyListed
  <2> QED
    BY <2>1, <2>2, <2>3, <2>4 DEF HeldElection
<1>5. CASE UseServiceIP
  <2>1. /\ gw.spec.lb /\ activeEp = electedFor(cur, gw, nodeList)
        /\ infos = << >>
    BY <1>5 DEF UseServiceIP, HeldElection
  <2>2. svc \in PublicIPs \union {NoIP}
    BY <1>5, ServicesAssumption DEF UseServiceIP, TypeOK
  <2>3. Atomic!Publishes(activeEp', gw.spec, electedFor(cur, gw, nodeList))
    BY <1>5, <2>1, <2>2 DEF UseServiceIP, Atomic!Publishes
  <2>4. Atomic!ListsSome(infos, cur, nodeList)
    BY <2>1, EmptyListed
  <2> QED
    BY <1>5, <2>3, <2>4 DEF UseServiceIP, HeldElection
<1>6. ASSUME NEW n \in Nodes, CollectNode(n) PROVE HeldElection'
  <2>1. Atomic!ListsSome(infos', cur, nodeList)
    BY <1>6, AppendListed DEF CollectNode, HeldElection
  <2> QED
    BY <1>6, <2>1 DEF CollectNode, HeldElection
<1>7. CASE \/ WaitForService \/ PanicOnNilEndpoint \/ UpdateStatus
           \/ LoseReply \/ FailReconcile \/ Crash
  BY <1>7, ForgetHeld DEF WaitForService, PanicOnNilEndpoint, UpdateStatus,
     LoseReply, FailReconcile, Crash, Restart, Requeue
<1>8. CASE UNCHANGED vars
  BY <1>0, <1>8 DEF vars
<1> QED
  BY <1>1, <1>2, <1>3, <1>4, <1>5, <1>6, <1>7, <1>8 DEF Next, Proceed, Faults

-----------------------------------------------------------------------------
(* ActiveIsManaged.                                                        *)

LEMMA PublishedEndpoint ==
    ASSUME NEW elected \in Endpoint \union {NoEndpoint}, NEW spec, NEW ep,
           Atomic!Publishes(ep, spec, elected)
    PROVE  /\ ep = NoEndpoint <=> elected = NoEndpoint
           /\ ep # NoEndpoint => ep.node = elected.node
           /\ ~spec.lb => ep = elected
<1>1. ASSUME elected # NoEndpoint, NEW ip \in PublicIPs \union {NoIP}
      PROVE  /\ [elected EXCEPT !.ip = ip] \in Endpoint
             /\ [elected EXCEPT !.ip = ip].node = elected.node
  BY <1>1 DEF Endpoint
<1>2. CASE spec.lb
  <2>1. PICK ip \in PublicIPs \union {NoIP} :
           elected # NoEndpoint /\ ep = [elected EXCEPT !.ip = ip]
    BY <1>2 DEF Atomic!Publishes
  <2>2. ep \in Endpoint /\ ep.node = elected.node
    BY <1>1, <2>1
  <2> QED
    BY <1>2, <2>1, <2>2, NoEndpointAssumption
<1>3. CASE ~spec.lb
  BY <1>3 DEF Atomic!Publishes
<1> QED
  BY <1>2, <1>3

LEMMA ElectedFacts ==
    ASSUME NEW obj \in Gateway, NEW g, NEW view
    PROVE  LET ready == readyIn(view, managed(g, view))
               elected == electedFor(g, obj, view)
           IN  /\ elected \in Endpoint \union {NoEndpoint}
               /\ elected # NoEndpoint => /\ elected \in Range(obj.spec.endpoints)
                                          /\ elected.node \in ready
               /\ elected = NoEndpoint =>
                    \A e \in Range(obj.spec.endpoints) : e.node \notin ready
<1>1. /\ obj.spec.endpoints \in Seq(Endpoint)
      /\ obj.active \in Endpoint \union {NoEndpoint}
  BY SpecType DEF Gateway
<1> QED
  BY <1>1, ElectionSound DEF electedFor

\* What Reconcile is about to write.
LEMMA ReadyToWrite ==
    ASSUME TypeOK, HeldElection, pc = "collect", remaining = {}
    PROVE  LET ready == readyIn(nodeList, managed(cur, nodeList))
           IN  /\ cur \in Gateways /\ gw \in Gateway
               /\ newStatus.spec = gw.spec /\ newStatus.active = activeEp
               /\ newStatus.nodes = infos
               /\ Atomic!Lists(infos, cur, nodeList)
               /\ namesIn(infos) = managed(cur, nodeList)
               /\ activeEp = NoEndpoint =>
                    \A e \in Range(gw.spec.endpoints) : e.node \notin ready
               /\ activeEp # NoEndpoint =>
                    \E e \in Range(gw.spec.endpoints) :
                       /\ e.node = activeEp.node /\ e.node \in ready
                       /\ gw.spec.lb \/ e = activeEp
<1>1. cur \in Gateways /\ gw \in Gateway
  BY DEF TypeOK, Version
<1>2. /\ newStatus.spec = gw.spec /\ newStatus.active = activeEp
      /\ newStatus.nodes = infos
  BY <1>1 DEF newStatus, Gateway
<1>3. Atomic!Lists(infos, cur, nodeList)
  BY SameOperators DEF HeldElection, Atomic!Lists, remaining
<1>4. namesIn(infos) = managed(cur, nodeList)
  BY <1>3, SameOperators DEF Atomic!Lists, Atomic!ListsSome
<1> DEFINE elected == electedFor(cur, gw, nodeList)
<1>5. Atomic!Publishes(activeEp, gw.spec, elected)
  BY DEF HeldElection
<1>6. /\ elected \in Endpoint \union {NoEndpoint}
      /\ elected # NoEndpoint =>
           /\ elected \in Range(gw.spec.endpoints)
           /\ elected.node \in readyIn(nodeList, managed(cur, nodeList))
      /\ elected = NoEndpoint =>
           \A e \in Range(gw.spec.endpoints) :
              e.node \notin readyIn(nodeList, managed(cur, nodeList))
  BY <1>1, ElectedFacts
<1>7. /\ activeEp = NoEndpoint <=> elected = NoEndpoint
      /\ activeEp # NoEndpoint => activeEp.node = elected.node
      /\ ~gw.spec.lb => activeEp = elected
  BY <1>5, <1>6, PublishedEndpoint
<1> HIDE DEF elected
<1> QED
  BY <1>1, <1>2, <1>3, <1>4, <1>6, <1>7

LEMMA ManagedServed ==
    ASSUME TypeOK, HeldElection, ActiveIsManaged,
           pc = "collect", remaining = {}, ServeUpdate
    PROVE  ActiveIsManaged'
<1>1. CASE UNCHANGED gws
  BY <1>1 DEF ActiveIsManaged
<1>2. CASE WriteGateway(cur, newStatus)
  <2>1. newStatus.active # NoEndpoint =>
            newStatus.active.node \in namesIn(newStatus.nodes)
    BY ReadyToWrite DEF readyIn
  <2>2. \A g \in Gateways :
           gws'[g] = IF g = cur THEN newStatus ELSE gws[g]
    BY <1>2 DEF WriteGateway, TypeOK
  <2> QED
    BY <2>1, <2>2 DEF ActiveIsManaged
<1> QED
  BY <1>1, <1>2 DEF ServeUpdate

LEMMA ManagedNext ==
    TypeOK /\ HeldElection /\ ActiveIsManaged /\ [Next]_vars => ActiveIsManaged'
<1> SUFFICES ASSUME TypeOK, HeldElection, ActiveIsManaged, [Next]_vars
             PROVE  ActiveIsManaged'
  OBVIOUS
<1> USE DEF externals, locals, gwInformer, nodeInformer, api
<1>0. ASSUME UNCHANGED gws PROVE ActiveIsManaged'
  BY <1>0 DEF ActiveIsManaged
<1>1. ASSUME NEW g \in Gateways, NEW obj,
             gws' = [gws EXCEPT ![g] = obj],
             obj # Absent /\ obj.active # NoEndpoint =>
                obj.active.node \in namesIn(obj.nodes)
      PROVE  ActiveIsManaged'
  BY <1>1 DEF ActiveIsManaged, TypeOK
<1>2. ASSUME NEW g \in Gateways, NEW s \in Specs, CreateGateway(g, s)
      PROVE  ActiveIsManaged'
  BY <1>1, <1>2 DEF CreateGateway, UserWritesGateway, WriteGateway, NewGateway
<1>3. ASSUME NEW g \in Gateways, NEW s \in Specs, UpdateGateway(g, s)
      PROVE  ActiveIsManaged'
  <2> DEFINE obj == [gws[g] EXCEPT !.spec = s]
  <2>1. gws[g] \in Gateway /\ gws[g] # Absent
    BY <1>3 DEF UpdateGateway, TypeOK, Version
  <2>2. obj.active = gws[g].active /\ obj.nodes = gws[g].nodes
    BY <2>1 DEF Gateway
  <2>3. gws' = [gws EXCEPT ![g] = obj]
    BY <1>3 DEF UpdateGateway, UserWritesGateway, WriteGateway
  <2> HIDE DEF obj
  <2> QED
    BY <1>1, <2>1, <2>2, <2>3 DEF ActiveIsManaged
<1>4. ASSUME NEW g \in Gateways, DeleteGateway(g) PROVE ActiveIsManaged'
  BY <1>1, <1>4 DEF DeleteGateway, UserWritesGateway, WriteGateway
<1>5. ASSUME NEW n, NEW obj, ChangeNode(n, obj) PROVE ActiveIsManaged'
  BY <1>0, <1>5 DEF ChangeNode
<1>6. ASSUME NEW s, ChangeService(s) \/ ChangeBlocks(s) PROVE ActiveIsManaged'
  BY <1>0, <1>6 DEF ChangeService, ChangeBlocks
<1>7. CASE Informers
  BY <1>0, <1>7 DEF Informers, DeliverGateway, RelistGateways, DeliverNode,
     RelistNodes, Resync
<1>8. ASSUME NEW g \in Gateways, StartReconcile(g) PROVE ActiveIsManaged'
  BY <1>0, <1>8 DEF StartReconcile
<1>9. CASE UpdateStatus \/ LoseReply
  BY <1>9, ManagedServed DEF UpdateStatus, LoseReply
<1>10. CASE \/ ListNodes \/ WaitForService \/ UseServiceIP
            \/ PanicOnNilEndpoint \/ FailReconcile \/ Crash
  BY <1>0, <1>10 DEF ListNodes, WaitForService, UseServiceIP,
     PanicOnNilEndpoint, FailReconcile, Crash, Restart
<1>11. ASSUME NEW n, CollectNode(n) PROVE ActiveIsManaged'
  BY <1>0, <1>11 DEF CollectNode
<1>12. CASE UNCHANGED vars
  BY <1>0, <1>12 DEF vars
<1> QED
  BY <1>2, <1>3, <1>4, <1>5, <1>6, <1>7, <1>8, <1>9, <1>10, <1>11, <1>12
     DEF Next, Environment, Proceed, Faults

-----------------------------------------------------------------------------
(* WakeupPending.                                                          *)

LEMMA AgreeFits ==
    ASSUME NEW g, NEW view, NEW other, Agree(g, view, other),
           StatusFits(g, view)
    PROVE  StatusFits(g, other)
BY DEF Agree, StatusFits, Competent

\* A node change that queues no request for a cached gateway changes neither
\* its nodes nor the ready ones.
LEMMA SilentChangesAgree ==
    ASSUME NEW g \in Gateways, gwCache[g] # Absent, NEW view, NEW other,
           \A n \in Nodes : view[n] # other[n] =>
                               g \notin requests(view[n], other[n])
    PROVE  Agree(g, view, other)
<1>1. ASSUME NEW n \in Nodes
      PROVE  /\ n \in managed(g, view) <=> n \in managed(g, other)
             /\ n \in managed(g, view) => view[n].ready = other[n].ready
  <2>1. CASE view[n] = other[n]
    BY <2>1 DEF managed
  <2>2. CASE g \notin requests(view[n], other[n])
    <3>1. CASE notable(view[n], other[n])
      BY <2>2, <3>1 DEF requests, mapNodeToRequest, existing, managed
    <3>2. CASE ~notable(view[n], other[n])
      BY <3>2 DEF notable, managed
    <3> QED
      BY <3>1, <3>2
  <2> QED
    BY <2>1, <2>2
<1>2. managed(g, view) = managed(g, other)
  BY <1>1 DEF managed
<1> QED
  BY <1>1, <1>2 DEF Agree, readyIn, managed

LEMMA WrittenFits ==
    ASSUME TypeOK, HeldElection, pc = "collect", remaining = {},
           gws[cur] = newStatus
    PROVE  StatusFits(cur, nodeList)
<1>1. \A i, j \in DOMAIN infos : infos[i].node = infos[j].node => i = j
  BY ReadyToWrite DEF Atomic!Lists, Atomic!ListsSome
<1> QED
  BY <1>1, ReadyToWrite DEF StatusFits, Competent

LEMMA PendingAfterRestart ==
    ASSUME Restart
    PROVE  WakeupPending'
BY DEF Restart, WakeupPending, existing, api

\* A step that leaves the node cache alone and, for every gateway, queues it
\* or writes it or leaves it as it is, and is not in progress after it.
LEMMA PendingWhenIdle ==
    ASSUME TypeOK, WakeupPending, ForgetLocals,
           UNCHANGED <<gwCache, nodeCache>>,
           \A g \in Gateways :
              \/ g \in queue'
              \/ gwWatch'[g] # << >>
              \/ g # cur /\ g \notin queue /\ UNCHANGED <<gws[g], gwWatch[g]>>
    PROVE  WakeupPending'
<1> SUFFICES ASSUME NEW g \in Gateways, gwCache'[g] # Absent, g \notin queue',
                    gwWatch'[g] = << >>
             PROVE  cur' # g /\ StatusFits(g, nodeCache)'
  BY DEF WakeupPending
<1>1. cur' # g
  BY NamesAssumption DEF ForgetLocals
<1>2. g # cur /\ g \notin queue /\ UNCHANGED <<gws[g], gwWatch[g]>>
  OBVIOUS
<1>3. StatusFits(g, nodeCache)
  BY <1>2 DEF WakeupPending
<1> QED
  BY <1>1, <1>2, <1>3 DEF StatusFits, Competent

LEMMA PendingServed ==
    ASSUME TypeOK, HeldElection, CopyIsFresh, WakeupPending, UpdateStatus
    PROVE  WakeupPending'
<1> USE DEF nodeInformer, externals
<1>1. ForgetLocals /\ cur \in Gateways /\ UNCHANGED <<gwCache, nodeCache>>
  BY DEF UpdateStatus, Requeue, TypeOK
<1>2. CASE ~fresh
  <2>1. /\ queue' = queue \union {cur}
        /\ UNCHANGED <<gws, gwWatch>>
    BY <1>2 DEF UpdateStatus, Requeue, ServeUpdate
  <2> QED
    BY <1>1, <2>1, PendingWhenIdle
<1>3. CASE fresh /\ newStatus # gws[cur]
  <2>1. WriteGateway(cur, newStatus) /\ queue' = queue
    BY <1>3 DEF UpdateStatus, ServeUpdate
  <2>2. gwWatch[cur] \in Seq(Version(Gateway))
    BY <1>1 DEF TypeOK
  <2>3. gwWatch'[cur] # << >>
    <3>1. gwWatch'[cur] = Append(gwWatch[cur], newStatus)
      BY <1>1, <2>1 DEF WriteGateway, TypeOK
    <3>2. newStatus \in Version(Gateway)
      BY NewStatusType DEF UpdateStatus, Version
    <3> QED
      BY <2>2, <3>1, <3>2
  <2>4. \A g \in Gateways : g # cur => UNCHANGED <<gws[g], gwWatch[g]>>
    BY <2>1 DEF WriteGateway, TypeOK
  <2> QED
    BY <1>1, <2>1, <2>3, <2>4, PendingWhenIdle
<1>4. CASE fresh /\ newStatus = gws[cur]
  <2>1. UNCHANGED <<gws, gwWatch, queue>>
    BY <1>4 DEF UpdateStatus, ServeUpdate
  <2>2. StatusFits(cur, nodeList)
    BY <1>4, WrittenFits DEF UpdateStatus
  <2> SUFFICES ASSUME NEW g \in Gateways, gwCache[g] # Absent, g \notin queue,
                      gwWatch[g] = << >>
               PROVE  cur' # g /\ StatusFits(g, nodeCache)
    BY <1>1, <2>1 DEF WakeupPending, StatusFits, Competent
  <2>3. cur' # g
    BY <1>1, NamesAssumption DEF ForgetLocals
  <2>4. CASE g = cur
    <3>1. Agree(g, nodeList, nodeCache)
      BY <1>4, <2>4 DEF WakeupPending, UpdateStatus
    <3> QED
      BY <2>2, <2>3, <2>4, <3>1, AgreeFits
  <2>5. CASE g # cur
    BY <2>3, <2>5 DEF WakeupPending
  <2> QED
    BY <2>4, <2>5
<1> QED
  BY <1>2, <1>3, <1>4

LEMMA PendingNext == IInv /\ [Next]_vars => WakeupPending'
<1> SUFFICES ASSUME IInv, [Next]_vars PROVE WakeupPending'
  OBVIOUS
<1> USE DEF externals, locals, gwInformer, nodeInformer, api
<1>a. /\ TypeOK /\ CachesTrail /\ CopyIsFresh /\ HeldElection /\ WakeupPending
      /\ pc = "idle" => cur = NoGateway
  BY DEF IInv
\* Steps that touch neither the node cache nor Reconcile: a gateway is left
\* alone, or queued, or has a new version on its way.
<1>0. ASSUME UNCHANGED <<nodeCache, pc, cur, nodeList>>, fresh' => fresh,
             \A g \in Gateways :
                \/ g \in queue'
                \/ gwWatch'[g] # << >>
                \/ /\ g \notin queue
                   /\ UNCHANGED <<gws[g], gwCache[g], gwWatch[g]>>
      PROVE  WakeupPending'
  BY <1>0, <1>a DEF WakeupPending, StatusFits, Competent
\* Steps that touch only the node cache and the queue.
<1>1. ASSUME UNCHANGED <<gws, gwCache, gwWatch, pc, cur, fresh, nodeList>>,
             queue \subseteq queue',
             \A g \in Gateways : \A n \in Nodes :
                /\ nodeCache[n] # nodeCache'[n]
                /\ g \in requests(nodeCache[n], nodeCache'[n])
                => g \in queue'
      PROVE  WakeupPending'
  <2> SUFFICES ASSUME NEW g \in Gateways, gwCache[g] # Absent,
                      g \notin queue', gwWatch[g] = << >>
               PROVE  IF cur = g
                      THEN fresh /\ pc \in {"svc", "collect"} =>
                              Agree(g, nodeList, nodeCache')
                      ELSE StatusFits(g, nodeCache')
    BY <1>1 DEF WakeupPending, StatusFits, Competent
  <2>1. Agree(g, nodeCache, nodeCache')
    BY <1>1, SilentChangesAgree
  <2>2. IF cur = g
        THEN fresh /\ pc \in {"svc", "collect"} => Agree(g, nodeList, nodeCache)
        ELSE StatusFits(g, nodeCache)
    BY <1>1, <1>a DEF WakeupPending
  <2>3. CASE cur = g
    BY <2>1, <2>2, <2>3 DEF Agree
  <2>4. CASE cur # g
    BY <2>1, <2>2, <2>4, AgreeFits
  <2> QED
    BY <2>3, <2>4
<1>2. ASSUME NEW g \in Gateways, NEW obj \in Version(Gateway),
             UserWritesGateway(g, obj)
      PROVE  WakeupPending'
  <2>1. gwWatch[g] \in Seq(Version(Gateway))
    BY <1>a DEF TypeOK
  <2>2. gwWatch'[g] = Append(gwWatch[g], obj)
    BY <1>2, <1>a DEF UserWritesGateway, WriteGateway, TypeOK
  <2>3. gwWatch'[g] # << >>
    BY <2>1, <2>2
  <2>4. \A h \in Gateways : h # g => UNCHANGED <<gws[h], gwCache[h], gwWatch[h]>>
    BY <1>2, <1>a DEF UserWritesGateway, WriteGateway, TypeOK
  <2>5. /\ UNCHANGED <<nodeCache, pc, cur, nodeList, queue>>
        /\ fresh' => fresh
    BY <1>2 DEF UserWritesGateway
  <2> QED
    BY <1>0, <2>3, <2>4, <2>5
<1>3. CASE Environment
  <2>1. ASSUME NEW g \in Gateways, NEW s \in Specs,
               CreateGateway(g, s) \/ UpdateGateway(g, s)
        PROVE  WakeupPending'
    <3>1. NewGateway(s) \in Version(Gateway)
      BY NewGatewayType DEF Version
    <3>2. gws[g] # Absent => [gws[g] EXCEPT !.spec = s] \in Version(Gateway)
      BY <1>a DEF TypeOK, Version, Gateway
    <3> QED
      BY <1>2, <2>1, <3>1, <3>2 DEF CreateGateway, UpdateGateway
  <2>2. ASSUME NEW g \in Gateways, DeleteGateway(g) PROVE WakeupPending'
    BY <1>2, <2>2 DEF DeleteGateway, Version
  <2>3. ASSUME NEW n, NEW obj, ChangeNode(n, obj) PROVE WakeupPending'
    BY <1>0, <2>3 DEF ChangeNode
  <2>4. ASSUME NEW s, ChangeService(s) \/ ChangeBlocks(s) PROVE WakeupPending'
    BY <1>0, <2>4 DEF ChangeService, ChangeBlocks
  <2> QED
    BY <1>3, <2>1, <2>2, <2>3, <2>4 DEF Environment
<1>4. CASE Informers
  <2>1. ASSUME NEW g \in Gateways, DeliverGateway(g) PROVE WakeupPending'
    BY <1>0, <1>a, <2>1 DEF DeliverGateway, TypeOK
  <2>2. CASE RelistGateways
    <3>1. \A g \in Gateways : gwWatch[g] = << >> => gws[g] = gwCache[g]
      BY <1>a DEF CachesTrail, Trails
    <3> QED
      BY <1>0, <2>2, <3>1 DEF RelistGateways, noVersions
  <2>3. ASSUME NEW n \in Nodes, DeliverNode(n) PROVE WakeupPending'
    BY <1>1, <1>a, <2>3 DEF DeliverNode, TypeOK
  <2>4. CASE RelistNodes
    BY <1>1, <2>4 DEF RelistNodes
  <2>5. CASE Resync
    BY <1>0, <2>5 DEF Resync
  <2> QED
    BY <1>4, <2>1, <2>2, <2>3, <2>4, <2>5 DEF Informers
<1>5. ASSUME NEW g \in Gateways, StartReconcile(g) PROVE WakeupPending'
  <2>1. cur = NoGateway
    BY <1>5, <1>a DEF StartReconcile
  <2>2. CASE gwCache[g] = Absent
    BY <1>5, <1>a, <2>2 DEF StartReconcile, WakeupPending, StatusFits, Competent
  <2>3. CASE gwCache[g] # Absent
    BY <1>5, <1>a, <2>1, <2>3, NamesAssumption
       DEF StartReconcile, WakeupPending, StatusFits, Competent
  <2> QED
    BY <2>2, <2>3
<1>6. CASE ListNodes
  <2>1. Agree(cur, nodeList', nodeCache)
    BY <1>6, FilteredView DEF ListNodes
  <2> QED
    BY <1>6, <1>a, <2>1 DEF ListNodes, WakeupPending, StatusFits, Competent
<1>7. CASE UseServiceIP
  BY <1>7, <1>a DEF UseServiceIP, WakeupPending, StatusFits, Competent
<1>8. ASSUME NEW n, CollectNode(n) PROVE WakeupPending'
  BY <1>0, <1>8 DEF CollectNode
<1>9. CASE UpdateStatus
  BY <1>9, <1>a, PendingServed
<1>10. CASE WaitForService \/ FailReconcile
  <2>1. /\ ForgetLocals /\ queue' = queue \union {cur}
        /\ UNCHANGED <<gws, gwCache, gwWatch, nodeCache>>
    BY <1>10 DEF WaitForService, FailReconcile, Requeue
  <2> QED
    BY <1>a, <2>1, PendingWhenIdle
<1>11. CASE LoseReply
  <2>1. /\ ForgetLocals /\ queue' = queue \union {cur}
        /\ UNCHANGED <<gwCache, nodeCache>>
    BY <1>11 DEF LoseReply, Requeue
  <2>2. \A g \in Gateways : g # cur => UNCHANGED <<gws[g], gwWatch[g]>>
    BY <1>11, <1>a DEF LoseReply, ServeUpdate, WriteGateway, TypeOK
  <2> QED
    BY <1>a, <2>1, <2>2, PendingWhenIdle
<1>12. CASE PanicOnNilEndpoint \/ Crash
  BY <1>12, PendingAfterRestart DEF PanicOnNilEndpoint, Crash
<1>13. CASE UNCHANGED vars
  BY <1>0, <1>13 DEF vars
<1> QED
  BY <1>3, <1>4, <1>5, <1>6, <1>7, <1>8, <1>9, <1>10, <1>11, <1>12, <1>13
     DEF Next, Proceed, Faults

-----------------------------------------------------------------------------
(* The inductive invariant.                                                *)

LEMMA IInvInit == Init => IInv
<1> SUFFICES ASSUME Init PROVE IInv
  OBVIOUS
<1>1. TypeOK
  BY TypeInit
<1>2. CachesTrail
  BY DEF Init, CachesTrail, Trails, noVersions
<1>3. CopyIsFresh /\ HeldElection /\ (pc = "idle" <=> cur = NoGateway)
  BY DEF Init, CopyIsFresh, HeldElection
<1>4. WakeupPending
  BY DEF Init, WakeupPending, existing
<1>5. ActiveIsManaged
  BY DEF Init, ActiveIsManaged, NewGateway
<1> QED
  BY <1>1, <1>2, <1>3, <1>4, <1>5 DEF IInv

LEMMA CurNext ==
    TypeOK /\ (pc = "idle" <=> cur = NoGateway) /\ [Next]_vars
        => (pc = "idle" <=> cur = NoGateway)'
<1> SUFFICES ASSUME TypeOK, pc = "idle" <=> cur = NoGateway, [Next]_vars
             PROVE  pc' = "idle" <=> cur' = NoGateway
  OBVIOUS
<1> USE DEF externals, locals, gwInformer, nodeInformer, api
<1>1. CASE Environment
  BY <1>1 DEF Environment, CreateGateway, UpdateGateway, DeleteGateway,
     UserWritesGateway, ChangeNode, ChangeService, ChangeBlocks
<1>2. CASE Informers
  BY <1>2 DEF Informers, DeliverGateway, RelistGateways, DeliverNode,
     RelistNodes, Resync
<1>3. ASSUME NEW g \in Gateways, StartReconcile(g)
      PROVE  pc' = "idle" <=> cur' = NoGateway
  BY <1>3, NamesAssumption DEF StartReconcile
<1>4. CASE ListNodes \/ UseServiceIP
  BY <1>4 DEF ListNodes, UseServiceIP
<1>5. ASSUME NEW n, CollectNode(n)
      PROVE  pc' = "idle" <=> cur' = NoGateway
  BY <1>5 DEF CollectNode
<1>6. CASE \/ WaitForService \/ PanicOnNilEndpoint \/ UpdateStatus
           \/ LoseReply \/ FailReconcile \/ Crash
  BY <1>6 DEF WaitForService, PanicOnNilEndpoint, UpdateStatus, LoseReply,
     FailReconcile, Crash, Restart, Requeue, ForgetLocals
<1>7. CASE UNCHANGED vars
  BY <1>7 DEF vars
<1> QED
  BY <1>1, <1>2, <1>3, <1>4, <1>5, <1>6, <1>7 DEF Next, Proceed, Faults

LEMMA IInvNext == IInv /\ [Next]_vars => IInv'
BY TypeNext, CurNext, TrailNext, FreshNext, HeldNext, PendingNext, ManagedNext
   DEF IInv

\* Whatever shows the Service and counts the disturbances leaves it alone.
LEMMA IInvExternals ==
    ASSUME IInv, svc' \in Services, disturbances' \in 0..MaxDisturbances,
           UNCHANGED <<api, gwInformer, nodeInformer, blocks, queue, locals>>
    PROVE  IInv'
<1> USE DEF api, gwInformer, nodeInformer, locals
<1>1. TypeOK' /\ (pc = "idle" <=> cur = NoGateway)'
  BY DEF IInv, TypeOK
<1>2. CachesTrail' /\ CopyIsFresh'
  BY DEF IInv, CachesTrail, CopyIsFresh
<1>3. HeldElection'
  BY DEF IInv, HeldElection
<1>4. WakeupPending' /\ ActiveIsManaged'
  BY DEF IInv, WakeupPending, StatusFits, Competent, ActiveIsManaged
<1> QED
  BY <1>1, <1>2, <1>3, <1>4 DEF IInv

\* A restart whose caches show another Service.
LEMMA IInvRestart ==
    ASSUME IInv, svc' \in Services, disturbances' \in 0..MaxDisturbances,
           gwCache' = gws, gwWatch' = noVersions(Gateways),
           nodeCache' = nodes, nodeWatch' = noVersions(Nodes),
           queue' = existing(gws), ForgetLocals, UNCHANGED <<api, blocks>>
    PROVE  IInv'
<1> USE DEF api
<1>1. TypeOK'
  <2>1. \A S, T : noVersions(S) \in [S -> Seq(T)]
    BY DEF noVersions
  <2> QED
    BY <2>1, ForgetType DEF IInv, TypeOK, existing
<1>2. CachesTrail'
  BY DEF CachesTrail, Trails, noVersions
<1>3. CopyIsFresh' /\ HeldElection'
  BY ForgetFresh, ForgetHeld
<1>4. WakeupPending'
  BY DEF WakeupPending, existing
<1>5. ActiveIsManaged' /\ (pc = "idle" <=> cur = NoGateway)'
  BY DEF IInv, ActiveIsManaged, ForgetLocals
<1> QED
  BY <1>1, <1>2, <1>3, <1>4, <1>5 DEF IInv

\* The inductive invariant holds in every reachable state.
THEOREM IInvHolds == Spec => []IInv
BY IInvInit, IInvNext, PTL DEF Spec

\* The active endpoint's node is always among the nodes of the same status.
THEOREM ActiveManaged == Spec => []ActiveIsManaged
<1>1. IInv => ActiveIsManaged
  BY DEF IInv
<1> QED
  BY <1>1, IInvHolds, PTL

LEMMA ConvergedAtRest == IInv => SettledConverged
<1> SUFFICES ASSUME IInv, Settled, NEW g \in Gateways, gws[g] # Absent
             PROVE  StatusFits(g, nodes)
  BY DEF SettledConverged, Converged
<1>1. TypeOK /\ CachesTrail /\ WakeupPending /\ cur = NoGateway
  BY DEF IInv, Settled
<1>2. /\ gwWatch[g] = << >> /\ gwCache[g] = gws[g]
      /\ \A n \in Nodes : nodeCache[n] = nodes[n]
  BY <1>1 DEF Settled, CachesTrail, Trails, noVersions
<1>3. StatusFits(g, nodeCache)
  BY <1>1, <1>2, NamesAssumption DEF WakeupPending, Settled
<1>4. nodeCache = nodes
  BY <1>1, <1>2 DEF TypeOK
<1> QED
  BY <1>3, <1>4

\* A controller with nothing left to do has given every gateway the status
\* its spec and the nodes in the API server call for.
THEOREM NoLostWakeup == Spec => []SettledConverged
BY ConvergedAtRest, IInvHolds, PTL

-----------------------------------------------------------------------------
(* The steps of the Gateway objects.                                       *)

\* Reconcile writes the status it computed to the gateway it read.
Served ==
    /\ pc = "collect" /\ remaining = {} /\ fresh
    /\ gws' = [gws EXCEPT ![cur] = newStatus]

LEMMA StepsOfGws ==
    IInv /\ [Next]_vars =>
        \/ UNCHANGED gws
        \/ \E g \in Gateways : Atomic!UserWrites(g)
        \/ Served
<1> SUFFICES ASSUME IInv, [Next]_vars, gws' # gws,
                    ~ \E g \in Gateways : Atomic!UserWrites(g)
             PROVE  Served
  OBVIOUS
<1> USE DEF externals, locals, gwInformer, nodeInformer, api
<1>1. ~Environment
  BY DEF Environment, CreateGateway, UpdateGateway, DeleteGateway,
     UserWritesGateway, WriteGateway, Atomic!UserWrites, NewGateway,
     Atomic!NewGateway, ChangeNode, ChangeService, ChangeBlocks
<1>2. ~Informers
  BY DEF Informers, DeliverGateway, RelistGateways, DeliverNode,
     RelistNodes, Resync
<1>3. ASSUME NEW g \in Gateways PROVE ~StartReconcile(g)
  BY DEF StartReconcile
<1>4. /\ ~ListNodes /\ ~WaitForService /\ ~UseServiceIP /\ ~PanicOnNilEndpoint
      /\ ~FailReconcile /\ ~Crash /\ ~UNCHANGED vars
  BY DEF ListNodes, WaitForService, UseServiceIP, PanicOnNilEndpoint,
     FailReconcile, Crash, Restart, vars
<1>5. ASSUME NEW n PROVE ~CollectNode(n)
  BY DEF CollectNode
<1>6. UpdateStatus \/ LoseReply
  BY <1>1, <1>2, <1>3, <1>4, <1>5 DEF Next, Proceed, Faults
<1> QED
  BY <1>6 DEF Served, UpdateStatus, LoseReply, ServeUpdate, WriteGateway

LEMMA UserKeepsStatus ==
    ASSUME TypeOK, NEW g \in Gateways, Atomic!UserWrites(g),
           NEW h \in Gateways, gws[h] # Absent, gws'[h] # Absent
    PROVE  gws'[h].active = gws[h].active
<1>1. CASE h # g
  BY <1>1 DEF Atomic!UserWrites, TypeOK
<1>2. CASE h = g
  <2>1. gws[g] \in Gateway
    BY <1>2 DEF TypeOK, Version
  <2>2. PICK s \in Specs : gws' = [gws EXCEPT ![g].spec = s]
    BY <1>2 DEF Atomic!UserWrites, TypeOK
  <2>3. gws'[g] = [gws[g] EXCEPT !.spec = s]
    BY <2>2 DEF TypeOK
  <2> QED
    BY <1>2, <2>1, <2>3 DEF Gateway
<1> QED
  BY <1>1, <1>2

\* What Served does to each gateway.
LEMMA ServedStatus ==
    ASSUME IInv, Served
    PROVE  /\ \A h \in Gateways : h # cur => gws'[h] = gws[h]
           /\ cur \in Gateways /\ gws[cur] = gw /\ gw \in Gateway /\ gw # Absent
           /\ gws'[cur] = newStatus /\ newStatus # Absent
<1>1. TypeOK /\ CopyIsFresh /\ pc = "collect" /\ fresh
  BY DEF IInv, Served
<1>2. cur \in Gateways /\ gw \in Gateway /\ gw # Absent
  BY <1>1 DEF TypeOK, Version
<1> QED
  BY <1>1, <1>2, NewStatusType DEF Served, CopyIsFresh, TypeOK

LEMMA DeclaredNext ==
    IInv /\ [Next]_vars =>
      [\A g \in Gateways :
           /\ gws[g] # Absent /\ gws'[g] # Absent
           /\ gws'[g].active \notin {gws[g].active, NoEndpoint}
           => \E e \in Range(gws[g].spec.endpoints) :
                 /\ e.node = gws'[g].active.node
                 /\ gws[g].spec.lb \/ e = gws'[g].active]_gws
<1> DEFINE Declared(g) ==
         /\ gws[g] # Absent /\ gws'[g] # Absent
         /\ gws'[g].active \notin {gws[g].active, NoEndpoint}
         => \E e \in Range(gws[g].spec.endpoints) :
               /\ e.node = gws'[g].active.node
               /\ gws[g].spec.lb \/ e = gws'[g].active
<1>1. ASSUME IInv, [Next]_vars, NEW g \in Gateways PROVE Declared(g)
  <2>1. TypeOK /\ HeldElection
    BY <1>1 DEF IInv
  <2>2. CASE UNCHANGED gws
    BY <2>2
  <2>3. ASSUME NEW h \in Gateways, Atomic!UserWrites(h) PROVE Declared(g)
    BY <2>1, <2>3, UserKeepsStatus
  <2>4. CASE Served /\ g # cur
    BY <1>1, <2>4, ServedStatus
  <2>5. CASE Served /\ g = cur
    <3>1. pc = "collect" /\ remaining = {}
      BY <2>5 DEF Served
    <3>2. /\ gws[g] = gw /\ gws'[g] = newStatus
      BY <1>1, <2>5, ServedStatus
    <3> QED
      BY <2>1, <3>1, <3>2, ReadyToWrite
  <2> QED
    BY <1>1, <2>2, <2>3, <2>4, <2>5, StepsOfGws
<1> QED
  BY <1>1

\* An endpoint becomes active only while the gateway's own spec declares it.
THEOREM ElectedDeclared == Spec => ElectedIsDeclared
BY DeclaredNext, IInvHolds, PTL DEF Spec, ElectedIsDeclared

LEMMA AnnouncedNext ==
    IInv /\ [Next]_vars =>
      [\A g \in Gateways :
           /\ gws[g] # Absent /\ gws'[g] # Absent
           /\ nodeOf(gws'[g].active) # nodeOf(gws[g].active)
           => event = IF gws'[g].active = NoEndpoint
                      THEN [kind |-> "lost", node |-> gws[g].active.node]
                      ELSE [kind |-> "elected", node |-> gws'[g].active.node]]_gws
<1> DEFINE Announced(g) ==
         /\ gws[g] # Absent /\ gws'[g] # Absent
         /\ nodeOf(gws'[g].active) # nodeOf(gws[g].active)
         => event = IF gws'[g].active = NoEndpoint
                    THEN [kind |-> "lost", node |-> gws[g].active.node]
                    ELSE [kind |-> "elected", node |-> gws'[g].active.node]
<1>1. ASSUME IInv, [Next]_vars, NEW g \in Gateways PROVE Announced(g)
  <2>1. TypeOK /\ HeldElection
    BY <1>1 DEF IInv
  <2>2. CASE UNCHANGED gws
    BY <2>2
  <2>3. ASSUME NEW h \in Gateways, Atomic!UserWrites(h) PROVE Announced(g)
    BY <2>1, <2>3, UserKeepsStatus
  <2>4. CASE Served /\ g # cur
    BY <1>1, <2>4, ServedStatus
  <2>5. CASE Served /\ g = cur
    <3> DEFINE elected == electedFor(cur, gw, nodeList)
    <3>1. /\ pc = "collect" /\ remaining = {}
          /\ gws[g] = gw /\ gws'[g] = newStatus /\ gw \in Gateway
      BY <1>1, <2>5, ServedStatus DEF Served
    <3>2. gws'[g].active = activeEp /\ gws[g].active = gw.active
      BY <2>1, <3>1, ReadyToWrite
    <3>3. /\ event = recordEndpointEvent(gw.active, elected)
          /\ Atomic!Publishes(activeEp, gw.spec, elected)
      BY <2>1, <3>1 DEF HeldElection
    <3>4. elected \in Endpoint \union {NoEndpoint}
      BY <3>1, ElectedType
    <3>5. /\ activeEp = NoEndpoint <=> elected = NoEndpoint
          /\ activeEp # NoEndpoint => activeEp.node = elected.node
      BY <3>3, <3>4, PublishedEndpoint
    <3> HIDE DEF elected
    <3>6. SUFFICES ASSUME nodeOf(activeEp) # nodeOf(gw.active)
                   PROVE  event = IF activeEp = NoEndpoint
                            THEN [kind |-> "lost", node |-> gw.active.node]
                            ELSE [kind |-> "elected", node |-> activeEp.node]
      BY <3>2
    <3>7. CASE activeEp = NoEndpoint
      BY <3>3, <3>5, <3>6, <3>7 DEF recordEndpointEvent, nodeOf
    <3>8. CASE activeEp # NoEndpoint
      <4>1. elected # NoEndpoint /\ elected # gw.active
        BY <3>5, <3>6, <3>8 DEF nodeOf
      <4> QED
        BY <3>3, <3>5, <3>8, <4>1 DEF recordEndpointEvent
    <3> QED
      BY <3>7, <3>8
  <2> QED
    BY <1>1, <2>2, <2>3, <2>4, <2>5, StepsOfGws
<1> QED
  BY <1>1

\* Every change of the active node is the one told by the event recorded.
THEOREM SwitchesAnnounced == Spec => SwitchAnnounced
BY AnnouncedNext, IInvHolds, PTL DEF Spec, SwitchAnnounced

LEMMA KeptNext ==
    IInv /\ [Next]_vars =>
      [\A g \in Gateways :
           /\ gws[g] # Absent /\ gws'[g] # Absent
           /\ ~gws[g].spec.lb /\ OneEndpointPerNode(gws[g].spec)
           /\ gws[g].active \in Range(gws[g].spec.endpoints)
           /\ SeenHealthy(gws[g].active.node, g)
           => gws'[g].active = gws[g].active]_gws
<1> DEFINE Kept(g) ==
         /\ gws[g] # Absent /\ gws'[g] # Absent
         /\ ~gws[g].spec.lb /\ OneEndpointPerNode(gws[g].spec)
         /\ gws[g].active \in Range(gws[g].spec.endpoints)
         /\ SeenHealthy(gws[g].active.node, g)
         => gws'[g].active = gws[g].active
<1>1. ASSUME IInv, [Next]_vars, NEW g \in Gateways PROVE Kept(g)
  <2>1. TypeOK /\ HeldElection
    BY <1>1 DEF IInv
  <2>2. CASE UNCHANGED gws
    BY <2>2
  <2>3. ASSUME NEW h \in Gateways, Atomic!UserWrites(h) PROVE Kept(g)
    BY <2>1, <2>3, UserKeepsStatus
  <2>4. CASE Served /\ g # cur
    BY <1>1, <2>4, ServedStatus
  <2>5. CASE Served /\ g = cur
    <3>1. /\ pc = "collect" /\ remaining = {}
          /\ gws[g] = gw /\ gws'[g] = newStatus /\ gw \in Gateway
      BY <1>1, <2>5, ServedStatus DEF Served
    <3>2. SUFFICES ASSUME ~gw.spec.lb, OneEndpointPerNode(gw.spec),
                          gw.active \in Range(gw.spec.endpoints),
                          SeenHealthy(gw.active.node, g)
                   PROVE  activeEp = gw.active
      BY <2>1, <3>1, ReadyToWrite
    <3> DEFINE ready == readyIn(nodeList, managed(cur, nodeList))
    <3>3. /\ gw.spec.endpoints \in Seq(Endpoint)
          /\ gw.active \in Endpoint \union {NoEndpoint}
      BY <3>1, SpecType DEF Gateway
    <3>4. gw.active \in Endpoint /\ gw.active # NoEndpoint
      BY <3>2, <3>3, NoEndpointAssumption DEF Range
    <3>5. nodeList[gw.active.node] \in views(gw.active.node)
      BY <3>1 DEF views
    <3>6. gw.active.node \in ready
      BY <2>5, <3>2, <3>4, <3>5 DEF SeenHealthy, readyIn, managed, Endpoint
    <3>7. checkActive(gw.active, ready, gw.spec.endpoints)
      BY <3>2, <3>4, <3>6 DEF checkActive
    <3>8. electedFor(cur, gw, nodeList) = gw.active
      BY <3>2, <3>3, <3>7, ElectionSticky DEF electedFor, OneEndpointPerNode
    <3>9. Atomic!Publishes(activeEp, gw.spec, electedFor(cur, gw, nodeList))
      BY <2>1, <3>1 DEF HeldElection
    <3> QED
      BY <3>2, <3>8, <3>9 DEF Atomic!Publishes
  <2> QED
    BY <1>1, <2>2, <2>3, <2>4, <2>5, StepsOfGws
<1> QED
  BY <1>1

\* The active endpoint of a gateway that is not behind the load balancer is
\* kept while every view shows it competent.
THEOREM NoFailoverWithoutCause == Spec => NoSpuriousFailover
BY KeptNext, IInvHolds, PTL DEF Spec, NoSpuriousFailover

\* While it is left alone, all that happens to the objects is Reconcile's write.
LEMMA LeftAlone ==
    ASSUME IInv, [Next]_vars, disturbances' = disturbances
    PROVE  UNCHANGED nodes /\ (UNCHANGED gws \/ Served)
<1> USE DEF externals, locals, gwInformer, nodeInformer, api
<1>1. ~Disturb
  BY DEF IInv, TypeOK, Disturb
<1>2. ~Environment /\ ~Faults
  BY <1>1 DEF Environment, CreateGateway, UpdateGateway, DeleteGateway,
              UserWritesGateway, ChangeNode, ChangeService, ChangeBlocks,
              Faults, LoseReply, FailReconcile, Crash
<1>3. CASE Informers
  BY <1>3 DEF Informers, DeliverGateway, RelistGateways, DeliverNode,
              RelistNodes, Resync
<1>4. ASSUME NEW g \in Gateways, StartReconcile(g) PROVE UNCHANGED <<nodes, gws>>
  BY <1>4 DEF StartReconcile
<1>5. CASE UpdateStatus
  BY <1>5 DEF Served, UpdateStatus, ServeUpdate, WriteGateway
<1>6. CASE Proceed /\ ~UpdateStatus
  BY <1>6 DEF Proceed, ListNodes, WaitForService, UseServiceIP,
              PanicOnNilEndpoint, Restart, CollectNode
<1>7. CASE UNCHANGED vars
  BY <1>7 DEF vars
<1> QED
  BY <1>2, <1>3, <1>4, <1>5, <1>6, <1>7 DEF Next

LEMMA StaysNext ==
    IInv /\ [Next]_vars =>
      [\A g \in Gateways :
         /\ gws[g] # Absent /\ Converged(g)
         /\ g \notin queue /\ gwWatch[g] = << >>
         /\ nodeWatch = noVersions(Nodes)
         /\ disturbances' = disturbances
         => Converged(g)']_vars
<1> SUFFICES ASSUME IInv, [Next]_vars, disturbances' = disturbances,
                    nodeWatch = noVersions(Nodes),
                    NEW g \in Gateways, gws[g] # Absent, StatusFits(g, nodes),
                    g \notin queue, gwWatch[g] = << >>
             PROVE  StatusFits(g, nodes)'
  BY DEF Converged
<1>1. UNCHANGED nodes
  BY LeftAlone
<1>2. CASE UNCHANGED gws[g]
  BY <1>1, <1>2 DEF StatusFits, Competent
<1>3. CASE Served /\ g = cur
  <2>1. /\ TypeOK /\ HeldElection /\ CachesTrail /\ WakeupPending
        /\ pc = "collect" /\ remaining = {} /\ fresh
    BY <1>3 DEF IInv, Served
  <2>2. gws[g] = gw /\ gws'[g] = newStatus
    BY <1>3, ServedStatus
  <2>3. gwCache[g] # Absent /\ nodeCache = nodes
    <3>1. gwCache[g] = gws[g] /\ \A n \in Nodes : nodeCache[n] = nodes[n]
      BY <2>1 DEF CachesTrail, Trails, noVersions
    <3> QED
      BY <2>1, <3>1 DEF TypeOK
  <2>4. Agree(g, nodeList, nodes)
    BY <1>3, <2>1, <2>3 DEF WakeupPending
  <2>5. \A i, j \in DOMAIN infos : infos[i].node = infos[j].node => i = j
    BY <2>1, ReadyToWrite DEF Atomic!Lists, Atomic!ListsSome
  <2>6. /\ namesIn(infos) = managed(g, nodes)
        /\ activeEp = NoEndpoint =>
             \A e \in Range(gw.spec.endpoints) :
                e.node \notin readyIn(nodes, managed(g, nodes))
        /\ activeEp # NoEndpoint =>
             \E e \in Range(gw.spec.endpoints) :
                /\ e.node = activeEp.node
                /\ e.node \in readyIn(nodes, managed(g, nodes))
                /\ gw.spec.lb \/ e = activeEp
    BY <1>3, <2>1, <2>4, ReadyToWrite DEF Agree
  <2>7. /\ gws'[g].spec = gw.spec /\ gws'[g].active = activeEp
        /\ gws'[g].nodes = infos
    BY <2>1, <2>2, ReadyToWrite
  <2> QED
    BY <1>1, <2>5, <2>6, <2>7 DEF StatusFits, Competent
<1>4. CASE Served /\ g # cur
  BY <1>2, <1>4, ServedStatus
<1> QED
  BY <1>2, <1>3, <1>4, LeftAlone

\* A status that is right for the nodes is only ever replaced by another that is,
\* unless something happens outside or is still to be told.
THEOREM RightStatusStays == Spec => StaysConverged
BY StaysNext, IInvHolds, PTL DEF Spec, StaysConverged

-----------------------------------------------------------------------------
(* Refinement.                                                             *)

LEMMA ServedRefines ==
    ASSUME IInv, Served
    PROVE  Atomic!Reconcile(cur)
<1>1. /\ TypeOK /\ HeldElection /\ pc = "collect" /\ remaining = {}
      /\ gws \in [Gateways -> Version(Gateway)]
  BY DEF IInv, Served, TypeOK
<1>2. /\ cur \in Gateways /\ gws[cur] = gw /\ gw \in Gateway /\ gw # Absent
      /\ gws' = [gws EXCEPT ![cur] = newStatus]
      /\ gws'[cur] = newStatus /\ newStatus # Absent
  BY ServedStatus DEF Served
<1>3. newStatus.active = activeEp /\ newStatus.nodes = infos
  BY <1>1, ReadyToWrite
<1>4. newStatus = [[gw EXCEPT !.active = newStatus.active]
                       EXCEPT !.nodes = newStatus.nodes]
  BY <1>2, <1>3 DEF newStatus, Gateway
<1>5. gws' = [gws EXCEPT ![cur].active = gws'[cur].active,
                         ![cur].nodes = gws'[cur].nodes]
  BY <1>1, <1>2, <1>4
<1>6. nodeList \in Atomic!Views
  BY <1>1 DEF TypeOK, Atomic!Views, Version, Atomic!Version
<1>7. Atomic!Lists(gws'[cur].nodes, cur, nodeList)
  BY <1>1, <1>2, <1>3, ReadyToWrite
<1>8. Atomic!Publishes(gws'[cur].active, gws[cur].spec,
                       Atomic!electedFor(cur, gws[cur], nodeList))
  BY <1>1, <1>2, <1>3, SameOperators DEF HeldElection
<1> QED
  BY <1>2, <1>5, <1>6, <1>7, <1>8 DEF Atomic!Reconcile

LEMMA AtomicInit == Init => Atomic!Init
BY DEF Init, Atomic!Init, NewGateway, Atomic!NewGateway

LEMMA AtomicNext == IInv /\ [Next]_vars => [Atomic!Next]_gws
<1> SUFFICES ASSUME IInv, [Next]_vars PROVE [Atomic!Next]_gws
  OBVIOUS
<1>1. CASE Served
  <2>1. cur \in Gateways
    BY <1>1, ServedStatus
  <2> QED
    BY <1>1, <2>1, ServedRefines DEF Atomic!Next
<1>2. ASSUME NEW g \in Gateways, Atomic!UserWrites(g)
      PROVE  Atomic!Next
  BY <1>2 DEF Atomic!Next
<1> QED
  BY <1>1, <1>2, StepsOfGws

\* Every behaviour of the controller is, for the Gateway objects, one of
\* AtomicGateway.
THEOREM RefinesAtomicGateway == Spec => ImplementsAtomicGateway
BY AtomicInit, AtomicNext, IInvHolds, PTL
   DEF Spec, ImplementsAtomicGateway, Atomic!Spec
=============================================================================
