---------------------- MODULE GatewayAdmission_proofs ----------------------
(***************************************************************************)
(* What the admission webhooks let in is what the Gateway controller and   *)
(* the Service controller are proved for.                                  *)
(***************************************************************************)
EXTENDS GatewayAdmission, TLAPS

\* What the three complaints of validateGateway rule out.
LEMMA NoComplaint ==
    ASSUME NEW g \in Request, validateGateway(g),
           NEW i \in DOMAIN g.endpoints
    PROVE  /\ g.endpoints[i].nodeName # NoName
           /\ g.endpoints[i].publicIP # NoIP =>
                ~g.lb /\ g.endpoints[i].publicIP \in PublicIPs
<1>1. /\ <<i, "publicIP">> \notin errList(g)
      /\ <<i, "nodeName">> \notin errList(g)
  BY DEF validateGateway
<1> QED
  BY <1>1 DEF errList, validateIP

LEMMA SpecWellFormed ==
    ASSUME NEW g \in Request, validateGateway(g)
    PROVE  /\ specOf(g) \in GatewaySpec
           /\ specOf(g).endpoints # << >>
           /\ specOf(g).lb =>
                \A e \in Range(specOf(g).endpoints) : e.ip = NoIP
<1> DEFINE eps == specOf(g).endpoints
<1>1. g.endpoints \in Seq(RequestEndpoint) /\ g.lb \in BOOLEAN
  BY DEF Request
<1>2. g.endpoints # << >>
  BY DEF validateGateway
<1>3. /\ DOMAIN eps = DOMAIN g.endpoints
      /\ \A i \in DOMAIN g.endpoints :
           eps[i] = [node |-> g.endpoints[i].nodeName,
                     ip |-> g.endpoints[i].publicIP]
  BY DEF specOf
<1>4. \A i \in DOMAIN g.endpoints :
        /\ g.endpoints[i].nodeName \in Nodes
        /\ g.endpoints[i].publicIP \in PublicIPs \union {NoIP}
  <2> SUFFICES ASSUME NEW i \in DOMAIN g.endpoints
               PROVE  /\ g.endpoints[i].nodeName \in Nodes
                      /\ g.endpoints[i].publicIP \in PublicIPs \union {NoIP}
    OBVIOUS
  <2>1. g.endpoints[i] \in RequestEndpoint
    BY <1>1
  <2> QED
    BY <2>1, NoComplaint DEF RequestEndpoint
<1>5. ASSUME NEW i \in DOMAIN g.endpoints
      PROVE  eps[i] \in Endpoint
  <2> DEFINE ep == [node |-> g.endpoints[i].nodeName, ip |-> g.endpoints[i].publicIP]
  <2>1. ep \in Endpoint
    BY <1>4 DEF Endpoint
  <2>2. eps[i] = ep
    BY <1>3
  <2> HIDE DEF eps, ep
  <2> QED
    BY <2>1, <2>2
<1>6. eps \in Seq(Endpoint)
  <2>1. DOMAIN g.endpoints = 1..Len(g.endpoints) /\ Len(g.endpoints) \in Nat
    BY <1>1
  <2>2. eps = [i \in 1..Len(g.endpoints) |->
                 [node |-> g.endpoints[i].nodeName,
                  ip |-> g.endpoints[i].publicIP]]
    BY <2>1 DEF specOf
  <2> QED
    BY <1>3, <1>5, <2>1, <2>2
<1>7. specOf(g) \in GatewaySpec
  BY <1>1, <1>6 DEF specOf, GatewaySpec
<1>8. eps # << >>
  BY <1>1, <1>2, <1>3
<1>9. ASSUME specOf(g).lb, NEW e \in Range(eps)
      PROVE  e.ip = NoIP
  <2>1. PICK i \in DOMAIN eps : e = eps[i]
    BY <1>9 DEF Range
  <2>2. g.lb
    BY <1>9 DEF specOf
  <2>3. i \in DOMAIN g.endpoints
    BY <1>3, <2>1
  <2>4. e = [node |-> g.endpoints[i].nodeName, ip |-> g.endpoints[i].publicIP]
    <3> HIDE DEF eps
    <3> QED
      BY <1>3, <2>1, <2>3
  <2>5. e.ip = g.endpoints[i].publicIP
    BY <2>4
  <2> QED
    BY <2>2, <2>3, <2>5, NoComplaint
<1> QED
  BY <1>7, <1>8, <1>9

LEMMA DefaultType == \A r \in Request : Default(r) \in Request
BY DEF Default, Request

\* Every spec that gets through Default and validateGateway has endpoints, all
\* of them on named nodes with an IP address or none, and no publicIP behind
\* the load balancer: the assumption the controllers' proofs start from.
THEOREM AdmittedAreWellFormed == WellFormed(AdmittedSpecs)
<1> SUFFICES ASSUME NEW s \in AdmittedSpecs
             PROVE  /\ s \in GatewaySpec
                    /\ s.endpoints # << >>
                    /\ s.lb => \A e \in Range(s.endpoints) : e.ip = NoIP
  BY DEF WellFormed
<1>1. PICK r \in Requests : s = specOf(Default(r)) /\ validateGateway(Default(r))
  BY DEF AdmittedSpecs
<1>2. Default(r) \in Request
  BY DefaultType, RequestsAssumption
<1> QED
  BY <1>1, <1>2, SpecWellFormed
=============================================================================
