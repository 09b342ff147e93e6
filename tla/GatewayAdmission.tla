-------------------------- MODULE GatewayAdmission --------------------------
(***************************************************************************)
(* The admission webhooks of the Gateway resource (gateway_webhook.go):    *)
(* what users ask for, and the specs that get into the API server and so   *)
(* to the controllers.                                                     *)
(***************************************************************************)
EXTENDS GatewayObjects

CONSTANTS
    Requests,   \* the Gateways that users send
    NoName,     \* NodeName = ""
    BadIP       \* a PublicIP that is not an IP address

ASSUME RequestValuesAssumption ==
    NoName \notin Nodes /\ BadIP \notin PublicIPs \union {NoIP}

RequestEndpoint == [nodeName : Nodes \union {NoName}, underNAT : BOOLEAN,
                    publicIP : PublicIPs \union {NoIP, BadIP}]
Request == [name : Gateways, selector : Gateways \union {NoGateway},
            endpoints : Seq(RequestEndpoint), lb : BOOLEAN]

ASSUME RequestsAssumption == Requests \subseteq Request

\* Whatever selector the user gave, the gateway has the nodes with its label.
Default(g) == [g EXCEPT !.selector = g.name]

validateIP(ip) == ip \in PublicIPs

\* The fields validateGateway complains of.
errList(g) ==
    LET indices(wrong(_)) == {i \in DOMAIN g.endpoints : wrong(g.endpoints[i])}
        mixed(ep) == ep.underNAT # g.endpoints[1].underNAT
        exposed(ep) == ep.publicIP # NoIP /\ (g.lb \/ ~validateIP(ep.publicIP))
        unnamed(ep) == ep.nodeName = NoName
    IN  (indices(mixed) \X {"underNAT"}) \union (indices(exposed) \X {"publicIP"})
          \union (indices(unnamed) \X {"nodeName"})

\* Without endpoints the handler panics, which the API server takes for a
\* refusal: the webhook's failurePolicy is fail.
validateGateway(g) == g.endpoints # << >> /\ errList(g) = {}

\* What the controllers see of a Gateway that was let in.
specOf(g) ==
    [endpoints |-> [i \in DOMAIN g.endpoints |->
                      [node |-> g.endpoints[i].nodeName,
                       ip |-> g.endpoints[i].publicIP]],
     lb |-> g.lb]

\* ValidateCreate and ValidateUpdate come after Default.
AdmittedSpecs ==
    {specOf(g) : g \in {h \in {Default(r) : r \in Requests} : validateGateway(h)}}
=============================================================================
