--------------------------- MODULE AtomicGateway ---------------------------
(***************************************************************************)
(* What the Gateway controller promises about the Gateway objects: every   *)
(* change is either a user's, or one atomic reconciliation of the gateway  *)
(* as it is at that moment, against some view of the nodes.  No cache, no  *)
(* queue, no copy of the gateway and no crash shows through.               *)
(***************************************************************************)
EXTENDS GatewayObjects

VARIABLE gws

Views == [Nodes -> Version(NodeObjs)]

Init == gws \in [Gateways -> {NewGateway(s) : s \in Specs} \union {Absent}]

UserWrites(g) ==
    \/ /\ gws[g] = Absent
       /\ \E s \in Specs : gws' = [gws EXCEPT ![g] = NewGateway(s)]
    \/ /\ gws[g] # Absent
       /\ \E s \in Specs : gws' = [gws EXCEPT ![g].spec = s]
    \/ gws' = [gws EXCEPT ![g] = Absent]

\* list has nodes of the gateway, each once and as the view shows it.
ListsSome(list, g, view) ==
    /\ namesIn(list) \subseteq managed(g, view)
    /\ \A i, j \in DOMAIN list : list[i].node = list[j].node => i = j
    /\ \A i \in DOMAIN list :
          /\ list[i].privateIP = view[list[i].node].addr
          /\ view[list[i].node].calico
               \/ list[i].subnets = {view[list[i].node].podCIDR}

\* ... and all of them.
Lists(list, g, view) ==
    ListsSome(list, g, view) /\ managed(g, view) \subseteq namesIn(list)

\* ep is what a gateway with this spec publishes of the elected endpoint.
Publishes(ep, spec, elected) ==
    IF spec.lb
    THEN elected # NoEndpoint /\ \E ip \in PublicIPs \union {NoIP} :
                                     ep = [elected EXCEPT !.ip = ip]
    ELSE ep = elected

Reconcile(g) ==
    /\ gws[g] # Absent /\ gws'[g] # Absent
    /\ gws' = [gws EXCEPT ![g].active = gws'[g].active,
                          ![g].nodes = gws'[g].nodes]
    /\ \E view \in Views :
          /\ Lists(gws'[g].nodes, g, view)
          /\ Publishes(gws'[g].active, gws[g].spec,
                       electedFor(g, gws[g], view))

Next == \E g \in Gateways : UserWrites(g) \/ Reconcile(g)

Spec == Init /\ [][Next]_gws
=============================================================================
