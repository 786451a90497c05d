------------------------------ MODULE Resources ------------------------------
(***************************************************************************)
(* The records that the Kubernetes sources make of their resources         *)
(* (source/ingress.go, gateway.go, istio_gateway.go,                       *)
(* istio_serviceentry.go, node.go, pod.go, k8s.go).                        *)
(*                                                                         *)
(* Every operator takes the resources as a lister or a map returns them:   *)
(* in a sequence whose order is arbitrary, without those the label         *)
(* selector of the source leaves out.  Where the code walks a map, the     *)
(* operator returns the set of the results all orders lead to.             *)
(*                                                                         *)
(* A resource is a record with a number of its own, "resource", that       *)
(* stands for its kind, namespace and name, and its annotations "ann".     *)
(* Its "templated" are the names the FQDN template makes of it, <<>> if    *)
(* executing the template fails.  The entry of a load balancer has an ip   *)
(* and a hostname, 0 for one that is empty.                                *)
(***************************************************************************)
EXTENDS Sources

CONSTANT Options    \* the configuration of the sources

ASSUME ResourcesAssumption ==
  Options \in [template : BOOLEAN, combineFQDN : BOOLEAN, ignoreHostname : BOOLEAN,
               ignoreRules : BOOLEAN, ignoreTLS : BOOLEAN, classes : SUBSET STRING]

(***************************************************************************)
(* The resources.                                                          *)
(***************************************************************************)
Balancer == [ip : Target \cup {0}, hostname : Target \cup {0}]

IngressResource ==
  [resource : Nat, ns : STRING, name : STRING, ann : Annotations, class : STRING,
   rules : Seq(Name), tls : Seq(Name), status : Seq(Balancer), templated : Seq(Name)]

GatewayResource ==
  [resource : Nat, listeners : Seq(Name), addresses : Seq(Target), assigned : Seq(Target)]

IstioGatewayResource ==
  [resource : Nat, ns : STRING, name : STRING, ann : Annotations, templated : Seq(Name),
   selector : SUBSET STRING, hosts : Seq([ns : STRING, name : Name])]

ServiceEntryResource ==
  [resource : Nat, location : STRING, hosts : Seq(Name), addresses : Seq(Target),
   ann : Annotations]

NodeResource ==
  [resource : Nat, name : STRING, dnsName : Name, ann : Annotations,
   addresses : Seq([type : STRING, address : Target])]

\* The address of a pod; 0 if it has none.
OwnAddress == {t \in Target : t = 0 \/ SuitableType(t) \in {"A", "AAAA"}}

PodResource ==
  [resource : Nat, name : STRING, ns : STRING, labels : SUBSET STRING, hostNetwork : BOOLEAN,
   node : STRING, podIP : OwnAddress, hostIP : Target, hostname : STRING, phase : STRING,
   ready : STRING, deleting : BOOLEAN, ann : Annotations]

EmptyName == <<>>
Star == <<"*">>

\* The sequences of a map's values that its walk may return.
Walks(S) == SetToSeqs(S)

(***************************************************************************)
(* Ingresses (endpointsFromIngress and its callers).                       *)
(***************************************************************************)
\* An IP address and a host name of one entry are both taken.
BothOf(lb) == Only(<<lb.ip, lb.hostname>>, {lb.ip, lb.hostname} \ {0})
TargetsFromIngressStatus(status) == FlattenSeq([i \in DOMAIN status |-> BothOf(status[i])])

IngressTargets(ing) ==
  IF ing.ann.target # <<>> THEN ing.ann.target ELSE TargetsFromIngressStatus(ing.status)

IngressRecords(ing, hosts) ==
  EndpointsForHosts(hosts, IngressTargets(ing), ing.ann, ing.resource)

DefinedHosts(ing) ==
  LET hosts == (IF Options.ignoreRules THEN <<>> ELSE ing.rules)
                 \o (IF Options.ignoreTLS THEN <<>> ELSE ing.tls)
  IN  Only(hosts, ToSet(hosts) \ {EmptyName})

AnnotatedHosts(ing) == IF Options.ignoreHostname THEN <<>> ELSE ing.ann.hostname

\* An annotation that names no known source of host names leaves none.
EndpointsFromIngress(ing) ==
  IngressRecords(ing, CASE ing.ann.hostnameSource = "" -> DefinedHosts(ing) \o AnnotatedHosts(ing)
                        [] ing.ann.hostnameSource = "defined-hosts-only" -> DefinedHosts(ing)
                        [] ing.ann.hostnameSource = "annotation-only" -> AnnotatedHosts(ing)
                        [] OTHER -> <<>>)

UsesTemplate(found) == Options.template /\ (Options.combineFQDN \/ found = <<>>)

\* The label goes to every record of the ingress.
SetDualstackLabel(ing, eps) ==
  [i \in DOMAIN eps |-> IF ing.ann.dualstack
                        THEN [eps[i] EXCEPT !.labels.dualstack = TRUE] ELSE eps[i]]

IngressEndpoints(ing) ==
  LET own == EndpointsFromIngress(ing)
  IN  IF ~UsesTemplate(own) THEN Ok(SetDualstackLabel(ing, own))
      ELSE IF ing.templated = <<>> THEN Failed
      ELSE Ok(SetDualstackLabel(ing, own \o IngressRecords(ing, ing.templated)))

\* The class in the spec goes before the one in the annotations.
FilterByIngressClass(ings) ==
  IF Options.classes = {} THEN ings
  ELSE Only(ings, {ing \in ToSet(ings) :
         (IF ing.class # "" THEN ing.class ELSE ing.ann.class) \in Options.classes})

Sort(result) == [result EXCEPT !.eps = SortAll(@)]

IngressSource(ings) ==
  LET chosen == Only(FilterByIngressClass(ings), {ing \in ToSet(ings) : Responsible(ing.ann)})
  IN  Sort(Joined([i \in DOMAIN chosen |-> IngressEndpoints(chosen[i])]))

(***************************************************************************)
(* Gateways of the Gateway API (resolveGateway).                           *)
(***************************************************************************)
UniqueTargets(targets) == SortedBy(Deduped(targets), Deduped(targets))

\* A gateway that asks for addresses has those, any other one those it got.
GatewayAddresses(gw) == IF gw.addresses # <<>> THEN gw.addresses ELSE gw.assigned

\* A listener without a host name makes no record.
ResolveGateway(gw) == ToSet(gw.listeners) \ {EmptyName}

GatewayEndpoints(gw) ==
  {FlattenSeq([i \in DOMAIN hosts |->
     EndpointsForHostname(hosts[i], UniqueTargets(GatewayAddresses(gw)), 0, 0, "", gw.resource)]) :
   hosts \in Walks(ResolveGateway(gw))}

GatewaySource(gws) ==
  LET upTo[n \in 0 .. Len(gws)] ==
        IF n = 0 THEN {<<>>}
        ELSE {a \o b : a \in upTo[n - 1], b \in GatewayEndpoints(gws[n])}
  IN  {Ok(eps) : eps \in upTo[Len(gws)]}

(***************************************************************************)
(* Gateways of Istio, with the services that implement them and the        *)
(* ingresses they may take their addresses from.                           *)
(***************************************************************************)
\* A host may have its namespace in front, which is cut off; a gateway may serve
\* every host.
HostNamesFromGateway(gw) ==
  LET named == Only(gw.hosts, {h \in ToSet(gw.hosts) :
        h # [ns |-> "", name |-> EmptyName] /\ h.name # Star})
  IN  [i \in DOMAIN named |-> named[i].name]
        \o (IF Options.ignoreHostname THEN <<>> ELSE gw.ann.hostname)

\* Of an entry of a load balancer the IP address goes before the host name.
OneOf(lb) == IF lb.ip # 0 THEN <<lb.ip>> ELSE IF lb.hostname # 0 THEN <<lb.hostname>> ELSE <<>>
TargetsOfBalancers(status) == FlattenSeq([i \in DOMAIN status |-> OneOf(status[i])])

\* An empty selector selects every service.
GatewaySelectorMatchesServiceSelector(gwSelector, svcSelector) == gwSelector \subseteq svcSelector

ServiceTargets(svc) ==
  IF svc.externalIPs # <<>> THEN svc.externalIPs ELSE TargetsOfBalancers(svc.status)

\* The annotation, split at its slashes, names an ingress of another namespace or,
\* with none or an empty one in front, of the gateway's.
ParseIngress(parts, ns) ==
  IF Len(parts) = 1 THEN <<ns, parts[1]>>
  ELSE IF Len(parts) = 2 /\ parts[1] = "" THEN <<ns, parts[2]>> ELSE parts

\* Fails if there are more slashes or there is no such ingress.
TargetsFromIngress(gw, ings) ==
  LET named == {ing \in ings : <<ing.ns, ing.name>> = ParseIngress(gw.ann.ingress, gw.ns)}
  IN  IF named = {} THEN Failed
      ELSE Ok(TargetsOfBalancers((CHOOSE ing \in named : TRUE).status))

\* Its eps are targets.
TargetsFromGateway(gw, svcs, ings) ==
  LET matching == Only(svcs, {s \in ToSet(svcs) :
        GatewaySelectorMatchesServiceSelector(gw.selector, s.selector)})
  IN  IF gw.ann.target # <<>> THEN Ok(gw.ann.target)
      ELSE IF gw.ann.ingress # <<>> THEN TargetsFromIngress(gw, ings)
      ELSE Ok(FlattenSeq([i \in DOMAIN matching |-> ServiceTargets(matching[i])]))

IstioHosts(gw) ==
  IF UsesTemplate(HostNamesFromGateway(gw)) THEN HostNamesFromGateway(gw) \o gw.templated
  ELSE HostNamesFromGateway(gw)

IstioGatewayEndpoints(gw, svcs, ings) ==
  LET targets == TargetsFromGateway(gw, svcs, ings)
  IN  IF UsesTemplate(HostNamesFromGateway(gw)) /\ gw.templated = <<>> THEN Failed
      ELSE IF IstioHosts(gw) = <<>> THEN Ok(<<>>)
      ELSE IF targets.state # "ok" THEN Failed
      ELSE Ok(EndpointsForHosts(IstioHosts(gw), targets.eps, gw.ann, gw.resource))

IstioGatewaySource(gws, svcs, ings) ==
  LET chosen == Only(gws, {gw \in ToSet(gws) : Responsible(gw.ann)})
  IN  Sort(Joined([i \in DOMAIN chosen |-> IstioGatewayEndpoints(chosen[i], svcs, ings)]))

(***************************************************************************)
(* Service entries: the external ones first, then the internal ones.       *)
(***************************************************************************)
\* dnsRecordsFromServiceEntry; the VIP for HTTP that an external one may get is
\* not configured.
DNSRecordsFromServiceEntry(se) ==
  EndpointsForHosts(Only(se.hosts, ToSet(se.hosts) \ {EmptyName, Star}), se.addresses,
                    [NoAnnotations EXCEPT !.ttl = se.ann.ttl], se.resource)

Located(ses, location) == Only(ses, {se \in ToSet(ses) : se.location = location})

ServiceEntrySource(external, internal) ==
  LET ses == Located(external, "MESH_EXTERNAL") \o Located(internal, "MESH_INTERNAL")
  IN  Ok(SortAll(FlattenSeq([i \in DOMAIN ses |-> DNSRecordsFromServiceEntry(ses[i])])))

(***************************************************************************)
(* Nodes and pods: sources that collect targets in a map by name and type. *)
(***************************************************************************)
\* addToEndpointMap for all pairs of a name and a target, in their order: one
\* entry for each name and type.
Gathered(pairs) ==
  LET keys == Deduped([i \in DOMAIN pairs |-> <<pairs[i].name, pairs[i].type>>])
      Named(k) == Only(pairs, {p \in ToSet(pairs) : p.name = k[1] /\ p.type = k[2]})
  IN  [j \in DOMAIN keys |->
         [name |-> keys[j][1], type |-> keys[j][2], ttl |-> Named(keys[j])[1].ttl,
          targets |-> [i \in DOMAIN Named(keys[j]) |-> Named(keys[j])[i].target]]]

\* The entries in the order of a walk over the map.
Collected(pairs) == Walks(ToSet(Gathered(pairs)))

Pairs(name, targets, ttl) ==
  [i \in DOMAIN targets |->
     [name |-> name, type |-> SuitableType(targets[i]), target |-> targets[i], ttl |-> ttl]]

AddressesOf(node, types) ==
  LET chosen == Only(node.addresses, {a \in ToSet(node.addresses) : a.type \in types})
  IN  [i \in DOMAIN chosen |-> chosen[i].address]

\* IPv6 addresses count as internal ones although they serve the outside too.
IPv6Addresses(node) ==
  LET internal == AddressesOf(node, {"InternalIP"})
  IN  Only(internal, {t \in ToSet(internal) : SuitableType(t) = "AAAA"})

NodeAddresses(node) ==
  IF AddressesOf(node, {"ExternalIP"}) # <<>>
  THEN AddressesOf(node, {"ExternalIP"}) \o IPv6Addresses(node)
  ELSE AddressesOf(node, {"InternalIP"})

\* One node without addresses fails the listing.  The name of a node, with the
\* suffix of the source, may be over-long here.
NodeSource(nodes) ==
  IF \E i \in DOMAIN nodes : NodeAddresses(nodes[i]) = <<>> THEN {Failed}
  ELSE {Ok([i \in DOMAIN walk |->
              [dnsName |-> walk[i].name, recordType |-> walk[i].type, setIdentifier |-> "",
               targets |-> walk[i].targets, ttl |-> walk[i].ttl, providerSpecific |-> 0,
               labels |-> NoLabels]]) :
        walk \in Collected(FlattenSeq([i \in DOMAIN nodes |->
                   Pairs(nodes[i].dnsName, NodeAddresses(nodes[i]),
                         GetTTLFromAnnotations(nodes[i].ann))]))}

NodeNamed(name, nodes) == {n \in nodes : n.name = name}

\* The addresses a host name of a pod gets: those of its node that are of use
\* from outside, in the order of the node's status.
NodeTargets(pod, nodes) ==
  LET node == CHOOSE n \in NodeNamed(pod.node, nodes) : TRUE
      chosen == Only(node.addresses, {a \in ToSet(node.addresses) :
        a.type = "ExternalIP" \/ (a.type = "InternalIP" /\ SuitableType(a.address) = "AAAA")})
  IN  [i \in DOMAIN chosen |-> chosen[i].address]

TargetsOr(pod, others) == IF pod.ann.target # <<>> THEN pod.ann.target ELSE others

PodPairs(pod, nodes) ==
  LET hostnames == pod.ann.hostname
      internal == pod.ann.internalHostname
  IN  FlattenSeq([i \in DOMAIN internal |-> Pairs(internal[i], TargetsOr(pod, <<pod.podIP>>), 0)])
        \o FlattenSeq([i \in DOMAIN hostnames |->
             Pairs(hostnames[i], TargetsOr(pod, NodeTargets(pod, nodes)), 0)])

\* The node of the pod is looked up, and used without a look at the error.
NeedsNode(pod) == pod.ann.hostname # <<>> /\ pod.ann.target = <<>>

NewEndpoints(walk) ==
  [i \in DOMAIN walk |-> NewEndpoint(walk[i].name, walk[i].type, walk[i].targets)]

PodSource(pods, nodes) ==
  LET chosen == Only(pods, {p \in ToSet(pods) : p.hostNetwork})
  IN  IF \E i \in DOMAIN chosen : NeedsNode(chosen[i]) /\ NodeNamed(chosen[i].node, nodes) = {}
      THEN {Panics}
      ELSE {Ok(NewEndpoints(walk)) :
            walk \in Collected(FlattenSeq([i \in DOMAIN chosen |-> PodPairs(chosen[i], nodes)]))}

\* Every pod with an address of its own gets a record of type A.
K8SSource(pods) ==
  LET chosen == Only(pods, {p \in ToSet(pods) : ~p.hostNetwork /\ p.podIP # 0})
  IN  {Ok(NewEndpoints(walk)) :
       walk \in Collected([i \in DOMAIN chosen |->
         [name |-> <<chosen[i].name, chosen[i].ns, "p">>, type |-> "A",
          target |-> chosen[i].podIP, ttl |-> 0]])}
=============================================================================
