---------------------------- MODULE MeshServices -----------------------------
(***************************************************************************)
(* The records of the services of a cluster                                *)
(* (pkg/sources/dnsmesh/meshservice.go).                                   *)
(*                                                                         *)
(* "view" holds what the informers of the source know: view.service,       *)
(* view.endpoints, view.pod and view.node, each a sequence in the order in *)
(* which a lister returns it.  A service's clusterIP is NoIP if it is      *)
(* empty and Headless if it is "None"; the label of a pod and the selector *)
(* of a service are sets.  The program always asks for cluster IPs and     *)
(* sets no filter, so that the targets of load balancers and the filters   *)
(* by annotation and by type are out of reach.                             *)
(***************************************************************************)
EXTENDS Resources

NoIP == 0
Headless == -1

ServiceResource ==
  [resource : Nat, name : STRING, ns : STRING, ann : Annotations, type : STRING,
   clusterIP : Target \cup {NoIP, Headless}, externalTrafficPolicy : STRING,
   publishNotReady : BOOLEAN, selector : SUBSET STRING, externalIPs : Seq(Target),
   externalName : Target,
   ports : Seq([nodePort : Port \cup {0}, protocol : STRING]), status : Seq(Balancer)]

EndpointsResource ==
  [name : STRING, ns : STRING, ready : Seq([ip : Target, pod : STRING]),
   notReady : Seq([ip : Target, pod : STRING])]

\* The names of a service and of what belongs to it; a label that starts with an
\* underscore is two labels here, "_" and the rest.
Hostname(svc) == <<svc.name, svc.ns>>
SRVName(svc, protocol) ==
  <<"_", svc.name, "_", IF protocol = "" THEN "tcp" ELSE protocol>> \o Hostname(svc)

PodsOf(svc, view) ==
  Only(view.pod, {p \in ToSet(view.pod) : p.ns = svc.ns /\ svc.selector \subseteq p.labels})

Nodes(view) == ToSet(view.node)

(***************************************************************************)
(* Headless services: a record for the service, and one for each host name *)
(* a pod gives itself.                                                     *)
(***************************************************************************)
\* The addresses to publish; a service may ask for those that are not ready.
PublishedAddresses(svc, view) ==
  LET objects == Only(view.endpoints, {e \in ToSet(view.endpoints) :
                                         e.ns = svc.ns /\ e.name = svc.name})
  IN  IF objects = <<>> THEN <<>>
      ELSE IF svc.publishNotReady THEN objects[1].ready \o objects[1].notReady
      ELSE objects[1].ready

\* Addresses that are no pod's, or of a pod that is not in the cache, are skipped.
PodOf(svc, address, view) ==
  {p \in ToSet(PodsOf(svc, view)) : p.name = address.pod}

HeadlessNames(svc, pod) ==
  <<Hostname(svc)>> \o (IF pod.hostname = "" THEN <<>> ELSE <<<<pod.hostname>> \o Hostname(svc)>>)

\* The whole service gets nothing if the node of one of its pods is missing.
MissesNode(svc, pod, view) ==
  /\ pod.ann.target = <<>>
  /\ svc.ann.endpointsType = "NodeExternalIP"
  /\ NodeNamed(pod.node, Nodes(view)) = {}

HeadlessTargets(svc, pod, ip, view) ==
  IF pod.ann.target # <<>> THEN pod.ann.target
  ELSE CASE svc.ann.endpointsType = "NodeExternalIP" -> NodeTargets(pod, Nodes(view))
         [] svc.ann.endpointsType = "HostIP" -> <<pod.hostIP>>
         [] OTHER -> <<ip>>

\* The pairs of a name and a target that one address stands for.
AddressPairs(svc, pod, ip, view) ==
  LET names == HeadlessNames(svc, pod)
  IN  FlattenSeq([i \in DOMAIN names |-> Pairs(names[i], HeadlessTargets(svc, pod, ip, view), 0)])

ExtractHeadlessEndpoints(svc, view) ==
  LET published == PublishedAddresses(svc, view)
      addresses == Only(published, {a \in ToSet(published) : PodOf(svc, a, view) # {}})
      Pod(a) == CHOOSE p \in PodOf(svc, a, view) : TRUE
      pairs == FlattenSeq([i \in DOMAIN addresses |->
                 AddressPairs(svc, Pod(addresses[i]), addresses[i].ip, view)])
      walk == Gathered(pairs)
  IN  IF \E a \in ToSet(addresses) : MissesNode(svc, Pod(a), view) THEN <<>>
      ELSE NotNil([i \in DOMAIN walk |->
             NewEndpointWithTTL(walk[i].name, walk[i].type, GetTTLFromAnnotations(svc.ann),
                                Deduped(walk[i].targets))])

(***************************************************************************)
(* Services with a port on every node.                                     *)
(***************************************************************************)
\* A pod without a condition "Ready" is not ready.
IsPodStatusReady(pod) == pod.ready = "True"

\* The running pods that decide about a node: of the pods on one node, the first.
FirstOnTheirNodes(svc, view) ==
  LET running == Only(PodsOf(svc, view), {p \in ToSet(view.pod) :
        p.phase = "Running" /\ NodeNamed(p.node, Nodes(view)) # {}})
  IN  Picked(running, Firsts([i \in DOMAIN running |-> running[i].node]))

\* Stops at the first pod.
LocalPodsFirst(svc, view) ==
  LET firsts == FirstOnTheirNodes(svc, view) IN IF firsts = <<>> THEN <<>> ELSE <<firsts[1]>>

\* Nodes with a ready pod that stays; else those with a ready one; else all.
LocalPods(svc, view) ==
  LET firsts == FirstOnTheirNodes(svc, view)
      ready == Only(firsts, {p \in ToSet(firsts) : IsPodStatusReady(p)})
      staying == Only(ready, {p \in ToSet(ready) : ~p.deleting})
  IN  IF staying # <<>> THEN staying ELSE IF ready # <<>> THEN ready ELSE firsts

NodesOf(pods, view) ==
  [i \in DOMAIN pods |-> CHOOSE n \in NodeNamed(pods[i].node, Nodes(view)) : TRUE]

TargetNodes(svc, view) ==
  IF svc.externalTrafficPolicy = "Local" THEN NodesOf(LocalPods(svc, view), view) ELSE view.node

AddressesOfAll(nodes, types) == FlattenSeq([i \in DOMAIN nodes |-> AddressesOf(nodes[i], types)])

PublicAddresses(nodes) ==
  AddressesOfAll(nodes, {"ExternalIP"})
    \o FlattenSeq([i \in DOMAIN nodes |-> IPv6Addresses(nodes[i])])

\* Without a word on the access, internal addresses serve only for lack of others.
AccessibleAddresses(access, nodes) ==
  CASE access = "public" -> PublicAddresses(nodes)
    [] access = "private" -> AddressesOfAll(nodes, {"InternalIP"})
    [] OTHER -> IF AddressesOfAll(nodes, {"ExternalIP"}) # <<>> THEN PublicAddresses(nodes)
                ELSE AddressesOfAll(nodes, {"InternalIP"})

ExtractNodePortTargets(svc, view) == AccessibleAddresses(svc.ann.access, TargetNodes(svc, view))

\* The target of an SRV record is its port.
ExtractNodePortEndpoints(svc) ==
  LET ports == Only(svc.ports, {p \in ToSet(svc.ports) : p.nodePort > 0})
  IN  NotNil([i \in DOMAIN ports |->
        NewEndpointWithTTL(SRVName(svc, ports[i].protocol), "SRV",
                           GetTTLFromAnnotations(svc.ann), <<ports[i].nodePort>>)])

(***************************************************************************)
(* A service, and all of them.                                             *)
(***************************************************************************)
ExtractServiceIPs(svc) == IF svc.clusterIP = Headless THEN <<>> ELSE <<svc.clusterIP>>

ExtractServiceExternalName(svc) ==
  IF svc.externalIPs # <<>> THEN svc.externalIPs ELSE <<svc.externalName>>

MeshTargets(svc) ==
  IF svc.type = "ExternalName" THEN ExtractServiceExternalName(svc) ELSE ExtractServiceIPs(svc)

ServiceRecords(svc, targets) ==
  EndpointsForHostname(Hostname(svc), targets, GetTTLFromAnnotations(svc.ann), 0, "", svc.resource)

GenerateEndpoints(svc, view) ==
  CASE svc.ann.target # <<>> -> ServiceRecords(svc, svc.ann.target)
    [] svc.ann.target = <<>> /\ svc.type = "ClusterIP" /\ svc.clusterIP = Headless ->
         ExtractHeadlessEndpoints(svc, view)
    [] svc.ann.target = <<>> /\ svc.type = "NodePort" ->
         ExtractNodePortEndpoints(svc) \o ServiceRecords(svc, ExtractNodePortTargets(svc, view))
    [] OTHER -> ServiceRecords(svc, MeshTargets(svc))

Marked(eps, svc) ==
  [i \in DOMAIN eps |-> [eps[i] EXCEPT !.labels.resource = svc.resource, !.labels.mesh = TRUE]]

\* A service without a cluster IP, as most of type ExternalName, has no record.
MeshEndpoints(svc, view) ==
  IF svc.clusterIP = NoIP THEN <<>> ELSE Marked(GenerateEndpoints(svc, view), svc)

Mergeable(e, f) ==
  /\ e.dnsName = f.dnsName
  /\ e.recordType = f.recordType
  /\ e.setIdentifier = f.setIdentifier
  /\ e.ttl = f.ttl

\* Leaves the records of one name apart.
MergeNothing(merged, e) == Append(merged, e)

\* The record after a mergeable one gives it the first of its targets.
Merge(merged, e) ==
  IF merged # <<>> /\ Mergeable(Last(merged), e)
  THEN Append(Front(merged), [Last(merged) EXCEPT !.targets = Append(@, e.targets[1])])
  ELSE Append(merged, e)

MergeAll(eps) ==
  LET merged[n \in 0 .. Len(eps)] == IF n = 0 THEN <<>> ELSE Merge(merged[n - 1], eps[n])
  IN  merged[Len(eps)]

\* Sorting brings the records of one name and type together, those of one
\* resource next to each other; the order of the names is of no consequence.  Nor
\* is that sort.Slice is not stable: what one service has under one name and type
\* are the records of its ports, each with one target.
SortedByName(eps) ==
  LET sorted == SortedBy(eps, [i \in DOMAIN eps |-> eps[i].labels.resource])
      cells == Deduped([i \in DOMAIN sorted |-> <<sorted[i].dnsName, sorted[i].recordType>>])
  IN  FlattenSeq([i \in DOMAIN cells |->
        Only(sorted, {e \in ToSet(sorted) : <<e.dnsName, e.recordType>> = cells[i]})])

\* The records of all services, one service after the other.
AllServices(view) == FlattenSeq([i \in DOMAIN view.service |-> MeshEndpoints(view.service[i], view)])

\* A set of one answer, as the other sources return a set of several.
MeshServiceSource(view) ==
  {Ok(SortAll(MergeAll(SortedByName(eps)))) : eps \in {AllServices(view)}}
=============================================================================
