----------------------------- MODULE MCInformers -----------------------------
(***************************************************************************)
(* Instances of Informers for TLC.  Targets 1 to 4 are IPv4 addresses, 5   *)
(* and 6 IPv6 ones, 7 and 8 host names, 11 and 12 ports; 0 is the empty    *)
(* string.                                                                 *)
(***************************************************************************)
EXTENDS Informers, TLC

MCTargetType == [t \in {0, 7, 8} |-> "CNAME"] @@ [t \in 1 .. 4 |-> "A"]
                  @@ [t \in 5 .. 6 |-> "AAAA"] @@ [t \in 11 .. 12 |-> "SRV"]
MCOptions == [template |-> TRUE, combineFQDN |-> FALSE, ignoreHostname |-> FALSE,
              ignoreRules |-> FALSE, ignoreTLS |-> FALSE, classes |-> {"dns"}]

A == <<"a", "example">>
B == <<"b", "example">>
L == <<"long", "example">>

NoFilter == [include |-> {}, exclude |-> {}]

\* Ingresses that share a host, one of another class, one of another controller,
\* one the template has to name, which it may fail to; and nodes, of which one
\* may have no address.
Ingress(r) ==
  [resource |-> r, ns |-> "n", name |-> "i", ann |-> NoAnnotations, class |-> "dns",
   rules |-> <<>>, tls |-> <<>>, status |-> <<>>, templated |-> <<B>>]
Ingress1 == [Ingress(1) EXCEPT !.rules = <<A, EmptyName>>, !.tls = <<L>>,
               !.status = <<[ip |-> 2, hostname |-> 7], [ip |-> 1, hostname |-> 0]>>,
               !.ann.ttl = 60, !.ann.dualstack = TRUE]
Ingress2 == [Ingress(2) EXCEPT !.class = "", !.ann.class = "dns", !.ann.hostname = <<A, B>>,
               !.ann.target = <<5, 1>>, !.rules = <<B>>,
               !.ann.hostnameSource = "annotation-only", !.ann.setIdentifier = "id"]
Ingress3 == [Ingress(3) EXCEPT !.status = <<[ip |-> 3, hostname |-> 0]>>]
Ingress4 == [Ingress3 EXCEPT !.resource = 4, !.templated = <<>>]
Ingress5 == [Ingress1 EXCEPT !.resource = 5, !.class = "other"]
Ingress6 == [Ingress1 EXCEPT !.resource = 6, !.ann.controller = "another"]

Node(n, addresses) ==
  [resource |-> 10, name |-> n, dnsName |-> <<n, "nodes">>, addresses |-> addresses,
   ann |-> NoAnnotations]
Node1 == Node("n1", <<[type |-> "InternalIP", address |-> 1],
                      [type |-> "ExternalIP", address |-> 2],
                      [type |-> "InternalIP", address |-> 5]>>)
Node2 == Node("n2", <<[type |-> "InternalIP", address |-> 3],
                      [type |-> "Hostname", address |-> 8]>>)
Node2Blank == Node("n2", <<>>)
\* The name of a node that nobody shortens.
NodeLong == Node("long", <<[type |-> "InternalIP", address |-> 4]>>)

Ingresses ==
  [sources |-> <<"ingress", "node">>,
   worlds |-> {[ingress |-> {Ingress1, Ingress2, Ingress5}, node |-> {Node1, Node2}],
               [ingress |-> {Ingress1, Ingress3}, node |-> {Node1, Node2Blank}],
               [ingress |-> {Ingress4, Ingress6}, node |-> {Node1, NodeLong}]},
   defaultTargets |-> <<>>, filter |-> [include |-> {{1, 2}, {5}, {}}, exclude |-> {{2}}]]

\* Pods that come before their node, with and without an address of their own,
\* which may be an IPv6 address.
Pod(n, node) ==
  [resource |-> 20, name |-> n, ns |-> "n", labels |-> {"app"}, hostNetwork |-> FALSE,
   node |-> node, podIP |-> 4, hostIP |-> 3, hostname |-> "", phase |-> "Running",
   ready |-> "True", deleting |-> FALSE, ann |-> NoAnnotations]
HostPod1 == [Pod("p1", "n1") EXCEPT !.hostNetwork = TRUE, !.ann.hostname = <<A>>,
               !.ann.internalHostname = <<B>>]
HostPod2 == [Pod("p2", "n2") EXCEPT !.hostNetwork = TRUE, !.ann.hostname = <<A, B>>]
Long == [Pod("p3", "n1") EXCEPT !.hostNetwork = TRUE, !.ann.internalHostname = <<L>>]

Pods ==
  [sources |-> <<"pod", "k8s">>,
   worlds |-> {[pod |-> {HostPod1, Pod("p4", "n1")}, node |-> {Node1}],
               [pod |-> {HostPod1, HostPod2}, node |-> {Node1, Node2}],
               [pod |-> {Long, [Pod("p5", "n1") EXCEPT !.podIP = 5]}, node |-> {Node1}]},
   defaultTargets |-> <<>>, filter |-> NoFilter]

\* Gateways, one of which takes its addresses from an ingress that may be gone.
Gateway1 == [resource |-> 30, listeners |-> <<A, EmptyName, B, A>>, addresses |-> <<>>,
             assigned |-> <<7, 2, 1, 2>>]
Gateway2 == [Gateway1 EXCEPT !.resource = 31, !.listeners = <<B>>, !.addresses = <<4>>]
Istio(r) ==
  [resource |-> r, ns |-> "n", name |-> "g", ann |-> NoAnnotations, templated |-> <<B>>,
   selector |-> {"istio"}, hosts |-> <<[ns |-> "n", name |-> A], [ns |-> "", name |-> Star]>>]
Istio1 == [Istio(40) EXCEPT !.ann.hostname = <<B>>]
Istio2 == [Istio(41) EXCEPT !.ann.ingress = <<"i">>, !.hosts = <<>>]
Service(n) ==
  [resource |-> 50, name |-> n, ns |-> "n", ann |-> NoAnnotations, type |-> "ClusterIP",
   clusterIP |-> 4, externalTrafficPolicy |-> "Cluster", publishNotReady |-> FALSE,
   selector |-> {"istio"}, ports |-> <<>>, externalIPs |-> <<>>, externalName |-> 7,
   status |-> <<[ip |-> 2, hostname |-> 8], [ip |-> 0, hostname |-> 7]>>]

Gateways ==
  [sources |-> <<"gateway", "istio-gateway">>,
   worlds |-> {[gateway |-> {Gateway1, Gateway2}, istiogateway |-> {Istio1},
                service |-> {Service("s"), [Service("t") EXCEPT !.externalIPs = <<1>>]},
                ingress |-> {Ingress1}],
               [gateway |-> {Gateway2}, istiogateway |-> {Istio1, Istio2},
                service |-> {Service("s")}, ingress |-> {}]},
   defaultTargets |-> <<>>, filter |-> NoFilter]

\* Service entries under default targets.
Entry(r, location) ==
  [resource |-> r, location |-> location, hosts |-> <<A, Star>>, addresses |-> <<2, 1, 5>>,
   ann |-> [NoAnnotations EXCEPT !.ttl = 3000]]

Entries ==
  [sources |-> <<"istio-se">>,
   worlds |-> {[serviceentry |-> {Entry(60, "MESH_EXTERNAL"), Entry(61, "MESH_INTERNAL")}],
               [serviceentry |-> {[Entry(61, "MESH_INTERNAL") EXCEPT !.addresses = <<>>],
                                  [Entry(62, "MESH_EXTERNAL") EXCEPT !.hosts = <<B>>]}]},
   defaultTargets |-> <<7, 6, 4>>, filter |-> NoFilter]

\* Services of all types; the pods of one node need not be ready together.
NodePort == [Service("np") EXCEPT !.type = "NodePort", !.resource = 51,
               !.selector = {"app"}, !.externalTrafficPolicy = "Local",
               !.ports = <<[nodePort |-> 12, protocol |-> ""], [nodePort |-> 11, protocol |-> "tcp"],
                           [nodePort |-> 0, protocol |-> "tcp"], [nodePort |-> 11, protocol |-> "udp"]>>]
Headless1 == [Service("hl") EXCEPT !.clusterIP = Headless, !.resource = 52,
                !.selector = {"app"}, !.ann.ttl = 30]
Headless2 == [Headless1 EXCEPT !.publishNotReady = TRUE, !.ann.endpointsType = "NodeExternalIP"]
External == [Service("ext") EXCEPT !.clusterIP = NoIP, !.resource = 53, !.type = "ExternalName"]
Full == [NodePort EXCEPT !.name = "full"]
EndpointsOf(ready, notReady) == [name |-> "hl", ns |-> "n", ready |-> ready, notReady |-> notReady]
Ready == [ip |-> 4, pod |-> "p5"]
NotReady == [ip |-> 3, pod |-> "p6"]
NoPod == [ip |-> 1, pod |-> ""]
Pod5 == [Pod("p5", "n1") EXCEPT !.hostname = "h"]
Pod6 == [Pod("p6", "n2") EXCEPT !.ready = "False"]
Pod7 == [Pod("p7", "n1") EXCEPT !.deleting = TRUE]
Pod8 == [Pod("p8", "n1") EXCEPT !.ready = "False"]
Pod9 == Pod("p9", "n2")

Services ==
  [sources |-> <<"mesh-service">>,
   worlds |-> {[service |-> {NodePort}, pod |-> {Pod5, Pod8, Pod9}, node |-> {Node1, Node2}],
               [service |-> {[NodePort EXCEPT !.externalTrafficPolicy = "Cluster",
                                !.ann.access = "public"], Headless1},
                endpoints |-> {EndpointsOf(<<Ready, NoPod>>, <<NotReady>>)},
                pod |-> {Pod5, Pod7}, node |-> {Node2}]},
   defaultTargets |-> <<>>, filter |-> NoFilter]

HeadlessServices ==
  [sources |-> <<"mesh-service">>,
   worlds |-> {[service |-> {Headless1},
                endpoints |-> {EndpointsOf(<<Ready, NoPod>>, <<NotReady>>)},
                pod |-> {Pod5, Pod6}, node |-> {Node1, Node2}],
               [service |-> {Headless2}, endpoints |-> {EndpointsOf(<<Ready>>, <<NotReady>>)},
                pod |-> {Pod6, Pod7}, node |-> {Node2}]},
   defaultTargets |-> <<>>, filter |-> NoFilter]

Balancers ==
  [sources |-> <<"mesh-service">>,
   worlds |-> {[service |-> {External, Full}],
               [service |-> {[Service("lb") EXCEPT !.type = "LoadBalancer"],
                             [External EXCEPT !.clusterIP = 4]}]},
   defaultTargets |-> <<>>, filter |-> NoFilter]

MCScenarios ==
  {Ingresses, Pods, Gateways, Entries, Services, HeadlessServices, Balancers}

\* The hypotheses of the theorems hold of these scenarios.
ASSUME ScenariosKeepTo == NamesAreUnique /\ OneMeshSource
=============================================================================
