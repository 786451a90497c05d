------------------------------ MODULE Informers ------------------------------
(***************************************************************************)
(* A sync that lists its sources while the cluster changes                 *)
(* (source/source.go, source/multisource.go, controller/controller.go).    *)
(*                                                                         *)
(* Every source has informers of its own, whose caches follow the cluster  *)
(* each at its own pace; some resources are read from the API instead.  An *)
(* informer changes its cache first and calls the handlers later, and only *)
(* some of the informers have one that asks for a run.  A run takes back   *)
(* the request before it lists, and lists one source after the other.  An  *)
(* error or a panic of a source ends the process.                          *)
(***************************************************************************)
EXTENDS MeshServices

CONSTANTS
  Scenarios,    \* the configurations of a sync, with the cluster around it
  MaxEdits      \* bound on the number of changes in the cluster

VARIABLES
  scenario,  \* the scenario played
  world,     \* world[k]: the resources of kind k in the cluster
  view,      \* view[i][k]: those in the cache of source i
  notices,   \* <<i, k>>: calls of a handler that are under way
  due,       \* a run is due
  phase,     \* "idle", "listing" or "down"
  results,   \* what the sources returned in this run
  used,      \* used[i]: the resources source i made its last records of
  listing,   \* the records of the last run
  edits      \* number of changes in the cluster so far

vars == <<scenario, world, view, notices, due, phase, results, used, listing, edits>>

-------------------------------------------------------------------------------
Kinds == {"ingress", "gateway", "istiogateway", "serviceentry",
          "service", "endpoints", "pod", "node"}

SourceNames == {"ingress", "gateway", "istio-gateway", "istio-se",
                "mesh-service", "node", "pod", "k8s"}

Resource(k) ==
  CASE k = "ingress" -> IngressResource
    [] k = "gateway" -> GatewayResource
    [] k = "istiogateway" -> IstioGatewayResource
    [] k = "serviceentry" -> ServiceEntryResource
    [] k = "service" -> ServiceResource
    [] k = "endpoints" -> EndpointsResource
    [] k = "pod" -> PodResource
    [] k = "node" -> NodeResource

ASSUME InformersAssumption ==
  /\ MaxEdits \in Nat
  /\ \A sc \in Scenarios :
       /\ sc.sources \in Seq(SourceNames)
       /\ sc.defaultTargets \in Seq(Target)
       /\ \A w \in sc.worlds : \A k \in DOMAIN w \cap Kinds :
            IsFiniteSet(w[k]) /\ w[k] \subseteq Resource(k)

\* What the cluster may have of a kind at one time.
Clusters(k) ==
  {{}} \cup {w[k] : w \in {v \in UNION {sc.worlds : sc \in Scenarios} : k \in DOMAIN v}}

\* There is one service of a name in a namespace.
Distinct(svcs) == \A s, t \in svcs : s.name = t.name /\ s.ns = t.ns => s = t
NamesAreUnique == \A svcs \in Clusters("service") : Distinct(svcs)

\* A configuration names the source of services once.
OneMeshSource ==
  \A sc \in Scenarios : \A i, j \in DOMAIN sc.sources :
    sc.sources[i] = "mesh-service" /\ sc.sources[j] = "mesh-service" => i = j

\* The kinds a source has informers for ...
Informed(s) ==
  CASE s = "ingress" -> {"ingress"}
    [] s = "gateway" -> {"gateway"}
    [] s = "istio-gateway" -> {"istiogateway", "service"}
    [] s = "istio-se" -> {"serviceentry"}
    [] s = "mesh-service" -> {"service", "endpoints", "pod", "node"}
    [] s = "node" -> {"node"}
    [] s = "pod" -> {"pod", "node"}
    [] s = "k8s" -> {"pod"}

\* ... those it reads from the API when it lists ...
Live(s) == IF s = "istio-gateway" THEN {"istiogateway", "ingress"} ELSE {}

\* ... and those whose events ask for a run (AddEventHandler).
Watched(s) ==
  CASE s = "istio-gateway" -> {"istiogateway"}
    [] s = "mesh-service" -> {"service"}
    [] s \in {"ingress", "gateway", "istio-se"} -> Informed(s)
    [] OTHER -> {}

Children == 1 .. Len(scenario.sources)
Reads(s) == Informed(s) \cup Live(s)

\* The resources source i sees now, from its caches and from the API.
SeenBy(i) ==
  [k \in Reads(scenario.sources[i]) |->
     IF k \in Live(scenario.sources[i]) THEN world[k] ELSE view[i][k]]

\* Everything Endpoints of source s may return for the resources r.
Endpoints(s, r) ==
  CASE s = "ingress" -> {IngressSource(l) : l \in Walks(r["ingress"])}
    [] s = "gateway" -> UNION {GatewaySource(l) : l \in Walks(r["gateway"])}
    [] s = "istio-gateway" -> {IstioGatewaySource(l, m, r["ingress"]) :
                                 l \in Walks(r["istiogateway"]), m \in Walks(r["service"])}
    [] s = "istio-se" -> {ServiceEntrySource(l, m) :
                            l \in Walks(r["serviceentry"]), m \in Walks(r["serviceentry"])}
    [] s = "mesh-service" ->
         UNION {MeshServiceSource([service |-> l, endpoints |-> SetToSeq(r["endpoints"]),
                                   pod |-> m, node |-> n]) :
            l \in Walks(r["service"]), m \in Walks(r["pod"]), n \in Walks(r["node"])}
    [] s = "node" -> UNION {NodeSource(l) : l \in Walks(r["node"])}
    [] s = "pod" -> UNION {PodSource(l, r["node"]) : l \in Walks(r["pod"])}
    [] s = "k8s" -> UNION {K8SSource(l) : l \in Walks(r["pod"])}

Combined(rs) == Chain(rs, scenario.defaultTargets, scenario.filter)

-------------------------------------------------------------------------------
\* The caches are filled before a source is used (WaitForCacheSync).
Init ==
  /\ scenario \in Scenarios
  /\ world \in {[k \in Kinds |-> IF k \in DOMAIN w THEN w[k] ELSE {}] : w \in scenario.worlds}
  /\ view = [i \in Children |-> [k \in Informed(scenario.sources[i]) |-> world[k]]]
  /\ notices = {}
  /\ due = TRUE
  /\ phase = "idle"
  /\ results = <<>>
  /\ used = [i \in Children |-> SeenBy(i)]
  /\ listing = {}
  /\ edits = 0

(***************************************************************************)
(* A run of the controller, as far as the sources are concerned.           *)
(***************************************************************************)
Completed == \A j \in DOMAIN results : results[j].state = "ok"

StartRun ==
  /\ phase = "idle" /\ due
  /\ phase' = "listing"
  /\ due' = FALSE
  /\ results' = <<>>
  /\ UNCHANGED <<scenario, world, view, notices, used, listing, edits>>

\* Takes the request back when the run has its records.
FinishAndReset ==
  /\ phase = "listing"
  /\ Len(results) = Len(scenario.sources) \/ ~Completed
  /\ IF Combined(results).state = "ok"
     THEN /\ listing' = ToSet(Combined(results).eps)
          /\ phase' = "idle"
     ELSE /\ phase' = "down"
          /\ UNCHANGED listing
  /\ due' = FALSE
  /\ results' = <<>>
  /\ UNCHANGED <<scenario, world, view, notices, used, edits>>

ListSource(i) ==
  /\ phase = "listing" /\ Completed
  /\ i = Len(results) + 1
  /\ \E r \in Endpoints(scenario.sources[i], SeenBy(i)) : results' = Append(results, r)
  /\ used' = [used EXCEPT ![i] = SeenBy(i)]
  /\ UNCHANGED <<scenario, world, view, notices, due, phase, listing, edits>>

Finish ==
  /\ phase = "listing"
  /\ Len(results) = Len(scenario.sources) \/ ~Completed
  /\ IF Combined(results).state = "ok"
     THEN /\ listing' = ToSet(Combined(results).eps)
          /\ phase' = "idle"
     ELSE /\ phase' = "down"
          /\ UNCHANGED listing
  /\ results' = <<>>
  /\ UNCHANGED <<scenario, world, view, notices, due, used, edits>>

\* The interval is set, but a run needs an event.
IntervalPassesInVain == phase = "idle" /\ ~due /\ UNCHANGED vars

\* The interval has passed since the last run.
IntervalPasses ==
  /\ phase = "idle" /\ ~due
  /\ due' = TRUE
  /\ UNCHANGED <<scenario, world, view, notices, phase, results, used, listing, edits>>

Restart ==
  /\ phase = "down"
  /\ phase' = "idle"
  /\ view' = [i \in Children |-> [k \in DOMAIN view[i] |-> world[k]]]
  /\ notices' = {}
  /\ due' = TRUE
  /\ UNCHANGED <<scenario, world, results, used, listing, edits>>

(***************************************************************************)
(* Informers and the cluster.                                              *)
(***************************************************************************)
Deliver(i, k) ==
  /\ phase # "down"
  /\ view[i][k] # world[k]
  /\ view' = [view EXCEPT ![i][k] = world[k]]
  /\ notices' = IF k \in Watched(scenario.sources[i]) THEN notices \cup {<<i, k>>} ELSE notices
  /\ UNCHANGED <<scenario, world, due, phase, results, used, listing, edits>>

\* EventHandlerFunc and OnAnyChange: whatever happened, a run is to come.
CallHandler(n) ==
  /\ phase # "down"
  /\ notices' = notices \ {n}
  /\ due' = TRUE
  /\ UNCHANGED <<scenario, world, view, phase, results, used, listing, edits>>

ClusterChanges(k) ==
  /\ edits < MaxEdits
  /\ \E w \in scenario.worlds :
       /\ k \in DOMAIN w
       /\ w[k] # world[k]
       /\ world' = [world EXCEPT ![k] = w[k]]
  /\ edits' = edits + 1
  /\ UNCHANGED <<scenario, view, notices, due, phase, results, used, listing>>

Next ==
  \/ StartRun
  \/ \E i \in Children : ListSource(i)
  \/ Finish
  \/ IntervalPasses
  \/ Restart
  \/ \E i \in Children : \E k \in DOMAIN view[i] : Deliver(i, k)
  \/ \E n \in notices : CallHandler(n)
  \/ \E k \in Kinds : ClusterChanges(k)

Spec == Init /\ [][Next]_vars

\* The loop runs, every call of Endpoints returns, informers catch up, and the
\* process is restarted when it ends.
FairSpec ==
  /\ Spec
  /\ []<>(phase # "listing")
  /\ WF_vars(StartRun) /\ WF_vars(IntervalPasses) /\ WF_vars(Restart)
  /\ WF_vars(\E i \in Children : \E k \in DOMAIN view[i] : Deliver(i, k))
  /\ WF_vars(\E n \in notices : CallHandler(n))

-------------------------------------------------------------------------------
RecordsOf(eps) == {e \in eps : e.recordType \in {"A", "AAAA", "CNAME", "SRV"}}

TypeOK ==
  /\ scenario \in Scenarios
  /\ DOMAIN world = Kinds
  /\ DOMAIN view = Children /\ DOMAIN used = Children
  /\ notices \subseteq {<<i, k>> : i \in Children, k \in Kinds}
  /\ due \in BOOLEAN
  /\ phase \in {"idle", "listing", "down"}
  /\ Len(results) <= Len(scenario.sources)
  /\ listing = RecordsOf(listing)
  /\ edits \in 0 .. MaxEdits

\* What two sources do not check: the name of a node may have an over-long label,
\* and the address of a pod stands in a record of type A under the pod's name,
\* whatever it is.
NodeNames == {n.dnsName : n \in UNION Clusters("node")}
PodsOwn(name, t) ==
  \E p \in UNION Clusters("pod") :
    ~p.hostNetwork /\ t = p.podIP /\ t # 0 /\ name = <<p.name, p.ns, "p">>

Sound(e) ==
  /\ e.targets # <<>>
  /\ TooLong(e.dnsName) => e.dnsName \in NodeNames
  /\ \A j \in DOMAIN e.targets :
       \/ SuitableType(e.targets[j]) = e.recordType
       \/ e.recordType = "A" /\ PodsOwn(e.dnsName, e.targets[j])

\* Whatever goes wrong in a resource or a source, what reaches the plan are
\* records with a target, without a nil among them; apart from the names of nodes
\* (node.go:102) none is over-long, and apart from the addresses of pods
\* (k8s.go:129) all targets suit the type (source.go: EndpointsForHostname; the
\* target filter may have emptied a record, a source may have returned a nil).
Plannable == \A e \in listing : Sound(e)

\* The kind a source makes records of, one resource at a time.
Primary(s) ==
  CASE s = "istio-gateway" -> "istiogateway"
    [] s = "istio-se" -> "serviceentry"
    [] s = "mesh-service" -> "service"
    [] s = "k8s" -> "pod"
    [] OTHER -> s

Cell(e) == <<e.dnsName, e.recordType, e.setIdentifier>>
Place(e) == <<e.dnsName, e.setIdentifier>>

\* What the chain makes of a result alone is listed, under its names and set
\* identifiers, target by target; the type is that of the target (Plannable).
InListing(r) ==
  \A e \in ToSet(Combined(<<r>>).eps) :
    \A t \in ToSet(e.targets) : \E f \in listing : Place(f) = Place(e) /\ t \in ToSet(f.targets)

\* Resources do not hide one another: what a resource alone would make the
\* source list is in the listing, next to whatever other resources and sources
\* ask for, though maps are merged and duplicates dropped.  What a service alone
\* would be given may hang on the order of its pods.
NothingLost ==
  (phase = "idle" /\ ~due) =>
    \A i \in Children :
      LET s == scenario.sources[i]
      IN  \A o \in used[i][Primary(s)] :
            LET alone == Endpoints(s, [used[i] EXCEPT ![Primary(s)] = {o}])
            IN  IF s = "mesh-service" THEN \E r \in alone : InListing(r)
                ELSE \A r \in alone : InListing(r)

\* The ports of one service and protocol end up in one record: with two, the
\* plan would take one and drop the other (meshservice.go:191-222).
PortsTogether ==
  \A e, f \in listing :
    (e.recordType = "SRV" /\ f.recordType = "SRV" /\ e.dnsName = f.dnsName) => e = f

\* The cells of a result, each with its targets.
Content(r) == {<<Cell(r.eps[j]), ToSet(r.eps[j].targets)>> : j \in DOMAIN r.eps}

\* The running pods of a service, and what counts about them.
RunningFor(svc, pods) ==
  {p \in pods : p.ns = svc.ns /\ svc.selector \subseteq p.labels /\ p.phase = "Running"}
Condition(p) ==
  IF ~IsPodStatusReady(p) THEN "not ready" ELSE IF p.deleting THEN "leaving" ELSE "serving"

\* Of the running pods of a node only the first one listed is looked at: if they
\* are not in one condition, the order decides about the node.
OrderDecides(svc, pods) ==
  /\ svc.type = "NodePort" /\ svc.externalTrafficPolicy = "Local"
  /\ \E p, q \in RunningFor(svc, pods) : p.node = q.node /\ Condition(p) # Condition(q)

\* Even then, of the nodes whose running pods all serve each is taken, and none
\* without one that serves is taken beside them.
WithinBounds(svc, pods, nodes) ==
  LET running == {p \in RunningFor(svc, pods) : NodeNamed(p.node, nodes) # {}}
      serving == {p \in running : Condition(p) = "serving"}
      sure == {p \in serving : \A q \in running : q.node = p.node => q \in serving}
      NodesFor(ps) == {p.node : p \in ps}
  IN  \A l \in Walks(pods) :
        LET taken == ToSet(LocalPods(svc, [pod |-> l, node |-> SetToSeq(nodes)]))
        IN  /\ NodesFor(sure) \subseteq NodesFor(taken)
            /\ sure # {} => NodesFor(taken) \subseteq NodesFor(serving)

Undecided(s, r) ==
  IF s = "mesh-service" THEN {svc \in r["service"] : OrderDecides(svc, r["pod"])} ELSE {}

\* What a result says of other names.
Unless(C, names) == {c \in C : c[1][1] \notin names}

\* Listers and maps return resources in any order; the records that come of
\* them, and whether any come at all, do not depend on it.  The one exception are
\* the addresses of a service with a local policy that has pods in different
\* conditions on one node (meshservice.go:579), and they keep within bounds.
ListerOrderDoesNotMatter ==
  \A i \in Children :
    LET r == SeenBy(i)
        possible == Endpoints(scenario.sources[i], r)
        undecided == Undecided(scenario.sources[i], r)
        names == {Hostname(svc) : svc \in undecided}
    IN  /\ \A a, b \in {<<p.state, Unless(Content(p), names)>> : p \in possible} : a = b
        /\ \A svc \in undecided : WithinBounds(svc, r["pod"], r["node"])

\* No event is lost between a cache and a run: if source i has changed caches
\* it has not made records of, in a kind whose events it handles, a run is due,
\* a handler is about to ask for one, or the current run has yet to come to i.
EventsSeen ==
  \A i \in Children :
    \A k \in Watched(scenario.sources[i]) \ Live(scenario.sources[i]) :
      \/ view[i][k] = used[i][k]
      \/ due
      \/ <<i, k>> \in notices
      \/ phase = "listing" /\ Len(results) < i
      \/ phase = "down"
      \/ ~Completed

(***************************************************************************)
(* Liveness.                                                               *)
(***************************************************************************)
FromWorld(i) == Endpoints(scenario.sources[i], [k \in Reads(scenario.sources[i]) |-> world[k]])

\* The results a run may come by when everything is known.
AllResults ==
  FoldLeft(LAMBDA found, i : {Append(rs, r) : rs \in found, r \in FromWorld(i)},
           {<<>>}, [i \in Children |-> i])

Healthy == \A rs \in AllResults : Combined(rs).state = "ok"

UpToDate == \E rs \in AllResults : listing = ToSet(Combined(rs).eps)

\* If the cluster comes to rest in a state all sources can read, the listing
\* becomes and remains that of the cluster, even for resources without an event
\* handler, and even if caches that disagreed brought the process down before.
Fresh == <>[]Healthy => <>[]UpToDate
=============================================================================
