# A formal model of dns-sync

dns-sync keeps the zones of a DNS service in step with resources of Kubernetes
clusters. This directory holds TLA+ modules translated from its Go code, TLC
configurations that check them on small instances, and proofs checked by TLAPS.
`PROJECT.json` maps every definition to the lines it stands for.

## 1. Inventory

### Components

| Component | Code | State it keeps | Operations | Modelled |
|---|---|---|---|---|
| Records and labels | `endpoint/endpoint.go`, `labels.go`, `apis.go` | none (values, but compared lists are sorted in place) | `Key`, `IsOwnedBy`, `FilterEndpointsByOwnerID`, `Targets.Same`, `Targets.IsLess`, `NewEndpointWithTTL` | partly |
| Plan | `plan/plan.go`, `conflict.go`, `policy.go` | the plan table, within one call | `Calculate` | yes |
| TXT registry | `pkg/sources/dnsmesh/txt.go` | none between calls; ownership lives in TXT records of the zone | `Records`, `ApplyChanges` | yes |
| In-memory provider | `pkg/mem/inmemory.go` | zones: maps from keys to records; no mutex | `Records`, `ApplyChanges`, `EndpointZoneID` | partly |
| Controller: rounds | `controller/controller.go` | none between rounds | `RunOnce` | yes |
| Controller: scheduling | `controller/controller.go` | `nextRunAt` under a mutex | `ScheduleRunOnce`, `ShouldRunOnce`, `Run` | yes |
| Start-up of syncs | `pkg/dns-sync/dns-sync.go`, `main.go`, `source/store.go` | the syncs of a process, one client per kind, made once | `LoadAndRun`, `Run`, `BuildWithConfig` | partly |
| Webhook client and server | `provider/webhook/webhook.go`, `pkg/dns_service/httpapi.go` | the negotiated domain filter | handshake, GET and POST `records`, POST `adjustendpoints` | partly |
| Combination of sources | `source/multisource.go`, `dedupsource.go`, `targetfiltersource.go` | none | `Endpoints` | yes |
| Kubernetes sources | `source/ingress.go`, `gateway.go`, `istio_*.go`, `node.go`, `pod.go`, `k8s.go`, `dnsendpoint.go` | informer caches; the status of DNSEndpoints | `Endpoints`, `AddEventHandler`, `UpdateStatus` | partly |
| Mesh service source | `pkg/sources/dnsmesh/meshservice.go` | informer caches | `Endpoints` with a merge of records of one name | partly |
| Domain filters and zones | `endpoint/domain_filter.go`, `provider/zonefinder.go` | none | `Match`, `MarshalJSON`, `FindZone` | yes |
| Reverse zones | `pkg/rfc2317/arpa.go` | none | `CidrToInAddr`, `ReverseDomainName` | yes |
| Telemetry; generated clients and types | `pkg/tel`, `gen-client`, `pkg/apis` | metrics | | no |

### How they interact

A process reads its configuration and starts one controller for every sync, one
after the other: it asks the sync's DNS service for its domain filter, makes the
sources (which share their clients and wait for their caches), and starts a
goroutine. That goroutine wakes up once a second and calls `RunOnce` when
`nextRunAt` has passed; event handlers of the informers call `ScheduleRunOnce`
from goroutines of their own. A round asks the registry for the records (which
asks the provider and lays the labels of its TXT records over the records), asks
the sources for what they want (each reads the caches of its informers, one
source after the other), lets the provider adjust it, computes a plan, and hands
its changes to the registry, which adds the TXT records and passes the batch to
the provider. The provider is in the process, or behind HTTP.

An HTTP code from 500 to 510 is a soft error: the round ends and the loop goes
on. Every other error is `log.Fatalf`: it ends the process, and with it every
other sync the process runs. Nothing is persisted but the zone and the status of
DNSEndpoint resources.

### What is hard, and what makes it correct

- *Between listing and application everything may change.* There is no lock and
  no transaction across the three calls of a round: other replicas, other syncs
  and other writers move on, and a POST whose sender has died may still arrive.
  Correct means: no sync ever changes what it does not own (`OwnerSafety`),
  records and TXT records stay in pairs (`Paired`) and of one origin
  (`SameOrigin`), owners take cells of the zone and give them back without ever
  passing them on (`ZoneWithOwners`), and the zone still comes to rest
  (`Converges`).
- *Ownership is spread over two places*: the label in the plan (owner `mesh`,
  always) and the TXT record in the zone (owner `TXTOwnerID`, configured). A batch
  has to change both sides of the pair or neither.
- *A plan depends on lists in random order*, on comparisons that sort in place,
  and on a policy that is applied after the conflicts were resolved. Correct
  means: resources do not take names from each other (`HolderKeepsName`), a
  round leaves nothing to do for the next (`NoFlapping`) and the zone right
  (`Converged`), a CNAME stays alone (`CNAMEExclusive`), the policy is kept
  (`PolicyRespected`), and the order of candidates is immaterial
  (`OrderDoesNotMatter`).
- *A batch over several zones is not atomic*, and validation looks at the first
  target of a record only.
- *Time is taken before the mutex.* An event handler can act on a time from
  before a run that has started since. Correct means: runs keep their distance
  (`RunsAreSpaced`), no event is lost or put off (`EventsAreDue`), each is
  followed by a run (`EventsAreServed`).
- *Each source reads several caches that move one by one*, in the middle of a
  listing, and does its work in the order of maps. A pod may be ahead of its
  node, an ingress gone that a gateway names; a nil, an empty target list or a
  panic may come of it. Correct means: what reaches the plan is fit for it
  (`Plannable`), resources do not hide one another (`NothingLost`,
  `PortsTogether`), order decides nothing but, within bounds, which nodes stand for
  a local service whose pods on one node differ (`ListerOrderDoesNotMatter`), no event
  falls between a cache and a run (`EventsSeen`), and the listing becomes the
  cluster's (`Fresh`).
- *`sync.Once` remembers that it ran, not that it failed.* The first source that
  needs a client gets the error, the next ones a nil client. Correct means: each
  source of a sync that runs was made with clients that are there, or left out
  with a reason (`SourcesAccountedFor`), one client costs at most one source
  (`OneSkipPerClient`), and in the end everything configured runs (`Comes`).
- *The status of a DNSEndpoint is written from an old copy.* Correct means: it
  never claims what was not listed or goes back (`ObservedWasListed`,
  `StatusIsCurrent`), and lost writes are made good (`Observed`, `Published`).
- *Names are compared as strings* where labels are meant (`NearestZone`,
  `FiltersByLabel`), filters travel as JSON (`SurvivesHandshake`), and blocks of
  addresses end anywhere within a byte (`ReverseZoneIsTheBlock`).

`PROJECT.json` lists these hazards at their lines, the ones no property covers
included.

## 2. Modules

| Module | Models | Uses |
|---|---|---|
| `Endpoints` | records, keys, labels, ownership, comparison of target lists, change lists | |
| `Plan` | `Calculate` with every result map order allows: `Plans(p, current, desired)` is the set of plans | `Endpoints` |
| `TXTRegistry` | what `Records` lists and what `ApplyChanges` sends | `Endpoints` |
| `InMemory` | zones, validation of a batch, application zone by zone | `TXTRegistry` |
| `Rounds` | one controller; `RunOnce` is one step, data is rich | `Plan`, `InMemory` |
| `Sync` | several controllers in several processes; a round is four steps, with crashes, restarts, late requests, other writers | `Plan`, `InMemory`, `OwnedZone` |
| `OwnedZone` | the abstract zone: cells with owners | |
| `Scheduler` | `ScheduleRunOnce`, `ShouldRunOnce`, `Run` against a clock | |
| `Sources` | annotations, the construction of records, and the chain multi source, deduplication, target filter | |
| `Resources` | what ingresses, gateways, service entries, nodes and pods become | `Sources` |
| `MeshServices` | what services, their endpoints, pods and nodes become, and the merge | `Resources` |
| `Informers` | a sync's sources over caches that follow a changing cluster, listing one after the other | `MeshServices` |
| `CustomResources` | the source of DNSEndpoints and the status it writes, against an API server | |
| `Startup` | the main goroutine, the handshake, constructors, shared clients, the end and restart of the process | |
| `DomainNames` | domain filters, their JSON, and both searches for a zone | |
| `ReverseZones` | reverse names and zones of blocks | |
| `Scans` | loops over lists and maps, and the pure algorithms, against reference definitions | `Plan`, `DomainNames`, `ReverseZones` |
| `RecordLemmas` | lemmas about sorting and the operators of the first four modules | |
| `SyncProof`, `RoundsProof`, `SchedulerProof`, `StartupProof`, `InformersProof`, `CustomResourcesProof`, `ScansProof` | theorems about the modules they are named for | |
| `MCRounds`, `MCSync`, `MCScheduler`, `MCScans`, `MCInformers`, `MCStartup`, `MCCustomResources` | instances for TLC | |

### State and actions

**Rounds.** `store` is the provider's content, `config` the sync's
configuration, `want` what the sources ask for, `outcome` how the last round
ended. `RunOnceApply` and `RunOnceUnchanged` are the two ends of
`Controller.RunOnce`; `SourceChanges`, `Reconfigure` (a restart with an edited
configuration), `OtherAdds` and `OtherRemoves` are the surroundings.

**Sync.** For each sync `s`, `pc[s]` is where the round is, `listing[s]` what it
listed, `call[s]` its request to change records, `view[s]` what its informers
know; `goal[c]` is what cluster `c` asks for, `late` the requests whose sender is
gone. `ListRecords`, `PlanAndPost`, `HandlePost`, `RoundEnds` are the steps of a
round; `AdjustFails` a round that ends early; `Fatal(p)` ends process `p` with
all its syncs and leaves their requests in `late`, where `HandleLatePost` and
`LoseLatePost` take them; `Restart(p)` starts it again.

**OwnedZone.** A cell is a name with a set identifier, what one TXT record speaks
for. `Sync` maps to it by `OwnerOf` (the owner its TXT record spells, or else
the registry that signed it in the label `mesh`: what a source does not label is
created and stays as it is) and `ContentOf` (the other records there). A request is a `Write` for one owner that
claims, refills or releases any number of cells; whatever others do at a cell
of nobody is `OthersWrite`; the rest of `Sync` stutters.

**Scheduler.** Times are relative to the clock. `due` is `nextRunAt` minus now,
`handler[h]` the age of the time handler `h` took before it waits for the mutex,
`loopAge` the same for the loop, `since` the age of the last run's start, `pending`
the age of the oldest event that no run has followed. The zero time `nextRunAt`
starts with is "long past".

**Informers.** `world` holds the resources of the cluster by kind, `view[i]` the
caches of source `i`, `notices` the handlers' calls on their way, `due` whether a
run is asked for, `results` what the sources have returned so far in this run,
`listing` what the last complete run returned; `used[i]` is a history variable,
what source `i` read. `StartRun`, `ListSource(i)` (one call of `Endpoints`, from
the caches of that moment, with every result map order and lister order
allow) and `Finish` (the chain of combining sources) are a run; `Deliver(i, k)`
moves one cache of one source, `CallHandler` runs an event handler,
`IntervalPasses` asks for a run without an event. An error or a panic of a source
ends the process (`phase = "down"`) until `Restart`, which fills the caches anew.
Only the kinds in `Watched` have event handlers in the code.

**CustomResources.** `store[o]` is a resource with uid, version, generation and
observed generation; `run[p]` the call of `Endpoints` process `p` is in, with the
copies it still has to go through. `List`, `NextItem` (the endpoints of one
resource, and the write of its status, which is made, refused or lost) and `Return`
are the code's; `Create`, `Edit`, `Annotate`, `Delete` the users'.

**Startup.** `phase`, `sync`, `source`, `step` are where the main goroutine is;
a constructor is the list of its steps that can fail, `clients` what `sync.Once`
has left behind. `Load`, `NextSync`, `Handshake`, `GetClient`,
`WaitForCacheSync`, `CheckSpec`, `AddSource`, `StartSync`, `Serve` go through
start-up; an address that does not parse ends the process, any other is tried
(`Attempt`) until an attempt succeeds, fails for good, is the last, or the time for
all of them is over; `UsesNilClient` is the panic of an informer with a nil client;
`RoundDies` a fatal error of a sync that already runs, at any moment. Only a
process that is `down` is restarted; one that is `done` has ended by SIGTERM or
has run once.

**Scans.** `task` and `input` say which algorithm runs on what; `walk` is the list
or a walk through the map, `next` and `found` the variables of the loop.

### Abstractions

- In `Endpoints` and what uses it, a DNS name, set identifier or label value is a
  token. `Canonical` maps a spelling of a name to what `normalizeDNSName` makes of
  it, `ZoneOf` a name to its zone. Of the labels the models have `owner`, `mesh`
  and `resource`; others are carried along by the code and decide nothing.
- In `Sources` and what uses it, a name is the sequence of its labels; in
  `DomainNames`, where the question is what happens within a label, the sequence
  of its characters. A regular expression is its text and the set of names it
  matches. An address in `ReverseZones` is the sequence of its bytes as it is
  written: an IPv4 address may be written as an IPv6 one (`Mapped`), which
  `net.IP.To4` sees through and the length of a mask does not.
- An address of a DNS service that no URL parser accepts is `"%"`. The backoff's limit on
  the time all attempts may take (15 minutes) is a choice to stop after any attempt.
- A target is a number in the order `sort.Sort` gives the strings; `Rank` is
  the order `IsLess` gives, `Address` the IP address it spells, if any;
  `TargetType` the record type that suits it. `Same` compares without regard to case
  (`endpoint.go:104`), and targets have one case: two spellings of a host name would be
  two targets here.
- Annotations are in parsed form, and a template is given by the names it yields
  for a resource, or its failure.
- A TXT record of the registry has, for its one target, the set of labels it
  spells out (`text`). The text of a TXT record of anybody else is `NoLabels` or
  a set of labels with another `mesh`.
- Lists in random order are sets, and what depends on the order is a choice:
  which record lands in a cell of the plan table, which of equal candidates
  wins, which of several TXT records of a name counts, which zones were done
  before one refused. Where order matters to a source, the operator takes the
  sequence and `Informers` takes every one (`Walks`).
- `Same` and `IsLess` sort the lists they compare in place. The listed copies
  show it, the stored records do not; `AfterComparison` and `AfterNeedsUpdate`
  say where it happens.
- A request is handled in one step. The in-memory provider has no mutex, and
  concurrent map access is not modelled.
- `MeshServiceSource` returns a set of one answer, and binds the records it
  sorts, merges and sorts again once.
- Loops over lists in `Sources` and what uses it are operators without operators
  as parameters (`Only` keeps the elements in a set, `Picked` those at some
  positions, `SortedBy` orders by numbers), and what a loop adds up is a recursive
  function over the length: the provers cannot look into `SelectSeq`, `SortSeq` and
  the folds with a lambda. `SortedBy` is stable; `sort.Slice` is not, which makes no
  difference for target lists (equal strings) and for the records of services
  (those of one service, name and type have one target each and are merged).
- `Resource(k)` is what an object of kind `k` may be, as far as the sources look at
  it: `IngressResource` to `EndpointsResource` give each field its type and no more.

## 3. Runs

All instances use small sets; each is large enough for the situations its
properties are about. "Violation" runs check one statement that a comment or
document of the repository makes and the code does not keep.

| Run | Instance | Shows |
|---|---|---|
| `rounds_alone` | `MCRoundsAlone.cfg`: 2 names, 4 targets, 2 TTLs, rivals for one name, labelled with the owner or not at all, lists of one or two targets in any order; 2298 states | types; `NoFlapping`, `Converged`, `Paired`, `HolderKeepsName` |
| `rounds_foreign` | `MCRoundsForeign.cfg`: two zones, one name as A, AAAA (without an owner's label) and CNAME, another held by somebody else first, three policies and a second owner; 5947 states | `OwnerSafety`, `CNAMEExclusive`, `PolicyRespected`, also for batches that one zone takes and the other refuses |
| `rounds_spellings` | two spellings of one name, a foreign record at the other one | violation: an update is planned for names in normalised form and applied by spelling, and overwrites the foreign record |
| `rounds_dual_stack` | a name with A and AAAA records | violation: their TXT records have one key, the provider refuses the batch, in every round |
| `sync_replicas` | `MCSyncReplicas.cfg`: two replicas, each in a process, one cluster that asks for records with and without the owner's label, two changes of it, one crash; 55656 states | types; `Paired`, `SameOrigin`, `Converges` |
| `sync_owners` | `MCSyncOwners.cfg`: two syncs with owners `mesh` and `other` in one process, each with a cluster that labels records with that owner or with none, two changes, a writer that adds and removes an A and a TXT record at the same name, one crash; 328136 states | `OwnerSafety`; `ZoneWithOwners`: `Sync` implements `OwnedZone` |
| `sync_adoption` | one sync, somebody else adds an AAAA record at its name | violation: a TXT record speaks for its name whatever the type, and the next plan removes the foreign record |
| `scheduler` | `MCScheduler.cfg`: intervals of 5 and 3 seconds, a lag of 1, two handlers; 10024 states | types; `RunsAreSpaced`, `EventsAreDue`, `EventsAreServed` |
| `scans` | `MCScans.cfg`: every list of up to three candidates with up to two of four targets, names of up to five characters, every walk through up to four zones, filters of up to six patterns with exclusions or expressions, every block of IPv4 and IPv6 addresses at the borders of blocks, mapped ones and addresses without a mask among them; 155361 states | `OrderDoesNotMatter`, `NearestZone`, `FiltersByLabel`, `SurvivesHandshake`, `ReverseZoneIsTheBlock` |
| `sources` | `MCInformers.cfg`: seven configurations (ingresses and nodes, two sources of pods, two of gateways, service entries under default targets, services on ports of nodes, headless ones, load balancers and external names) over two or three states of the cluster, two changes of it; 22204 states | types; `Plannable`, `NothingLost`, `PortsTogether`, `ListerOrderDoesNotMatter`, `EventsSeen`, `Fresh` |
| `startup` | `MCStartup.cfg`: four configurations with one or two syncs and up to five sources, one with an address that does not parse, six answers of the DNS service, two retries, three faults; 68322 states | types; `SourcesAccountedFor`, `OneSkipPerClient`, `HandshakeEnds`, `Comes` |
| `custom_resources` | `MCCustomResources.cfg`: two resources, two processes, three changes by users, one fault; 274564 states | types; `ObservedWasListed`, `StatusIsCurrent`, `Observed`, `Published` |

### Bounds

Two of everything that can interfere (replicas, owners, handlers, resources,
processes, names, zones) is the smallest number at which the interleavings
exist, and each property speaks of at most two parties at a time.

- `Sync`: `MaxEdits` bounds the changes of the clusters, `MaxFatals` the deaths of
  processes: one change and one death after it are enough for a late request to
  meet a restarted sender with another plan. With two changes a cluster asks for a
  name, gives it up, and asks again, or each of two asks for the other's name.
- `Scheduler`: `MaxLag` is the longest time between `time.Now()` and the mutex;
  the runs use one second, the granularity of the ticker. Ages stop counting at
  `Oldest`, beyond which no guard tells them apart.
- `Informers`: two changes (`MaxEdits`) make caches disagree about two kinds, and
  let one change come in the middle of a listing that follows another.
- `Startup`: `MaxRetries` stands for the retries the backoff makes; with two there
  is a first, a middle and a last attempt. Three faults let one client fail, come
  back, and a running sync die in between.
- `CustomResources`: three changes delete and recreate a resource of the same
  name under a call that holds the old copy.
- `Scans`: four characters spell a label that ends in another, empty labels and
  dots at both ends.

For all safety properties of passing runs the proofs of section 4 replace the
bounds.

### Assumptions on configurations

A sync owns what its resources label with its owner. Only a DNSEndpoint can do so
(`spec.endpoints[].labels`); what the other sources make is labelled with the
resource alone, and the registry adds the label `mesh` (`txt.go:177`). Such a record is
created, and from then on every update and deletion of it is dropped
(`endpoint.go:252`). Every instance of `Rounds` and `Sync` that is about ownership has
records of both kinds. The two clusters of `sync_owners` label theirs each with its own
owner, so that the zone has two owners and records signed by either registry;
`Converged` and `Converges` say of labelled records that they are what is asked for, and of
the others that they are there. `MCSync` gives the sync `other` that owner for its plans
as well: the program sets `mesh` for every sync (`dns-sync.go:141`), but
`Controller.Owner` is exported (`controller.go:203`) and the registry's owner is
configured (`dnssync` where there is no configuration, `dns-sync.go:37`), and with two different ones a
sync never changes anything it has created, see below.

Every address has one spelling in the instances, and, but for `rounds_spellings`,
every name.

`NoFlapping` and `Converged` are checked in `rounds_alone`, where no name changes
its type, and are proved for that case (`OneKey`); they hold only there: an
update takes the `mesh` label from the TXT record, which then stays in the
listing as an unowned record of the name; if the type changes next, the old
record is deleted, the new one is withheld because not all current records are
owned, and the name is gone until the round after.

With a TXT owner other than `mesh` the plan's updates and deletions (made for
owner `mesh`) are dropped by the registry, so that every round plans them anew.
`rounds_foreign` has such a configuration: it stays within what it owns.

A TXT record speaks for the sync whose owner its label `owner` names, whoever wrote it.
If a cluster labels its records `owner=mesh` and its sync runs as `other`, the registry
of `other` creates them, and a sync `mesh` that does not want them deletes them from a
provider that keeps labels.
`OwnerSafety` and `ZoneWithOwners` are therefore about syncs whose resources use no owner
label but their own (`OwnLabels`); `OwnerNamed` is what remains without that.

`ZoneWithOwners` is checked with others that write an A and a TXT record only, and
proved for others that put no record of another type beside one of the sync's
(`OthersApart`). With a record of another type at an owned name it does not hold, which is what
`sync_adoption` shows.

`NearestZone` says of the in-memory provider only what holds for zones whose
names do not end within a label of the name: it compares suffixes, dot or no dot.

`ListerOrderDoesNotMatter` says what the order of listers decides: for a service with
a local policy and pods in different conditions on one node, the first pod listed
decides about the node (`meshservice.go:579`). Of such a service the property says that
nodes all of whose running pods serve are taken, and no node without a serving pod
beside them; of everything else that order is immaterial. The instance has ready, unready
and leaving pods on one node. `MCInformers` assumes of its scenarios, and TLC
evaluates, all that the theorems about sources assume (`ScenariosKeepTo`).

`Plannable` says of names and targets what the sources see to. Two things they do not, and
both are in the instance: the name of a node may have an over-long label
(`node.go:102`), and a pod's address is put into an A record although it is an IPv6 one
(`k8s.go:129`).

`ReverseZoneIsTheBlock` says less of two kinds of blocks, that their zone is above the
names of their addresses: blocks smaller than a byte's zone, which RFC 2317
names within it, and those written with a mapped address, of whose names of bytes the code
trims as many labels as the mask leaves out half bytes.

### Fairness

`Sync` (`FairSpec`): the loop calls `RunOnce` again and again, an HTTP call ends,
informers catch up, a process that exits is restarted by whatever supervises it
(weak fairness of each). `PlanAndPost` is strongly fair: `AdjustFails` may end
any number of rounds before it, but not every one for ever. Nothing is assumed of
failures, cluster changes and other writers.

`Scheduler` (`FairSpec`): goroutines that can run do run (the loop's steps and
each handler's turn at the mutex; Go's mutex hands over to a waiter after a
millisecond), `RunOnce` ends, time passes. `EventsAreServed` allows for the loop
to have ended by cancellation or a fatal error.

`Informers` (`FairSpec`): a listing ends (`[]<>(phase # "listing")`: the calls of
`Endpoints` return), a due run starts, the interval passes, informers catch up,
handlers are called, an ended process is restarted (weak fairness). `Fresh` has
the hypothesis that the resources the cluster comes to rest in can be read by
all sources; caches that disagree before that are not excluded.

`Startup` (`FairSpec`): weak fairness of `Starting`, the main goroutine goes on
and the process is restarted. `HandshakeEnds` has the hypothesis that the
service does not leave requests unanswered for ever, for the client has no
timeout; `Comes` that the surroundings are good from some time on.

`CustomResources` (`FairSpec`): each process calls `Endpoints` again and again and
the calls go on (weak fairness). Writes may be refused or lost, users may edit.

### Deadlock

Checked everywhere but in `scans`, where the scan of a list comes to its end, and
in `startup`, where a process that ran once or got SIGTERM is done.

### Read, not run

Statements of the repository that the code does not keep and no run refutes:
`Targets.Same` sorts what it compares, so that an update may be sent with
targets in another order than those stored (`endpoint.go:100`); a record created
without an owner label gets none, for the registry sets only `mesh` (`txt.go:177`;
`impl-notes.md:8`: "All created entries get the owner added."); a cluster that labels its
records with another sync's owner gives them to it (`endpoint.go:252`); a
batch over several zones is applied in part (`inmemory.go:166`); the TXT record
of an updated record loses its `mesh` label (`txt.go:195`). They are part of the
models. Further:

- `inmemory.go` has a `Zones` method that calls itself, and the configured domain
  filter of the in-memory provider is never used (`provider.go:43`).
- `Run` never gives the version of the API of custom resources, so that the source
  `crd` cannot be made by it; `CustomResources` models the source as its tests use it.
- One node without an address fails the listing of all nodes (`node.go:161`).
- The source `k8s` publishes the IPv6 address of a pod in an A record (`k8s.go:129`). The
  deduplication compares no types, so that this record would hide an AAAA record of
  that name and address from a source after it.
- The source of nodes does not check the length of a label (`node.go:102`), as
  `NewEndpoint` does.
- The first pod that the lister returns for a node decides whether the node counts as
  serving (`meshservice.go:579`), in random order.
- With an exclusion set, a filter of expressions is decided by the exclusion alone,
  against its comment ("returns true only when regex matches", `domain_filter.go:126-128`).
  `Match` is modelled so; `SurvivesHandshake` compares before and after only.
- The reverse zone of a block written with a mapped address is another block's:
  `::ffff:10.20.30.0/120` gives `20.10.in-addr.arpa`, the zone of the /16
  (`arpa.go:84` and `:105`).
- An annotation `a,,b` yields an empty name (`source.go:173`).
- With `DNS_SYNC_ONCE` an error of the run is dropped (`dns-sync.go:145`), and a
  configuration file that is missing gives no syncs and no error.

## 4. Proofs

Theorems hold for all values of the constants that satisfy the assumptions named
in the modules (`EndpointsAssumption`, `CanonicalAssumption`,
`InMemoryAssumption`, `RoundsAssumption`, `SyncAssumption`, `SchedulerAssumption`,
`DomainNamesAssumption`, `ScansAssumption`, `SourcesAssumption`,
`ResourcesAssumption`, `InformersAssumption`, `StartupAssumption`,
`CustomResourcesAssumption`; `LiteralsAreStrings` tells the provers that a text in
quotes is a string). These state the types of the
parameters; beyond that, a state of a cluster has finitely many resources of a kind, target lists are closed under sorting, the plan's owner
of a `Sync` is not empty (it is the constant `"mesh"` in the code), intervals are
positive, there are finitely many custom resources and zones, addresses are of
four or sixteen bytes, and `LowerCase` changes nothing the second time and leaves
dots alone. Some theorems need more and say so.

| Theorem | Says | Hypotheses |
|---|---|---|
| `SyncProof!TypeCorrect` | `Spec => []TypeOK` for `Sync` | |
| `SyncProof!SyncInv` | `Spec => []Inv` | |
| `SyncProof!OwnerNamed` | handling a request changes only what a TXT record names the sync's owner for | `OneSpelling` |
| `SyncProof!Ownership` | `Spec => OwnerSafety` | `OneSpelling`, `OwnLabels`, `OthersUnmixed` |
| `SyncProof!CellsStayIntact` | `Spec => []CellsIntact` | |
| `SyncProof!PairsHold` | `Spec => []Paired` | `Foreign = {}` |
| `SyncProof!OneOrigin` | `Spec => []SameOrigin` | `Foreign = {}`, `PersistLabels` |
| `SyncProof!CellsStayDivided` | the invariant under the refinement | `OneSpelling`, `OwnLabels`, `OthersApart`, `PersistLabels` |
| `SyncProof!Implements` | `Spec => ZoneWithOwners`: `Sync` implements `OwnedZone` | the same |
| `SyncProof!CellsInUse`, `NoTXTAlone` | `[]NeverEmpty` of the abstract zone, and so of `Sync` | none; the same |
| `RoundsProof!TypeCorrect` | `Spec => []TypeOK` for `Rounds` | |
| `RoundsProof!Policy` | `Spec => PolicyRespected` | |
| `RoundsProof!Ownership` | `Spec => OwnerSafety` | `OneSpelling`, `PlansForOwner` |
| `RoundsProof!CellsStayIntact` | `Spec => []CellsIntact` | |
| `RoundsProof!PairsHold` | `Spec => []Paired` | `Foreign = {}` |
| `RoundsProof!CNAMEStaysAlone` | `Spec => []CNAMEExclusive` | `OneSpelling`, `PlansForOwner`, `OthersApart`, `PersistLabels` |
| `RoundsProof!HoldersStay` | `Spec => HolderKeepsName` | `OneSpelling`, `OneIdentifier`, `ResourcesNamed`, `PersistLabels`, `Foreign = {}` |
| `RoundsProof!Converges` | `Spec => []Converged` | `OneSpelling`, `OneKey`, `InScope`, `OneSpellingPerAddress`, `PersistLabels`, `Foreign = {}` |
| `RoundsProof!Steady` | `Spec => []NoFlapping` | `OneSpelling`, `OneKey`, `InScope`, `Decided`, `PersistLabels`, `Foreign = {}` |
| `SchedulerProof!SchedulerInv` | `Spec => []Inv` for `Scheduler` | |
| `SchedulerProof!TypeCorrect`, `EventsDue`, `RunsSpaced` | `Spec => []TypeOK`, `[]EventsAreDue`, `RunsAreSpaced` | |
| `StartupProof!StartupInv` | `Spec => []Inv` for `Startup` | |
| `StartupProof!TypeCorrect`, `SourcesAccounted`, `OneSkip` | `Spec => []TypeOK`, `[]SourcesAccountedFor`, `[]OneSkipPerClient` | |
| `InformersProof!InformersInv`, `NoEventLost` | `Spec => []Inv`, `[]EventsSeen` for `Informers` | |
| `InformersProof!InformersHeld`, `InformersTypes` | `Spec => []Held`, `[]TypeOK` | |
| `InformersProof!AlwaysPlannable` | `Spec => []Plannable` | |
| `InformersProof!AnyListerOrder` | `Spec => []ListerOrderDoesNotMatter` | `NamesAreUnique` |
| `InformersProof!PortsAreTogether` | `Spec => []PortsTogether` | `NamesAreUnique`, `OneMeshSource` |
| `InformersProof!NothingIsLost` | `Spec => []NothingLost` | `NamesAreUnique` |
| `CustomResourcesProof!CustomResourcesInv` | `Spec => []Inv` for `CustomResources` | |
| `CustomResourcesProof!TypeCorrect`, `ObservedListed`, `StatusCurrent` | `Spec => []TypeOK`, `[]ObservedWasListed`, `StatusIsCurrent` | |
| `ScansProof!ScansInv` | `Spec => []Inv` for `Scans` | |
| `ScansProof!AnyOrder` | `Spec => []OrderDoesNotMatter` | `OneRankPerTarget` |
| `ScansProof!AnyWalk` | `Spec => []LongestZones` | |
| `ScansProof!NearestWins` | `Spec => []NearestZone` | |
| `ScansProof!BlocksMatch` | `Spec => []ReverseZoneIsTheBlock` | |
| `ScansProof!HandshakeKeeps`, `FiltersGoByLabel` | `Spec => []SurvivesHandshake`, `[]FiltersByLabel` | `Constructed` |

### Hypotheses

Each is there because the property is false without it, and each run that
checks the property satisfies those of its theorem.

- `OneSpelling`: no two spellings of one name are in use. The plan pairs old and new
  values by normalised name, the provider writes by spelling;
  `rounds_spellings` is the counterexample without it.
- `PersistLabels`: the provider keeps the labels of records, as the in-memory one does.
- `Foreign = {}`: nobody else writes. `OthersApart`: they do, but use no label of an
  owner and put no record of another type beside one that the sources ask for;
  `sync_adoption` is what happens otherwise.
- `PlansForOwner`: a sync plans for an owner, as it does for the constant `mesh`
  (`dns-sync.go:141`). `OwnLabels`: no resource is labelled with the owner of another sync;
  it may bear its own sync's label, as a DNSEndpoint can, or none, as everything else does.
  `OthersUnmixed`: others may write TXT records with an owner's label, but none that names one
  sync's owner and the registry of another.
- `InScope`: the TXT owner is `mesh` too, or else the registry drops every update
  and deletion, and the names asked for are managed and in a zone of the provider.
- `OneIdentifier`: a name is asked for with one set identifier, because the labels of
  a TXT record are laid over the records of a name under all of them.
  `OneKey`: and with one type, see above. `ResourcesNamed`: a resource label is
  not empty.
- `OneSpellingPerAddress`: `Same` lets the first difference decide, even if it is
  two spellings of one address (`endpoint.go:123`). `OneRankPerTarget` is the
  same for the order in which candidates are compared.
- `Decided`: no two records asked for under one key are equal for `IsLess`; the
  deduplicating source lets one record through for a name and targets.
- `NamesAreUnique`: a namespace has one service of a name, as the API server sees to.
  Names of records are made of both, and so are the resource labels that decide the order of the merge.
- `OneMeshSource`: a configuration names the source of services once; two of them
  list every record twice, at different moments, and the deduplication keeps
  both where their ports differ.
- `Constructed`: a filter was made by one of its two constructors. They strip one
  dot at the end of a domain and the comparison strips one from a name, so
  that domains ending in two dots are kept out by the same hypothesis.

### Arguments

**Ownership.** `OwnerSafety` is about the store at the moment a request is handled,
which may be long after it was planned. It cannot follow from what the sync
listed. What carries it is an invariant of requests (`RequestsAreMade`): every
batch on its way, sent or late, is what the registry made of some plan of its
sender, for some listing and some wish. `MadeIsOwned` derives what matters from
that: each deletion and each old value is labelled with the sync's owner and
comes with the TXT record generated for it, which spells that owner out; and
each new value has an old value with its key beside it (here `OneSpelling` is
needed). `OwnedBatchIsSafe` then needs only `validateChangeBatch`: if the batch
is accepted in a zone, the TXT record in the zone at that moment has the text
the batch names, so its owner is the sync's; and creations change no record
that is there. That is `OwnerNamed`. For `OwnerSafety` the TXT record must not be one
that another sync's registry signed: `TextsUnmixed` says that no TXT record in the
zones names one sync's owner and the registry of another, and is kept because a request
bears its own owner's marks in all it writes (`MadeIsPlanned`).

**Pairs.** A cell is a name with a set identifier. It is intact when it is empty, or
holds one record, the TXT record made for it, and nothing else. A batch of the
registry lists both of a pair or neither, in each of its four lists
(`RegistryPairs`), and both are in one zone, so that a batch applied in part
still handles both. `CellOutcome` says what a batch can leave in an intact cell:
what was there, nothing, or one of the batch's own pairs. `Paired` and
`SameOrigin` follow, for any interleaving, because nothing in the argument
speaks of when the batch was planned.

**Refinement.** `Sync` implements `OwnedZone`: the invariant is that every cell is
either wholly the others' (`IsOthers`) or holds an owner's pair (`IsOwned`), whose
labels are among the `Marks` of one owner: they name it in `owner`, or in `mesh` as the
registry does with what a source did not label. A
request is a `Write` of the owner the registry labels with (`ContestedOutcome`): cells it
changes are empty before or name that owner (validation of the TXT record's text
again), and are empty or bear its marks afterwards. The others cannot get into an
owned cell, because a creation there is refused. Every other step stutters.
`NoTXTAlone` is what the abstract specification then gives for nothing.

**Rounds.** `Policy` needs no hypothesis: the policy filters the plan, and a batch
changes only what it lists. `CNAMEStaysAlone` rests on the divided cells: an owned cell holds
one record besides its TXT record, whatever type it had before, and the others
keep to the rule among themselves. `HoldersStay` needs that a listed
record has the resource of the record stored, although its labels are those of
its TXT record: with an intact cell that is the record it was made for.

**Convergence.** `NoFlapping` and `Converged` are about what the next plan, computed
from the zones, would be. The invariant is `Settled`: after an accepted round, each
record asked for is in the store under its key, under the policy `sync` nothing
else of the owner's is, and unless the policy is `create-only` each stored record of
the owner is one that some preferred candidate need not update. Records without the
owner's label need nothing of the kind: no plan changes them. `PlanTable`, `PlanCreates`,
`PlanDeletes` and `PlanUpdates` compute the plan from the listing (`ListedAsStored`: the registry lists records as they are
stored); `RoundSettles` shows that a plan carried out settles the store,
`StaysSettled` and `PreferredAgain` that the next plan prefers what the last one
preferred. That a
comparison of target lists in place and on copies comes to the same end is the
part about sorting in `RecordLemmas` (`SortedOnce`, `SameIsEqual`).

**Scheduler.** `RunsAreSpaced` is not inductive: a run starts when `due` has passed,
and nothing in that guard speaks of the last run. `SpacedPlan` strengthens it:
`due + since >= Shorter - MaxLag`, that is, the planned run is always far enough
from the last start, whichever of the loop and the handlers planned it and
however old their times were. `EventsAreDue` is inductive together with the types,
because `Scheduled` only ever brings a run forward.

**Start-up.** `SourcesAccountedFor` speaks of syncs that run, but is decided step by
step in a constructor long before. The invariant follows it there: `StepsTaken`
says that the steps behind the present one are of the three kinds a constructor
can get past, and that each client waited for is there; `Making` that the sources
before the present one are accounted for; `NothingElse` that nothing is on
record of a source that was not looked at, so that none is both made and left
out. A client that is there stays there (`ClientsStay`), which keeps all of it
true of earlier sources and syncs while others are started. `OneEach` carries
`OneSkipPerClient`: a source is left out for a client only by the step that makes
the client, and a client is made once.

**Informers.** A cache that has moved since its source was last asked is waited for
by a handler, a due run, or a run that has not come to the source yet. The one
gap is a run that ends before: `FailedIsLast` and `ChainFails` show that it fails
as a whole then, so that the process ends and its caches are filled anew.

The other four invariants are about what is listed, and what a source makes of a
list of resources is a fold. None is computed by induction over operators;
instead each kind of loop has a lemma about the set of what comes out
(`Only`, `Deduped`, `SortedBy`, gathering in a map, merging), proved with the
least length at which it fails. On these rest, for each source, its *content*
(`SourceContent`): the set of its cells with their sets of targets, defined from the set of
resources, so that no order is left in it. `SourceAnswers` is the heart:
whatever walk a source takes, it returns records or the one error it has, by a
condition on the set of resources (`SourceWell`), and its records have that
content. For seven sources this needs no hypothesis. The source of services
is harder: the merge looks only at neighbours and takes only first targets, so that
`MeshAnswer` needs to know that records of one name and type stand together,
are of one service (`NamesAreUnique`) and have one target each. The nodes of a service with
a local policy come from the first pod on each: `MeshAnswer` gives the content apart from
the names of services the order decides about, and `KeptWithinBounds` the bounds
for those.

`Held` says that whatever a source sees is of some cluster state for each kind
(caches need not agree), that the results of a run are answers to what was read, and that
the listing has records that fit (`Usable`). `TypeOK`, `Plannable` and, by
`SameAnswers`, `ListerOrderDoesNotMatter` follow. `PortsTogether` looks at two
records of the listing: `PortsInChain` traces both back through filter, deduplication
and default targets to one call of the one source of services, where `MeshAnswer`
has one record per name. `NothingLost` speaks of a finished run, and the answers it was made
of are gone by then; `Covered` says that there were such answers, to what `used`
still has. What a source makes of one resource alone it makes of all of them
(`ContentGrows`; for a service alone `AloneService` shows one of its answers, the one
with pods and nodes in the same order), and the chain offers no less for more records
(`ChainOffers`, `ChainGrows`): a duplicate is dropped only for a record with the same
name, identifier and targets. What is offered is counted by name and identifier, not by
type (`Place`), because of two records of one name and targets the deduplication keeps one, of
whatever type; the filter decides by the target alone (`KeptByType`).

**Custom resources.** `StatusIsCurrent` is about a write of an old copy. The
invariant says of every copy that some call still has to go through that it is
no newer than the API server's resource, and that with the same version it is
the same resource: the API server's check of the version then makes the
generation written the present one. For `ObservedWasListed` each copy was seen by
a listing.

**Scans.** The invariant of each loop says that nothing behind the index is better
than what is kept. For candidates that needs the order of target lists to be
transitive, which is shown through the first place where two sorted lists
differ; for zones, that two suffixes of one length are the same.
`NearestWins` and `FiltersGoByLabel` compare strings with labels: labels are
counted from the end of a name (`LabelsFromEnd`), a suffix with a dot before it
is a sequence of whole labels (`EndIsBehindDot`), and so `IsParent` and the
reference definition `IsBelowOrAt` agree (`LabelsAgree`). Induction over lengths
is done by hand with the least number for which a statement fails. For
`BlocksMatch` a byte is its bits and half a byte the half of them (`HalfBytes`), so
that a mask of whole digits compares digits (`BlockDigits`), and digits cut off
the front of a reverse name are the last of the address (`CutReverseName`). The cases of
`BlockZone` are `WholeZone`, `ClasslessZone` and `MappedZone`; `CidrType` brings
an address without a mask back to one with a mask.

`RecordLemmas` has what `SyncProof` and `RoundsProof` rest on: what the operators of
`Endpoints`, `Plan`, `TXTRegistry` and `InMemory` return for any arguments.

### Only model-checked

- `Sync.Converges`, `EventsAreServed`, `Fresh`, `HandshakeEnds`, `Comes`, `Observed`,
  `Published`: liveness under fairness is out of the prover's reach.
- The three statements the code does not keep.

## 5. Not modelled

- Concurrent requests inside the in-memory provider: a race in a Go map may be a
  fatal error or leave anything behind.
- How text becomes values: the parsing of annotations, labels, templates, flags,
  configuration files and JSON.
- The resolution of load balancers' host names by DNS, the filters of services by
  annotation and type, and everything else that the program's own calls of the
  constructors switch off.
- The protocol of the connector source, whose server is another program.
- Metrics, logging, generated clients and types.

## 6. Plan

Written so far, in this order: `Endpoints`, `Plan`, `TXTRegistry`, `InMemory`,
`Rounds` (the computation of a round), `Sync` (rounds against each other),
`Scheduler`; then `OwnedZone`, `Sources`, `Resources`, `MeshServices`,
`Informers`, `CustomResources`, `Startup`, `DomainNames`, `ReverseZones`,
`Scans`; and the proofs about all modules with a state: types and safety of `Rounds`,
`Sync` (with its refinement of `OwnedZone`), `Scheduler`, `CustomResources`,
`Startup`, `Scans` and `Informers`. Every safety property of a passing run has a theorem.

Next:

1. An abstract `Throttle` (events, and runs at a distance) that `Scheduler`
   implements.
2. A provider with a step per zone and concurrent requests, refining the atomic
   one of `InMemory` where it does.
