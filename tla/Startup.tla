------------------------------- MODULE Startup -------------------------------
(***************************************************************************)
(* How the process comes up (main.go, pkg/dns-sync/dns-sync.go,            *)
(* source/store.go, the constructors of the sources and the handshake of   *)
(* provider/webhook/webhook.go).                                           *)
(*                                                                         *)
(* One goroutine starts the syncs one after the other, in the order of a   *)
(* Go map: first the provider, for which the DNS service may have to be    *)
(* asked, then the sources, which share their clients.  A source that      *)
(* cannot be made is left out; everything else that goes wrong ends the    *)
(* process, and with it the syncs that run already.                        *)
(***************************************************************************)
EXTENDS Integers, Sequences, FiniteSets

CONSTANTS
  Configurations,  \* what the configuration may say: syncs by name
  Default,         \* the syncs of a configuration that does not parse
  Answers,         \* what the DNS service may answer to the handshake
  MaxRetries,      \* bound on retries of a handshake (webhook.go)
  MaxFaults        \* bound on changes in the surroundings and fatal rounds

ASSUME StartupAssumption ==
  /\ \A c \in Configurations \cup {Default} : \A s \in DOMAIN c :
       c[s].sources \in Seq([name : STRING, labels : BOOLEAN, template : BOOLEAN])
  /\ MaxRetries \in Nat /\ MaxFaults \in Nat

VARIABLES
  syncs,       \* the configuration of the process
  once,        \* DNS_SYNC_ONCE is set
  phase,       \* where the main goroutine is
  sync,        \* the sync it is starting, if it is
  started,     \* the syncs that have been started
  attempts,    \* of the handshake
  source,      \* index of the source that is made
  step,        \* index of the step of its constructor
  clients,     \* clients[k]: "new" before sync.Once, "ok", or "nil" after an error
  built,       \* <<s, i>>: source i of sync s was made
  skipped,     \* <<s, i, why>>: it was not
  service,     \* the answer the DNS service gives now
  kubeconfig,  \* clients can be made
  api,         \* the API server answers
  faults       \* number of faults so far

vars == <<syncs, once, phase, sync, started, attempts, source, step, clients,
          built, skipped, service, kubeconfig, api, faults>>
process == <<syncs, once, phase, sync, started, attempts, source, step, clients, built, skipped>>
surroundings == <<service, kubeconfig, api>>

(***************************************************************************)
(* The constructors of sources: <<"client", k>> gets a client, <<"wait",   *)
(* k>> waits until the informers of client k have filled their caches, and *)
(* <<"template">> parses the template for names.                           *)
(***************************************************************************)
NewNodeSource == <<<<"client", "kube">>, <<"wait", "kube">>>>
NewPodSource == NewNodeSource
NewK8SSource == NewNodeSource
NewMeshServiceSource == NewNodeSource
NewIngressSource == <<<<"client", "kube">>, <<"template">>, <<"wait", "kube">>>>
NewGatewayRouteSource ==
  <<<<"template">>, <<"client", "gateway">>, <<"client", "kube">>,
    <<"wait", "gateway">>, <<"wait", "kube">>>>
NewIstioServiceEntrySource == <<<<"client", "kube">>, <<"client", "istio">>, <<"wait", "istio">>>>
NewIstioGatewaySource ==
  <<<<"client", "kube">>, <<"client", "istio">>, <<"template">>,
    <<"wait", "kube">>, <<"wait", "istio">>>>
\* Run gives no version of the API of custom resources, and discovery refuses.
NewCRDSource == <<<<"client", "kube">>, <<"discover", "kube">>>>
NewConnectorSource == <<>>

BuildWithConfig(name) ==
  CASE name = "node" -> NewNodeSource
    [] name = "pod" -> NewPodSource
    [] name = "k8s" -> NewK8SSource
    [] name = "mesh-service" -> NewMeshServiceSource
    [] name = "ingress" -> NewIngressSource
    [] name = "gateway" -> NewGatewayRouteSource
    [] name = "istio-se" -> NewIstioServiceEntrySource
    [] name = "istio-gateway" -> NewIstioGatewaySource
    [] name = "crd" -> NewCRDSource
    [] name = "connector" -> NewConnectorSource
    [] OTHER -> <<<<"unknown">>>>

\* The informers a constructor starts, all of them before the first wait.
Waits(name) ==
  LET steps == BuildWithConfig(name)
  IN  {steps[j][2] : j \in {i \in DOMAIN steps : steps[i][1] = "wait"}}

Kinds == {"kube", "gateway", "istio"}
NoClients == [k \in Kinds |-> "new"]
NoSync == ""

Fresh ==
  /\ phase' = "loading" /\ sync' = NoSync /\ started' = {} /\ attempts' = 0
  /\ source' = 1 /\ step' = 1 /\ clients' = NoClients /\ built' = {} /\ skipped' = {}

Init ==
  /\ syncs = <<>> /\ once \in BOOLEAN
  /\ phase = "loading" /\ sync = NoSync /\ started = {} /\ attempts = 0
  /\ source = 1 /\ step = 1 /\ clients = NoClients /\ built = {} /\ skipped = {}
  /\ service \in Answers /\ kubeconfig \in BOOLEAN /\ api \in BOOLEAN
  /\ faults = 0

(***************************************************************************)
(* LoadAndRun and Run.                                                     *)
(***************************************************************************)
\* A file that is missing is no error: there are no syncs then.
Load ==
  /\ phase = "loading"
  /\ syncs' \in Configurations \cup {Default, <<>>}
  /\ phase' = "next"
  /\ UNCHANGED <<once, sync, started, attempts, source, step, clients, built, skipped,
                 surroundings, faults>>

NextSync(s) ==
  /\ phase = "next"
  /\ s \in DOMAIN syncs \ started
  /\ sync' = s
  /\ phase' = IF syncs[s].address = "" THEN "sources" ELSE "handshake"
  /\ attempts' = 0 /\ source' = 1 /\ step' = 1
  /\ UNCHANGED <<syncs, once, started, clients, built, skipped, surroundings, faults>>

\* log.Fatal, or a panic.
ProcessEnds == phase' = "down"

(***************************************************************************)
(* NewWebhookProvider.                                                     *)
(***************************************************************************)
\* The request has no timeout: nothing happens until it is answered.
Silent == service.status = -1
Connected == service.status # 0
Rejected == service.status \in 300 .. 499
Understood == service.decodes /\ service.contentType

CanRetry == attempts <= MaxRetries

\* An address that is no URL ends the process before any attempt.
Parses(address) == address # "%"

\* Sets no limit to a retry.
AttemptForEver ==
  /\ ~Silent
  /\ attempts' = IF attempts <= MaxRetries THEN attempts + 1 ELSE attempts
  /\ IF ~Connected THEN UNCHANGED phase
     ELSE IF Rejected \/ ~Understood THEN ProcessEnds ELSE phase' = "sources"

\* The time for all attempts may be over before they are.
Attempt ==
  /\ ~Silent
  /\ attempts' = IF attempts <= MaxRetries THEN attempts + 1 ELSE attempts
  /\ \/ ~Connected /\ CanRetry' /\ UNCHANGED phase
     \/ ~Connected /\ ProcessEnds
     \/ Connected /\ (Rejected \/ ~Understood) /\ ProcessEnds
     \/ Connected /\ ~Rejected /\ Understood /\ phase' = "sources"

Handshake ==
  /\ phase = "handshake"
  /\ \/ ~Parses(syncs[sync].address) /\ ProcessEnds /\ UNCHANGED attempts
     \/ Parses(syncs[sync].address) /\ Attempt
  /\ UNCHANGED <<syncs, once, sync, started, source, step, clients, built, skipped,
                 surroundings, faults>>

(***************************************************************************)
(* The sources of the sync.                                                *)
(***************************************************************************)
SourceSpec == syncs[sync].sources[source]
Steps == IF SourceSpec.labels THEN BuildWithConfig(SourceSpec.name) ELSE <<<<"labels">>>>
AtStep(what) ==
  /\ phase = "sources"
  /\ source <= Len(syncs[sync].sources)
  /\ step <= Len(Steps)
  /\ Steps[step][1] = what

NextStep == step' = step + 1 /\ UNCHANGED <<source, skipped>>

\* Writes down the source after the one it leaves out.
SkipNext(why) ==
  /\ skipped' = skipped \cup {<<sync, source + 1, why>>}
  /\ source' = source + 1 /\ step' = 1

\* The source is ignored, with a line in the log.
Skip(why) ==
  /\ skipped' = skipped \cup {<<sync, source, why>>}
  /\ source' = source + 1 /\ step' = 1

\* Makes a client again after an error.
MakesClientAgain(k) == clients[k] # "ok"

\* sync.Once: only the first caller makes the client.
MakesClient(k) == clients[k] = "new"

\* A client of any kind is made of a configuration that has to be there and to
\* parse; the server is not asked.
NewClient == IF kubeconfig THEN "ok" ELSE "nil"

\* The first caller gets the error of the attempt, later ones a nil client.
GetClient ==
  /\ AtStep("client")
  /\ LET k == Steps[step][2]
     IN  IF MakesClient(k)
         THEN /\ clients' = [clients EXCEPT ![k] = NewClient]
              /\ IF NewClient = "ok" THEN NextStep ELSE Skip(k)
         ELSE NextStep /\ UNCHANGED clients
  /\ UNCHANGED <<syncs, once, phase, sync, started, attempts, built, surroundings, faults>>

\* The informers' goroutines call a nil client and panic.
UsesNilClient ==
  /\ \/ AtStep("wait") /\ \E k \in Waits(SourceSpec.name) : clients[k] = "nil"
     \/ AtStep("discover") /\ clients[Steps[step][2]] = "nil"
  /\ ProcessEnds
  /\ UNCHANGED <<syncs, once, sync, started, attempts, source, step, clients, built, skipped,
                 surroundings, faults>>

\* Does not look at the client.
WaitWithAnyClient ==
  /\ AtStep("wait")
  /\ IF api THEN NextStep ELSE Skip("cache")
  /\ UNCHANGED <<syncs, once, phase, sync, started, attempts, clients, built, surroundings, faults>>

\* WaitForCacheSync: the caches fill, or not within a minute.
WaitForCacheSync ==
  /\ AtStep("wait")
  /\ \A k \in Waits(SourceSpec.name) : clients[k] = "ok"
  /\ IF api THEN NextStep ELSE Skip("cache")
  /\ UNCHANGED <<syncs, once, phase, sync, started, attempts, clients, built, surroundings, faults>>

\* Everything that the configuration alone decides; discovery reads another
\* configuration of clients, which may be wrong too, before it uses the client.
CheckSpec ==
  /\ \/ AtStep("template") /\ IF SourceSpec.template THEN NextStep ELSE Skip("template")
     \/ AtStep("labels") /\ Skip("labels")
     \/ AtStep("unknown") /\ Skip("unknown")
     \/ AtStep("discover") /\ Skip("discover")
  /\ UNCHANGED <<syncs, once, phase, sync, started, attempts, clients, built, surroundings, faults>>

AddSource ==
  /\ phase = "sources"
  /\ source <= Len(syncs[sync].sources)
  /\ step > Len(Steps)
  /\ built' = built \cup {<<sync, source>>}
  /\ source' = source + 1 /\ step' = 1
  /\ UNCHANGED <<syncs, once, phase, sync, started, attempts, clients, skipped, surroundings, faults>>

\* The controller's goroutine starts; with DNS_SYNC_ONCE it runs here, and an
\* error of the run is dropped.
StartSync ==
  /\ phase = "sources"
  /\ source > Len(syncs[sync].sources)
  /\ started' = started \cup {sync}
  /\ sync' = NoSync
  /\ phase' = "next"
  /\ UNCHANGED <<syncs, once, attempts, source, step, clients, built, skipped, surroundings, faults>>

Serve ==
  /\ phase = "next"
  /\ started = DOMAIN syncs
  /\ phase' = IF once THEN "done" ELSE "serving"
  /\ UNCHANGED <<syncs, once, sync, started, attempts, source, step, clients, built, skipped,
                 surroundings, faults>>

(***************************************************************************)
(* The end of the process, and its surroundings.                           *)
(***************************************************************************)
\* A started sync meets a fatal error, wherever the main goroutine is.
RoundDies ==
  /\ ~once /\ started # {} /\ phase \notin {"down", "done"}
  /\ faults < MaxFaults
  /\ faults' = faults + 1
  /\ ProcessEnds
  /\ UNCHANGED <<syncs, once, sync, started, attempts, source, step, clients, built, skipped,
                 surroundings>>

\* SIGTERM, once the main goroutine waits for it.
Terminate ==
  /\ phase = "serving"
  /\ phase' = "done"
  /\ UNCHANGED <<syncs, once, sync, started, attempts, source, step, clients, built, skipped,
                 surroundings, faults>>

\* Keeps the clients, and sync.Once with them.
RestartKeepingClients ==
  /\ phase = "down"
  /\ phase' = "loading" /\ sync' = NoSync /\ started' = {} /\ attempts' = 0
  /\ source' = 1 /\ step' = 1 /\ built' = {} /\ skipped' = {}
  /\ syncs' = <<>>
  /\ UNCHANGED <<once, clients, surroundings, faults>>

Restart ==
  /\ phase = "down"
  /\ Fresh
  /\ syncs' = <<>>
  /\ UNCHANGED <<once, surroundings, faults>>

SurroundingsChange ==
  /\ faults < MaxFaults
  /\ faults' = faults + 1
  /\ \/ service' \in Answers /\ UNCHANGED <<kubeconfig, api>>
     \/ kubeconfig' = ~kubeconfig /\ UNCHANGED <<service, api>>
     \/ api' = ~api /\ UNCHANGED <<service, kubeconfig>>
  /\ UNCHANGED process

Next ==
  \/ Load \/ Handshake \/ GetClient \/ UsesNilClient \/ WaitForCacheSync \/ CheckSpec
  \/ AddSource \/ StartSync \/ Serve \/ RoundDies \/ Terminate \/ Restart \/ SurroundingsChange
  \/ \E s \in DOMAIN syncs : NextSync(s)

Spec == Init /\ [][Next]_vars

\* The main goroutine goes on, and the process is restarted when it ends.
Starting ==
  \/ Load \/ Handshake \/ GetClient \/ UsesNilClient \/ WaitForCacheSync \/ CheckSpec
  \/ AddSource \/ StartSync \/ Serve \/ Restart
  \/ \E s \in DOMAIN syncs : NextSync(s)

FairSpec == Spec /\ WF_vars(Starting)

-------------------------------------------------------------------------------
AllSyncs == UNION {DOMAIN c : c \in Configurations \cup {Default}}

TypeOK ==
  /\ syncs \in Configurations \cup {Default, <<>>}
  /\ phase \in {"loading", "next", "handshake", "sources", "serving", "done", "down"}
  /\ sync \in AllSyncs \cup {NoSync}
  /\ started \subseteq DOMAIN syncs
  /\ attempts \in 0 .. MaxRetries + 1
  /\ clients \in [Kinds -> {"new", "ok", "nil"}]
  /\ \A b \in built : b[1] \in DOMAIN syncs /\ b[2] \in DOMAIN syncs[b[1]].sources
  /\ \A b \in skipped : b[1] \in DOMAIN syncs /\ b[2] \in DOMAIN syncs[b[1]].sources
  /\ faults \in 0 .. MaxFaults

\* Every source of a started sync was either made or left out, not both, and a
\* made one waits for caches of existing clients only: the nil client that
\* sync.Once hands to its second caller (store.go:109) never ends up in a sync
\* that runs and lists nothing.
SourcesAccountedFor ==
  \A s \in started : \A i \in DOMAIN syncs[s].sources :
    IF <<s, i>> \in built
    THEN /\ \A b \in skipped : <<b[1], b[2]>> # <<s, i>>
         /\ \A k \in Waits(syncs[s].sources[i].name) : clients[k] = "ok"
    ELSE \E b \in skipped : <<b[1], b[2]>> = <<s, i>>

\* A client that cannot be made costs one source: whichever source needs it
\* next is not left out but ends the process, and the restart tries anew.
OneSkipPerClient ==
  \A k \in Kinds : Cardinality({b \in skipped : b[3] = k}) <= 1

\* A handshake ends, with or without success, whatever a service that does not
\* leave requests unanswered for ever does.
HandshakeEnds == <>[]~Silent => (phase = "handshake" ~> phase # "handshake")

\* The configured syncs get to run, all of them, once all addresses are URLs, the
\* service answers as it should, clients can be made and rounds stop failing,
\* though before that the process ends again and again, and whatever sync ran
\* already with it.  The API server need not answer: its sources are left out then.
Good ==
  /\ service.status = 200 /\ Understood /\ kubeconfig
  /\ \A s \in DOMAIN syncs : Parses(syncs[s].address)
Comes == <>[]Good => <>[](phase \in {"serving", "done"} /\ started = DOMAIN syncs)
=============================================================================
