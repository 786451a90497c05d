---------------------------- MODULE StartupProof -----------------------------
(***************************************************************************)
(* Proofs about Startup: what becomes of the sources of a sync, for any    *)
(* configurations, answers of the DNS service and bounds.                  *)
(***************************************************************************)
EXTENDS Startup, FiniteSetTheorems, TLAPS

SourceType == [name : STRING, labels : BOOLEAN, template : BOOLEAN]

\* The steps of source i of sync s, and the informers they wait for.
StepsOf(s, i) ==
  IF syncs[s].sources[i].labels THEN BuildWithConfig(syncs[s].sources[i].name)
  ELSE <<<<"labels">>>>

WaitsOf(s, i) == Waits(syncs[s].sources[i].name)

Sources(s) == 1 .. Len(syncs[s].sources)

\* A source is made, and its clients are there, or it is left out, not both.
Accounted(s, i) ==
  IF <<s, i>> \in built
  THEN /\ \A b \in skipped : <<b[1], b[2]>> # <<s, i>>
       /\ \A k \in WaitsOf(s, i) : clients[k] = "ok"
  ELSE \E b \in skipped : <<b[1], b[2]>> = <<s, i>>

Types ==
  /\ \A s \in DOMAIN syncs : syncs[s].sources \in Seq(SourceType)
  /\ clients \in [Kinds -> {"new", "ok", "nil"}]
  /\ started \subseteq DOMAIN syncs
  /\ source \in Nat \ {0} /\ step \in Nat \ {0}
  /\ \A b \in built : b[2] \in Nat
  /\ \A b \in skipped : b[2] \in Nat

\* The sync whose sources are made is not started yet, and its sources are
\* accounted for up to the present one.
Making ==
  phase = "sources" =>
    /\ sync \in DOMAIN syncs \ started
    /\ source \in 1 .. Len(syncs[sync].sources) + 1
    /\ \A i \in 1 .. source - 1 : Accounted(sync, i)

\* The steps that a constructor has taken are of three kinds, and no client it
\* has waited for is nil.
StepsTaken ==
  (phase = "sources" /\ source \in Sources(sync)) =>
    \A j \in 1 .. Len(StepsOf(sync, source)) :
      j < step =>
        /\ StepsOf(sync, source)[j][1] \in {"client", "wait", "template"}
        /\ StepsOf(sync, source)[j][1] = "wait" =>
             clients[StepsOf(sync, source)[j][2]] = "ok"

\* During the handshake none has been looked at.
Asking ==
  phase = "handshake" => sync \in DOMAIN syncs \ started /\ source = 1 /\ step = 1

\* Nothing is written down of sources that were not looked at.
OnRecord(s, i) == s \in started \/ (phase = "sources" /\ s = sync /\ i < source)

NothingElse ==
  phase # "down" =>
    /\ \A b \in built : OnRecord(b[1], b[2])
    /\ \A b \in skipped : OnRecord(b[1], b[2])

Unused ==
  phase = "loading" => started = {} /\ built = {} /\ skipped = {}

\* Of the sources left out for a client at most one is on record, and none as
\* long as nobody has asked for it.
OneEach ==
  /\ \A a, b \in skipped : (a[3] = b[3] /\ a[3] \in Kinds) => a = b
  /\ \A b \in skipped : b[3] \in Kinds => clients[b[3]] # "new"

Inv ==
  /\ Types
  /\ \A s \in started : \A i \in Sources(s) : Accounted(s, i)
  /\ Making /\ StepsTaken /\ Asking /\ NothingElse /\ Unused /\ OneEach

-------------------------------------------------------------------------------
StepType ==
  {<<"template">>, <<"unknown">>, <<"labels">>} \cup ({"client", "wait", "discover"} \X Kinds)

\* Every constructor is a list of steps.
LEMMA ConstructorSteps ==
  ASSUME NEW name
  PROVE  BuildWithConfig(name) \in Seq(StepType)
<1>1. /\ <<"template">> \in StepType /\ <<"unknown">> \in StepType
      /\ <<"client", "kube">> \in StepType /\ <<"wait", "kube">> \in StepType
      /\ <<"client", "gateway">> \in StepType /\ <<"wait", "gateway">> \in StepType
      /\ <<"client", "istio">> \in StepType /\ <<"wait", "istio">> \in StepType
      /\ <<"discover", "kube">> \in StepType
  BY DEF StepType, Kinds
<1> HIDE DEF StepType
<1>2. /\ NewNodeSource \in Seq(StepType) /\ NewIngressSource \in Seq(StepType)
      /\ NewPodSource \in Seq(StepType) /\ NewK8SSource \in Seq(StepType)
      /\ NewMeshServiceSource \in Seq(StepType)
  BY <1>1 DEF NewNodeSource, NewPodSource, NewK8SSource, NewMeshServiceSource, NewIngressSource
<1>3. NewGatewayRouteSource \in Seq(StepType)
  BY <1>1 DEF NewGatewayRouteSource
<1>4. NewIstioServiceEntrySource \in Seq(StepType)
  BY <1>1 DEF NewIstioServiceEntrySource
<1>5. NewIstioGatewaySource \in Seq(StepType)
  BY <1>1 DEF NewIstioGatewaySource
<1>6. NewCRDSource \in Seq(StepType) /\ NewConnectorSource \in Seq(StepType)
  BY <1>1 DEF NewCRDSource, NewConnectorSource
<1>7. <<<<"unknown">>>> \in Seq(StepType)
  BY <1>1
<1>8. QED
  BY <1>2, <1>3, <1>4, <1>5, <1>6, <1>7 DEF BuildWithConfig

\* The steps of a constructor are steps.
LEMMA StepsType ==
  ASSUME NEW s, NEW i
  PROVE  StepsOf(s, i) \in Seq(StepType)
<1>1. <<<<"labels">>>> \in Seq(StepType)
  <2>1. <<"labels">> \in StepType
    BY DEF StepType
  <2>2. QED
    BY <2>1
<1>2. QED
  BY <1>1, ConstructorSteps DEF StepsOf

\* Clients and waits name a kind of client.
LEMMA StepKind ==
  ASSUME NEW st \in StepType, st[1] \in {"client", "wait"}
  PROVE  st[2] \in Kinds
BY DEF StepType

\* Sources wait for clients of the known kinds.
LEMMA WaitsKinds ==
  ASSUME NEW name
  PROVE  Waits(name) \subseteq Kinds
<1> DEFINE steps == BuildWithConfig(name)
<1>1. ASSUME NEW j \in DOMAIN steps, steps[j][1] = "wait"
      PROVE  steps[j][2] \in Kinds
  <2>1. steps[j] \in StepType
    BY ConstructorSteps
  <2>2. QED
    BY <1>1, <2>1, StepKind
<1>2. QED
  BY <1>1 DEF Waits

-------------------------------------------------------------------------------
\* A client that is there stays there.
ClientsStay == \A k \in Kinds : clients[k] = "ok" => clients'[k] = "ok"

\* What is on record of a source stays so when another one is looked at.
LEMMA AccountedStays ==
  ASSUME NEW s, NEW i, Accounted(s, i), UNCHANGED syncs, ClientsStay,
         \A b \in built' \ built : b # <<s, i>>, built \subseteq built',
         \A b \in skipped' \ skipped : <<b[1], b[2]>> # <<s, i>>, skipped \subseteq skipped'
  PROVE  Accounted(s, i)'
<1>1. \A k \in WaitsOf(s, i) : k \in Kinds
  BY WaitsKinds DEF WaitsOf
<1>2. WaitsOf(s, i)' = WaitsOf(s, i)
  BY DEF WaitsOf
<1>3. CASE <<s, i>> \in built
  BY <1>1, <1>2, <1>3 DEF Accounted, ClientsStay
<1>4. CASE <<s, i>> \notin built
  BY <1>2, <1>4 DEF Accounted
<1>5. QED
  BY <1>3, <1>4

\* The steps of a source are a list, whatever the source is.
LEMMA SourceSteps ==
  ASSUME NEW s, NEW i
  PROVE  /\ StepsOf(s, i) \in Seq(StepType) /\ Len(StepsOf(s, i)) \in Nat
         /\ DOMAIN StepsOf(s, i) = 1 .. Len(StepsOf(s, i))
BY StepsType

\* The main goroutine goes on to the next step of a constructor.
LEMMA Advances ==
  ASSUME Inv, phase = "sources", source \in Sources(sync), step <= Len(StepsOf(sync, source)),
         StepsOf(sync, source)[step][1] \in {"client", "wait", "template"},
         StepsOf(sync, source)[step][1] = "wait" =>
           clients[StepsOf(sync, source)[step][2]] = "ok",
         UNCHANGED <<syncs, phase, sync, started, source, built, skipped>>,
         step' = step + 1, ClientsStay, clients' \in [Kinds -> {"new", "ok", "nil"}],
         \A k \in Kinds : clients'[k] = "new" => clients[k] = "new"
  PROVE  Inv'
<1>1. Types'
  BY DEF Inv, Types
<1>2. \A s, i : Accounted(s, i) => Accounted(s, i)'
  BY AccountedStays
<1>3. (\A s \in started : \A i \in Sources(s) : Accounted(s, i))'
  BY <1>2 DEF Inv, Sources
<1>4. Making' /\ NothingElse' /\ Unused' /\ Asking'
  BY <1>2 DEF Inv, Making, NothingElse, OnRecord, Unused, Asking
<1>5. StepsTaken'
  <2>1. StepsOf(sync, source)' = StepsOf(sync, source)
    BY DEF StepsOf
  <2>2. ASSUME NEW j \in 1 .. Len(StepsOf(sync, source)), j < step + 1
        PROVE  /\ StepsOf(sync, source)[j][1] \in {"client", "wait", "template"}
               /\ StepsOf(sync, source)[j][1] = "wait" =>
                    clients'[StepsOf(sync, source)[j][2]] = "ok"
    <3>1. j < step \/ j = step
      BY <2>2 DEF Inv, Types
    <3>2. /\ StepsOf(sync, source)[j][1] \in {"client", "wait", "template"}
          /\ StepsOf(sync, source)[j][1] = "wait" =>
               clients[StepsOf(sync, source)[j][2]] = "ok"
      BY <2>2, <3>1 DEF Inv, StepsTaken
    <3>3. StepsOf(sync, source)[j] \in StepType
      BY SourceSteps
    <3>4. QED
      BY <3>2, <3>3, StepKind DEF ClientsStay
  <2>3. QED
    BY <2>1, <2>2 DEF StepsTaken
<1>6. OneEach'
  BY DEF Inv, OneEach
<1>7. QED
  BY <1>1, <1>3, <1>4, <1>5, <1>6 DEF Inv

\* It leaves a source out.
LEMMA Skips ==
  ASSUME Inv, phase = "sources", source \in Sources(sync), NEW why, Skip(why),
         UNCHANGED <<syncs, phase, sync, started, built>>,
         ClientsStay, clients' \in [Kinds -> {"new", "ok", "nil"}],
         \A k \in Kinds : clients'[k] = "new" => clients[k] = "new",
         why \in Kinds => clients[why] = "new" /\ clients'[why] # "new"
  PROVE  Inv'
<1> DEFINE w == <<sync, source, why>>
<1>0. /\ sync \in DOMAIN syncs /\ sync \notin started
      /\ source \in Nat \ {0} /\ Len(syncs[sync].sources) \in Nat
      /\ skipped' = skipped \cup {w} /\ source' = source + 1 /\ step' = 1
  BY DEF Inv, Making, Types, Skip
<1>1. Types'
  <2>1. w[2] = source
    OBVIOUS
  <2>2. QED
    BY <1>0, <2>1 DEF Inv, Types
<1>2. ASSUME NEW s, NEW i, <<s, i>> # <<sync, source>>, Accounted(s, i)
      PROVE  Accounted(s, i)'
  BY <1>0, <1>2, AccountedStays
<1>3. (\A s \in started : \A i \in Sources(s) : Accounted(s, i))'
  BY <1>0, <1>2 DEF Inv, Sources
<1>4. <<sync, source>> \notin built
  <2>1. ASSUME <<sync, source>> \in built PROVE source < source
    BY <1>0, <2>1 DEF Inv, NothingElse, OnRecord
  <2>2. QED
    BY <1>0, <2>1
<1>5. ASSUME NEW i, i = source PROVE Accounted(sync, i)'
  <2>1. w \in skipped' /\ w[1] = sync' /\ w[2] = i
    BY <1>0, <1>5
  <2>2. <<sync', i>> \notin built'
    BY <1>4, <1>5
  <2>3. QED
    BY <2>1, <2>2 DEF Accounted
<1>6. Making'
  <2>1. ASSUME NEW i \in 1 .. source PROVE Accounted(sync, i)'
    <3>1. CASE i = source
      BY <1>5, <3>1
    <3>2. CASE i # source
      BY <1>0, <1>2, <3>2 DEF Inv, Making
    <3>3. QED
      BY <3>1, <3>2
  <2>2. source + 1 \in 1 .. Len(syncs[sync].sources) + 1 /\ (source + 1) - 1 = source
    BY <1>0 DEF Sources
  <2>3. QED
    BY <1>0, <2>1, <2>2 DEF Making
<1>7. StepsTaken'
  <2>1. ASSUME NEW j \in 1 .. Len(StepsOf(sync, source)') PROVE ~(j < 1)
    BY <2>1
  <2>2. QED
    BY <1>0, <2>1 DEF StepsTaken
<1>8. NothingElse'
  <2>1. ASSUME NEW b \in built \cup skipped PROVE OnRecord(b[1], b[2])'
    <3>1. OnRecord(b[1], b[2]) /\ b[2] \in Nat
      BY <2>1 DEF Inv, NothingElse, Types
    <3>2. QED
      BY <1>0, <3>1 DEF OnRecord
  <2>2. ASSUME NEW b, b = w PROVE OnRecord(b[1], b[2])'
    BY <1>0, <2>2 DEF OnRecord
  <2>3. QED
    BY <1>0, <2>1, <2>2 DEF NothingElse
<1>9. Unused' /\ Asking'
  BY DEF Unused, Asking
<1>10. OneEach'
  <2>1. \A b \in skipped : b[3] \in Kinds => b[3] # why
    BY DEF Inv, OneEach
  <2>2. w[3] = why
    OBVIOUS
  <2>3. QED
    BY <1>0, <2>1, <2>2 DEF Inv, OneEach
<1>11. QED
  BY <1>1, <1>3, <1>6, <1>7, <1>8, <1>9, <1>10 DEF Inv

\* It takes a source whose constructor has come to its end: all the clients that
\* it waited for are there.
LEMMA Adds ==
  ASSUME Inv, AddSource
  PROVE  Inv'
<1> DEFINE w == <<sync, source>>
<1>0. /\ phase = "sources" /\ source \in Sources(sync) /\ step > Len(StepsOf(sync, source))
      /\ sync \in DOMAIN syncs /\ sync \notin started
      /\ source \in Nat \ {0} /\ Len(syncs[sync].sources) \in Nat
      /\ built' = built \cup {w} /\ source' = source + 1 /\ step' = 1
      /\ UNCHANGED <<syncs, phase, sync, started, clients, skipped>>
  BY DEF AddSource, Inv, Making, Types, Sources, Steps, StepsOf, SourceSpec
<1>1. Types'
  <2>1. w[2] = source
    OBVIOUS
  <2>2. QED
    BY <1>0, <2>1 DEF Inv, Types
<1>2. ASSUME NEW s, NEW i, <<s, i>> # <<sync, source>>, Accounted(s, i)
      PROVE  Accounted(s, i)'
  BY <1>0, <1>2, AccountedStays DEF ClientsStay
<1>3. (\A s \in started : \A i \in Sources(s) : Accounted(s, i))'
  BY <1>0, <1>2 DEF Inv, Sources
<1>4. \A b \in skipped : <<b[1], b[2]>> # <<sync, source>>
  <2>1. ASSUME NEW b \in skipped, b[1] = sync, b[2] = source PROVE source < source
    BY <1>0, <2>1 DEF Inv, NothingElse, OnRecord
  <2>2. QED
    BY <1>0, <2>1
<1>5. \A k \in WaitsOf(sync, source) : clients[k] = "ok"
  <2> DEFINE steps == StepsOf(sync, source)
  <2>1. \A j \in 1 .. Len(steps) :
          /\ steps[j][1] \in {"client", "wait", "template"}
          /\ steps[j][1] = "wait" => clients[steps[j][2]] = "ok"
    <3>1. ASSUME NEW j \in 1 .. Len(steps) PROVE j < step
      BY <1>0, SourceSteps DEF Inv, Types
    <3>2. QED
      BY <1>0, <3>1 DEF Inv, StepsTaken
  <2>2. syncs[sync].sources[source].labels
    <3>1. ASSUME ~syncs[sync].sources[source].labels PROVE FALSE
      <4>1. steps = <<<<"labels">>>>
        BY <3>1 DEF StepsOf
      <4>2. Len(steps) = 1 /\ steps[1][1] = "labels"
        BY <4>1
      <4>3. QED
        BY <2>1, <4>2
    <3>2. QED
      BY <3>1
  <2>3. steps = BuildWithConfig(syncs[sync].sources[source].name)
    BY <2>2 DEF StepsOf
  <2>4. DOMAIN steps = 1 .. Len(steps)
    BY SourceSteps
  <2>5. QED
    BY <2>1, <2>3, <2>4 DEF WaitsOf, Waits
<1>6. ASSUME NEW i, i = source PROVE Accounted(sync, i)'
  <2>1. <<sync', i>> \in built'
    BY <1>0, <1>6
  <2>2. \A b \in skipped' : <<b[1], b[2]>> # <<sync', i>>
    BY <1>0, <1>4, <1>6
  <2>3. WaitsOf(sync, i)' = WaitsOf(sync, source)
    BY <1>0, <1>6 DEF WaitsOf
  <2>4. QED
    BY <1>0, <1>5, <2>1, <2>2, <2>3 DEF Accounted
<1>7. Making'
  <2>1. ASSUME NEW i \in 1 .. source PROVE Accounted(sync, i)'
    <3>1. CASE i = source
      BY <1>6, <3>1
    <3>2. CASE i # source
      BY <1>0, <1>2, <3>2 DEF Inv, Making
    <3>3. QED
      BY <3>1, <3>2
  <2>2. source + 1 \in 1 .. Len(syncs[sync].sources) + 1 /\ (source + 1) - 1 = source
    BY <1>0 DEF Sources
  <2>3. QED
    BY <1>0, <2>1, <2>2 DEF Making
<1>8. StepsTaken'
  <2>1. ASSUME NEW j \in 1 .. Len(StepsOf(sync, source)') PROVE ~(j < 1)
    BY <2>1
  <2>2. QED
    BY <1>0, <2>1 DEF StepsTaken
<1>9. NothingElse'
  <2>1. ASSUME NEW b \in built \cup skipped PROVE OnRecord(b[1], b[2])'
    <3>1. OnRecord(b[1], b[2]) /\ b[2] \in Nat
      BY <1>0, <2>1 DEF Inv, NothingElse, Types
    <3>2. QED
      BY <1>0, <3>1 DEF OnRecord
  <2>2. ASSUME NEW b, b = w PROVE OnRecord(b[1], b[2])'
    BY <1>0, <2>2 DEF OnRecord
  <2>3. QED
    BY <1>0, <2>1, <2>2 DEF NothingElse
<1>10. Unused' /\ Asking'
  BY <1>0 DEF Unused, Asking
<1>11. OneEach'
  BY <1>0 DEF Inv, OneEach
<1>12. QED
  BY <1>1, <1>3, <1>7, <1>8, <1>9, <1>10, <1>11 DEF Inv

-------------------------------------------------------------------------------
\* Before start-up nothing is made.
LEMMA InitInv == Init => Inv
<1> SUFFICES ASSUME Init PROVE Inv
  OBVIOUS
<1> USE DEF Init
<1>1. DOMAIN syncs = {}
  OBVIOUS
<1>2. Types
  BY <1>1 DEF Types, NoClients
<1>3. QED
  BY <1>2 DEF Inv, Making, StepsTaken, Asking, NothingElse, Unused, OneEach

\* The steps of a constructor.
LEMMA ConstructorStep ==
  ASSUME Inv, GetClient \/ WaitForCacheSync \/ CheckSpec
  PROVE  Inv'
<1> DEFINE st == StepsOf(sync, source)[step]
<1>0. /\ phase = "sources" /\ source \in Sources(sync)
      /\ step <= Len(StepsOf(sync, source)) /\ st = Steps[step]
  <2>1. Steps = StepsOf(sync, source)
    BY DEF Steps, StepsOf, SourceSpec
  <2>2. phase = "sources" /\ source <= Len(syncs[sync].sources) /\ step <= Len(Steps)
    <3>1. CASE GetClient
      BY <3>1 DEF GetClient, AtStep
    <3>2. CASE WaitForCacheSync
      BY <3>2 DEF WaitForCacheSync, AtStep
    <3>3. CASE CheckSpec
      BY <3>3 DEF CheckSpec, AtStep
    <3>4. QED
      BY <3>1, <3>2, <3>3
  <2>3. source \in Nat \ {0} /\ sync \in DOMAIN syncs
    BY <2>2 DEF Inv, Types, Making
  <2>4. Len(syncs[sync].sources) \in Nat
    BY <2>3 DEF Inv, Types
  <2>5. QED
    BY <2>1, <2>2, <2>3, <2>4 DEF Sources
<1>1. st \in StepType
  BY <1>0, SourceSteps DEF Inv, Types
<1>2. CASE GetClient
  <2> DEFINE k == st[2]
  <2>1. k \in Kinds /\ st[1] = "client"
    BY <1>0, <1>1, <1>2, StepKind DEF GetClient, AtStep
  <2>2. CASE MakesClient(k)
    <3>1. clients' = [clients EXCEPT ![k] = NewClient] /\ clients[k] = "new"
      BY <1>0, <1>2, <2>2 DEF GetClient, MakesClient
    <3>2. NewClient \in {"ok", "nil"}
      BY DEF NewClient
    <3>3. /\ clients' \in [Kinds -> {"new", "ok", "nil"}] /\ clients'[k] # "new"
          /\ ClientsStay /\ \A l \in Kinds : clients'[l] = "new" => clients[l] = "new"
      BY <2>1, <3>1, <3>2 DEF ClientsStay, Inv, Types
    <3>4. CASE NewClient = "ok"
      BY <1>0, <1>2, <2>1, <2>2, <3>3, <3>4, Advances DEF GetClient, NextStep
    <3>5. CASE NewClient # "ok"
      BY <1>0, <1>2, <2>1, <2>2, <3>1, <3>3, <3>5, Skips DEF GetClient
    <3>6. QED
      BY <3>4, <3>5
  <2>3. CASE ~MakesClient(k)
    <3>1. NextStep /\ UNCHANGED clients
      BY <1>0, <1>2, <2>3 DEF GetClient
    <3>2. QED
      BY <1>0, <1>2, <2>1, <3>1, Advances DEF GetClient, NextStep, ClientsStay, Inv, Types
  <2>4. QED
    BY <2>2, <2>3
<1>3. CASE WaitForCacheSync
  <2>1. st[1] = "wait" /\ UNCHANGED clients
    BY <1>0, <1>3 DEF WaitForCacheSync, AtStep
  <2>2. clients[st[2]] = "ok"
    <3>1. SourceSpec.labels
      <4>1. ASSUME ~SourceSpec.labels PROVE FALSE
        <5>1. StepsOf(sync, source) = <<<<"labels">>>>
          BY <4>1 DEF StepsOf, SourceSpec
        <5>2. step = 1
          BY <1>0, <5>1 DEF Inv, Types
        <5>3. QED
          BY <2>1, <5>1, <5>2
      <4>2. QED
        BY <4>1
    <3>2. StepsOf(sync, source) = BuildWithConfig(SourceSpec.name)
      BY <3>1 DEF StepsOf, SourceSpec
    <3>3. step \in DOMAIN StepsOf(sync, source)
      BY <1>0, SourceSteps DEF Inv, Types
    <3>4. st[2] \in Waits(SourceSpec.name)
      BY <2>1, <3>2, <3>3 DEF Waits
    <3>5. QED
      BY <1>3, <3>4 DEF WaitForCacheSync
  <2>3. CASE NextStep
    BY <1>0, <1>3, <2>1, <2>2, <2>3, Advances
       DEF WaitForCacheSync, NextStep, ClientsStay, Inv, Types
  <2>4. CASE Skip("cache")
    BY <1>0, <1>3, <2>1, <2>4, Skips
       DEF WaitForCacheSync, ClientsStay, Inv, Types, Kinds
  <2>5. QED
    BY <1>3, <2>3, <2>4 DEF WaitForCacheSync
<1>4. CASE CheckSpec
  <2>1. CASE AtStep("template") /\ NextStep
    BY <1>0, <1>4, <2>1, Advances
       DEF CheckSpec, AtStep, NextStep, ClientsStay, Inv, Types
  <2>2. ASSUME NEW why \in {"template", "labels", "unknown", "discover"}, Skip(why)
        PROVE  Inv'
    BY <1>0, <1>4, <2>2, Skips DEF CheckSpec, ClientsStay, Inv, Types, Kinds
  <2>3. QED
    BY <1>4, <2>1, <2>2 DEF CheckSpec
<1>5. QED
  BY <1>2, <1>3, <1>4

-------------------------------------------------------------------------------
\* The phases in which no source is looked at.
LEMMA Elsewhere ==
  ASSUME Inv, UNCHANGED <<syncs, clients, started, source, step, built, skipped>>,
         phase # "down", phase' \notin {"sources", "handshake", "loading"},
         phase' # "down" => \A b \in built \cup skipped : b[1] \in started
  PROVE  Inv'
<1>1. Types' /\ OneEach' /\ Making' /\ StepsTaken' /\ Asking' /\ Unused'
  BY DEF Inv, Types, OneEach, Making, StepsTaken, Asking, Unused
<1>2. NothingElse'
  BY DEF NothingElse, OnRecord
<1>3. (\A s \in started : \A i \in Sources(s) : Accounted(s, i))'
  BY DEF Inv, Sources, Accounted, WaitsOf
<1>4. QED
  BY <1>1, <1>2, <1>3 DEF Inv

\* The process begins anew.
LEMMA Begins ==
  ASSUME syncs' = <<>>, Fresh
  PROVE  Inv'
<1>1. syncs' = <<>> /\ DOMAIN syncs' = {}
  OBVIOUS
<1>2. Types'
  BY <1>1 DEF Types, Fresh, NoClients
<1>3. QED
  BY <1>2 DEF Inv, Making, StepsTaken, Asking, NothingElse, Unused, OneEach, Fresh

\* Loading a configuration, or failing to (LoadAndRun).
LEMMA LoadStep ==
  ASSUME Inv, Load
  PROVE  Inv'
<1>1. /\ started = {} /\ built = {} /\ skipped = {} /\ phase' = "next"
      /\ UNCHANGED <<started, clients, source, step, built, skipped>>
  BY DEF Inv, Unused, Load
<1>2. \A s \in DOMAIN syncs' : syncs'[s].sources \in Seq(SourceType)
  <2>1. syncs' \in Configurations \cup {Default} \/ DOMAIN syncs' = {}
    BY DEF Load
  <2>2. QED
    BY <2>1, StartupAssumption DEF SourceType
<1>3. Types'
  BY <1>1, <1>2 DEF Inv, Types
<1>4. QED
  BY <1>1, <1>3 DEF Inv, Making, StepsTaken, Asking, NothingElse, Unused, OneEach

\* Going on to a sync (LoadAndRun).
LEMMA NextSyncStep ==
  ASSUME Inv, NEW s, NextSync(s)
  PROVE  Inv'
<1>1. /\ phase = "next" /\ s \in DOMAIN syncs \ started /\ sync' = s
      /\ phase' \in {"sources", "handshake"} /\ source' = 1 /\ step' = 1
      /\ UNCHANGED <<syncs, started, clients, built, skipped>>
  BY DEF NextSync
<1>2. Types' /\ OneEach' /\ Unused' /\ Asking'
  BY <1>1 DEF Inv, Types, OneEach, Unused, Asking
<1>3. Len(syncs[s].sources) \in Nat
  BY <1>1 DEF Inv, Types
<1>4. Making'
  BY <1>1, <1>3 DEF Making
<1>5. StepsTaken'
  <2>1. ASSUME NEW j \in 1 .. Len(StepsOf(sync, source)') PROVE ~(j < 1)
    BY <2>1
  <2>2. QED
    BY <1>1, <2>1 DEF StepsTaken
<1>6. NothingElse'
  BY <1>1 DEF Inv, NothingElse, OnRecord
<1>7. (\A t \in started : \A i \in Sources(t) : Accounted(t, i))'
  BY <1>1 DEF Inv, Sources, Accounted, WaitsOf
<1>8. QED
  BY <1>2, <1>4, <1>5, <1>6, <1>7 DEF Inv

\* The handshake with the DNS service, in whatever way it ends (webhook.go).
LEMMA HandshakeStep ==
  ASSUME Inv, Handshake
  PROVE  Inv'
<1>1. /\ phase = "handshake" /\ phase' \in {"handshake", "down", "sources"}
      /\ UNCHANGED <<syncs, sync, started, source, step, clients, built, skipped>>
      /\ sync \in DOMAIN syncs \ started /\ source = 1 /\ step = 1
  BY DEF Inv, Asking, Handshake, Attempt, ProcessEnds
<1>2. Types' /\ OneEach' /\ Unused' /\ Asking'
  BY <1>1 DEF Inv, Types, OneEach, Unused, Asking
<1>3. Len(syncs[sync].sources) \in Nat
  BY <1>1 DEF Inv, Types
<1>4. Making'
  BY <1>1, <1>3 DEF Making
<1>5. StepsTaken'
  <2>1. ASSUME NEW j \in 1 .. Len(StepsOf(sync, source)') PROVE ~(j < 1)
    BY <2>1
  <2>2. QED
    BY <1>1, <2>1 DEF StepsTaken
<1>6. NothingElse'
  BY <1>1 DEF Inv, NothingElse, OnRecord
<1>7. (\A t \in started : \A i \in Sources(t) : Accounted(t, i))'
  BY <1>1 DEF Inv, Sources, Accounted, WaitsOf
<1>8. QED
  BY <1>2, <1>4, <1>5, <1>6, <1>7 DEF Inv

\* The sync whose sources are all looked at starts.
LEMMA StartSyncStep ==
  ASSUME Inv, StartSync
  PROVE  Inv'
<1>1. /\ phase = "sources" /\ phase' = "next" /\ started' = started \cup {sync}
      /\ source > Len(syncs[sync].sources) /\ sync \in DOMAIN syncs
      /\ source \in 1 .. Len(syncs[sync].sources) + 1
      /\ UNCHANGED <<syncs, clients, source, step, built, skipped>>
  BY DEF Inv, Making, StartSync
<1>2. Len(syncs[sync].sources) \in Nat
  BY <1>1 DEF Inv, Types
<1>3. Types' /\ OneEach' /\ Unused' /\ Asking' /\ Making' /\ StepsTaken'
  BY <1>1 DEF Inv, Types, OneEach, Unused, Asking, Making, StepsTaken
<1>4. NothingElse'
  BY <1>1 DEF Inv, NothingElse, OnRecord
<1>5. \A i \in Sources(sync) : Accounted(sync, i)
  BY <1>1, <1>2 DEF Inv, Making, Sources
<1>6. \A s \in started' : \A i \in Sources(s) : Accounted(s, i)
  BY <1>1, <1>5 DEF Inv
<1>7. (\A s \in started : \A i \in Sources(s) : Accounted(s, i))'
  <2>1. ASSUME NEW s, NEW i, Accounted(s, i) PROVE Accounted(s, i)'
    BY <1>1, <2>1 DEF Accounted, WaitsOf
  <2>2. QED
    BY <1>1, <1>6, <2>1 DEF Sources
<1>8. QED
  BY <1>3, <1>4, <1>7 DEF Inv

\* Every step of start-up and every death of a sync keeps the invariant.
LEMMA InvStep ==
  ASSUME Inv, [Next]_vars
  PROVE  Inv'
<1>1. CASE Load
  BY <1>1, LoadStep
<1>2. ASSUME NEW s, NextSync(s) PROVE Inv'
  BY <1>2, NextSyncStep
<1>3. CASE Handshake
  BY <1>3, HandshakeStep
<1>4. CASE GetClient \/ WaitForCacheSync \/ CheckSpec
  BY <1>4, ConstructorStep
<1>5. CASE AddSource
  BY <1>5, Adds
<1>6. CASE StartSync
  BY <1>6, StartSyncStep
<1>7. CASE UsesNilClient \/ RoundDies
  <2>1. phase # "down" /\ phase' = "down"
        /\ UNCHANGED <<syncs, clients, started, source, step, built, skipped>>
    BY <1>7 DEF UsesNilClient, RoundDies, AtStep, ProcessEnds
  <2>2. QED
    BY <2>1, Elsewhere
<1>8. CASE Serve \/ Terminate
  <2>1. /\ phase \in {"next", "serving"} /\ phase' \in {"done", "serving"}
        /\ UNCHANGED <<syncs, clients, started, source, step, built, skipped>>
    BY <1>8 DEF Serve, Terminate
  <2>2. \A b \in built \cup skipped : b[1] \in started
    BY <2>1 DEF Inv, NothingElse, OnRecord
  <2>3. QED
    BY <2>1, <2>2, Elsewhere
<1>9. CASE Restart
  BY <1>9, Begins DEF Restart
<1>10. CASE SurroundingsChange \/ UNCHANGED vars
  <2>1. UNCHANGED process
    BY <1>10 DEF SurroundingsChange, vars, process
  <2>2. UNCHANGED <<syncs, phase, sync, started, source, step, clients, built, skipped>>
    BY <2>1 DEF process
  <2>3. QED
    BY <2>2 DEF Inv, Types, Making, StepsTaken, Asking, NothingElse, Unused, OneEach,
                OnRecord, Sources, StepsOf, WaitsOf, Accounted
<1>11. QED
  BY <1>1, <1>2, <1>3, <1>4, <1>5, <1>6, <1>7, <1>8, <1>9, <1>10 DEF Next

\* In every state of the program: what is made or left out is what was looked
\* at, and no client that a made source waits for is nil.
THEOREM StartupInv == Spec => []Inv
<1>1. Init => Inv
  BY InitInv
<1>2. Inv /\ [Next]_vars => Inv'
  BY InvStep
<1>3. QED
  BY <1>1, <1>2, PTL DEF Spec

\* The sources of a sync that runs are each made, with clients that are there,
\* or left out (BuildWithConfig and Run, dns-sync.go).
THEOREM SourcesAccounted == Spec => []SourcesAccountedFor
<1>1. Inv => SourcesAccountedFor
  <2> SUFFICES ASSUME Inv, NEW s \in started, NEW i \in DOMAIN syncs[s].sources
               PROVE  IF <<s, i>> \in built
                      THEN /\ \A b \in skipped : <<b[1], b[2]>> # <<s, i>>
                           /\ \A k \in Waits(syncs[s].sources[i].name) : clients[k] = "ok"
                      ELSE \E b \in skipped : <<b[1], b[2]>> = <<s, i>>
    BY DEF SourcesAccountedFor
  <2>1. i \in Sources(s)
    BY DEF Inv, Types, Sources
  <2>2. Accounted(s, i)
    BY <2>1 DEF Inv
  <2>3. QED
    BY <2>2 DEF Accounted, WaitsOf
<1>2. QED
  BY <1>1, StartupInv, PTL

\* A client that cannot be made costs one source (ConfigSource's sync.Once,
\* store.go:109).
THEOREM OneSkip == Spec => []OneSkipPerClient
<1>1. Inv => OneSkipPerClient
  <2> SUFFICES ASSUME Inv, NEW k \in Kinds
               PROVE  Cardinality({b \in skipped : b[3] = k}) <= 1
    BY DEF OneSkipPerClient
  <2> DEFINE S == {b \in skipped : b[3] = k}
  <2>1. CASE S = {}
    <3>1. Cardinality(S) = 0
      BY <2>1, FS_EmptySet
    <3>2. QED
      BY <3>1
  <2>2. CASE S # {}
    <3>1. PICK b \in S : TRUE
      BY <2>2
    <3>2. S = {b}
      BY <3>1 DEF Inv, OneEach
    <3>3. Cardinality(S) = 1
      BY <3>2, FS_Singleton
    <3>4. QED
      BY <3>3
  <2>3. QED
    BY <2>1, <2>2
<1>2. QED
  BY <1>1, StartupInv, PTL

-------------------------------------------------------------------------------
\* What is on record is a source of the configuration.
OnList(b) == b[1] \in DOMAIN syncs /\ b[2] \in DOMAIN syncs[b[1]].sources

\* The syncs of a process are named in some configuration.
LEMMA SyncsAreNamed ==
  ASSUME syncs \in Configurations \cup {Default, <<>>}, NEW s \in DOMAIN syncs
  PROVE  s \in AllSyncs
<1>1. syncs # <<>>
  OBVIOUS
<1>2. QED
  BY <1>1 DEF AllSyncs

\* The source that is looked at is written down.
LEMMA SourceIsOnList ==
  ASSUME Inv, phase = "sources", source <= Len(syncs[sync].sources), NEW b,
         b[1] = sync, b[2] = source
  PROVE  OnList(b)
<1>1. sync \in DOMAIN syncs /\ source \in Nat \ {0}
  BY DEF Inv, Making, Types
<1>2. /\ Len(syncs[sync].sources) \in Nat
      /\ DOMAIN syncs[sync].sources = 1 .. Len(syncs[sync].sources)
  BY <1>1 DEF Inv, Types
<1>3. QED
  BY <1>1, <1>2 DEF OnList

\* The steps of constructors keep the types.
LEMMA ConstructorTypes ==
  ASSUME Inv, Inv', TypeOK, GetClient \/ WaitForCacheSync \/ CheckSpec \/ AddSource
  PROVE  TypeOK'
<1>1. /\ phase = "sources" /\ source <= Len(syncs[sync].sources)
      /\ UNCHANGED <<syncs, phase, sync, started, attempts, faults>>
  <2>1. CASE GetClient
    BY <2>1 DEF GetClient, AtStep
  <2>2. CASE WaitForCacheSync
    BY <2>2 DEF WaitForCacheSync, AtStep
  <2>3. CASE CheckSpec
    BY <2>3 DEF CheckSpec, AtStep
  <2>4. CASE AddSource
    BY <2>4 DEF AddSource
  <2>5. QED
    BY <2>1, <2>2, <2>3, <2>4
<1>2. \E why : skipped' \subseteq skipped \cup {<<sync, source, why>>}
  <2>1. CASE GetClient
    BY <2>1 DEF GetClient, NextStep, Skip
  <2>2. CASE WaitForCacheSync
    BY <2>2 DEF WaitForCacheSync, NextStep, Skip
  <2>3. CASE CheckSpec
    BY <2>3 DEF CheckSpec, NextStep, Skip
  <2>4. CASE AddSource
    BY <2>4 DEF AddSource
  <2>5. QED
    BY <2>1, <2>2, <2>3, <2>4
<1>3. built' \subseteq built \cup {<<sync, source>>}
  BY DEF GetClient, WaitForCacheSync, CheckSpec, AddSource
<1>4. \A b \in built' \cup skipped' : OnList(b)
  <2>1. \A b \in built \cup skipped : OnList(b)
    BY DEF TypeOK, OnList
  <2>2. ASSUME NEW b, b = <<sync, source>> PROVE OnList(b)
    BY <1>1, <2>2, SourceIsOnList
  <2>3. ASSUME NEW b, NEW why, b = <<sync, source, why>> PROVE OnList(b)
    BY <1>1, <2>3, SourceIsOnList
  <2>4. QED
    BY <1>2, <1>3, <2>1, <2>2, <2>3
<1>5. clients' \in [Kinds -> {"new", "ok", "nil"}]
  BY DEF Inv, Types
<1>6. QED
  BY <1>1, <1>4, <1>5 DEF TypeOK, OnList

\* Every step keeps the types.
LEMMA TypeStep ==
  ASSUME Inv, Inv', TypeOK, [Next]_vars
  PROVE  TypeOK'
<1> USE StartupAssumption
<1>1. CASE Load
  <2>1. /\ syncs' \in Configurations \cup {Default, <<>>} /\ phase' = "next"
        /\ started = {} /\ built = {} /\ skipped = {}
        /\ UNCHANGED <<sync, started, attempts, clients, built, skipped, faults>>
    BY <1>1 DEF Load, Inv, Unused, surroundings
  <2>2. QED
    BY <2>1 DEF TypeOK
<1>2. ASSUME NEW s \in DOMAIN syncs, NextSync(s) PROVE TypeOK'
  <2>1. s \in AllSyncs
    BY SyncsAreNamed DEF TypeOK
  <2>2. /\ sync' = s /\ phase' \in {"sources", "handshake"} /\ attempts' = 0
        /\ UNCHANGED <<syncs, started, clients, built, skipped, faults>>
    BY <1>2 DEF NextSync, surroundings
  <2>3. 0 \in 0 .. MaxRetries + 1
    OBVIOUS
  <2>4. QED
    BY <2>1, <2>2, <2>3 DEF TypeOK
<1>3. CASE Handshake
  <2>1. attempts' \in 0 .. MaxRetries + 1
    BY <1>3 DEF Handshake, Attempt, TypeOK
  <2>2. phase' \in {"handshake", "down", "sources"}
    BY <1>3 DEF Handshake, Attempt, ProcessEnds
  <2>3. UNCHANGED <<syncs, sync, started, clients, built, skipped, faults>>
    BY <1>3 DEF Handshake, Attempt
  <2>4. QED
    BY <2>1, <2>2, <2>3 DEF TypeOK
<1>4. CASE GetClient \/ WaitForCacheSync \/ CheckSpec \/ AddSource
  BY <1>4, ConstructorTypes
<1>5. CASE StartSync
  <2>1. sync \in DOMAIN syncs
    BY <1>5 DEF StartSync, Inv, Making
  <2>2. QED
    BY <1>5, <2>1 DEF StartSync, TypeOK
<1>6. CASE UsesNilClient \/ Serve \/ Terminate
  BY <1>6 DEF UsesNilClient, Serve, Terminate, ProcessEnds, TypeOK
<1>7. CASE RoundDies
  <2>1. faults' \in 0 .. MaxFaults
    BY <1>7 DEF RoundDies, TypeOK
  <2>2. QED
    BY <1>7, <2>1 DEF RoundDies, ProcessEnds, TypeOK
<1>8. CASE Restart
  <2>1. clients' \in [Kinds -> {"new", "ok", "nil"}] /\ 0 \in 0 .. MaxRetries + 1
    BY DEF Inv, Types
  <2>2. QED
    BY <1>8, <2>1 DEF Restart, Fresh, TypeOK
<1>9. CASE SurroundingsChange
  <2>1. faults' \in 0 .. MaxFaults
    BY <1>9 DEF SurroundingsChange, TypeOK
  <2>2. QED
    BY <1>9, <2>1 DEF SurroundingsChange, process, TypeOK
<1>10. CASE UNCHANGED vars
  BY <1>10 DEF vars, TypeOK
<1>11. QED
  BY <1>1, <1>2, <1>3, <1>4, <1>5, <1>6, <1>7, <1>8, <1>9, <1>10 DEF Next

\* The variables keep their types; what is on record are sources of the
\* configuration that the process runs with.
THEOREM TypeCorrect == Spec => []TypeOK
<1>1. Init => TypeOK
  BY StartupAssumption DEF Init, TypeOK, NoClients
<1>2. TypeOK /\ Inv /\ Inv' /\ [Next]_vars => TypeOK'
  BY TypeStep
<1>3. QED
  BY <1>1, <1>2, StartupInv, PTL DEF Spec
=============================================================================
