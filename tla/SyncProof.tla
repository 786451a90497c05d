------------------------------ MODULE SyncProof ------------------------------
(***************************************************************************)
(* Proofs about Sync: types, and that no sync ever removes or rewrites a   *)
(* record it does not own, for any number of syncs, processes, names,      *)
(* zones and configurations, any sources and any other writers.            *)
(***************************************************************************)
EXTENDS Sync, RecordLemmas

(***************************************************************************)
(* Types.                                                                  *)
(***************************************************************************)
\* Nothing is stored, listed or sent in the beginning.
LEMMA InitType == Init => TypeOK
<1> SUFFICES ASSUME Init PROVE TypeOK
  OBVIOUS
<1>1. IsStore(store)
  BY DEF Init, IsStore, EmptyStore
<1>2. NoBatch \in Batches
  BY DEF NoBatch, Batches
<1>3. /\ view \in [Syncs -> SUBSET Endpoint]
      /\ \A s \in Syncs : view[s] \in Wants[SourceOf[s]]
  <2>1. ASSUME NEW s \in Syncs
        PROVE  /\ goal[SourceOf[s]] \in Wants[SourceOf[s]]
               /\ goal[SourceOf[s]] \in SUBSET Endpoint
    BY SyncAssumption DEF Init, Goals, Clusters
  <2>2. QED
    BY <2>1 DEF Init
<1>4. QED
  BY <1>1, <1>2, <1>3, SyncAssumption DEF Init, TypeOK, NoCall

\* What a sync lists, plans and sends.
LEMMA ListType ==
  ASSUME TypeOK, NEW s \in Syncs, NEW l \in RegistryRecords(Config[s].txtOwner, RecordsOf(store))
  PROVE  l \in SUBSET Endpoint
<1>1. RecordsOf(store) \in SUBSET Endpoint
  BY DEF TypeOK, IsStore, RecordsOf
<1>2. QED
  BY <1>1, RegistryRecordsType

\* The plan of a sync consists of records of the owner of the plan, and turns
\* into a batch.
LEMMA PostType ==
  ASSUME NEW s \in Syncs, NEW l \in SUBSET Endpoint, NEW w \in Wants[SourceOf[s]],
         NEW c \in Plans(Config[s], l, w)
  PROVE  /\ c \in Changes
         /\ RegistryChanges(Config[s].txtOwner, c) \in Batches
         /\ \A e \in c.updateOld \cup c.updateNew : IsOwnedBy(e, Config[s].planOwner)
         /\ UpdatesArePaired(c)
<1>1. /\ Config[s].policy \in Policies /\ Config[s].planOwner # ""
      /\ Config[s].txtOwner \in LabelValues
  BY SyncAssumption DEF ConfigType
<1>2. w \in SUBSET Endpoint
  BY SyncAssumption DEF Clusters
<1>3. /\ c \in Changes
      /\ \A e \in c.delete \cup c.updateOld \cup c.updateNew :
            IsOwnedBy(e, Config[s].planOwner)
      /\ UpdatesArePaired(c)
  BY <1>1, <1>2, PlansType
<1>4. RegistryChanges(Config[s].txtOwner, c) \in Batches
  BY <1>1, <1>3, RegistryChangesType
<1>5. QED
  BY <1>3, <1>4

\* Every step keeps the types.
LEMMA TypeStep == TypeOK /\ [Next]_vars => TypeOK'
<1> SUFFICES ASSUME TypeOK, [Next]_vars PROVE TypeOK'
  OBVIOUS
<1> USE DEF TypeOK
<1>0. NoBatch \in Batches
  BY DEF NoBatch, Batches
<1>1. ASSUME NEW s \in Syncs, ListRecords(s) PROVE TypeOK'
  BY <1>1, ListType DEF ListRecords
<1>2. ASSUME NEW s \in Syncs, PlanAndPost(s) PROVE TypeOK'
  <2>1. PICK c \in Plans(Config[s], listing[s], view[s]) :
          IF HasChanges(c)
          THEN /\ pc' = [pc EXCEPT ![s] = "posted"]
               /\ call' = [call EXCEPT ![s] =
                    [state |-> "sent", batch |-> RegistryChanges(Config[s].txtOwner, c)]]
          ELSE /\ pc' = [pc EXCEPT ![s] = "idle"]
               /\ UNCHANGED call
    BY <1>2 DEF PlanAndPost
  <2>2. RegistryChanges(Config[s].txtOwner, c) \in Batches
    BY PostType
  <2>3. call' \in [Syncs -> [state : {"none", "sent", "204", "500"}, batch : Batches]]
    <3>1. CASE UNCHANGED call
      BY <3>1
    <3>2. CASE call' = [call EXCEPT ![s] =
                 [state |-> "sent", batch |-> RegistryChanges(Config[s].txtOwner, c)]]
      BY <3>2, <2>2
    <3>3. QED
      BY <2>1, <3>1, <3>2
  <2>4. pc' \in [Syncs -> {"idle", "listed", "posted", "down"}]
    BY <2>1
  <2>5. listing' \in [Syncs -> SUBSET Endpoint]
    BY <1>2 DEF PlanAndPost
  <2>6. QED
    BY <1>2, <2>3, <2>4, <2>5 DEF PlanAndPost
<1>3. ASSUME NEW s \in Syncs, AdjustFails(s) \/ RoundEnds(s) \/ Observe(s) PROVE TypeOK'
  <2>0. CASE AdjustFails(s)
    BY <1>0, <2>0 DEF AdjustFails
  <2>1. CASE RoundEnds(s)
    <3>1. call' \in [Syncs -> [state : {"none", "sent", "204", "500"}, batch : Batches]]
      BY <1>0, <2>1 DEF RoundEnds, NoCall
    <3>2. QED
      BY <2>1, <3>1 DEF RoundEnds
  <2>2. CASE Observe(s)
    <3>1. goal[SourceOf[s]] \in Wants[SourceOf[s]] /\ goal[SourceOf[s]] \in SUBSET Endpoint
      BY SyncAssumption DEF Goals, Clusters
    <3>2. QED
      BY <2>2, <3>1 DEF Observe
  <2>3. QED
    BY <1>3, <2>0, <2>1, <2>2
<1>4. ASSUME NEW s \in Syncs, HandlePost(s) PROVE TypeOK'
  BY <1>0, <1>4, OutcomeType DEF HandlePost
<1>5. ASSUME NEW p \in Processes, Fatal(p) PROVE TypeOK'
  BY <1>0, <1>5, SyncAssumption DEF Fatal, NoCall, Of
<1>6. ASSUME NEW p \in Processes, Restart(p) PROVE TypeOK'
  <2>1. \A s \in Syncs : /\ goal[SourceOf[s]] \in Wants[SourceOf[s]]
                         /\ goal[SourceOf[s]] \in SUBSET Endpoint
    BY SyncAssumption DEF Goals, Clusters
  <2>2. /\ view' \in [Syncs -> SUBSET Endpoint]
        /\ \A s \in Syncs : view'[s] \in Wants[SourceOf[s]]
    BY <1>6, <2>1 DEF Restart
  <2>3. QED
    BY <1>6, <2>2 DEF Restart
<1>7. ASSUME NEW r \in late, HandleLatePost(r) \/ LoseLatePost(r) PROVE TypeOK'
  BY <1>7, OutcomeType DEF HandleLatePost, LoseLatePost
<1>8. ASSUME NEW c \in Clusters, NEW w \in Wants[c], SourceChanges(c, w) PROVE TypeOK'
  <2>1. goal' \in Goals
    BY <1>8 DEF SourceChanges, Goals
  <2>2. QED
    BY <1>8, <2>1, SyncAssumption DEF SourceChanges
<1>9. ASSUME NEW e \in Foreign, OtherAdds(e) \/ OtherRemoves(e) PROVE TypeOK'
  <2>1. e \in Endpoint /\ Key(e) \in EndpointKey
    BY KeyType, SyncAssumption
  <2>2. IsStore(store)'
    BY <1>9, <2>1 DEF OtherAdds, OtherRemoves, IsStore
  <2>3. QED
    BY <1>9, <2>2 DEF OtherAdds, OtherRemoves
<1>10. CASE UNCHANGED vars
  BY <1>10 DEF vars
<1>11. QED
  BY <1>1, <1>2, <1>3, <1>4, <1>5, <1>6, <1>7, <1>8, <1>9, <1>10 DEF Next, Round

\* The variables keep their types in every behaviour.
THEOREM TypeCorrect == Spec => []TypeOK
BY InitType, TypeStep, PTL DEF Spec

(***************************************************************************)
(* Requests.                                                               *)
(***************************************************************************)
\* What a sync may send: what the registry makes of a plan for some records
\* that the sources asked for, whatever records were listed.
MadeBy(s, b) ==
  \/ b = NoBatch
  \/ \E l \in SUBSET Endpoint, w \in Wants[SourceOf[s]] : \E c \in Plans(Config[s], l, w) :
       b = RegistryChanges(Config[s].txtOwner, c)

\* What makes a request harmless however late it is handled: it does not speak
\* of what the zones hold now, but names what its plan took them to hold.
RequestsAreMade ==
  /\ \A s \in Syncs : MadeBy(s, call[s].batch)
  /\ \A r \in late : MadeBy(r.sync, r.batch)

Inv == TypeOK /\ RequestsAreMade

\* No request is on its way in the beginning.
LEMMA InitInv == Init => Inv
<1> SUFFICES ASSUME Init PROVE Inv
  OBVIOUS
<1>1. RequestsAreMade
  BY DEF Init, RequestsAreMade, MadeBy, NoCall
<1>2. QED
  BY <1>1, InitType DEF Inv

\* Requests stay as they are sent, in their calls and after their senders' end.
LEMMA RequestStep ==
  ASSUME Inv, [Next]_vars
  PROVE  RequestsAreMade'
<1> USE DEF Inv, RequestsAreMade
<1>1. \A s : MadeBy(s, NoBatch)
  BY DEF MadeBy
<1>2. CASE UNCHANGED <<call, late>>
  BY <1>2 DEF MadeBy
<1>3. ASSUME NEW s \in Syncs, PlanAndPost(s) PROVE RequestsAreMade'
  <2>1. PICK c \in Plans(Config[s], listing[s], view[s]) :
          \/ UNCHANGED call
          \/ call' = [call EXCEPT ![s] =
                    [state |-> "sent", batch |-> RegistryChanges(Config[s].txtOwner, c)]]
    BY <1>3 DEF PlanAndPost
  <2>2. MadeBy(s, RegistryChanges(Config[s].txtOwner, c))
    BY DEF MadeBy, TypeOK
  <2>3. UNCHANGED late
    BY <1>3 DEF PlanAndPost
  <2>4. QED
    BY <2>1, <2>2, <2>3 DEF TypeOK
<1>4. ASSUME NEW s \in Syncs, HandlePost(s) \/ RoundEnds(s) PROVE RequestsAreMade'
  BY <1>1, <1>4 DEF HandlePost, RoundEnds, NoCall, TypeOK
<1>5. ASSUME NEW p \in Processes, Fatal(p) PROVE RequestsAreMade'
  BY <1>1, <1>5 DEF Fatal, NoCall, TypeOK, Of
<1>6. ASSUME NEW r \in late, HandleLatePost(r) \/ LoseLatePost(r) PROVE RequestsAreMade'
  BY <1>6 DEF HandleLatePost, LoseLatePost
<1>7. ASSUME NEW s \in Syncs, ListRecords(s) \/ AdjustFails(s) \/ Observe(s)
      PROVE  UNCHANGED <<call, late>>
  BY <1>7 DEF ListRecords, AdjustFails, Observe
<1>8. ASSUME NEW p \in Processes, Restart(p) PROVE UNCHANGED <<call, late>>
  BY <1>8 DEF Restart
<1>9. ASSUME NEW c \in Clusters, NEW w \in Wants[c], SourceChanges(c, w)
      PROVE  UNCHANGED <<call, late>>
  BY <1>9 DEF SourceChanges
<1>10. ASSUME NEW e \in Foreign, OtherAdds(e) \/ OtherRemoves(e)
       PROVE  UNCHANGED <<call, late>>
  BY <1>10 DEF OtherAdds, OtherRemoves
<1>11. CASE UNCHANGED vars
  BY <1>2, <1>11 DEF vars
<1>12. QED
  BY <1>2, <1>3, <1>4, <1>5, <1>6, <1>7, <1>8, <1>9, <1>10, <1>11 DEF Next, Round

\* The inductive invariant: types, and requests that stem from plans.
THEOREM SyncInv == Spec => []Inv
<1>1. Inv /\ [Next]_vars => Inv'
  BY TypeStep, RequestStep DEF Inv
<1>2. QED
  BY InitInv, <1>1, PTL DEF Spec

\* How a step may change the store: by the handling of a request in some zones,
\* or by one record of somebody else.
LEMMA StoreStep ==
  ASSUME Inv, [Next]_vars
  PROVE  \/ UNCHANGED store
         \/ \E s \in Syncs, b \in Batches, zs \in SUBSET Zones :
              /\ MadeBy(s, b)
              /\ \A z \in zs : Valid(store, b, z)
              /\ store' = ApplyZones(store, b, zs)
         \/ \E e \in Foreign : OtherAdded(store, store', e) \/ OtherRemoved(store, store', e)
<1> DEFINE Handled(s, b) == \E zs \in SUBSET Zones : /\ \A z \in zs : Valid(store, b, z)
                                                     /\ store' = ApplyZones(store, b, zs)
<1>1. ASSUME NEW s \in Syncs, HandlePost(s)
      PROVE  call[s].batch \in Batches /\ MadeBy(s, call[s].batch) /\ Handled(s, call[s].batch)
  BY <1>1, OutcomeType DEF HandlePost, Inv, TypeOK, RequestsAreMade
<1>2. ASSUME NEW r \in late, HandleLatePost(r)
      PROVE  r.sync \in Syncs /\ r.batch \in Batches /\ MadeBy(r.sync, r.batch)
             /\ Handled(r.sync, r.batch)
  BY <1>2, OutcomeType DEF HandleLatePost, Inv, TypeOK, RequestsAreMade
<1>3. ASSUME NEW e \in Foreign, OtherAdds(e)
      PROVE  OtherAdded(store, store', e)
  BY <1>3 DEF OtherAdds, OtherAdded
<1>4. ASSUME NEW e \in Foreign, OtherRemoves(e)
      PROVE  OtherRemoved(store, store', e)
  BY <1>4 DEF OtherRemoves, OtherRemoved
<1>5. ASSUME NEW s \in Syncs,
             ListRecords(s) \/ PlanAndPost(s) \/ RoundEnds(s) \/ AdjustFails(s) \/ Observe(s)
      PROVE  UNCHANGED store
  BY <1>5 DEF ListRecords, PlanAndPost, RoundEnds, AdjustFails, Observe
<1>6. ASSUME NEW p \in Processes, Fatal(p) \/ Restart(p) PROVE UNCHANGED store
  BY <1>6 DEF Fatal, Restart
<1>7. ASSUME NEW r \in late, LoseLatePost(r) PROVE UNCHANGED store
  BY <1>7 DEF LoseLatePost
<1>8. ASSUME NEW c \in Clusters, NEW w \in Wants[c], SourceChanges(c, w) PROVE UNCHANGED store
  BY <1>8 DEF SourceChanges
<1>9. CASE UNCHANGED vars
  BY <1>9 DEF vars
<1>10. QED
  BY <1>1, <1>2, <1>3, <1>4, <1>5, <1>6, <1>7, <1>8, <1>9 DEF Next, Round

(***************************************************************************)
(* Ownership.                                                              *)
(***************************************************************************)
\* The request of a plan is owned.
LEMMA MadeIsOwned ==
  ASSUME OneSpelling, NEW s \in Syncs, NEW b, MadeBy(s, b)
  PROVE  OwnedBatch(Config[s].txtOwner, b)
<1>1. OwnedBatch(Config[s].txtOwner, NoBatch)
  BY DEF OwnedBatch, OwnedItems, NoBatch
<1>2. ASSUME NEW l \in SUBSET Endpoint, NEW w \in Wants[SourceOf[s]],
             NEW c \in Plans(Config[s], l, w)
      PROVE  OwnedBatch(Config[s].txtOwner, RegistryChanges(Config[s].txtOwner, c))
  <2>1. Config[s].policy \in Policies /\ Config[s].planOwner # ""
    BY SyncAssumption DEF ConfigType
  <2>2. w \in SUBSET Endpoint
    BY SyncAssumption DEF Clusters
  <2>3. QED
    BY <2>1, <2>2, PlanIsOwned
<1>3. QED
  BY <1>1, <1>2 DEF MadeBy

\* A request of s changes only what TXT records that name its owner speak for.
NamedChange(s) ==
  \A k \in DOMAIN store : Changed(k) => SpokenFor(store, k, Config[s].txtOwner)

\* Handling it changes what the owner's TXT records speak for.
LEMMA HandlingIsSafe ==
  ASSUME OneSpelling, TypeOK, NEW s \in Syncs, NEW b \in Batches, MadeBy(s, b),
         NEW o \in ApplyOutcomes(store, b), store' = o.store
  PROVE  NamedChange(s)
<1>1. IsStore(store)
  BY DEF TypeOK
<1>2. PICK zs \in SUBSET Zones : /\ \A z \in zs : Valid(store, b, z)
                                 /\ store' = ApplyZones(store, b, zs)
  BY <1>1, OutcomeType
<1>3. OwnedBatch(Config[s].txtOwner, b)
  BY MadeIsOwned
<1>4. ASSUME NEW k \in DOMAIN store, Changed(k) PROVE SpokenFor(store, k, Config[s].txtOwner)
  BY <1>1, <1>2, <1>3, <1>4, OwnedBatchIsSafe DEF Changed
<1>5. QED
  BY <1>4 DEF NamedChange

\* A request and a late one are handled alike.
LEMMA HandledSafely ==
  ASSUME OneSpelling, Inv
  PROVE  /\ \A s \in Syncs : HandlePost(s) => NamedChange(s)
         /\ \A r \in late : HandleLatePost(r) => NamedChange(r.sync) /\ r.sync \in Syncs
<1>1. ASSUME NEW s \in Syncs, HandlePost(s) PROVE NamedChange(s)
  <2>1. PICK o \in ApplyOutcomes(store, call[s].batch) : store' = o.store
    BY <1>1 DEF HandlePost
  <2>2. TypeOK /\ call[s].batch \in Batches /\ MadeBy(s, call[s].batch)
    BY DEF Inv, TypeOK, RequestsAreMade
  <2>3. QED
    BY <2>1, <2>2, HandlingIsSafe
<1>2. ASSUME NEW r \in late, HandleLatePost(r) PROVE NamedChange(r.sync) /\ r.sync \in Syncs
  <2>1. PICK o \in ApplyOutcomes(store, r.batch) : store' = o.store
    BY <1>2 DEF HandleLatePost
  <2>2. TypeOK /\ r.sync \in Syncs /\ r.batch \in Batches /\ MadeBy(r.sync, r.batch)
    BY DEF Inv, TypeOK, RequestsAreMade
  <2>3. QED
    BY <2>1, <2>2, HandlingIsSafe
<1>3. QED
  BY <1>1, <1>2

\* Whatever the sources label their records with, and whoever writes to the zones
\* between a listing and the handling of the request planned from it, however
\* late that is: nothing is removed or rewritten but what a TXT record that names
\* the sync's owner speaks for (FilterEndpointsByOwnerID, txt.go:186-195).
THEOREM OwnerNamed ==
  ASSUME OneSpelling
  PROVE  Spec => [][/\ \A s \in Syncs : HandlePost(s) => NamedChange(s)
                    /\ \A r \in late : HandleLatePost(r) => NamedChange(r.sync)]_vars
<1>1. Inv => /\ \A s \in Syncs : HandlePost(s) => NamedChange(s)
             /\ \A r \in late : HandleLatePost(r) => NamedChange(r.sync)
  BY HandledSafely
<1>2. QED
  BY SyncInv, <1>1, PTL DEF Spec

(***************************************************************************)
(* Records and their TXT records.                                          *)
(***************************************************************************)
\* A cell in which nobody else has a record is empty or holds one record, the
\* TXT record made for it, and nothing else.
ForeignCells == {TXTKey(Key(e)) : e \in Foreign}
CellsIntact == \A c \in ZoneCells \ ForeignCells : Intact(store, c)

\* Every request lists a record and its TXT record together.
LEMMA MadeIsPaired ==
  ASSUME NEW s, NEW b, MadeBy(s, b)
  PROVE  PairedBatch(b)
<1>1. PairedBatch(NoBatch)
  BY DEF PairedBatch, PairedItems, NoBatch
<1>2. QED
  BY <1>1, RegistryPairs DEF MadeBy

\* Cells stay intact, whatever requests are handled, when and in which zones.
LEMMA IntactCellsStep ==
  ASSUME Inv, CellsIntact, [Next]_vars
  PROVE  CellsIntact'
<1> SUFFICES ASSUME NEW c \in ZoneCells \ ForeignCells PROVE Intact(store', c)
  BY DEF CellsIntact
<1>1. Intact(store, c) /\ IsStore(store)
  BY DEF CellsIntact, Inv, TypeOK
<1>2. CASE UNCHANGED store
  BY <1>1, <1>2
<1>3. ASSUME NEW s \in Syncs, NEW b \in Batches, NEW zs \in SUBSET Zones, MadeBy(s, b),
             \A z \in zs : Valid(store, b, z), store' = ApplyZones(store, b, zs)
      PROVE  Intact(store', c)
  BY <1>1, <1>3, MadeIsPaired, IntactStep
<1>4. ASSUME NEW e \in Foreign, OtherAdded(store, store', e) \/ OtherRemoved(store, store', e)
      PROVE  Intact(store', c)
  <2>1. e \in Endpoint /\ c # TXTKey(Key(e))
    BY SyncAssumption DEF ForeignCells
  <2>2. KeptApartFrom(store, store', c, {})
    BY <1>4, <2>1, OtherCells
  <2>3. QED
    BY <1>1, <2>2, KeptCell
<1>5. QED
  BY <1>2, <1>3, <1>4, StoreStep

\* Through every interleaving of replicas, retries, late requests and partly
\* applied batches, and whatever others do elsewhere.
THEOREM CellsStayIntact == Spec => []CellsIntact
<1>1. Init => CellsIntact
  <2>1. EmptyStore = [k \in {} |-> <<>>] /\ DOMAIN EmptyStore = {}
    BY DEF EmptyStore
  <2>2. QED
    BY <2>1 DEF Init, CellsIntact, Intact, IsEmpty
<1>2. Inv /\ CellsIntact /\ [Next]_vars => CellsIntact'
  BY IntactCellsStep
<1>3. QED
  BY SyncInv, <1>1, <1>2, PTL DEF Spec

\* Where nobody else writes, records and TXT records come and go together.
THEOREM PairsHold == ASSUME Foreign = {} PROVE Spec => []Paired
<1>1. Inv /\ CellsIntact => Paired
  <2> SUFFICES ASSUME Inv, CellsIntact, NEW k \in DOMAIN store
               PROVE  IF k[2] = "TXT"
                      THEN \E l \in DOMAIN store : l[2] # "TXT" /\ TXTKey(l) = k
                      ELSE TXTKey(k) \in DOMAIN store
    BY DEF Paired
  <2>1. IsStore(store) /\ \A c \in ZoneCells : Intact(store, c)
    BY DEF CellsIntact, ForeignCells, Inv, TypeOK
  <2>2. QED
    BY <2>1, IntactStore
<1>2. QED
  BY SyncInv, CellsStayIntact, <1>1, PTL

\* And a record and its TXT record stem from one plan, where the provider keeps
\* the labels that tell.
THEOREM OneOrigin == ASSUME Foreign = {}, PersistLabels PROVE Spec => []SameOrigin
<1>1. Inv /\ CellsIntact => SameOrigin
  <2> SUFFICES ASSUME Inv, CellsIntact, NEW k \in DOMAIN store, k[2] # "TXT"
               PROVE  store[k].labels.resource = store[TXTKey(k)].text.resource
    BY DEF SameOrigin
  <2>1. IsStore(store) /\ \A c \in ZoneCells : Intact(store, c)
    BY DEF CellsIntact, ForeignCells, Inv, TypeOK
  <2>2. PICK r \in Endpoint : store[k] = Stored(r) /\ store[TXTKey(k)].text = r.labels
    BY <2>1, IntactStore
  <2>3. QED
    BY <2>2 DEF Stored
<1>2. QED
  BY SyncInv, CellsStayIntact, <1>1, PTL

(***************************************************************************)
(* Whose labels are whose.                                                 *)
(***************************************************************************)
\* The labels name nobody but the owner o.
LabelsFit(l, o) == l.owner \in {o, Absent} /\ l.mesh \in {o, Absent}

\* What a sync asks for carries no label of another owner.  All that comes from
\* Kubernetes does: a source sets the label "resource", the registry "mesh", and
\* only a DNSEndpoint can set more.
OwnLabels ==
  \A s \in Syncs : \A w \in Wants[SourceOf[s]] : \A d \in w :
     LabelsFit(d.labels, Config[s].txtOwner)

\* Others may even write TXT records with an owner's label, but none that names
\* an owner and the registry of another one.
OthersUnmixed ==
  \A e \in Foreign : e.text.owner \in SyncOwners => OwnedOnlyBy(e.text, e.text.owner)

\* What bears the owner's name in one label or the other, and nobody else's.
MarksFor(o) == {l \in Labels : LabelsFit(l, o) /\ o \in {l.owner, l.mesh}}
Marks == UNION {MarksFor(o) : o \in SyncOwners}

WantedKeys == {Key(d) : d \in UNION (UNION {Wants[c] : c \in Clusters})}

\* An owner is a value of a label, and a label that is missing is none.
LEMMA OwnersAreValues ==
  /\ \A s \in Syncs : Config[s].txtOwner \in SyncOwners
  /\ \A o \in SyncOwners : o \in LabelValues /\ o # Absent
BY SyncAssumption, EndpointsAssumption DEF SyncOwners, ConfigType

\* Requests bear their owner's name throughout, and their deletions and updates
\* are of records that the owner's TXT records speak for.
LEMMA MadeIsPlanned ==
  ASSUME OneSpelling, OwnLabels, NEW s \in Syncs, NEW b, MadeBy(s, b)
  PROVE  AsPlanned(b, WantedKeys, MarksFor(Config[s].txtOwner), Config[s].txtOwner)
<1> DEFINE owner == Config[s].txtOwner
<1>1. CASE b = NoBatch
  BY <1>1, MadeIsPaired DEF AsPlanned, NoBatch
<1>2. ASSUME NEW l \in SUBSET Endpoint, NEW w \in Wants[SourceOf[s]],
             NEW c \in Plans(Config[s], l, w), b = RegistryChanges(owner, c)
      PROVE  AsPlanned(b, WantedKeys, MarksFor(owner), owner)
  <2>1. /\ Config[s].policy \in Policies /\ Config[s].planOwner # ""
        /\ owner \in LabelValues
    BY SyncAssumption DEF ConfigType
  <2>2. w \in SUBSET Endpoint
    BY SyncAssumption DEF Clusters
  <2>3. AsPlanned(b, {Key(d) : d \in w}, MarksOf(w, owner), owner)
    BY <1>2, <2>1, <2>2, PlanAsPlanned
  <2>4. {Key(d) : d \in w} \subseteq WantedKeys
    BY DEF WantedKeys, Clusters
  <2>5. MarksOf(w, owner) \subseteq MarksFor(owner)
    <3>1. ASSUME NEW d \in w
          PROVE  /\ [d.labels EXCEPT !.mesh = owner] \in MarksFor(owner)
                 /\ WithOwner(d.labels, owner) \in MarksFor(owner)
      <4>1. d.labels \in Labels /\ LabelsFit(d.labels, owner)
        BY <2>2 DEF Endpoint, OwnLabels
      <4> HIDE DEF owner
      <4>2. QED
        BY <2>1, <4>1 DEF Labels, LabelsFit, MarksFor, WithOwner
    <3>2. QED
      BY <3>1 DEF MarksOf
  <2>6. QED
    BY <2>3, <2>4, <2>5 DEF AsPlanned
<1>3. QED
  BY <1>1, <1>2 DEF MadeBy

\* No TXT record names one owner and was signed by the registry of another.
TextsUnmixed ==
  \A c \in ZoneCells \cap DOMAIN store :
     store[c].text.owner \in SyncOwners => OwnedOnlyBy(store[c].text, store[c].text.owner)

\* Requests write none that does.
LEMMA UnmixedStep ==
  ASSUME OneSpelling, OwnLabels, OthersUnmixed, Inv, TextsUnmixed, [Next]_vars
  PROVE  TextsUnmixed'
<1> SUFFICES ASSUME NEW c \in ZoneCells, c \in DOMAIN store', store'[c].text.owner \in SyncOwners
             PROVE  OwnedOnlyBy(store'[c].text, store'[c].text.owner)
  BY DEF TextsUnmixed
<1>1. c \in InCell(c) /\ c \in EndpointKey /\ IsStore(store)
  BY DEF InCell, ZoneCells, EndpointKey, TXTKey, RecordTypes, Inv, TypeOK
<1>2. CASE c \in DOMAIN store /\ store'[c] = store[c]
  BY <1>2 DEF TextsUnmixed
<1>3. CASE UNCHANGED store
  BY <1>2, <1>3
<1>4. ASSUME NEW s \in Syncs, NEW b \in Batches, NEW zs \in SUBSET Zones, MadeBy(s, b),
             \A z \in zs : Valid(store, b, z), store' = ApplyZones(store, b, zs)
      PROVE  OwnedOnlyBy(store'[c].text, store'[c].text.owner)
  <2>1. AsPlanned(b, WantedKeys, MarksFor(Config[s].txtOwner), Config[s].txtOwner)
    BY <1>4, MadeIsPlanned
  <2>2. CASE KeptApartFrom(store, store', c, {})
    BY <1>1, <1>2, <2>2 DEF KeptApartFrom
  <2>3. ASSUME NEW r \in Endpoint, TXTKey(Key(r)) = c, HoldsPair(store', r),
               <<r, "self">> \in b.create \cup b.updateNew
        PROVE  OwnedOnlyBy(store'[c].text, store'[c].text.owner)
    <3>1. store'[c].text = r.labels
      BY <2>3, TXTRecordType DEF HoldsPair, Stored
    <3>2. r.labels \in MarksFor(Config[s].txtOwner)
      BY <2>1, <2>3 DEF AsPlanned
    <3>3. QED
      BY <3>1, <3>2, OwnersAreValues DEF MarksFor, LabelsFit, OwnedOnlyBy
  <2>4. ASSUME NEW r, TXTKey(Key(r)) = c PROVE ~Released(store, store', r)
    BY <2>4 DEF Released, PairKeys
  <2>5. PairedBatch(b)
    BY <2>1 DEF AsPlanned
  <2>6. QED
    BY <1>1, <1>4, <2>2, <2>3, <2>4, <2>5, CellOutcome DEF Claimed, Refilled
<1>5. ASSUME NEW e \in Foreign, OtherAdded(store, store', e) \/ OtherRemoved(store, store', e)
      PROVE  OwnedOnlyBy(store'[c].text, store'[c].text.owner)
  <2>1. CASE c = Key(e)
    BY <1>5, <2>1 DEF OtherAdded, OtherRemoved, OthersUnmixed
  <2>2. CASE c # Key(e)
    BY <1>1, <1>2, <1>5, <2>2 DEF OtherAdded, OtherRemoved
  <2>3. QED
    BY <2>1, <2>2
<1>6. QED
  BY <1>3, <1>4, <1>5, StoreStep

\* Whoever writes to the zones between a listing and the handling of the request
\* planned from it, however late the request arrives, and whatever other syncs
\* with other owners do: a sync removes and rewrites its own records only.
THEOREM Ownership ==
  ASSUME OneSpelling, OwnLabels, OthersUnmixed
  PROVE  Spec => OwnerSafety
<1>1. Init => TextsUnmixed
  BY DEF Init, TextsUnmixed, EmptyStore
<1>2. Inv /\ TextsUnmixed /\ [Next]_vars => TextsUnmixed'
  BY UnmixedStep
<1>3. Inv /\ TextsUnmixed =>
        /\ \A s \in Syncs : HandlePost(s) => OnlyOwnedChange(s)
        /\ \A r \in late : HandleLatePost(r) => OnlyOwnedChange(r.sync)
  <2> SUFFICES ASSUME Inv, TextsUnmixed
               PROVE  /\ \A s \in Syncs : HandlePost(s) => OnlyOwnedChange(s)
                      /\ \A r \in late : HandleLatePost(r) => OnlyOwnedChange(r.sync)
    OBVIOUS
  <2>1. ASSUME NEW s \in Syncs, NamedChange(s) PROVE OnlyOwnedChange(s)
    <3>1. ASSUME NEW k \in DOMAIN store, SpokenFor(store, k, Config[s].txtOwner)
          PROVE  HasOwnerTXT(k, Config[s].txtOwner)
      <4>1. TXTKey(k) \in ZoneCells
        BY DEF Inv, TypeOK, IsStore, TXTKey, EndpointKey, ZoneCells
      <4>2. QED
        BY <3>1, <4>1, OwnersAreValues DEF SpokenFor, TextsUnmixed, HasOwnerTXT
    <3>2. QED
      BY <2>1, <3>1 DEF NamedChange, OnlyOwnedChange
  <2>2. QED
    BY <2>1, HandledSafely
<1>4. QED
  BY SyncInv, <1>1, <1>2, <1>3, PTL DEF Spec, OwnerSafety

(***************************************************************************)
(* A zone with owners.                                                     *)
(***************************************************************************)
\* The others do not use the marks of an owner, and they put no record of
\* another type beside one that the resources ask for.
OthersApart ==
  /\ Distinct(Foreign, WantedKeys, Marks, SyncOwners)
  /\ \A e \in Foreign : SignedBy(e.text) = Absent

\* Every cell belongs to the others or to an owner, entirely.
OwnedCell(c) == IsOwned(store, c, WantedKeys, Marks)
CellsDivided == \A c \in ZoneCells : IsOthers(store, c, Foreign) \/ OwnedCell(c)

\* What a request of an owner may do to a cell of a divided zone.
RequestOn(st, new, c, o) ==
  \/ KeptApartFrom(st, new, c, {})
  \/ IsEmpty(st, c) /\ IsOwned(new, c, WantedKeys, MarksFor(o))
  \/ /\ IsOwned(st, c, WantedKeys, MarksFor(o))
     /\ IsOwned(new, c, WantedKeys, MarksFor(o)) \/ IsEmpty(new, c)

\* The marks of one owner that name another owner are none.
LEMMA MarksApart ==
  ASSUME NEW o \in SyncOwners
  PROVE  MarksFor(o) \subseteq Marks /\ Naming(Marks, o) \subseteq MarksFor(o)
<1>1. ASSUME NEW p \in SyncOwners, NEW l \in MarksFor(p), l.owner = o PROVE p = o
  BY <1>1, OwnersAreValues DEF MarksFor, LabelsFit
<1>2. QED
  BY <1>1 DEF Marks, Naming

\* It does so, whoever else holds cells in the zone.
LEMMA RequestOutcome ==
  ASSUME OneSpelling, OwnLabels, OthersApart, Inv, CellsDivided,
         NEW s \in Syncs, NEW b \in Batches, NEW zs \in SUBSET Zones, MadeBy(s, b),
         \A z \in zs : Valid(store, b, z), store' = ApplyZones(store, b, zs),
         NEW c \in ZoneCells
  PROVE  RequestOn(store, store', c, Config[s].txtOwner)
<1> DEFINE o == Config[s].txtOwner
<1>1. o \in SyncOwners
  BY DEF SyncOwners
<1>2. MarksFor(o) \in SUBSET Marks /\ Naming(Marks, o) \subseteq MarksFor(o)
  BY <1>1, MarksApart
<1>3. AsPlanned(b, WantedKeys, MarksFor(o), o)
  BY MadeIsPlanned
<1>4. /\ IsStore(store) /\ Foreign \in SUBSET Endpoint
      /\ Distinct(Foreign, WantedKeys, Marks, SyncOwners)
      /\ IsOthers(store, c, Foreign) \/ IsOwned(store, c, WantedKeys, Marks)
  BY SyncAssumption DEF Inv, TypeOK, OthersApart, CellsDivided, OwnedCell
<1> HIDE DEF o
<1>5. \/ KeptApartFrom(store, store', c, {})
      \/ IsEmpty(store, c) /\ IsOwned(store', c, WantedKeys, MarksFor(o))
      \/ /\ IsOwned(store, c, WantedKeys, Naming(Marks, o))
         /\ IsOwned(store', c, WantedKeys, MarksFor(o)) \/ IsEmpty(store', c)
  BY <1>1, <1>2, <1>3, <1>4, ContestedOutcome
<1>6. IsOwned(store, c, WantedKeys, Naming(Marks, o)) => IsOwned(store, c, WantedKeys, MarksFor(o))
  BY <1>2 DEF IsOwned
<1>7. QED
  BY <1>5, <1>6 DEF RequestOn, o

\* Cells stay divided, through requests and through the others' records.
LEMMA DividedStep ==
  ASSUME OneSpelling, OwnLabels, OthersApart, PersistLabels,
         Inv, CellsDivided, [Next]_vars
  PROVE  CellsDivided'
<1> SUFFICES ASSUME NEW c \in ZoneCells
             PROVE  IsOthers(store', c, Foreign) \/ IsOwned(store', c, WantedKeys, Marks)
  BY DEF CellsDivided, OwnedCell
<1>1. /\ IsStore(store) /\ Distinct(Foreign, WantedKeys, Marks, SyncOwners)
      /\ Foreign \in SUBSET Endpoint
      /\ IsOthers(store, c, Foreign) \/ IsOwned(store, c, WantedKeys, Marks)
  BY SyncAssumption DEF Inv, TypeOK, CellsDivided, OwnedCell, OthersApart
<1>2. ASSUME KeptApartFrom(store, store', c, {})
      PROVE  IsOthers(store', c, Foreign) \/ IsOwned(store', c, WantedKeys, Marks)
  BY <1>1, <1>2, KeptCell
<1>3. ASSUME NEW s \in Syncs, NEW b \in Batches, NEW zs \in SUBSET Zones, MadeBy(s, b),
             \A z \in zs : Valid(store, b, z), store' = ApplyZones(store, b, zs)
      PROVE  IsOthers(store', c, Foreign) \/ IsOwned(store', c, WantedKeys, Marks)
  <2> DEFINE o == Config[s].txtOwner
  <2>1. RequestOn(store, store', c, o)
    BY <1>3, RequestOutcome
  <2>2. MarksFor(o) \subseteq Marks
    BY OwnersAreValues, MarksApart
  <2> HIDE DEF o
  <2>3. CASE IsEmpty(store', c)
    BY <2>3 DEF IsEmpty, IsOthers
  <2>4. CASE IsOwned(store', c, WantedKeys, MarksFor(o))
    BY <2>2, <2>4 DEF IsOwned
  <2>5. QED
    BY <1>2, <2>1, <2>3, <2>4 DEF RequestOn
<1>4. ASSUME NEW e \in Foreign, OtherAdded(store, store', e) \/ OtherRemoved(store, store', e)
      PROVE  IsOthers(store', c, Foreign) \/ IsOwned(store', c, WantedKeys, Marks)
  <2>1. IsOthers(store', c, Foreign) \/ KeptApartFrom(store, store', c, {})
    BY <1>1, <1>4, OthersOutcome
  <2>2. QED
    BY <1>2, <2>1
<1>5. CASE UNCHANGED store
  BY <1>1, <1>5
<1>6. QED
  BY <1>3, <1>4, <1>5, StoreStep

\* The others' cells and those of the owners stay apart in every behaviour, and a
\* cell never holds records of two owners.
THEOREM CellsStayDivided ==
  ASSUME OneSpelling, OwnLabels, OthersApart, PersistLabels
  PROVE  Spec => []CellsDivided
<1>1. Init => CellsDivided
  <2>1. DOMAIN EmptyStore = {}
    BY DEF EmptyStore
  <2>2. QED
    BY <2>1 DEF Init, CellsDivided, IsOthers
<1>2. Inv /\ CellsDivided /\ [Next]_vars => CellsDivided'
  BY DividedStep
<1>3. QED
  BY SyncInv, <1>1, <1>2, PTL DEF Spec

\* What the cells of the abstract zone see of the store: st stands for the
\* store before or after a step.
OwnerIn(st, c) == IF c \in DOMAIN st THEN SignedBy(st[c].text) ELSE Absent
ContentIn(st, c) == {st[k] : k \in {l \in DOMAIN st : l[2] # "TXT" /\ TXTKey(l) = c}}

\* A marked cell has its owner and a content, an empty one neither, and a cell
\* of the others has no owner that the abstract zone knows.
LEMMA CellSeen ==
  ASSUME NEW st, NEW c \in ZoneCells
  PROVE  /\ \A o \in SyncOwners : IsOwned(st, c, WantedKeys, MarksFor(o))
              => OwnerIn(st, c) = o /\ ContentIn(st, c) # {}
         /\ IsEmpty(st, c) /\ IsStore(st) => OwnerIn(st, c) = Absent /\ ContentIn(st, c) = {}
         /\ IsOthers(st, c, Foreign) /\ OthersApart => OwnerIn(st, c) = Absent
<1>1. c \in InCell(c)
  BY DEF InCell, ZoneCells, EndpointKey, TXTKey, RecordTypes
<1>2. ASSUME NEW o \in SyncOwners, NEW r \in Endpoint, IsPair(st, c, r), r.labels \in MarksFor(o)
      PROVE  OwnerIn(st, c) = o /\ ContentIn(st, c) # {}
  <2>1. c \in DOMAIN st /\ st[c].text = r.labels
    BY <1>2, TXTRecordType DEF IsPair, HoldsPair, Stored
  <2>2. Key(r) \in DOMAIN st /\ Key(r)[2] # "TXT" /\ TXTKey(Key(r)) = c
    BY <1>2 DEF IsPair, HoldsPair, Key
  <2>3. SignedBy(r.labels) = o
    BY <1>2, OwnersAreValues DEF MarksFor, LabelsFit, SignedBy
  <2>4. QED
    BY <2>1, <2>2, <2>3 DEF OwnerIn, ContentIn
<1>3. ASSUME IsEmpty(st, c), IsStore(st)
      PROVE  OwnerIn(st, c) = Absent /\ ContentIn(st, c) = {}
  <2>1. \A k \in DOMAIN st : TXTKey(k) # c
    BY <1>3 DEF IsEmpty, InCell, IsStore
  <2>2. c \notin DOMAIN st
    BY <1>1, <1>3 DEF IsEmpty
  <2>3. QED
    BY <2>1, <2>2 DEF OwnerIn, ContentIn
<1>4. ASSUME IsOthers(st, c, Foreign), OthersApart PROVE OwnerIn(st, c) = Absent
  BY <1>1, <1>4 DEF IsOthers, OthersApart, OwnerIn
<1>5. QED
  BY <1>2, <1>3, <1>4 DEF IsOwned

\* A cell that does not change is seen as before.
LEMMA KeptSeen ==
  ASSUME NEW st, IsStore(st), NEW new, IsStore(new), NEW c \in ZoneCells,
         KeptApartFrom(st, new, c, {})
  PROVE  OwnerIn(new, c) = OwnerIn(st, c) /\ ContentIn(new, c) = ContentIn(st, c)
<1>1. \A k \in InCell(c) : /\ k \in DOMAIN new <=> k \in DOMAIN st
                           /\ k \in DOMAIN st => new[k] = st[k]
  BY DEF KeptApartFrom
<1>2. c \in InCell(c)
  BY DEF InCell, ZoneCells, EndpointKey, TXTKey, RecordTypes
<1>3. \A k \in DOMAIN st \cup DOMAIN new : TXTKey(k) = c => k \in InCell(c)
  BY DEF InCell, IsStore
<1>4. OwnerIn(new, c) = OwnerIn(st, c)
  BY <1>1, <1>2 DEF OwnerIn
<1>5. ContentIn(new, c) = ContentIn(st, c)
  BY <1>1, <1>3 DEF ContentIn
<1>6. QED
  BY <1>4, <1>5

\* What handling a request does to the zone of the specification above.
LEMMA RequestImplements ==
  ASSUME OneSpelling, OwnLabels, OthersApart,
         Inv, CellsDivided, IsStore(store)',
         NEW s \in Syncs, NEW b \in Batches, NEW zs \in SUBSET Zones, MadeBy(s, b),
         \A z \in zs : Valid(store, b, z), store' = ApplyZones(store, b, zs)
  PROVE  Zone!Next
<1> DEFINE o == Config[s].txtOwner
<1>1. o \in SyncOwners
  BY DEF SyncOwners
<1>2. \A c \in Cells : c \in ZoneCells
  BY DEF Cells, ZoneCells
<1>3. \A c \in Cells : /\ OwnerOf(c) = OwnerIn(store, c) /\ OwnerOf(c)' = OwnerIn(store', c)
                       /\ ContentOf(c) = ContentIn(store, c)
                       /\ ContentOf(c)' = ContentIn(store', c)
  BY DEF OwnerOf, OwnerIn, ContentOf, ContentIn
<1>4. IsStore(store) /\ IsStore(store')
  BY DEF Inv, TypeOK
<1>5. ASSUME NEW c \in Cells PROVE RequestOn(store, store', c, o)
  BY <1>2, RequestOutcome
<1> HIDE DEF o
<1>6. ASSUME NEW c \in Cells
      PROVE  \/ OwnerOf(c)' = OwnerOf(c) /\ ContentOf(c)' = ContentOf(c)
             \/ /\ OwnerOf(c) = Absent /\ ContentOf(c) = {}
                /\ OwnerOf(c)' = o /\ ContentOf(c)' # {}
             \/ /\ OwnerOf(c) = o /\ OwnerOf(c)' = o /\ ContentOf(c)' # {}
             \/ /\ OwnerOf(c) = o /\ OwnerOf(c)' = Absent /\ ContentOf(c)' = {}
  <2>1. CASE KeptApartFrom(store, store', c, {})
    BY <1>2, <1>3, <1>4, <2>1, KeptSeen
  <2>2. CASE IsEmpty(store, c) /\ IsOwned(store', c, WantedKeys, MarksFor(o))
    BY <1>1, <1>2, <1>3, <1>4, <2>2, CellSeen
  <2>3. CASE /\ IsOwned(store, c, WantedKeys, MarksFor(o))
             /\ IsOwned(store', c, WantedKeys, MarksFor(o)) \/ IsEmpty(store', c)
    BY <1>1, <1>2, <1>3, <1>4, <2>3, CellSeen
  <2>4. QED
    BY <1>5, <2>1, <2>2, <2>3 DEF RequestOn
<1>7. Zone!Write(o)
  BY <1>6 DEF Zone!Write, Zone!Claim, Zone!Refill, Zone!Release, Zone!Untouched
<1>8. QED
  BY <1>1, <1>7 DEF Zone!Next

\* Every step is a step of the zone with owners, or none.
LEMMA StepImplements ==
  ASSUME OneSpelling, OwnLabels, OthersApart, PersistLabels,
         Inv, CellsDivided, Inv', [Next]_vars
  PROVE  [Zone!Next]_(Zone!vars)
<1>1. CASE UNCHANGED store
  <2>1. \A c \in Cells : OwnerOf(c)' = OwnerOf(c) /\ ContentOf(c)' = ContentOf(c)
    BY <1>1 DEF OwnerOf, ContentOf
  <2>2. QED
    BY <2>1 DEF Zone!vars
<1>2. ASSUME NEW s \in Syncs, NEW b \in Batches, NEW zs \in SUBSET Zones, MadeBy(s, b),
             \A z \in zs : Valid(store, b, z), store' = ApplyZones(store, b, zs)
      PROVE  Zone!Next
  <2>1. IsStore(store)'
    BY DEF Inv, TypeOK
  <2>2. QED
    BY <1>2, <2>1, RequestImplements
<1>3. ASSUME NEW e \in Foreign, OtherAdded(store, store', e) \/ OtherRemoved(store, store', e)
      PROVE  Zone!Next
  <2>1. ASSUME NEW c \in Cells
        PROVE  \/ OwnerOf(c)' = OwnerOf(c) /\ ContentOf(c)' = ContentOf(c)
               \/ OwnerOf(c) = Absent /\ OwnerOf(c)' = Absent
    <3>1. /\ c \in ZoneCells /\ IsStore(store) /\ IsStore(store') /\ Foreign \in SUBSET Endpoint
          /\ Distinct(Foreign, WantedKeys, Marks, SyncOwners)
      BY SyncAssumption DEF Cells, ZoneCells, Inv, TypeOK, OthersApart
    <3>2. IsOthers(store, c, Foreign) \/ IsOwned(store, c, WantedKeys, Marks)
      BY <3>1 DEF CellsDivided, OwnedCell
    <3>3. \/ IsOthers(store, c, Foreign) /\ IsOthers(store', c, Foreign)
          \/ KeptApartFrom(store, store', c, {})
      BY <1>3, <3>1, <3>2, OthersOutcome
    <3>4. /\ OwnerOf(c) = OwnerIn(store, c) /\ OwnerOf(c)' = OwnerIn(store', c)
          /\ ContentOf(c) = ContentIn(store, c) /\ ContentOf(c)' = ContentIn(store', c)
      BY DEF OwnerOf, OwnerIn, ContentOf, ContentIn
    <3>5. QED
      BY <3>1, <3>3, <3>4, CellSeen, KeptSeen
  <2>2. Zone!OthersWrite
    BY <2>1 DEF Zone!OthersWrite
  <2>3. QED
    BY <2>2 DEF Zone!Next
<1>4. QED
  BY <1>1, <1>2, <1>3, StoreStep

\* Listings, plans, requests that are late or applied in some zones only,
\* crashes and other writers amount to a zone with owners, for any number of
\* syncs with any owners, and any processes, names and zones.
THEOREM Implements ==
  ASSUME OneSpelling, OwnLabels, OthersApart, PersistLabels
  PROVE  Spec => ZoneWithOwners
<1>1. Init => Zone!Init
  <2> SUFFICES ASSUME Init PROVE Zone!Init
    OBVIOUS
  <2>1. DOMAIN store = {}
    BY DEF Init, EmptyStore
  <2>2. \A c \in Cells : OwnerOf(c) = Absent /\ ContentOf(c) = {}
    BY <2>1 DEF OwnerOf, ContentOf
  <2>3. QED
    BY <2>2 DEF Zone!Init
<1>2. Inv /\ CellsDivided /\ Inv' /\ [Next]_vars => [Zone!Next]_(Zone!vars)
  BY StepImplements
<1>3. QED
  BY SyncInv, CellsStayDivided, <1>1, <1>2, PTL DEF Spec, ZoneWithOwners, Zone!Spec

\* A zone with owners leaves no owner with an empty cell.
LEMMA CellsInUseStep ==
  ASSUME Zone!NeverEmpty, [Zone!Next]_(Zone!vars)
  PROVE  Zone!NeverEmpty'
<1> SUFFICES ASSUME NEW c \in Cells, OwnerOf(c)' # Absent
             PROVE  ContentOf(c)' # {}
  BY DEF Zone!NeverEmpty
<1>1. ASSUME NEW o \in SyncOwners, Zone!Write(o) PROVE ContentOf(c)' # {}
  <2>1. CASE Zone!Claim(c, o) \/ Zone!Refill(c, o)
    BY <2>1 DEF Zone!Claim, Zone!Refill
  <2>2. CASE Zone!Release(c, o)
    BY <2>2 DEF Zone!Release
  <2>3. CASE Zone!Untouched(c)
    BY <2>3 DEF Zone!Untouched, Zone!NeverEmpty
  <2>4. QED
    BY <1>1, <2>1, <2>2, <2>3 DEF Zone!Write
<1>2. CASE Zone!OthersWrite
  BY <1>2 DEF Zone!OthersWrite, Zone!NeverEmpty
<1>3. CASE UNCHANGED Zone!vars
  BY <1>3 DEF Zone!vars, Zone!NeverEmpty
<1>4. QED
  BY <1>1, <1>2, <1>3 DEF Zone!Next

\* What the abstract zone guarantees: no owner keeps a cell without a record.
THEOREM CellsInUse == Zone!Spec => []Zone!NeverEmpty
<1>1. Zone!Init => Zone!NeverEmpty
  BY DEF Zone!Init, Zone!NeverEmpty
<1>2. QED
  BY <1>1, CellsInUseStep, PTL DEF Zone!Spec

\* So a TXT record of the registry is never left alone in the zones
\* (ApplyChanges, txt.go:166-199), whatever becomes of the record beside it.
THEOREM NoTXTAlone ==
  ASSUME OneSpelling, OwnLabels, OthersApart, PersistLabels
  PROVE  Spec => []Zone!NeverEmpty
<1>1. Spec => Zone!Spec
  BY Implements DEF ZoneWithOwners
<1>2. QED
  BY <1>1, CellsInUse, PTL
=============================================================================
