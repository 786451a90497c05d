----------------------------- MODULE RoundsProof -----------------------------
(***************************************************************************)
(* Proofs about Rounds: what no round does to a zone, for every policy,    *)
(* configuration and set of records that the sources ask for.              *)
(***************************************************************************)
EXTENDS Rounds, RecordLemmas

(***************************************************************************)
(* Steps.                                                                  *)
(***************************************************************************)
\* A round that changes something handles what the registry makes of a plan.
LEMMA RoundStep ==
  ASSUME TypeOK, RunOnceApply
  PROVE  \E l \in SUBSET Endpoint : \E c \in Plans(config, l, want) :
           /\ c \in Changes
           /\ RegistryChanges(config.txtOwner, c) \in Batches
           /\ \E zs \in SUBSET Zones :
                /\ \A z \in zs : Valid(store, RegistryChanges(config.txtOwner, c), z)
                /\ store' = ApplyZones(store, RegistryChanges(config.txtOwner, c), zs)
           /\ IsStore(store') /\ outcome' \in {"applied", "rejected"}
<1>1. PICK c \in PlansNow :
        \E o \in ApplyOutcomes(store, RegistryChanges(config.txtOwner, c)) :
           store' = o.store /\ outcome' = IF o.ok THEN "applied" ELSE "rejected"
  BY DEF RunOnceApply
<1>2. PICK o \in ApplyOutcomes(store, RegistryChanges(config.txtOwner, c)) :
         store' = o.store /\ outcome' = IF o.ok THEN "applied" ELSE "rejected"
  BY <1>1
<1>3. PICK l \in RegistryRecords(config.txtOwner, RecordsOf(store)) : c \in Plans(config, l, want)
  BY DEF PlansNow
<1>4. RecordsOf(store) \in SUBSET Endpoint /\ IsStore(store)
  BY DEF TypeOK, IsStore, RecordsOf
<1>5. l \in SUBSET Endpoint
  BY <1>3, <1>4, RegistryRecordsType
<1>6. config.policy \in Policies /\ config.txtOwner \in LabelValues /\ want \in SUBSET Endpoint
  BY RoundsAssumption DEF TypeOK, ConfigType
<1>7. c \in Changes
  BY <1>3, <1>5, <1>6, PlansType
<1>8. RegistryChanges(config.txtOwner, c) \in Batches
  BY <1>6, <1>7, RegistryChangesType
<1>9. /\ \E zs \in SUBSET Zones :
           /\ \A z \in zs : Valid(store, RegistryChanges(config.txtOwner, c), z)
           /\ store' = ApplyZones(store, RegistryChanges(config.txtOwner, c), zs)
      /\ IsStore(store')
  BY <1>2, <1>4, <1>8, OutcomeType
<1>10. QED
  BY <1>2, <1>3, <1>5, <1>7, <1>8, <1>9

\* The other clients of the zone put their records or take them away.
LEMMA OthersStep ==
  ASSUME TypeOK, NEW e \in Foreign, OtherAdds(e) \/ OtherRemoves(e)
  PROVE  OtherAdded(store, store', e) \/ OtherRemoved(store, store', e)
BY RoundsAssumption DEF OtherAdds, OtherRemoves, OtherAdded, OtherRemoved, TypeOK, IsStore

(***************************************************************************)
(* Types.                                                                  *)
(***************************************************************************)
LEMMA InitType == Init => TypeOK
<1>1. IsStore(EmptyStore)
  BY DEF IsStore, EmptyStore
<1>2. QED
  BY <1>1 DEF Init, TypeOK, Outcomes

\* Every round and every step of the surroundings keeps the types.
LEMMA TypeStep == TypeOK /\ [Next]_vars => TypeOK'
<1> SUFFICES ASSUME TypeOK, [Next]_vars PROVE TypeOK'
  OBVIOUS
<1>1. CASE RunOnceUnchanged
  BY <1>1 DEF RunOnceUnchanged, TypeOK, Outcomes
<1>2. CASE RunOnceApply
  <2>1. IsStore(store') /\ outcome' \in {"applied", "rejected"}
    BY <1>2, RoundStep
  <2>2. config' = config /\ want' = want
    BY <1>2 DEF RunOnceApply
  <2>3. QED
    BY <2>1, <2>2 DEF TypeOK, Outcomes
<1>3. ASSUME NEW w \in Wants, SourceChanges(w) PROVE TypeOK'
  BY <1>3 DEF SourceChanges, TypeOK, Outcomes
<1>4. ASSUME NEW c \in Configs, Reconfigure(c) PROVE TypeOK'
  BY <1>4 DEF Reconfigure, TypeOK, Outcomes
<1>5. ASSUME NEW e \in Foreign, OtherAdds(e) PROVE TypeOK'
  <2>1. e \in Endpoint /\ Key(e) \in EndpointKey
    BY KeyType, RoundsAssumption
  <2>2. IsStore(store')
    BY <1>5, <2>1 DEF OtherAdds, TypeOK, IsStore
  <2>3. QED
    BY <1>5, <2>2 DEF OtherAdds, TypeOK, Outcomes
<1>6. ASSUME NEW e \in Foreign, OtherRemoves(e) PROVE TypeOK'
  <2>1. IsStore(store')
    BY <1>6 DEF OtherRemoves, TypeOK, IsStore
  <2>2. QED
    BY <1>6, <2>1 DEF OtherRemoves, TypeOK, Outcomes
<1>7. CASE UNCHANGED vars
  BY <1>7 DEF vars, TypeOK
<1>8. QED
  BY <1>1, <1>2, <1>3, <1>4, <1>5, <1>6, <1>7 DEF Next

\* The store holds records under their keys, whatever the sources ask for and whoever
\* else writes (RunOnce, and ApplyChanges of the in-memory provider).
THEOREM TypeCorrect == Spec => []TypeOK
BY InitType, TypeStep, PTL DEF Spec

(***************************************************************************)
(* The policy and the owner.                                               *)
(***************************************************************************)
\* A round only does what its policy allows.
LEMMA RoundKeepsPolicy ==
  ASSUME TypeOK, RunOnceApply, NEW k \in DOMAIN store
  PROVE  /\ config.policy = "create-only" => ~Changed(k)
         /\ config.policy = "upsert-only" => k \in DOMAIN store'
<1>1. PICK l \in SUBSET Endpoint : \E c \in Plans(config, l, want) :
        /\ RegistryChanges(config.txtOwner, c) \in Batches
        /\ \E zs \in SUBSET Zones :
             /\ \A z \in zs : Valid(store, RegistryChanges(config.txtOwner, c), z)
             /\ store' = ApplyZones(store, RegistryChanges(config.txtOwner, c), zs)
  BY RoundStep
<1>2. PICK c \in Plans(config, l, want) :
        /\ RegistryChanges(config.txtOwner, c) \in Batches
        /\ \E zs \in SUBSET Zones :
             /\ \A z \in zs : Valid(store, RegistryChanges(config.txtOwner, c), z)
             /\ store' = ApplyZones(store, RegistryChanges(config.txtOwner, c), zs)
  BY <1>1
<1> DEFINE b == RegistryChanges(config.txtOwner, c)
<1>3. PICK zs \in SUBSET Zones : /\ \A z \in zs : Valid(store, b, z)
                                 /\ store' = ApplyZones(store, b, zs)
  BY <1>2
<1>4. config.policy \in Policies /\ IsStore(store)
  BY RoundsAssumption DEF TypeOK, ConfigType
<1>5. /\ config.policy = "create-only" => c.delete = {} /\ c.updateNew = {}
      /\ config.policy = "upsert-only" => c.delete = {}
  BY <1>4, PlansKeepPolicy
<1>6. /\ c.delete = {} => b.delete = {}
      /\ c.updateNew = {} => b.updateNew = {}
  BY DEF RegistryChanges, WithTXT, FilterEndpointsByOwnerID
<1> HIDE DEF b
<1>7. ASSUME config.policy = "create-only", Changed(k) PROVE FALSE
  <2>1. b.delete = {} /\ b.updateNew = {}
    BY <1>5, <1>6, <1>7
  <2>2. \E z \in zs : \E i \in InZone(z, b.delete) \cup InZone(z, b.updateNew) : ItemKey(i) = k
    BY <1>2, <1>3, <1>4, <1>7, ChangedByItem DEF Changed, b
  <2>3. QED
    BY <2>1, <2>2 DEF InZone
<1>8. ASSUME config.policy = "upsert-only" PROVE k \in DOMAIN store'
  <2>1. b.delete = {}
    BY <1>5, <1>6, <1>8
  <2>2. ItemKeys(ItemsIn(zs, b.delete)) = {}
    BY <2>1 DEF ItemKeys, ItemsIn, InZone
  <2>3. QED
    BY <1>3, <2>2 DEF ApplyZones
<1>9. QED
  BY <1>7, <1>8

\* Whatever the sources ask for and the zones hold, a create-only sync never
\* touches a record that is there, and an upsert-only sync never removes one
\* (ApplyPolicy, policy.go).
THEOREM Policy == Spec => PolicyRespected
<1>1. TypeOK /\ [Next]_vars =>
        [RunOnce => \A k \in DOMAIN store :
           /\ config.policy = "create-only" => ~Changed(k)
           /\ config.policy = "upsert-only" => k \in DOMAIN store']_vars
  <2> SUFFICES ASSUME TypeOK, RunOnce, NEW k \in DOMAIN store
               PROVE  /\ config.policy = "create-only" => ~Changed(k)
                      /\ config.policy = "upsert-only" => k \in DOMAIN store'
    OBVIOUS
  <2>1. CASE RunOnceUnchanged
    BY <2>1 DEF RunOnceUnchanged, Changed
  <2>2. CASE RunOnceApply
    BY <2>2, RoundKeepsPolicy
  <2>3. QED
    BY <2>1, <2>2 DEF RunOnce
<1>2. QED
  BY TypeCorrect, <1>1, PTL DEF Spec, PolicyRespected

\* Every configuration plans for an owner, as every sync of the program does.
PlansForOwner == \A c \in Configs : c.planOwner # ""

\* No round touches what no TXT record of its owner speaks for, whatever owner
\* it runs for and whatever others put into the zones.
THEOREM Ownership == ASSUME OneSpelling, PlansForOwner PROVE Spec => OwnerSafety
<1>1. ASSUME TypeOK, RunOnceApply, NEW k \in DOMAIN store, Changed(k)
      PROVE  HasOwnerTXT(k)
  <2>1. PICK l \in SUBSET Endpoint : \E c \in Plans(config, l, want) :
          /\ RegistryChanges(config.txtOwner, c) \in Batches
          /\ \E zs \in SUBSET Zones :
               /\ \A z \in zs : Valid(store, RegistryChanges(config.txtOwner, c), z)
               /\ store' = ApplyZones(store, RegistryChanges(config.txtOwner, c), zs)
    BY <1>1, RoundStep
  <2>2. PICK c \in Plans(config, l, want) :
          /\ RegistryChanges(config.txtOwner, c) \in Batches
          /\ \E zs \in SUBSET Zones :
               /\ \A z \in zs : Valid(store, RegistryChanges(config.txtOwner, c), z)
               /\ store' = ApplyZones(store, RegistryChanges(config.txtOwner, c), zs)
    BY <2>1
  <2>3. /\ config.policy \in Policies /\ config.planOwner # "" /\ want \in SUBSET Endpoint
        /\ IsStore(store)
    BY <1>1, RoundsAssumption DEF TypeOK, ConfigType, PlansForOwner
  <2>4. OwnedBatch(config.txtOwner, RegistryChanges(config.txtOwner, c))
    BY <2>2, <2>3, PlanIsOwned
  <2>5. SpokenFor(store, k, config.txtOwner)
    BY <1>1, <2>2, <2>3, <2>4, OwnedBatchIsSafe DEF Changed
  <2>6. QED
    BY <2>5 DEF SpokenFor, HasOwnerTXT
<1>2. TypeOK /\ [Next]_vars =>
        [RunOnce => \A k \in DOMAIN store : Changed(k) => HasOwnerTXT(k)]_vars
  <2> SUFFICES ASSUME TypeOK, RunOnce, NEW k \in DOMAIN store, Changed(k)
               PROVE  HasOwnerTXT(k)
    OBVIOUS
  <2>1. CASE RunOnceUnchanged
    BY <2>1 DEF RunOnceUnchanged, Changed
  <2>2. CASE RunOnceApply
    BY <1>1, <2>2
  <2>3. QED
    BY <2>1, <2>2 DEF RunOnce
<1>3. QED
  BY TypeCorrect, <1>2, PTL DEF Spec, OwnerSafety

(***************************************************************************)
(* Records and their TXT records.                                          *)
(***************************************************************************)
\* A cell of the zones in which nobody else has a record is intact: it is empty
\* or it holds one record, the TXT record made for it, and nothing else.
ForeignCells == {TXTKey(Key(e)) : e \in Foreign}
CellsIntact == \A c \in ZoneCells \ ForeignCells : Intact(store, c)

\* What a step does to the store.
LEMMA StoreStep ==
  ASSUME TypeOK, [Next]_vars
  PROVE  \/ UNCHANGED store
         \/ RunOnceApply
         \/ \E e \in Foreign : OtherAdded(store, store', e) \/ OtherRemoved(store, store', e)
<1>1. CASE RunOnceUnchanged
  BY <1>1 DEF RunOnceUnchanged
<1>2. ASSUME NEW w \in Wants, SourceChanges(w) PROVE UNCHANGED store
  BY <1>2 DEF SourceChanges
<1>3. ASSUME NEW c \in Configs, Reconfigure(c) PROVE UNCHANGED store
  BY <1>3 DEF Reconfigure
<1>4. CASE UNCHANGED vars
  BY <1>4 DEF vars
<1>5. QED
  BY <1>1, <1>2, <1>3, <1>4, OthersStep DEF Next

\* A round and the surroundings leave cells intact.
LEMMA IntactCellsStep ==
  ASSUME TypeOK, CellsIntact, [Next]_vars
  PROVE  CellsIntact'
<1> SUFFICES ASSUME NEW c \in ZoneCells \ ForeignCells PROVE Intact(store', c)
  BY DEF CellsIntact
<1>1. Intact(store, c) /\ IsStore(store)
  BY DEF CellsIntact, TypeOK
<1>2. CASE UNCHANGED store
  BY <1>1, <1>2
<1>3. CASE RunOnceApply
  BY <1>1, <1>3, RoundStep, RegistryPairs, IntactStep
<1>4. ASSUME NEW e \in Foreign, OtherAdded(store, store', e) \/ OtherRemoved(store, store', e)
      PROVE  Intact(store', c)
  <2>1. e \in Endpoint /\ c # TXTKey(Key(e))
    BY RoundsAssumption DEF ForeignCells
  <2>2. KeptApartFrom(store, store', c, {})
    BY <1>4, <2>1, OtherCells
  <2>3. QED
    BY <1>1, <2>2, KeptCell
<1>5. QED
  BY <1>2, <1>3, <1>4, StoreStep

\* Cells stay intact whatever the sources ask for and whoever the sync is.
THEOREM CellsStayIntact == Spec => []CellsIntact
<1>1. Init => CellsIntact
  <2>1. DOMAIN EmptyStore = {}
    BY DEF EmptyStore
  <2>2. QED
    BY <2>1 DEF Init, CellsIntact, Intact, IsEmpty
<1>2. TypeOK /\ CellsIntact /\ [Next]_vars => CellsIntact'
  BY IntactCellsStep
<1>3. QED
  BY TypeCorrect, <1>1, <1>2, PTL DEF Spec

\* Where nobody else writes, records and TXT records come and go together.
THEOREM PairsHold == ASSUME Foreign = {} PROVE Spec => []Paired
<1>1. TypeOK /\ CellsIntact => Paired
  <2> SUFFICES ASSUME TypeOK, CellsIntact, NEW k \in DOMAIN store
               PROVE  IF k[2] = "TXT"
                      THEN \E l \in DOMAIN store : l[2] # "TXT" /\ TXTKey(l) = k
                      ELSE TXTKey(k) \in DOMAIN store
    BY DEF Paired
  <2>1. IsStore(store) /\ \A c \in ZoneCells : Intact(store, c)
    BY DEF CellsIntact, ForeignCells, TypeOK
  <2>2. QED
    BY <2>1, IntactStore
<1>2. QED
  BY TypeCorrect, CellsStayIntact, <1>1, PTL

(***************************************************************************)
(* One type for a name.                                                    *)
(***************************************************************************)
WantedKeys == {Key(d) : d \in UNION Wants}

\* The owners that the process may run for, and the labels of what they write.
TXTOwners == {c.txtOwner : c \in Configs}
MarksFor(w) == UNION {MarksOf(w, o) : o \in TXTOwners}
Marks == UNION {MarksFor(w) : w \in Wants}

\* The others do not use these labels or name these owners, put no record of
\* another type beside one that the resources ask for, and keep to RFC 1034
\* among themselves.
OthersApart ==
  /\ Distinct(Foreign, WantedKeys, Marks, TXTOwners)
  /\ \A e, f \in Foreign :
       (e.recordType = "CNAME" /\ f.recordType # "TXT" /\ PlanKey(e) = PlanKey(f))
         => f.recordType = "CNAME"

\* Every cell belongs to the others or to an owner, entirely.
CellsDivided ==
  \A c \in ZoneCells : IsOthers(store, c, Foreign) \/ IsOwned(store, c, WantedKeys, Marks)

\* No round and nobody else gets into a cell that is not theirs.
LEMMA DividedStep ==
  ASSUME OneSpelling, PlansForOwner, OthersApart, PersistLabels,
         TypeOK, CellsDivided, [Next]_vars
  PROVE  CellsDivided'
<1> SUFFICES ASSUME NEW c \in ZoneCells
             PROVE  IsOthers(store', c, Foreign) \/ IsOwned(store', c, WantedKeys, Marks)
  BY DEF CellsDivided
<1>1. /\ IsStore(store) /\ Distinct(Foreign, WantedKeys, Marks, TXTOwners)
      /\ Foreign \in SUBSET Endpoint
      /\ IsOthers(store, c, Foreign) \/ IsOwned(store, c, WantedKeys, Marks)
  BY RoundsAssumption DEF TypeOK, CellsDivided, OthersApart
<1>2. ASSUME KeptApartFrom(store, store', c, {})
      PROVE  IsOthers(store', c, Foreign) \/ IsOwned(store', c, WantedKeys, Marks)
  BY <1>1, <1>2, KeptCell
<1>3. CASE RunOnceApply
  <2>1. PICK l \in SUBSET Endpoint : \E p \in Plans(config, l, want) :
          /\ RegistryChanges(config.txtOwner, p) \in Batches
          /\ \E zs \in SUBSET Zones :
               /\ \A z \in zs : Valid(store, RegistryChanges(config.txtOwner, p), z)
               /\ store' = ApplyZones(store, RegistryChanges(config.txtOwner, p), zs)
    BY <1>3, RoundStep
  <2>2. PICK p \in Plans(config, l, want) :
          /\ RegistryChanges(config.txtOwner, p) \in Batches
          /\ \E zs \in SUBSET Zones :
               /\ \A z \in zs : Valid(store, RegistryChanges(config.txtOwner, p), z)
               /\ store' = ApplyZones(store, RegistryChanges(config.txtOwner, p), zs)
    BY <2>1
  <2> DEFINE b == RegistryChanges(config.txtOwner, p)
  <2>3. /\ config.policy \in Policies /\ config.planOwner # ""
        /\ config.txtOwner \in LabelValues /\ config.txtOwner \in TXTOwners
        /\ want \in SUBSET Endpoint /\ want \in Wants
        /\ {Key(d) : d \in want} \subseteq WantedKeys
    BY RoundsAssumption DEF TypeOK, ConfigType, PlansForOwner, WantedKeys, TXTOwners
  <2>4. AsPlanned(b, {Key(d) : d \in want}, MarksOf(want, config.txtOwner), config.txtOwner)
    BY <2>2, <2>3, PlanAsPlanned
  <2>5. MarksOf(want, config.txtOwner) \subseteq Marks
    <3>1. MarksOf(want, config.txtOwner) \subseteq MarksFor(want)
      BY <2>3, Zenon DEF MarksFor
    <3>2. MarksFor(want) \subseteq Marks
      BY <2>3, Zenon DEF Marks
    <3>3. QED
      BY <3>1, <3>2
  <2>6. AsPlanned(b, WantedKeys, Marks, config.txtOwner)
    BY <2>3, <2>4, <2>5 DEF AsPlanned
  <2>7. Marks \in SUBSET Marks
    OBVIOUS
  <2>8. \/ KeptApartFrom(store, store', c, {})
        \/ IsOwned(store', c, WantedKeys, Marks)
        \/ IsEmpty(store', c)
    <3>1. PICK zs \in SUBSET Zones : /\ \A z \in zs : Valid(store, b, z)
                                     /\ store' = ApplyZones(store, b, zs)
      BY <2>2
    <3>2. b \in Batches
      BY <2>2
    <3> HIDE DEF b
    <3>3. QED
      BY <1>1, <2>3, <2>6, <2>7, <3>1, <3>2, ContestedOutcome
  <2>9. CASE IsEmpty(store', c)
    BY <2>9 DEF IsEmpty, IsOthers
  <2>10. QED
    BY <1>2, <2>8, <2>9
<1>4. ASSUME NEW e \in Foreign, OtherAdded(store, store', e) \/ OtherRemoved(store, store', e)
      PROVE  IsOthers(store', c, Foreign) \/ IsOwned(store', c, WantedKeys, Marks)
  <2>1. IsOthers(store', c, Foreign) \/ KeptApartFrom(store, store', c, {})
    BY <1>1, <1>4, OthersOutcome
  <2>2. QED
    BY <1>2, <2>1
<1>5. CASE UNCHANGED store
  BY <1>1, <1>5
<1>6. QED
  BY <1>3, <1>4, <1>5, StoreStep

\* No name holds a CNAME and an address at any time, although every round may
\* find other types wanted than the round before, and although the plan does not
\* even see a record of a type it does not manage.
THEOREM CNAMEStaysAlone ==
  ASSUME OneSpelling, PlansForOwner, OthersApart, PersistLabels
  PROVE  Spec => []CNAMEExclusive
<1>1. Init => CellsDivided
  <2>1. DOMAIN EmptyStore = {}
    BY DEF EmptyStore
  <2>2. QED
    BY <2>1 DEF Init, CellsDivided, IsOthers
<1>2. TypeOK /\ CellsDivided /\ [Next]_vars => CellsDivided'
  BY DividedStep
<1>3. TypeOK /\ CellsDivided => CNAMEExclusive
  <2> SUFFICES ASSUME TypeOK, CellsDivided, NEW k \in DOMAIN store, NEW j \in DOMAIN store,
                      store[k].recordType = "CNAME", store[j].recordType # "TXT",
                      PlanKey(store[k]) = PlanKey(store[j])
               PROVE  store[j].recordType = "CNAME"
    BY DEF CNAMEExclusive, RecordsOf
  <2> DEFINE c == TXTKey(k)
  <2>1. /\ store[k] \in Endpoint /\ store[j] \in Endpoint
        /\ k \in EndpointKey /\ j \in EndpointKey
        /\ k = <<store[k].dnsName, store[k].recordType, store[k].setIdentifier>>
        /\ j = <<store[j].dnsName, store[j].recordType, store[j].setIdentifier>>
    BY KeyType DEF TypeOK, IsStore
  <2>2. store[k].dnsName = store[j].dnsName /\ store[k].setIdentifier = store[j].setIdentifier
    BY <2>1, CanonicalAssumption DEF OneSpelling, PlanKey, Endpoint
  <2>3. c \in ZoneCells /\ k \in InCell(c) /\ j \in InCell(c)
    BY <2>1, <2>2 DEF TXTKey, EndpointKey, ZoneCells, InCell
  <2>4. CASE IsOthers(store, c, Foreign)
    BY <2>3, <2>4 DEF IsOthers, OthersApart
  <2>5. CASE IsOwned(store, c, WantedKeys, Marks)
    <3>1. PICK r \in Endpoint : IsPair(store, c, r)
      BY <2>5 DEF IsOwned
    <3>2. k \in PairKeys(r) /\ j \in PairKeys(r)
      BY <2>3, <3>1 DEF IsPair
    <3>3. k # c /\ j # c /\ TXTKey(Key(r)) = c
      BY <2>1, <3>1 DEF TXTKey, IsPair
    <3>4. k = j
      BY <3>2, <3>3 DEF PairKeys
    <3>5. QED
      BY <3>4
  <2>6. QED
    BY <2>3, <2>4, <2>5 DEF CellsDivided
<1>4. QED
  BY TypeCorrect, <1>1, <1>2, <1>3, PTL DEF Spec

(***************************************************************************)
(* A name stays with the resource that holds it.                           *)
(***************************************************************************)
\* A name is asked for with one set identifier only.  The labels of a TXT record
\* count for every set identifier of the name when the records are listed.
OneIdentifier == \A k, j \in WantedKeys : k[1] = j[1] => k[3] = j[3]

\* A resource's label is never an empty one, which would be read like none.
ResourcesNamed == \A w \in Wants : \A d \in w : d.labels.resource # ""

\* Where nobody else writes, the records stand where the sources asked for them.
StoreWanted == \A k \in DOMAIN store : \E j \in WantedKeys : TXTKey(k) = TXTKey(j)

\* Rounds write only where the sources ask, now or before.
LEMMA WantedStep ==
  ASSUME Foreign = {}, TypeOK, StoreWanted, [Next]_vars
  PROVE  StoreWanted'
<1> SUFFICES ASSUME NEW k \in DOMAIN store'
             PROVE  \E j \in WantedKeys : TXTKey(k) = TXTKey(j)
  BY DEF StoreWanted
<1>1. CASE k \in DOMAIN store
  BY <1>1 DEF StoreWanted
<1>2. CASE k \notin DOMAIN store
  <2>1. RunOnceApply
    BY <1>2, StoreStep
  <2>2. PICK l \in SUBSET Endpoint : \E p \in Plans(config, l, want) :
          /\ p \in Changes
          /\ RegistryChanges(config.txtOwner, p) \in Batches
          /\ \E zs \in SUBSET Zones :
               store' = ApplyZones(store, RegistryChanges(config.txtOwner, p), zs)
    BY <2>1, RoundStep
  <2>3. PICK p \in Plans(config, l, want) :
          /\ p \in Changes
          /\ RegistryChanges(config.txtOwner, p) \in Batches
          /\ \E zs \in SUBSET Zones :
               store' = ApplyZones(store, RegistryChanges(config.txtOwner, p), zs)
    BY <2>2
  <2> DEFINE b == RegistryChanges(config.txtOwner, p)
  <2>4. PICK zs \in SUBSET Zones : store' = ApplyZones(store, b, zs)
    BY <2>3
  <2>5. PICK i \in ItemsIn(zs, b.create \cup b.updateNew) : ItemKey(i) = k
    BY <1>2, <2>4 DEF ApplyZones, ItemKeys
  <2>6. i \in b.create \cup b.updateNew /\ i \in Items
    BY <2>3, ItemsInType DEF Batches
  <2>7. config.policy \in Policies /\ want \in SUBSET Endpoint
        /\ \A d \in want : Key(d) \in WantedKeys
    BY RoundsAssumption DEF TypeOK, ConfigType, WantedKeys
  <2>8. AimsAt(p, want)
    BY <2>3, <2>7, PlansWanted
  <2>9. Key(i[1]) \in WantedKeys
    <3>1. CASE i \in b.updateNew
      <4>1. i[1] \in p.updateNew
        BY <3>1 DEF RegistryChanges, WithTXT, FilterEndpointsByOwnerID
      <4>2. QED
        BY <2>7, <2>8, <4>1 DEF AimsAt
    <3>2. CASE i \in b.create
      <4>1. PICK e \in p.create : i[1] = [e EXCEPT !.labels.mesh = config.txtOwner]
        BY <3>2 DEF RegistryChanges, WithTXT
      <4>2. e \in Endpoint
        BY <2>3 DEF Changes
      <4>3. Key(i[1]) = Key(e)
        BY <4>1, <4>2 DEF Endpoint, Key
      <4>4. QED
        BY <2>7, <2>8, <4>3 DEF AimsAt
    <3>3. QED
      BY <2>6, <3>1, <3>2
  <2>10. TXTKey(k) = TXTKey(Key(i[1]))
    BY <2>5, <2>6, ItemType DEF TXTKey
  <2>11. QED
    BY <2>9, <2>10
<1>3. QED
  BY <1>1, <1>2

\* A listed record has the resource of the record that is stored, for the TXT
\* record whose labels are laid over it was made for it.
LEMMA ListedResource ==
  ASSUME OneIdentifier, PersistLabels, Foreign = {}, TypeOK, CellsIntact, StoreWanted,
         NEW l \in RegistryRecords(config.txtOwner, RecordsOf(store)),
         NEW u \in l, NEW k \in DOMAIN store, k[2] # "TXT", Key(u) = k
  PROVE  u.labels.resource = store[k].labels.resource
<1>1. /\ RecordsOf(store) \in SUBSET Endpoint
      /\ IsStore(store) /\ \A c \in ZoneCells : Intact(store, c)
  BY DEF TypeOK, IsStore, RecordsOf, CellsIntact, ForeignCells
<1>2. PICK r \in RecordsOf(store) :
        /\ Key(u) = Key(r)
        /\ \/ u.labels = r.labels
           \/ \E t \in RecordsOf(store) :
                /\ IsRegistryTXT(config.txtOwner, t) /\ t.dnsName = r.dnsName
                /\ u.labels = MergeLabels(r.labels, t.text)
  BY <1>1, ListedLabels
<1>3. r = store[k]
  BY <1>1, <1>2 DEF RecordsOf, IsStore
<1>4. ASSUME NEW t \in RecordsOf(store), IsRegistryTXT(config.txtOwner, t),
             t.dnsName = r.dnsName, u.labels = MergeLabels(r.labels, t.text)
      PROVE  u.labels.resource = store[k].labels.resource
  <2>1. PICK kt \in DOMAIN store : t = store[kt] /\ kt = Key(t) /\ t \in Endpoint
    BY <1>1 DEF RecordsOf, IsStore
  <2>2. k = Key(r) /\ r \in Endpoint
    BY <1>1, <1>3 DEF IsStore
  <2>3. kt[1] = k[1] /\ kt[2] = "TXT"
    BY <1>4, <2>1, <2>2 DEF Key, IsRegistryTXT
  <2>4. kt[3] = k[3]
    BY <2>1, <2>3 DEF StoreWanted, OneIdentifier, TXTKey
  <2>5. kt = TXTKey(k)
    BY <1>1, <2>1, <2>3, <2>4 DEF TXTKey, IsStore, EndpointKey
  <2>6. PICK q \in Endpoint : store[k] = Stored(q) /\ store[TXTKey(k)].text = q.labels
    BY <1>1, IntactStore
  <2>7. t.text = r.labels
    BY <1>3, <2>1, <2>5, <2>6 DEF Stored
  <2>8. QED
    BY <1>3, <1>4, <2>7 DEF MergeLabels, Override
<1>5. QED
  BY <1>2, <1>3, <1>4

\* However small the targets are that another resource has to offer, and in
\* whatever order records are listed, no round hands a name over as long as its
\* holder asks for it (ResolveUpdate, conflict.go:50).
THEOREM HoldersStay ==
  ASSUME OneSpelling, OneIdentifier, ResourcesNamed, PersistLabels, Foreign = {}
  PROVE  Spec => HolderKeepsName
<1>1. Init => StoreWanted
  BY DEF Init, EmptyStore, StoreWanted
<1>2. TypeOK /\ StoreWanted /\ [Next]_vars => StoreWanted'
  BY WantedStep
<1>3. ASSUME TypeOK, CellsIntact, StoreWanted, RunOnceApply,
             NEW k \in DOMAIN store \cap DOMAIN store', k[2] # "TXT",
             NEW d \in want, Key(d) = k, d.labels.resource = store[k].labels.resource
      PROVE  store'[k].labels.resource = store[k].labels.resource
  <2>1. PICK p \in PlansNow :
          \E o \in ApplyOutcomes(store, RegistryChanges(config.txtOwner, p)) : store' = o.store
    BY <1>3 DEF RunOnceApply
  <2>2. PICK l \in RegistryRecords(config.txtOwner, RecordsOf(store)) : p \in Plans(config, l, want)
    BY <2>1 DEF PlansNow
  <2> DEFINE b == RegistryChanges(config.txtOwner, p)
             c == TXTKey(k)
             x == Get(store[k].labels.resource)
  <2>3. /\ config.policy \in Policies /\ config.txtOwner \in LabelValues
        /\ want \in SUBSET Endpoint
        /\ IsStore(store) /\ \A cell \in ZoneCells : Intact(store, cell)
    BY <1>3, RoundsAssumption DEF TypeOK, ConfigType, CellsIntact, ForeignCells
  <2>4. RecordsOf(store) \in SUBSET Endpoint
    BY <2>3 DEF IsStore, RecordsOf
  <2>5. l \in SUBSET Endpoint
    BY <2>2, <2>4, RegistryRecordsType
  <2>6. p \in Changes
    BY <2>2, <2>3, <2>5, PlansType
  <2>7. b \in Batches /\ PairedBatch(b)
    BY <2>3, <2>6, RegistryChangesType, RegistryPairs
  <2>8. PICK zs \in SUBSET Zones : /\ \A z \in zs : Valid(store, b, z)
                                   /\ store' = ApplyZones(store, b, zs)
    BY <2>1, <2>3, <2>7, OutcomeType
  <2>9. c \in ZoneCells /\ k \in InCell(c) /\ k \in EndpointKey
    BY <2>3 DEF IsStore, TXTKey, EndpointKey, ZoneCells, InCell
  <2>10. /\ c \in DOMAIN store
         /\ \A j \in DOMAIN store : j[2] # "TXT" /\ TXTKey(j) = c => j = k
    BY <1>3, <2>3, IntactStore
  <2>11. \/ KeptApartFrom(store, store', c, {})
         \/ \E r \in Endpoint :
              /\ r.recordType # "TXT" /\ TXTKey(Key(r)) = c
              /\ \/ Claimed(store, store', r)
                 \/ <<r, "self">> \in b.updateNew /\ Refilled(store, store', r)
                 \/ Released(store, store', r)
    BY <2>3, <2>7, <2>8, <2>9, CellOutcome
  <2>12. CASE KeptApartFrom(store, store', c, {})
    BY <2>9, <2>12 DEF KeptApartFrom
  <2>13. ASSUME NEW r \in Endpoint, r.recordType # "TXT", TXTKey(Key(r)) = c,
                \/ Claimed(store, store', r)
                \/ <<r, "self">> \in b.updateNew /\ Refilled(store, store', r)
                \/ Released(store, store', r)
         PROVE  store'[k].labels.resource = store[k].labels.resource
    <3>1. ~Claimed(store, store', r)
      BY <2>10, <2>13 DEF Claimed, PairKeys
    <3>2. Key(r) = k
      <4>1. Key(r) \in DOMAIN store
        BY <2>13, <3>1 DEF Refilled, Released, PairKeys
      <4>2. Key(r)[2] # "TXT"
        BY <2>13 DEF Key
      <4>3. QED
        BY <2>10, <2>13, <4>1, <4>2
    <3>3. <<r, "self">> \in b.updateNew /\ store'[k] = r
      BY <1>3, <2>13, <3>1, <3>2 DEF Released, Refilled, PairKeys, HoldsPair, Stored
    <3>4. r \in p.updateNew
      BY <3>3 DEF RegistryChanges, WithTXT, FilterEndpointsByOwnerID
    <3>5. HeldBy(l, k, x) /\ AskedForBy(want, k, x)
      BY <1>3, <2>2, ListedResource DEF HeldBy, AskedForBy
    <3>6. PICK w \in want : Get(w.labels.resource) = x /\ r.labels.resource = w.labels.resource
      BY <1>3, <2>2, <2>3, <2>5, <3>2, <3>4, <3>5, UpdatesKeepResource
    <3>7. w.labels.resource # "" /\ d.labels.resource # ""
      BY <1>3 DEF ResourcesNamed, TypeOK
    <3>8. QED
      BY <1>3, <3>3, <3>6, <3>7 DEF Get
  <2>14. QED
    BY <2>11, <2>12, <2>13
<1>4. TypeOK /\ CellsIntact /\ StoreWanted /\ [Next]_vars =>
        [RunOnce => \A k \in DOMAIN store \cap DOMAIN store' :
           (k[2] # "TXT" /\ \E d \in want : /\ Key(d) = k
                                           /\ d.labels.resource = store[k].labels.resource)
             => store'[k].labels.resource = store[k].labels.resource]_vars
  <2>1. RunOnceUnchanged => UNCHANGED store
    BY DEF RunOnceUnchanged
  <2>2. QED
    BY <1>3, <2>1 DEF RunOnce
<1>5. QED
  BY TypeCorrect, CellsStayIntact, <1>1, <1>2, <1>4, PTL DEF Spec, HolderKeepsName

(***************************************************************************)
(* Convergence.  What follows is about a sync that has its names to        *)
(* itself, and about the records that its sources may ask for.             *)
(***************************************************************************)
\* A name is asked for with one type and one set identifier, whoever asks.
OneKey == \A k, j \in WantedKeys : k[1] = j[1] => k = j

\* Plan and registry go by one owner, and every configuration manages what is
\* asked for: names in a zone of the provider, none of them for a TXT record.
InScope ==
  \A c \in Configs :
    /\ c.planOwner = "mesh" /\ c.txtOwner = "mesh"
    /\ \A k \in WantedKeys : /\ k[1] \in c.domain /\ IsManagedRecord(c, k[2])
                             /\ k[2] # "TXT" /\ ZoneOf[k[1]] \in Zones

\* The sources never offer two records that IsLess cannot put into an order.
Decided ==
  \A w \in Wants : \A d, e \in w :
    (Key(d) = Key(e) /\ ~IsLess(d.targets, e.targets) /\ ~IsLess(e.targets, d.targets)) => d = e

\* The records that stand in a store of divided cells when nobody else writes.
LEMMA HeldRecords ==
  ASSUME Foreign = {}, PersistLabels, TypeOK, CellsDivided, NEW k \in DOMAIN store
  PROVE  /\ store[k] \in Endpoint /\ Key(store[k]) = k
         /\ k[2] # "TXT" => /\ k \in WantedKeys /\ TXTKey(k) \in DOMAIN store
                            /\ store[TXTKey(k)].text = store[k].labels
         /\ k[2] = "TXT" => /\ store[k].labels = NoLabels
                            /\ \E j \in DOMAIN store : j[2] # "TXT" /\ TXTKey(j) = k
<1> DEFINE c == TXTKey(k)
<1>1. store[k] \in Endpoint /\ Key(store[k]) = k /\ k \in EndpointKey
  BY DEF TypeOK, IsStore
<1>2. c \in ZoneCells /\ k \in InCell(c)
  BY <1>1 DEF TXTKey, EndpointKey, ZoneCells, InCell
<1>3. IsOwned(store, c, WantedKeys, Marks)
  BY <1>2 DEF CellsDivided, IsOthers
<1>4. PICK r \in Endpoint : IsPair(store, c, r) /\ Key(r) \in WantedKeys
  BY <1>3 DEF IsOwned
<1>5. /\ k \in PairKeys(r) /\ TXTKey(Key(r)) = c
      /\ Key(r) \in DOMAIN store /\ store[Key(r)] = r
      /\ c \in DOMAIN store /\ store[c] = TXTRecord(r)
  BY <1>2, <1>4 DEF IsPair, HoldsPair, Stored
<1>6. Key(r)[2] # "TXT" /\ c[2] = "TXT"
  BY <1>4 DEF IsPair, Key, TXTKey
<1>7. TXTRecord(r).text = r.labels /\ TXTRecord(r).labels = NoLabels
  BY DEF TXTRecord, NewEndpoint
<1>8. CASE k = Key(r)
  BY <1>1, <1>4, <1>5, <1>6, <1>7, <1>8
<1>9. CASE k = c
  BY <1>1, <1>5, <1>6, <1>7, <1>9
<1>10. QED
  BY <1>5, <1>8, <1>9 DEF PairKeys

\* The registry lists the records as they are stored, for the labels of a TXT
\* record are those of the record it was made for; and all but some TXT records.
LEMMA ListedAsStored ==
  ASSUME OneKey, Foreign = {}, PersistLabels, TypeOK, CellsDivided,
         NEW l \in RegistryRecords(config.txtOwner, RecordsOf(store))
  PROVE  /\ \A u \in l : u \in Endpoint /\ Key(u) \in DOMAIN store /\ u = store[Key(u)]
         /\ \A k \in DOMAIN store : k[2] # "TXT" => store[k] \in l
<1> DEFINE mine(t) == IsRegistryTXT(config.txtOwner, t)
<1>1. RecordsOf(store) \in SUBSET Endpoint
  BY DEF TypeOK, IsStore, RecordsOf
\* Two records of one name are a record and its TXT record, or the same.
<1>2. ASSUME NEW r \in RecordsOf(store), NEW t \in RecordsOf(store), mine(t), ~mine(r),
             t.dnsName = r.dnsName
      PROVE  t.text = r.labels
  <2>1. PICK k \in DOMAIN store : r = store[k]
    BY DEF RecordsOf
  <2>2. PICK j \in DOMAIN store : t = store[j]
    BY DEF RecordsOf
  <2>3. k[1] = j[1] /\ j[2] = "TXT" /\ Key(r) = k /\ Key(t) = j
    BY <1>2, <2>1, <2>2, HeldRecords DEF Key, IsRegistryTXT
  <2>4. PICK i \in DOMAIN store : i[2] # "TXT" /\ TXTKey(i) = j
    BY <2>3, HeldRecords
  <2>5. i \in WantedKeys /\ i[1] = j[1] /\ store[j].text = store[i].labels
    BY <2>4, HeldRecords DEF TXTKey
  <2>6. CASE k[2] = "TXT"
    <3>1. PICK h \in DOMAIN store : h[2] # "TXT" /\ TXTKey(h) = k
      BY <2>6, HeldRecords
    <3>2. h \in WantedKeys /\ h[1] = k[1]
      BY <3>1, HeldRecords DEF TXTKey
    <3>3. h = i
      BY <2>3, <2>5, <3>2 DEF OneKey
    <3>4. QED
      BY <1>2, <2>1, <2>2, <2>4, <3>1, <3>3
  <2>7. CASE k[2] # "TXT"
    <3>1. k \in WantedKeys
      BY <2>7, HeldRecords
    <3>2. k = i
      BY <2>3, <2>5, <3>1 DEF OneKey
    <3>3. QED
      BY <2>1, <2>2, <2>5, <3>2
  <2>8. QED
    BY <2>6, <2>7
<1>3. ASSUME NEW u \in l
      PROVE  u \in Endpoint /\ Key(u) \in DOMAIN store /\ u = store[Key(u)]
  <2>1. PICK r \in RecordsOf(store) :
          /\ ~mine(r)
          /\ \E labels \in Labels : u = [r EXCEPT !.labels = labels]
          /\ u \in Endpoint /\ Key(u) = Key(r)
          /\ \/ u.labels = r.labels
             \/ \E t \in RecordsOf(store) : /\ mine(t) /\ t.dnsName = r.dnsName
                                            /\ u.labels = MergeLabels(r.labels, t.text)
    BY <1>1, ListedLabels
  <2>2. u.labels = r.labels
    <3>1. r.labels \in Labels
      BY <1>1 DEF Endpoint
    <3>2. MergeLabels(r.labels, r.labels) = r.labels
      BY <3>1 DEF MergeLabels, Override, Labels
    <3>3. QED
      BY <1>2, <2>1, <3>2
  <2>3. u = r
    BY <1>1, <2>1, <2>2 DEF Endpoint
  <2>4. PICK k \in DOMAIN store : r = store[k]
    BY DEF RecordsOf
  <2>5. QED
    BY <2>1, <2>3, <2>4, HeldRecords
<1>4. ASSUME NEW k \in DOMAIN store, k[2] # "TXT" PROVE store[k] \in l
  <2> DEFINE r == store[k]
  <2>1. r \in RecordsOf(store) /\ r \in Endpoint /\ Key(r) = k /\ ~mine(r)
    BY <1>4, HeldRecords DEF RecordsOf, IsRegistryTXT, Key
  <2>2. \E u \in l : Key(u) = Key(r)
    BY <1>1, <2>1, AllListed
  <2>3. QED
    BY <1>3, <2>1, <2>2
<1>5. QED
  BY <1>3, <1>4

\* The records that are asked for with the key k, and whether w is one of those
\* the plan may choose from them when e is the record that is there.
Rivals(k) == {d \in want : Key(d) = k}
Preferred(w, e) == Key(w) = Key(e) /\ w \in ResolveUpdate(e, Rivals(Key(e)))
NewValue(e, w) == InheritOwner(e, AfterNeedsUpdate(AfterComparison(w, want), w, e))

\* A plan creates what is asked for and missing, each time a smallest candidate.
FitsCreate(p) ==
  /\ \A r \in p.create : \E w \in want : /\ r = AfterComparison(w, want)
                                         /\ w \in ResolveCreate(Rivals(Key(w)))
                                         /\ Key(w) \notin DOMAIN store
  /\ \A d \in want : Key(d) \notin DOMAIN store => \E r \in p.create : Key(r) = Key(d)

\* Under the sync policy it deletes all of the owner's that nobody asks for.
FitsDelete(p) ==
  /\ \A r \in p.delete : /\ config.policy = "sync"
                         /\ Key(r) \in DOMAIN store /\ r.recordType # "TXT"
                         /\ IsOwnedBy(store[Key(r)], "mesh")
                         /\ \A d \in want : Key(d) # Key(r)
  /\ config.policy = "sync" =>
       \A k \in DOMAIN store :
         (k[2] # "TXT" /\ IsOwnedBy(store[k], "mesh"))
           => (\E d \in want : Key(d) = k) \/ (\E r \in p.delete : Key(r) = k)

\* Unless it may only create, it updates what is the owner's and differs from a
\* preferred record.
FitsUpdate(p) ==
  /\ \A r \in p.updateNew :
       /\ config.policy # "create-only" /\ Key(r) \in DOMAIN store
       /\ IsOwnedBy(store[Key(r)], "mesh")
       /\ \E w \in want : /\ Preferred(w, store[Key(r)]) /\ NeedsUpdate(w, store[Key(r)])
                          /\ r = NewValue(store[Key(r)], w)
  /\ config.policy # "create-only" =>
       \A d \in want : (Key(d) \in DOMAIN store /\ IsOwnedBy(store[Key(d)], "mesh")) =>
         \E w \in want : /\ Preferred(w, store[Key(d)])
                         /\ \/ ~NeedsUpdate(w, store[Key(d)])
                            \/ \E r \in p.updateNew : Key(r) = Key(d)
  /\ p.updateNew = {} => p.updateOld = {}

\* What the plan table is made of: the records of the store, the records that are
\* asked for, and for each key one of them that is preferred.
TableFits(cur, last, win) ==
  /\ \A u \in cur : u \in Endpoint /\ Key(u) \in DOMAIN store /\ u = store[Key(u)]
  /\ last \subseteq cur
  /\ \A k \in DOMAIN store : k[2] # "TXT" => store[k] \in last
  /\ win \subseteq want
  /\ \A d \in want : \E w \in win : Key(w) = Key(d)
  /\ \A w \in win : IF Key(w) \in DOMAIN store THEN Preferred(w, store[Key(w)])
                    ELSE w \in ResolveCreate(Rivals(Key(w)))

\* All that the proofs need to know of the wanted records.
LEMMA WantedKnown ==
  ASSUME OneSpelling, OneKey, InScope, TypeOK
  PROVE  /\ config.policy \in Policies /\ config.planOwner = "mesh" /\ config.txtOwner = "mesh"
         /\ want \in SUBSET Endpoint
         /\ FilterRecordsForPlan(config, want) = want /\ ResolveRecordTypes(want) = want
         /\ \A d \in want : /\ d.recordType # "TXT" /\ Key(d)[2] # "TXT"
                            /\ Key(d) \in WantedKeys
                            /\ ZoneOf[d.dnsName] \in Zones
         /\ \A k \in WantedKeys : k[1] \in config.domain /\ IsManagedRecord(config, k[2])
<1>1. /\ config \in Configs /\ want \in Wants /\ config \in ConfigType
      /\ want \in SUBSET Endpoint
  BY RoundsAssumption DEF TypeOK
<1>2. \A d \in want : Key(d) \in WantedKeys
  BY <1>1 DEF WantedKeys
<1>3. \A k \in WantedKeys : /\ k[1] \in config.domain /\ IsManagedRecord(config, k[2])
                            /\ k[2] # "TXT" /\ ZoneOf[k[1]] \in Zones
  BY <1>1 DEF InScope
<1>4. \A d \in want : Key(d)[1] = d.dnsName /\ Key(d)[2] = d.recordType
  BY DEF Key
<1>5. FilterRecordsForPlan(config, want) = want
  BY <1>2, <1>3, <1>4 DEF FilterRecordsForPlan
<1>6. ASSUME NEW d \in want, NEW o \in want, PlanKey(o) = PlanKey(d) PROVE Key(o) = Key(d)
  <2>1. o.dnsName = d.dnsName
    BY <1>1, <1>6, CanonicalAssumption DEF OneSpelling, PlanKey, Endpoint
  <2>2. QED
    BY <1>2, <1>4, <2>1 DEF OneKey
<1>7. ResolveRecordTypes(want) = want
  BY <1>4, <1>6 DEF ResolveRecordTypes
<1>8. config.policy \in Policies /\ config.planOwner = "mesh" /\ config.txtOwner = "mesh"
  BY <1>1 DEF ConfigType, InScope
<1>9. QED
  BY <1>1, <1>2, <1>3, <1>4, <1>5, <1>7, <1>8

\* Every plan of a round is made from such a table.
LEMMA PlanTable ==
  ASSUME OneSpelling, OneKey, InScope, Foreign = {}, PersistLabels,
         TypeOK, CellsDivided, NEW p \in PlansNow
  PROVE  \E cur, last, win : /\ TableFits(cur, last, win)
                             /\ p = Calculate(config, cur, want, last, win)
<1>1. PICK l \in RegistryRecords(config.txtOwner, RecordsOf(store)) : p \in Plans(config, l, want)
  BY DEF PlansNow
<1> DEFINE cur == FilterRecordsForPlan(config, l)
<1>2. PICK last \in Selections(cur, Cell) :
        \E win \in Winners(last, want) : p = Calculate(config, cur, want, last, win)
  BY <1>1, WantedKnown DEF Plans
<1>3. PICK win \in Winners(last, want) : p = Calculate(config, cur, want, last, win)
  BY <1>2
<1>4. \A u \in l : u \in Endpoint /\ Key(u) \in DOMAIN store /\ u = store[Key(u)]
  BY <1>1, ListedAsStored
<1>5. ASSUME NEW k \in DOMAIN store, k[2] # "TXT"
      PROVE  store[k] \in cur /\ store[k] \in Endpoint /\ Key(store[k]) = k
  <2>1. store[k] \in l /\ store[k] \in Endpoint /\ Key(store[k]) = k /\ k \in WantedKeys
    BY <1>1, <1>5, HeldRecords, ListedAsStored
  <2>2. k[1] = store[k].dnsName /\ k[2] = store[k].recordType
    BY <2>1 DEF Key
  <2>3. QED
    BY <2>1, <2>2, WantedKnown DEF FilterRecordsForPlan
<1>6. \A u \in cur : u \in Endpoint /\ Key(u) \in DOMAIN store /\ u = store[Key(u)]
  BY <1>4 DEF FilterRecordsForPlan
<1>7. last \subseteq cur /\ \A e \in cur : \E t \in last : \A u \in last : Cell(u) = Cell(e) <=> u = t
  BY <1>2 DEF Selections
<1> HIDE DEF cur
<1>8. ASSUME NEW k \in DOMAIN store, k[2] # "TXT" PROVE store[k] \in last
  <2>1. store[k] \in cur /\ store[k] \in Endpoint /\ Key(store[k]) = k
    BY <1>5, <1>8
  <2>2. PICK t \in last : Cell(t) = Cell(store[k])
    BY <1>7, <2>1
  <2>3. t \in Endpoint /\ t = store[Key(t)]
    BY <1>6, <1>7, <2>2
  <2>4. Key(t) = k
    BY <2>1, <2>2, <2>3, CellKey
  <2>5. QED
    BY <2>2, <2>3, <2>4
<1>9. /\ win \subseteq want
      /\ \A e \in want : \E t \in win : \A u \in win : Cell(u) = Cell(e) <=> u = t
      /\ \A w \in win : LET rivals  == {d \in want : Cell(d) = Cell(w)}
                            current == {c \in last : Cell(c) = Cell(w)}
                        IN  IF current = {} THEN w \in ResolveCreate(rivals)
                            ELSE \A c \in current : w \in ResolveUpdate(c, rivals)
  BY <1>3 DEF Winners, Selections
<1>10. want \in SUBSET Endpoint /\ \A d \in want : Key(d)[2] # "TXT"
  BY WantedKnown
<1>11. ASSUME NEW d \in want PROVE \E w \in win : Key(w) = Key(d)
  <2>1. PICK w \in win : Cell(w) = Cell(d)
    BY <1>9
  <2>2. QED
    BY <1>9, <1>10, <2>1, CellKey
<1>12. ASSUME NEW w \in win
       PROVE  IF Key(w) \in DOMAIN store THEN Preferred(w, store[Key(w)])
              ELSE w \in ResolveCreate(Rivals(Key(w)))
  <2> DEFINE rivals  == {d \in want : Cell(d) = Cell(w)}
             current == {c \in last : Cell(c) = Cell(w)}
  <2>1. rivals = Rivals(Key(w))
    <3>1. \A d \in want : Key(d) = Key(w) => Cell(d) = Cell(w)
      BY <1>9, <1>10, KeyCell
    <3>2. \A d \in want : Cell(d) = Cell(w) => Key(d) = Key(w)
      BY <1>9, <1>10, CellKey
    <3>3. QED
      BY <3>1, <3>2 DEF Rivals
  <2>2. IF current = {} THEN w \in ResolveCreate(rivals)
        ELSE \A c \in current : w \in ResolveUpdate(c, rivals)
    BY <1>9
  <2>3. w \in Endpoint /\ Key(w)[2] # "TXT"
    BY <1>9, <1>10
  <2>4. CASE Key(w) \in DOMAIN store
    <3>1. store[Key(w)] \in last /\ Key(store[Key(w)]) = Key(w) /\ store[Key(w)] \in Endpoint
      BY <1>5, <1>8, <2>3, <2>4
    <3>2. Cell(store[Key(w)]) = Cell(w)
      BY <2>3, <3>1, KeyCell
    <3>3. QED
      BY <2>1, <2>2, <2>4, <3>1, <3>2 DEF Preferred
  <2>5. CASE Key(w) \notin DOMAIN store
    <3>1. ASSUME NEW c \in current PROVE FALSE
      <4>1. c \in Endpoint /\ Key(c) \in DOMAIN store /\ Cell(c) = Cell(w)
        BY <1>6, <1>7, <3>1
      <4>2. QED
        BY <2>3, <2>5, <4>1, CellKey
    <3>2. QED
      BY <2>1, <2>2, <2>5, <3>1
  <2>6. QED
    BY <2>4, <2>5
<1>13. TableFits(cur, last, win)
  BY <1>6, <1>7, <1>8, <1>9, <1>11, <1>12 DEF TableFits
<1>14. QED
  BY <1>3, <1>13

\* A name in the table that is wanted is held for what is wanted.
LEMMA TakenIsHeld ==
  ASSUME OneSpelling, OneKey, InScope, Foreign = {}, PersistLabels,
         TypeOK, CellsDivided, NEW c \in Endpoint, Key(c) \in DOMAIN store,
         NEW d \in want, PlanKey(c) = PlanKey(d)
  PROVE  /\ Key(d) \in DOMAIN store
         /\ c.recordType # "TXT" => Key(c) = Key(d)
<1>1. d \in Endpoint /\ Key(d) \in WantedKeys
  BY WantedKnown
<1>2. Key(c)[1] = Key(d)[1]
  BY <1>1, CanonicalAssumption DEF OneSpelling, PlanKey, Endpoint, Key
<1>3. CASE Key(c)[2] # "TXT"
  <2>1. Key(c) \in WantedKeys
    BY <1>3, HeldRecords
  <2>2. QED
    BY <1>1, <1>2, <2>1 DEF OneKey
<1>4. CASE Key(c)[2] = "TXT"
  <2>1. PICK j \in DOMAIN store : j[2] # "TXT" /\ TXTKey(j) = Key(c)
    BY <1>4, HeldRecords
  <2>2. j \in WantedKeys /\ j[1] = Key(d)[1]
    BY <1>2, <2>1, HeldRecords DEF TXTKey
  <2>3. c.recordType = "TXT"
    BY <1>4 DEF Key
  <2>4. QED
    BY <1>1, <2>1, <2>2, <2>3 DEF OneKey
<1>5. QED
  BY <1>3, <1>4

\* The plan of a table that fits creates, deletes and updates what it is for.
LEMMA PlanCreates ==
  ASSUME OneSpelling, OneKey, InScope, Foreign = {}, PersistLabels,
         TypeOK, CellsDivided, NEW cur, NEW last, NEW win, TableFits(cur, last, win)
  PROVE  FitsCreate(Calculate(config, cur, want, last, win))
<1> DEFINE p == Calculate(config, cur, want, last, win)
           Taken(e) == \E c \in cur : PlanKey(c) = PlanKey(e)
           Open(w)  == \/ ~Taken(w)
                       \/ /\ \A c \in last : Cell(c) # Cell(w)
                          /\ OwnersMatch("mesh", cur, w)
<1>1. /\ config.policy \in Policies /\ config.planOwner = "mesh" /\ want \in SUBSET Endpoint
      /\ \A d \in want : Key(d)[2] # "TXT"
  BY WantedKnown
<1>2. p.create = {AfterComparison(w, want) : w \in {v \in win : Open(v)}}
  <2>1. TableChanges("mesh", cur, want, last, win).create
          = {AfterComparison(w, want) : w \in {v \in win : Open(v)}}
    BY DEF TableChanges
  <2>2. OwnPartOf(config, TableChanges("mesh", cur, want, last, win), p)
    BY <1>1, CalculateParts
  <2>3. QED
    BY <2>1, <2>2 DEF OwnPartOf
<1> HIDE DEF p
<1>3. ASSUME NEW w \in win, Open(w) PROVE Key(w) \notin DOMAIN store
  <2>1. SUFFICES ASSUME Key(w) \in DOMAIN store PROVE FALSE
    OBVIOUS
  <2>2. w \in want /\ w \in Endpoint /\ Key(w)[2] # "TXT"
    BY <1>1 DEF TableFits
  <2> DEFINE c == store[Key(w)]
  <2>3. c \in last /\ c \in cur /\ c \in Endpoint /\ Key(c) = Key(w)
    BY <2>1, <2>2, HeldRecords DEF TableFits
  <2>4. Cell(c) = Cell(w) /\ PlanKey(c) = PlanKey(w)
    BY <2>2, <2>3, KeyCell
  <2>5. QED
    BY <1>3, <2>3, <2>4
<1>4. ASSUME NEW w \in win, Key(w) \notin DOMAIN store PROVE Open(w)
  BY <1>4, TakenIsHeld DEF TableFits
<1> HIDE DEF Open
<1>5. ASSUME NEW r \in p.create
      PROVE  \E w \in want : /\ r = AfterComparison(w, want)
                             /\ w \in ResolveCreate(Rivals(Key(w)))
                             /\ Key(w) \notin DOMAIN store
  <2>1. PICK w \in win : Open(w) /\ r = AfterComparison(w, want)
    BY <1>2
  <2>2. Key(w) \notin DOMAIN store /\ w \in want
    BY <1>3, <2>1 DEF TableFits
  <2>3. w \in ResolveCreate(Rivals(Key(w)))
    BY <2>2 DEF TableFits
  <2>4. QED
    BY <2>1, <2>2, <2>3
<1>6. ASSUME NEW d \in want, Key(d) \notin DOMAIN store
      PROVE  \E r \in p.create : Key(r) = Key(d)
  <2>1. PICK w \in win : Key(w) = Key(d)
    BY DEF TableFits
  <2>2. Open(w) /\ w \in Endpoint
    BY <1>1, <1>4, <1>6, <2>1 DEF TableFits
  <2>3. AfterComparison(w, want) \in p.create
    BY <1>2, <2>2
  <2>4. Key(AfterComparison(w, want)) = Key(w)
    BY <2>2, ComparedType
  <2>5. QED
    BY <2>1, <2>3, <2>4
<1>7. QED
  BY <1>5, <1>6 DEF FitsCreate, p

\* Under the sync policy a plan deletes the records nobody asks for, else none.
LEMMA PlanDeletes ==
  ASSUME OneSpelling, OneKey, InScope, Foreign = {}, PersistLabels,
         TypeOK, CellsDivided, NEW cur, NEW last, NEW win, TableFits(cur, last, win)
  PROVE  FitsDelete(Calculate(config, cur, want, last, win))
<1> DEFINE p == Calculate(config, cur, want, last, win)
           Wanted(e) == \E d \in want : PlanKey(d) = PlanKey(e)
           released  == {c \in cur : ~Wanted(c)}
           undesired == {c \in last : Wanted(c) /\ \A w \in win : Cell(w) # Cell(c)}
<1>1. /\ config.policy \in Policies /\ config.planOwner = "mesh" /\ want \in SUBSET Endpoint
      /\ \A d \in want : Key(d)[2] # "TXT"
  BY WantedKnown
<1>2. p.delete = IF config.policy = "sync"
                 THEN {c \in released \cup undesired : c.labels.owner = "mesh"} ELSE {}
  <2>1. TableChanges("mesh", cur, want, last, win).delete = released \cup undesired
    BY DEF TableChanges
  <2>2. OwnPartOf(config, TableChanges("mesh", cur, want, last, win), p)
    BY <1>1, CalculateParts
  <2> HIDE DEF released, undesired, p
  <2>3. QED
    BY <1>1, <2>1, <2>2 DEF OwnPartOf, FilterEndpointsByOwnerID, IsOwnedBy
<1> HIDE DEF p
<1>3. ASSUME NEW r \in p.delete
      PROVE  /\ config.policy = "sync" /\ Key(r) \in DOMAIN store /\ r.recordType # "TXT"
             /\ IsOwnedBy(store[Key(r)], "mesh")
             /\ \A d \in want : Key(d) # Key(r)
  <2>1. config.policy = "sync" /\ r \in released \cup undesired /\ r.labels.owner = "mesh"
    BY <1>2
  <2>2. r \in Endpoint /\ Key(r) \in DOMAIN store /\ r = store[Key(r)]
    BY <2>1 DEF TableFits
  <2>3. r.recordType # "TXT"
    <3>1. SUFFICES ASSUME Key(r)[2] = "TXT" PROVE FALSE
      BY DEF Key
    <3>2. r.labels = NoLabels
      BY <2>2, <3>1, HeldRecords
    <3>3. QED
      BY <2>1, <3>2 DEF NoLabels, Absent
  <2>4. ASSUME NEW d \in want, Key(d) = Key(r) PROVE FALSE
    <3>1. PICK w \in win : Key(w) = Key(d)
      BY DEF TableFits
    <3>2. w \in Endpoint /\ d \in Endpoint
      BY <1>1 DEF TableFits
    <3>3. PlanKey(d) = PlanKey(r) /\ Cell(w) = Cell(r)
      BY <2>2, <2>4, <3>1, <3>2, KeyCell
    <3>4. QED
      BY <2>1, <3>3
  <2>5. QED
    BY <2>1, <2>2, <2>3, <2>4 DEF IsOwnedBy
<1>4. ASSUME config.policy = "sync", NEW k \in DOMAIN store, k[2] # "TXT",
             IsOwnedBy(store[k], "mesh"), \A d \in want : Key(d) # k
      PROVE  \E r \in p.delete : Key(r) = k
  <2> DEFINE c == store[k]
  <2>1. /\ c \in cur /\ c \in Endpoint /\ Key(c) = k /\ c.labels.owner = "mesh"
        /\ c.recordType # "TXT"
    BY <1>4, HeldRecords DEF TableFits, Key, IsOwnedBy
  <2>2. ~Wanted(c)
    BY <1>4, <2>1, TakenIsHeld
  <2>3. c \in p.delete
    BY <1>2, <1>4, <2>1, <2>2
  <2>4. QED
    BY <2>1, <2>3
<1>5. QED
  BY <1>3, <1>4 DEF FitsDelete, p

\* A plan updates the records that differ from a preferred candidate.
LEMMA PlanUpdates ==
  ASSUME OneSpelling, OneKey, InScope, Foreign = {}, PersistLabels,
         TypeOK, CellsDivided, NEW cur, NEW last, NEW win, TableFits(cur, last, win)
  PROVE  FitsUpdate(Calculate(config, cur, want, last, win))
<1> DEFINE p == Calculate(config, cur, want, last, win)
           Old(u) == AfterNeedsUpdate(u[1], u[2], u[1])
           New(u) == NewValue(u[1], u[2])
           updated == {u \in last \X win : /\ Cell(u[1]) = Cell(u[2])
                                           /\ NeedsUpdate(u[2], u[1])}
           table == TableChanges("mesh", cur, want, last, win)
<1>1. /\ config.policy \in Policies /\ config.planOwner = "mesh" /\ want \in SUBSET Endpoint
      /\ \A d \in want : Key(d)[2] # "TXT"
  BY WantedKnown
<1>2. table.updateNew = {New(u) : u \in updated} /\ table.updateOld = {Old(u) : u \in updated}
  BY DEF TableChanges, NewValue
<1>3. OwnPartOf(config, table, p)
  BY <1>1, CalculateParts
<1> HIDE DEF p, table
<1>4. /\ p.updateNew = IF config.policy = "create-only" THEN {}
                       ELSE {e \in table.updateNew : e.labels.owner = "mesh"}
      /\ p.updateOld = IF config.policy = "create-only" THEN {}
                       ELSE {e \in table.updateOld : e.labels.owner = "mesh"}
  BY <1>1, <1>3 DEF OwnPartOf, FilterEndpointsByOwnerID, IsOwnedBy
<1>5. ASSUME NEW u \in updated
      PROVE  /\ u[1] \in Endpoint /\ u[1] = store[Key(u[1])]
             /\ u[2] \in want /\ u[2] \in win /\ NeedsUpdate(u[2], u[1])
             /\ Key(u[1]) = Key(u[2]) /\ Key(u[2]) \in DOMAIN store
             /\ Preferred(u[2], u[1])
             /\ New(u) \in Endpoint /\ Key(New(u)) = Key(u[2])
             /\ New(u).labels.owner = Get(u[1].labels.owner)
  <2>1. u[1] \in last /\ u[2] \in win /\ Cell(u[1]) = Cell(u[2]) /\ NeedsUpdate(u[2], u[1])
    OBVIOUS
  <2>2. /\ u[1] \in Endpoint /\ u[1] = store[Key(u[1])] /\ Key(u[1]) \in DOMAIN store
        /\ u[2] \in want /\ u[2] \in Endpoint
    BY <1>1, <2>1 DEF TableFits
  <2>3. Key(u[1]) = Key(u[2])
    BY <2>1, <2>2, CellKey
  <2>4. Preferred(u[2], u[1])
    BY <2>1, <2>2, <2>3 DEF TableFits
  <2>5. UpdateOf(u, New(u), want)
    BY <2>1 DEF UpdateOf, NewValue
  <2> HIDE DEF New, updated
  <2>6. New(u) \in Endpoint /\ Key(New(u)) = Key(u[2])
        /\ New(u).labels.owner = Get(u[1].labels.owner)
    BY <2>2, <2>5, UpdateOfType
  <2>7. QED
    BY <2>1, <2>2, <2>3, <2>4, <2>6
<1>6. \A u \in updated : /\ New(u).labels.owner = "mesh" <=> u[1].labels.owner = "mesh"
                         /\ Old(u).labels.owner = u[1].labels.owner
  <2> SUFFICES ASSUME NEW u \in updated
               PROVE  /\ New(u).labels.owner = "mesh" <=> u[1].labels.owner = "mesh"
                      /\ Old(u).labels.owner = u[1].labels.owner
    OBVIOUS
  <2>1. New(u).labels.owner = "mesh" <=> u[1].labels.owner = "mesh"
    BY <1>5 DEF Get, Absent
  <2>2. Old(u).labels = u[1].labels
    <3>1. u[1] \in Endpoint
      BY <1>5
    <3>2. QED
      BY <3>1 DEF AfterNeedsUpdate, Endpoint
  <2>3. QED
    BY <2>1, <2>2
<1>7. ASSUME NEW k \in DOMAIN store, k[2] # "TXT", NEW w \in win, Key(w) = k,
             NeedsUpdate(w, store[k])
      PROVE  <<store[k], w>> \in updated
  <2>1. store[k] \in last /\ store[k] \in Endpoint /\ Key(store[k]) = k /\ w \in Endpoint
    BY <1>1, <1>7, HeldRecords DEF TableFits
  <2>2. Cell(store[k]) = Cell(w)
    BY <1>7, <2>1, KeyCell
  <2>3. QED
    BY <1>7, <2>1, <2>2
<1> HIDE DEF New, Old, updated
<1>8. ASSUME NEW r \in p.updateNew
      PROVE  /\ config.policy # "create-only" /\ Key(r) \in DOMAIN store
             /\ IsOwnedBy(store[Key(r)], "mesh")
             /\ \E w \in want : /\ Preferred(w, store[Key(r)]) /\ NeedsUpdate(w, store[Key(r)])
                                /\ r = NewValue(store[Key(r)], w)
  <2>1. config.policy # "create-only" /\ r \in table.updateNew /\ r.labels.owner = "mesh"
    BY <1>4
  <2>2. PICK u \in updated : r = New(u)
    BY <1>2, <2>1
  <2>3. Key(r) \in DOMAIN store /\ u[1] = store[Key(r)]
    BY <1>5, <2>2
  <2>4. r = NewValue(store[Key(r)], u[2])
    BY <2>2, <2>3 DEF New
  <2>5. IsOwnedBy(store[Key(r)], "mesh")
    BY <1>6, <2>1, <2>2, <2>3 DEF IsOwnedBy
  <2>6. QED
    BY <1>5, <2>1, <2>3, <2>4, <2>5
<1>9. ASSUME config.policy # "create-only", NEW d \in want, Key(d) \in DOMAIN store,
             IsOwnedBy(store[Key(d)], "mesh")
      PROVE  \E w \in want : /\ Preferred(w, store[Key(d)])
                             /\ \/ ~NeedsUpdate(w, store[Key(d)])
                                \/ \E r \in p.updateNew : Key(r) = Key(d)
  <2>1. PICK w \in win : Key(w) = Key(d)
    BY DEF TableFits
  <2>2. w \in want /\ Preferred(w, store[Key(d)])
    BY <1>9, <2>1 DEF TableFits
  <2>3. CASE NeedsUpdate(w, store[Key(d)])
    <3> DEFINE u == <<store[Key(d)], w>>
    <3>1. u \in updated /\ u[1] = store[Key(d)] /\ u[2] = w
      BY <1>1, <1>7, <1>9, <2>1, <2>3
    <3> HIDE DEF u
    <3>2. New(u) \in p.updateNew
      BY <1>2, <1>4, <1>6, <1>9, <3>1 DEF IsOwnedBy
    <3>3. Key(New(u)) = Key(d)
      BY <1>5, <2>1, <3>1
    <3>4. QED
      BY <2>2, <3>2, <3>3
  <2>4. QED
    BY <2>2, <2>3
<1>10. ASSUME NEW o \in p.updateOld PROVE p.updateNew # {}
  <2>1. config.policy # "create-only" /\ o \in table.updateOld /\ o.labels.owner = "mesh"
    BY <1>4
  <2>2. PICK u \in updated : o = Old(u)
    BY <1>2, <2>1
  <2>3. New(u) \in p.updateNew
    BY <1>2, <1>4, <1>6, <2>1, <2>2
  <2>4. QED
    BY <2>3
<1>11. QED
  BY <1>8, <1>9, <1>10 DEF FitsUpdate, p

\* Every plan of a round does what it is for.
LEMMA PlanFits ==
  ASSUME OneSpelling, OneKey, InScope, Foreign = {}, PersistLabels,
         TypeOK, CellsDivided, NEW p \in PlansNow
  PROVE  FitsCreate(p) /\ FitsDelete(p) /\ FitsUpdate(p)
BY PlanTable, PlanCreates, PlanDeletes, PlanUpdates

\* The store st is settled when what is asked for is there, under the sync policy
\* nothing else of the owner's is, and for each record of the owner there is a
\* preferred one that it need not be updated to: the next plan would prefer it
\* again.
SettledIn(st) ==
  /\ \A d \in want : Key(d) \in DOMAIN st
  /\ config.policy = "sync" =>
       \A k \in DOMAIN st :
         (k[2] # "TXT" /\ IsOwnedBy(st[k], "mesh")) => \E d \in want : Key(d) = k
  /\ config.policy # "create-only" =>
       \A d \in want : IsOwnedBy(st[Key(d)], "mesh") =>
         \E w \in want : /\ Preferred(w, st[Key(d)]) /\ Key(w) = Key(d)
                         /\ ~NeedsUpdate(w, st[Key(d)])

Settled == Accepted => SettledIn(store)

\* A record is preferred again when its resource is the one that holds the name.
LEMMA PreferredAgain ==
  ASSUME NEW C, NEW w, NEW e, e.labels.resource = w.labels.resource
  PROVE  /\ w \in ResolveCreate(C) => w \in ResolveUpdate(e, C)
         /\ \A c : w \in ResolveUpdate(c, C) => w \in ResolveUpdate(e, C)
<1>1. w \in ResolveCreate(C) => w \in ResolveUpdate(e, C)
  BY DEF ResolveUpdate, ResolveCreate
<1>2. ASSUME NEW c, w \in ResolveUpdate(c, C) PROVE w \in ResolveUpdate(e, C)
  <2> DEFINE same(x) == {d \in C : Get(d.labels.resource) = Get(x.labels.resource)}
  <2>1. CASE same(c) # {}
    <3>1. w \in ResolveCreate(same(c))
      BY <1>2, <2>1 DEF ResolveUpdate
    <3>2. w \in same(c)
      BY <3>1 DEF ResolveCreate
    <3>3. same(e) = same(c)
      BY <3>2
    <3>4. QED
      BY <2>1, <3>1, <3>3 DEF ResolveUpdate
  <2>2. CASE same(c) = {}
    <3>1. w \in ResolveCreate(C)
      BY <1>2, <2>2 DEF ResolveUpdate
    <3>2. QED
      BY <1>1, <3>1
  <2>3. QED
    BY <2>1, <2>2
<1>3. QED
  BY <1>1, <1>2

\* What a round writes for a wanted record is current, and is of its resource.
WrittenFor(e, w) == /\ e \in Endpoint /\ Key(e) = Key(w)
                    /\ e.labels.resource = w.labels.resource /\ Resorted(w, e)

\* A record created is the candidate, with the labels of the registry.
LEMMA CreatedIsWritten ==
  ASSUME TypeOK, NEW w \in Endpoint
  PROVE  WrittenFor([AfterComparison(w, want) EXCEPT !.labels.mesh = "mesh"], w)
<1> DEFINE r == AfterComparison(w, want)
           e == [r EXCEPT !.labels.mesh = "mesh"]
<1>1. r \in Endpoint /\ Key(r) = Key(w) /\ r.labels = w.labels /\ Resorted(w, r)
  BY ComparedType, ComparedData
<1> HIDE DEF r
<1>2. "mesh" \in LabelValues
  BY EndpointsAssumption
<1>3. e \in Endpoint /\ Key(e) = Key(r) /\ e.labels.resource = r.labels.resource
  BY <1>1, <1>2 DEF Endpoint, Labels, Key
<1>4. e.ttl = r.ttl /\ e.providerSpecific = r.providerSpecific /\ e.targets = r.targets
  BY <1>1 DEF Endpoint
<1> HIDE DEF e
<1>5. WrittenFor(e, w)
  BY <1>1, <1>3, <1>4 DEF Resorted, WrittenFor
<1>6. QED
  BY <1>5 DEF e, r

\* A record updated is the candidate, with the labels of the one before.
LEMMA UpdatedIsWritten ==
  ASSUME NEW w \in Endpoint, NEW c \in Endpoint
  PROVE  WrittenFor(NewValue(c, w), w)
<1> DEFINE r == AfterComparison(w, want)
           f == AfterNeedsUpdate(r, w, c)
           e == InheritOwner(c, f)
<1>1. r \in Endpoint /\ Key(r) = Key(w) /\ r.labels = w.labels /\ Resorted(w, r)
  BY ComparedType, ComparedData
<1> HIDE DEF r
<1>2. f \in Endpoint /\ Key(f) = Key(r) /\ f.labels = r.labels /\ Resorted(r, f)
  BY <1>1, ComparedType, ComparedData
<1> HIDE DEF f
<1>3. e \in Endpoint /\ Key(e) = Key(f)
  BY <1>2, InheritOwnerType
<1>4. /\ e.ttl = f.ttl /\ e.providerSpecific = f.providerSpecific /\ e.targets = f.targets
      /\ e.labels.resource = f.labels.resource
  BY <1>2 DEF Endpoint, Labels, InheritOwner
<1> HIDE DEF e
<1>5. WrittenFor(e, w)
  BY <1>1, <1>2, <1>3, <1>4 DEF Resorted, WrittenFor
<1>6. QED
  BY <1>5 DEF e, f, r, NewValue

\* A round that carries its plan out settles the store.
LEMMA RoundSettles ==
  ASSUME OneSpelling, OneKey, InScope, Foreign = {}, PersistLabels,
         TypeOK, CellsDivided, NEW p \in PlansNow, NEW st, CarriedOut(store, st, p, "mesh")
  PROVE  SettledIn(st)
<1>1. /\ FitsCreate(p) /\ FitsDelete(p) /\ FitsUpdate(p)
      /\ want \in SUBSET Endpoint /\ \A d \in want : Key(d)[2] # "TXT"
  BY PlanFits, WantedKnown
<1> DEFINE Touched(k) == \E r \in p.create \cup p.updateNew \cup p.delete : Key(r) = k
<1>2. ASSUME NEW r \in p.create
      PROVE  \E w \in want : /\ Key(r) = Key(w) /\ Key(r) \in DOMAIN st
                             /\ Preferred(w, st[Key(r)]) /\ ~NeedsUpdate(w, st[Key(r)])
  <2>1. PICK w \in want : /\ r = AfterComparison(w, want)
                          /\ w \in ResolveCreate(Rivals(Key(w)))
    BY <1>1 DEF FitsCreate
  <2> DEFINE e == [r EXCEPT !.labels.mesh = "mesh"]
  <2>2. w \in Endpoint /\ WrittenFor(e, w)
    BY <1>1, <2>1, CreatedIsWritten
  <2>3. Key(r) \in DOMAIN st /\ st[Key(r)] = e
    BY DEF CarriedOut
  <2> HIDE DEF e
  <2>4. Key(r) = Key(w)
    BY <2>1, <2>2, ComparedType
  <2>5. Preferred(w, e) /\ ~NeedsUpdate(w, e)
    BY <2>1, <2>2, PreferredAgain, ResortedIsCurrent DEF WrittenFor, Preferred
  <2>6. QED
    BY <2>3, <2>4, <2>5
<1>3. ASSUME NEW r \in p.updateNew
      PROVE  \E w \in want : /\ Key(r) = Key(w) /\ Key(r) \in DOMAIN st
                             /\ Preferred(w, st[Key(r)]) /\ ~NeedsUpdate(w, st[Key(r)])
  <2>1. PICK w \in want : /\ Preferred(w, store[Key(r)])
                          /\ r = NewValue(store[Key(r)], w)
    BY <1>1 DEF FitsUpdate
  <2>2. Key(r) \in DOMAIN store /\ store[Key(r)] \in Endpoint /\ Key(store[Key(r)]) = Key(r)
    BY <1>1, HeldRecords DEF FitsUpdate
  <2>3. w \in Endpoint /\ WrittenFor(r, w)
    BY <1>1, <2>1, <2>2, UpdatedIsWritten
  <2>4. Key(r) \in DOMAIN st /\ st[Key(r)] = r
    BY DEF CarriedOut
  <2>5. Preferred(w, r) /\ ~NeedsUpdate(w, r)
    BY <2>1, <2>2, <2>3, PreferredAgain, ResortedIsCurrent DEF WrittenFor, Preferred
  <2>6. QED
    BY <2>3, <2>4, <2>5 DEF WrittenFor
<1>4. \A r \in p.delete : Key(r) \notin DOMAIN st /\ \A d \in want : Key(d) # Key(r)
  BY <1>1 DEF CarriedOut, FitsDelete
<1>5. \A k : k[2] # "TXT" /\ ~Touched(k) => /\ k \in DOMAIN st <=> k \in DOMAIN store
                                            /\ k \in DOMAIN store => st[k] = store[k]
  BY DEF CarriedOut
<1>6. ASSUME NEW d \in want PROVE Key(d) \in DOMAIN st
  <2>1. CASE Touched(Key(d))
    BY <1>2, <1>3, <1>4, <2>1
  <2>2. CASE ~Touched(Key(d))
    <3>1. Key(d) \in DOMAIN store
      BY <1>1, <2>2 DEF FitsCreate
    <3>2. QED
      BY <1>1, <1>5, <2>2, <3>1
  <2>3. QED
    BY <2>1, <2>2
<1>7. ASSUME config.policy = "sync", NEW k \in DOMAIN st, k[2] # "TXT", IsOwnedBy(st[k], "mesh")
      PROVE  \E d \in want : Key(d) = k
  <2>1. CASE Touched(k)
    BY <1>2, <1>3, <1>4, <2>1
  <2>2. CASE ~Touched(k)
    <3>1. k \in DOMAIN store /\ st[k] = store[k]
      BY <1>5, <1>7, <2>2
    <3>2. QED
      BY <1>1, <1>7, <2>2, <3>1 DEF FitsDelete
  <2>3. QED
    BY <2>1, <2>2
<1>8. ASSUME config.policy # "create-only", NEW d \in want, IsOwnedBy(st[Key(d)], "mesh")
      PROVE  \E w \in want : /\ Preferred(w, st[Key(d)]) /\ Key(w) = Key(d)
                             /\ ~NeedsUpdate(w, st[Key(d)])
  <2>1. CASE Touched(Key(d))
    BY <1>2, <1>3, <1>4, <2>1
  <2>2. CASE ~Touched(Key(d))
    <3>1. Key(d) \in DOMAIN store /\ st[Key(d)] = store[Key(d)]
      BY <1>1, <1>5, <1>6, <2>2
    <3>2. PICK w \in want : /\ Preferred(w, store[Key(d)])
                            /\ ~NeedsUpdate(w, store[Key(d)])
      BY <1>1, <1>8, <2>2, <3>1 DEF FitsUpdate
    <3>3. Key(w) = Key(d)
      BY <3>1, <3>2, HeldRecords DEF Preferred
    <3>4. QED
      BY <3>1, <3>2, <3>3
  <2>3. QED
    BY <2>1, <2>2
<1>9. QED
  BY <1>6, <1>7, <1>8 DEF SettledIn

\* Every step keeps it so: after an accepted round the store is settled.
LEMMA SettledStep ==
  ASSUME OneSpelling, OneKey, InScope, Foreign = {}, PersistLabels,
         TypeOK, CellsDivided, Settled, [Next]_vars
  PROVE  Settled'
<1> SUFFICES ASSUME Accepted' PROVE SettledIn(store)'
  BY DEF Settled
<1>1. ASSUME UNCHANGED <<config, want>>, SettledIn(store') PROVE SettledIn(store)'
  BY <1>1 DEF SettledIn, Preferred, Rivals
<1>2. CASE RunOnceUnchanged
  <2>1. PICK p \in PlansNow : ~HasChanges(p)
    BY <1>2 DEF RunOnceUnchanged
  <2>2. CarriedOut(store, store, p, "mesh")
    BY <2>1 DEF HasChanges, CarriedOut
  <2>3. SettledIn(store)
    BY <2>1, <2>2, RoundSettles
  <2>4. QED
    BY <1>1, <1>2, <2>3 DEF RunOnceUnchanged
<1>3. CASE RunOnceApply
  <2>1. PICK p \in PlansNow :
          \E o \in ApplyOutcomes(store, RegistryChanges(config.txtOwner, p)) :
             store' = o.store /\ outcome' = IF o.ok THEN "applied" ELSE "rejected"
    BY <1>3 DEF RunOnceApply
  <2> DEFINE b == RegistryChanges("mesh", p)
  <2>2. /\ config.policy \in Policies /\ config.planOwner = "mesh" /\ config.txtOwner = "mesh"
        /\ want \in SUBSET Endpoint
    BY WantedKnown
  <2>3. PICK o \in ApplyOutcomes(store, b) :
             store' = o.store /\ outcome' = IF o.ok THEN "applied" ELSE "rejected"
    BY <2>1, <2>2
  <2>4. o.ok
    BY <2>3 DEF Accepted
  <2>5. (\A z \in Zones : Valid(store, b, z)) /\ store' = ApplyZones(store, b, Zones)
    <3>1. {z \in Zones : Valid(store, b, z)} = Zones
      <4>1. SUFFICES ASSUME {z \in Zones : Valid(store, b, z)} # Zones PROVE FALSE
        OBVIOUS
      <4>2. ~o.ok
        BY <4>1 DEF ApplyOutcomes
      <4>3. QED
        BY <2>4, <4>2
    <3>2. o.store = ApplyZones(store, b, Zones)
      BY <3>1 DEF ApplyOutcomes
    <3>3. QED
      BY <2>3, <3>1, <3>2
  <2>6. PICK l \in RegistryRecords(config.txtOwner, RecordsOf(store)) : p \in Plans(config, l, want)
    BY DEF PlansNow
  <2>7. l \in SUBSET Endpoint
    <3>1. RecordsOf(store) \in SUBSET Endpoint
      BY DEF TypeOK, IsStore, RecordsOf
    <3>2. QED
      BY <2>6, <3>1, RegistryRecordsType
  <2>8. p \in Changes /\ \A r \in p.delete \cup p.updateNew : IsOwnedBy(r, "mesh")
    BY <2>2, <2>6, <2>7, PlansType
  <2>9. ASSUME NEW r \in p.create \cup p.updateNew \cup p.delete
        PROVE  ZoneOf[r.dnsName] \in Zones
    <3>1. FitsCreate(p) /\ FitsUpdate(p) /\ FitsDelete(p) /\ r \in Endpoint
      BY <2>8, PlanFits DEF Changes
    <3>2. ASSUME r \in p.create PROVE Key(r) \in WantedKeys
      <4>1. PICK w \in want : r = AfterComparison(w, want)
        BY <3>1, <3>2 DEF FitsCreate
      <4>2. w \in Endpoint /\ Key(r) = Key(w)
        BY <2>2, <4>1, ComparedType
      <4>3. QED
        BY <4>1, <4>2, WantedKnown
    <3>3. ASSUME r \in p.updateNew PROVE Key(r) \in WantedKeys
      <4>1. PICK w \in want : Preferred(w, store[Key(r)])
        BY <3>1, <3>3 DEF FitsUpdate
      <4>2. Key(r) \in DOMAIN store
        BY <3>1, <3>3 DEF FitsUpdate
      <4>3. Key(w) = Key(r)
        BY <4>1, <4>2, HeldRecords DEF Preferred
      <4>4. QED
        BY <4>1, <4>3, WantedKnown
    <3>4. ASSUME r \in p.delete PROVE Key(r) \in WantedKeys
      <4>1. Key(r) \in DOMAIN store /\ r.recordType # "TXT"
        BY <3>1, <3>4 DEF FitsDelete
      <4>2. Key(r)[2] # "TXT"
        BY <4>1 DEF Key
      <4>3. QED
        BY <4>1, <4>2, HeldRecords
    <3>5. ZoneOf[Key(r)[1]] \in Zones
      BY <3>2, <3>3, <3>4 DEF InScope, TypeOK
    <3>6. QED
      BY <3>5 DEF Key
  <2>10. "mesh" \in LabelValues
    BY EndpointsAssumption
  <2>11. CarriedOut(store, store', p, "mesh")
    BY <2>5, <2>8, <2>9, <2>10, RequestCarriedOut
  <2>12. SettledIn(store')
    BY <2>11, RoundSettles
  <2>13. QED
    BY <1>1, <1>3, <2>12 DEF RunOnceApply
<1>4. ASSUME NEW w \in Wants, SourceChanges(w) PROVE FALSE
  BY <1>4 DEF SourceChanges, Accepted
<1>5. ASSUME NEW c \in Configs, Reconfigure(c) PROVE FALSE
  BY <1>5 DEF Reconfigure, Accepted
<1>6. CASE UNCHANGED vars
  <2>1. SettledIn(store)
    BY <1>6 DEF Settled, Accepted, vars
  <2>2. QED
    BY <1>1, <1>6, <2>1 DEF vars
<1>7. QED
  BY <1>2, <1>3, <1>4, <1>5, <1>6 DEF Next

\* What an accepted round leaves behind stays settled.
LEMMA StaysSettled ==
  ASSUME OneSpelling, OneKey, InScope, Foreign = {}, PersistLabels
  PROVE  Spec => [](TypeOK /\ CellsDivided /\ Settled)
<1>1. OthersApart /\ PlansForOwner
  BY DEF OthersApart, Distinct, InScope, PlansForOwner
<1>2. Init => CellsDivided /\ Settled
  <2>1. DOMAIN EmptyStore = {}
    BY DEF EmptyStore
  <2>2. QED
    BY <2>1 DEF Init, CellsDivided, IsOthers, Settled, Accepted
<1>3. TypeOK /\ CellsDivided /\ Settled /\ [Next]_vars => CellsDivided' /\ Settled'
  BY <1>1, DividedStep, SettledStep
<1>4. QED
  BY TypeCorrect, <1>2, <1>3, PTL DEF Spec

\* However the sources and the configuration have changed since, and whether the
\* resources label their records or not: once a round of the sync policy has been
\* accepted, all that is asked for is in the zones, and what bears the owner's
\* label there is what is asked for, record for record.
THEOREM Converges ==
  ASSUME OneSpelling, OneKey, InScope, OneSpellingPerAddress,
         Foreign = {}, PersistLabels
  PROVE  Spec => []Converged
<1>1. TypeOK /\ CellsDivided /\ Settled => Converged
  <2> SUFFICES ASSUME TypeOK, CellsDivided, Settled, Accepted, config.policy = "sync"
               PROVE  LET kept    == ResolveRecordTypes(want)
                          records == {e \in RecordsOf(store) : e.recordType # "TXT"}
                      IN  /\ \A e \in records :
                               IsOwnedBy(e, config.planOwner) => \E d \in kept : Meets(e, d)
                          /\ \A d \in kept : \E e \in records : Cell(e) = Cell(d)
    BY DEF Converged
  <2>1. SettledIn(store)
    BY DEF Settled
  <2>2. /\ ResolveRecordTypes(want) = want /\ want \in SUBSET Endpoint
        /\ config.planOwner = "mesh"
        /\ \A d \in want : Key(d)[2] # "TXT"
    BY WantedKnown
  <2>3. ASSUME NEW e \in RecordsOf(store), e.recordType # "TXT", IsOwnedBy(e, "mesh")
        PROVE  \E d \in want : Meets(e, d)
    <3>1. PICK k \in DOMAIN store : e = store[k]
      BY DEF RecordsOf
    <3>2. e \in Endpoint /\ Key(e) = k /\ k[2] # "TXT"
      BY <2>3, <3>1, HeldRecords DEF Key
    <3>3. PICK d \in want : Key(d) = k
      BY <2>1, <2>3, <3>1, <3>2 DEF SettledIn
    <3>4. PICK w \in want : Key(w) = Key(d) /\ ~NeedsUpdate(w, store[Key(d)])
      BY <2>1, <2>3, <3>1, <3>3 DEF SettledIn
    <3>5. w \in Endpoint /\ Key(w) = Key(e) /\ ~NeedsUpdate(w, e)
      BY <2>2, <3>1, <3>2, <3>3, <3>4
    <3>6. Same(w.targets, e.targets) /\ ~(w.ttl > 0 /\ w.ttl # e.ttl)
      BY <3>5 DEF NeedsUpdate, TargetChanged, ShouldUpdateTTL
    <3>7. w.targets \in TargetLists /\ e.targets \in TargetLists /\ w.ttl \in Nat
      BY <3>2, <3>5, EndpointsAssumption DEF Endpoint
    <3>8. Sorted(e.targets) = Sorted(w.targets)
      BY <3>6, <3>7, SameIsEqual
    <3>9. w.ttl \in {0, e.ttl}
      BY <3>6, <3>7
    <3>10. QED
      BY <3>5, <3>8, <3>9 DEF Meets
  <2>4. ASSUME NEW d \in want
        PROVE  \E e \in RecordsOf(store) : e.recordType # "TXT" /\ Cell(e) = Cell(d)
    <3> DEFINE e == store[Key(d)]
    <3>1. Key(d) \in DOMAIN store
      BY <2>1 DEF SettledIn
    <3>2. e \in RecordsOf(store) /\ e \in Endpoint /\ Key(e) = Key(d) /\ d \in Endpoint
      BY <2>2, <3>1, HeldRecords DEF RecordsOf
    <3>3. Cell(e) = Cell(d) /\ e.recordType # "TXT"
      BY <2>2, <3>2, KeyCell DEF Key
    <3>4. QED
      BY <3>2, <3>3
  <2>5. QED
    BY <2>2, <2>3, <2>4
<1>2. QED
  BY StaysSettled, <1>1, PTL

\* The round after an accepted one has nothing to do, whichever record of several
\* the order of the lists makes the plan keep.
THEOREM Steady ==
  ASSUME OneSpelling, OneKey, InScope, Decided,
         Foreign = {}, PersistLabels
  PROVE  Spec => []NoFlapping
<1>1. TypeOK /\ CellsDivided /\ Settled => NoFlapping
  <2> SUFFICES ASSUME TypeOK, CellsDivided, Settled, Accepted, NEW p \in PlansNow
               PROVE  ~HasChanges(p)
    BY DEF NoFlapping
  <2>1. SettledIn(store) /\ FitsCreate(p) /\ FitsDelete(p) /\ FitsUpdate(p)
    BY PlanFits DEF Settled
  <2>2. p.create = {}
    BY <2>1 DEF SettledIn, FitsCreate
  <2>3. p.delete = {}
    <3>1. SUFFICES ASSUME NEW r \in p.delete PROVE FALSE
      OBVIOUS
    <3>2. /\ config.policy = "sync" /\ Key(r) \in DOMAIN store /\ Key(r)[2] # "TXT"
          /\ \A d \in want : Key(d) # Key(r)
          /\ IsOwnedBy(store[Key(r)], "mesh")
      BY <2>1 DEF FitsDelete, Key
    <3>3. QED
      BY <2>1, <3>2 DEF SettledIn
  <2>4. p.updateNew = {}
    <3>1. SUFFICES ASSUME NEW r \in p.updateNew PROVE FALSE
      OBVIOUS
    <3> DEFINE e == store[Key(r)]
    <3>2. config.policy # "create-only" /\ Key(r) \in DOMAIN store /\ IsOwnedBy(e, "mesh")
      BY <2>1 DEF FitsUpdate
    <3>3. PICK w \in want : Preferred(w, e) /\ NeedsUpdate(w, e)
      BY <2>1 DEF FitsUpdate
    <3>4. Key(w) = Key(r)
      BY <3>2, <3>3, HeldRecords DEF Preferred
    <3>5. PICK v \in want : /\ Preferred(v, e) /\ Key(v) = Key(w)
                            /\ ~NeedsUpdate(v, e)
      BY <2>1, <3>2, <3>4 DEF SettledIn
    <3> HIDE DEF e
    <3>6. ~IsLess(v.targets, w.targets) /\ ~IsLess(w.targets, v.targets)
      BY <3>3, <3>5 DEF Preferred, ResolveUpdate, ResolveCreate
    <3>7. v = w
      BY <3>5, <3>6 DEF Decided, TypeOK
    <3>8. QED
      BY <3>3, <3>5, <3>7
  <2>5. QED
    BY <2>1, <2>2, <2>3, <2>4 DEF HasChanges, FitsUpdate
<1>2. QED
  BY StaysSettled, <1>1, PTL
==============================================================================
