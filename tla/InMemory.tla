------------------------------ MODULE InMemory -------------------------------
(***************************************************************************)
(* The provider: records by key, zone by zone (pkg/mem/inmemory.go).       *)
(*                                                                         *)
(* A zone is a map from keys to records.  The zone of a record depends on  *)
(* its name alone, so the zones together are one function "store" from     *)
(* keys to records, and ZoneOf cuts it into zones.  A batch is a record of *)
(* four sets of items, see TXTRegistry.                                    *)
(***************************************************************************)
EXTENDS TXTRegistry

CONSTANTS
  Zones,          \* identifiers of zones
  ZoneOf,         \* ZoneOf[n]: EndpointZoneID, "" if the name n is in no zone
  PersistLabels   \* TRUE for the in-memory provider, which keeps the labels of
                  \* a record; FALSE for a DNS server, which cannot

ASSUME InMemoryAssumption ==
  /\ "" \notin Zones
  /\ ZoneOf \in [Names -> Zones \cup {""}]
  /\ PersistLabels \in BOOLEAN

EmptyStore == [k \in {} |-> <<>>]

\* The stores: functions from some keys to records with these keys.
IsStore(store) ==
  /\ store = [k \in DOMAIN store |-> store[k]]
  /\ DOMAIN store \subseteq EndpointKey
  /\ \A k \in DOMAIN store : store[k] \in Endpoint /\ Key(store[k]) = k

\* The content of the zones, as Records lists it.
RecordsOf(store) == {store[k] : k \in DOMAIN store}

InZone(z, items) == {i \in items : ZoneOf[ItemEndpoint(i).dnsName] = z}

Stored(e) == IF PersistLabels THEN e ELSE [e EXCEPT !.labels = NoLabels]

\* rec.Targets[0] == other.Targets[0]
SameFirstTarget(e, f) ==
  IF e.recordType = "TXT" THEN e.text = f.text ELSE e.targets[1] = f.targets[1]

(***************************************************************************)
(* validateChangeBatch.                                                    *)
(***************************************************************************)
\* Looks for the key only.
MatchesKey(store, i) == ItemKey(i) \in DOMAIN store

Matches(store, i) == /\ ItemKey(i) \in DOMAIN store
                     /\ SameFirstTarget(store[ItemKey(i)], ItemEndpoint(i))

KeysDiffer(items) == \A i, j \in items : ItemKey(i) = ItemKey(j) => i = j
ItemKeys(items) == {ItemKey(i) : i \in items}

NoOverlap(create, new, delete) ==
  /\ KeysDiffer(create) /\ KeysDiffer(new) /\ KeysDiffer(delete)
  /\ ItemKeys(create) \cap ItemKeys(new) = {}
  /\ ItemKeys(create) \cap ItemKeys(delete) = {}
  /\ ItemKeys(new) \cap ItemKeys(delete) = {}

ValidWithoutCreateCheck(store, b, z) ==
  /\ ItemKeys(InZone(z, b.updateNew)) \subseteq DOMAIN store
  /\ \A i \in InZone(z, b.updateOld) \cup InZone(z, b.delete) : Matches(store, i)
  /\ NoOverlap(InZone(z, b.create), InZone(z, b.updateNew), InZone(z, b.delete))

\* Deletes and old values have to name the first target of the record they
\* stand for: that is what catches a plan made from an outdated listing.
Valid(store, b, z) ==
  /\ ItemKeys(InZone(z, b.create)) \cap DOMAIN store = {}
  /\ ItemKeys(InZone(z, b.updateNew)) \subseteq DOMAIN store
  /\ \A i \in InZone(z, b.updateOld) \cup InZone(z, b.delete) : Matches(store, i)
  /\ NoOverlap(InZone(z, b.create), InZone(z, b.updateNew), InZone(z, b.delete))

ItemsIn(zs, items) == UNION {InZone(z, items) : z \in zs}

ApplyCreatesAndDeletesOnly(store, b, zs) ==
  LET written == ItemsIn(zs, b.create)
      removed == ItemKeys(ItemsIn(zs, b.delete))
  IN  [k \in (DOMAIN store \cup ItemKeys(written)) \ removed |->
         IF k \in ItemKeys(written)
         THEN Stored(ItemEndpoint(CHOOSE i \in written : ItemKey(i) = k))
         ELSE store[k]]

\* Takes the item to write by its name alone.
ApplyZonesByName(store, b, zs) ==
  LET written == ItemsIn(zs, b.create \cup b.updateNew)
      removed == ItemKeys(ItemsIn(zs, b.delete))
  IN  [k \in (DOMAIN store \cup ItemKeys(written)) \ removed |->
         IF k \in ItemKeys(written)
         THEN Stored(ItemEndpoint(CHOOSE i \in written : ItemKey(i)[1] = k[1]))
         ELSE store[k]]

(***************************************************************************)
(* ApplyChanges: each zone is validated and then changed, in the order of  *)
(* a map, until a zone fails.  Items outside every zone are dropped.       *)
(***************************************************************************)
ApplyZones(store, b, zs) ==
  LET written == ItemsIn(zs, b.create \cup b.updateNew)
      removed == ItemKeys(ItemsIn(zs, b.delete))
  IN  [k \in (DOMAIN store \cup ItemKeys(written)) \ removed |->
         IF k \in ItemKeys(written)
         THEN Stored(ItemEndpoint(CHOOSE i \in written : ItemKey(i) = k))
         ELSE store[k]]

\* Every result: the store, and whether an error comes back.
ApplyOutcomes(store, b) ==
  LET valid == {z \in Zones : Valid(store, b, z)}
  IN  IF valid = Zones
      THEN {[store |-> ApplyZones(store, b, Zones), ok |-> TRUE]}
      ELSE {[store |-> ApplyZones(store, b, zs), ok |-> FALSE] : zs \in SUBSET valid}
=============================================================================
