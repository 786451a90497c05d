------------------------------ MODULE Endpoints ------------------------------
(***************************************************************************)
(* The records that every part of dns-sync passes around                   *)
(* (endpoint/endpoint.go, endpoint/labels.go, endpoint/apis.go).           *)
(*                                                                         *)
(* A record keeps the fields the synchronisation decides on.  What is      *)
(* abstracted: a DNS name, a set identifier and a label value are tokens;  *)
(* a target is a number, ordered as sort.Sort orders the strings; the one  *)
(* target of a TXT record is the set of labels it spells out ("text"), and *)
(* a TXT record that spells no key=value pair has the text NoLabels.       *)
(***************************************************************************)
EXTENDS Integers, Sequences, FiniteSets, TLC

CONSTANTS
  Names,           \* spellings of DNS names
  SetIdentifiers,  \* "" and the identifiers of routing-policy records
  LabelValues,     \* values of labels, "" included
  Targets,         \* targets of A, AAAA and CNAME records, a set of naturals
  TargetLists,     \* the target lists of records, closed under sorting
  TTLs,            \* times to live, 0 for one that is not configured
  ProviderSettings,\* the values of the provider-specific properties of a record
  Rank,            \* Rank[t]: the order IsLess gives t (addresses before names)
  Address          \* Address[t]: the IP address t spells, 0 for a host name

RecordTypes == {"A", "AAAA", "CNAME", "TXT"}

\* Marks a label that is not in the map, as opposed to one that is empty.
Absent == "-"
Labels == [owner : LabelValues \cup {Absent},
           mesh : LabelValues \cup {Absent},
           resource : LabelValues \cup {Absent}]
NoLabels == [owner |-> Absent, mesh |-> Absent, resource |-> Absent]

\* labels[key] in Go: a missing label reads as the empty string.
Get(label) == IF label = Absent THEN "" ELSE label

Endpoint == [dnsName : Names, recordType : RecordTypes,
             setIdentifier : SetIdentifiers, targets : TargetLists,
             ttl : TTLs, providerSpecific : ProviderSettings,
             labels : Labels, text : Labels]

EndpointKey == Names \X RecordTypes \X SetIdentifiers

Key(e) == <<e.dnsName, e.recordType, e.setIdentifier>>

\* The key of the TXT record that carries the labels of e.
TXTKey(k) == <<k[1], "TXT", k[3]>>

\* NewEndpoint and NewEndpointWithTTL, whose only outcome that matters here is
\* a record without labels; names with over-long DNS labels are not in Names.
NewEndpoint(name, type, id, text) ==
  [dnsName |-> name, recordType |-> type, setIdentifier |-> id,
   targets |-> <<>>, ttl |-> 0, providerSpecific |-> 0,
   labels |-> NoLabels, text |-> text]

(***************************************************************************)
(* Ownership.                                                              *)
(***************************************************************************)
\* The label has to be present: a record without one is owned by nobody, not
\* even by the owner "".
IsOwnedBy(e, ownerID) == e.labels.owner = ownerID

\* A filter that forgets that a missing label owns nothing.
FilterKeepsUnlabelled(ownerID, eps) ==
  {e \in eps : e.labels.owner \in {ownerID, Absent}}

FilterEndpointsByOwnerID(ownerID, eps) == {e \in eps : IsOwnedBy(e, ownerID)}

\* for k, v := range over { base[k] = v }
Override(label, by) == IF by # Absent THEN by ELSE label
MergeLabels(base, over) ==
  [owner |-> Override(base.owner, over.owner),
   mesh |-> Override(base.mesh, over.mesh),
   resource |-> Override(base.resource, over.resource)]

(***************************************************************************)
(* Comparing target lists.  Same and IsLess sort the lists they compare in *)
(* place, but only when their lengths agree.                               *)
(***************************************************************************)
\* The ways to put the elements of a list into another order and back again.
Rearrangements(D) ==
  {p \in [D -> D] : \E q \in [D -> D] : \A i \in D : p[q[i]] = i /\ q[p[i]] = i}

Arrangements(t) == {[i \in DOMAIN t |-> t[p[i]]] : p \in Rearrangements(DOMAIN t)}
Ascending(s) == \A i, j \in DOMAIN s : i < j => s[i] <= s[j]

Sorted(t) == CHOOSE s \in Arrangements(t) : Ascending(s)

ASSUME EndpointsAssumption ==
  /\ Targets \subseteq Nat
  /\ Rank \in [Targets -> Nat]
  /\ Address \in [Targets -> Nat]
  /\ TargetLists \subseteq Seq(Targets)
  /\ <<>> \in TargetLists
  /\ \A t \in TargetLists : Sorted(t) \in TargetLists
  /\ 0 \in TTLs /\ TTLs \subseteq Nat
  /\ 0 \in ProviderSettings
  /\ {"", "mesh"} \subseteq LabelValues /\ Absent \notin LabelValues

\* The first position at which the sorted lists t and o differ.
Diff(t, o) == {i \in DOMAIN t : /\ Sorted(t)[i] # Sorted(o)[i]
                                /\ \A j \in 1 .. i - 1 : Sorted(t)[j] = Sorted(o)[j]}

\* At the first difference two spellings of one IP address decide for "same"
\* without a look at the rest of the lists.
Same(t, o) ==
  /\ Len(t) = Len(o)
  /\ \A i \in Diff(t, o) : /\ Address[Sorted(t)[i]] # 0
                           /\ Address[Sorted(t)[i]] = Address[Sorted(o)[i]]

\* Looks at the first target only.
IsLessByFirstTarget(t, o) ==
  \/ Len(t) < Len(o)
  \/ /\ Len(t) = Len(o)
     /\ Len(t) > 0
     /\ Rank[Sorted(t)[1]] < Rank[Sorted(o)[1]]

IsLess(t, o) ==
  \/ Len(t) < Len(o)
  \/ /\ Len(t) = Len(o)
     /\ \E i \in Diff(t, o) : Rank[Sorted(t)[i]] < Rank[Sorted(o)[i]]

\* What every list a Plan produces looks like: sets of records.
Changes == [create : SUBSET Endpoint, updateOld : SUBSET Endpoint,
            updateNew : SUBSET Endpoint, delete : SUBSET Endpoint]

\* UpdateNew and UpdateOld of one update always differ, so that comparing the
\* two lists comes down to asking whether there is any.
HasChanges(c) == c.create \cup c.delete \cup c.updateNew \cup c.updateOld # {}

\* Every way to keep exactly one element of S in each cell: what is left when
\* later elements of a list of unknown order replace earlier ones.
Selections(S, Cell(_)) ==
  {T \in SUBSET S : \A e \in S : \E t \in T :
                       \A u \in T : Cell(u) = Cell(e) <=> u = t}
=============================================================================
