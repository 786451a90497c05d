----------------------------- MODULE TXTRegistry -----------------------------
(***************************************************************************)
(* The registry that records ownership in TXT records beside the records   *)
(* it owns (pkg/sources/dnsmesh/txt.go).                                   *)
(*                                                                         *)
(* The lists it hands to the provider are sets of items <<r, part>>: the   *)
(* record r itself ("self") or the TXT record generated for r ("txt").     *)
(* Two records can give rise to equal TXT records; they stay two items, as *)
(* they are two elements of the list.                                      *)
(***************************************************************************)
EXTENDS Endpoints

TXTRecord(r) == NewEndpoint(r.dnsName, "TXT", r.setIdentifier, r.labels)

ItemEndpoint(i) == IF i[2] = "self" THEN i[1] ELSE TXTRecord(i[1])

ItemKey(i) == Key(ItemEndpoint(i))

Items == Endpoint \X {"self", "txt"}
Batches == [create : SUBSET Items, updateOld : SUBSET Items,
            updateNew : SUBSET Items, delete : SUBSET Items]

WithTXT(eps) == eps \X {"self", "txt"}
WithoutTXT(eps) == eps \X {"self"}

\* Forgets the TXT records of deleted records.
LeavesTXTBehind(ownerID, c) ==
  [create    |-> WithTXT({[r EXCEPT !.labels.mesh = ownerID] : r \in c.create}),
   updateNew |-> WithTXT(FilterEndpointsByOwnerID(ownerID, c.updateNew)),
   updateOld |-> WithTXT(FilterEndpointsByOwnerID(ownerID, c.updateOld)),
   delete    |-> WithoutTXT(FilterEndpointsByOwnerID(ownerID, c.delete))]

\* Forgets the TXT records of updated records.
LeavesTXTUnchanged(ownerID, c) ==
  [create    |-> WithTXT({[r EXCEPT !.labels.mesh = ownerID] : r \in c.create}),
   updateNew |-> WithoutTXT(FilterEndpointsByOwnerID(ownerID, c.updateNew)),
   updateOld |-> WithoutTXT(FilterEndpointsByOwnerID(ownerID, c.updateOld)),
   delete    |-> WithTXT(FilterEndpointsByOwnerID(ownerID, c.delete))]

(***************************************************************************)
(* ApplyChanges: a created record gets the mesh label; an updated record   *)
(* does not get it, so that its new TXT record spells out the labels of    *)
(* the desired record only.                                                *)
(***************************************************************************)
RegistryChanges(ownerID, c) ==
  [create    |-> WithTXT({[r EXCEPT !.labels.mesh = ownerID] : r \in c.create}),
   updateNew |-> WithTXT(FilterEndpointsByOwnerID(ownerID, c.updateNew)),
   updateOld |-> WithTXT(FilterEndpointsByOwnerID(ownerID, c.updateOld)),
   delete    |-> WithTXT(FilterEndpointsByOwnerID(ownerID, c.delete))]

(***************************************************************************)
(* Records: the TXT records of this owner are taken out, and their labels  *)
(* are laid over those of every record of the same name, whatever its type *)
(* or set identifier.  A TXT record of anybody else stays in the list.     *)
(* With several TXT records for one name, the last one listed counts.      *)
(***************************************************************************)
IsRegistryTXT(ownerID, r) == r.recordType = "TXT" /\ Get(r.text.mesh) = ownerID

DNSNameOf(r) == r.dnsName

\* The records with the labels of the TXT records in txts.
Labelled(records, txts) ==
  {[r EXCEPT !.labels =
      IF \E t \in txts : t.dnsName = r.dnsName
      THEN MergeLabels(@, (CHOOSE t \in txts : t.dnsName = r.dnsName).text)
      ELSE @] : r \in records}

RegistryRecords(ownerID, records) ==
  LET mine == {r \in records : IsRegistryTXT(ownerID, r)}
  IN  {Labelled(records \ mine, txts) : txts \in Selections(mine, DNSNameOf)}
=============================================================================
