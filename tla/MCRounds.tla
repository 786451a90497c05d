------------------------------ MODULE MCRounds -------------------------------
(***************************************************************************)
(* Instances of Rounds for TLC.                                            *)
(***************************************************************************)
EXTENDS Rounds

L(owner, resource) == [owner |-> owner, mesh |-> Absent, resource |-> resource]

Rec(n, t, tg, ttl, l) ==
  [dnsName |-> n, recordType |-> t, setIdentifier |-> "", targets |-> tg,
   ttl |-> ttl, providerSpecific |-> 0, labels |-> l, text |-> NoLabels]

MCLists == {<<>>} \cup [1 .. 1 -> Targets] \cup [1 .. 2 -> Targets]

MCIdentity == [t \in Targets |-> t]
MCCanonical == [n \in Names |-> n]
MCOneZone == [n \in Names |-> "z1"]
MCTwoZones == [n \in Names |-> IF n = "a" THEN "z1" ELSE "z2"]

Ours == L("mesh", "r1")
Theirs == L("mesh", "r2")
\* The label of a resource that names no owner.
Plain == L(Absent, "r2")

MCSync(policy, owner) ==
  [policy |-> policy, planOwner |-> "mesh", txtOwner |-> owner, domain |-> Names,
   managed |-> RecordTypes, excluded |-> {}]

MCSyncMesh == {MCSync("sync", "mesh")}
MCOwners == {MCSync(p, "mesh") : p \in Policies} \cup {MCSync("sync", "other")}

(***************************************************************************)
(* Resources ask for names a and b with one or two targets, with and       *)
(* without a TTL, in ascending order and in another one, with the owner's  *)
(* label and without it; name a also as AAAA and as CNAME.                 *)
(***************************************************************************)
ARecords == {Rec("a", "A", <<1>>, 0, Ours), Rec("a", "A", <<2>>, 0, Theirs),
             Rec("a", "A", <<1>>, 5, Theirs), Rec("a", "A", <<2>>, 5, Plain)}
BRecords == {Rec("b", "A", <<2, 1>>, 0, Ours), Rec("b", "A", <<3, 2>>, 5, Theirs)}
\* The deduplicating source lets one record through for each name and targets.
Deduped(w) == \A d, e \in w : (d.dnsName = e.dnsName /\ d.targets = e.targets) => d = e

MCWantsRivals ==
  {w \in {u \cup v : u \in SUBSET ARecords, v \in SUBSET BRecords} : Deduped(w)}

MCWantsTypes ==
  SUBSET {Rec("a", "A", <<1>>, 0, Ours), Rec("a", "A", <<2>>, 0, Ours),
          Rec("a", "AAAA", <<3>>, 0, Ours), Rec("a", "CNAME", <<4>>, 0, Theirs),
          Rec("b", "A", <<1>>, 0, Ours)}

\* Fewer records, for the run in which others write to the zone as well: the
\* name a changes its type, with the owner's label and without it, and somebody
\* else may hold the name b first.
MCWantsContested == SUBSET {Rec("a", "A", <<1>>, 0, Ours), Rec("a", "AAAA", <<3>>, 0, Plain),
                            Rec("a", "CNAME", <<4>>, 0, Theirs), Rec("b", "A", <<1>>, 0, Ours)}

ForeignTXT(n, text) == NewEndpoint(n, "TXT", "", text)
MCForeign == {Rec("b", "A", <<3>>, 0, NoLabels), ForeignTXT("a", NoLabels),
              ForeignTXT("b", [owner |-> Absent, mesh |-> "other", resource |-> Absent])}

\* "a" and "A" are two spellings of one name.
MCSpelled == [n \in Names |-> "a"]
MCWantsSpelled == {{}, {Rec("a", "A", <<1>>, 0, Ours)}, {Rec("A", "A", <<2>>, 0, Ours)}}
MCForeignSpelled == {Rec("A", "A", <<3>>, 0, NoLabels), ForeignTXT("A", NoLabels)}
=============================================================================
