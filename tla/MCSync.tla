------------------------------- MODULE MCSync --------------------------------
(***************************************************************************)
(* Instances of Sync for TLC.                                              *)
(***************************************************************************)
EXTENDS Sync

L(owner, resource) == [owner |-> owner, mesh |-> Absent, resource |-> resource]

Rec(n, t, tg, l) ==
  [dnsName |-> n, recordType |-> t, setIdentifier |-> "", targets |-> tg,
   ttl |-> 0, providerSpecific |-> 0, labels |-> l, text |-> NoLabels]

\* Only a DNSEndpoint can label its records with an owner; what the other sources
\* make names the resource alone.
Ours == L("mesh", "r1")
Theirs == L("other", "r2")
Plain == L(Absent, "r2")

MCLists == {<<>>} \cup [1 .. 1 -> Targets]
MCIdentity == [t \in Targets |-> t]
MCCanonical == [n \in Names |-> n]
MCOneZone == [n \in Names |-> "z1"]

MCConfig(owner) ==
  [policy |-> "sync", planOwner |-> owner, txtOwner |-> owner, domain |-> Names,
   managed |-> RecordTypes, excluded |-> {}]

\* Two replicas, each in its process, that read one cluster.
MCReplicaProcess == [s \in Syncs |-> s]
MCReplicaSource == [s \in Syncs |-> "c1"]
MCReplicaConfig == [s \in Syncs |-> MCConfig("mesh")]

\* The name a is absent, or points at 1 for a resource that labels its records
\* with the owner, or at 2 for one that does not.
MCWants ==
  [c \in Clusters |-> {{}, {Rec("a", "A", <<1>>, Ours)}, {Rec("a", "A", <<2>>, Plain)}}]
MCWantsOurs == [c \in Clusters |-> {{}, {Rec("a", "A", <<1>>, Ours)}}]

\* Two syncs of one process that read clusters of their own and go by
\* different owners, each asking for the name a with labels of its own or
\* without; others write to the zone.
MCOneProcess == [s \in Syncs |-> "p1"]
MCOwnSource == [s \in Syncs |-> s]
MCOwnerConfig == [s \in Syncs |-> MCConfig(IF s = "s1" THEN "mesh" ELSE "other")]
MCWantsOwned ==
  [c \in Clusters |->
     IF c = "s1" THEN {{}, {Rec("a", "A", <<1>>, Ours)}, {Rec("a", "A", <<2>>, Ours)}}
     ELSE {{}, {Rec("a", "A", <<1>>, Theirs)}, {Rec("a", "A", <<2>>, Plain)}}]
MCForeign == {Rec("a", "A", <<2>>, NoLabels), NewEndpoint("a", "TXT", "", NoLabels)}

\* Others may put a record of another type at the name.
MCOtherType == {Rec("a", "AAAA", <<2>>, NoLabels)}
=============================================================================
