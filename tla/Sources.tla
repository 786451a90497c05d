------------------------------- MODULE Sources -------------------------------
(***************************************************************************)
(* What all sources of records share (source/source.go) and the chain that *)
(* combines them (multisource.go, dedupsource.go, targetfiltersource.go,   *)
(* endpoint/target_filter.go).                                             *)
(*                                                                         *)
(* A DNS name is the sequence of its labels; <<>> is the empty string and  *)
(* <<"*">> the star.  A target is a natural number, ordered as the strings *)
(* are; 0 stands for the empty string where a field may be empty.  What an *)
(* annotation spells is kept in parsed form: a TTL in seconds (NotATTL if  *)
(* it is missing or does not parse), lists as sequences; of a controller   *)
(* or a source of host names "" says that there is no annotation, and an   *)
(* empty one is one of the values nobody knows.                            *)
(***************************************************************************)
EXTENDS Integers, Sequences, FiniteSets, SequencesExt

CONSTANTS
  LongLabels,   \* the labels with more than 63 characters
  FullLabels,   \* those with just 63: none can take an underscore before it
  TargetType,   \* TargetType[t]: the record type that suits t
  MaxTTL        \* the greatest number of seconds a TTL may have

ASSUME SourcesAssumption ==
  /\ DOMAIN TargetType \subseteq Nat
  /\ \A t \in DOMAIN TargetType : TargetType[t] \in {"A", "AAAA", "CNAME", "SRV"}
  /\ MaxTTL \in Nat

\* What is written out below are strings; the provers do not know that.
ASSUME LiteralsAreStrings == {"", "p", "_", "tcp"} \subseteq STRING

(***************************************************************************)
(* What there is.  A port is the target of an SRV record.                  *)
(***************************************************************************)
RecordTypes == {"A", "AAAA", "CNAME", "SRV"}
Name == Seq(STRING)
Port == {t \in DOMAIN TargetType : TargetType[t] = "SRV"}
Target == DOMAIN TargetType \ Port

Annotations ==
  [controller : STRING, hostname : Seq(Name), internalHostname : Seq(Name),
   target : Seq(Target), ttl : Int, setIdentifier : STRING, providerSpecific : Nat,
   hostnameSource : STRING, ingress : Seq(STRING), class : STRING, dualstack : BOOLEAN,
   access : STRING, endpointsType : STRING]

Record ==
  [dnsName : Name, recordType : RecordTypes, setIdentifier : STRING,
   targets : Seq(Target \cup Port), ttl : Nat, providerSpecific : Nat,
   labels : [resource : Nat, mesh : BOOLEAN, dualstack : BOOLEAN]]

(***************************************************************************)
(* Lists.                                                                  *)
(***************************************************************************)
\* The elements at the positions I.
Picked(s, I) ==
  LET upTo[n \in 0 .. Len(s)] ==
        IF n = 0 THEN <<>>
        ELSE IF n \in I THEN Append(upTo[n - 1], s[n]) ELSE upTo[n - 1]
  IN  upTo[Len(s)]

\* The elements in S, and those that have not come before.
Only(s, S) == Picked(s, {i \in DOMAIN s : s[i] \in S})
Firsts(s) == {i \in DOMAIN s : \A j \in 1 .. i - 1 : s[j] # s[i]}
Deduped(s) == Picked(s, Firsts(s))

\* In the order of the numbers key[i]; elements with one number stay in theirs.
SortedBy(s, key) ==
  LET UpTo(i) == {j \in DOMAIN s : key[j] < key[i] \/ (key[j] = key[i] /\ j <= i)}
      upTo[n \in 0 .. Len(s)] ==
        IF n = 0 THEN <<>>
        ELSE Append(upTo[n - 1], s[CHOOSE i \in DOMAIN s : Cardinality(UpTo(i)) = n])
  IN  upTo[Len(s)]

(***************************************************************************)
(* Annotations.                                                            *)
(***************************************************************************)
NotATTL == -1
NoAnnotations ==
  [controller |-> "", hostname |-> <<>>, internalHostname |-> <<>>, target |-> <<>>,
   ttl |-> NotATTL, setIdentifier |-> "", providerSpecific |-> 0,
   hostnameSource |-> "", ingress |-> <<>>, class |-> "", dualstack |-> FALSE,
   access |-> "", endpointsType |-> ""]

GetTTLFromAnnotations(ann) == IF ann.ttl \in 1 .. MaxTTL THEN ann.ttl ELSE 0

\* A resource without the annotation is everybody's.
Responsible(ann) == ann.controller \in {"", "dns-controller"}

(***************************************************************************)
(* Records.                                                                *)
(***************************************************************************)
NoLabels == [resource |-> 0, mesh |-> FALSE, dualstack |-> FALSE]

SuitableType(t) == TargetType[t]

TooLong(name) ==
  \E i \in DOMAIN name :
    \/ name[i] \in LongLabels
    \/ name[i] \in FullLabels /\ i > 1 /\ name[i - 1] = "_"

\* The nil pointer that NewEndpoint returns for a name with an over-long label.
Nil == [dnsName |-> <<>>, recordType |-> "nil", setIdentifier |-> "", targets |-> <<>>,
        ttl |-> 0, providerSpecific |-> 0, labels |-> NoLabels]

NewEndpointWithTTL(name, type, ttl, targets) ==
  IF TooLong(name) THEN Nil
  ELSE [dnsName |-> name, recordType |-> type, setIdentifier |-> "", targets |-> targets,
        ttl |-> ttl, providerSpecific |-> 0, labels |-> NoLabels]

NewEndpoint(name, type, targets) == NewEndpointWithTTL(name, type, 0, targets)

SortTargets(e) == [e EXCEPT !.targets = SortedBy(@, @)]
SortAll(eps) == [i \in DOMAIN eps |-> SortTargets(eps[i])]

NotNil(eps) == Only(eps, ToSet(eps) \ {Nil})

\* One record for each type among the targets.
EndpointsForHostname(host, targets, ttl, provider, id, resource) ==
  LET OfType(type) == Only(targets, {t \in ToSet(targets) : SuitableType(t) = type})
      RecordOf(type) ==
        IF OfType(type) = <<>> \/ TooLong(host) THEN <<>>
        ELSE <<[NewEndpointWithTTL(host, type, ttl, OfType(type)) EXCEPT
                  !.providerSpecific = provider, !.setIdentifier = id,
                  !.labels.resource = resource]>>
  IN  RecordOf("A") \o RecordOf("AAAA") \o RecordOf("CNAME")

\* EndpointsForHostname for hosts, with what the annotations of a resource say.
EndpointsForHosts(hosts, targets, ann, resource) ==
  FlattenSeq([i \in DOMAIN hosts |->
    EndpointsForHostname(hosts[i], targets, GetTTLFromAnnotations(ann),
                         ann.providerSpecific, ann.setIdentifier, resource)])

(***************************************************************************)
(* Results: the records of a listing, an error, or a panic.                *)
(***************************************************************************)
Ok(eps) == [state |-> "ok", eps |-> eps]
Failed == [state |-> "failed", eps |-> <<>>]
Panics == [state |-> "panics", eps |-> <<>>]

\* Results of one call after the other, of which the first that is not Ok ends
\* them all.
Joined(results) ==
  LET bad == {i \in DOMAIN results : results[i].state # "ok"}
  IN  IF bad = {}
      THEN Ok(FlattenSeq([i \in DOMAIN results |-> results[i].eps]))
      ELSE results[CHOOSE i \in bad : \A j \in bad : i <= j]

(***************************************************************************)
(* The chain.                                                              *)
(***************************************************************************)
\* The default targets replace those of a record, which keeps its labels.
WithDefaultTargets(e, defaultTargets) ==
  LET eps == EndpointsForHostname(e.dnsName, defaultTargets, e.ttl,
                                  e.providerSpecific, e.setIdentifier, 0)
  IN  [i \in DOMAIN eps |-> [eps[i] EXCEPT !.labels = e.labels]]

MultiSource(results, defaultTargets) ==
  LET all == Joined(results)
  IN  IF all.state # "ok" \/ defaultTargets = <<>> THEN all
      ELSE IF Contains(all.eps, Nil) THEN Panics
      ELSE Ok(FlattenSeq([i \in DOMAIN all.eps |->
                            WithDefaultTargets(all.eps[i], defaultTargets)]))

\* Takes the second record of a name for a duplicate, whatever its targets.
IdentifierWithoutTargets(e) == <<e.dnsName, e.setIdentifier>>

Identifier(e) == <<e.dnsName, e.setIdentifier, e.targets>>

\* Hands on all records, a nil among them too.
DedupSourceLeftOut(result) == result

\* Of records with one identifier the first one stays.
DedupSource(result) ==
  LET eps == result.eps
  IN  IF result.state # "ok" THEN result
      ELSE IF Contains(eps, Nil) THEN Panics
      ELSE Ok(Picked(eps, Firsts([i \in DOMAIN eps |-> Identifier(eps[i])])))

\* A network is the set of the addresses in it; an entry that does not parse is
\* the empty one here, and dropped.
PrepareTargetFilters(entries) == entries \ {{}}

MatchTargetNetFilter(nets, t, ifEmpty) == IF nets = {} THEN ifEmpty ELSE t \in UNION nets

Match(filter, t) ==
  /\ MatchTargetNetFilter(PrepareTargetFilters(filter.include), t, TRUE)
  /\ ~MatchTargetNetFilter(PrepareTargetFilters(filter.exclude), t, FALSE)

Matching(filter, targets) == Only(targets, {t \in ToSet(targets) : Match(filter, t)})

\* Keeps a record whose targets are all filtered out.
FilterTargetsOnly(filter, e) == <<[e EXCEPT !.targets = Matching(filter, @)]>>

\* Addresses are filtered; a record without any left is dropped.
FilterRecord(filter, e) ==
  LET left == Matching(filter, e.targets)
  IN  IF e.recordType \notin {"A", "AAAA"} THEN <<e>>
      ELSE IF left = <<>> THEN <<>>
      ELSE <<[e EXCEPT !.targets = left]>>

TargetFilterSource(result, filter) ==
  IF result.state # "ok" THEN result
  ELSE Ok(FlattenSeq([i \in DOMAIN result.eps |-> FilterRecord(filter, result.eps[i])]))

\* What the controller lists, from the results of the sources.
Chain(results, defaultTargets, filter) ==
  TargetFilterSource(DedupSource(MultiSource(results, defaultTargets)), filter)
=============================================================================
