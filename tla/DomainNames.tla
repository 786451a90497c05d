----------------------------- MODULE DomainNames -----------------------------
(***************************************************************************)
(* Domain filters (endpoint/domain_filter.go) and the choice of a zone for *)
(* a name (pkg/mem/inmemory.go, provider/zonefinder.go).                   *)
(*                                                                         *)
(* A name is the sequence of its characters, for what goes wrong here goes *)
(* wrong between two labels.  A regular expression is its text and the set *)
(* of the names it matches.                                                *)
(***************************************************************************)
EXTENDS Integers, Sequences, FiniteSets, SequencesExt

CONSTANT LowerCase   \* LowerCase[c]: the character c in lower case

ASSUME DomainNamesAssumption ==
  /\ "." \in DOMAIN LowerCase
  /\ \A c \in DOMAIN LowerCase :
       /\ LowerCase[c] \in DOMAIN LowerCase
       /\ LowerCase[LowerCase[c]] = LowerCase[c]
       /\ LowerCase[c] = "." <=> c = "."

(***************************************************************************)
(* Spelling.                                                               *)
(***************************************************************************)
TrimDot(name) == IF name # <<>> /\ Last(name) = "." THEN Front(name) ELSE name
ToLower(name) == [i \in DOMAIN name |-> LowerCase[name[i]]]
Stripped(name) == ToLower(TrimDot(name))
Dots(name) == Cardinality({i \in DOMAIN name : name[i] = "."})

(***************************************************************************)
(* Domain filters.  The lists of a filter are sets here: whatever is done  *)
(* with them does not depend on their order.                               *)
(***************************************************************************)
None == [text |-> "", matches |-> {}]   \* the nil pointer

PrepareFilters(filters) == {Stripped(f) : f \in filters} \ {<<>>}

NewDomainFilterWithExclusions(filters, exclude) ==
  [filters |-> PrepareFilters(filters), exclude |-> PrepareFilters(exclude),
   regex |-> None, regexExclusion |-> None]

NewRegexDomainFilter(regex, exclusion) ==
  [filters |-> {}, exclude |-> {}, regex |-> regex, regexExclusion |-> exclusion]

\* Takes any suffix, even one that starts within a label.
FilterMatchesSuffix(filter, stripped) == IsSuffix(filter, stripped)

\* A filter with a dot in front is for the names below it only.
FilterMatches(filter, stripped) ==
  IF filter[1] = "." /\ IsSuffix(filter, stripped) THEN TRUE
  ELSE IF Dots(stripped) = Dots(filter) THEN stripped = filter
  ELSE IsSuffix(<<".">> \o filter, stripped)

MatchFilter(filters, name, ifEmpty) ==
  IF filters = {} THEN ifEmpty
  ELSE \E f \in filters \ {<<>>} : FilterMatches(f, Stripped(name))

\* The exclusion alone decides if there is one.
MatchRegex(regex, exclusion, name) ==
  IF exclusion.text # "" THEN Stripped(name) \notin exclusion.matches
  ELSE Stripped(name) \in regex.matches

Match(df, name) ==
  IF df.regex.text # "" \/ df.regexExclusion.text # ""
  THEN MatchRegex(df.regex, df.regexExclusion, name)
  ELSE MatchFilter(df.filters, name, TRUE) /\ ~MatchFilter(df.exclude, name, FALSE)

\* What a handshake carries.
MarshalJSON(df) ==
  IF df.regex # None \/ df.regexExclusion # None
  THEN [include |-> {}, exclude |-> {},
        regexInclude |-> df.regex, regexExclude |-> df.regexExclusion]
  ELSE [include |-> df.filters, exclude |-> df.exclude,
        regexInclude |-> None, regexExclude |-> None]

\* Forgets what is excluded.
UnmarshalWithoutExclusion(json) ==
  IF json.regexInclude.text = "" /\ json.regexExclude.text = ""
  THEN NewDomainFilterWithExclusions(json.include, json.exclude)
  ELSE NewRegexDomainFilter(json.regexInclude, None)

\* An empty expression is a missing one; lists beside an expression are an error.
UnmarshalJSON(json) ==
  IF json.regexInclude.text = "" /\ json.regexExclude.text = ""
  THEN NewDomainFilterWithExclusions(json.include, json.exclude)
  ELSE IF json.include # {} \/ json.exclude # {} THEN "error"
  ELSE NewRegexDomainFilter(json.regexInclude, json.regexExclude)

(***************************************************************************)
(* Zones: one look at a zone in a walk over the map of zones, with the     *)
(* zone found so far; <<>> before one is found.                            *)
(***************************************************************************)
\* Takes the last zone that fits.
LookForSuffixLast(found, zone, name) ==
  IF IsSuffix(zone, name) THEN <<zone>> ELSE found

\* EndpointZoneID: any suffix, and the later one of two of the same length.
LookForSuffix(found, zone, name) ==
  IF IsSuffix(zone, name) /\ (found = <<>> \/ Len(zone) >= Len(found[1]))
  THEN <<zone>> ELSE found

\* FindZone: the zone of the name or above it, and the first one if it is not
\* the empty name, which every other one replaces.
LookForParent(found, zone, name) ==
  IF /\ name = zone \/ IsSuffix(<<".">> \o zone, name)
     /\ found = <<>> \/ found = <<<<>>>> \/ Len(zone) > Len(found[1])
  THEN <<zone>> ELSE found

-------------------------------------------------------------------------------
\* The labels of a name, by which a reader understands all of this: those from
\* the k-th character on.
LabelsFrom(name) ==
  LET from[k \in 1 .. Len(name) + 1] ==
        IF k > Len(name) THEN <<<<>>>>
        ELSE IF name[k] = "." THEN <<<<>>>> \o from[k + 1]
        ELSE [from[k + 1] EXCEPT ![1] = <<name[k]>> \o @]
  IN  from

LabelsOf(name) == LabelsFrom(name)[1]

IsBelowOrAt(name, domain) == IsSuffix(LabelsOf(domain), LabelsOf(name))
=============================================================================
