-------------------------------- MODULE Scans --------------------------------
(***************************************************************************)
(* Loops over lists and Go maps, which come in any order, and the pure     *)
(* algorithms around them, against their definitions:                      *)
(*   - the candidates of a name (plan/conflict.go: ResolveCreate),         *)
(*   - the zones a name may belong to (pkg/mem/inmemory.go and             *)
(*     provider/zonefinder.go), under a domain filter that has been        *)
(*     through a handshake,                                                *)
(*   - the reverse zone of a block of addresses.                           *)
(***************************************************************************)
EXTENDS Plan, DomainNames, ReverseZones

CONSTANTS
  MaxCandidates,   \* bound on the number of candidates for a name
  LookedUp,    \* the names looked up
  ZoneNames,       \* the names of zones
  DomainFilters,   \* the filters a provider may have
  Addresses        \* some addresses, of which blocks are made

ASSUME ScansAssumption ==
  /\ MaxCandidates \in Nat
  /\ IsFiniteSet(ZoneNames) /\ ZoneNames \subseteq Seq(DOMAIN LowerCase)
  /\ LookedUp \subseteq Seq(DOMAIN LowerCase)
  /\ Addresses \subseteq [1 .. 4 -> 0 .. 255] \cup [1 .. 16 -> 0 .. 255]

VARIABLES
  task,    \* "candidates", "zones", "filter" or "block"
  input,   \* what it is about
  walk,    \* the list, or the map in the order of the walk
  next,    \* index of the element the scan looks at
  found    \* what the loops have kept so far

vars == <<task, input, walk, next, found>>

Walks(set) == {w \in [1 .. Cardinality(set) -> set] : IsInjective(w)}

Init ==
  /\ next = 1
  /\ \/ /\ task = "candidates" /\ input = {}
        /\ walk \in UNION {[1 .. n -> TargetLists \ {<<>>}] : n \in 1 .. MaxCandidates}
        /\ found = 0
     \/ /\ task = "zones" /\ input \in LookedUp
        /\ \E zones \in SUBSET ZoneNames : walk \in Walks(zones)
        /\ found = [bySuffix |-> <<>>, byParent |-> <<>>]
     \/ /\ task = "filter" /\ input \in DomainFilters
        /\ walk = <<>> /\ found = Match(input, <<>>)
     \/ /\ task = "block"
        /\ \E a \in Addresses : \E b \in {NoMask} \cup 0 .. BitsOf(a) : input = <<a, b>>
        /\ walk = <<>> /\ found = CidrToInAddr(input[1], input[2])

\* ResolveCreate keeps the candidate that no earlier one is smaller than.
LookAtCandidate ==
  /\ task = "candidates" /\ next <= Len(walk)
  /\ found' = IF found = 0 \/ IsLess(walk[next], walk[found]) THEN next ELSE found
  /\ next' = next + 1
  /\ UNCHANGED <<task, input, walk>>

LookAtZone ==
  /\ task = "zones" /\ next <= Len(walk)
  /\ found' = [bySuffix |-> LookForSuffix(found.bySuffix, walk[next], input),
               byParent |-> LookForParent(found.byParent, walk[next], input)]
  /\ next' = next + 1
  /\ UNCHANGED <<task, input, walk>>

Next == LookAtCandidate \/ LookAtZone

Spec == Init /\ [][Next]_vars

-------------------------------------------------------------------------------
Done == next > Len(walk)
Asked == {[targets |-> walk[i]] : i \in DOMAIN walk}

\* Whatever order the sources list the candidates of a name in, the scan keeps
\* one with the same targets: nothing it drops could have come out first.
OrderDoesNotMatter ==
  (task = "candidates" /\ Done) =>
    /\ [targets |-> walk[found]] \in ResolveCreate(Asked)
    /\ \A r \in ResolveCreate(Asked) : Sorted(r.targets) = Sorted(walk[found])

Above == {z \in ToSet(walk) : z # <<>> /\ IsBelowOrAt(input, z)}

\* In whatever order the map of zones is walked, a name falls to the nearest
\* zone above it.  The provider in memory agrees with that unless a zone's name
\* ends within a label of the name, which it takes for a zone above it too.
NearestZone ==
  (task = "zones" /\ Done /\ Above # {}) =>
    LET nearest == CHOOSE z \in Above : \A y \in Above : Len(y) <= Len(z)
    IN  /\ found.byParent = <<nearest>>
        /\ (\A z \in ToSet(walk) : IsSuffix(z, input) => z \in Above \cup {<<>>})
             => found.bySuffix = <<nearest>>

\* Filters go by labels, whatever is compared character by character: a name is
\* admitted if it is below or at an included domain, strictly below one that is
\* written with a dot in front, and not so with an excluded one.
Covers(filter, name) ==
  IF filter[1] = "."
  THEN IsBelowOrAt(Stripped(name), Tail(filter)) /\ Stripped(name) # Tail(filter)
  ELSE IsBelowOrAt(Stripped(name), filter)

FiltersByLabel ==
  (task = "filter" /\ input.regex.text = "" /\ input.regexExclusion.text = "") =>
    \A name \in LookedUp :
      Match(input, name) <=>
        /\ input.filters = {} \/ \E f \in input.filters : Covers(f, name)
        /\ \A f \in input.exclude : ~Covers(f, name)

\* A filter admits the same names before and after the handshake.
SurvivesHandshake ==
  task = "filter" =>
    \A name \in LookedUp :
      Match(UnmarshalJSON(MarshalJSON(input)), name) = Match(input, name)

\* The reverse zone of a block is above the reverse names of the addresses in
\* the block and of no others, and that of an address is its name.  There are
\* two exceptions, in which the zone is above the names of the block but may be
\* above others: a block smaller than the zones that bytes make is named in the
\* zone of the byte (RFC 2317), and of a block written with a mapped address the
\* code counts half bytes off a name made of bytes.
ReverseZoneIsTheBlock ==
  (task = "block" /\ found # NoZone) =>
    LET network == Cidr(input[1], input[2])[1]
        bits    == Cidr(input[1], input[2])[2]
        Within(a)      == InBlock(a, network, bits)
        Under(a, zone) == IsSuffix(zone, ReverseAddr(a))
    IN  CASE Classless(network, bits) -> \A a \in Addresses : Within(a) => Under(a, Tail(found))
          [] Mapped(network)          -> \A a \in Addresses : Within(a) => Under(a, found)
          [] OTHER                    -> \A a \in Addresses : Under(a, found) <=> Within(a)
=============================================================================
