------------------------------- MODULE MCScans -------------------------------
(***************************************************************************)
(* Instances of Scans for TLC.                                             *)
(***************************************************************************)
EXTENDS Scans

MCLists == {<<>>} \cup [1 .. 1 -> Targets] \cup [1 .. 2 -> Targets]
MCCanonical == [n \in Names |-> n]

\* Three addresses and a host name, in this order.
MCRank == [t \in Targets |-> t]
MCAddress == [t \in Targets |-> IF t = 4 THEN 0 ELSE t]

\* Names of up to five characters, with capitals, empty labels and all.
MCLowerCase == [c \in {"a", "b", "A", "."} |-> IF c = "A" THEN "a" ELSE c]
MCLookedUp == UNION {[1 .. n -> {"a", "A", "."}] : n \in 0 .. 4}
                \cup UNION {[1 .. n -> {"a", "b", "."}] : n \in 1 .. 5}
MCZoneNames == {<<>>, <<"a">>, <<"a", ".", "a">>, <<"b", ".", "a">>}

\* Filters as they are written, which may end in a dot or start with one.
Written == {<<"a">>, <<"a", ".">>, <<".", "a">>, <<"b", ".", "A">>, <<".">>, <<"a", ".", "b", ".">>}
Expressions == {None, [text |-> "", matches |-> MCLookedUp],
                [text |-> "^a", matches |-> {n \in MCLookedUp : n # <<>> /\ n[1] = "a"}],
                [text |-> "b", matches |-> {n \in MCLookedUp : \E i \in DOMAIN n : n[i] = "b"}]}
MCDomainFilters ==
  {NewDomainFilterWithExclusions(f, x) : f \in SUBSET Written, x \in {{}, {<<"a">>}, {<<".", "a">>}}}
    \cup {NewRegexDomainFilter(r, x) : r \in Expressions, x \in Expressions}

\* IPv4 addresses at the borders of blocks, some of them written as IPv6 ones as
\* well, and IPv6 ones with few bytes set, among them the block around those.
Zeros(n) == [i \in 1 .. n |-> 0]
MCAddresses ==
  {<<10, 0>> \o t : t \in [1 .. 2 -> {0, 1, 127, 128, 130, 255}]}
    \cup {MappedPrefix \o t : t \in {<<0, 0, 0, 0>>, <<10, 0, 0, 0>>, <<10, 0, 127, 128>>, <<10, 0, 1, 0>>}}
    \cup {<<32, 1, b>> \o Zeros(12) \o <<c>> : b \in {0, 16, 24, 31}, c \in {0, 1, 16}}
    \cup {Zeros(16), <<0, 1>> \o Zeros(14)}
=============================================================================
