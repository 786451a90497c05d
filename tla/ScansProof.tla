----------------------------- MODULE ScansProof ------------------------------
(***************************************************************************)
(* Proofs about Scans: in whatever order lists and maps are walked, the    *)
(* loops come to the same end, for lists, names and zones of any number    *)
(* and length; a filter survives its handshake; the comparisons of strings *)
(* in zones and filters come to what labels say; and the reverse zone of a *)
(* block of addresses is the zone of its addresses.                        *)
(***************************************************************************)
EXTENDS Scans, RecordLemmas, FiniteSetTheorems, SequenceTheorems

(***************************************************************************)
(* The order of target lists.                                              *)
(***************************************************************************)
LEMMA ListType ==
  ASSUME NEW t \in TargetLists
  PROVE  t \in Seq(Targets) /\ Len(t) \in Nat /\ DOMAIN t = 1 .. Len(t)
<1>1. t \in Seq(Targets)
  BY EndpointsAssumption
<1>2. QED
  BY <1>1

\* What is known of a place at which two lists differ for the first time.
LEMMA FirstDifference ==
  ASSUME NEW t \in TargetLists, NEW o \in TargetLists, Len(t) = Len(o), NEW i \in Diff(t, o)
  PROVE  /\ i \in 1 .. Len(t) /\ i \in Nat
         /\ Sorted(t)[i] \in Targets /\ Sorted(o)[i] \in Targets
         /\ Rank[Sorted(t)[i]] \in Nat /\ Rank[Sorted(o)[i]] \in Nat
         /\ \A j \in 1 .. Len(t) : j < i => Sorted(t)[j] = Sorted(o)[j]
<1>1. t \in Seq(Targets) /\ i \in DOMAIN t /\ \A j \in 1 .. i - 1 : Sorted(t)[j] = Sorted(o)[j]
  BY EndpointsAssumption DEF Diff
<1>2. i \in 1 .. Len(t) /\ i \in Nat /\ Len(t) \in Nat
  BY <1>1
<1>3. /\ Sorted(t) \in Seq(Targets) /\ Len(Sorted(t)) = Len(t)
      /\ Sorted(o) \in Seq(Targets) /\ Len(Sorted(o)) = Len(t)
  BY EndpointsAssumption, SortedOnce
<1>4. Sorted(t)[i] \in Targets /\ Sorted(o)[i] \in Targets
  BY <1>2, <1>3
<1>5. ASSUME NEW j \in 1 .. Len(t), j < i PROVE j \in 1 .. i - 1
  BY <1>2, <1>5
<1>6. QED
  BY <1>1, <1>2, <1>4, <1>5, EndpointsAssumption

\* Lists that are not the same once sorted differ somewhere for the first time.
LEMMA Differ ==
  ASSUME NEW t \in TargetLists, NEW o \in TargetLists, Len(t) = Len(o), Sorted(t) # Sorted(o)
  PROVE  Diff(t, o) # {}
<1> DEFINE s == Sorted(t)
           u == Sorted(o)
           T == {i \in DOMAIN t : s[i] # u[i]}
<1>1. s \in Seq(Targets) /\ u \in Seq(Targets) /\ t \in Seq(Targets)
  BY EndpointsAssumption
<1>2. Len(s) = Len(t) /\ Len(u) = Len(t)
  BY SortedOnce
<1>3. T # {} /\ T \in SUBSET Nat
  <2> HIDE DEF s, u
  <2>1. s # u
    BY DEF s, u
  <2>2. QED
    BY <1>1, <1>2, <2>1
<1>4. \E m \in T : \A k \in T : m <= k
  <2> HIDE DEF T
  <2>1. QED
    BY <1>3, LeastNumber
<1>5. PICK m \in T : \A k \in T : m <= k
  BY <1>4
<1>6. \A j \in 1 .. m - 1 : s[j] = u[j]
  <2>1. m \in DOMAIN t /\ m \in 1 .. Len(t)
    BY <1>1, <1>5
  <2> HIDE DEF s, u
  <2>2. QED
    BY <1>1, <1>5, <2>1
<1>7. m \in Diff(t, o)
  BY <1>5, <1>6 DEF Diff
<1>8. QED
  BY <1>7

\* No target list is less than itself.
LEMMA NotLessItself ==
  ASSUME NEW t \in TargetLists
  PROVE  ~IsLess(t, t)
<1>1. Len(t) \in Nat
  BY ListType
<1>2. Diff(t, t) = {}
  BY DEF Diff
<1>3. QED
  BY <1>1, <1>2 DEF IsLess

\* The first differences of two pairs of lists decide about the third pair.
LEMMA LessTransitive ==
  ASSUME NEW a \in TargetLists, NEW b \in TargetLists, NEW c \in TargetLists,
         IsLess(a, b), IsLess(b, c)
  PROVE  IsLess(a, c)
<1>1. /\ Len(a) \in Nat /\ Len(b) \in Nat /\ Len(c) \in Nat
      /\ a \in Seq(Targets)
  BY ListType
<1>2. CASE Len(a) < Len(b) \/ Len(b) < Len(c)
  BY <1>1, <1>2 DEF IsLess
<1>3. CASE ~(Len(a) < Len(b) \/ Len(b) < Len(c))
  <2>1. Len(a) = Len(b) /\ Len(b) = Len(c)
    BY <1>3 DEF IsLess
  <2>2. PICK i \in Diff(a, b) : Rank[Sorted(a)[i]] < Rank[Sorted(b)[i]]
    BY <1>3 DEF IsLess
  <2>3. PICK j \in Diff(b, c) : Rank[Sorted(b)[j]] < Rank[Sorted(c)[j]]
    BY <1>3 DEF IsLess
  <2>4. /\ i \in 1 .. Len(a) /\ i \in Nat
        /\ Rank[Sorted(a)[i]] \in Nat /\ Rank[Sorted(b)[i]] \in Nat
        /\ \A k \in 1 .. Len(a) : k < i => Sorted(a)[k] = Sorted(b)[k]
    BY <2>1, FirstDifference
  <2>5. /\ j \in 1 .. Len(a) /\ j \in Nat
        /\ Rank[Sorted(b)[j]] \in Nat /\ Rank[Sorted(c)[j]] \in Nat
        /\ \A k \in 1 .. Len(a) : k < j => Sorted(b)[k] = Sorted(c)[k]
    BY <2>1, FirstDifference
  <2>6. \E m \in 1 .. Len(a) :
          /\ \A k \in 1 .. Len(a) : k < m => Sorted(a)[k] = Sorted(c)[k]
          /\ Rank[Sorted(a)[m]] < Rank[Sorted(c)[m]]
    <3>1. CASE i < j
      <4>1. Sorted(b)[i] = Sorted(c)[i]
        BY <2>4, <2>5, <3>1
      <4>2. \A k \in 1 .. Len(a) : k < i => Sorted(a)[k] = Sorted(c)[k]
        <5>1. ASSUME NEW k \in 1 .. Len(a), k < i PROVE k < j
          BY <2>4, <2>5, <3>1, <5>1
        <5>2. QED
          BY <2>4, <2>5, <5>1
      <4>3. QED
        BY <2>2, <2>4, <4>1, <4>2
    <3>2. CASE j < i
      <4>1. Sorted(a)[j] = Sorted(b)[j]
        BY <2>4, <2>5, <3>2
      <4>2. \A k \in 1 .. Len(a) : k < j => Sorted(a)[k] = Sorted(c)[k]
        <5>1. ASSUME NEW k \in 1 .. Len(a), k < j PROVE k < i
          BY <2>4, <2>5, <3>2, <5>1
        <5>2. QED
          BY <2>4, <2>5, <5>1
      <4>3. QED
        BY <2>3, <2>5, <4>1, <4>2
    <3>3. CASE i = j
      <4>1. \A x, y, z \in Nat : x < y /\ y < z => x < z
        OBVIOUS
      <4>2. Rank[Sorted(a)[i]] < Rank[Sorted(c)[i]]
        BY <2>2, <2>3, <2>4, <2>5, <3>3, <4>1
      <4>3. \A k \in 1 .. Len(a) : k < i => Sorted(a)[k] = Sorted(c)[k]
        BY <2>4, <2>5, <3>3
      <4>4. QED
        BY <2>4, <4>2, <4>3
    <3>4. QED
      BY <2>4, <2>5, <3>1, <3>2, <3>3
  <2>7. PICK m \in 1 .. Len(a) :
          /\ \A k \in 1 .. Len(a) : k < m => Sorted(a)[k] = Sorted(c)[k]
          /\ Rank[Sorted(a)[m]] < Rank[Sorted(c)[m]]
    BY <2>6
  <2>8. m \in Diff(a, c)
    <3>1. m \in DOMAIN a
      BY <1>1
    <3>2. /\ Rank[Sorted(a)[m]] \in Nat /\ Sorted(a)[m] # Sorted(c)[m]
      <4>1. Sorted(a) \in Seq(Targets) /\ Len(Sorted(a)) = Len(a)
        BY EndpointsAssumption, SortedOnce
      <4>2. Sorted(a)[m] \in Targets
        BY <4>1
      <4>3. Rank[Sorted(a)[m]] \in Nat
        BY <4>2, EndpointsAssumption
      <4>4. QED
        BY <2>7, <4>3
    <3>3. ASSUME NEW k \in 1 .. m - 1 PROVE k \in 1 .. Len(a) /\ k < m
      BY <1>1, <3>3
    <3>4. QED
      BY <2>7, <3>1, <3>2, <3>3 DEF Diff
  <2>9. QED
    BY <2>1, <2>7, <2>8 DEF IsLess
<1>4. QED
  BY <1>2, <1>3

\* No two targets have one place in the order: no address has two spellings.
OneRankPerTarget == \A s, t \in Targets : Rank[s] = Rank[t] => s = t

\* Lists of which none comes before the other are the same once sorted.
LEMMA LessTotal ==
  ASSUME OneRankPerTarget, NEW t \in TargetLists, NEW o \in TargetLists,
         ~IsLess(t, o), ~IsLess(o, t)
  PROVE  Sorted(t) = Sorted(o)
<1>1. /\ Len(t) \in Nat /\ Len(o) \in Nat /\ t \in Seq(Targets) /\ o \in Seq(Targets)
  BY ListType
<1>2. Len(t) = Len(o)
  BY <1>1 DEF IsLess
<1>3. SUFFICES ASSUME Sorted(t) # Sorted(o) PROVE FALSE
  OBVIOUS
<1>4. PICK i \in Diff(t, o) : TRUE
  BY <1>2, <1>3, Differ
<1>5. /\ Sorted(t)[i] \in Targets /\ Sorted(o)[i] \in Targets
      /\ Rank[Sorted(t)[i]] \in Nat /\ Rank[Sorted(o)[i]] \in Nat
  BY <1>2, FirstDifference
<1>6. Sorted(t)[i] # Sorted(o)[i]
  BY DEF Diff
<1>7. i \in Diff(o, t)
  <2>1. DOMAIN t = DOMAIN o
    BY <1>1, <1>2
  <2>2. QED
    BY <1>4, <2>1 DEF Diff
<1>8. Rank[Sorted(t)[i]] # Rank[Sorted(o)[i]]
  BY <1>5, <1>6 DEF OneRankPerTarget
<1>9. QED
  BY <1>2, <1>4, <1>5, <1>7, <1>8 DEF IsLess
(***************************************************************************)
(* Suffixes.                                                               *)
(***************************************************************************)
LEMMA Reversed ==
  ASSUME NEW S, NEW s \in Seq(S)
  PROVE  /\ Reverse(s) \in Seq(S) /\ Len(Reverse(s)) = Len(s)
         /\ \A i \in 1 .. Len(s) : Reverse(s)[i] = s[Len(s) - i + 1]
BY DEF Reverse

\* A suffix agrees with the end of a name.
LEMMA SuffixAgrees ==
  ASSUME NEW S, NEW s \in Seq(S), NEW t \in Seq(S)
  PROVE  IsSuffix(s, t) <=>
           /\ Len(s) <= Len(t)
           /\ \A i \in 1 .. Len(s) : s[i] = t[Len(t) - Len(s) + i]
<1> DEFINE n == Len(s)
           m == Len(t)
           p == SubSeq(Reverse(s), 1, n)
           q == SubSeq(Reverse(t), 1, n)
<1>1. n \in Nat /\ m \in Nat
  OBVIOUS
<1>2. Reverse(s) \in Seq(S) /\ Len(Reverse(s)) = n /\ Reverse(t) \in Seq(S) /\ Len(Reverse(t)) = m
  BY Reversed
<1>3. SUFFICES ASSUME n <= m
               PROVE  p = q <=> \A i \in 1 .. n : s[i] = t[m - n + i]
  BY <1>2 DEF IsSuffix, IsPrefix
<1>4. /\ p \in Seq(S) /\ Len(p) = n /\ \A i \in 1 .. n : p[i] = Reverse(s)[i]
      /\ q \in Seq(S) /\ Len(q) = n /\ \A i \in 1 .. n : q[i] = Reverse(t)[i]
  BY <1>1, <1>2, <1>3
<1>5. p = q <=> \A i \in 1 .. n : p[i] = q[i]
  <2> HIDE DEF p, q
  <2>1. QED
    BY <1>1, <1>4
<1>6. ASSUME NEW i \in 1 .. n
      PROVE  /\ p[i] = s[n - i + 1] /\ q[i] = t[m - i + 1] /\ n - i + 1 \in 1 .. n
             /\ p[n - i + 1] = s[i] /\ q[n - i + 1] = t[m - n + i]
  <2>1. i \in 1 .. m /\ n - i + 1 \in 1 .. n /\ n - i + 1 \in 1 .. m
    BY <1>1, <1>3
  <2>2. Reverse(s)[i] = s[n - i + 1] /\ Reverse(t)[i] = t[m - i + 1]
    BY <2>1, Reversed
  <2>3. Reverse(s)[n - i + 1] = s[n - (n - i + 1) + 1] /\ Reverse(t)[n - i + 1] = t[m - (n - i + 1) + 1]
    BY <2>1, Reversed
  <2>4. n - (n - i + 1) + 1 = i /\ m - (n - i + 1) + 1 = m - n + i
    BY <1>1
  <2>5. p[i] = Reverse(s)[i] /\ q[i] = Reverse(t)[i]
    BY <1>4
  <2>6. p[n - i + 1] = Reverse(s)[n - i + 1] /\ q[n - i + 1] = Reverse(t)[n - i + 1]
    BY <1>4, <2>1
  <2> HIDE DEF p, q, n, m
  <2>7. QED
    BY <2>1, <2>2, <2>3, <2>4, <2>5, <2>6
<1> HIDE DEF p, q, n, m
<1>7. ASSUME p = q, NEW i \in 1 .. n PROVE s[i] = t[m - n + i]
  BY <1>6, <1>7
<1>8. ASSUME \A i \in 1 .. n : s[i] = t[m - n + i], NEW i \in 1 .. n PROVE p[i] = q[i]
  <2>1. s[n - i + 1] = t[m - n + (n - i + 1)]
    BY <1>6, <1>8
  <2>2. m - n + (n - i + 1) = m - i + 1
    BY <1>1
  <2>3. QED
    BY <1>6, <2>1, <2>2
<1>9. QED
  BY <1>5, <1>7, <1>8

\* Two suffixes of one length are one.
LEMMA OneSuffix ==
  ASSUME NEW S, NEW r \in Seq(S), NEW s \in Seq(S), NEW t \in Seq(S),
         IsSuffix(r, t), IsSuffix(s, t), Len(r) = Len(s)
  PROVE  r = s
<1>1. \A i \in 1 .. Len(r) : r[i] = t[Len(t) - Len(r) + i]
  BY SuffixAgrees
<1>2. \A i \in 1 .. Len(s) : s[i] = t[Len(t) - Len(s) + i]
  BY SuffixAgrees
<1>3. QED
  BY <1>1, <1>2

\* What the search of provider/zonefinder.go takes for a zone of the name.
IsParent(zone, name) == name = zone \/ IsSuffix(<<".">> \o zone, name)

\* The names of parents are suffixes (zonefinder.go).
LEMMA ParentIsSuffix ==
  ASSUME NEW z \in Seq(DOMAIN LowerCase), NEW n \in Seq(DOMAIN LowerCase), IsParent(z, n)
  PROVE  IsSuffix(z, n)
<1> DEFINE C == DOMAIN LowerCase
           d == <<".">> \o z
<1>1. d \in Seq(C) /\ Len(d) = Len(z) + 1 /\ \A i \in 1 .. Len(z) : d[i + 1] = z[i]
  BY DomainNamesAssumption, SMTT(30)
<1>2. CASE n = z
  <2>1. \A i \in 1 .. Len(z) : z[i] = n[Len(n) - Len(z) + i]
    BY <1>2
  <2>2. QED
    BY <1>2, <2>1, SuffixAgrees
<1>3. CASE IsSuffix(d, n)
  <2>1. /\ Len(d) <= Len(n)
        /\ \A i \in 1 .. Len(d) : d[i] = n[Len(n) - Len(d) + i]
    BY <1>1, <1>3, SuffixAgrees
  <2> HIDE DEF d
  <2>2. Len(z) \in Nat /\ Len(n) \in Nat /\ Len(d) = Len(z) + 1
    BY <1>1
  <2>3. \A k, l \in Nat : \A i \in 1 .. k :
          i + 1 \in 1 .. k + 1 /\ l - (k + 1) + (i + 1) = l - k + i
    OBVIOUS
  <2>4. \A k, l \in Nat : k + 1 <= l => k <= l
    OBVIOUS
  <2>5. ASSUME NEW i \in 1 .. Len(z) PROVE z[i] = n[Len(n) - Len(z) + i]
    <3>1. i + 1 \in 1 .. Len(d) /\ Len(n) - Len(d) + (i + 1) = Len(n) - Len(z) + i
      BY <2>2, <2>3, Zenon
    <3>2. QED
      BY <1>1, <2>1, <3>1
  <2>6. Len(z) <= Len(n)
    BY <2>1, <2>2, <2>4, Zenon
  <2>7. QED
    BY <2>5, <2>6, SuffixAgrees
<1>4. QED
  BY <1>2, <1>3 DEF IsParent

(***************************************************************************)
(* The loops.                                                              *)
(***************************************************************************)
\* Of the candidates looked at none comes before the one that is kept.
CandidateKept ==
  task = "candidates" =>
    /\ walk \in Seq(TargetLists) /\ walk # <<>>
    /\ next \in 1 .. Len(walk) + 1
    /\ next = 1 => found = 0
    /\ next > 1 => /\ found \in 1 .. next - 1
                   /\ \A j \in 1 .. next - 1 : ~IsLess(walk[j], walk[found])

\* Of the zones at the places I the longest one is kept.
Keeps(best, I) ==
  IF I = {} THEN best = <<>>
  ELSE \E i \in I : best = <<walk[i]>> /\ \A j \in I : Len(walk[j]) <= Len(walk[i])

BySuffix == {j \in 1 .. next - 1 : IsSuffix(walk[j], input)}
ByParent == {j \in 1 .. next - 1 : IsParent(walk[j], input)}

ZonesKept ==
  task = "zones" =>
    /\ walk \in Seq(ZoneNames) /\ input \in LookedUp
    /\ next \in 1 .. Len(walk) + 1
    /\ Keeps(found.bySuffix, BySuffix) /\ Keeps(found.byParent, ByParent)
    /\ DOMAIN found = {"bySuffix", "byParent"}

Inv == CandidateKept /\ ZonesKept

\* Before a loop nothing was looked at.
LEMMA InitInv == Init => Inv
<1> SUFFICES ASSUME Init PROVE Inv
  OBVIOUS
<1>1. next = 1
  BY DEF Init
<1>2. CandidateKept
  <2> SUFFICES ASSUME task = "candidates" PROVE CandidateKept
    BY DEF CandidateKept
  <2>1. found = 0 /\ \E n \in 1 .. MaxCandidates : walk \in [1 .. n -> TargetLists]
    BY DEF Init
  <2>2. PICK n \in 1 .. MaxCandidates : walk \in [1 .. n -> TargetLists]
    BY <2>1
  <2>3. n \in Nat /\ n > 0
    BY ScansAssumption
  <2>4. walk \in Seq(TargetLists) /\ Len(walk) = n
    BY <2>2, <2>3
  <2>5. QED
    BY <1>1, <2>1, <2>3, <2>4 DEF CandidateKept
<1>3. ZonesKept
  <2> SUFFICES ASSUME task = "zones" PROVE ZonesKept
    BY DEF ZonesKept
  <2>1. /\ input \in LookedUp /\ found = [bySuffix |-> <<>>, byParent |-> <<>>]
        /\ \E zones \in SUBSET ZoneNames : walk \in Walks(zones)
    BY DEF Init
  <2>2. PICK zones \in SUBSET ZoneNames : walk \in [1 .. Cardinality(zones) -> zones]
    BY <2>1 DEF Walks
  <2>3. Cardinality(zones) \in Nat
    BY FS_Subset, FS_CardinalityType, ScansAssumption
  <2>4. walk \in Seq(ZoneNames) /\ Len(walk) = Cardinality(zones)
    BY <2>2, <2>3
  <2>5. BySuffix = {} /\ ByParent = {}
    BY <1>1 DEF BySuffix, ByParent
  <2>6. QED
    BY <1>1, <2>1, <2>3, <2>4, <2>5 DEF ZonesKept, Keeps
<1>4. QED
  BY <1>2, <1>3 DEF Inv

\* The scan of candidates keeps what is the least so far (ResolveCreate).
LEMMA CandidateStep ==
  ASSUME Inv, LookAtCandidate
  PROVE  Inv'
<1>1. /\ task = "candidates" /\ next <= Len(walk) /\ next' = next + 1
      /\ found' = IF found = 0 \/ IsLess(walk[next], walk[found]) THEN next ELSE found
      /\ UNCHANGED <<task, input, walk>>
  BY DEF LookAtCandidate
<1>2. /\ walk \in Seq(TargetLists) /\ next \in 1 .. Len(walk) /\ next \in Nat /\ Len(walk) \in Nat
      /\ \A j \in 1 .. Len(walk) : walk[j] \in TargetLists
  BY <1>1 DEF Inv, CandidateKept
<1>3. next' \in 1 .. Len(walk) + 1 /\ next' > 1 /\ next' - 1 = next
  BY <1>1, <1>2
<1>4. /\ found' \in 1 .. next
      /\ \A j \in 1 .. next : ~IsLess(walk[j], walk[found'])
  <2>1. CASE next = 1
    <3>1. found' = 1
      BY <1>1, <2>1 DEF Inv, CandidateKept
    <3>2. QED
      BY <1>2, <2>1, <3>1, NotLessItself
  <2>2. CASE next # 1
    <3>1. /\ found \in 1 .. next - 1 /\ found # 0
          /\ \A j \in 1 .. next - 1 : ~IsLess(walk[j], walk[found])
      BY <1>1, <1>2, <2>2 DEF Inv, CandidateKept
    <3>2. found \in 1 .. Len(walk)
      BY <1>2, <3>1
    <3>3. ASSUME NEW j \in 1 .. next PROVE j \in 1 .. Len(walk) /\ (j \in 1 .. next - 1 \/ j = next)
      BY <1>2, <3>3
    <3>4. CASE IsLess(walk[next], walk[found])
      <4>1. found' = next
        BY <1>1, <3>4
      <4>2. ASSUME NEW j \in 1 .. next, IsLess(walk[j], walk[next]) PROVE FALSE
        <5>1. CASE j = next
          BY <1>2, <4>2, <5>1, NotLessItself
        <5>2. CASE j \in 1 .. next - 1
          <6>1. IsLess(walk[j], walk[found])
            BY <1>2, <3>2, <3>3, <3>4, <4>2, LessTransitive
          <6>2. QED
            BY <3>1, <5>2, <6>1
        <5>3. QED
          BY <3>3, <5>1, <5>2
      <4>3. QED
        BY <1>2, <4>1, <4>2
    <3>5. CASE ~IsLess(walk[next], walk[found])
      BY <1>1, <1>2, <3>1, <3>3, <3>5
    <3>6. QED
      BY <3>4, <3>5
  <2>3. QED
    BY <2>1, <2>2
<1>5. CandidateKept'
  BY <1>1, <1>2, <1>3, <1>4 DEF Inv, CandidateKept
<1>6. ZonesKept'
  BY <1>1 DEF ZonesKept
<1>7. QED
  BY <1>5, <1>6 DEF Inv
\* One more zone is looked at.
LEMMA KeepsMore ==
  ASSUME walk \in Seq(ZoneNames), NEW I \in SUBSET DOMAIN walk, NEW k \in DOMAIN walk,
         NEW best, Keeps(best, I), NEW new,
         \/ new = <<walk[k]>> /\ (best = <<>> \/ Len(best[1]) <= Len(walk[k]))
         \/ new = best /\ best # <<>> /\ Len(walk[k]) <= Len(best[1])
  PROVE  Keeps(new, I \cup {k})
<1>1. \A j \in DOMAIN walk : Len(walk[j]) \in Nat
  <2>1. \A j \in DOMAIN walk : walk[j] \in Seq(DOMAIN LowerCase)
    BY ScansAssumption
  <2>2. QED
    BY <2>1
<1>2. CASE I = {}
  BY <1>1, <1>2 DEF Keeps
<1>3. CASE I # {}
  <2>1. PICK i \in I : best = <<walk[i]>> /\ \A j \in I : Len(walk[j]) <= Len(walk[i])
    BY <1>3 DEF Keeps
  <2>2. best[1] = walk[i] /\ best # <<>>
    BY <2>1
  <2>3. CASE new = <<walk[k]>> /\ Len(walk[i]) <= Len(walk[k])
    <3>1. \A j \in I \cup {k} : Len(walk[j]) <= Len(walk[k])
      BY <1>1, <2>1, <2>3
    <3>2. QED
      BY <2>3, <3>1 DEF Keeps
  <2>4. CASE new = best /\ Len(walk[k]) <= Len(walk[i])
    BY <1>1, <2>1, <2>4 DEF Keeps
  <2>5. QED
    BY <2>2, <2>3, <2>4
<1>4. QED
  BY <1>2, <1>3

\* The walk through zones keeps what is the longest so far.
LEMMA ZoneStep ==
  ASSUME Inv, LookAtZone
  PROVE  Inv'
<1> DEFINE z == walk[next]
<1>1. /\ task = "zones" /\ next <= Len(walk) /\ next' = next + 1
      /\ found' = [bySuffix |-> LookForSuffix(found.bySuffix, z, input),
                   byParent |-> LookForParent(found.byParent, z, input)]
      /\ UNCHANGED <<task, input, walk>>
  BY DEF LookAtZone
<1>2. /\ walk \in Seq(ZoneNames) /\ input \in LookedUp /\ next \in 1 .. Len(walk)
      /\ next \in Nat /\ Len(walk) \in Nat /\ next \in DOMAIN walk
      /\ Keeps(found.bySuffix, BySuffix) /\ Keeps(found.byParent, ByParent)
  BY <1>1 DEF Inv, ZonesKept
<1>3. /\ BySuffix \in SUBSET DOMAIN walk /\ ByParent \in SUBSET DOMAIN walk
      /\ z \in Seq(DOMAIN LowerCase) /\ Len(z) \in Nat
      /\ \A j \in DOMAIN walk : walk[j] \in Seq(DOMAIN LowerCase) /\ Len(walk[j]) \in Nat
  <2>1. 1 .. next - 1 \subseteq DOMAIN walk
    BY <1>2
  <2>2. \A j \in DOMAIN walk : walk[j] \in Seq(DOMAIN LowerCase)
    BY <1>2, ScansAssumption
  <2>3. QED
    BY <1>2, <2>1, <2>2 DEF BySuffix, ByParent
<1>4. next' \in 1 .. Len(walk) + 1 /\ 1 .. next' - 1 = (1 .. next - 1) \cup {next}
  BY <1>1, <1>2
<1>5. \A best, I : Keeps(best, I)' <=> Keeps(best', I')
  BY <1>1 DEF Keeps
<1>6. Keeps(found'.bySuffix, BySuffix')
  <2> DEFINE best == found.bySuffix
  <2>1. found'.bySuffix = LookForSuffix(best, z, input)
    BY <1>1
  <2>2. CASE ~IsSuffix(z, input)
    <3>1. BySuffix' = BySuffix
      BY <1>1, <1>4, <2>2 DEF BySuffix
    <3>2. found'.bySuffix = best
      BY <2>1, <2>2 DEF LookForSuffix
    <3>3. QED
      BY <1>2, <3>1, <3>2
  <2>3. CASE IsSuffix(z, input)
    <3>1. BySuffix' = BySuffix \cup {next}
      BY <1>1, <1>4, <2>3 DEF BySuffix
    <3>2. best = <<>> \/ \E i \in DOMAIN walk : best = <<walk[i]>>
      BY <1>2, <1>3 DEF Keeps
    <3>3. best # <<>> => Len(best[1]) \in Nat
      BY <1>3, <3>2
    <3>4. \/ found'.bySuffix = <<z>> /\ (best = <<>> \/ Len(best[1]) <= Len(z))
          \/ found'.bySuffix = best /\ best # <<>> /\ Len(z) <= Len(best[1])
      BY <1>3, <2>1, <2>3, <3>3 DEF LookForSuffix
    <3>5. QED
      BY <1>2, <1>3, <3>1, <3>4, KeepsMore
  <2>4. QED
    BY <2>2, <2>3
<1>7. Keeps(found'.byParent, ByParent')
  <2> DEFINE best == found.byParent
  <2>1. found'.byParent = LookForParent(best, z, input)
    BY <1>1
  <2>2. CASE ~IsParent(z, input)
    <3>1. ByParent' = ByParent
      BY <1>1, <1>4, <2>2 DEF ByParent
    <3>2. found'.byParent = best
      BY <2>1, <2>2 DEF LookForParent, IsParent
    <3>3. QED
      BY <1>2, <3>1, <3>2
  <2>3. CASE IsParent(z, input)
    <3>1. ByParent' = ByParent \cup {next}
      BY <1>1, <1>4, <2>3 DEF ByParent
    <3>2. best = <<>> \/ \E i \in DOMAIN walk : best = <<walk[i]>>
      BY <1>2, <1>3 DEF Keeps
    <3>3. best # <<>> => Len(best[1]) \in Nat
      BY <1>3, <3>2
    <3>4. best = <<<<>>>> => best # <<>> /\ Len(best[1]) = 0
      OBVIOUS
    <3>5. \/ found'.byParent = <<z>> /\ (best = <<>> \/ Len(best[1]) <= Len(z))
          \/ found'.byParent = best /\ best # <<>> /\ Len(z) <= Len(best[1])
      BY <1>3, <2>1, <2>3, <3>3, <3>4 DEF LookForParent, IsParent
    <3>6. QED
      BY <1>2, <1>3, <3>1, <3>5, KeepsMore
  <2>4. QED
    BY <2>2, <2>3
<1>8. ZonesKept'
  BY <1>1, <1>2, <1>4, <1>6, <1>7 DEF ZonesKept, Keeps
<1>9. CandidateKept'
  BY <1>1 DEF CandidateKept
<1>10. QED
  BY <1>8, <1>9 DEF Inv

\* What the loops have kept is the best of what they have looked at.
THEOREM ScansInv == Spec => []Inv
<1>1. ASSUME Inv, [Next]_vars PROVE Inv'
  <2>1. CASE UNCHANGED vars
    BY <1>1, <2>1 DEF vars, Inv, CandidateKept, ZonesKept, Keeps, BySuffix, ByParent
  <2>2. QED
    BY <1>1, <2>1, CandidateStep, ZoneStep DEF Next
<1>2. QED
  BY InitInv, <1>1, PTL DEF Spec

-------------------------------------------------------------------------------
\* In whatever order the candidates of a name are listed, the plan keeps one
\* with the same targets (ResolveCreate, conflict.go:38), if no two targets have
\* the same place in the order.
THEOREM AnyOrder == ASSUME OneRankPerTarget PROVE Spec => []OrderDoesNotMatter
<1>1. Inv => OrderDoesNotMatter
  <2> SUFFICES ASSUME Inv, task = "candidates", Done
               PROVE  /\ [targets |-> walk[found]] \in ResolveCreate(Asked)
                      /\ \A r \in ResolveCreate(Asked) : Sorted(r.targets) = Sorted(walk[found])
    BY DEF OrderDoesNotMatter
  <2>1. /\ walk \in Seq(TargetLists) /\ walk # <<>> /\ Len(walk) \in Nat
        /\ \A j \in DOMAIN walk : walk[j] \in TargetLists
    BY DEF Inv, CandidateKept
  <2>2. next = Len(walk) + 1 /\ next > 1 /\ 1 .. next - 1 = DOMAIN walk
    BY <2>1 DEF Inv, CandidateKept, Done
  <2>3. found \in DOMAIN walk /\ \A j \in DOMAIN walk : ~IsLess(walk[j], walk[found])
    BY <2>2 DEF Inv, CandidateKept
  <2>4. [targets |-> walk[found]] \in ResolveCreate(Asked)
    BY <2>3 DEF ResolveCreate, Asked
  <2>5. ASSUME NEW r \in ResolveCreate(Asked) PROVE Sorted(r.targets) = Sorted(walk[found])
    <3>1. PICK j \in DOMAIN walk : r = [targets |-> walk[j]]
      BY DEF ResolveCreate, Asked
    <3>2. ~IsLess(walk[found], walk[j])
      <4>1. [targets |-> walk[found]] \in Asked
        BY <2>3 DEF Asked
      <4>2. QED
        BY <3>1, <4>1 DEF ResolveCreate
    <3>3. QED
      BY <2>1, <2>3, <3>1, <3>2, LessTotal
  <2>6. QED
    BY <2>4, <2>5
<1>2. QED
  BY <1>1, ScansInv, PTL

\* The longest of some zones.
LongestOf(zones) ==
  IF zones = {} THEN <<>>
  ELSE <<CHOOSE z \in zones : \A y \in zones : Len(y) <= Len(z)>>

\* What both searches come to is a function of the set of zones.
LongestZones ==
  (task = "zones" /\ Done) =>
    /\ found.bySuffix = LongestOf({z \in ToSet(walk) : IsSuffix(z, input)})
    /\ found.byParent = LongestOf({z \in ToSet(walk) : IsParent(z, input)})

\* Of suffixes of one name only one is the longest.
LEMMA KeptIsLongest ==
  ASSUME NEW zones, NEW n \in Seq(DOMAIN LowerCase),
         \A z \in zones : z \in Seq(DOMAIN LowerCase) /\ IsSuffix(z, n),
         NEW m \in zones, \A y \in zones : Len(y) <= Len(m)
  PROVE  LongestOf(zones) = <<m>>
<1> DEFINE c == CHOOSE z \in zones : \A y \in zones : Len(y) <= Len(z)
<1>1. c \in zones /\ \A y \in zones : Len(y) <= Len(c)
  OBVIOUS
<1> HIDE DEF c
<1>2. Len(c) \in Nat /\ Len(m) \in Nat
  BY <1>1
<1>3. Len(c) = Len(m)
  <2>1. Len(c) <= Len(m) /\ Len(m) <= Len(c)
    BY <1>1
  <2>2. QED
    BY <1>2, <2>1
<1>4. c = m
  BY <1>1, <1>3, OneSuffix
<1>5. QED
  BY <1>4 DEF LongestOf, c

\* In whatever order the map of zones is walked, a name falls to the longest
\* zone that each search takes for one of its own (EndpointZoneID,
\* inmemory.go; FindZone, zonefinder.go).
THEOREM AnyWalk == Spec => []LongestZones
<1>1. Inv => LongestZones
  <2> SUFFICES ASSUME Inv, task = "zones", Done
               PROVE  /\ found.bySuffix = LongestOf({z \in ToSet(walk) : IsSuffix(z, input)})
                      /\ found.byParent = LongestOf({z \in ToSet(walk) : IsParent(z, input)})
    BY DEF LongestZones
  <2>1. /\ walk \in Seq(ZoneNames) /\ Len(walk) \in Nat
        /\ input \in Seq(DOMAIN LowerCase)
        /\ \A j \in DOMAIN walk : walk[j] \in Seq(DOMAIN LowerCase)
    BY ScansAssumption DEF Inv, ZonesKept
  <2>2. 1 .. next - 1 = DOMAIN walk
    BY <2>1 DEF Inv, ZonesKept, Done
  <2>3. ASSUME NEW best, NEW I \in SUBSET DOMAIN walk, Keeps(best, I),
               \A i \in I : IsSuffix(walk[i], input)
        PROVE  best = LongestOf({walk[i] : i \in I})
    <3>1. CASE I = {}
      BY <2>3, <3>1 DEF Keeps, LongestOf
    <3>2. CASE I # {}
      <4>1. PICK i \in I : best = <<walk[i]>> /\ \A j \in I : Len(walk[j]) <= Len(walk[i])
        BY <2>3, <3>2 DEF Keeps
      <4>2. LongestOf({walk[j] : j \in I}) = <<walk[i]>>
        <5> DEFINE Z == {walk[j] : j \in I}
        <5>1. /\ \A z \in Z : z \in Seq(DOMAIN LowerCase) /\ IsSuffix(z, input)
              /\ walk[i] \in Z /\ \A y \in Z : Len(y) <= Len(walk[i])
          BY <2>1, <2>3, <4>1
        <5> HIDE DEF Z
        <5>2. LongestOf(Z) = <<walk[i]>>
          BY <2>1, <5>1, KeptIsLongest
        <5>3. QED
          BY <5>2 DEF Z
      <4>3. QED
        BY <4>1, <4>2
    <3>3. QED
      BY <3>1, <3>2
  <2>4. found.bySuffix = LongestOf({walk[i] : i \in BySuffix})
    BY <2>2, <2>3 DEF Inv, ZonesKept, BySuffix
  <2>5. found.byParent = LongestOf({walk[i] : i \in ByParent})
    <3>1. \A i \in ByParent : IsSuffix(walk[i], input)
      BY <2>1, <2>2, ParentIsSuffix DEF ByParent
    <3>2. QED
      BY <2>2, <2>3, <3>1 DEF Inv, ZonesKept, ByParent
  <2>6. /\ {walk[i] : i \in BySuffix} = {z \in ToSet(walk) : IsSuffix(z, input)}
        /\ {walk[i] : i \in ByParent} = {z \in ToSet(walk) : IsParent(z, input)}
    BY <2>2 DEF BySuffix, ByParent, ToSet
  <2>7. QED
    BY <2>4, <2>5, <2>6
<1>2. QED
  BY <1>1, ScansInv, PTL
(***************************************************************************)
(* The handshake.                                                          *)
(***************************************************************************)
Characters == DOMAIN LowerCase

\* A domain as it is written ends in one dot at most.
Domains == {d \in Seq(Characters) : Len(d) > 1 => ~(d[Len(d)] = "." /\ d[Len(d) - 1] = ".")}

\* Lower case leaves the length, and the second time everything.
LEMMA Lowered ==
  ASSUME NEW d \in Seq(Characters)
  PROVE  /\ ToLower(d) \in Seq(Characters) /\ Len(ToLower(d)) = Len(d)
         /\ \A i \in 1 .. Len(d) : ToLower(d)[i] = LowerCase[d[i]]
         /\ ToLower(ToLower(d)) = ToLower(d)
<1> DEFINE l == ToLower(d)
<1>1. l = [i \in 1 .. Len(d) |-> LowerCase[d[i]]] /\ Len(d) \in Nat
  BY DEF ToLower
<1>2. \A i \in 1 .. Len(d) : d[i] \in Characters /\ LowerCase[d[i]] \in Characters
  BY DomainNamesAssumption DEF Characters
<1>3. l \in Seq(Characters) /\ Len(l) = Len(d) /\ DOMAIN l = 1 .. Len(d)
  BY <1>1, <1>2
<1>4. \A i \in 1 .. Len(d) : LowerCase[l[i]] = l[i]
  BY <1>1, <1>2, DomainNamesAssumption DEF Characters
<1>5. ToLower(l) = l
  <2>1. ToLower(l) = [i \in 1 .. Len(d) |-> LowerCase[l[i]]]
    BY <1>3 DEF ToLower
  <2>2. QED
    BY <1>1, <1>4, <2>1
<1>6. QED
  BY <1>1, <1>3, <1>5

\* What is stripped once is stripped for good.
LEMMA StrippedOnce ==
  ASSUME NEW d \in Domains
  PROVE  Stripped(Stripped(d)) = Stripped(d)
<1> DEFINE t == TrimDot(d)
           s == Stripped(d)
<1>1. d \in Seq(Characters) /\ Len(d) \in Nat
  BY DEF Domains
<1>2. t \in Seq(Characters) /\ (t # <<>> => t[Len(t)] # ".")
  <2>1. CASE d = <<>>
    BY <2>1 DEF TrimDot
  <2>2. CASE d # <<>> /\ d[Len(d)] # "."
    BY <1>1, <2>2 DEF TrimDot, Last
  <2>3. CASE d # <<>> /\ d[Len(d)] = "."
    <3>1. t = SubSeq(d, 1, Len(d) - 1)
      BY <2>3 DEF TrimDot, Last, Front
    <3>2. Len(d) - 1 \in Nat
      BY <1>1, <2>3
    <3>3. /\ t \in Seq(Characters) /\ Len(t) = Len(d) - 1
          /\ \A i \in 1 .. Len(d) - 1 : t[i] = d[i]
      <4>1. \A k \in 0 .. Len(d) : /\ SubSeq(d, 1, k) \in Seq(Characters)
                                   /\ Len(SubSeq(d, 1, k)) = k
                                   /\ \A i \in 1 .. k : SubSeq(d, 1, k)[i] = d[i]
        BY <1>1
      <4>2. Len(d) - 1 \in 0 .. Len(d)
        BY <1>1, <3>2
      <4>3. QED
        BY <3>1, <4>1, <4>2, Zenon
    <3>4. CASE Len(d) = 1
      <4>1. Len(t) = 0
        BY <3>3, <3>4
      <4>2. t = <<>>
        BY <3>3, <4>1
      <4>3. QED
        BY <3>3, <4>2
    <3>5. CASE Len(d) # 1
      <4>1. Len(d) > 1 /\ Len(d) - 1 \in 1 .. Len(d) - 1
        <5>1. \A k \in Nat : k - 1 \in Nat /\ k # 1 => k > 1 /\ k - 1 \in 1 .. k - 1
          OBVIOUS
        <5>2. QED
          BY <1>1, <3>2, <3>5, <5>1, Zenon
      <4>2. d[Len(d) - 1] # "."
        BY <2>3, <4>1 DEF Domains
      <4>3. QED
        BY <3>3, <4>1, <4>2
    <3>6. QED
      BY <3>4, <3>5
  <2>4. QED
    BY <2>1, <2>2, <2>3
<1> HIDE DEF t
<1>3. s = ToLower(t)
  BY DEF t, Stripped
<1>4. /\ s \in Seq(Characters) /\ Len(s) = Len(t) /\ ToLower(s) = s
      /\ \A i \in 1 .. Len(t) : s[i] = LowerCase[t[i]]
  BY <1>2, <1>3, Lowered
<1> HIDE DEF s
<1>5. s # <<>> => s[Len(s)] # "."
  <2> SUFFICES ASSUME s # <<>> PROVE s[Len(s)] # "."
    OBVIOUS
  <2>1. Len(t) \in 1 .. Len(t) /\ t # <<>>
    BY <1>2, <1>4
  <2>2. t[Len(t)] \in Characters /\ t[Len(t)] # "."
    BY <1>2, <2>1
  <2>3. QED
    BY <1>4, <2>1, <2>2, DomainNamesAssumption DEF Characters
<1>6. TrimDot(s) = s
  BY <1>5 DEF TrimDot, Last
<1>7. Stripped(s) = s
  BY <1>4, <1>6 DEF Stripped
<1>8. QED
  BY <1>7 DEF s

\* Preparing filters twice is preparing them once.
LEMMA PreparedOnce ==
  ASSUME NEW F \in SUBSET Domains
  PROVE  PrepareFilters(PrepareFilters(F)) = PrepareFilters(F)
<1> DEFINE P == PrepareFilters(F)
<1>1. \A f \in P : f # <<>> /\ Stripped(f) = f
  BY StrippedOnce DEF PrepareFilters
<1> HIDE DEF P
<1>2. {Stripped(f) : f \in P} \ {<<>>} = P
  BY <1>1
<1>3. QED
  BY <1>2 DEF P, PrepareFilters

\* The filters of a provider come from the two constructors.
Constructed ==
  \A df \in DomainFilters :
    \/ \E f, x \in SUBSET Domains : df = NewDomainFilterWithExclusions(f, x)
    \/ \E r, x : df = NewRegexDomainFilter(r, x)

\* A filter of lists comes out of the handshake as it went in.
LEMMA ListsSurvive ==
  ASSUME NEW f \in SUBSET Domains, NEW x \in SUBSET Domains
  PROVE  UnmarshalJSON(MarshalJSON(NewDomainFilterWithExclusions(f, x)))
           = NewDomainFilterWithExclusions(f, x)
<1> DEFINE df == NewDomainFilterWithExclusions(f, x)
           json == MarshalJSON(df)
<1>1. /\ df.filters = PrepareFilters(f) /\ df.exclude = PrepareFilters(x)
      /\ df.regex = None /\ df.regexExclusion = None
  BY DEF NewDomainFilterWithExclusions
<1>2. /\ json.include = PrepareFilters(f) /\ json.exclude = PrepareFilters(x)
      /\ json.regexInclude = None /\ json.regexExclude = None
  BY <1>1 DEF MarshalJSON
<1> HIDE DEF json
<1>3. UnmarshalJSON(json) = NewDomainFilterWithExclusions(PrepareFilters(f), PrepareFilters(x))
  <2>1. json.regexInclude.text = "" /\ json.regexExclude.text = ""
    <3>1. None.text = ""
      BY DEF None
    <3>2. QED
      BY <1>2, <3>1, Zenon
  <2>2. UnmarshalJSON(json) = NewDomainFilterWithExclusions(json.include, json.exclude)
    BY <2>1 DEF UnmarshalJSON
  <2>3. QED
    BY <1>2, <2>2
<1>4. QED
  BY <1>3, PreparedOnce DEF json, NewDomainFilterWithExclusions

\* One of expressions does, or matches all names before and after.
LEMMA ExpressionsSurvive ==
  ASSUME NEW r, NEW x, NEW name
  PROVE  Match(UnmarshalJSON(MarshalJSON(NewRegexDomainFilter(r, x))), name)
           = Match(NewRegexDomainFilter(r, x), name)
<1> DEFINE df == NewRegexDomainFilter(r, x)
           json == MarshalJSON(df)
<1>1. df.filters = {} /\ df.exclude = {} /\ df.regex = r /\ df.regexExclusion = x
  BY DEF NewRegexDomainFilter
<1>2. /\ json.include = {} /\ json.exclude = {}
      /\ json.regexInclude = r /\ json.regexExclude = x
  BY <1>1 DEF MarshalJSON
<1> HIDE DEF df, json
<1>3. CASE r.text = "" /\ x.text = ""
  <2> DEFINE new == NewDomainFilterWithExclusions({}, {})
  <2>1. UnmarshalJSON(json) = new
    BY <1>2, <1>3 DEF UnmarshalJSON
  <2>2. /\ new.filters = {} /\ new.exclude = {}
        /\ new.regex.text = "" /\ new.regexExclusion.text = ""
    BY DEF NewDomainFilterWithExclusions, PrepareFilters, None
  <2> HIDE DEF new
  <2>3. Match(new, name) = Match(df, name)
    BY <1>1, <1>3, <2>2 DEF Match, MatchFilter
  <2>4. QED
    BY <2>1, <2>3 DEF df, json
<1>4. CASE ~(r.text = "" /\ x.text = "")
  <2>1. UnmarshalJSON(json) = NewRegexDomainFilter(r, x)
    BY <1>2, <1>4 DEF UnmarshalJSON
  <2>2. QED
    BY <2>1 DEF df, json
<1>5. QED
  BY <1>3, <1>4

\* A filter admits the same names before and after the handshake (MarshalJSON,
\* UnmarshalJSON), whatever its lists and expressions, unless a domain is
\* written with two dots at the end, of which each stripping takes one.
THEOREM HandshakeKeeps == ASSUME Constructed PROVE Spec => []SurvivesHandshake
<1> DEFINE Given == task = "filter" => input \in DomainFilters
<1>1. Init => Given
  BY DEF Init
<1>2. Given /\ [Next]_vars => Given'
  BY DEF Next, LookAtCandidate, LookAtZone, vars
<1>3. Given => SurvivesHandshake
  <2> SUFFICES ASSUME task = "filter", input \in DomainFilters, NEW name \in LookedUp
               PROVE  Match(UnmarshalJSON(MarshalJSON(input)), name) = Match(input, name)
    BY DEF SurvivesHandshake
  <2>1. CASE \E f, x \in SUBSET Domains : input = NewDomainFilterWithExclusions(f, x)
    BY <2>1, ListsSurvive
  <2>2. CASE \E r, x : input = NewRegexDomainFilter(r, x)
    BY <2>2, ExpressionsSurvive
  <2>3. QED
    BY <2>1, <2>2 DEF Constructed
<1>4. QED
  BY <1>1, <1>2, <1>3, PTL DEF Spec

(***************************************************************************)
(* Labels.                                                                 *)
(***************************************************************************)
LabelLists == Seq(Seq(Characters)) \ {<<>>}

\* Something in front of a sequence.
LEMMA InFront ==
  ASSUME NEW S, NEW e \in S, NEW s \in Seq(S)
  PROVE  /\ <<e>> \o s \in Seq(S) /\ Len(<<e>> \o s) = Len(s) + 1
         /\ (<<e>> \o s)[1] = e /\ \A i \in 1 .. Len(s) : (<<e>> \o s)[i + 1] = s[i]
         /\ Len(s) \in Nat /\ DOMAIN s = 1 .. Len(s)
         /\ DOMAIN (<<e>> \o s) = 1 .. Len(s) + 1
OBVIOUS

\* One character in front of a name, from the labels of the name.
Before(c, ls) ==
  IF c = "." THEN <<<<>>>> \o ls ELSE [ls EXCEPT ![1] = <<c>> \o @]

\* A dot before a name begins a new label.
LEMMA BeforeDot ==
  ASSUME NEW ls \in LabelLists
  PROVE  /\ Before(".", ls) \in LabelLists /\ Len(Before(".", ls)) = Len(ls) + 1
         /\ Before(".", ls)[1] = <<>>
         /\ \A i \in 1 .. Len(ls) : Before(".", ls)[i + 1] = ls[i]
<1> DEFINE S == Seq(Characters)
<1>1. <<>> \in S
  OBVIOUS
<1>2. ls \in Seq(S)
  BY DEF LabelLists
<1> HIDE DEF S
<1>3. /\ <<<<>>>> \o ls \in Seq(S) /\ Len(<<<<>>>> \o ls) = Len(ls) + 1
      /\ (<<<<>>>> \o ls)[1] = <<>> /\ \A i \in 1 .. Len(ls) : (<<<<>>>> \o ls)[i + 1] = ls[i]
      /\ Len(ls) \in Nat
  BY <1>1, <1>2, InFront
<1>4. Before(".", ls) = <<<<>>>> \o ls
  BY DEF Before
<1>5. Before(".", ls) # <<>>
  BY <1>3, <1>4
<1>6. QED
  BY <1>3, <1>4, <1>5 DEF LabelLists, S

\* A character before a name belongs to the first label.
LEMMA BeforeLetter ==
  ASSUME NEW c \in Characters, c # ".", NEW ls \in LabelLists
  PROVE  /\ Before(c, ls) \in LabelLists /\ Len(Before(c, ls)) = Len(ls)
         /\ Before(c, ls)[1] = <<c>> \o ls[1] /\ Before(c, ls)[1] # <<>>
         /\ ls[1] \in Seq(Characters)
         /\ \A i \in 2 .. Len(ls) : Before(c, ls)[i] = ls[i]
<1> DEFINE S == Seq(Characters)
           new == <<c>> \o ls[1]
           b == [ls EXCEPT ![1] = new]
<1>1. ls \in Seq(S) /\ Len(ls) \in Nat /\ Len(ls) >= 1 /\ ls[1] \in S
  <2> HIDE DEF S
  <2>1. ls \in Seq(S) /\ ls # <<>>
    BY DEF LabelLists, S
  <2>2. QED
    BY <2>1
<1>2. new \in S /\ Len(new) = Len(ls[1]) + 1 /\ Len(ls[1]) \in Nat
  BY <1>1, InFront
<1>3. new # <<>>
  BY <1>2
<1> HIDE DEF new, S
<1>4. /\ b \in Seq(S) /\ Len(b) = Len(ls) /\ b[1] = new
      /\ \A i \in 2 .. Len(ls) : b[i] = ls[i]
  BY <1>1, <1>2
<1>5. Before(c, ls) = b
  BY DEF Before, new
<1>6. b # <<>>
  BY <1>1, <1>4
<1>7. QED
  BY <1>1, <1>3, <1>4, <1>5, <1>6 DEF LabelLists, S, new

\* Names that differ in the first character or after it have other labels.
LEMMA BeforeOnce ==
  ASSUME NEW c \in Characters, NEW d \in Characters,
         NEW ls \in LabelLists, NEW ms \in LabelLists, Before(c, ls) = Before(d, ms)
  PROVE  c = d /\ ls = ms
<1> DEFINE S == Seq(Characters)
<1>1. ls \in Seq(S) /\ ms \in Seq(S) /\ Len(ls) \in Nat /\ Len(ms) \in Nat
  BY DEF LabelLists
<1>2. CASE c = "." \/ d = "."
  <2>1. c = "." /\ d = "."
    <3>1. c # "." => Before(c, ls)[1] # <<>>
      BY BeforeLetter
    <3>2. d # "." => Before(d, ms)[1] # <<>>
      BY BeforeLetter
    <3>3. (c = "." => Before(c, ls)[1] = <<>>) /\ (d = "." => Before(d, ms)[1] = <<>>)
      BY BeforeDot
    <3>4. QED
      BY <1>2, <3>1, <3>2, <3>3
  <2>2. Len(ls) = Len(ms)
    BY <1>1, <2>1, BeforeDot
  <2>3. \A i \in 1 .. Len(ls) : ls[i] = ms[i]
    BY <2>1, <2>2, BeforeDot
  <2> HIDE DEF S
  <2>4. ls = ms
    BY <1>1, <2>2, <2>3
  <2>5. QED
    BY <2>1, <2>4
<1>3. CASE c # "." /\ d # "."
  <2>1. /\ <<c>> \o ls[1] = <<d>> \o ms[1] /\ Len(ls) = Len(ms)
        /\ ls[1] \in S /\ ms[1] \in S
        /\ \A i \in 2 .. Len(ls) : ls[i] = ms[i]
    <3> DEFINE b == Before(c, ls)
    <3>1. /\ Len(b) = Len(ls) /\ b[1] = <<c>> \o ls[1] /\ ls[1] \in S
          /\ \A i \in 2 .. Len(ls) : b[i] = ls[i]
      BY <1>3, BeforeLetter
    <3>2. b = Before(d, ms)
      OBVIOUS
    <3> HIDE DEF b
    <3>3. /\ Len(b) = Len(ms) /\ b[1] = <<d>> \o ms[1] /\ ms[1] \in S
          /\ \A i \in 2 .. Len(ms) : b[i] = ms[i]
      BY <1>3, <3>2, BeforeLetter
    <3> HIDE DEF S
    <3>4. QED
      BY <3>1, <3>3
  <2>2. c = d /\ ls[1] = ms[1]
    <3> DEFINE p == ls[1]
               q == ms[1]
    <3>1. /\ (<<c>> \o p)[1] = c /\ (<<d>> \o q)[1] = d
          /\ Len(<<c>> \o p) = Len(p) + 1 /\ Len(<<d>> \o q) = Len(q) + 1
          /\ \A i \in 1 .. Len(p) : (<<c>> \o p)[i + 1] = p[i]
          /\ \A i \in 1 .. Len(q) : (<<d>> \o q)[i + 1] = q[i]
          /\ Len(p) \in Nat /\ Len(q) \in Nat
      BY <2>1, InFront
    <3>2. p \in S /\ q \in S /\ <<c>> \o p = <<d>> \o q
      BY <2>1
    <3> HIDE DEF p, q
    <3>3. c = d /\ Len(p) = Len(q) /\ \A i \in 1 .. Len(p) : p[i] = q[i]
      BY <3>1, <3>2
    <3>4. p = q
      BY <3>2, <3>3
    <3>5. QED
      BY <3>3, <3>4 DEF p, q
  <2>3. \A i \in 1 .. Len(ls) : ls[i] = ms[i]
    BY <1>1, <2>1, <2>2
  <2> HIDE DEF S
  <2>4. ls = ms
    BY <1>1, <2>1, <2>3
  <2>5. QED
    BY <2>2, <2>4
<1>4. QED
  BY <1>2, <1>3

\* A character before labels leaves labels.
LEMMA BeforeType ==
  ASSUME NEW c \in Characters, NEW ls \in LabelLists
  PROVE  Before(c, ls) \in LabelLists
BY BeforeDot, BeforeLetter

\* The empty name has one label, the empty one.
LEMMA NoLetters == <<<<>>>> \in LabelLists /\ Len(<<<<>>>>) = 1 /\ <<<<>>>>[1] = <<>>
<1>1. <<>> \in Seq(Characters)
  OBVIOUS
<1>2. <<<<>>>> \in Seq(Seq(Characters)) /\ <<<<>>>> # <<>>
  BY <1>1
<1>3. QED
  BY <1>2 DEF LabelLists

\* The labels of the last m characters of a name, and of fewer.
IsSplit(n, f, m) ==
  /\ f \in [Len(n) + 1 - m .. Len(n) + 1 -> LabelLists]
  /\ f[Len(n) + 1] = <<<<>>>>
  /\ \A k \in Len(n) + 1 - m .. Len(n) : f[k] = Before(n[k], f[k + 1])

\* A name split so far can be split by one character more.
LEMMA SplitMore ==
  ASSUME NEW n \in Seq(Characters), NEW m \in Nat, m < Len(n), NEW f, IsSplit(n, f, m)
  PROVE  \E g : IsSplit(n, g, m + 1)
<1> DEFINE N == Len(n)
           j == N - m
           c == n[j]
           g == [k \in j .. N + 1 |-> IF k = j THEN Before(c, f[j + 1]) ELSE f[k]]
<1>1. /\ N \in Nat /\ j \in 1 .. N /\ N + 1 - m = j + 1 /\ N + 1 - (m + 1) = j
      /\ j + 1 \in j + 1 .. N + 1 /\ j \in Nat
  OBVIOUS
<1>2. c \in Characters
  BY <1>1
<1> HIDE DEF c
<1>3. /\ f \in [j + 1 .. N + 1 -> LabelLists] /\ f[N + 1] = <<<<>>>>
      /\ \A k \in j + 1 .. N : f[k] = Before(n[k], f[k + 1])
  BY <1>1 DEF IsSplit
<1> HIDE DEF N, j
<1>4. Before(c, f[j + 1]) \in LabelLists
  BY <1>1, <1>2, <1>3, BeforeType
<1>5. g \in [j .. N + 1 -> LabelLists]
  <2>1. ASSUME NEW k \in j .. N + 1, k # j PROVE k \in j + 1 .. N + 1
    BY <1>1, <2>1
  <2>2. QED
    BY <1>3, <1>4, <2>1
<1>6. g[N + 1] = <<<<>>>>
  BY <1>1, <1>3
<1>7. ASSUME NEW k \in j .. N PROVE g[k] = Before(n[k], g[k + 1])
  <2>1. k \in j .. N + 1 /\ k + 1 \in j .. N + 1 /\ k + 1 # j
    BY <1>1
  <2>2. g[k + 1] = f[k + 1]
    BY <2>1
  <2>3. CASE k = j
    <3>1. g[k] = Before(c, f[j + 1])
      BY <2>1, <2>3
    <3>2. QED
      BY <2>2, <2>3, <3>1 DEF c
  <2>4. CASE k # j
    <3>1. k \in j + 1 .. N /\ g[k] = f[k]
      BY <1>1, <2>1, <2>4
    <3>2. QED
      BY <1>3, <2>2, <3>1
  <2>5. QED
    BY <2>3, <2>4
<1> HIDE DEF g
<1>8. IsSplit(n, g, m + 1)
  BY <1>1, <1>5, <1>6, <1>7 DEF IsSplit, N
<1>9. QED
  BY <1>8

\* Every name can be split.
LEMMA SplitAll ==
  ASSUME NEW n \in Seq(Characters)
  PROVE  \E f : IsSplit(n, f, Len(n))
<1> DEFINE N == Len(n)
           T == {m \in 0 .. N : ~\E f : IsSplit(n, f, m)}
<1>1. N \in Nat
  OBVIOUS
<1>2. SUFFICES ASSUME T # {} PROVE FALSE
  <2>1. N \in 0 .. N
    BY <1>1
  <2>2. QED
    BY <2>1
<1>3. T \in SUBSET Nat
  BY <1>1
<1>4. \E m \in T : \A k \in T : m <= k
  <2> HIDE DEF T
  <2>1. QED
    BY <1>2, <1>3, LeastNumber
<1>5. PICK m \in T : \A k \in T : m <= k
  BY <1>4
<1>6. m \in 0 .. N /\ m \in Nat
  BY <1>1, <1>5
<1>7. CASE m = 0
  <2> DEFINE f == [k \in N + 1 .. N + 1 |-> <<<<>>>>]
  <2>1. /\ f \in [N + 1 .. N + 1 -> LabelLists] /\ f[N + 1] = <<<<>>>>
        /\ N + 1 - 0 = N + 1 /\ N + 1 .. N = {}
    BY <1>1, NoLetters
  <2> HIDE DEF f
  <2>2. IsSplit(n, f, 0)
    BY <2>1 DEF IsSplit
  <2>3. QED
    BY <1>5, <1>7, <2>2
<1>8. CASE m # 0
  <2>1. m - 1 \in 0 .. N /\ m - 1 \in Nat /\ m - 1 < N /\ ~(m <= m - 1) /\ (m - 1) + 1 = m
    BY <1>1, <1>6, <1>8
  <2>2. m - 1 \notin T
    BY <1>5, <2>1
  <2>3. PICK f : IsSplit(n, f, m - 1)
    BY <2>1, <2>2
  <2>4. \E g : IsSplit(n, g, m)
    BY <2>1, <2>3, SplitMore
  <2>5. QED
    BY <1>5, <2>4
<1>9. QED
  BY <1>7, <1>8

\* What LabelsFrom is, though it is defined by recursion.
LEMMA LabelsAre ==
  ASSUME NEW n \in Seq(Characters)
  PROVE  /\ LabelsFrom(n) \in [1 .. Len(n) + 1 -> LabelLists]
         /\ LabelsFrom(n)[Len(n) + 1] = <<<<>>>>
         /\ \A k \in 1 .. Len(n) : LabelsFrom(n)[k] = Before(n[k], LabelsFrom(n)[k + 1])
<1> DEFINE N == Len(n)
           L == LabelsFrom(n)
<1>1. N \in Nat /\ N + 1 - N = 1
  OBVIOUS
<1>2. PICK f : /\ f \in [1 .. N + 1 -> LabelLists] /\ f[N + 1] = <<<<>>>>
               /\ \A k \in 1 .. N : f[k] = Before(n[k], f[k + 1])
  BY <1>1, SplitAll DEF IsSplit
<1>3. f = [k \in 1 .. N + 1 |-> IF k > N THEN <<<<>>>> ELSE Before(n[k], f[k + 1])]
  <2>1. ASSUME NEW k \in 1 .. N + 1
        PROVE  f[k] = IF k > N THEN <<<<>>>> ELSE Before(n[k], f[k + 1])
    <3>1. k > N => k = N + 1
      BY <1>1
    <3>2. ~(k > N) => k \in 1 .. N
      BY <1>1
    <3>3. QED
      BY <1>2, <3>1, <3>2
  <2>2. QED
    BY <1>2, <2>1
<1>4. L = [k \in 1 .. N + 1 |-> IF k > N THEN <<<<>>>> ELSE Before(n[k], L[k + 1])]
  BY <1>3 DEF LabelsFrom, Before
<1> HIDE DEF L
<1>5. \A k \in 1 .. N : L[k] = Before(n[k], L[k + 1])
  <2>1. \A k \in 1 .. N : k \in 1 .. N + 1 /\ ~(k > N)
    BY <1>1
  <2>2. QED
    BY <1>4, <2>1
<1>6. L[N + 1] = <<<<>>>>
  <2>1. N + 1 \in 1 .. N + 1 /\ N + 1 > N
    BY <1>1
  <2>2. QED
    BY <1>4, <2>1
<1>7. L = f
  <2> DEFINE T == {m \in 0 .. N : L[N + 1 - m] # f[N + 1 - m]}
  <2>1. ASSUME T # {} PROVE FALSE
    <3>1. T \in SUBSET Nat
      BY <1>1
    <3>2. \E m \in T : \A k \in T : m <= k
      <4> HIDE DEF T
      <4>1. QED
        BY <2>1, <3>1, LeastNumber
    <3>3. PICK m \in T : \A k \in T : m <= k
      BY <3>2
    <3>4. m \in 0 .. N /\ m \in Nat /\ L[N + 1 - m] # f[N + 1 - m]
      BY <1>1, <3>3
    <3>5. m # 0
      <4>1. N + 1 - 0 = N + 1
        BY <1>1
      <4>2. QED
        BY <1>2, <1>6, <3>4, <4>1
    <3>6. /\ m - 1 \in 0 .. N /\ ~(m <= m - 1)
          /\ N + 1 - (m - 1) = (N + 1 - m) + 1 /\ N + 1 - m \in 1 .. N
      BY <1>1, <3>4, <3>5
    <3>7. L[(N + 1 - m) + 1] = f[(N + 1 - m) + 1]
      BY <3>3, <3>6
    <3>8. QED
      BY <1>2, <1>5, <3>4, <3>6, <3>7
  <2>2. ASSUME NEW k \in 1 .. N + 1 PROVE L[k] = f[k]
    <3>1. N + 1 - k \in 0 .. N /\ N + 1 - (N + 1 - k) = k
      BY <1>1
    <3>2. QED
      BY <2>1, <3>1
  <2>3. DOMAIN L = 1 .. N + 1
    BY <1>4
  <2>4. L = [k \in 1 .. N + 1 |-> L[k]]
    BY <1>4, <2>3
  <2>5. QED
    BY <1>2, <2>2, <2>4
<1>8. QED
  BY <1>1, <1>2, <1>5, <1>6, <1>7 DEF L

(***************************************************************************)
(* Names from their ends.                                                  *)
(***************************************************************************)
\* The m-th character from the end, and the labels of the last m characters.
FromEnd(n, m) == n[Len(n) + 1 - m]
LastLabels(n, m) == LabelsFrom(n)[Len(n) + 1 - m]

\* The recursion that the labels of a name follow, from its end.
LEMMA LabelsFromEnd ==
  ASSUME NEW n \in Seq(Characters)
  PROVE  /\ Len(n) \in Nat
         /\ LastLabels(n, 0) = <<<<>>>> /\ LabelsOf(n) = LastLabels(n, Len(n))
         /\ \A m \in 0 .. Len(n) : LastLabels(n, m) \in LabelLists
         /\ \A m \in 1 .. Len(n) :
              /\ FromEnd(n, m) \in Characters
              /\ LastLabels(n, m) = Before(FromEnd(n, m), LastLabels(n, m - 1))
<1> DEFINE N == Len(n)
           L == LabelsFrom(n)
<1>1. N \in Nat /\ N + 1 - 0 = N + 1 /\ N + 1 - N = 1
  OBVIOUS
<1>2. /\ L \in [1 .. N + 1 -> LabelLists] /\ L[N + 1] = <<<<>>>>
      /\ \A k \in 1 .. N : L[k] = Before(n[k], L[k + 1])
  BY LabelsAre
<1>3. \A k \in 1 .. N : n[k] \in Characters
  OBVIOUS
<1>4. LastLabels(n, 0) = <<<<>>>>
  BY <1>1, <1>2 DEF LastLabels
<1>5. LabelsOf(n) = LastLabels(n, N)
  BY <1>1 DEF LastLabels, LabelsOf
<1>6. ASSUME NEW m \in 0 .. N PROVE LastLabels(n, m) \in LabelLists
  <2>1. N + 1 - m \in 1 .. N + 1
    BY <1>1
  <2> HIDE DEF L, N
  <2>2. L[N + 1 - m] \in LabelLists
    BY <1>2, <2>1
  <2>3. QED
    BY <2>2 DEF LastLabels, L, N
<1>7. ASSUME NEW m \in 1 .. N
      PROVE  /\ FromEnd(n, m) \in Characters
             /\ LastLabels(n, m) = Before(FromEnd(n, m), LastLabels(n, m - 1))
  <2>1. N + 1 - m \in 1 .. N /\ (N + 1 - m) + 1 = N + 1 - (m - 1)
    BY <1>1
  <2> HIDE DEF L, N
  <2>2. n[N + 1 - m] \in Characters /\ L[N + 1 - m] = Before(n[N + 1 - m], L[N + 1 - (m - 1)])
    BY <1>2, <1>3, <2>1
  <2>3. QED
    BY <2>2 DEF LastLabels, FromEnd, L, N
<1>8. QED
  BY <1>1, <1>4, <1>5, <1>6, <1>7

\* A parent agrees with the end of the name, and a dot is in front of it.
LEMMA ParentFromEnd ==
  ASSUME NEW z \in Seq(Characters), NEW n \in Seq(Characters)
  PROVE  IsParent(z, n) <=>
           /\ Len(z) <= Len(n)
           /\ \A y \in 1 .. Len(z) : FromEnd(z, y) = FromEnd(n, y)
           /\ Len(z) = Len(n) \/ FromEnd(n, Len(z) + 1) = "."
<1> DEFINE Z == Len(z)
           N == Len(n)
           d == <<".">> \o z
<1>1. Z \in Nat /\ N \in Nat
  OBVIOUS
<1>2. /\ d \in Seq(Characters) /\ Len(d) = Z + 1 /\ d[1] = "."
      /\ \A i \in 1 .. Z : d[i + 1] = z[i]
  BY InFront, DomainNamesAssumption DEF Characters
<1>3. IsSuffix(d, n) <=> /\ Z + 1 <= N
                         /\ \A i \in 1 .. Z + 1 : d[i] = n[N - (Z + 1) + i]
  <2> HIDE DEF d
  <2>1. IsSuffix(d, n) <=> /\ Len(d) <= Len(n)
                           /\ \A i \in 1 .. Len(d) : d[i] = n[Len(n) - Len(d) + i]
    BY <1>2, SuffixAgrees
  <2>2. QED
    BY <1>2, <2>1
<1> HIDE DEF d, Z, N
<1>4. z = n <=> Z = N /\ \A y \in 1 .. Z : FromEnd(z, y) = FromEnd(n, y)
  <2>1. ASSUME Z = N, \A y \in 1 .. Z : FromEnd(z, y) = FromEnd(n, y), NEW i \in 1 .. Z
        PROVE  z[i] = n[i]
    <3>1. Z + 1 - i \in 1 .. Z /\ Z + 1 - (Z + 1 - i) = i
      BY <1>1
    <3>2. FromEnd(z, Z + 1 - i) = z[i] /\ FromEnd(n, Z + 1 - i) = n[i]
      BY <2>1, <3>1 DEF FromEnd, Z, N
    <3>3. QED
      BY <2>1, <3>1, <3>2
  <2>2. ASSUME Z = N, \A i \in 1 .. Z : z[i] = n[i] PROVE z = n
    BY <2>2 DEF Z, N
  <2>3. QED
    BY <2>1, <2>2 DEF Z, N
<1>5. ASSUME IsSuffix(d, n)
      PROVE  /\ Z < N /\ FromEnd(n, Z + 1) = "."
             /\ \A y \in 1 .. Z : FromEnd(z, y) = FromEnd(n, y)
  <2>1. 1 \in 1 .. Z + 1 /\ N - (Z + 1) + 1 = N + 1 - (Z + 1) /\ Z < N
    BY <1>1, <1>3, <1>5
  <2>2. FromEnd(n, Z + 1) = "."
    BY <1>2, <1>3, <1>5, <2>1 DEF FromEnd, N
  <2>3. ASSUME NEW y \in 1 .. Z PROVE FromEnd(z, y) = FromEnd(n, y)
    <3>1. /\ Z + 1 - y \in 1 .. Z /\ (Z + 1 - y) + 1 \in 1 .. Z + 1
          /\ N - (Z + 1) + ((Z + 1 - y) + 1) = N + 1 - y
      BY <1>1
    <3>2. z[Z + 1 - y] = n[N + 1 - y]
      BY <1>2, <1>3, <1>5, <3>1
    <3>3. QED
      BY <3>2 DEF FromEnd, Z, N
  <2>4. QED
    BY <2>1, <2>2, <2>3
<1>6. ASSUME Z < N, FromEnd(n, Z + 1) = ".", \A y \in 1 .. Z : FromEnd(z, y) = FromEnd(n, y)
      PROVE  IsSuffix(d, n)
  <2>1. Z + 1 <= N
    BY <1>1, <1>6
  <2>2. ASSUME NEW i \in 1 .. Z + 1 PROVE d[i] = n[N - (Z + 1) + i]
    <3>1. CASE i = 1
      <4>1. N - (Z + 1) + 1 = N + 1 - (Z + 1)
        BY <1>1
      <4>2. QED
        BY <1>2, <1>6, <3>1, <4>1 DEF FromEnd, N
    <3>2. CASE i # 1
      <4>1. /\ i - 1 \in 1 .. Z /\ (i - 1) + 1 = i /\ Z + 2 - i \in 1 .. Z
            /\ Z + 1 - (Z + 2 - i) = i - 1 /\ N + 1 - (Z + 2 - i) = N - (Z + 1) + i
        BY <1>1, <3>2
      <4>2. z[i - 1] = n[N - (Z + 1) + i]
        BY <1>6, <4>1 DEF FromEnd, Z, N
      <4>3. QED
        BY <1>2, <4>1, <4>2
    <3>3. QED
      BY <3>1, <3>2
  <2>3. QED
    BY <1>3, <2>1, <2>2
<1>7. IsParent(z, n) <=> z = n \/ IsSuffix(d, n)
  BY DEF IsParent, d
<1>8. QED
  BY <1>1, <1>4, <1>5, <1>6, <1>7 DEF Z, N

\* A list of labels that agrees with the end of another one.
Ends(s, t) == Len(s) <= Len(t) /\ \A i \in 1 .. Len(s) : s[i] = t[Len(t) - Len(s) + i]

\* A name has at least one label.
LEMMA LabelsLen ==
  ASSUME NEW ls \in LabelLists
  PROVE  Len(ls) \in Nat /\ Len(ls) >= 1 /\ ls \in Seq(Seq(Characters))
<1> DEFINE S == Seq(Characters)
<1>1. ls \in Seq(S) /\ ls # <<>>
  BY DEF LabelLists
<1> HIDE DEF S
<1>2. QED
  BY <1>1 DEF S

\* A name that ends in as many labels as it has is those labels.
LEMMA EndsAll ==
  ASSUME NEW ls \in LabelLists, NEW ms \in LabelLists
  PROVE  Ends(ls, ms) /\ Len(ls) = Len(ms) <=> ls = ms
<1>1. Len(ls) \in Nat /\ Len(ms) \in Nat
  BY LabelsLen
<1>2. \A a \in Nat : \A i \in 1 .. a : a - a + i = i
  OBVIOUS
<1>3. Len(ls) = Len(ms) => \A i \in 1 .. Len(ls) : Len(ms) - Len(ls) + i = i
  BY <1>1, <1>2
<1>4. ASSUME Ends(ls, ms), Len(ls) = Len(ms) PROVE ls = ms
  <2> DEFINE S == Seq(Characters)
  <2>1. \A i \in 1 .. Len(ls) : ls[i] = ms[i]
    BY <1>3, <1>4 DEF Ends
  <2>2. ls \in Seq(S) /\ ms \in Seq(S)
    BY LabelsLen
  <2> HIDE DEF S
  <2>3. QED
    BY <1>4, <2>1, <2>2
<1>5. ASSUME ls = ms PROVE Ends(ls, ms) /\ Len(ls) = Len(ms)
  BY <1>1, <1>3, <1>5 DEF Ends
<1>6. QED
  BY <1>4, <1>5

\* What a character in front makes of the ends.
LEMMA EndsBehind ==
  ASSUME NEW c \in Characters, NEW ls \in LabelLists, NEW ms \in LabelLists,
         Ends(ls, Before(c, ms)), ls # Before(c, ms)
  PROVE  Ends(ls, ms) /\ (c = "." \/ ls # ms)
<1> DEFINE b == Before(c, ms)
           l == Len(ls)
           m == Len(ms)
<1>1. b \in LabelLists /\ l \in Nat /\ m \in Nat /\ Len(b) \in Nat /\ l >= 1
  BY BeforeType, LabelsLen
<1>2. l < Len(b)
  <2>1. l <= Len(b) /\ l # Len(b)
    BY <1>1, EndsAll DEF Ends
  <2>2. QED
    BY <1>1, <2>1
<1>3. \A i \in 1 .. l : ls[i] = b[Len(b) - l + i]
  BY DEF Ends
<1> HIDE DEF b
<1>4. CASE c = "."
  <2>1. Len(b) = m + 1 /\ \A i \in 1 .. m : b[i + 1] = ms[i]
    BY <1>4, BeforeDot DEF b
  <2> HIDE DEF l, m
  <2>2. l <= m
    BY <1>1, <1>2, <2>1
  <2>3. ASSUME NEW i \in 1 .. l PROVE ls[i] = ms[m - l + i]
    <3>1. m - l + i \in 1 .. m /\ (m - l + i) + 1 = m + 1 - l + i
      BY <1>1, <2>2
    <3>2. ls[i] = b[m + 1 - l + i]
      BY <1>1, <1>3, <2>1
    <3>3. QED
      BY <2>1, <3>1, <3>2
  <2>4. QED
    BY <1>4, <2>2, <2>3 DEF Ends, l, m
<1>5. CASE c # "."
  <2>1. Len(b) = m /\ \A i \in 2 .. m : b[i] = ms[i]
    BY <1>5, BeforeLetter DEF b
  <2> HIDE DEF l, m
  <2>2. ASSUME NEW i \in 1 .. l PROVE ls[i] = ms[m - l + i]
    <3>1. m - l + i \in 2 .. m
      BY <1>1, <1>2, <2>1
    <3>2. QED
      BY <1>3, <2>1, <3>1
  <2>3. l <= m /\ l # m
    BY <1>1, <1>2, <2>1
  <2>4. QED
    BY <2>2, <2>3 DEF Ends, l, m
<1>6. QED
  BY <1>4, <1>5

\* A name ends in the same labels with more before it.
LEMMA EndsBefore ==
  ASSUME NEW c \in Characters, NEW ls \in LabelLists, NEW ms \in LabelLists,
         Ends(ls, ms), c = "." \/ Len(ls) < Len(ms)
  PROVE  Ends(ls, Before(c, ms)) /\ Len(ls) < Len(Before(c, ms))
<1> DEFINE b == Before(c, ms)
           l == Len(ls)
           m == Len(ms)
<1>1. l \in Nat /\ m \in Nat /\ l >= 1
  BY LabelsLen
<1>2. l <= m /\ \A i \in 1 .. l : ls[i] = ms[m - l + i]
  BY DEF Ends
<1>3. CASE c = "."
  <2>1. Len(b) = m + 1 /\ \A i \in 1 .. m : b[i + 1] = ms[i]
    BY <1>3, BeforeDot
  <2> HIDE DEF b, l, m
  <2>2. ASSUME NEW i \in 1 .. l PROVE ls[i] = b[m + 1 - l + i]
    <3>1. m - l + i \in 1 .. m /\ (m - l + i) + 1 = m + 1 - l + i
      BY <1>1, <1>2
    <3>2. QED
      BY <1>2, <2>1, <3>1
  <2>3. l < m + 1
    BY <1>1, <1>2
  <2>4. l <= m + 1
    BY <1>1, <1>2
  <2>5. QED
    BY <2>1, <2>2, <2>3, <2>4 DEF Ends, b, l, m
<1>4. CASE c # "."
  <2>1. Len(b) = m /\ \A i \in 2 .. m : b[i] = ms[i]
    BY <1>4, BeforeLetter
  <2>2. l < m
    BY <1>4
  <2> HIDE DEF b, l, m
  <2>3. ASSUME NEW i \in 1 .. l PROVE ls[i] = b[m - l + i]
    <3>1. m - l + i \in 2 .. m
      BY <1>1, <2>2
    <3>2. QED
      BY <1>2, <2>1, <3>1
  <2>4. QED
    BY <1>2, <2>1, <2>2, <2>3 DEF Ends, b, l, m
<1>5. QED
  BY <1>3, <1>4

\* Only the last labels are those of no character.
LEMMA SomeLabels ==
  ASSUME NEW c \in Characters, NEW ls \in LabelLists
  PROVE  Before(c, ls) # <<<<>>>>
<1>1. Len(ls) \in Nat /\ Len(ls) >= 1
  BY LabelsLen
<1>2. CASE c = "."
  <2>1. Len(Before(c, ls)) = Len(ls) + 1
    BY <1>2, BeforeDot
  <2>2. Len(Before(c, ls)) # 1
    BY <1>1, <2>1
  <2>3. QED
    BY <2>2, NoLetters
<1>3. CASE c # "."
  BY <1>3, BeforeLetter, NoLetters
<1>4. QED
  BY <1>2, <1>3

\* The ends of two names that have the same labels are the same.
LEMMA LabelsTell ==
  ASSUME NEW z \in Seq(Characters), NEW n \in Seq(Characters),
         NEW p \in 0 .. Len(z), NEW q \in 0 .. Len(n), LastLabels(z, p) = LastLabels(n, q)
  PROVE  p = q /\ \A y \in 1 .. p : FromEnd(z, y) = FromEnd(n, y)
<1> DEFINE Told(a) ==
             \A b \in 0 .. Len(n) :
               LastLabels(z, a) = LastLabels(n, b) =>
                 a = b /\ \A y \in 1 .. a : FromEnd(z, y) = FromEnd(n, y)
           T == {a \in 0 .. Len(z) : ~Told(a)}
<1>1. Len(z) \in Nat /\ Len(n) \in Nat
  OBVIOUS
<1>2. ASSUME T # {} PROVE FALSE
  <2>1. \E a \in T : \A b \in T : a <= b
    <3>1. T \in SUBSET Nat
      BY <1>1
    <3> HIDE DEF T
    <3>2. QED
      BY <1>2, <3>1, LeastNumber
  <2>2. PICK a \in T : \A b \in T : a <= b
    BY <2>1
  <2>3. a \in 0 .. Len(z) /\ ~Told(a)
    BY <2>2
  <2>4. PICK b \in 0 .. Len(n) :
          /\ LastLabels(z, a) = LastLabels(n, b)
          /\ ~(a = b /\ \A y \in 1 .. a : FromEnd(z, y) = FromEnd(n, y))
    BY <2>3
  <2>5. CASE a = 0 \/ b = 0
    <3>1. a = 0 => b = 0
      <4>1. CASE b # 0
        <5>1. b \in 1 .. Len(n) /\ b - 1 \in 0 .. Len(n)
          BY <1>1, <4>1
        <5>2. LastLabels(n, b) # <<<<>>>>
          BY <5>1, LabelsFromEnd, SomeLabels
        <5>3. QED
          BY <2>4, <5>2, LabelsFromEnd
      <4>2. QED
        BY <4>1
    <3>2. b = 0 => a = 0
      <4>1. CASE a # 0
        <5>1. a \in 1 .. Len(z) /\ a - 1 \in 0 .. Len(z)
          BY <1>1, <2>3, <4>1
        <5>2. LastLabels(z, a) # <<<<>>>>
          BY <5>1, LabelsFromEnd, SomeLabels
        <5>3. QED
          BY <2>4, <5>2, LabelsFromEnd
      <4>2. QED
        BY <4>1
    <3>3. QED
      BY <2>4, <2>5, <3>1, <3>2
  <2>6. CASE a # 0 /\ b # 0
    <3>1. /\ a \in 1 .. Len(z) /\ a - 1 \in 0 .. Len(z) /\ ~(a <= a - 1)
          /\ b \in 1 .. Len(n) /\ b - 1 \in 0 .. Len(n) /\ (a - 1 = b - 1 => a = b)
          /\ \A y \in 1 .. a : y = a \/ y \in 1 .. a - 1
      BY <1>1, <2>3, <2>6
    <3>2. /\ LastLabels(z, a) = Before(FromEnd(z, a), LastLabels(z, a - 1))
          /\ LastLabels(n, b) = Before(FromEnd(n, b), LastLabels(n, b - 1))
          /\ FromEnd(z, a) \in Characters /\ FromEnd(n, b) \in Characters
          /\ LastLabels(z, a - 1) \in LabelLists /\ LastLabels(n, b - 1) \in LabelLists
      BY <3>1, LabelsFromEnd
    <3>3. FromEnd(z, a) = FromEnd(n, b) /\ LastLabels(z, a - 1) = LastLabels(n, b - 1)
      <4>1. Before(FromEnd(z, a), LastLabels(z, a - 1)) = Before(FromEnd(n, b), LastLabels(n, b - 1))
        BY <2>4, <3>2
      <4>2. QED
        BY <3>2, <4>1, BeforeOnce
    <3>4. Told(a - 1)
      BY <2>2, <3>1
    <3>5. a - 1 = b - 1 /\ \A y \in 1 .. a - 1 : FromEnd(z, y) = FromEnd(n, y)
      BY <3>1, <3>3, <3>4
    <3>6. QED
      BY <2>4, <3>1, <3>3, <3>5
  <2>7. QED
    BY <2>5, <2>6
<1>3. Told(p)
  BY <1>2
<1>4. QED
  BY <1>3

\* And the same ends have the same labels.
LEMMA EndsTell ==
  ASSUME NEW z \in Seq(Characters), NEW n \in Seq(Characters),
         NEW p \in 0 .. Len(z), p \in 0 .. Len(n),
         \A y \in 1 .. p : FromEnd(z, y) = FromEnd(n, y)
  PROVE  LastLabels(z, p) = LastLabels(n, p)
<1> DEFINE T == {a \in 0 .. p : LastLabels(z, a) # LastLabels(n, a)}
<1>1. Len(z) \in Nat /\ Len(n) \in Nat /\ p \in Nat /\ p <= Len(z) /\ p <= Len(n)
  OBVIOUS
<1>2. ASSUME T # {} PROVE FALSE
  <2>1. \E a \in T : \A b \in T : a <= b
    <3>1. T \in SUBSET Nat
      BY <1>1
    <3> HIDE DEF T
    <3>2. QED
      BY <1>2, <3>1, LeastNumber
  <2>2. PICK a \in T : \A b \in T : a <= b
    BY <2>1
  <2>3. a \in 0 .. p /\ LastLabels(z, a) # LastLabels(n, a)
    BY <2>2
  <2>4. a # 0
    BY <2>3, LabelsFromEnd
  <2>5. /\ a \in 1 .. Len(z) /\ a \in 1 .. Len(n) /\ a \in 1 .. p
        /\ a - 1 \in 0 .. p /\ ~(a <= a - 1)
    BY <1>1, <2>3, <2>4
  <2>6. LastLabels(z, a - 1) = LastLabels(n, a - 1)
    BY <2>2, <2>5
  <2>7. /\ LastLabels(z, a) = Before(FromEnd(z, a), LastLabels(z, a - 1))
        /\ LastLabels(n, a) = Before(FromEnd(n, a), LastLabels(n, a - 1))
    BY <2>5, LabelsFromEnd
  <2>8. QED
    BY <2>3, <2>5, <2>6, <2>7
<1>3. p \in 0 .. p
  BY <1>1
<1>4. QED
  BY <1>2, <1>3

\* What the labels of a name end with are the labels behind one of its dots.
LEMMA EndIsBehindDot ==
  ASSUME NEW n \in Seq(Characters), NEW ls \in LabelLists, NEW q \in 0 .. Len(n),
         Ends(ls, LastLabels(n, q))
  PROVE  \E k \in 0 .. q : ls = LastLabels(n, k) /\ (k = q \/ FromEnd(n, k + 1) = ".")
<1> DEFINE Behind(a) == \E k \in 0 .. a : ls = LastLabels(n, k) /\ (k = a \/ FromEnd(n, k + 1) = ".")
           T == {a \in 0 .. Len(n) : Ends(ls, LastLabels(n, a)) /\ ~Behind(a)}
<1>1. Len(n) \in Nat
  OBVIOUS
<1>2. ASSUME T # {} PROVE FALSE
  <2>1. \E a \in T : \A b \in T : a <= b
    <3>1. T \in SUBSET Nat
      BY <1>1
    <3> HIDE DEF T
    <3>2. QED
      BY <1>2, <3>1, LeastNumber
  <2>2. PICK a \in T : \A b \in T : a <= b
    BY <2>1
  <2>3. a \in 0 .. Len(n) /\ Ends(ls, LastLabels(n, a)) /\ ~Behind(a) /\ a \in 0 .. a
    BY <1>1, <2>2
  <2>4. ls # LastLabels(n, a)
    BY <2>3
  <2>5. CASE a = 0
    <3>1. Len(ls) = 1
      <4>1. Ends(ls, <<<<>>>>)
        BY <2>3, <2>5, LabelsFromEnd
      <4>2. Len(ls) <= 1
        BY <4>1, NoLetters DEF Ends
      <4>3. Len(ls) >= 1 /\ Len(ls) \in Nat
        BY LabelsLen
      <4>4. \A x \in Nat : x <= 1 /\ x >= 1 => x = 1
        OBVIOUS
      <4>5. QED
        BY <4>2, <4>3, <4>4, Zenon
    <3>2. ls = <<<<>>>>
      BY <2>3, <2>5, <3>1, NoLetters, EndsAll, LabelsFromEnd
    <3>3. QED
      BY <2>4, <2>5, <3>2, LabelsFromEnd
  <2>6. CASE a # 0
    <3>1. /\ a \in 1 .. Len(n) /\ a - 1 \in 0 .. Len(n) /\ ~(a <= a - 1) /\ (a - 1) + 1 = a
          /\ \A k \in 0 .. a - 1 : k \in 0 .. a
      BY <1>1, <2>3, <2>6
    <3>2. /\ LastLabels(n, a) = Before(FromEnd(n, a), LastLabels(n, a - 1))
          /\ FromEnd(n, a) \in Characters /\ LastLabels(n, a - 1) \in LabelLists
      BY <3>1, LabelsFromEnd
    <3>3. /\ Ends(ls, LastLabels(n, a - 1))
          /\ FromEnd(n, a) = "." \/ ls # LastLabels(n, a - 1)
      BY <2>3, <2>4, <3>2, EndsBehind
    <3>4. Behind(a - 1)
      BY <2>2, <3>1, <3>3
    <3>5. PICK k \in 0 .. a - 1 :
            ls = LastLabels(n, k) /\ (k = a - 1 \/ FromEnd(n, k + 1) = ".")
      BY <3>4
    <3>6. FromEnd(n, k + 1) = "."
      BY <3>1, <3>3, <3>5
    <3>7. QED
      BY <2>3, <3>1, <3>5, <3>6
  <2>7. QED
    BY <2>5, <2>6
<1>3. Behind(q)
  BY <1>2
<1>4. QED
  BY <1>3

\* And the labels behind a dot are what the labels of the name end with.
LEMMA BehindDotIsEnd ==
  ASSUME NEW n \in Seq(Characters), NEW k \in Nat, NEW q \in k + 1 .. Len(n),
         FromEnd(n, k + 1) = "."
  PROVE  Ends(LastLabels(n, k), LastLabels(n, q))
<1> DEFINE ls == LastLabels(n, k)
           IsEnd(a) == Ends(ls, LastLabels(n, a)) /\ Len(ls) < Len(LastLabels(n, a))
           T == {a \in k + 1 .. Len(n) : ~IsEnd(a)}
<1>1. Len(n) \in Nat /\ k \in 0 .. Len(n)
  OBVIOUS
<1>2. ls \in LabelLists
  BY <1>1, LabelsFromEnd
<1>3. ASSUME T # {} PROVE FALSE
  <2>1. \E a \in T : \A b \in T : a <= b
    <3>1. T \in SUBSET Nat
      BY <1>1
    <3> HIDE DEF T
    <3>2. QED
      BY <1>3, <3>1, LeastNumber
  <2>2. PICK a \in T : \A b \in T : a <= b
    BY <2>1
  <2>3. a \in k + 1 .. Len(n) /\ ~IsEnd(a)
    BY <2>2
  <2>4. a \in 1 .. Len(n) /\ a - 1 \in 0 .. Len(n)
    BY <1>1, <2>3
  <2>5. /\ LastLabels(n, a) = Before(FromEnd(n, a), LastLabels(n, a - 1))
        /\ FromEnd(n, a) \in Characters /\ LastLabels(n, a - 1) \in LabelLists
    BY <2>4, LabelsFromEnd
  <2>6. CASE a = k + 1
    <3>1. a - 1 = k
      BY <2>6
    <3>2. Ends(ls, ls)
      BY <1>2, EndsAll
    <3>3. IsEnd(a)
      BY <1>2, <2>5, <2>6, <3>1, <3>2, EndsBefore
    <3>4. QED
      BY <2>3, <3>3
  <2>7. CASE a # k + 1
    <3>1. a - 1 \in k + 1 .. Len(n) /\ ~(a <= a - 1)
      BY <1>1, <2>3, <2>7
    <3>2. IsEnd(a - 1)
      BY <2>2, <3>1
    <3>3. IsEnd(a)
      BY <1>2, <2>5, <3>2, EndsBefore
    <3>4. QED
      BY <2>3, <3>3
  <2>8. QED
    BY <2>6, <2>7
<1>4. IsEnd(q)
  BY <1>3
<1>5. QED
  BY <1>4

\* Characters and labels agree about what a zone of a name is, if a dot is
\* compared along with the zone: no zone ends within a label of the name.
LEMMA LabelsAgree ==
  ASSUME NEW z \in Seq(Characters), NEW n \in Seq(Characters)
  PROVE  IsBelowOrAt(n, z) <=> IsParent(z, n)
<1> DEFINE ls == LastLabels(z, Len(z))
           ms == LastLabels(n, Len(n))
<1>1. Len(z) \in Nat /\ Len(n) \in Nat /\ Len(z) \in 0 .. Len(z) /\ Len(n) \in 0 .. Len(n)
  OBVIOUS
<1>2. ls \in LabelLists /\ ms \in LabelLists /\ LabelsOf(z) = ls /\ LabelsOf(n) = ms
  BY <1>1, LabelsFromEnd
<1>3. IsBelowOrAt(n, z) <=> Ends(ls, ms)
  <2> DEFINE S == Seq(Characters)
  <2>1. ls \in Seq(S) /\ ms \in Seq(S)
    BY <1>2, LabelsLen
  <2> HIDE DEF ls, ms, S
  <2>2. IsSuffix(ls, ms) <=> Ends(ls, ms)
    BY <2>1, SuffixAgrees DEF Ends
  <2>3. QED
    BY <1>2, <2>2 DEF IsBelowOrAt
<1>4. ASSUME Ends(ls, ms) PROVE IsParent(z, n)
  <2>1. PICK k \in 0 .. Len(n) : ls = LastLabels(n, k) /\ (k = Len(n) \/ FromEnd(n, k + 1) = ".")
    BY <1>1, <1>2, <1>4, EndIsBehindDot
  <2>2. Len(z) = k /\ \A y \in 1 .. Len(z) : FromEnd(z, y) = FromEnd(n, y)
    BY <1>1, <2>1, LabelsTell
  <2>3. Len(z) <= Len(n)
    BY <1>1, <2>2
  <2>4. QED
    BY <2>1, <2>2, <2>3, ParentFromEnd
<1>5. ASSUME IsParent(z, n) PROVE Ends(ls, ms)
  <2>1. /\ Len(z) <= Len(n)
        /\ \A y \in 1 .. Len(z) : FromEnd(z, y) = FromEnd(n, y)
        /\ Len(z) = Len(n) \/ FromEnd(n, Len(z) + 1) = "."
    BY <1>5, ParentFromEnd
  <2>2. Len(z) \in 0 .. Len(n)
    BY <1>1, <2>1
  <2>3. ls = LastLabels(n, Len(z))
    BY <1>1, <2>1, <2>2, EndsTell
  <2>4. CASE Len(z) = Len(n)
    BY <1>2, <2>3, <2>4, EndsAll
  <2>5. CASE Len(z) # Len(n)
    <3>1. Len(n) \in Len(z) + 1 .. Len(n)
      BY <1>1, <2>1, <2>5
    <3>2. QED
      BY <1>1, <2>1, <2>3, <2>5, <3>1, BehindDotIsEnd
  <2>6. QED
    BY <2>4, <2>5
<1>6. QED
  BY <1>3, <1>4, <1>5

\* In whatever order the map of zones is walked, a name falls to the nearest
\* zone above it, label by label (FindZone, zonefinder.go:27), and does so in the
\* provider in memory (EndpointZoneID, inmemory.go:204) where no zone's name ends
\* within a label of the name.
THEOREM NearestWins == Spec => []NearestZone
<1>1. Inv /\ LongestZones => NearestZone
  <2> DEFINE P == {z \in ToSet(walk) : IsParent(z, input)}
             S == {z \in ToSet(walk) : IsSuffix(z, input)}
             nearest == CHOOSE z \in Above : \A y \in Above : Len(y) <= Len(z)
  <2> SUFFICES ASSUME Inv, LongestZones, task = "zones", Done, Above # {}
               PROVE  /\ found.byParent = <<nearest>>
                      /\ (\A z \in ToSet(walk) : IsSuffix(z, input) => z \in Above \cup {<<>>})
                           => found.bySuffix = <<nearest>>
    BY DEF NearestZone
  <2>1. /\ walk \in Seq(ZoneNames) /\ Len(walk) \in Nat /\ input \in Seq(Characters)
        /\ \A j \in DOMAIN walk : walk[j] \in Seq(Characters)
        /\ 1 .. next - 1 = DOMAIN walk
    BY ScansAssumption DEF Inv, ZonesKept, Done, Characters
  <2>2. \A z \in ToSet(walk) : z \in Seq(Characters)
    BY <2>1 DEF ToSet
  <2>3. Above = P \ {<<>>}
    BY <2>1, <2>2, LabelsAgree DEF Above
  <2>4. PICK m \in Above : \A y \in P : Len(y) <= Len(m)
    <3>1. PICK z \in P : z # <<>>
      BY <2>3
    <3>2. P = {walk[j] : j \in ByParent}
      BY <2>1 DEF ToSet, ByParent
    <3>3. ByParent # {} /\ Keeps(found.byParent, ByParent)
      BY <3>1, <3>2 DEF Inv, ZonesKept
    <3>4. PICK i \in ByParent : \A j \in ByParent : Len(walk[j]) <= Len(walk[i])
      BY <3>3 DEF Keeps
    <3>5. walk[i] \in P /\ \A y \in P : Len(y) <= Len(walk[i])
      BY <3>2, <3>4
    <3>6. walk[i] # <<>>
      <4>1. Len(z) <= Len(walk[i]) /\ z \in Seq(Characters)
        BY <2>2, <3>1, <3>5
      <4>2. Len(z) > 0 /\ Len(z) \in Nat
        BY <3>1, <4>1
      <4>3. walk[i] \in Seq(Characters)
        BY <2>2, <3>5
      <4> HIDE DEF P
      <4>4. QED
        BY <4>1, <4>2, <4>3
    <3>7. QED
      BY <2>3, <3>5, <3>6
  <2>5. nearest \in Above /\ \A y \in Above : Len(y) <= Len(nearest)
    BY <2>3, <2>4
  <2> HIDE DEF nearest
  <2>6. nearest \in P /\ \A y \in P : Len(y) <= Len(nearest)
    <3>1. m \in P /\ nearest \in P /\ Len(m) <= Len(nearest)
      BY <2>3, <2>4, <2>5
    <3>2. \A y \in P : y \in Seq(Characters) /\ Len(y) \in Nat
      BY <2>2
    <3>3. \A a, b, c \in Nat : a <= b /\ b <= c => a <= c
      OBVIOUS
    <3> HIDE DEF P
    <3>4. QED
      BY <2>4, <3>1, <3>2, <3>3, Zenon
  <2>7. \A z \in P : z \in Seq(DOMAIN LowerCase) /\ IsSuffix(z, input)
    BY <2>1, <2>2, ParentIsSuffix DEF Characters
  <2>8. found.byParent = <<nearest>>
    <3> HIDE DEF P
    <3>1. LongestOf(P) = <<nearest>>
      BY <2>1, <2>6, <2>7, KeptIsLongest DEF Characters
    <3>2. QED
      BY <3>1 DEF LongestZones, P
  <2>9. ASSUME \A z \in ToSet(walk) : IsSuffix(z, input) => z \in Above \cup {<<>>}
        PROVE  found.bySuffix = <<nearest>>
    <3>1. nearest \in S
      BY <2>6, <2>7
    <3>2. \A z \in S : z \in Seq(DOMAIN LowerCase) /\ IsSuffix(z, input)
      BY <2>2 DEF Characters
    <3>3. \A y \in S : Len(y) <= Len(nearest)
      <4>1. ASSUME NEW y \in S PROVE Len(y) <= Len(nearest)
        <5>1. y \in Above \/ y = <<>>
          BY <2>9, <4>1
        <5>2. CASE y \in Above
          BY <2>5, <5>2
        <5>3. CASE y = <<>>
          BY <2>2, <2>6, <5>3
        <5>4. QED
          BY <5>1, <5>2, <5>3
      <4>2. QED
        BY <4>1
    <3> HIDE DEF S
    <3>4. LongestOf(S) = <<nearest>>
      BY <2>1, <3>1, <3>2, <3>3, KeptIsLongest DEF Characters
    <3>5. QED
      BY <3>4 DEF LongestZones, S
  <2>10. QED
    BY <2>8, <2>9
<1>2. QED
  BY ScansInv, AnyWalk, <1>1, PTL

(***************************************************************************)
(* Filters.                                                                *)
(***************************************************************************)
\* A name below a domain has more dots than the domain.
LEMMA MoreDots ==
  ASSUME NEW f \in Seq(Characters), NEW s \in Seq(Characters), IsSuffix(<<".">> \o f, s)
  PROVE  Dots(s) # Dots(f)
<1> DEFINE F == {i \in DOMAIN f : f[i] = "."}
           S == {i \in DOMAIN s : s[i] = "."}
           d == <<".">> \o f
           k == Len(s) - Len(f)
           g == [i \in F |-> i + k]
<1>1. Len(f) \in Nat /\ Len(s) \in Nat /\ DOMAIN f = 1 .. Len(f) /\ DOMAIN s = 1 .. Len(s)
  OBVIOUS
<1>2. /\ d \in Seq(Characters) /\ Len(d) = Len(f) + 1 /\ d[1] = "."
      /\ \A i \in 1 .. Len(f) : d[i + 1] = f[i]
  BY InFront, DomainNamesAssumption DEF Characters
<1>3. Len(f) + 1 <= Len(s) /\ \A i \in 1 .. Len(f) + 1 : d[i] = s[Len(s) - (Len(f) + 1) + i]
  <2>1. IsSuffix(d, s)
    OBVIOUS
  <2> HIDE DEF d
  <2>2. Len(d) <= Len(s) /\ \A i \in 1 .. Len(d) : d[i] = s[Len(s) - Len(d) + i]
    BY <1>2, <2>1, SuffixAgrees
  <2>3. QED
    BY <1>2, <2>2
<1> HIDE DEF d
<1>4. k \in 1 .. Len(s) /\ s[k] = "."
  <2>1. k \in 1 .. Len(s) /\ 1 \in 1 .. Len(f) + 1 /\ Len(s) - (Len(f) + 1) + 1 = k
    BY <1>1, <1>3
  <2> HIDE DEF k
  <2>2. QED
    BY <1>2, <1>3, <2>1
<1>5. ASSUME NEW i \in 1 .. Len(f) PROVE i + k \in 1 .. Len(s) /\ s[i + k] = f[i] /\ i + k # k
  <2>1. \A a, b \in Nat : \A j \in 1 .. a :
          a + 1 <= b => /\ j + (b - a) \in 1 .. b /\ j + 1 \in 1 .. a + 1 /\ j + (b - a) # b - a
                        /\ b - (a + 1) + (j + 1) = j + (b - a)
    OBVIOUS
  <2>2. /\ i + k \in 1 .. Len(s) /\ i + 1 \in 1 .. Len(f) + 1 /\ i + k # k
        /\ Len(s) - (Len(f) + 1) + (i + 1) = i + k
    BY <1>1, <1>3, <2>1, Zenon
  <2> HIDE DEF k
  <2>3. QED
    BY <1>2, <1>3, <2>2
<1>6. IsFiniteSet(S) /\ IsFiniteSet(F)
  <2>1. IsFiniteSet(1 .. Len(s)) /\ IsFiniteSet(1 .. Len(f))
    BY <1>1, FS_Interval
  <2>2. S \in SUBSET (1 .. Len(s)) /\ F \in SUBSET (1 .. Len(f))
    BY <1>1
  <2>3. QED
    BY <2>1, <2>2, FS_Subset
<1>7. g \in Injection(F, S)
  <2>1. \A i \in F : i + k \in S
    BY <1>1, <1>5
  <2>2. g \in [F -> S]
    BY <2>1
  <2>3. \A i, j \in F : g[i] = g[j] => i = j
    BY <1>1
  <2> HIDE DEF g
  <2>4. QED
    BY <2>2, <2>3 DEF Injection, IsInjective
<1>8. g \notin Surjection(F, S)
  <2>1. k \in S /\ \A i \in F : g[i] # k
    BY <1>1, <1>4, <1>5
  <2> HIDE DEF g, k
  <2>2. QED
    BY <2>1 DEF Surjection
<1>9. Cardinality(F) # Cardinality(S)
  <2> HIDE DEF F, S, g
  <2>1. QED
    BY <1>6, <1>7, <1>8, FS_Injection
<1>10. QED
  BY <1>9 DEF Dots

\* What the comparison of characters and dots comes to.
LEMMA MatchIsCover ==
  ASSUME NEW f \in Seq(Characters), f # <<>>, NEW name, Stripped(name) \in Seq(Characters)
  PROVE  FilterMatches(f, Stripped(name)) <=> Covers(f, name)
<1> DEFINE s == Stripped(name)
<1>1. s \in Seq(Characters) /\ Len(s) \in Nat /\ Len(f) \in Nat /\ Len(f) > 0
  OBVIOUS
<1> HIDE DEF s
<1>2. CASE f[1] = "."
  <2> DEFINE t == Tail(f)
  <2>1. /\ t \in Seq(Characters) /\ Len(t) = Len(f) - 1
        /\ \A i \in 1 .. Len(t) : t[i] = f[i + 1]
    BY <1>1
  <2>2. <<".">> \o t = f
    <3> DEFINE e == <<".">> \o t
    <3>1. /\ e \in Seq(Characters) /\ Len(e) = Len(t) + 1 /\ e[1] = "."
          /\ \A i \in 1 .. Len(t) : e[i + 1] = t[i]
      BY <2>1, InFront, DomainNamesAssumption DEF Characters
    <3> HIDE DEF e, t
    <3>2. Len(e) = Len(f)
      BY <1>1, <2>1, <3>1
    <3>3. ASSUME NEW i \in 1 .. Len(f) PROVE e[i] = f[i]
      <4>1. CASE i = 1
        BY <1>2, <3>1, <4>1
      <4>2. CASE i # 1
        <5>1. i - 1 \in 1 .. Len(t) /\ (i - 1) + 1 = i
          BY <1>1, <2>1, <4>2
        <5>2. QED
          BY <2>1, <3>1, <5>1
      <4>3. QED
        BY <4>1, <4>2
    <3>4. QED
      BY <3>1, <3>2, <3>3 DEF e
  <2> HIDE DEF t
  <2>3. IsSuffix(f, s) => s # t
    <3>1. IsSuffix(f, s) => Len(f) <= Len(s)
      BY <1>1, SuffixAgrees
    <3>2. Len(t) < Len(f)
      BY <1>1, <2>1
    <3>3. QED
      BY <1>1, <2>1, <3>1, <3>2
  <2>4. IsBelowOrAt(s, t) <=> s = t \/ IsSuffix(f, s)
    BY <1>1, <2>1, <2>2, LabelsAgree DEF IsParent
  <2>5. Covers(f, name) <=> IsSuffix(f, s)
    BY <1>2, <2>3, <2>4 DEF Covers, s, t
  <2>6. IsSuffix(<<".">> \o f, s) => IsSuffix(f, s)
    <3>1. IsParent(f, s) => IsSuffix(f, s)
      BY <1>1, ParentIsSuffix DEF Characters
    <3>2. QED
      BY <3>1 DEF IsParent
  <2>7. s = f => IsSuffix(f, s)
    <3>1. IsParent(f, s) => IsSuffix(f, s)
      BY <1>1, ParentIsSuffix DEF Characters
    <3>2. QED
      BY <3>1 DEF IsParent
  <2>8. FilterMatches(f, s) <=> IsSuffix(f, s)
    BY <1>2, <2>6, <2>7 DEF FilterMatches
  <2>9. QED
    BY <2>5, <2>8 DEF s
<1>3. CASE f[1] # "."
  <2>1. Covers(f, name) <=> s = f \/ IsSuffix(<<".">> \o f, s)
    BY <1>1, <1>3, LabelsAgree DEF Covers, s, IsParent
  <2>2. IsSuffix(<<".">> \o f, s) => Dots(s) # Dots(f)
    BY <1>1, MoreDots
  <2>3. FilterMatches(f, s) <=> s = f \/ IsSuffix(<<".">> \o f, s)
    BY <1>3, <2>2 DEF FilterMatches
  <2>4. QED
    BY <2>1, <2>3 DEF s
<1>4. QED
  BY <1>2, <1>3

\* Stripping a dot leaves characters.
LEMMA StrippedType ==
  ASSUME NEW d \in Seq(Characters)
  PROVE  Stripped(d) \in Seq(Characters)
<1>1. TrimDot(d) \in Seq(Characters)
  BY DEF TrimDot, Last, Front
<1>2. QED
  BY <1>1, Lowered DEF Stripped

\* A filter of lists goes by labels (matchFilter, domain_filter.go:98): domains of
\* any number and length, with a dot in front or without, admit and exclude
\* names below them and no name that only ends in the same characters.
THEOREM FiltersGoByLabel == ASSUME Constructed PROVE Spec => []FiltersByLabel
<1> DEFINE Given == task = "filter" => input \in DomainFilters
<1>1. Init => Given
  BY DEF Init
<1>2. Given /\ [Next]_vars => Given'
  BY DEF Next, LookAtCandidate, LookAtZone, vars
<1>3. Given => FiltersByLabel
  <2> SUFFICES ASSUME input \in DomainFilters,
                      input.regex.text = "", input.regexExclusion.text = "",
                      NEW name \in LookedUp
               PROVE  Match(input, name) <=>
                        /\ input.filters = {} \/ \E f \in input.filters : Covers(f, name)
                        /\ \A f \in input.exclude : ~Covers(f, name)
    BY DEF FiltersByLabel
  <2>1. \A f \in input.filters \cup input.exclude : f \in Seq(Characters) /\ f # <<>>
    <3>1. CASE \E f, x \in SUBSET Domains : input = NewDomainFilterWithExclusions(f, x)
      <4>1. PICK f \in SUBSET Domains : \E x \in SUBSET Domains :
                   input = NewDomainFilterWithExclusions(f, x)
        BY <3>1
      <4>2. PICK x \in SUBSET Domains : input = NewDomainFilterWithExclusions(f, x)
        BY <4>1
      <4>3. input.filters = PrepareFilters(f) /\ input.exclude = PrepareFilters(x)
        BY <4>2 DEF NewDomainFilterWithExclusions
      <4>4. \A g \in SUBSET Domains : \A h \in PrepareFilters(g) : h \in Seq(Characters) /\ h # <<>>
        BY StrippedType DEF PrepareFilters, Domains
      <4>5. QED
        BY <4>3, <4>4
    <3>2. CASE \E r, x : input = NewRegexDomainFilter(r, x)
      <4>1. PICK r : \E x : input = NewRegexDomainFilter(r, x)
        BY <3>2
      <4>2. PICK x : input = NewRegexDomainFilter(r, x)
        BY <4>1
      <4>3. input.filters = {} /\ input.exclude = {}
        BY <4>2 DEF NewRegexDomainFilter
      <4>4. QED
        BY <4>3
    <3>3. QED
      BY <3>1, <3>2 DEF Constructed
  <2>2. Stripped(name) \in Seq(Characters)
    BY StrippedType, ScansAssumption DEF Characters
  <2>3. \A f \in input.filters \cup input.exclude :
          FilterMatches(f, Stripped(name)) <=> Covers(f, name)
    BY <2>1, <2>2, MatchIsCover
  <2>4. Match(input, name) <=>
          MatchFilter(input.filters, name, TRUE) /\ ~MatchFilter(input.exclude, name, FALSE)
    BY DEF Match
  <2>5. MatchFilter(input.filters, name, TRUE) <=>
          input.filters = {} \/ \E f \in input.filters : Covers(f, name)
    BY <2>1, <2>3 DEF MatchFilter
  <2>6. MatchFilter(input.exclude, name, FALSE) <=> \E f \in input.exclude : Covers(f, name)
    BY <2>1, <2>3 DEF MatchFilter
  <2>7. QED
    BY <2>4, <2>5, <2>6
<1>4. QED
  BY <1>1, <1>2, <1>3, PTL DEF Spec

(***************************************************************************)
(* Blocks of addresses.                                                    *)
(***************************************************************************)
\* Bit j of a byte, the first of which is the greatest.
ByteBit(byte, j) == (byte \div 2 ^ (8 - j)) % 2

\* A byte is its bits, and half a byte the half of them.
LEMMA HalfBytes ==
  ASSUME NEW x \in 0 .. 255, NEW y \in 0 .. 255
  PROVE  /\ x \div 16 = y \div 16 <=>
              \A j \in 1 .. 4 : ByteBit(x, j) = ByteBit(y, j)
         /\ x % 16 = y % 16 <=>
              \A j \in 5 .. 8 : ByteBit(x, j) = ByteBit(y, j)
         /\ x = y <=> x \div 16 = y \div 16 /\ x % 16 = y % 16
<1>1. /\ 2 ^ (8 - 1) = 128 /\ 2 ^ (8 - 2) = 64 /\ 2 ^ (8 - 3) = 32 /\ 2 ^ (8 - 4) = 16
      /\ 2 ^ (8 - 5) = 8 /\ 2 ^ (8 - 6) = 4 /\ 2 ^ (8 - 7) = 2 /\ 2 ^ (8 - 8) = 1
  OBVIOUS
<1>2. x \div 16 = y \div 16 <=>
        /\ (x \div 128) % 2 = (y \div 128) % 2 /\ (x \div 64) % 2 = (y \div 64) % 2
        /\ (x \div 32) % 2 = (y \div 32) % 2 /\ (x \div 16) % 2 = (y \div 16) % 2
  <2>1. ASSUME NEW v \in 0 .. 255
        PROVE  /\ v \div 128 = (v \div 128) % 2
               /\ v \div 64 = 2 * (v \div 128) + ((v \div 64) % 2)
               /\ v \div 32 = 2 * (v \div 64) + ((v \div 32) % 2)
               /\ v \div 16 = 2 * (v \div 32) + ((v \div 16) % 2)
               /\ v \div 128 \in Nat /\ v \div 64 \in Nat
               /\ v \div 32 \in Nat /\ v \div 16 \in Nat
               /\ (v \div 128) % 2 \in 0 .. 1 /\ (v \div 64) % 2 \in 0 .. 1
               /\ (v \div 32) % 2 \in 0 .. 1 /\ (v \div 16) % 2 \in 0 .. 1
    OBVIOUS
  <2>2. \A a, b, c, d, p, q, r, s \in 0 .. 1 :
          2 * (2 * (2 * a + b) + c) + d = 2 * (2 * (2 * p + q) + r) + s <=>
            a = p /\ b = q /\ c = r /\ d = s
    OBVIOUS
  <2>3. ASSUME NEW v \in 0 .. 255
        PROVE  v \div 16 = 2 * (2 * (2 * ((v \div 128) % 2) + ((v \div 64) % 2)) + ((v \div 32) % 2))
                              + ((v \div 16) % 2)
    BY <2>1
  <2> DEFINE a == (x \div 128) % 2  b == (x \div 64) % 2  c == (x \div 32) % 2  d == (x \div 16) % 2
             p == (y \div 128) % 2  q == (y \div 64) % 2  r == (y \div 32) % 2  s == (y \div 16) % 2
  <2>4. x \div 16 = 2 * (2 * (2 * a + b) + c) + d /\ y \div 16 = 2 * (2 * (2 * p + q) + r) + s
    BY <2>3
  <2>5. a \in 0 .. 1 /\ b \in 0 .. 1 /\ c \in 0 .. 1 /\ d \in 0 .. 1
    BY <2>1
  <2>6. p \in 0 .. 1 /\ q \in 0 .. 1 /\ r \in 0 .. 1 /\ s \in 0 .. 1
    BY <2>1
  <2>7. x \div 16 = y \div 16 <=> a = p /\ b = q /\ c = r /\ d = s
    <3> HIDE DEF a, b, c, d, p, q, r, s
    <3>1. QED
      BY <2>2, <2>4, <2>5, <2>6
  <2>8. QED
    BY <2>7
<1>3. x % 16 = y % 16 <=>
        /\ (x \div 8) % 2 = (y \div 8) % 2 /\ (x \div 4) % 2 = (y \div 4) % 2
        /\ (x \div 2) % 2 = (y \div 2) % 2 /\ (x \div 1) % 2 = (y \div 1) % 2
  OBVIOUS
<1>4. x = y <=> x \div 16 = y \div 16 /\ x % 16 = y % 16
  OBVIOUS
<1>5. (\A j \in 1 .. 4 : ByteBit(x, j) = ByteBit(y, j)) <=>
        /\ (x \div 128) % 2 = (y \div 128) % 2 /\ (x \div 64) % 2 = (y \div 64) % 2
        /\ (x \div 32) % 2 = (y \div 32) % 2 /\ (x \div 16) % 2 = (y \div 16) % 2
  <2> DEFINE Alike(j) == ByteBit(x, j) = ByteBit(y, j)
  <2>1. /\ Alike(1) <=> (x \div 128) % 2 = (y \div 128) % 2
        /\ Alike(2) <=> (x \div 64) % 2 = (y \div 64) % 2
        /\ Alike(3) <=> (x \div 32) % 2 = (y \div 32) % 2
        /\ Alike(4) <=> (x \div 16) % 2 = (y \div 16) % 2
    BY <1>1 DEF ByteBit
  <2>2. \A j \in 1 .. 4 : j = 1 \/ j = 2 \/ j = 3 \/ j = 4
    OBVIOUS
  <2>3. 1 \in 1 .. 4 /\ 2 \in 1 .. 4 /\ 3 \in 1 .. 4 /\ 4 \in 1 .. 4
    OBVIOUS
  <2> HIDE DEF Alike
  <2>4. (\A j \in 1 .. 4 : Alike(j)) <=> Alike(1) /\ Alike(2) /\ Alike(3) /\ Alike(4)
    BY <2>2, <2>3
  <2>5. QED
    BY <2>1, <2>4 DEF Alike
<1>6. (\A j \in 5 .. 8 : ByteBit(x, j) = ByteBit(y, j)) <=>
        /\ (x \div 8) % 2 = (y \div 8) % 2 /\ (x \div 4) % 2 = (y \div 4) % 2
        /\ (x \div 2) % 2 = (y \div 2) % 2 /\ (x \div 1) % 2 = (y \div 1) % 2
  <2> DEFINE Alike(j) == ByteBit(x, j) = ByteBit(y, j)
  <2>1. /\ Alike(5) <=> (x \div 8) % 2 = (y \div 8) % 2
        /\ Alike(6) <=> (x \div 4) % 2 = (y \div 4) % 2
        /\ Alike(7) <=> (x \div 2) % 2 = (y \div 2) % 2
        /\ Alike(8) <=> (x \div 1) % 2 = (y \div 1) % 2
    BY <1>1 DEF ByteBit
  <2>2. \A j \in 5 .. 8 : j = 5 \/ j = 6 \/ j = 7 \/ j = 8
    OBVIOUS
  <2>3. 5 \in 5 .. 8 /\ 6 \in 5 .. 8 /\ 7 \in 5 .. 8 /\ 8 \in 5 .. 8
    OBVIOUS
  <2> HIDE DEF Alike
  <2>4. (\A j \in 5 .. 8 : Alike(j)) <=> Alike(5) /\ Alike(6) /\ Alike(7) /\ Alike(8)
    BY <2>2, <2>3
  <2>5. QED
    BY <2>1, <2>4 DEF Alike
<1>7. QED
  BY <1>2, <1>3, <1>4, <1>5, <1>6

\* A bit of an address is a bit of one byte of it.
LEMMA BitOfByte ==
  ASSUME NEW n \in Nat, NEW a \in [1 .. n -> 0 .. 255], NEW i \in 1 .. n, NEW j \in 1 .. 8
  PROVE  Bit(a, 8 * (i - 1) + j) = ByteBit(a[i], j)
<1>1. ((8 * (i - 1) + j - 1) \div 8) + 1 = i /\ 7 - ((8 * (i - 1) + j - 1) % 8) = 8 - j
  OBVIOUS
<1>2. QED
  BY <1>1 DEF Bit, ByteBit

\* Bytes are equal if their bits are, and so are half bytes.
LEMMA ByteBits ==
  ASSUME NEW n \in Nat, NEW a \in [1 .. n -> 0 .. 255], NEW x \in [1 .. n -> 0 .. 255], NEW i \in 1 .. n
  PROVE  x[i] = a[i] <=> \A j \in 1 .. 8 : Bit(x, 8 * (i - 1) + j) = Bit(a, 8 * (i - 1) + j)
<1> DEFINE Alike(j) == ByteBit(x[i], j) = ByteBit(a[i], j)
<1>1. x[i] \in 0 .. 255 /\ a[i] \in 0 .. 255
  OBVIOUS
<1>2. ASSUME NEW j \in 1 .. 8
      PROVE  Alike(j) <=> Bit(x, 8 * (i - 1) + j) = Bit(a, 8 * (i - 1) + j)
  <2>1. Bit(x, 8 * (i - 1) + j) = ByteBit(x[i], j) /\ Bit(a, 8 * (i - 1) + j) = ByteBit(a[i], j)
    BY BitOfByte, Zenon
  <2>2. QED
    BY <2>1, Zenon
<1>3. x[i] = a[i] <=> (\A j \in 1 .. 4 : Alike(j)) /\ (\A j \in 5 .. 8 : Alike(j))
  BY <1>1, HalfBytes
<1>4. \A j \in 1 .. 8 : j \in 1 .. 4 \/ j \in 5 .. 8
  OBVIOUS
<1>5. \A j : j \in 1 .. 4 \/ j \in 5 .. 8 => j \in 1 .. 8
  OBVIOUS
<1> HIDE DEF Alike
<1>6. QED
  BY <1>2, <1>3, <1>4, <1>5

\* Digits of an IPv6 address are equal when their four bits are.
LEMMA NibbleBits ==
  ASSUME NEW n \in Nat, NEW a \in [1 .. n -> 0 .. 255], NEW x \in [1 .. n -> 0 .. 255],
         NEW q \in 1 .. 2 * n
  PROVE  Nibbles(x)[q] = Nibbles(a)[q] <=>
           \A j \in 1 .. 4 : Bit(x, 4 * (q - 1) + j) = Bit(a, 4 * (q - 1) + j)
<1>1. Len(a) = n /\ Len(x) = n
  OBVIOUS
<1>2. CASE q % 2 = 1
  <2> DEFINE i == (q + 1) \div 2
             Alike(j) == ByteBit(x[i], j) = ByteBit(a[i], j)
  <2>1. i \in 1 .. n /\ 4 * (q - 1) = 8 * (i - 1) /\ \A j \in 1 .. 4 : j \in 1 .. 8
    BY <1>2
  <2>2. Nibbles(x)[q] = x[i] \div 16 /\ Nibbles(a)[q] = a[i] \div 16
    BY <1>1, <1>2 DEF Nibbles
  <2> HIDE DEF i
  <2>3. Nibbles(x)[q] = Nibbles(a)[q] <=> \A j \in 1 .. 4 : Alike(j)
    <3>1. x[i] \in 0 .. 255 /\ a[i] \in 0 .. 255
      BY <2>1
    <3>2. x[i] \div 16 = a[i] \div 16 <=> \A j \in 1 .. 4 : ByteBit(x[i], j) = ByteBit(a[i], j)
      BY <3>1, HalfBytes, Zenon
    <3>3. QED
      BY <2>2, <3>2, Zenon
  <2>4. ASSUME NEW j \in 1 .. 4
        PROVE  Alike(j) <=> Bit(x, 4 * (q - 1) + j) = Bit(a, 4 * (q - 1) + j)
    <3>1. /\ Bit(x, 8 * (i - 1) + j) = ByteBit(x[i], j)
          /\ Bit(a, 8 * (i - 1) + j) = ByteBit(a[i], j)
      BY <2>1, BitOfByte
    <3>2. QED
      BY <2>1, <3>1, Zenon
  <2> HIDE DEF Alike
  <2>5. QED
    BY <2>3, <2>4
<1>3. CASE q % 2 # 1
  <2> DEFINE i == q \div 2
             Alike(j) == ByteBit(x[i], j) = ByteBit(a[i], j)
  <2>1. /\ i \in 1 .. n
        /\ \A j \in 1 .. 4 : j + 4 \in 5 .. 8 /\ j + 4 \in 1 .. 8 /\ 4 * (q - 1) + j = 8 * (i - 1) + (j + 4)
        /\ \A j \in 5 .. 8 : j - 4 \in 1 .. 4 /\ (j - 4) + 4 = j
    BY <1>3
  <2>2. Nibbles(x)[q] = x[i] % 16 /\ Nibbles(a)[q] = a[i] % 16
    BY <1>1, <1>3 DEF Nibbles
  <2> HIDE DEF i
  <2>3. Nibbles(x)[q] = Nibbles(a)[q] <=> \A j \in 5 .. 8 : Alike(j)
    <3>1. x[i] \in 0 .. 255 /\ a[i] \in 0 .. 255
      BY <2>1
    <3>2. x[i] % 16 = a[i] % 16 <=> \A j \in 5 .. 8 : ByteBit(x[i], j) = ByteBit(a[i], j)
      BY <3>1, HalfBytes, Zenon
    <3>3. QED
      BY <2>2, <3>2, Zenon
  <2>4. ASSUME NEW j \in 1 .. 4
        PROVE  Alike(j + 4) <=> Bit(x, 4 * (q - 1) + j) = Bit(a, 4 * (q - 1) + j)
    <3>1. /\ Bit(x, 8 * (i - 1) + (j + 4)) = ByteBit(x[i], j + 4)
          /\ Bit(a, 8 * (i - 1) + (j + 4)) = ByteBit(a[i], j + 4)
      BY <2>1, BitOfByte
    <3>2. QED
      BY <2>1, <3>1, Zenon
  <2> HIDE DEF Alike
  <2>5. (\A j \in 5 .. 8 : Alike(j)) <=> \A j \in 1 .. 4 : Alike(j + 4)
    BY <2>1
  <2>6. QED
    BY <2>3, <2>4, <2>5
<1>4. QED
  BY <1>2, <1>3

\* The bits that a mask covers, by the labels they make.
LEMMA MaskedBytes ==
  ASSUME NEW n \in Nat, NEW a \in [1 .. n -> 0 .. 255], NEW x \in [1 .. n -> 0 .. 255],
         NEW m \in 0 .. n
  PROVE  (\A k \in 1 .. 8 * m : Bit(x, k) = Bit(a, k)) <=> \A i \in 1 .. m : x[i] = a[i]
<1> DEFINE Alike(k) == Bit(x, k) = Bit(a, k)
<1>1. ASSUME NEW i \in 1 .. m
      PROVE  x[i] = a[i] <=> \A j \in 1 .. 8 : Alike(8 * (i - 1) + j)
  <2>1. i \in 1 .. n
    OBVIOUS
  <2>2. QED
    BY <2>1, ByteBits, Zenon
<1>2. \A i \in 1 .. m : \A j \in 1 .. 8 : 8 * (i - 1) + j \in 1 .. 8 * m
  OBVIOUS
<1>3. ASSUME NEW k \in 1 .. 8 * m
      PROVE  \E i \in 1 .. m : \E j \in 1 .. 8 : k = 8 * (i - 1) + j
  <2> DEFINE d == (k - 1) \div 8
             r == (k - 1) % 8
  <2>1. k - 1 \in Nat /\ k - 1 < 8 * m
    OBVIOUS
  <2>2. d \in Nat /\ r \in 0 .. 7 /\ k - 1 = 8 * d + r
    <3>1. \A v \in Nat : v \div 8 \in Nat /\ v % 8 \in 0 .. 7 /\ v = 8 * (v \div 8) + (v % 8)
      OBVIOUS
    <3>2. QED
      BY <2>1, <3>1, Zenon
  <2> HIDE DEF d, r
  <2>3. d + 1 \in 1 .. m /\ r + 1 \in 1 .. 8 /\ k = 8 * ((d + 1) - 1) + (r + 1)
    BY <2>1, <2>2
  <2>4. QED
    BY <2>3
<1> HIDE DEF Alike
<1>4. (\A k \in 1 .. 8 * m : Alike(k)) <=> \A i \in 1 .. m : \A j \in 1 .. 8 : Alike(8 * (i - 1) + j)
  BY <1>2, <1>3
<1>5. QED
  BY <1>1, <1>4 DEF Alike

\* Addresses agree in a mask of whole digits when their first digits are equal.
LEMMA MaskedNibbles ==
  ASSUME NEW n \in Nat, NEW a \in [1 .. n -> 0 .. 255], NEW x \in [1 .. n -> 0 .. 255],
         NEW m \in 0 .. 2 * n
  PROVE  (\A k \in 1 .. 4 * m : Bit(x, k) = Bit(a, k)) <=>
           \A q \in 1 .. m : Nibbles(x)[q] = Nibbles(a)[q]
<1> DEFINE Alike(k) == Bit(x, k) = Bit(a, k)
<1>1. ASSUME NEW q \in 1 .. m
      PROVE  Nibbles(x)[q] = Nibbles(a)[q] <=> \A j \in 1 .. 4 : Alike(4 * (q - 1) + j)
  <2>1. q \in 1 .. 2 * n
    OBVIOUS
  <2>2. QED
    BY <2>1, NibbleBits, Zenon
<1>2. \A i \in 1 .. m : \A j \in 1 .. 4 : 4 * (i - 1) + j \in 1 .. 4 * m
  OBVIOUS
<1>3. ASSUME NEW k \in 1 .. 4 * m
      PROVE  \E i \in 1 .. m : \E j \in 1 .. 4 : k = 4 * (i - 1) + j
  <2> DEFINE d == (k - 1) \div 4
             r == (k - 1) % 4
  <2>1. k - 1 \in Nat /\ k - 1 < 4 * m
    OBVIOUS
  <2>2. d \in Nat /\ r \in 0 .. 3 /\ k - 1 = 4 * d + r
    <3>1. \A v \in Nat : v \div 4 \in Nat /\ v % 4 \in 0 .. 3 /\ v = 4 * (v \div 4) + (v % 4)
      OBVIOUS
    <3>2. QED
      BY <2>1, <3>1, Zenon
  <2> HIDE DEF d, r
  <2>3. d + 1 \in 1 .. m /\ r + 1 \in 1 .. 4 /\ k = 4 * ((d + 1) - 1) + (r + 1)
    BY <2>1, <2>2
  <2>4. QED
    BY <2>3
<1> HIDE DEF Alike
<1>4. (\A k \in 1 .. 4 * m : Alike(k)) <=> \A i \in 1 .. m : \A j \in 1 .. 4 : Alike(4 * (i - 1) + j)
  BY <1>2, <1>3
<1>5. QED
  BY <1>1, <1>4 DEF Alike

\* A reverse name has the digits of the address from the last to the first, and
\* two labels behind them.
Digits(a) == IF Len(a) = 4 THEN a ELSE Nibbles(a)
Family(a) == IF Len(a) = 4 THEN "in-addr" ELSE "ip6"
Label == Nat \cup {"in-addr", "ip6", "arpa"}

\* The name and the block of an address that is not a mapped one.
PlainName(a) == Reverse(Digits(a)) \o <<Family(a), "arpa">>
SameBits(x, a, b) == Len(x) = Len(a) /\ \A i \in 1 .. b : Bit(x, i) = Bit(a, i)

\* The labels of a reverse name: the digits from the last, and the family.
LEMMA ReverseName ==
  ASSUME NEW a, NEW N \in Nat, Digits(a) \in [1 .. N -> Nat]
  PROVE  /\ PlainName(a) \in Seq(Label) /\ Len(PlainName(a)) = N + 2
         /\ PlainName(a)[N + 2] = "arpa" /\ PlainName(a)[N + 1] = Family(a)
         /\ \A q \in 1 .. N : PlainName(a)[q] = Digits(a)[N + 1 - q]
<1> DEFINE D == Digits(a)
           R == Reverse(D)
           F == <<Family(a), "arpa">>
<1>1. PlainName(a) = R \o F
  BY DEF PlainName
<1>2. Len(D) = N
  OBVIOUS
<1>3. R = [i \in 1 .. N |-> D[(N - i) + 1]]
  BY <1>2 DEF Reverse
<1>4. \A i \in 1 .. N : (N - i) + 1 \in 1 .. N /\ (N - i) + 1 = N + 1 - i
  OBVIOUS
<1>5. R \in [1 .. N -> Label]
  BY <1>3, <1>4 DEF Label
<1>6. F \in Seq(Label) /\ Len(F) = 2 /\ F[1] = Family(a) /\ F[2] = "arpa"
  BY DEF Family, Label
<1>7. R \in Seq(Label) /\ Len(R) = N
  BY <1>5
<1>8. \A q \in 1 .. N : R[q] = D[N + 1 - q]
  BY <1>3, <1>4
<1> HIDE DEF R, F, D
<1>9. /\ R \o F \in Seq(Label) /\ Len(R \o F) = N + 2
      /\ (R \o F)[N + 2] = F[2] /\ (R \o F)[N + 1] = F[1]
      /\ \A q \in 1 .. N : (R \o F)[q] = R[q]
  <2>0. /\ R \o F \in Seq(Label) /\ Len(R \o F) = Len(R) + Len(F)
        /\ \A i \in 1 .. Len(R) + Len(F) : (R \o F)[i] = IF i <= Len(R) THEN R[i] ELSE F[i - Len(R)]
    BY <1>6, <1>7, ConcatProperties, Zenon
  <2> DEFINE C == R \o F
  <2> HIDE DEF C
  <2>1. C \in Seq(Label) /\ Len(C) = N + 2
    BY <1>6, <1>7, <2>0 DEF C
  <2>2. \A i \in 1 .. N + 2 : C[i] = IF i <= N THEN R[i] ELSE F[i - N]
    BY <1>6, <1>7, <2>0 DEF C
  <2>3. /\ N + 2 \in 1 .. N + 2 /\ N + 1 \in 1 .. N + 2 /\ ~(N + 2 <= N) /\ ~(N + 1 <= N)
        /\ N + 2 - N = 2 /\ N + 1 - N = 1
        /\ \A q \in 1 .. N : q \in 1 .. N + 2 /\ q <= N
    OBVIOUS
  <2>4. QED
    BY <2>1, <2>2, <2>3 DEF C
<1>10. QED
  BY <1>1, <1>6, <1>8, <1>9 DEF D

\* What is left of a reverse name when digits are cut off in front is the end of
\* the names of one family with the same first digits.
CutOf(z, a, N, T) ==
  /\ z \in Seq(Label) /\ Len(z) = N + 2 - T
  /\ \A i \in 1 .. N + 2 - T : z[i] = PlainName(a)[T + i]

SameDigits(x, a, m) == \A q \in 1 .. m : Digits(x)[q] = Digits(a)[q]

\* A reverse name without its first labels is the ending of those of one block.
LEMMA CutReverseName ==
  ASSUME NEW a, NEW x, NEW N \in Nat, NEW M \in Nat, Digits(a) \in [1 .. N -> Nat],
         Digits(x) \in [1 .. M -> Nat], NEW T \in 0 .. N, NEW z, CutOf(z, a, N, T)
  PROVE  /\ IsSuffix(z, PlainName(x)) => Family(x) = Family(a)
         /\ N = M /\ Family(x) = Family(a) =>
              (IsSuffix(z, PlainName(x)) <=> SameDigits(x, a, N - T))
<1> DEFINE r == PlainName(a)
           s == PlainName(x)
           Z == N + 2 - T
<1>0. z \in Seq(Label) /\ Len(z) = Z /\ \A i \in 1 .. Z : z[i] = r[T + i]
  BY DEF CutOf
<1>1. /\ r \in Seq(Label) /\ Len(r) = N + 2 /\ r[N + 2] = "arpa" /\ r[N + 1] = Family(a)
      /\ \A q \in 1 .. N : r[q] = Digits(a)[N + 1 - q]
  BY ReverseName
<1>2. /\ s \in Seq(Label) /\ Len(s) = M + 2 /\ s[M + 2] = "arpa" /\ s[M + 1] = Family(x)
      /\ \A q \in 1 .. M : s[q] = Digits(x)[M + 1 - q]
  BY ReverseName
<1>3. Z \in Nat /\ Z >= 2 /\ Z - 1 \in 1 .. Z /\ T + (Z - 1) = N + 1
  OBVIOUS
<1> HIDE DEF r, s
<1>4. IsSuffix(z, s) <=> Z <= M + 2 /\ \A i \in 1 .. Z : z[i] = s[(M + 2) - Z + i]
  <2>1. IsSuffix(z, s) <=> Len(z) <= Len(s) /\ \A i \in 1 .. Len(z) : z[i] = s[Len(s) - Len(z) + i]
    BY <1>0, <1>2, SuffixAgrees, Zenon
  <2>2. \A l, h : l = Len(z) /\ h = Len(s) =>
          (IsSuffix(z, s) <=> l <= h /\ \A i \in 1 .. l : z[i] = s[h - l + i])
    BY <2>1, Zenon
  <2>3. Len(z) = Z /\ Len(s) = M + 2
    BY <1>0, <1>2, Zenon
  <2> DEFINE H == M + 2
  <2>4. Z = Len(z) /\ H = Len(s)
    BY <2>3
  <2> HIDE DEF Z, H
  <2>5. IsSuffix(z, s) <=> Z <= H /\ \A i \in 1 .. Z : z[i] = s[H - Z + i]
    BY <2>2, <2>4, Zenon
  <2>6. QED
    BY <2>5 DEF H
<1>5. IsSuffix(z, s) <=> Z <= M + 2 /\ \A i \in 1 .. Z : r[T + i] = s[(M + 2) - Z + i]
  BY <1>0, <1>4
<1>6. ASSUME IsSuffix(z, s) PROVE Family(x) = Family(a)
  <2>1. r[T + (Z - 1)] = s[(M + 2) - Z + (Z - 1)]
    BY <1>3, <1>5, <1>6
  <2>2. (M + 2) - Z + (Z - 1) = M + 1
    BY <1>3
  <2>3. QED
    BY <1>1, <1>2, <1>3, <2>1, <2>2
<1>7. ASSUME N = M, Family(x) = Family(a)
      PROVE  IsSuffix(z, s) <=> \A q \in 1 .. N - T : Digits(x)[q] = Digits(a)[q]
  <2>1. Z <= M + 2 /\ \A i \in 1 .. Z : (M + 2) - Z + i = T + i
    BY <1>7
  <2>2. IsSuffix(z, s) <=> \A i \in 1 .. Z : r[T + i] = s[T + i]
    BY <1>5, <2>1
  <2>3. ASSUME \A i \in 1 .. Z : r[T + i] = s[T + i], NEW q \in 1 .. N - T
        PROVE  Digits(x)[q] = Digits(a)[q]
    <3>1. N + 1 - q - T \in 1 .. Z /\ T + (N + 1 - q - T) = N + 1 - q /\ N + 1 - q \in 1 .. N
          /\ N + 1 - (N + 1 - q) = q
      OBVIOUS
    <3>2. r[N + 1 - q] = s[N + 1 - q]
      BY <2>3, <3>1
    <3>3. r[N + 1 - q] = Digits(a)[q] /\ s[N + 1 - q] = Digits(x)[q]
      BY <1>1, <1>2, <1>7, <3>1
    <3>4. QED
      BY <3>2, <3>3
  <2>4. ASSUME \A q \in 1 .. N - T : Digits(x)[q] = Digits(a)[q], NEW i \in 1 .. Z
        PROVE  r[T + i] = s[T + i]
    <3>1. CASE T + i = N + 2
      BY <1>1, <1>2, <1>7, <3>1
    <3>2. CASE T + i = N + 1
      BY <1>1, <1>2, <1>7, <3>2
    <3>3. CASE T + i # N + 1 /\ T + i # N + 2
      <4>1. T + i \in 1 .. N /\ N + 1 - (T + i) \in 1 .. N - T
        BY <3>3
      <4>2. r[T + i] = Digits(a)[N + 1 - (T + i)] /\ s[T + i] = Digits(x)[N + 1 - (T + i)]
        BY <1>1, <1>2, <1>7, <4>1
      <4>3. QED
        BY <2>4, <4>1, <4>2
    <3>4. QED
      BY <3>1, <3>2, <3>3
  <2>5. QED
    BY <2>2, <2>3, <2>4
<1>8. QED
  BY <1>6, <1>7 DEF s, SameDigits

\* What is left of a sequence when some elements are cut off in front.
LEMMA CutInFront ==
  ASSUME NEW S, NEW s \in Seq(S), NEW t \in 0 .. Len(s)
  PROVE  LET z == SubSeq(s, t + 1, Len(s))
         IN  /\ z \in Seq(S) /\ Len(z) = Len(s) - t
             /\ \A i \in 1 .. Len(s) - t : z[i] = s[t + i]
<1> DEFINE z == SubSeq(s, t + 1, Len(s))
<1>1. t + 1 \in Int /\ Len(s) \in Int /\ \A i \in t + 1 .. Len(s) : s[i] \in S
  OBVIOUS
<1>2. /\ z \in Seq(S) /\ Len(z) = IF t + 1 <= Len(s) THEN Len(s) - (t + 1) + 1 ELSE 0
      /\ \A i \in 1 .. Len(s) - (t + 1) + 1 : z[i] = s[t + 1 + i - 1]
  BY <1>1, SubSeqProperties
<1> HIDE DEF z
<1>3. Len(s) \in Nat /\ t \in Nat /\ t + 1 <= Len(s) + 1
  OBVIOUS
<1>4. Len(z) = Len(s) - t
  BY <1>2, <1>3
<1>5. ASSUME NEW i \in 1 .. Len(s) - t PROVE z[i] = s[t + i]
  <2>1. i \in 1 .. Len(s) - (t + 1) + 1 /\ t + 1 + i - 1 = t + i
    BY <1>3
  <2>2. QED
    BY <1>2, <2>1, Zenon
<1>6. QED
  BY <1>2, <1>4, <1>5 DEF z

\* A label put in front and taken away again.
LEMMA TailOfFront ==
  ASSUME NEW S, NEW p \in S, NEW s \in Seq(S)
  PROVE  Tail(<<p>> \o s) = s
<1> DEFINE c == <<p>> \o s
           n == Len(s)
<1>1. <<p>> \in Seq(S) /\ Len(<<p>>) = 1 /\ n \in Nat
  OBVIOUS
<1>2. /\ c \in Seq(S) /\ Len(c) = Len(<<p>>) + n
      /\ \A i \in 1 .. Len(<<p>>) + n : c[i] = IF i <= Len(<<p>>) THEN <<p>>[i] ELSE s[i - Len(<<p>>)]
  BY <1>1, ConcatProperties, Zenon
<1> HIDE DEF c, n
<1>3. Len(c) = n + 1 /\ \A i \in 1 .. n : c[i + 1] = s[i]
  <2>1. Len(c) = n + 1 /\ \A i \in 1 .. n + 1 : c[i] = IF i <= 1 THEN <<p>>[i] ELSE s[i - 1]
    BY <1>1, <1>2
  <2>2. \A i \in 1 .. n : i + 1 \in 1 .. n + 1 /\ ~(i + 1 <= 1) /\ (i + 1) - 1 = i
    BY <1>1
  <2>3. QED
    BY <2>1, <2>2
<1>4. c # <<>>
  BY <1>1, <1>3
<1>5. Tail(c) \in Seq(S) /\ Len(Tail(c)) = n /\ \A i \in 1 .. n : Tail(c)[i] = s[i]
  <2>1. /\ Tail(c) \in Seq(S) /\ Len(Tail(c)) = Len(c) - 1
        /\ \A i \in 1 .. Len(Tail(c)) : Tail(c)[i] = c[i + 1]
    BY <1>2, <1>4, HeadTailProperties, Zenon
  <2>2. Len(Tail(c)) = n
    BY <1>1, <1>3, <2>1
  <2>3. QED
    BY <1>3, <2>1, <2>2
<1>6. Tail(c) = s
  BY <1>5, SeqEqual, Zenon DEF n
<1>7. QED
  BY <1>6 DEF c

IPs == [1 .. 4 -> 0 .. 255] \cup [1 .. 16 -> 0 .. 255]

\* The digits of an address: four bytes, or thirty-two halves of bytes.
LEMMA DigitsType ==
  ASSUME NEW a \in IPs
  PROVE  /\ Len(a) = 4 \/ Len(a) = 16
         /\ Len(a) = 4 => /\ a \in [1 .. 4 -> 0 .. 255] /\ Family(a) = "in-addr"
                          /\ Digits(a) = a /\ Digits(a) \in [1 .. 4 -> Nat]
         /\ Len(a) = 16 => /\ a \in [1 .. 16 -> 0 .. 255] /\ Family(a) = "ip6"
                           /\ Digits(a) = Nibbles(a) /\ Digits(a) \in [1 .. 32 -> Nat]
<1>1. CASE a \in [1 .. 4 -> 0 .. 255]
  <2>1. Len(a) = 4 /\ a \in [1 .. 4 -> Nat]
    BY <1>1
  <2>2. QED
    BY <1>1, <2>1 DEF Digits, Family
<1>2. CASE a \in [1 .. 16 -> 0 .. 255]
  <2>1. Len(a) = 16
    BY <1>2
  <2>2. ASSUME NEW q \in 1 .. 2 * 16
        PROVE  (IF q % 2 = 1 THEN a[(q + 1) \div 2] \div 16 ELSE a[q \div 2] % 16) \in Nat
    <3>1. CASE q % 2 = 1
      <4>1. (q + 1) \div 2 \in 1 .. 16
        BY <3>1
      <4>2. a[(q + 1) \div 2] \in 0 .. 255
        BY <1>2, <4>1
      <4>3. \A v \in 0 .. 255 : v \div 16 \in Nat
        OBVIOUS
      <4>4. QED
        BY <3>1, <4>2, <4>3, Zenon
    <3>2. CASE q % 2 # 1
      <4>1. q \div 2 \in 1 .. 16
        BY <3>2
      <4>2. a[q \div 2] \in 0 .. 255
        BY <1>2, <4>1
      <4>3. \A v \in 0 .. 255 : v % 16 \in Nat
        OBVIOUS
      <4>4. QED
        BY <3>2, <4>2, <4>3, Zenon
    <3>3. QED
      BY <3>1, <3>2
  <2>3. Nibbles(a) \in [1 .. 2 * 16 -> Nat]
    BY <2>1, <2>2, Zenon DEF Nibbles
  <2>4. 2 * 16 = 32
    OBVIOUS
  <2>5. QED
    BY <1>2, <2>1, <2>3, <2>4 DEF Digits, Family
<1>3. QED
  BY <1>1, <1>2 DEF IPs

\* A mask of whole digits is about digits.
LEMMA BlockDigits ==
  ASSUME NEW a \in IPs, NEW x \in IPs, Len(a) = Len(x), NEW m \in Nat,
         LabelBits(a) * m <= BitsOf(a)
  PROVE  SameBits(x, a, LabelBits(a) * m) <=> \A q \in 1 .. m : Digits(x)[q] = Digits(a)[q]
<1>1. CASE Len(a) = 4
  <2>1. /\ a \in [1 .. 4 -> 0 .. 255] /\ Digits(a) = a
        /\ x \in [1 .. 4 -> 0 .. 255] /\ Digits(x) = x
    BY <1>1, DigitsType, Zenon
  <2>2. LabelBits(a) = 8 /\ m \in 0 .. 4
    BY <1>1 DEF LabelBits, BitsOf
  <2>3. (\A k \in 1 .. 8 * m : Bit(x, k) = Bit(a, k)) <=> \A q \in 1 .. m : x[q] = a[q]
    BY <2>1, <2>2, 4 \in Nat, MaskedBytes, Zenon
  <2>4. QED
    BY <2>1, <2>2, <2>3, Zenon DEF SameBits
<1>2. CASE Len(a) = 16
  <2>1. /\ a \in [1 .. 16 -> 0 .. 255] /\ Digits(a) = Nibbles(a)
        /\ x \in [1 .. 16 -> 0 .. 255] /\ Digits(x) = Nibbles(x)
    BY <1>2, DigitsType, Zenon
  <2>2. LabelBits(a) = 4 /\ m \in 0 .. 2 * 16
    BY <1>2 DEF LabelBits, BitsOf
  <2>3. (\A k \in 1 .. 4 * m : Bit(x, k) = Bit(a, k)) <=> \A q \in 1 .. m : Nibbles(x)[q] = Nibbles(a)[q]
    BY <2>1, <2>2, 16 \in Nat, MaskedNibbles, Zenon
  <2>4. QED
    BY <2>1, <2>2, <2>3, Zenon DEF SameBits
<1>3. QED
  BY <1>1, <1>2, DigitsType


\* The digits of a reverse zone are those that the mask covers.
LEMMA WholeDigits ==
  ASSUME NEW a \in IPs, NEW b \in Nat, b <= BitsOf(a), b % LabelBits(a) = 0
  PROVE  \E m \in Nat, N \in Nat :
           /\ b = LabelBits(a) * m /\ Digits(a) \in [1 .. N -> Nat] /\ m <= N
           /\ (BitsOf(a) - b) \div LabelBits(a) = N - m
           /\ \A x \in IPs : Len(x) = Len(a) => Digits(x) \in [1 .. N -> Nat]
<1>1. CASE Len(a) = 4
  <2>1. LabelBits(a) = 8 /\ BitsOf(a) = 32
    BY <1>1 DEF LabelBits, BitsOf
  <2>2. b \in Nat /\ b <= 32 /\ b % 8 = 0
    BY <2>1
  <2>3. b \div 8 \in Nat /\ b = 8 * (b \div 8) /\ b \div 8 <= 4 /\ (32 - b) \div 8 = 4 - (b \div 8)
    BY <2>2
  <2>4. /\ Digits(a) \in [1 .. 4 -> Nat]
        /\ \A x \in IPs : Len(x) = Len(a) => Digits(x) \in [1 .. 4 -> Nat]
    <3>1. ASSUME NEW x \in IPs, Len(x) = 4 PROVE Digits(x) \in [1 .. 4 -> Nat]
      BY <3>1, DigitsType, Zenon
    <3>2. QED
      BY <1>1, <3>1, Zenon
  <2> DEFINE m == b \div 8
  <2>5. m \in Nat /\ 4 \in Nat
    BY <2>3
  <2>6. /\ b = LabelBits(a) * m /\ Digits(a) \in [1 .. 4 -> Nat] /\ m <= 4
        /\ (BitsOf(a) - b) \div LabelBits(a) = 4 - m
        /\ \A x \in IPs : Len(x) = Len(a) => Digits(x) \in [1 .. 4 -> Nat]
    BY <2>1, <2>3, <2>4, Zenon
  <2> HIDE DEF m
  <2>7. QED
    BY <2>5, <2>6, Zenon
<1>2. CASE Len(a) = 16
  <2>1. LabelBits(a) = 4 /\ BitsOf(a) = 128
    BY <1>2 DEF LabelBits, BitsOf
  <2>2. b \in Nat /\ b <= 128 /\ b % 4 = 0
    BY <2>1
  <2>3. b \div 4 \in Nat /\ b = 4 * (b \div 4) /\ b \div 4 <= 32 /\ (128 - b) \div 4 = 32 - (b \div 4)
    BY <2>2
  <2>4. /\ Digits(a) \in [1 .. 32 -> Nat]
        /\ \A x \in IPs : Len(x) = Len(a) => Digits(x) \in [1 .. 32 -> Nat]
    <3>1. ASSUME NEW x \in IPs, Len(x) = 16 PROVE Digits(x) \in [1 .. 32 -> Nat]
      BY <3>1, DigitsType, Zenon
    <3>2. QED
      BY <1>2, <3>1, Zenon
  <2> DEFINE m == b \div 4
  <2>5. m \in Nat /\ 32 \in Nat
    BY <2>3
  <2>6. /\ b = LabelBits(a) * m /\ Digits(a) \in [1 .. 32 -> Nat] /\ m <= 32
        /\ (BitsOf(a) - b) \div LabelBits(a) = 32 - m
        /\ \A x \in IPs : Len(x) = Len(a) => Digits(x) \in [1 .. 32 -> Nat]
    BY <2>1, <2>3, <2>4, Zenon
  <2> HIDE DEF m
  <2>7. QED
    BY <2>5, <2>6, Zenon
<1>3. QED
  BY <1>1, <1>2, DigitsType, Zenon

\* The zone of a block that ends with a digit.
LEMMA WholeZone ==
  ASSUME NEW a \in IPs, NEW b \in Nat, b <= BitsOf(a), b % LabelBits(a) = 0, NEW x \in IPs
  PROVE  LET base == PlainName(a)
             toTrim == (BitsOf(a) - b) \div LabelBits(a)
         IN  IsSuffix(TrimLabels(base, toTrim), PlainName(x)) <=> SameBits(x, a, b)
<1>1. PICK m \in Nat, N \in Nat :
           /\ b = LabelBits(a) * m /\ Digits(a) \in [1 .. N -> Nat] /\ m <= N
           /\ (BitsOf(a) - b) \div LabelBits(a) = N - m
           /\ \A y \in IPs : Len(y) = Len(a) => Digits(y) \in [1 .. N -> Nat]
  BY WholeDigits, Zenon
<1> DEFINE r == PlainName(a)
           T == N - m
           z == SubSeq(r, T + 1, N + 2)
<1>2. r \in Seq(Label) /\ Len(r) = N + 2
  BY <1>1, ReverseName, Zenon
<1>3. T \in 0 .. N /\ N - T = m
  BY <1>1
<1> HIDE DEF r, T
<1>4. z \in Seq(Label) /\ Len(z) = N + 2 - T /\ \A i \in 1 .. N + 2 - T : z[i] = r[T + i]
  <2>1. T \in 0 .. Len(r) /\ Len(r) = N + 2
    BY <1>2, <1>3
  <2>2. QED
    BY <1>2, <2>1, CutInFront
<1> HIDE DEF z
<1>5. ASSUME NEW M \in Nat, Digits(x) \in [1 .. M -> Nat]
      PROVE  /\ IsSuffix(z, PlainName(x)) => Family(x) = Family(a)
             /\ N = M /\ Family(x) = Family(a) =>
                  (IsSuffix(z, PlainName(x)) <=> \A q \in 1 .. N - T : Digits(x)[q] = Digits(a)[q])
  <2>1. CutOf(z, a, N, T)
    BY <1>4 DEF r, CutOf
  <2>2. T \in 0 .. N /\ N \in Nat /\ Digits(a) \in [1 .. N -> Nat]
    BY <1>1, <1>3, Zenon
  <2>3. IsSuffix(z, PlainName(x)) => Family(x) = Family(a)
    BY <1>5, <2>1, <2>2, CutReverseName, Zenon
  <2>4. ASSUME N = M, Family(x) = Family(a)
        PROVE  IsSuffix(z, PlainName(x)) <=> \A q \in 1 .. N - T : Digits(x)[q] = Digits(a)[q]
    <3>1. Digits(x) \in [1 .. N -> Nat]
      BY <1>5, <2>4
    <3>2. Family(x) = Family(a)
      BY <2>4
    <3>3. IsSuffix(z, PlainName(x)) <=> SameDigits(x, a, N - T)
      BY <2>1, <2>2, <3>1, <3>2, CutReverseName, Zenon
    <3>4. QED
      BY <3>3 DEF SameDigits
  <2>5. QED
    BY <2>3, <2>4
<1>6. IsSuffix(z, PlainName(x)) <=> SameBits(x, a, b)
  <2>1. CASE Len(x) = Len(a)
    <3>1. Family(x) = Family(a)
      BY <2>1 DEF Family
    <3>2. IsSuffix(z, PlainName(x)) <=> \A q \in 1 .. N - T : Digits(x)[q] = Digits(a)[q]
      BY <1>1, <1>5, <2>1, <3>1, Zenon
    <3>3. SameBits(x, a, b) <=> \A q \in 1 .. m : Digits(x)[q] = Digits(a)[q]
      BY <1>1, <2>1, BlockDigits, Zenon
    <3>4. QED
      BY <1>3, <3>2, <3>3, Zenon
  <2>2. CASE Len(x) # Len(a)
    <3>1. PICK M \in Nat : Digits(x) \in [1 .. M -> Nat]
      <4>1. Digits(x) \in [1 .. 4 -> Nat] \/ Digits(x) \in [1 .. 32 -> Nat]
        BY DigitsType, Zenon
      <4>2. 4 \in Nat /\ 32 \in Nat
        OBVIOUS
      <4>3. QED
        BY <4>1, <4>2, Zenon
    <3>2. Family(x) # Family(a)
      <4>1. (Len(x) = 4 /\ Family(x) = "in-addr") \/ (Len(x) = 16 /\ Family(x) = "ip6")
        BY DigitsType, Zenon
      <4>2. (Len(a) = 4 /\ Family(a) = "in-addr") \/ (Len(a) = 16 /\ Family(a) = "ip6")
        BY DigitsType, Zenon
      <4>3. "in-addr" # "ip6"
        OBVIOUS
      <4>4. QED
        BY <2>2, <4>1, <4>2
    <3>3. ~IsSuffix(z, PlainName(x))
      BY <1>5, <3>1, <3>2, Zenon
    <3>4. QED
      BY <2>2, <3>3, Zenon DEF SameBits
  <2>3. QED
    BY <2>1, <2>2
<1>7. TrimLabels(r, T) = z
  BY <1>2, <1>3 DEF TrimLabels, z
<1>8. QED
  BY <1>1, <1>6, <1>7, Zenon DEF r, T

\* The zone of a block that is smaller than the zones that bytes make.
LEMMA ClasslessZone ==
  ASSUME NEW a \in IPs, NEW b \in Nat, Classless(a, b), NEW x \in IPs, SameBits(x, a, b)
  PROVE  IsSuffix(Tail(<<<<a[4], b>>>> \o Tail(PlainName(a))), PlainName(x))
<1> DEFINE r == PlainName(a)
           z == Tail(r)
<1>1. Len(a) = 4 /\ Len(x) = 4 /\ b >= 25
  BY DEF Classless, SameBits
<1>2. Digits(a) \in [1 .. 4 -> Nat] /\ Digits(x) \in [1 .. 4 -> Nat] /\ Family(x) = Family(a)
  BY <1>1, DigitsType DEF Family
<1>3. r \in Seq(Label) /\ Len(r) = 4 + 2
  BY <1>2, ReverseName
<1> HIDE DEF r
<1>4. z \in Seq(Label) /\ Len(z) = 4 + 2 - 1 /\ \A i \in 1 .. 4 + 2 - 1 : z[i] = r[1 + i]
  <2>1. r # <<>>
    <3>1. Len(<<>>) = 0 /\ 0 # 4 + 2
      OBVIOUS
    <3>2. QED
      BY <1>3, <3>1, Zenon
  <2>2. z \in Seq(Label) /\ Len(z) = Len(r) - 1 /\ \A i \in 1 .. Len(z) : z[i] = r[i + 1]
    BY <1>3, <2>1, HeadTailProperties
  <2> HIDE DEF z
  <2>3. QED
    BY <1>3, <2>2
<1> HIDE DEF z
<1>5. CutOf(z, a, 4, 1)
  BY <1>4 DEF CutOf, r
<1>6. SameDigits(x, a, 4 - 1)
  <2>1. LabelBits(a) * 3 <= BitsOf(a) /\ LabelBits(a) * 3 = 24 /\ 3 \in Nat /\ 4 - 1 = 3
    BY <1>1 DEF LabelBits, BitsOf
  <2>2. SameBits(x, a, LabelBits(a) * 3)
    BY <1>1, <2>1 DEF SameBits
  <2>3. \A q \in 1 .. 3 : Digits(x)[q] = Digits(a)[q]
    BY <1>1, <2>1, <2>2, BlockDigits
  <2>4. QED
    BY <2>1, <2>3 DEF SameDigits
<1>7. IsSuffix(z, PlainName(x))
  <2>1. 4 \in Nat /\ 1 \in 0 .. 4
    OBVIOUS
  <2>2. QED
    BY <1>2, <1>5, <1>6, <2>1, CutReverseName, Zenon
<1>8. Tail(<<<<a[4], b>>>> \o z) = z
  <2> DEFINE S == Label \cup {<<a[4], b>>}
  <2>1. z \in Seq(S) /\ <<a[4], b>> \in S
    BY <1>4
  <2> HIDE DEF S
  <2>2. QED
    BY <2>1, TailOfFront, Zenon
<1>9. QED
  BY <1>7, <1>8, Zenon DEF z, r

\* An address is one of four bytes, if it can be, or of sixteen.
LEMMA PlainAddress ==
  ASSUME NEW a \in IPs
  PROVE  /\ To4(a) \in IPs /\ ReverseAddr(a) = PlainName(To4(a))
         /\ ~Mapped(a) => To4(a) = a
         /\ Mapped(a) => Len(a) = 16 /\ Len(To4(a)) = 4 /\ a[12] = 255
<1>1. CASE ~Mapped(a)
  <2>1. To4(a) = a
    BY <1>1 DEF To4
  <2>2. QED
    BY <1>1, <2>1 DEF ReverseAddr, PlainName, Digits, Family
<1>2. CASE Mapped(a)
  <2>1. Len(a) = 16 /\ IsPrefix(MappedPrefix, a)
    BY <1>2 DEF Mapped
  <2>2. a \in [1 .. 16 -> 0 .. 255]
    BY <2>1, DigitsType, Zenon
  <2>3. a[12] = 255
    <3>1. MappedPrefix[12] = 255 /\ Len(MappedPrefix) = 12
      BY DEF MappedPrefix
    <3>2. \A k \in 1 .. Len(MappedPrefix) : MappedPrefix[k] = a[k]
      <4> DEFINE P == MappedPrefix
      <4>1. SubSeq(P, 1, 12) = SubSeq(a, 1, 12)
        BY <2>1, <3>1 DEF IsPrefix
      <4>2. P \in Seq(0 .. 255) /\ Len(P) = 12
        BY <3>1 DEF MappedPrefix
      <4>3. a \in Seq(0 .. 255) /\ Len(a) = 16
        <5>1. 16 \in Nat /\ \A i \in 1 .. 16 : a[i] \in 0 .. 255
          BY <2>2
        <5>2. a = [i \in 1 .. 16 |-> a[i]]
          BY <2>2
        <5>3. [i \in 1 .. 16 |-> a[i]] \in Seq(0 .. 255)
          BY <5>1, IsASeq
        <5>4. QED
          BY <2>1, <5>2, <5>3, Zenon
      <4> HIDE DEF P
      <4>4. \A k \in 1 .. 12 : SubSeq(P, 1, 12)[k] = P[k]
        BY <4>2
      <4>5. \A k \in 1 .. 12 : SubSeq(a, 1, 12)[k] = a[k]
        BY <4>3
      <4>6. QED
        BY <4>1, <4>2, <4>4, <4>5 DEF P
    <3>3. QED
      BY <3>1, <3>2
  <2>4. To4(a) = SubSeq(a, 13, 16)
    BY <1>2 DEF To4
  <2>5. To4(a) \in [1 .. 4 -> 0 .. 255] /\ Len(To4(a)) = 4
    <3>1. To4(a) = [k \in 1 .. 4 |-> a[12 + k]]
      BY <2>2, <2>4
    <3>2. \A k \in 1 .. 4 : a[12 + k] \in 0 .. 255
      BY <2>2
    <3>3. QED
      BY <3>1, <3>2
  <2>6. To4(a) \in IPs
    BY <2>5 DEF IPs
  <2>7. ReverseAddr(a) = PlainName(To4(a))
    BY <2>5 DEF ReverseAddr, PlainName, Digits, Family
  <2>8. QED
    BY <1>2, <2>1, <2>3, <2>5, <2>6, <2>7
<1>3. QED
  BY <1>1, <1>2

\* A block written with a mapped address has no zone if the mask ends before the
\* IPv4 address does begin.
LEMMA MappedMask ==
  ASSUME NEW a \in IPs, Mapped(a), NEW b \in Nat, Equal(a, b)
  PROVE  b >= 96
<1> SUFFICES ASSUME b < 96 PROVE FALSE
  OBVIOUS
<1>1. Len(a) = 16 /\ a[12] = 255
  BY PlainAddress
<1>2. 96 \in b + 1 .. BitsOf(a)
  BY <1>1 DEF BitsOf
<1>3. Bit(a, 96) = 0
  BY <1>2 DEF Equal
<1>4. Bit(a, 96) = (a[12] \div 2 ^ 0) % 2
  <2>1. (96 - 1) \div 8 + 1 = 12 /\ 7 - ((96 - 1) % 8) = 0
    OBVIOUS
  <2>2. QED
    BY <2>1 DEF Bit
<1>5. 2 ^ 0 = 1
  OBVIOUS
<1>6. (255 \div 1) % 2 = 1
  OBVIOUS
<1>7. QED
  BY <1>1, <1>3, <1>4, <1>5, <1>6

\* The zone of such a block is above the names of its addresses: it has one digit
\* less than the address for each half byte that the mask leaves out, and at last
\* no digit and no family any more.
LEMMA MappedZone ==
  ASSUME NEW a \in IPs, Mapped(a), NEW b \in 96 .. 128, b % 4 = 0, NEW x \in IPs, InBlock(x, a, b)
  PROVE  IsSuffix(TrimLabels(ReverseAddr(a), (BitsOf(a) - b) \div LabelBits(a)), ReverseAddr(x))
<1> DEFINE n == To4(a)
           y == To4(x)
           r == PlainName(n)
           s == PlainName(y)
           T == (128 - b) \div 4
           z == TrimLabels(r, T)
<1>1. /\ n \in IPs /\ y \in IPs /\ Len(n) = 4 /\ Len(y) = 4
      /\ ReverseAddr(a) = r /\ ReverseAddr(x) = s
      /\ BitsOf(a) = 128 /\ LabelBits(a) = 4
      /\ \A k \in 1 .. b - 96 : Bit(y, k) = Bit(n, k)
  <2>1. n \in IPs /\ ReverseAddr(a) = r /\ Len(a) = 16 /\ Len(n) = 4
    BY PlainAddress
  <2>2. y \in IPs /\ ReverseAddr(x) = s
    BY PlainAddress
  <2>3. BitsOf(a) = 128 /\ LabelBits(a) = 4
    <3> HIDE DEF n, r
    <3>1. QED
      BY <2>1 DEF BitsOf, LabelBits
  <2>4. Len(y) = Len(n) /\ \A k \in 1 .. b - 96 : Bit(y, k) = Bit(n, k)
    BY DEF InBlock
  <2> HIDE DEF n, y, r, s
  <2>5. QED
    BY <2>1, <2>2, <2>3, <2>4
<1> HIDE DEF n, y
<1>2. /\ Digits(n) \in [1 .. 4 -> Nat] /\ Digits(y) \in [1 .. 4 -> Nat] /\ Family(y) = Family(n)
      /\ Family(n) = "in-addr"
  BY <1>1, DigitsType DEF Family
<1>3. /\ r \in Seq(Label) /\ Len(r) = 6 /\ r[6] = "arpa"
      /\ s \in Seq(Label) /\ Len(s) = 6 /\ s[6] = "arpa" /\ s[5] = "in-addr"
  <2>1. 4 \in Nat /\ 4 + 2 = 6 /\ 4 + 1 = 5
    OBVIOUS
  <2>2. /\ r \in Seq(Label) /\ Len(r) = 4 + 2 /\ r[4 + 2] = "arpa"
    BY <1>2, <2>1, ReverseName, Zenon
  <2>3. /\ s \in Seq(Label) /\ Len(s) = 4 + 2 /\ s[4 + 2] = "arpa" /\ s[4 + 1] = "in-addr"
    BY <1>2, <2>1, ReverseName, Zenon
  <2>4. QED
    BY <2>1, <2>2, <2>3
<1> HIDE DEF r, s
<1>4. T \in 0 .. 8 /\ b = 128 - 4 * T
  BY DEF T
<1> HIDE DEF T
<1>5. CASE T \in 0 .. 4
  <2>1. T + 1 <= 6 /\ T \in 0 .. Len(r) /\ z = SubSeq(r, T + 1, Len(r))
    BY <1>3, <1>5 DEF TrimLabels, z
  <2>2. z \in Seq(Label) /\ Len(z) = Len(r) - T /\ \A i \in 1 .. Len(r) - T : z[i] = r[T + i]
    <3> HIDE DEF z
    <3>1. QED
      BY <1>3, <2>1, CutInFront
  <2> HIDE DEF z
  <2>3. Len(r) = 6 /\ T \in Nat /\ 4 + 2 - T = Len(r) - T
    <3>1. Len(r) = 6
      BY <1>3
    <3>2. QED
      BY <1>5, <3>1
  <2>4. CutOf(z, n, 4, T)
    BY <2>2, <2>3 DEF CutOf, r
  <2>5. SameDigits(y, n, 4 - T)
    <3>1. LabelBits(n) = 8 /\ BitsOf(n) = 32 /\ 4 - T \in Nat /\ 8 * (4 - T) <= 32
      BY <1>1, <1>5 DEF LabelBits, BitsOf
    <3>2. 8 * (4 - T) <= b - 96
      BY <1>4, <1>5
    <3>3. \A k \in 1 .. 8 * (4 - T) : k \in 1 .. b - 96
      BY <3>1, <3>2
    <3>4. SameBits(y, n, 8 * (4 - T))
      BY <1>1, <3>3 DEF SameBits
    <3>5. \A q \in 1 .. 4 - T : Digits(y)[q] = Digits(n)[q]
      BY <1>1, <3>1, <3>4, BlockDigits
    <3>6. QED
      BY <3>5 DEF SameDigits
  <2>6. IsSuffix(z, s)
    <3>1. 4 \in Nat
      OBVIOUS
    <3>2. QED
      BY <1>2, <1>5, <2>4, <2>5, <3>1, CutReverseName, Zenon DEF s
  <2>7. QED
    BY <1>1, <2>6 DEF T, z
<1>6. CASE T \in 5 .. 8
  <2>1. z = SubSeq(r, 6, 6)
    BY <1>3, <1>6 DEF TrimLabels, z
  <2> HIDE DEF z
  <2>2. z \in Seq(Label) /\ Len(z) = 1 /\ z[1] = "arpa"
    <3>1. 5 \in 0 .. Len(r) /\ Len(r) = 6 /\ z = SubSeq(r, 5 + 1, Len(r))
      BY <1>3, <2>1
    <3>2. z \in Seq(Label) /\ Len(z) = Len(r) - 5 /\ \A i \in 1 .. Len(r) - 5 : z[i] = r[5 + i]
      BY <1>3, <3>1, CutInFront
    <3>3. QED
      BY <1>3, <3>1, <3>2
  <2>3. IsSuffix(z, s)
    <3>1. Len(z) <= Len(s) /\ \A i \in 1 .. Len(z) : z[i] = s[Len(s) - Len(z) + i]
      BY <1>3, <2>2
    <3>2. QED
      BY <1>3, <2>2, <3>1, SuffixAgrees, Zenon
  <2>4. QED
    BY <1>1, <2>3 DEF T, z
<1>7. QED
  BY <1>4, <1>5, <1>6

\* The zone of a block is the ending of the reverse names of its addresses, and
\* where bytes decide and the block is not written as an IPv6 one, of no other.
LEMMA BlockZone ==
  ASSUME NEW a \in IPs, NEW b \in 0 .. BitsOf(a), NEW x \in IPs, BlockToInAddr(a, b) # NoZone
  PROVE  /\ Classless(a, b) =>
              (InBlock(x, a, b) => IsSuffix(Tail(BlockToInAddr(a, b)), ReverseAddr(x)))
         /\ ~Classless(a, b) /\ Mapped(a) =>
              (InBlock(x, a, b) => IsSuffix(BlockToInAddr(a, b), ReverseAddr(x)))
         /\ ~Classless(a, b) /\ ~Mapped(a) =>
              (IsSuffix(BlockToInAddr(a, b), ReverseAddr(x)) <=> InBlock(x, a, b))
<1>1. b \in Nat /\ b <= BitsOf(a)
  <2>1. BitsOf(a) \in Nat
    BY DigitsType DEF BitsOf
  <2>2. QED
    BY <2>1
<1>2. Equal(a, b) /\ b # 0
  <2> SUFFICES ASSUME ~Equal(a, b) \/ b = 0 PROVE FALSE
    OBVIOUS
  <2>1. ~(Equal(a, b) /\ Classless(a, b)) /\ ~(Equal(a, b) /\ b # 0 /\ ~Classless(a, b))
    BY <1>1 DEF Classless
  <2>2. QED
    BY <2>1 DEF BlockToInAddr
<1>3. To4(x) \in IPs /\ ReverseAddr(x) = PlainName(To4(x))
  BY PlainAddress
<1>4. ASSUME ~Mapped(a)
      PROVE  ReverseAddr(a) = PlainName(a) /\ (InBlock(x, a, b) <=> SameBits(To4(x), a, b))
  <2>1. To4(a) = a /\ ReverseAddr(a) = PlainName(a)
    BY <1>4, PlainAddress
  <2>2. QED
    BY <1>4, <2>1 DEF InBlock, SameBits
<1>5. CASE Classless(a, b)
  <2>1. ~Mapped(a)
    BY <1>5 DEF Classless, Mapped
  <2>2. BlockToInAddr(a, b) = <<<<a[4], b>>>> \o Tail(ReverseAddr(a))
    BY <1>2, <1>5 DEF BlockToInAddr
  <2>3. SameBits(To4(x), a, b) =>
          IsSuffix(Tail(<<<<a[4], b>>>> \o Tail(PlainName(a))), PlainName(To4(x)))
    BY <1>1, <1>3, <1>5, ClasslessZone, Zenon
  <2>4. QED
    BY <1>3, <1>4, <1>5, <2>1, <2>2, <2>3
<1>6. CASE ~Classless(a, b)
  <2> DEFINE toTrim == (BitsOf(a) - b) \div LabelBits(a)
  <2>1. BlockToInAddr(a, b) = IF b % LabelBits(a) # 0 THEN NoZone
                              ELSE TrimLabels(ReverseAddr(a), toTrim)
    BY <1>2, <1>6 DEF BlockToInAddr
  <2>2. b % LabelBits(a) = 0 /\ BlockToInAddr(a, b) = TrimLabels(ReverseAddr(a), toTrim)
    BY <2>1
  <2>3. CASE ~Mapped(a)
    <3>1. IsSuffix(TrimLabels(PlainName(a), toTrim), PlainName(To4(x))) <=> SameBits(To4(x), a, b)
      BY <1>1, <1>3, <2>2, WholeZone, Zenon
    <3> HIDE DEF toTrim
    <3>2. QED
      BY <1>3, <1>4, <1>6, <2>2, <2>3, <3>1
  <2>4. CASE Mapped(a)
    <3>1. LabelBits(a) = 4 /\ BitsOf(a) = 128
      <4>1. Len(a) = 16
        BY <2>4, PlainAddress
      <4>2. QED
        BY <4>1 DEF LabelBits, BitsOf
    <3>2. b \in 96 .. 128 /\ b % 4 = 0
      BY <1>1, <1>2, <2>2, <2>4, <3>1, MappedMask
    <3>3. InBlock(x, a, b) => IsSuffix(TrimLabels(ReverseAddr(a), toTrim), ReverseAddr(x))
      BY <2>4, <3>2, MappedZone, Zenon
    <3> HIDE DEF toTrim
    <3>4. QED
      BY <1>6, <2>2, <2>4, <3>3
  <2>5. QED
    BY <2>3, <2>4
<1>7. QED
  BY <1>5, <1>6

\* What a run about a block starts with is what it ends with.
BlocksAsked ==
  task = "block" =>
    /\ \E a \in IPs : \E b \in {NoMask} \cup 0 .. BitsOf(a) : input = <<a, b>>
    /\ found = CidrToInAddr(input[1], input[2])

\* An address without a mask is a block, too.
LEMMA CidrType ==
  ASSUME NEW a \in IPs, NEW b \in {NoMask} \cup 0 .. BitsOf(a)
  PROVE  /\ Cidr(a, b)[1] \in IPs /\ Cidr(a, b)[2] \in 0 .. BitsOf(Cidr(a, b)[1])
<1>1. To4(a) \in IPs
  BY PlainAddress
<1>2. BitsOf(To4(a)) \in 0 .. BitsOf(To4(a))
  BY <1>1, DigitsType DEF BitsOf
<1>3. CASE b = NoMask
  BY <1>1, <1>2, <1>3 DEF Cidr
<1>4. CASE b # NoMask
  BY <1>4 DEF Cidr
<1>5. QED
  BY <1>3, <1>4

\* The reverse zone of a block is above the reverse names of its addresses and,
\* apart from the two kinds of blocks that the property names, of no others
\* (CidrToInAddr, arpa.go:30-91), for every address of either family, however it
\* is written, and with every mask or none.
THEOREM BlocksMatch == Spec => []ReverseZoneIsTheBlock
<1>1. Init => BlocksAsked
  BY ScansAssumption DEF Init, BlocksAsked, IPs
<1>2. BlocksAsked /\ [Next]_vars => BlocksAsked'
  <2> SUFFICES ASSUME BlocksAsked, [Next]_vars PROVE BlocksAsked'
    OBVIOUS
  <2>1. CASE LookAtCandidate
    BY <2>1 DEF LookAtCandidate, BlocksAsked
  <2>2. CASE LookAtZone
    BY <2>2 DEF LookAtZone, BlocksAsked
  <2>3. CASE UNCHANGED vars
    BY <2>3 DEF vars, BlocksAsked
  <2>4. QED
    BY <2>1, <2>2, <2>3 DEF Next
<1>3. BlocksAsked => ReverseZoneIsTheBlock
  <2> SUFFICES ASSUME BlocksAsked, task = "block", found # NoZone
               PROVE  ReverseZoneIsTheBlock
    BY DEF ReverseZoneIsTheBlock
  <2>1. PICK a \in IPs : \E b \in {NoMask} \cup 0 .. BitsOf(a) : input = <<a, b>>
    BY DEF BlocksAsked
  <2>2. PICK b \in {NoMask} \cup 0 .. BitsOf(a) : input = <<a, b>>
    BY <2>1
  <2> DEFINE n == Cidr(input[1], input[2])[1]
             m == Cidr(input[1], input[2])[2]
  <2>3. found = BlockToInAddr(n, m) /\ n \in IPs /\ m \in 0 .. BitsOf(n)
    BY <2>2, CidrType DEF BlocksAsked, CidrToInAddr
  <2>4. \A x \in Addresses : x \in IPs
    BY ScansAssumption DEF IPs
  <2> HIDE DEF n, m
  <2>5. ASSUME NEW x \in Addresses
        PROVE  /\ Classless(n, m) => (InBlock(x, n, m) => IsSuffix(Tail(found), ReverseAddr(x)))
               /\ ~Classless(n, m) /\ Mapped(n) =>
                     (InBlock(x, n, m) => IsSuffix(found, ReverseAddr(x)))
               /\ ~Classless(n, m) /\ ~Mapped(n) =>
                     (IsSuffix(found, ReverseAddr(x)) <=> InBlock(x, n, m))
    BY <2>3, <2>4, BlockZone
  <2>6. Classless(n, m) => ~Mapped(n)
    BY DEF Classless, Mapped
  <2>7. QED
    BY <2>5, <2>6 DEF ReverseZoneIsTheBlock, n, m
<1>4. QED
  BY <1>1, <1>2, <1>3, PTL DEF Spec
==============================================================================
