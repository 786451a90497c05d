---------------------------- MODULE RecordLemmas -----------------------------
(***************************************************************************)
(* What the plan, the registry and the provider's validation guarantee for *)
(* all records, as lemmas for the proofs about the modules built on them.  *)
(***************************************************************************)
EXTENDS Plan, InMemory, WellFoundedInduction, TLAPS

(***************************************************************************)
(* Sorting.  Lists of any length can be sorted, which is shown by taking   *)
(* the shortest length for which they cannot; a relation is well-founded   *)
(* on the natural numbers because every set of them has a least element.   *)
(***************************************************************************)
Less == OpToRel(<, Nat)

\* The relation by its pairs.
LEMMA LessPairs == \A x, y \in Nat : <<x, y>> \in Less <=> x < y
<1>1. Less = {ss \in Nat \X Nat : ss[1] < ss[2]}
  BY Zenon DEF Less, OpToRel
<1>2. QED
  BY <1>1

\* Every set of natural numbers that is not empty has a least element.
LEMMA LeastNumber ==
  ASSUME NEW T \in SUBSET Nat, T # {}
  PROVE  \E m \in T : \A k \in T : m <= k
<1>1. IsWellFoundedOn(Less, Nat)
  BY Zenon, NatLessThanWellFounded DEF Less
<1>2. \E x \in T : \A y \in T : ~ (<<y, x>> \in Less)
  BY <1>1, WFMin
<1>3. PICK x \in T : \A y \in T : ~ (<<y, x>> \in Less)
  BY <1>2
<1>4. ASSUME NEW y \in T PROVE x <= y
  <2>1. x \in Nat /\ y \in Nat /\ <<y, x>> \notin Less
    BY <1>3
  <2>2. ~(y < x)
    BY <2>1, LessPairs
  <2>3. QED
    BY <2>1, <2>2
<1>5. QED
  BY <1>4

\* The sequences of one length that can be sorted.
Sortable(n) ==
  \A f \in [1 .. n -> Nat] : \E p \in Rearrangements(1 .. n) :
     \A i, j \in 1 .. n : i < j => f[p[i]] <= f[p[j]]

\* With the least element in front, the others are sorted as a shorter list.
LEMMA SortOneMore ==
  ASSUME NEW n \in Nat, Sortable(n)
  PROVE  Sortable(n + 1)
<1> SUFFICES ASSUME NEW f \in [1 .. n + 1 -> Nat]
             PROVE  \E p \in Rearrangements(1 .. n + 1) :
                       \A i, j \in 1 .. n + 1 : i < j => f[p[i]] <= f[p[j]]
  BY DEF Sortable
<1>1. \E m \in 1 .. n + 1 : \A i \in 1 .. n + 1 : f[m] <= f[i]
  <2> DEFINE T == {f[i] : i \in 1 .. n + 1}
  <2>1. T \in SUBSET Nat /\ f[1] \in T
    OBVIOUS
  <2>2. PICK x \in T : \A k \in T : x <= k
    <3> HIDE DEF T
    <3>1. QED
      BY <2>1, LeastNumber
  <2>3. QED
    BY <2>2
<1>2. PICK m \in 1 .. n + 1 : \A i \in 1 .. n + 1 : f[m] <= f[i]
  BY <1>1
\* sw exchanges the first position with that of the least element.
<1> DEFINE sw == [i \in 1 .. n + 1 |-> IF i = 1 THEN m ELSE IF i = m THEN 1 ELSE i]
           g  == [i \in 1 .. n |-> f[sw[i + 1]]]
<1>3. \A i \in 1 .. n + 1 : sw[i] \in 1 .. n + 1 /\ sw[sw[i]] = i
  OBVIOUS
<1>4. sw[1] = m
  OBVIOUS
<1> HIDE DEF sw
<1>5. g \in [1 .. n -> Nat]
  BY <1>3
<1>6. PICK p \in Rearrangements(1 .. n) : \A i, j \in 1 .. n : i < j => g[p[i]] <= g[p[j]]
  BY <1>5 DEF Sortable
<1>7. PICK q \in [1 .. n -> 1 .. n] : \A i \in 1 .. n : p[q[i]] = i /\ q[p[i]] = i
  BY <1>6 DEF Rearrangements
<1>8. p \in [1 .. n -> 1 .. n]
  BY DEF Rearrangements
<1> DEFINE P == [i \in 1 .. n + 1 |-> IF i = 1 THEN m ELSE sw[p[i - 1] + 1]]
           Q == [i \in 1 .. n + 1 |-> IF sw[i] = 1 THEN 1 ELSE q[sw[i] - 1] + 1]
<1> DEFINE Below(f1, i) == /\ i - 1 \in 1 .. n /\ f1[i - 1] \in 1 .. n
                          /\ f1[i - 1] + 1 \in 1 .. n + 1 /\ f1[i - 1] + 1 # 1
<1>0. ASSUME NEW h \in [1 .. n -> 1 .. n], NEW i \in 1 .. n + 1, i # 1
      PROVE  Below(h, i)
  <2>1. i - 1 \in 1 .. n
    BY <1>0
  <2>2. h[i - 1] \in 1 .. n
    BY <2>1
  <2>3. \A x \in 1 .. n : x + 1 \in 1 .. n + 1 /\ x + 1 # 1
    OBVIOUS
  <2>4. QED
    BY <2>1, <2>2, <2>3
<1>9. \A i \in 1 .. n + 1 : i # 1 => Below(p, i)
  BY <1>0, <1>8
<1>10. \A i \in 1 .. n + 1 : sw[i] # 1 => Below(q, sw[i])
  BY <1>0, <1>3, <1>7
<1>11. P \in [1 .. n + 1 -> 1 .. n + 1] /\ Q \in [1 .. n + 1 -> 1 .. n + 1]
  BY <1>3, <1>9, <1>10
<1>12. ASSUME NEW i \in 1 .. n + 1 PROVE P[Q[i]] = i
  <2>1. CASE sw[i] = 1
    BY <1>3, <1>4, <2>1
  <2>2. CASE sw[i] # 1
    <3>1. Q[i] = q[sw[i] - 1] + 1 /\ Q[i] # 1 /\ Q[i] \in 1 .. n + 1 /\ Q[i] - 1 = q[sw[i] - 1]
      BY <1>10, <2>2
    <3>2. P[Q[i]] = sw[p[q[sw[i] - 1]] + 1]
      BY <3>1
    <3>3. p[q[sw[i] - 1]] = sw[i] - 1
      BY <1>7, <1>10, <2>2
    <3>4. sw[i] - 1 + 1 = sw[i]
      BY <1>3
    <3>5. QED
      BY <1>3, <3>2, <3>3, <3>4
  <2>3. QED
    BY <2>1, <2>2
<1>13. ASSUME NEW i \in 1 .. n + 1 PROVE Q[P[i]] = i
  <2>1. CASE i = 1
    BY <1>3, <1>4, <2>1
  <2>2. CASE i # 1
    <3>1. P[i] = sw[p[i - 1] + 1] /\ sw[P[i]] = p[i - 1] + 1 /\ P[i] \in 1 .. n + 1
      BY <1>3, <1>9, <2>2
    <3>2. Q[P[i]] = q[p[i - 1]] + 1
      <4>1. p[i - 1] \in 1 .. n /\ p[i - 1] + 1 # 1
        BY <1>9, <2>2
      <4>4. \A x \in 1 .. n : (x + 1) - 1 = x
        OBVIOUS
      <4>2. Q[P[i]] = q[sw[P[i]] - 1] + 1
        BY <3>1, <4>1
      <4>3. QED
        BY <3>1, <4>1, <4>2, <4>4
    <3>3. q[p[i - 1]] = i - 1
      BY <1>7, <1>9, <2>2
    <3>4. QED
      BY <3>2, <3>3
  <2>3. QED
    BY <2>1, <2>2
<1>14. P \in Rearrangements(1 .. n + 1)
  <2> HIDE DEF P, Q
  <2>1. QED
    BY <1>11, <1>12, <1>13 DEF Rearrangements
<1>15. ASSUME NEW i \in 1 .. n + 1, NEW j \in 1 .. n + 1, i < j
       PROVE  f[P[i]] <= f[P[j]]
  <2>1. CASE i = 1
    BY <1>2, <1>11, <2>1
  <2>2. CASE i # 1
    <3>1. i - 1 \in 1 .. n /\ j - 1 \in 1 .. n /\ i - 1 < j - 1 /\ j # 1
      BY <1>15, <2>2
    <3>2. g[p[i - 1]] <= g[p[j - 1]]
      BY <1>6, <3>1
    <3>3. f[P[i]] = g[p[i - 1]] /\ f[P[j]] = g[p[j - 1]]
      BY <1>8, <2>2, <3>1
    <3>4. QED
      BY <3>2, <3>3
  <2>3. QED
    BY <2>1, <2>2
<1>16. QED
  <2> HIDE DEF P
  <2>1. QED
    BY <1>14, <1>15

\* Lists of all lengths can be sorted.
LEMMA AllSortable == \A n \in Nat : Sortable(n)
<1> DEFINE T == {n \in Nat : ~Sortable(n)}
<1>1. SUFFICES ASSUME T # {} PROVE FALSE
  OBVIOUS
<1>2. T \in SUBSET Nat
  OBVIOUS
<1>3. \E n \in T : \A k \in T : n <= k
  <2> HIDE DEF T
  <2>1. QED
    BY <1>1, <1>2, LeastNumber
<1>4. PICK n \in Nat : ~Sortable(n) /\ \A k \in Nat : ~Sortable(k) => n <= k
  BY <1>3
<1>5. Sortable(0)
  <2>1. ASSUME NEW f \in [1 .. 0 -> Nat]
        PROVE  \E p \in Rearrangements(1 .. 0) : \A i, j \in 1 .. 0 : i < j => f[p[i]] <= f[p[j]]
    <3> DEFINE p == [i \in 1 .. 0 |-> i]
    <3>1. p \in [1 .. 0 -> 1 .. 0] /\ \A i \in 1 .. 0 : p[p[i]] = i
      OBVIOUS
    <3>2. p \in Rearrangements(1 .. 0)
      BY <3>1 DEF Rearrangements
    <3>3. QED
      BY <3>2
  <2>2. QED
    BY <2>1 DEF Sortable
<1>6. n # 0 /\ n - 1 \in Nat /\ ~(n <= n - 1) /\ (n - 1) + 1 = n
  BY <1>4, <1>5
<1>7. Sortable(n - 1)
  BY <1>4, <1>6
<1>8. Sortable((n - 1) + 1)
  BY <1>6, <1>7, SortOneMore
<1>9. QED
  BY <1>4, <1>6, <1>8

\* Sorting yields a rearrangement of the list that is in order.
LEMMA SortedArranges ==
  ASSUME NEW t \in TargetLists
  PROVE  Sorted(t) \in Arrangements(t) /\ Ascending(Sorted(t))
<1>1. t \in Seq(Targets) /\ Targets \subseteq Nat
  BY EndpointsAssumption
<1>2. Len(t) \in Nat /\ DOMAIN t = 1 .. Len(t) /\ t \in [1 .. Len(t) -> Nat]
  <2>1. Len(t) \in Nat /\ t \in [1 .. Len(t) -> Targets]
    BY <1>1
  <2>2. QED
    BY <1>1, <2>1
<1>3. PICK p \in Rearrangements(1 .. Len(t)) :
             \A i, j \in 1 .. Len(t) : i < j => t[p[i]] <= t[p[j]]
  BY <1>2, AllSortable DEF Sortable
<1> DEFINE s == [i \in DOMAIN t |-> t[p[i]]]
<1>4. s \in Arrangements(t)
  BY <1>2, <1>3 DEF Arrangements
<1>5. Ascending(s)
  BY <1>2, <1>3 DEF Ascending
<1>6. QED
  <2> HIDE DEF s
  <2>1. QED
    BY <1>4, <1>5 DEF Sorted

\* Rearrangements can be carried out one after the other, and undone.
LEMMA RearrangeAgain ==
  ASSUME NEW D, NEW p \in Rearrangements(D), NEW q \in Rearrangements(D)
  PROVE  [i \in D |-> p[q[i]]] \in Rearrangements(D)
<1>1. p \in [D -> D] /\ q \in [D -> D]
  BY DEF Rearrangements
<1>2. PICK pp \in [D -> D] : \A i \in D : p[pp[i]] = i /\ pp[p[i]] = i
  BY DEF Rearrangements
<1>3. PICK qq \in [D -> D] : \A i \in D : q[qq[i]] = i /\ qq[q[i]] = i
  BY DEF Rearrangements
<1> DEFINE g == [i \in D |-> p[q[i]]]
           h == [i \in D |-> qq[pp[i]]]
<1>4. g \in [D -> D] /\ h \in [D -> D]
  BY <1>1, <1>2, <1>3
<1>5. \A i \in D : g[h[i]] = i /\ h[g[i]] = i
  BY <1>1, <1>2, <1>3
<1>6. QED
  <2> HIDE DEF h
  <2>1. QED
    BY <1>4, <1>5 DEF Rearrangements

\* A rearrangement has its inverse.
LEMMA RearrangeBack ==
  ASSUME NEW D, NEW p \in Rearrangements(D)
  PROVE  \E q \in Rearrangements(D) : \A i \in D : p[q[i]] = i
<1>1. p \in [D -> D]
  BY DEF Rearrangements
<1>2. PICK q \in [D -> D] : \A i \in D : p[q[i]] = i /\ q[p[i]] = i
  BY DEF Rearrangements
<1>3. q \in Rearrangements(D)
  BY <1>1, <1>2 DEF Rearrangements
<1>4. QED
  BY <1>2, <1>3

\* A sorted list is as long as the list, and has the same arrangements: to sort
\* it again changes nothing.
LEMMA SortedOnce ==
  ASSUME NEW t \in TargetLists
  PROVE  Len(Sorted(t)) = Len(t) /\ Sorted(Sorted(t)) = Sorted(t)
<1> DEFINE D == DOMAIN t
           s == Sorted(t)
<1>1. PICK p \in Rearrangements(D) : s = [i \in D |-> t[p[i]]]
  BY SortedArranges DEF Arrangements
<1>2. PICK q \in Rearrangements(D) : \A i \in D : p[q[i]] = i
  BY RearrangeBack
<1>3. DOMAIN s = D
  BY <1>1
<1>0. p \in [D -> D] /\ q \in [D -> D]
  BY DEF Rearrangements
<1>4. ASSUME NEW u \in Arrangements(s) PROVE u \in Arrangements(t)
  <2>1. PICK r \in Rearrangements(D) : u = [i \in D |-> s[r[i]]]
    BY <1>3 DEF Arrangements
  <2>2. [i \in D |-> p[r[i]]] \in Rearrangements(D)
    BY RearrangeAgain
  <2>3. u = [i \in D |-> t[[j \in D |-> p[r[j]]][i]]]
    BY <1>1, <2>1 DEF Rearrangements
  <2>4. QED
    BY <2>2, <2>3 DEF Arrangements
<1>5. ASSUME NEW u \in Arrangements(t) PROVE u \in Arrangements(s)
  <2>1. PICK r \in Rearrangements(D) : u = [i \in D |-> t[r[i]]]
    BY DEF Arrangements
  <2>2. [i \in D |-> q[r[i]]] \in Rearrangements(D)
    BY RearrangeAgain
  <2>3. u = [i \in D |-> s[[j \in D |-> q[r[j]]][i]]]
    BY <1>0, <1>1, <1>2, <2>1 DEF Rearrangements
  <2>4. QED
    BY <1>3, <2>2, <2>3 DEF Arrangements
<1>6. Arrangements(s) = Arrangements(t)
  BY <1>4, <1>5
<1>7. Sorted(s) = s
  BY <1>6 DEF Sorted
<1>8. Len(s) = Len(t)
  <2>1. s \in TargetLists /\ TargetLists \subseteq Seq(Targets)
    BY EndpointsAssumption
  <2>2. s \in Seq(Targets) /\ t \in Seq(Targets)
    BY <2>1
  <2>3. QED
    <3> HIDE DEF s
    <3>1. QED
      BY <1>3, <2>2
<1>9. QED
  BY <1>7, <1>8

\* No two spellings of one address among the targets.
OneSpellingPerAddress ==
  \A s, t \in Targets : Address[s] = Address[t] /\ Address[s] # 0 => s = t

\* Two lists that Same takes for equal are equal once sorted, for there is no
\* first difference that two spellings of one address could explain away.
LEMMA SameIsEqual ==
  ASSUME OneSpellingPerAddress, NEW t \in TargetLists, NEW o \in TargetLists, Same(t, o)
  PROVE  Sorted(t) = Sorted(o)
<1> DEFINE s == Sorted(t)
           u == Sorted(o)
           T == {i \in DOMAIN t : s[i] # u[i]}
<1>1. /\ s \in Seq(Targets) /\ u \in Seq(Targets)
      /\ t \in Seq(Targets)
      /\ Len(t) = Len(o)
  BY EndpointsAssumption DEF Same
<1>2. Len(s) = Len(t) /\ Len(u) = Len(t)
  BY SortedOnce DEF Same
<1>3. SUFFICES ASSUME s # u PROVE FALSE
  OBVIOUS
<1>4. T # {} /\ T \in SUBSET Nat
  <2> HIDE DEF s, u
  <2>1. QED
    BY <1>1, <1>2, <1>3
<1>5. \E m \in T : \A k \in T : m <= k
  <2> HIDE DEF T
  <2>1. QED
    BY <1>4, LeastNumber
<1>6. PICK m \in T : \A k \in T : m <= k
  BY <1>5
<1>7. m \in DOMAIN t /\ m \in Nat /\ s[m] # u[m]
  BY <1>1, <1>6
<1>8. \A j \in 1 .. m - 1 : s[j] = u[j]
  <2> HIDE DEF s, u
  <2>1. QED
    BY <1>1, <1>6, <1>7
<1>9. m \in Diff(t, o)
  BY <1>7, <1>8 DEF Diff
<1>10. Address[s[m]] = Address[u[m]] /\ Address[s[m]] # 0
  BY <1>9 DEF Same
<1>11. s[m] \in Targets /\ u[m] \in Targets
  <2> HIDE DEF s, u
  <2>1. QED
    BY <1>1, <1>2, <1>7
<1>12. QED
  BY <1>7, <1>10, <1>11 DEF OneSpellingPerAddress

\* Target lists that are equal when sorted are the same (Targets.Same).
LEMMA EqualIsSame ==
  ASSUME NEW t \in TargetLists, NEW o \in TargetLists, Sorted(t) = Sorted(o)
  PROVE  Same(t, o)
<1>1. Len(t) = Len(o)
  BY SortedOnce
<1>2. Diff(t, o) = {}
  BY DEF Diff
<1>3. QED
  BY <1>1, <1>2 DEF Same

(***************************************************************************)
(* Records and items.                                                      *)
(***************************************************************************)
\* The key of a record is made of its name, type and set identifier.
LEMMA KeyType ==
  ASSUME NEW e \in Endpoint
  PROVE  /\ Key(e) \in EndpointKey
         /\ Key(e) = <<e.dnsName, e.recordType, e.setIdentifier>>
BY DEF Endpoint, Key, EndpointKey

\* The TXT record generated for r stands at the name and set identifier of r
\* and spells out the labels of r.
LEMMA TXTRecordType ==
  ASSUME NEW r \in Endpoint
  PROVE  /\ TXTRecord(r) \in Endpoint
         /\ Key(TXTRecord(r)) = TXTKey(Key(r))
         /\ TXTRecord(r).dnsName = r.dnsName
         /\ TXTRecord(r).recordType = "TXT"
         /\ TXTRecord(r).text = r.labels
<1>1. NoLabels \in Labels
  BY DEF NoLabels, Labels
<1>2. QED
  BY <1>1, EndpointsAssumption
     DEF TXTRecord, NewEndpoint, Endpoint, RecordTypes, Key, TXTKey

\* The record of an item has the name of the record the item was made from.
LEMMA ItemType ==
  ASSUME NEW i \in Items
  PROVE  /\ i[1] \in Endpoint
         /\ ItemEndpoint(i) \in Endpoint
         /\ ItemEndpoint(i).dnsName = i[1].dnsName
         /\ ItemKey(i) \in EndpointKey
         /\ ItemKey(i) = IF i[2] = "self" THEN Key(i[1]) ELSE TXTKey(Key(i[1]))
<1>1. i[1] \in Endpoint /\ i[2] \in {"self", "txt"}
  BY DEF Items
<1>2. QED
  BY <1>1, TXTRecordType, KeyType DEF ItemEndpoint, ItemKey

\* What a provider stores of a record has the record's key.
LEMMA StoredType ==
  ASSUME NEW e \in Endpoint
  PROVE  Stored(e) \in Endpoint /\ Key(Stored(e)) = Key(e)
<1>1. NoLabels \in Labels
  BY DEF NoLabels, Labels
<1>2. [e EXCEPT !.labels = NoLabels] \in Endpoint
  BY <1>1 DEF Endpoint
<1>3. Key([e EXCEPT !.labels = NoLabels]) = Key(e)
  BY DEF Endpoint, Key
<1>4. QED
  BY <1>2, <1>3 DEF Stored

(***************************************************************************)
(* The provider.                                                           *)
(***************************************************************************)
\* The items of some zones are items of the batch.
LEMMA ItemsInType ==
  ASSUME NEW items, NEW zs
  PROVE  \A i \in ItemsIn(zs, items) :
           i \in items /\ \E z \in zs : i \in InZone(z, items)
BY DEF ItemsIn, InZone

\* Applying any zones of a batch to a store gives a store.
LEMMA ApplyZonesType ==
  ASSUME NEW st, IsStore(st), NEW b \in Batches, NEW zs
  PROVE  IsStore(ApplyZones(st, b, zs))
<1> DEFINE written == ItemsIn(zs, b.create \cup b.updateNew)
           removed == ItemKeys(ItemsIn(zs, b.delete))
           dom     == (DOMAIN st \cup ItemKeys(written)) \ removed
           new     == ApplyZones(st, b, zs)
<1>1. \A i \in written : i \in Items
  BY ItemsInType DEF Batches
<1>2. new = [k \in dom |->
               IF k \in ItemKeys(written)
               THEN Stored(ItemEndpoint(CHOOSE i \in written : ItemKey(i) = k))
               ELSE st[k]]
  BY DEF ApplyZones
<1>3. DOMAIN new = dom
  BY <1>2
<1>4. new = [k \in DOMAIN new |-> new[k]]
  BY <1>2, <1>3
<1>5. ASSUME NEW k \in dom PROVE k \in EndpointKey /\ new[k] \in Endpoint /\ Key(new[k]) = k
  <2>1. CASE k \in ItemKeys(written)
    <3> DEFINE i == CHOOSE j \in written : ItemKey(j) = k
    <3>1. i \in written /\ ItemKey(i) = k
      BY <2>1 DEF ItemKeys
    <3>2. ItemEndpoint(i) \in Endpoint /\ Key(ItemEndpoint(i)) = k /\ k \in EndpointKey
      BY <3>1, <1>1, ItemType DEF ItemKey
    <3>3. new[k] = Stored(ItemEndpoint(i))
      BY <1>2, <2>1
    <3>4. QED
      BY <3>2, <3>3, StoredType
  <2>2. CASE k \notin ItemKeys(written)
    <3>1. k \in DOMAIN st /\ new[k] = st[k]
      BY <1>2, <2>2
    <3>2. QED
      BY <3>1 DEF IsStore
  <2>3. QED
    BY <2>1, <2>2
<1>6. QED
  BY <1>3, <1>4, <1>5 DEF IsStore

\* What a zone that passes validation can lose or see rewritten: records that a
\* deletion names, and records that an update names; never one by a creation.
LEMMA ChangedByItem ==
  ASSUME NEW st, IsStore(st), NEW b \in Batches, NEW zs \in SUBSET Zones,
         \A z \in zs : Valid(st, b, z), NEW k \in DOMAIN st,
         \/ k \notin DOMAIN ApplyZones(st, b, zs)
         \/ ApplyZones(st, b, zs)[k] # st[k]
  PROVE  \E z \in zs : \E i \in InZone(z, b.delete) \cup InZone(z, b.updateNew) :
           ItemKey(i) = k
<1> DEFINE written == ItemsIn(zs, b.create \cup b.updateNew)
           removed == ItemKeys(ItemsIn(zs, b.delete))
<1>1. k \in removed \/ k \in ItemKeys(written)
  BY DEF ApplyZones
<1>2. CASE k \in removed
  BY <1>2, ItemsInType DEF ItemKeys
<1>3. CASE k \in ItemKeys(written)
  <2>1. PICK i \in written : ItemKey(i) = k
    BY <1>3 DEF ItemKeys
  <2>2. PICK z \in zs : i \in InZone(z, b.create \cup b.updateNew)
    BY <2>1, ItemsInType
  <2>3. i \notin InZone(z, b.create)
    BY <2>1 DEF Valid, ItemKeys
  <2>4. i \in InZone(z, b.updateNew)
    BY <2>2, <2>3 DEF InZone
  <2>5. QED
    BY <2>1, <2>4
<1>4. QED
  BY <1>1, <1>2, <1>3

\* A provider that handles a batch goes from store to store.
LEMMA OutcomeType ==
  ASSUME NEW st, IsStore(st), NEW b \in Batches, NEW o \in ApplyOutcomes(st, b)
  PROVE  /\ IsStore(o.store)
         /\ \E zs \in SUBSET Zones : /\ \A z \in zs : Valid(st, b, z)
                                     /\ o.store = ApplyZones(st, b, zs)
<1>1. \E zs \in SUBSET Zones : /\ \A z \in zs : Valid(st, b, z)
                               /\ o.store = ApplyZones(st, b, zs)
  <2> DEFINE valid == {z \in Zones : Valid(st, b, z)}
  <2>1. CASE valid = Zones
    BY <2>1 DEF ApplyOutcomes
  <2>2. CASE valid # Zones
    BY <2>2 DEF ApplyOutcomes
  <2>3. QED
    BY <2>1, <2>2
<1>2. QED
  BY <1>1, ApplyZonesType

(***************************************************************************)
(* The registry.                                                           *)
(***************************************************************************)
\* A record with some of its labels replaced is a record with the same key.
LEMMA RelabelledType ==
  ASSUME NEW r \in Endpoint, NEW l \in Labels
  PROVE  [r EXCEPT !.labels = l] \in Endpoint
BY DEF Endpoint

\* Labels laid over labels are labels.
LEMMA MergeLabelsType ==
  ASSUME NEW base \in Labels, NEW over \in Labels
  PROVE  MergeLabels(base, over) \in Labels
BY DEF MergeLabels, Override, Labels

\* What the registry lists are records.
LEMMA RegistryRecordsType ==
  ASSUME NEW owner, NEW records \in SUBSET Endpoint,
         NEW l \in RegistryRecords(owner, records)
  PROVE  l \in SUBSET Endpoint
<1> DEFINE mine == {r \in records : IsRegistryTXT(owner, r)}
<1>1. PICK txts \in SUBSET mine : l = Labelled(records \ mine, txts)
  BY DEF RegistryRecords, Selections
<1>2. ASSUME NEW r \in records
      PROVE  [r EXCEPT !.labels =
                IF \E t \in txts : t.dnsName = r.dnsName
                THEN MergeLabels(@, (CHOOSE t \in txts : t.dnsName = r.dnsName).text)
                ELSE @] \in Endpoint
  <2>1. r \in Endpoint /\ r.labels \in Labels
    BY DEF Endpoint
  <2>2. CASE \E t \in txts : t.dnsName = r.dnsName
    <3> DEFINE t == CHOOSE u \in txts : u.dnsName = r.dnsName
    <3>1. t \in txts
      BY <2>2
    <3>2. t.text \in Labels
      BY <3>1 DEF Endpoint
    <3>3. MergeLabels(r.labels, t.text) \in Labels
      BY <2>1, <3>2, MergeLabelsType
    <3>4. QED
      BY <2>1, <2>2, <3>3, RelabelledType
  <2>3. CASE ~ \E t \in txts : t.dnsName = r.dnsName
    BY <2>1, <2>3, RelabelledType
  <2>4. QED
    BY <2>2, <2>3
<1>3. QED
  BY <1>1, <1>2 DEF Labelled

\* What the registry lists are the records of the provider, some with the labels
\* of a TXT record of the same name laid over their own.
LEMMA ListedLabels ==
  ASSUME NEW owner, NEW records \in SUBSET Endpoint,
         NEW l \in RegistryRecords(owner, records), NEW u \in l
  PROVE  \E r \in records :
           /\ ~IsRegistryTXT(owner, r)
           /\ \E labels \in Labels : u = [r EXCEPT !.labels = labels]
           /\ u \in Endpoint /\ Key(u) = Key(r)
           /\ \/ /\ u.labels = r.labels
                 /\ \A t \in records : IsRegistryTXT(owner, t) => t.dnsName # r.dnsName
              \/ \E t \in records : /\ IsRegistryTXT(owner, t) /\ t.dnsName = r.dnsName
                                    /\ u.labels = MergeLabels(r.labels, t.text)
<1> DEFINE mine == {r \in records : IsRegistryTXT(owner, r)}
           Of(r, txts) == \E t \in txts : t.dnsName = r.dnsName
<1>1. PICK txts \in Selections(mine, DNSNameOf) : l = Labelled(records \ mine, txts)
  BY DEF RegistryRecords
<1>2. txts \subseteq mine /\ \A e \in mine : \E t \in txts : t.dnsName = e.dnsName
  <2>1. \A e \in mine : \E t \in txts : \A v \in txts : DNSNameOf(v) = DNSNameOf(e) <=> v = t
    BY <1>1 DEF Selections
  <2>2. txts \subseteq mine
    BY <1>1 DEF Selections
  <2>3. QED
    BY <2>1, <2>2 DEF DNSNameOf
<1>3. PICK r \in records \ mine :
        u = [r EXCEPT !.labels =
               IF Of(r, txts)
               THEN MergeLabels(@, (CHOOSE t \in txts : t.dnsName = r.dnsName).text)
               ELSE @]
  BY <1>1 DEF Labelled
<1>4. r \in Endpoint /\ r.labels \in Labels /\ ~IsRegistryTXT(owner, r)
  BY <1>3 DEF Endpoint
<1>5. ASSUME NEW labels \in Labels, u = [r EXCEPT !.labels = labels]
      PROVE  u \in Endpoint /\ Key(u) = Key(r) /\ u.labels = labels
  BY <1>4, <1>5 DEF Endpoint, Key
<1>6. CASE Of(r, txts)
  <2> DEFINE t == CHOOSE v \in txts : v.dnsName = r.dnsName
  <2>1. t \in txts /\ t.dnsName = r.dnsName
    BY <1>6
  <2>2. t \in records /\ IsRegistryTXT(owner, t) /\ t.text \in Labels
    BY <1>2, <2>1 DEF Endpoint
  <2>3. MergeLabels(r.labels, t.text) \in Labels
    BY <1>4, <2>2, MergeLabelsType
  <2>4. u = [r EXCEPT !.labels = MergeLabels(r.labels, t.text)]
    BY <1>3, <1>6
  <2> HIDE DEF t
  <2>5. QED
    BY <1>3, <1>4, <1>5, <2>1, <2>2, <2>3, <2>4
<1>7. CASE ~Of(r, txts)
  <2>1. u = [r EXCEPT !.labels = r.labels]
    BY <1>3, <1>7
  <2>2. \A e \in records : IsRegistryTXT(owner, e) => e.dnsName # r.dnsName
    BY <1>2, <1>7
  <2>3. QED
    BY <1>3, <1>4, <1>5, <2>1, <2>2
<1>8. QED
  BY <1>6, <1>7

\* Every record that is no TXT record of the owner is listed.
LEMMA AllListed ==
  ASSUME NEW owner, NEW records \in SUBSET Endpoint,
         NEW l \in RegistryRecords(owner, records),
         NEW r \in records, ~IsRegistryTXT(owner, r)
  PROVE  \E u \in l : Key(u) = Key(r)
<1> DEFINE mine == {t \in records : IsRegistryTXT(owner, t)}
           labels(txts) == IF \E t \in txts : t.dnsName = r.dnsName
                           THEN MergeLabels(r.labels,
                                  (CHOOSE t \in txts : t.dnsName = r.dnsName).text)
                           ELSE r.labels
<1>1. PICK txts \in Selections(mine, DNSNameOf) : l = Labelled(records \ mine, txts)
  BY DEF RegistryRecords
<1>2. [r EXCEPT !.labels = labels(txts)] \in l
  BY <1>1 DEF Labelled
<1>3. Key([r EXCEPT !.labels = labels(txts)]) = Key(r)
  <2> HIDE DEF labels
  <2>1. QED
    BY DEF Endpoint, Key
<1>4. QED
  BY <1>2, <1>3

\* What the registry sends to the provider is a batch.
LEMMA RegistryChangesType ==
  ASSUME NEW owner \in LabelValues, NEW c \in Changes
  PROVE  RegistryChanges(owner, c) \in Batches
<1>1. /\ c.create \in SUBSET Endpoint /\ c.updateOld \in SUBSET Endpoint
      /\ c.updateNew \in SUBSET Endpoint /\ c.delete \in SUBSET Endpoint
  BY DEF Changes
<1>2. ASSUME NEW r \in Endpoint PROVE [r EXCEPT !.labels.mesh = owner] \in Endpoint
  BY DEF Endpoint, Labels
<1>3. {[r EXCEPT !.labels.mesh = owner] : r \in c.create} \in SUBSET Endpoint
  BY <1>1, <1>2
<1>4. ASSUME NEW eps \in SUBSET Endpoint
      PROVE  /\ WithTXT(eps) \in SUBSET Items
             /\ FilterEndpointsByOwnerID(owner, eps) \in SUBSET Endpoint
  BY DEF WithTXT, Items, FilterEndpointsByOwnerID
<1>5. QED
  BY <1>1, <1>3, <1>4 DEF RegistryChanges, Batches

(***************************************************************************)
(* The plan.                                                               *)
(***************************************************************************)
\* The labels that InheritOwner gives a record are labels.
LEMMA InheritOwnerType ==
  ASSUME NEW from \in Endpoint, NEW to \in Endpoint
  PROVE  /\ InheritOwner(from, to) \in Endpoint
         /\ Key(InheritOwner(from, to)) = Key(to)
         /\ InheritOwner(from, to).labels.owner = Get(from.labels.owner)
<1>1. Get(from.labels.owner) \in LabelValues
  BY EndpointsAssumption DEF Get, Endpoint, Labels
<1>2. QED
  BY <1>1 DEF InheritOwner, Endpoint, Labels, Key

\* Sorting the targets of a record in place leaves a record with its key and
\* its labels.
LEMMA SortedType ==
  ASSUME NEW e \in Endpoint
  PROVE  /\ [e EXCEPT !.targets = Sorted(@)] \in Endpoint
         /\ Key([e EXCEPT !.targets = Sorted(@)]) = Key(e)
         /\ [e EXCEPT !.targets = Sorted(@)].labels = e.labels
BY EndpointsAssumption DEF Endpoint, Key

\* So do the comparisons that may sort.
LEMMA ComparedType ==
  ASSUME NEW e \in Endpoint, NEW d, NEW c, NEW candidates
  PROVE  /\ AfterComparison(e, candidates) \in Endpoint
         /\ Key(AfterComparison(e, candidates)) = Key(e)
         /\ AfterComparison(e, candidates).labels = e.labels
         /\ AfterNeedsUpdate(e, d, c) \in Endpoint
         /\ Key(AfterNeedsUpdate(e, d, c)) = Key(e)
         /\ AfterNeedsUpdate(e, d, c).labels = e.labels
BY SortedType DEF AfterComparison, AfterNeedsUpdate

\* The plan table turns records into lists of records.  Every new value of an
\* update comes with an old value of the same cell, whose owner it inherits.
LEMMA TableChangesType ==
  ASSUME NEW owner, NEW cur \in SUBSET Endpoint, NEW des \in SUBSET Endpoint,
         NEW last \in SUBSET cur, NEW win \in SUBSET des
  PROVE  /\ TableChanges(owner, cur, des, last, win) \in Changes
         /\ \A n \in TableChanges(owner, cur, des, last, win).updateNew :
              \E o \in TableChanges(owner, cur, des, last, win).updateOld :
                 Cell(o) = Cell(n) /\ n.labels.owner = Get(o.labels.owner)
<1> DEFINE c       == TableChanges(owner, cur, des, last, win)
           updated == {u \in last \X win : /\ Cell(u[1]) = Cell(u[2])
                                           /\ NeedsUpdate(u[2], u[1])}
           Old(u)  == AfterNeedsUpdate(u[1], u[2], u[1])
           New(u)  == InheritOwner(u[1], AfterNeedsUpdate(
                        AfterComparison(u[2], des), u[2], u[1]))
<1>1. /\ c.updateOld = {Old(u) : u \in updated}
      /\ c.updateNew = {New(u) : u \in updated}
  BY DEF TableChanges
<1>2. ASSUME NEW u \in updated
      PROVE  /\ Old(u) \in Endpoint /\ New(u) \in Endpoint
             /\ Cell(Old(u)) = Cell(New(u))
             /\ New(u).labels.owner = Get(Old(u).labels.owner)
  <2>1. u[1] \in Endpoint /\ u[2] \in Endpoint /\ Cell(u[1]) = Cell(u[2])
    OBVIOUS
  <2>2. /\ Old(u) \in Endpoint /\ Key(Old(u)) = Key(u[1])
        /\ Old(u).labels = u[1].labels
    BY <2>1, ComparedType
  <2>3. /\ New(u) \in Endpoint /\ Key(New(u)) = Key(u[2])
        /\ New(u).labels.owner = Get(u[1].labels.owner)
    BY <2>1, ComparedType, InheritOwnerType
  <2>4. \A e, f \in Endpoint : Key(e) = Key(f) => Cell(e) = Cell(f)
    BY KeyType DEF Cell, PlanKey
  <2>5. QED
    BY <2>1, <2>2, <2>3, <2>4
<1>3. c.create \in SUBSET Endpoint
  BY ComparedType DEF TableChanges
<1>4. c.delete \in SUBSET Endpoint
  BY DEF TableChanges
<1>5. c = [create |-> c.create, delete |-> c.delete,
           updateOld |-> c.updateOld, updateNew |-> c.updateNew]
  BY DEF TableChanges
<1>6. c \in Changes
  BY <1>1, <1>2, <1>3, <1>4, <1>5 DEF Changes
<1>7. QED
  BY <1>1, <1>2, <1>6

\* Every new value of an update has an old one to stand for, of the same cell.
UpdatesArePaired(c) == \A n \in c.updateNew : \E o \in c.updateOld : Cell(o) = Cell(n)

\* A plan consists of records.  With an owner it deletes and updates records of
\* this owner only, and each of its updates has an old value to stand for.
LEMMA PlansType ==
  ASSUME NEW p, p.policy \in Policies,
         NEW current \in SUBSET Endpoint, NEW desired \in SUBSET Endpoint,
         NEW c \in Plans(p, current, desired)
  PROVE  /\ c \in Changes
         /\ p.planOwner # "" =>
              /\ \A e \in c.delete \cup c.updateOld \cup c.updateNew :
                    IsOwnedBy(e, p.planOwner)
              /\ UpdatesArePaired(c)
<1> DEFINE cur == FilterRecordsForPlan(p, current)
           des == FilterRecordsForPlan(p, desired)
<1>1. PICK last \in Selections(cur, Cell) :
        \E win \in Winners(last, ResolveRecordTypes(des)) : c = Calculate(p, cur, des, last, win)
  BY DEF Plans
<1>2. PICK win \in Winners(last, ResolveRecordTypes(des)) : c = Calculate(p, cur, des, last, win)
  BY <1>1
<1> DEFINE table == TableChanges(p.planOwner, cur, des, last, win)
           kept  == ApplyPolicy(p.policy, table)
<1>3. last \in SUBSET cur /\ win \in SUBSET des
  <2>1. last \in SUBSET cur
    BY <1>1 DEF Selections
  <2>2. win \in Selections(ResolveRecordTypes(des), Cell)
    BY <1>2 DEF Winners
  <2>3. win \in SUBSET ResolveRecordTypes(des)
    BY <2>2 DEF Selections
  <2>4. QED
    BY <2>1, <2>3 DEF ResolveRecordTypes
<1>4. /\ table \in Changes
      /\ \A n \in table.updateNew : \E o \in table.updateOld :
            Cell(o) = Cell(n) /\ n.labels.owner = Get(o.labels.owner)
  <2>1. cur \in SUBSET Endpoint /\ des \in SUBSET Endpoint
    BY DEF FilterRecordsForPlan
  <2> HIDE DEF cur, des
  <2>2. TableChanges(p.planOwner, cur, des, last, win) \in Changes
    BY <1>3, <2>1, TableChangesType
  <2>3. \A n \in table.updateNew : \E o \in table.updateOld :
            Cell(o) = Cell(n) /\ n.labels.owner = Get(o.labels.owner)
    BY <1>3, <2>1, TableChangesType
  <2>4. QED
    BY <2>2, <2>3
<1>5. /\ kept \in Changes
      /\ \A n \in kept.updateNew : \E o \in kept.updateOld :
            Cell(o) = Cell(n) /\ n.labels.owner = Get(o.labels.owner)
  BY <1>4 DEF ApplyPolicy, Policies, Changes
<1>6. c = FilterByOwner(p.planOwner, kept)
  BY <1>2 DEF Calculate
<1>7. c \in Changes
  BY <1>5, <1>6 DEF FilterByOwner, FilterEndpointsByOwnerID, Changes
<1>8. ASSUME p.planOwner # ""
      PROVE  /\ \A e \in c.delete \cup c.updateOld \cup c.updateNew :
                   IsOwnedBy(e, p.planOwner)
             /\ UpdatesArePaired(c)
  <2>1. /\ c.delete = {e \in kept.delete : IsOwnedBy(e, p.planOwner)}
        /\ c.updateOld = {e \in kept.updateOld : IsOwnedBy(e, p.planOwner)}
        /\ c.updateNew = {e \in kept.updateNew : IsOwnedBy(e, p.planOwner)}
    BY <1>5, <1>6, <1>8 DEF FilterByOwner, FilterEndpointsByOwnerID, Changes
  <2>2. ASSUME NEW n \in c.updateNew PROVE \E o \in c.updateOld : Cell(o) = Cell(n)
    <3>1. PICK o \in kept.updateOld : Cell(o) = Cell(n) /\ n.labels.owner = Get(o.labels.owner)
      BY <1>5, <2>1
    <3>2. o.labels.owner = p.planOwner
      BY <1>8, <2>1, <3>1 DEF IsOwnedBy, Get
    <3>3. QED
      BY <2>1, <3>1, <3>2 DEF IsOwnedBy
  <2>3. QED
    BY <2>1, <2>2 DEF UpdatesArePaired
<1>9. QED
  BY <1>7, <1>8

\* What the policy leaves of a plan.
LEMMA PlansKeepPolicy ==
  ASSUME NEW p, p.policy \in Policies, NEW current, NEW desired,
         NEW c \in Plans(p, current, desired)
  PROVE  /\ p.policy = "create-only" => c.delete = {} /\ c.updateOld = {} /\ c.updateNew = {}
         /\ p.policy = "upsert-only" => c.delete = {}
<1> DEFINE cur == FilterRecordsForPlan(p, current)
           des == FilterRecordsForPlan(p, desired)
<1>1. PICK last \in Selections(cur, Cell) :
        \E win \in Winners(last, ResolveRecordTypes(des)) : c = Calculate(p, cur, des, last, win)
  BY DEF Plans
<1>2. PICK win \in Winners(last, ResolveRecordTypes(des)) : c = Calculate(p, cur, des, last, win)
  BY <1>1
<1> DEFINE table == TableChanges(p.planOwner, cur, des, last, win)
           kept  == ApplyPolicy(p.policy, table)
<1>3. c = FilterByOwner(p.planOwner, kept)
  BY <1>2 DEF Calculate
<1>4. table = [create |-> table.create, delete |-> table.delete,
               updateOld |-> table.updateOld, updateNew |-> table.updateNew]
  BY DEF TableChanges
<1> HIDE DEF table, cur, des
<1>5. /\ kept = [create |-> kept.create, delete |-> kept.delete,
                 updateOld |-> kept.updateOld, updateNew |-> kept.updateNew]
      /\ p.policy = "create-only" => /\ kept.delete = {} /\ kept.updateOld = {}
                                     /\ kept.updateNew = {}
      /\ p.policy = "upsert-only" => kept.delete = {}
  BY <1>4 DEF ApplyPolicy, Policies
<1> HIDE DEF kept
<1>6. QED
  BY <1>3, <1>5 DEF FilterByOwner, FilterEndpointsByOwnerID

\* The update n of a plan, made of the record u[1] and the winner u[2].
UpdateOf(u, n, des) ==
  /\ Cell(u[1]) = Cell(u[2]) /\ NeedsUpdate(u[2], u[1])
  /\ n = InheritOwner(u[1], AfterNeedsUpdate(AfterComparison(u[2], des), u[2], u[1]))

\* Every update of a plan is one.
LEMMA UpdatesComeFrom ==
  ASSUME NEW p, p.policy \in Policies, NEW cur, NEW des, NEW last, NEW win,
         NEW n \in Calculate(p, cur, des, last, win).updateNew
  PROVE  \E u \in last \X win : UpdateOf(u, n, des)
<1> DEFINE table == TableChanges(p.planOwner, cur, des, last, win)
           kept  == ApplyPolicy(p.policy, table)
<1>1. \A e \in table.updateNew : \E u \in last \X win : UpdateOf(u, e, des)
  BY DEF TableChanges, UpdateOf
<1>2. table = [create |-> table.create, delete |-> table.delete,
               updateOld |-> table.updateOld, updateNew |-> table.updateNew]
  BY DEF TableChanges
<1>3. n \in FilterByOwner(p.planOwner, kept).updateNew
  BY DEF Calculate
<1> HIDE DEF table
<1>4. /\ kept.updateNew \subseteq table.updateNew
      /\ kept = [create |-> kept.create, delete |-> kept.delete,
                 updateOld |-> kept.updateOld, updateNew |-> kept.updateNew]
  BY <1>2 DEF ApplyPolicy, Policies
<1> HIDE DEF kept
<1>5. n \in table.updateNew
  BY <1>3, <1>4 DEF FilterByOwner, FilterEndpointsByOwnerID
<1>6. QED
  BY <1>1, <1>5

\* The labels l with the owner o in the place of theirs.
WithOwner(l, o) == [l EXCEPT !.owner = o]

\* An update keeps the key of the winner and its labels except for the owner.
LEMMA UpdateOfType ==
  ASSUME NEW u, u[1] \in Endpoint, u[2] \in Endpoint, NEW n, NEW des, UpdateOf(u, n, des)
  PROVE  /\ n \in Endpoint /\ Key(n) = Key(u[2]) /\ Cell(u[1]) = Cell(u[2])
         /\ n.labels = WithOwner(u[2].labels, Get(u[1].labels.owner))
         /\ n.labels.owner = Get(u[1].labels.owner)
         /\ n.labels.resource = u[2].labels.resource
<1> DEFINE e == AfterComparison(u[2], des)
           f == AfterNeedsUpdate(e, u[2], u[1])
<1>1. e \in Endpoint /\ Key(e) = Key(u[2]) /\ e.labels = u[2].labels
  BY ComparedType
<1>2. f \in Endpoint /\ Key(f) = Key(e) /\ f.labels = e.labels
  BY <1>1, ComparedType
<1>3. n = InheritOwner(u[1], f) /\ Cell(u[1]) = Cell(u[2])
  BY DEF UpdateOf
<1> HIDE DEF e, f
<1>4. n.labels.resource = f.labels.resource
  BY <1>2, <1>3 DEF InheritOwner, Endpoint, Labels
<1>5. n.labels = WithOwner(f.labels, Get(u[1].labels.owner))
  BY <1>2, <1>3 DEF InheritOwner, WithOwner, Endpoint
<1>6. QED
  BY <1>1, <1>2, <1>3, <1>4, <1>5, InheritOwnerType

\* The plan creates records that are desired, and its new values stand where
\* desired records do and have their labels, except for the owner.
AimsAt(c, desired) ==
  /\ \A e \in c.create : \E d \in desired : Key(d) = Key(e) /\ d.labels = e.labels
  /\ \A e \in c.updateNew : \E d \in desired :
        Key(d) = Key(e) /\ e.labels = WithOwner(d.labels, e.labels.owner)

\* Every plan does.
LEMMA PlansWanted ==
  ASSUME NEW p, p.policy \in Policies,
         NEW current \in SUBSET Endpoint, NEW desired \in SUBSET Endpoint,
         NEW c \in Plans(p, current, desired)
  PROVE  AimsAt(c, desired)
<1> DEFINE cur == FilterRecordsForPlan(p, current)
           des == FilterRecordsForPlan(p, desired)
<1>1. PICK last \in Selections(cur, Cell) :
        \E win \in Winners(last, ResolveRecordTypes(des)) : c = Calculate(p, cur, des, last, win)
  BY DEF Plans
<1>2. PICK win \in Winners(last, ResolveRecordTypes(des)) : c = Calculate(p, cur, des, last, win)
  BY <1>1
<1> DEFINE table == TableChanges(p.planOwner, cur, des, last, win)
<1>3. last \in SUBSET Endpoint /\ win \in SUBSET desired /\ win \in SUBSET Endpoint
  <2>1. last \in SUBSET cur
    BY <1>1 DEF Selections
  <2>2. win \in Selections(ResolveRecordTypes(des), Cell)
    BY <1>2 DEF Winners
  <2>3. win \in SUBSET ResolveRecordTypes(des)
    BY <2>2 DEF Selections
  <2>4. win \in SUBSET desired
    BY <2>3 DEF ResolveRecordTypes, FilterRecordsForPlan
  <2>5. QED
    BY <2>1, <2>4 DEF FilterRecordsForPlan
<1>4. \A e \in table.create : \E w \in win : e = AfterComparison(w, des)
  BY DEF TableChanges
<1>5. \A e \in table.updateNew : \E u \in last \X win : UpdateOf(u, e, des)
  BY DEF TableChanges, UpdateOf
<1>6. c.create \subseteq table.create /\ c.updateNew \subseteq table.updateNew
  <2> HIDE DEF cur, des
  <2>1. table = [create |-> table.create, delete |-> table.delete,
                 updateOld |-> table.updateOld, updateNew |-> table.updateNew]
    BY DEF TableChanges
  <2>2. c = FilterByOwner(p.planOwner, ApplyPolicy(p.policy, table))
    BY <1>2 DEF Calculate
  <2> HIDE DEF table
  <2> DEFINE kept == ApplyPolicy(p.policy, table)
  <2>3. /\ kept.create = table.create /\ kept.updateNew \subseteq table.updateNew
        /\ kept = [create |-> kept.create, delete |-> kept.delete,
                   updateOld |-> kept.updateOld, updateNew |-> kept.updateNew]
    BY <2>1 DEF ApplyPolicy, Policies
  <2> HIDE DEF kept
  <2>4. QED
    BY <2>2, <2>3 DEF FilterByOwner, FilterEndpointsByOwnerID, kept
<1> HIDE DEF table
<1>7. ASSUME NEW e \in c.create
      PROVE  \E d \in desired : Key(d) = Key(e) /\ d.labels = e.labels
  <2>1. PICK w \in win : e = AfterComparison(w, des)
    BY <1>4, <1>6
  <2>2. QED
    BY <1>3, <2>1, ComparedType
<1>8. ASSUME NEW e \in c.updateNew
      PROVE  \E d \in desired : Key(d) = Key(e) /\ e.labels = WithOwner(d.labels, e.labels.owner)
  <2>1. PICK u \in last \X win : UpdateOf(u, e, des)
    BY <1>5, <1>6
  <2>2. u[1] \in Endpoint /\ u[2] \in Endpoint /\ u[2] \in desired
    BY <1>3
  <2>3. QED
    BY <2>1, <2>2, UpdateOfType
<1>9. QED
  BY <1>7, <1>8 DEF AimsAt

\* No two spellings of one name are in use.  Without this a new value may stand
\* at another spelling of the name than the old value it was planned for.
OneSpelling == \A m, n \in Names : Canonical[m] = Canonical[n] => m = n

\* Records of one cell have one key.
LEMMA CellKey ==
  ASSUME OneSpelling, NEW e \in Endpoint, NEW f \in Endpoint, Cell(e) = Cell(f)
  PROVE  Key(e) = Key(f)
BY CanonicalAssumption DEF OneSpelling, Endpoint, Cell, PlanKey, Key

\* And the other way round, whatever the spellings.
LEMMA KeyCell ==
  ASSUME NEW e \in Endpoint, NEW f \in Endpoint, Key(e) = Key(f)
  PROVE  Cell(e) = Cell(f) /\ PlanKey(e) = PlanKey(f)
<1>1. /\ e.dnsName = f.dnsName /\ e.recordType = f.recordType
      /\ e.setIdentifier = f.setIdentifier
  BY KeyType
<1>2. QED
  BY <1>1 DEF Cell, PlanKey

\* All records with the key k among the listed ones, or one of the desired ones,
\* have the resource x.
HeldBy(current, k, x) == \A u \in current : Key(u) = k => Get(u.labels.resource) = x
AskedForBy(desired, k, x) == \E d \in desired : Key(d) = k /\ Get(d.labels.resource) = x

\* An update keeps a name with the resource that holds it, as long as this
\* resource asks for the name.
LEMMA UpdatesKeepResource ==
  ASSUME OneSpelling, NEW p, p.policy \in Policies,
         NEW current \in SUBSET Endpoint, NEW desired \in SUBSET Endpoint,
         NEW c \in Plans(p, current, desired), NEW n \in c.updateNew, NEW x,
         HeldBy(current, Key(n), x), AskedForBy(desired, Key(n), x)
  PROVE  \E w \in desired : /\ Get(w.labels.resource) = x
                            /\ n.labels.resource = w.labels.resource
<1> DEFINE cur == FilterRecordsForPlan(p, current)
           des == FilterRecordsForPlan(p, desired)
           resolved == ResolveRecordTypes(des)
<1>0. PICK d \in desired : Key(d) = Key(n) /\ Get(d.labels.resource) = x
  BY DEF AskedForBy
<1>1. PICK last \in Selections(cur, Cell) :
        \E win \in Winners(last, resolved) : c = Calculate(p, cur, des, last, win)
  BY DEF Plans
<1>2. PICK win \in Winners(last, resolved) : c = Calculate(p, cur, des, last, win)
  BY <1>1
<1>3. last \in SUBSET cur
  BY <1>1 DEF Selections
<1>4. win \in SUBSET resolved
  BY <1>2 DEF Winners, Selections
<1>5. \E u \in last \X win : UpdateOf(u, n, des)
  BY <1>2, UpdatesComeFrom
<1>6. PICK u \in last \X win : UpdateOf(u, n, des)
  BY <1>5
<1> DEFINE old == u[1]
           w   == u[2]
<1>7. old \in cur /\ old \in current /\ w \in resolved /\ w \in des /\ w \in desired
  BY <1>3, <1>4, <1>6 DEF FilterRecordsForPlan, ResolveRecordTypes
<1>8. old \in Endpoint /\ w \in Endpoint /\ d \in Endpoint /\ old \in last /\ w \in win
  BY <1>0, <1>6, <1>7
<1>9. Cell(old) = Cell(w) /\ Key(n) = Key(w) /\ n.labels.resource = w.labels.resource
  BY <1>6, <1>8, UpdateOfType
<1>10. Key(old) = Key(n)
  BY <1>8, <1>9, CellKey
<1> DEFINE rivals == {e \in resolved : Cell(e) = Cell(w)}
           same   == {e \in rivals : Get(e.labels.resource) = Get(old.labels.resource)}
<1>11. \A e \in {o \in last : Cell(o) = Cell(w)} : w \in ResolveUpdate(e, rivals)
  BY <1>2, <1>8 DEF Winners
<1>12. w \in ResolveUpdate(old, rivals)
  BY <1>8, <1>9, <1>11
<1>13. d \in same
  <2>1. d.dnsName = old.dnsName /\ d.recordType = old.recordType /\ d.recordType = w.recordType
    BY <1>0, <1>8, <1>9, <1>10, KeyType
  <2>2. d \in des
    BY <1>0, <1>7, <2>1 DEF FilterRecordsForPlan
  <2>3. Cell(d) = Cell(w) /\ PlanKey(d) = PlanKey(w)
    <3>1. d.dnsName = w.dnsName /\ d.setIdentifier = w.setIdentifier
      BY <1>0, <1>8, <1>9, KeyType
    <3>2. QED
      BY <2>1, <3>1 DEF Cell, PlanKey
  <2>4. d \in resolved
    BY <1>7, <2>1, <2>2, <2>3 DEF ResolveRecordTypes
  <2>5. Get(old.labels.resource) = x
    BY <1>7, <1>10 DEF HeldBy
  <2>6. QED
    BY <1>0, <2>3, <2>4, <2>5
<1>14. w \in same
  BY <1>12, <1>13 DEF ResolveUpdate, ResolveCreate
<1>15. Get(w.labels.resource) = x
  BY <1>7, <1>10, <1>14 DEF HeldBy
<1>16. QED
  BY <1>7, <1>9, <1>15

(***************************************************************************)
(* Ownership.                                                              *)
(***************************************************************************)
\* The store holds a TXT record for the key k that names the owner.
SpokenFor(st, k, owner) ==
  /\ TXTKey(k) \in DOMAIN st
  /\ st[TXTKey(k)].text.owner = owner

\* Every deletion and old value of a batch comes with its TXT record and is
\* labelled with the owner; every new value comes with an old one.
OwnedItems(owner, items) ==
  \A i \in items : <<i[1], "txt">> \in items /\ IsOwnedBy(i[1], owner)

OwnedBatch(owner, b) ==
  /\ OwnedItems(owner, b.delete)
  /\ OwnedItems(owner, b.updateOld)
  /\ \A n \in b.updateNew : \E o \in b.updateOld : Key(o[1]) = Key(n[1])

\* What the registry makes of a plan is owned: an update passes the registry's
\* filter with its old value, whose owner it inherited, or not at all.
LEMMA PlanIsOwned ==
  ASSUME OneSpelling, NEW p, p.policy \in Policies, p.planOwner # "",
         NEW current \in SUBSET Endpoint, NEW desired \in SUBSET Endpoint,
         NEW c \in Plans(p, current, desired), NEW owner
  PROVE  OwnedBatch(owner, RegistryChanges(owner, c))
<1> DEFINE b == RegistryChanges(owner, c)
<1>1. /\ c \in Changes
      /\ \A e \in c.updateOld \cup c.updateNew : IsOwnedBy(e, p.planOwner)
      /\ UpdatesArePaired(c)
  BY PlansType
<1>2. ASSUME NEW eps
      PROVE  OwnedItems(owner, WithTXT(FilterEndpointsByOwnerID(owner, eps)))
  BY DEF OwnedItems, WithTXT, FilterEndpointsByOwnerID
<1>3. /\ b.delete = WithTXT(FilterEndpointsByOwnerID(owner, c.delete))
      /\ b.updateOld = WithTXT(FilterEndpointsByOwnerID(owner, c.updateOld))
      /\ b.updateNew = WithTXT(FilterEndpointsByOwnerID(owner, c.updateNew))
  BY DEF RegistryChanges
<1> HIDE DEF b
<1>4. ASSUME NEW n \in b.updateNew PROVE \E o \in b.updateOld : Key(o[1]) = Key(n[1])
  <2>0. n \in WithTXT(FilterEndpointsByOwnerID(owner, c.updateNew))
    BY <1>3
  <2>1. n[1] \in c.updateNew /\ IsOwnedBy(n[1], owner)
    BY <2>0 DEF WithTXT, FilterEndpointsByOwnerID
  <2>2. PICK o \in c.updateOld : Cell(o) = Cell(n[1])
    BY <1>1, <2>1 DEF UpdatesArePaired
  <2>3. IsOwnedBy(o, owner)
    BY <1>1, <2>1 DEF IsOwnedBy
  <2>4. <<o, "self">> \in b.updateOld
    BY <1>3, <2>3 DEF WithTXT, FilterEndpointsByOwnerID
  <2>5. Key(o) = Key(n[1])
    BY <1>1, <2>1, <2>2, CellKey DEF Changes
  <2>6. QED
    BY <2>4, <2>5
<1>5. QED
  BY <1>2, <1>3, <1>4 DEF OwnedBatch, b

\* A batch that is owned changes owned records only, whatever the store holds
\* by the time it is handled: the store has to hold the very TXT records that
\* the batch names, and they name the owner.
LEMMA OwnedBatchIsSafe ==
  ASSUME NEW st, IsStore(st), NEW owner, NEW b \in Batches, OwnedBatch(owner, b),
         NEW zs \in SUBSET Zones, \A z \in zs : Valid(st, b, z),
         NEW k \in DOMAIN st,
         \/ k \notin DOMAIN ApplyZones(st, b, zs)
         \/ ApplyZones(st, b, zs)[k] # st[k]
  PROVE  SpokenFor(st, k, owner)
<1>1. PICK z \in zs : \E i \in InZone(z, b.delete) \cup InZone(z, b.updateNew) : ItemKey(i) = k
  BY ChangedByItem
<1>2. ASSUME NEW i \in InZone(z, b.delete) \cup InZone(z, b.updateOld),
             TXTKey(Key(i[1])) = TXTKey(k)
      PROVE  SpokenFor(st, k, owner)
  <2> DEFINE t == <<i[1], "txt">>
  <2>1. i \in Items /\ i \in b.delete \cup b.updateOld
    BY DEF InZone, Batches
  <2>2. t \in Items /\ t \in b.delete \cup b.updateOld /\ IsOwnedBy(i[1], owner)
    BY <2>1 DEF OwnedBatch, OwnedItems, Items
  <2>3. ItemEndpoint(t).dnsName = ItemEndpoint(i).dnsName
    BY <2>1, <2>2, ItemType
  <2>4. t \in InZone(z, b.delete) \cup InZone(z, b.updateOld)
    BY <2>2, <2>3 DEF InZone
  <2>5. Matches(st, t)
    BY <2>4 DEF Valid
  <2>6. ItemKey(t) = TXTKey(k)
    BY <1>2, <2>2, ItemType
  <2>7. /\ TXTKey(k) \in DOMAIN st
        /\ SameFirstTarget(st[TXTKey(k)], TXTRecord(i[1]))
    BY <2>5, <2>6 DEF Matches, ItemEndpoint
  <2>8. st[TXTKey(k)].recordType = "TXT"
    BY <2>7, KeyType DEF IsStore, TXTKey
  <2>9. st[TXTKey(k)].text = i[1].labels
    BY <2>1, <2>7, <2>8, ItemType, TXTRecordType DEF SameFirstTarget
  <2>10. QED
    BY <2>2, <2>7, <2>9 DEF SpokenFor, IsOwnedBy
<1>3. ASSUME NEW i \in Items, ItemKey(i) = k PROVE TXTKey(Key(i[1])) = TXTKey(k)
  BY <1>3, ItemType DEF TXTKey
<1>4. CASE \E i \in InZone(z, b.delete) : ItemKey(i) = k
  BY <1>2, <1>3, <1>4 DEF InZone, Batches
<1>5. CASE \E n \in InZone(z, b.updateNew) : ItemKey(n) = k
  <2>1. PICK n \in InZone(z, b.updateNew) : ItemKey(n) = k
    BY <1>5
  <2>2. n \in b.updateNew /\ n \in Items
    BY DEF InZone, Batches
  <2>3. PICK i \in b.updateOld : Key(i[1]) = Key(n[1])
    BY <2>2 DEF OwnedBatch
  <2>4. i \in Items
    BY DEF Batches
  <2>5. i[1].dnsName = n[1].dnsName
    BY <2>2, <2>3, <2>4, ItemType, KeyType
  <2>6. i \in InZone(z, b.updateOld)
    BY <2>1, <2>2, <2>4, <2>5, ItemType DEF InZone
  <2>7. TXTKey(Key(i[1])) = TXTKey(k)
    BY <1>3, <2>1, <2>2, <2>3
  <2>8. QED
    BY <1>2, <2>6, <2>7
<1>6. QED
  BY <1>1, <1>4, <1>5

(***************************************************************************)
(* The cells of the zones.  A cell is what one TXT record speaks for: the  *)
(* records of one name and set identifier, told apart by their types.  It  *)
(* goes by the key of its TXT record.                                      *)
(***************************************************************************)
ZoneCells == Names \X {"TXT"} \X SetIdentifiers
InCell(c) == {k \in EndpointKey : TXTKey(k) = c}

\* Outside the keys in ks, the cell c is in new as it is in st.
KeptApartFrom(st, new, c, ks) ==
  \A k \in InCell(c) \ ks : /\ k \in DOMAIN new <=> k \in DOMAIN st
                            /\ k \in DOMAIN st => new[k] = st[k]

\* The store holds the record r and the TXT record made for r.
HoldsPair(st, r) ==
  /\ Key(r) \in DOMAIN st /\ st[Key(r)] = Stored(r)
  /\ TXTKey(Key(r)) \in DOMAIN st /\ st[TXTKey(Key(r))] = Stored(TXTRecord(r))

PairKeys(r) == {Key(r), TXTKey(Key(r))}

\* These keys are keys of the record's cell.
LEMMA PairKeysInCell ==
  ASSUME NEW r \in Endpoint
  PROVE  /\ TXTKey(Key(r)) \in ZoneCells
         /\ PairKeys(r) \subseteq InCell(TXTKey(Key(r)))
BY KeyType DEF PairKeys, InCell, TXTKey, Key, Endpoint, EndpointKey, RecordTypes, ZoneCells

\* What a request can do to a cell: put a record and its TXT record where
\* neither was, put them in the place of such a pair, or take a pair away.
Claimed(st, new, r) ==
  /\ PairKeys(r) \cap DOMAIN st = {}
  /\ HoldsPair(new, r)
Refilled(st, new, r) ==
  /\ PairKeys(r) \subseteq DOMAIN st
  /\ HoldsPair(new, r)
Released(st, new, r) ==
  /\ PairKeys(r) \subseteq DOMAIN st
  /\ PairKeys(r) \cap DOMAIN new = {}

\* A list of items in which every record comes with its TXT record.
PairedItems(items) == \A i \in items : {<<i[1], "self">>, <<i[1], "txt">>} \subseteq items

PairedBatch(b) == /\ PairedItems(b.create) /\ PairedItems(b.updateNew)
                  /\ PairedItems(b.updateOld) /\ PairedItems(b.delete)

\* All that the registry sends is paired.
LEMMA RegistryPairs ==
  ASSUME NEW owner, NEW c
  PROVE  PairedBatch(RegistryChanges(owner, c))
<1>1. ASSUME NEW eps PROVE PairedItems(WithTXT(eps))
  BY DEF PairedItems, WithTXT
<1>2. QED
  BY <1>1 DEF PairedBatch, RegistryChanges

\* The zone of an item is the zone of its cell.
LEMMA ZoneOfItem ==
  ASSUME NEW items \in SUBSET Items, NEW zs, NEW i \in ItemsIn(zs, items)
  PROVE  /\ i \in items
         /\ ZoneOf[TXTKey(ItemKey(i))[1]] \in zs
         /\ i \in InZone(ZoneOf[TXTKey(ItemKey(i))[1]], items)
<1>1. PICK z \in zs : i \in InZone(z, items)
  BY DEF ItemsIn
<1>2. i \in Items /\ i \in items /\ ZoneOf[ItemEndpoint(i).dnsName] = z
  BY <1>1 DEF InZone
<1>3. ItemKey(i) = <<ItemEndpoint(i).dnsName, ItemEndpoint(i).recordType,
                    ItemEndpoint(i).setIdentifier>>
  BY DEF ItemKey, Key
<1>4. TXTKey(ItemKey(i))[1] = ItemEndpoint(i).dnsName
  BY <1>3 DEF TXTKey
<1>5. QED
  BY <1>1, <1>2, <1>4

\* In a list without two items of one key, the items of one cell are those of
\* one record, which is not a TXT record.
LEMMA PairInZone ==
  ASSUME NEW items \in SUBSET Items, PairedItems(items),
         NEW z, KeysDiffer(InZone(z, items)), NEW i \in InZone(z, items)
  PROVE  /\ i[1] \in Endpoint /\ i[1].recordType # "TXT"
         /\ ItemKey(i) \in PairKeys(i[1])
         /\ TXTKey(ItemKey(i)) = TXTKey(Key(i[1]))
         /\ <<i[1], "self">> \in InZone(z, items)
         /\ ItemKey(<<i[1], "self">>) = Key(i[1])
         /\ <<i[1], "txt">> \in InZone(z, items)
         /\ ItemKey(<<i[1], "txt">>) = TXTKey(Key(i[1]))
         /\ \A j \in InZone(z, items) :
              TXTKey(ItemKey(j)) = TXTKey(ItemKey(i)) => j[1] = i[1]
<1> DEFINE self(j) == <<j[1], "self">>
           txt(j)  == <<j[1], "txt">>
<1>1. ASSUME NEW j \in InZone(z, items)
      PROVE  /\ j[1] \in Endpoint
             /\ self(j) \in InZone(z, items) /\ ItemKey(self(j)) = Key(j[1])
             /\ txt(j) \in InZone(z, items) /\ ItemKey(txt(j)) = TXTKey(Key(j[1]))
             /\ ItemKey(j) \in PairKeys(j[1])
             /\ TXTKey(ItemKey(j)) = TXTKey(Key(j[1]))
  <2>1. j \in items /\ j \in Items /\ ZoneOf[ItemEndpoint(j).dnsName] = z
    BY DEF InZone
  <2>2. self(j) \in items /\ txt(j) \in items /\ self(j) \in Items /\ txt(j) \in Items
    BY <2>1 DEF PairedItems
  <2>3. j[1] \in Endpoint /\ (j = self(j) \/ j = txt(j))
    BY <2>1 DEF Items
  <2>4. /\ ItemEndpoint(self(j)).dnsName = ItemEndpoint(j).dnsName
        /\ ItemEndpoint(txt(j)).dnsName = ItemEndpoint(j).dnsName
    BY <2>1, <2>2, ItemType
  <2>5. self(j) \in InZone(z, items) /\ txt(j) \in InZone(z, items)
    BY <2>1, <2>2, <2>4 DEF InZone
  <2>6. ItemKey(self(j)) = Key(j[1]) /\ ItemKey(txt(j)) = TXTKey(Key(j[1]))
    BY <2>2, ItemType
  <2>7. TXTKey(TXTKey(Key(j[1]))) = TXTKey(Key(j[1]))
    BY DEF TXTKey
  <2>8. QED
    BY <2>3, <2>5, <2>6, <2>7 DEF PairKeys
<1>2. \A j : self(j) # txt(j) /\ (\A k : txt(j) = txt(k) => j[1] = k[1])
  OBVIOUS
<1> HIDE DEF self, txt
<1>3. i[1].recordType # "TXT"
  <2>1. SUFFICES ASSUME i[1].recordType = "TXT" PROVE FALSE
    OBVIOUS
  <2>2. Key(i[1]) = TXTKey(Key(i[1]))
    BY <2>1 DEF TXTKey, Key
  <2>3. self(i) = txt(i)
    BY <1>1, <2>2 DEF KeysDiffer
  <2>4. QED
    BY <2>3, <1>2
<1>4. ASSUME NEW j \in InZone(z, items), TXTKey(ItemKey(j)) = TXTKey(ItemKey(i))
      PROVE  j[1] = i[1]
  <2>1. ItemKey(txt(j)) = ItemKey(txt(i))
    BY <1>1, <1>4
  <2>2. txt(j) = txt(i)
    BY <1>1, <2>1 DEF KeysDiffer
  <2>3. QED
    BY <2>2, <1>2
<1>5. QED
  BY <1>1, <1>3, <1>4 DEF self, txt

\* If the items written to a cell are those of one record and none is deleted
\* from it, then the cell comes to hold this record and its TXT record.
LEMMA PairWritten ==
  ASSUME NEW st, NEW b \in Batches, NEW zs, NEW c \in ZoneCells,
         NEW r \in Endpoint, r.recordType # "TXT", TXTKey(Key(r)) = c,
         {<<r, "self">>, <<r, "txt">>} \subseteq ItemsIn(zs, b.create \cup b.updateNew),
         \A j \in ItemsIn(zs, b.create \cup b.updateNew) :
            TXTKey(ItemKey(j)) = c => j[1] = r,
         \A j \in ItemsIn(zs, b.delete) : TXTKey(ItemKey(j)) # c
  PROVE  /\ HoldsPair(ApplyZones(st, b, zs), r)
         /\ KeptApartFrom(st, ApplyZones(st, b, zs), c, PairKeys(r))
<1> DEFINE W == ItemsIn(zs, b.create \cup b.updateNew)
           R == ItemKeys(ItemsIn(zs, b.delete))
           new == ApplyZones(st, b, zs)
           s == <<r, "self">>
           t == <<r, "txt">>
<1>1. new = [k \in (DOMAIN st \cup ItemKeys(W)) \ R |->
               IF k \in ItemKeys(W)
               THEN Stored(ItemEndpoint(CHOOSE i \in W : ItemKey(i) = k))
               ELSE st[k]]
  BY DEF ApplyZones
<1>2. \A k : TXTKey(k) = c => k \notin R
  BY DEF ItemKeys
<1>3. /\ ItemEndpoint(s) = r /\ ItemKey(s) = Key(r)
      /\ ItemEndpoint(t) = TXTRecord(r) /\ ItemKey(t) = c
  BY TXTRecordType DEF ItemKey, ItemEndpoint
<1>4. Key(r) # c
  BY DEF Key, TXTKey
<1>5. TXTKey(c) = c
  BY DEF TXTKey, ZoneCells
<1>6. ASSUME NEW k, TXTKey(k) = c, NEW i \in W, ItemKey(i) = k
      PROVE  (i = s /\ k = Key(r)) \/ (i = t /\ k = c)
  <2>1. i[1] = r
    BY <1>6
  <2>2. i \in Items
    BY ItemsInType DEF Batches
  <2>3. i = s \/ i = t
    BY <2>1, <2>2 DEF Items
  <2>4. QED
    BY <1>3, <1>6, <2>3
<1>7. s \in W /\ t \in W
  OBVIOUS
<1> HIDE DEF W, R, s, t, new
<1>8. ASSUME NEW i \in {s, t}
      PROVE  /\ ItemKey(i) \in DOMAIN new
             /\ new[ItemKey(i)] = Stored(ItemEndpoint(i))
  <2> DEFINE k == ItemKey(i)
             j == CHOOSE h \in W : ItemKey(h) = k
  <2>1. TXTKey(k) = c /\ k \in ItemKeys(W) /\ k \notin R
    BY <1>2, <1>3, <1>5, <1>7 DEF ItemKeys
  <2>2. j \in W /\ ItemKey(j) = k
    BY <1>7
  <2>3. j = i
    BY <1>3, <1>4, <1>6, <2>1, <2>2
  <2>4. QED
    BY <1>1, <2>1, <2>3
<1>9. HoldsPair(new, r)
  BY <1>3, <1>8 DEF HoldsPair
<1>10. ASSUME NEW k \in InCell(c) \ PairKeys(r)
       PROVE  /\ k \in DOMAIN new <=> k \in DOMAIN st
              /\ k \in DOMAIN st => new[k] = st[k]
  <2>1. k \notin ItemKeys(W) /\ k \notin R
    BY <1>2, <1>6 DEF InCell, PairKeys, ItemKeys
  <2>2. QED
    BY <1>1, <2>1
<1>11. QED
  BY <1>9, <1>10 DEF KeptApartFrom, new

\* Applying zones that pass validation does to each cell one of four things:
\* nothing, or it puts, replaces or takes away one record with its TXT record.
LEMMA CellOutcome ==
  ASSUME NEW st, IsStore(st), NEW b \in Batches, PairedBatch(b), NEW zs \in SUBSET Zones,
         \A z \in zs : Valid(st, b, z), NEW c \in ZoneCells
  PROVE  \/ KeptApartFrom(st, ApplyZones(st, b, zs), c, {})
         \/ \E r \in Endpoint :
              /\ r.recordType # "TXT" /\ TXTKey(Key(r)) = c
              /\ ZoneOf[c[1]] \in zs
              /\ KeptApartFrom(st, ApplyZones(st, b, zs), c, PairKeys(r))
              /\ \/ <<r, "self">> \in b.create /\ Claimed(st, ApplyZones(st, b, zs), r)
                 \/ <<r, "self">> \in b.updateNew /\ Refilled(st, ApplyZones(st, b, zs), r)
                 \/ <<r, "self">> \in b.delete /\ Released(st, ApplyZones(st, b, zs), r)
<1> DEFINE z == ZoneOf[c[1]]
           new == ApplyZones(st, b, zs)
           W == ItemsIn(zs, b.create \cup b.updateNew)
           D == ItemsIn(zs, b.delete)
           Goal == \/ KeptApartFrom(st, new, c, {})
                   \/ \E r \in Endpoint :
                        /\ r.recordType # "TXT" /\ TXTKey(Key(r)) = c
                        /\ z \in zs
                        /\ KeptApartFrom(st, new, c, PairKeys(r))
                        /\ \/ <<r, "self">> \in b.create /\ Claimed(st, new, r)
                           \/ <<r, "self">> \in b.updateNew /\ Refilled(st, new, r)
                           \/ <<r, "self">> \in b.delete /\ Released(st, new, r)
           creates == InZone(z, b.create)
           updates == InZone(z, b.updateNew)
           deletes == InZone(z, b.delete)
<1>1. /\ b.create \in SUBSET Items /\ b.updateNew \in SUBSET Items
      /\ b.delete \in SUBSET Items
      /\ PairedItems(b.create) /\ PairedItems(b.updateNew) /\ PairedItems(b.delete)
  BY DEF Batches, PairedBatch
<1>2. \A i \in W : TXTKey(ItemKey(i)) = c => z \in zs /\ i \in creates \cup updates
  <2>1. b.create \cup b.updateNew \in SUBSET Items
    BY <1>1
  <2>2. InZone(z, b.create \cup b.updateNew) = creates \cup updates
    BY DEF InZone
  <2>3. QED
    BY <2>1, <2>2, ZoneOfItem
<1>3. \A i \in D : TXTKey(ItemKey(i)) = c => z \in zs /\ i \in deletes
  BY <1>1, ZoneOfItem
<1>4. z \in zs => creates \cup updates \subseteq W /\ deletes \subseteq D
  BY DEF ItemsIn, InZone
<1>5. ASSUME z \in zs
      PROVE  /\ ItemKeys(creates) \cap DOMAIN st = {}
             /\ ItemKeys(updates) \subseteq DOMAIN st
             /\ \A i \in deletes : Matches(st, i)
             /\ KeysDiffer(creates) /\ KeysDiffer(updates) /\ KeysDiffer(deletes)
             /\ ItemKeys(creates) \cap ItemKeys(updates) = {}
             /\ ItemKeys(creates) \cap ItemKeys(deletes) = {}
             /\ ItemKeys(updates) \cap ItemKeys(deletes) = {}
  <2>1. Valid(st, b, z)
    BY <1>5
  <2>2. QED
    BY <2>1 DEF Valid, NoOverlap
<1> DEFINE Of(i, items) ==
             /\ i[1] \in Endpoint /\ i[1].recordType # "TXT" /\ TXTKey(Key(i[1])) = c
             /\ <<i[1], "self">> \in items /\ ItemKey(<<i[1], "self">>) = Key(i[1])
             /\ <<i[1], "txt">> \in items /\ ItemKey(<<i[1], "txt">>) = c
             /\ \A j \in items : TXTKey(ItemKey(j)) = c => j[1] = i[1]
<1>6. /\ \A i \in creates : z \in zs /\ TXTKey(ItemKey(i)) = c => Of(i, creates)
      /\ \A i \in updates : z \in zs /\ TXTKey(ItemKey(i)) = c => Of(i, updates)
      /\ \A i \in deletes : z \in zs /\ TXTKey(ItemKey(i)) = c => Of(i, deletes)
  <2>1. \A items \in {b.create, b.updateNew, b.delete} :
          KeysDiffer(InZone(z, items)) =>
             \A i \in InZone(z, items) : TXTKey(ItemKey(i)) = c => Of(i, InZone(z, items))
    BY <1>1, PairInZone
  <2>2. QED
    BY <1>5, <2>1
<1>7. new = [k \in (DOMAIN st \cup ItemKeys(W)) \ ItemKeys(D) |->
               IF k \in ItemKeys(W)
               THEN Stored(ItemEndpoint(CHOOSE i \in W : ItemKey(i) = k))
               ELSE st[k]]
  BY DEF ApplyZones
<1>8. creates \subseteq b.create /\ updates \subseteq b.updateNew /\ deletes \subseteq b.delete
  BY DEF InZone
<1> HIDE DEF z, new, W, D, creates, updates, deletes
<1>9. \A items \in {creates, updates, deletes} : \A i \in items :
        z \in zs /\ TXTKey(ItemKey(i)) = c => c \in ItemKeys(items)
  BY <1>6 DEF ItemKeys
<1>10. ASSUME z \in zs, NEW i \in creates, TXTKey(ItemKey(i)) = c PROVE Goal
  <2> DEFINE r == i[1]
  <2>1. Of(i, creates)
    BY <1>6, <1>10
  <2>2. \A j \in updates \cup deletes : TXTKey(ItemKey(j)) # c
    BY <1>5, <1>9, <1>10
  <2>3. HoldsPair(new, r) /\ KeptApartFrom(st, new, c, PairKeys(r))
    BY <1>2, <1>3, <1>4, <1>10, <2>1, <2>2, PairWritten DEF W, D, new
  <2>4. PairKeys(r) \cap DOMAIN st = {}
    BY <1>5, <1>10, <2>1 DEF PairKeys, ItemKeys
  <2>5. QED
    BY <1>8, <1>10, <2>1, <2>3, <2>4 DEF Claimed
<1>11. ASSUME z \in zs, NEW i \in updates, TXTKey(ItemKey(i)) = c PROVE Goal
  <2> DEFINE r == i[1]
  <2>1. Of(i, updates)
    BY <1>6, <1>11
  <2>2. \A j \in creates \cup deletes : TXTKey(ItemKey(j)) # c
    BY <1>5, <1>9, <1>11
  <2>3. HoldsPair(new, r) /\ KeptApartFrom(st, new, c, PairKeys(r))
    BY <1>2, <1>3, <1>4, <1>11, <2>1, <2>2, PairWritten DEF W, D, new
  <2>4. PairKeys(r) \subseteq DOMAIN st
    BY <1>5, <1>11, <2>1 DEF PairKeys, ItemKeys
  <2>5. QED
    BY <1>8, <1>11, <2>1, <2>3, <2>4 DEF Refilled
<1>12. ASSUME z \in zs, NEW i \in deletes, TXTKey(ItemKey(i)) = c PROVE Goal
  <2> DEFINE r == i[1]
  <2>1. Of(i, deletes)
    BY <1>6, <1>12
  <2>2. \A j \in creates \cup updates : TXTKey(ItemKey(j)) # c
    BY <1>5, <1>9, <1>12
  <2>3. PairKeys(r) \subseteq DOMAIN st /\ PairKeys(r) \subseteq ItemKeys(D)
    BY <1>4, <1>5, <1>12, <2>1 DEF PairKeys, ItemKeys, Matches
  <2>4. PairKeys(r) \cap DOMAIN new = {}
    BY <1>7, <2>3
  <2>5. ASSUME NEW k \in InCell(c) \ PairKeys(r)
        PROVE  k \notin ItemKeys(W) /\ k \notin ItemKeys(D)
    <3>1. \A j \in D : ItemKey(j) # k
      <4>1. SUFFICES ASSUME NEW j \in D, ItemKey(j) = k PROVE FALSE
        OBVIOUS
      <4>2. j \in deletes /\ TXTKey(ItemKey(j)) = c
        BY <1>3, <4>1 DEF InCell
      <4>3. j[1] = r
        BY <2>1, <4>2
      <4>4. j \in Items
        BY <1>1, <1>8, <4>2
      <4>5. ItemKey(j) \in PairKeys(r)
        BY <4>3, <4>4, ItemType DEF PairKeys
      <4>6. QED
        BY <4>1, <4>5
    <3>2. QED
      BY <1>2, <2>2, <3>1 DEF InCell, ItemKeys
  <2>6. KeptApartFrom(st, new, c, PairKeys(r))
    BY <1>7, <2>5 DEF KeptApartFrom
  <2>7. QED
    BY <1>8, <1>12, <2>1, <2>3, <2>4, <2>6 DEF Released
<1>13. ASSUME \A i \in creates \cup updates \cup deletes : z \in zs => TXTKey(ItemKey(i)) # c
       PROVE  Goal
  <2>1. \A k \in InCell(c) : k \notin ItemKeys(W) /\ k \notin ItemKeys(D)
    BY <1>2, <1>3, <1>13 DEF InCell, ItemKeys
  <2>2. QED
    BY <1>7, <2>1 DEF KeptApartFrom
<1>14. Goal
  <2> HIDE DEF Goal
  <2>1. QED
    BY <1>10, <1>11, <1>12, <1>13
<1>15. QED
  BY <1>14 DEF z, new

(***************************************************************************)
(* Cells that only the registry writes to.                                 *)
(***************************************************************************)
IsEmpty(st, c) == InCell(c) \cap DOMAIN st = {}

\* The cell holds the record r, the TXT record made for r, and nothing else.
IsPair(st, c, r) ==
  /\ r.recordType # "TXT" /\ TXTKey(Key(r)) = c
  /\ HoldsPair(st, r)
  /\ (InCell(c) \ PairKeys(r)) \cap DOMAIN st = {}

Intact(st, c) == IsEmpty(st, c) \/ \E r \in Endpoint : IsPair(st, c, r)

\* A cell whose pair is replaced or taken away held no other pair.
LEMMA TheOnlyPair ==
  ASSUME NEW st, NEW c \in ZoneCells, NEW q \in Endpoint, IsPair(st, c, q),
         NEW r \in Endpoint, r.recordType # "TXT", TXTKey(Key(r)) = c, Key(r) \in DOMAIN st
  PROVE  Key(r) = Key(q) /\ PairKeys(r) = PairKeys(q)
<1>1. Key(r) \in InCell(c)
  BY KeyType DEF InCell
<1>2. Key(r) \in PairKeys(q)
  BY <1>1 DEF IsPair
<1>3. Key(r) # c
  BY DEF Key, TXTKey
<1>4. QED
  BY <1>2, <1>3 DEF PairKeys, IsPair

\* What a request makes of a cell that was intact is intact.
LEMMA IntactStep ==
  ASSUME NEW st, IsStore(st), NEW b \in Batches, PairedBatch(b), NEW zs \in SUBSET Zones,
         \A z \in zs : Valid(st, b, z), NEW c \in ZoneCells, Intact(st, c)
  PROVE  Intact(ApplyZones(st, b, zs), c)
<1> DEFINE new == ApplyZones(st, b, zs)
<1>1. \/ KeptApartFrom(st, new, c, {})
      \/ \E r \in Endpoint :
           /\ r.recordType # "TXT" /\ TXTKey(Key(r)) = c
           /\ KeptApartFrom(st, new, c, PairKeys(r))
           /\ Claimed(st, new, r) \/ Refilled(st, new, r) \/ Released(st, new, r)
  BY CellOutcome
<1> HIDE DEF new
<1>2. ASSUME KeptApartFrom(st, new, c, {}) PROVE Intact(new, c)
  <2>1. \A k \in InCell(c) : /\ k \in DOMAIN new <=> k \in DOMAIN st
                             /\ k \in DOMAIN st => new[k] = st[k]
    BY <1>2 DEF KeptApartFrom
  <2>2. CASE IsEmpty(st, c)
    BY <2>1, <2>2 DEF IsEmpty, Intact
  <2>3. ASSUME NEW q \in Endpoint, IsPair(st, c, q) PROVE Intact(new, c)
    <3>1. PairKeys(q) \subseteq InCell(c)
      BY <2>3, PairKeysInCell DEF IsPair
    <3>2. IsPair(new, c, q)
      BY <2>1, <2>3, <3>1 DEF IsPair, HoldsPair, PairKeys
    <3>3. QED
      BY <3>2 DEF Intact
  <2>4. QED
    BY <2>2, <2>3 DEF Intact
<1>3. ASSUME NEW r \in Endpoint, r.recordType # "TXT", TXTKey(Key(r)) = c,
             KeptApartFrom(st, new, c, PairKeys(r)),
             Claimed(st, new, r) \/ Refilled(st, new, r) \/ Released(st, new, r)
      PROVE  Intact(new, c)
  <2>0. PairKeys(r) \subseteq InCell(c)
    BY <1>3, PairKeysInCell
  <2>1. (InCell(c) \ PairKeys(r)) \cap DOMAIN st = {}
    <3>1. CASE IsEmpty(st, c)
      BY <3>1 DEF IsEmpty
    <3>2. ASSUME NEW q \in Endpoint, IsPair(st, c, q)
          PROVE (InCell(c) \ PairKeys(r)) \cap DOMAIN st = {}
      <4>1. c \in DOMAIN st
        BY <3>2 DEF IsPair, HoldsPair
      <4>2. ~Claimed(st, new, r)
        BY <1>3, <4>1 DEF Claimed, PairKeys
      <4>3. Key(r) \in DOMAIN st
        BY <1>3, <4>2 DEF Refilled, Released, PairKeys
      <4>4. PairKeys(r) = PairKeys(q)
        BY <1>3, <3>2, <4>3, TheOnlyPair
      <4>5. QED
        BY <3>2, <4>4 DEF IsPair
    <3>3. QED
      BY <3>1, <3>2 DEF Intact
  <2>2. (InCell(c) \ PairKeys(r)) \cap DOMAIN new = {}
    BY <1>3, <2>1 DEF KeptApartFrom
  <2>3. CASE HoldsPair(new, r)
    BY <1>3, <2>2, <2>3 DEF Intact, IsPair
  <2>4. CASE Released(st, new, r)
    BY <2>2, <2>4 DEF Intact, IsEmpty, Released
  <2>5. QED
    BY <1>3, <2>3, <2>4 DEF Claimed, Refilled
<1>4. QED
  BY <1>1, <1>2, <1>3 DEF new

\* In intact cells every record comes with a TXT record and the other way
\* round, and the TXT record spells out the labels the record came with.
LEMMA IntactStore ==
  ASSUME NEW st, IsStore(st), \A c \in ZoneCells : Intact(st, c), NEW k \in DOMAIN st
  PROVE  /\ k[2] = "TXT" => \E l \in DOMAIN st : l[2] # "TXT" /\ TXTKey(l) = k
         /\ k[2] # "TXT" => /\ TXTKey(k) \in DOMAIN st
                            /\ \E r \in Endpoint : /\ st[k] = Stored(r)
                                                   /\ st[TXTKey(k)].text = r.labels
                            /\ \A l \in DOMAIN st :
                                 l[2] # "TXT" /\ TXTKey(l) = TXTKey(k) => l = k
<1> DEFINE c == TXTKey(k)
<1>1. c \in ZoneCells /\ k \in EndpointKey /\ k \in InCell(c)
  BY DEF IsStore, TXTKey, EndpointKey, ZoneCells, InCell
<1>2. PICK r \in Endpoint : IsPair(st, c, r)
  BY <1>1 DEF Intact, IsEmpty
<1>3. k \in PairKeys(r)
  BY <1>1, <1>2 DEF IsPair
<1>4. Key(r) \in DOMAIN st /\ Key(r)[2] # "TXT" /\ TXTKey(Key(r)) = c /\ c[2] = "TXT"
  BY <1>2, KeyType DEF IsPair, HoldsPair, Key, TXTKey
<1>5. st[c].text = r.labels
  BY <1>2, TXTRecordType DEF IsPair, HoldsPair, Stored
<1>6. CASE k = c
  BY <1>3, <1>4, <1>6
<1>7. CASE k = Key(r)
  <2>1. st[k] = Stored(r) /\ c \in DOMAIN st
    BY <1>2, <1>7 DEF IsPair, HoldsPair
  <2>2. ASSUME NEW l \in DOMAIN st, l[2] # "TXT", TXTKey(l) = c PROVE l = k
    <3>1. l \in InCell(c)
      BY <2>2 DEF InCell, IsStore
    <3>2. l \in PairKeys(r)
      BY <1>2, <3>1 DEF IsPair
    <3>3. QED
      BY <1>4, <1>7, <2>2, <3>2 DEF PairKeys
  <2>3. QED
    BY <1>4, <1>5, <1>7, <2>1, <2>2
<1>8. QED
  BY <1>3, <1>4, <1>6, <1>7 DEF PairKeys

(***************************************************************************)
(* Cells that others write to as well.                                     *)
(***************************************************************************)
\* What the registry sends for an owner and for records with the given keys: what
\* it writes bears labels among the marks, what it replaces or takes away is
\* labelled with the owner, and new values come with old ones.
AsPlanned(b, keys, marks, owner) ==
  /\ PairedBatch(b)
  /\ \A i \in b.create \cup b.updateNew : Key(i[1]) \in keys /\ i[1].labels \in marks
  /\ \A i \in b.updateOld \cup b.delete : i[1].labels.owner = owner
  /\ \A n \in b.updateNew : \E o \in b.updateOld : Key(o[1]) = Key(n[1])

\* The others' records bear none of the marks, their TXT records name none of
\* the owners, and where they share a cell with one of the keys they are of the
\* same type or TXT records.
Distinct(others, keys, marks, owners) ==
  \A e \in others :
    /\ e.labels \notin marks /\ e.text \notin marks
    /\ e.text.owner \notin owners
    /\ \A k \in keys : TXTKey(Key(e)) = TXTKey(k) => Key(e) \in {k, TXTKey(k)}

\* The cell holds records of others only, or a marked record and its TXT record
\* and nothing else.
IsOthers(st, c, others) == \A k \in InCell(c) \cap DOMAIN st : st[k] \in others

IsOwned(st, c, keys, marks) ==
  \E r \in Endpoint : IsPair(st, c, r) /\ Key(r) \in keys /\ r.labels \in marks

\* Those of the marks that name the owner.
Naming(marks, owner) == {l \in marks : l.owner = owner}

\* The TXT record of a deleted record or an old value has to be in the zone.
LEMMA NamedTXT ==
  ASSUME NEW st, IsStore(st), NEW b \in Batches, PairedBatch(b),
         NEW z, Valid(st, b, z), NEW i \in b.delete \cup b.updateOld,
         ZoneOf[i[1].dnsName] = z
  PROVE  /\ TXTKey(Key(i[1])) \in DOMAIN st
         /\ st[TXTKey(Key(i[1]))].text = i[1].labels
<1> DEFINE t == <<i[1], "txt">>
<1>1. t \in Items /\ t \in b.delete \cup b.updateOld /\ i[1] \in Endpoint
  BY DEF Batches, Items, PairedBatch, PairedItems
<1>2. ItemEndpoint(t) = TXTRecord(i[1]) /\ ItemKey(t) = TXTKey(Key(i[1]))
  BY <1>1, ItemType DEF ItemEndpoint
<1>3. t \in InZone(z, b.delete) \cup InZone(z, b.updateOld)
  BY <1>1, <1>2, TXTRecordType DEF InZone
<1>4. Matches(st, t)
  BY <1>3 DEF Valid
<1>5. TXTKey(Key(i[1])) \in DOMAIN st
  BY <1>2, <1>4 DEF Matches
<1>6. st[TXTKey(Key(i[1]))].recordType = "TXT"
  BY <1>5, KeyType DEF IsStore, TXTKey
<1>7. st[TXTKey(Key(i[1]))].text = TXTRecord(i[1]).text
  BY <1>2, <1>4, <1>6 DEF Matches, SameFirstTarget
<1>8. QED
  BY <1>1, <1>5, <1>7, TXTRecordType

\* A planned request claims empty cells and changes those whose marks name its
\* owner, whatever the others put beside them and whoever else plans requests.
LEMMA ContestedOutcome ==
  ASSUME NEW st, IsStore(st), NEW keys, NEW marks, NEW owners,
         NEW others \in SUBSET Endpoint, Distinct(others, keys, marks, owners),
         NEW owner \in owners, NEW mine \in SUBSET marks,
         NEW b \in Batches, AsPlanned(b, keys, mine, owner), NEW zs \in SUBSET Zones,
         \A z \in zs : Valid(st, b, z), NEW c \in ZoneCells,
         IsOthers(st, c, others) \/ IsOwned(st, c, keys, marks)
  PROVE  \/ KeptApartFrom(st, ApplyZones(st, b, zs), c, {})
         \/ IsEmpty(st, c) /\ IsOwned(ApplyZones(st, b, zs), c, keys, mine)
         \/ /\ IsOwned(st, c, keys, Naming(marks, owner))
            /\ \/ IsOwned(ApplyZones(st, b, zs), c, keys, mine)
               \/ IsEmpty(ApplyZones(st, b, zs), c)
            /\ b.updateOld \cup b.delete # {}
<1> DEFINE new == ApplyZones(st, b, zs)
<1>1. PairedBatch(b)
  BY DEF AsPlanned
<1>2. \/ KeptApartFrom(st, new, c, {})
      \/ \E r \in Endpoint :
           /\ r.recordType # "TXT" /\ TXTKey(Key(r)) = c
           /\ ZoneOf[c[1]] \in zs
           /\ KeptApartFrom(st, new, c, PairKeys(r))
           /\ \/ <<r, "self">> \in b.create /\ Claimed(st, new, r)
              \/ <<r, "self">> \in b.updateNew /\ Refilled(st, new, r)
              \/ <<r, "self">> \in b.delete /\ Released(st, new, r)
  BY <1>1, CellOutcome
<1> HIDE DEF new
<1>3. SUFFICES ASSUME NEW r \in Endpoint, r.recordType # "TXT", TXTKey(Key(r)) = c,
                      ZoneOf[c[1]] \in zs, KeptApartFrom(st, new, c, PairKeys(r)),
                      \/ <<r, "self">> \in b.create /\ Claimed(st, new, r)
                      \/ <<r, "self">> \in b.updateNew /\ Refilled(st, new, r)
                      \/ <<r, "self">> \in b.delete /\ Released(st, new, r)
               PROVE  \/ IsEmpty(st, c) /\ IsOwned(new, c, keys, mine)
                      \/ /\ IsOwned(st, c, keys, Naming(marks, owner))
                         /\ IsOwned(new, c, keys, mine) \/ IsEmpty(new, c)
                         /\ b.updateOld \cup b.delete # {}
  BY <1>2 DEF new
<1>4. <<r, "self">> \in b.create \cup b.updateNew => Key(r) \in keys /\ r.labels \in mine
  BY <1>3 DEF AsPlanned
<1>5. PairKeys(r) \subseteq InCell(c) /\ c = TXTKey(Key(r)) /\ c[1] = r.dnsName
  BY <1>3, PairKeysInCell DEF TXTKey, Key
\* Deleted and old records speak of what their owner put into the cell.
<1>6. ASSUME NEW i \in b.delete \cup b.updateOld, Key(i[1]) = Key(r)
      PROVE  IsOwned(st, c, keys, Naming(marks, owner))
  <2>1. i[1].dnsName = r.dnsName /\ TXTKey(Key(i[1])) = c
    BY <1>5, <1>6 DEF Key
  <2>2. c \in DOMAIN st /\ st[c].text = i[1].labels
    BY <1>1, <1>3, <1>5, <2>1, NamedTXT
  <2>3. st[c].text.owner = owner
    BY <2>2 DEF AsPlanned
  <2>4. c \in InCell(c)
    BY <1>5 DEF PairKeys
  <2>5. ~IsOthers(st, c, others)
    BY <2>2, <2>3, <2>4 DEF IsOthers, Distinct
  <2>6. PICK q \in Endpoint : IsPair(st, c, q) /\ Key(q) \in keys /\ q.labels \in marks
    BY <2>5 DEF IsOwned
  <2>7. st[c].text = q.labels
    BY <2>6, TXTRecordType DEF IsPair, HoldsPair, Stored
  <2>8. q.labels \in Naming(marks, owner)
    BY <2>3, <2>6, <2>7 DEF Naming
  <2>9. QED
    BY <2>6, <2>8 DEF IsOwned
\* In an owned cell the pair that changes is the pair that is there.
<1>7. ASSUME IsOwned(st, c, keys, Naming(marks, owner)), Key(r) \in DOMAIN st
      PROVE  (InCell(c) \ PairKeys(r)) \cap DOMAIN st = {}
  <2>1. PICK q \in Endpoint : IsPair(st, c, q)
    BY <1>7 DEF IsOwned
  <2>2. PairKeys(r) = PairKeys(q)
    BY <1>3, <1>7, <2>1, TheOnlyPair
  <2>3. QED
    BY <2>1, <2>2 DEF IsPair
<1>8. ASSUME (InCell(c) \ PairKeys(r)) \cap DOMAIN st = {},
             HoldsPair(new, r), Key(r) \in keys, r.labels \in mine
      PROVE  IsOwned(new, c, keys, mine)
  <2>1. (InCell(c) \ PairKeys(r)) \cap DOMAIN new = {}
    BY <1>3, <1>8 DEF KeptApartFrom
  <2>2. QED
    BY <1>3, <1>8, <2>1 DEF IsOwned, IsPair
<1>9. CASE <<r, "self">> \in b.create /\ Claimed(st, new, r)
  <2>1. Key(r) \in keys /\ PairKeys(r) \cap DOMAIN st = {}
    BY <1>4, <1>9 DEF Claimed
  <2>2. ~IsOwned(st, c, keys, marks)
    BY <1>5, <2>1 DEF IsOwned, IsPair, HoldsPair, PairKeys
  <2>3. IsEmpty(st, c)
    <3>1. SUFFICES ASSUME NEW k \in InCell(c), k \in DOMAIN st PROVE FALSE
      BY DEF IsEmpty
    <3>2. st[k] \in others /\ Key(st[k]) = k
      BY <2>2, <3>1 DEF IsOthers, IsStore
    <3>3. k \in PairKeys(r)
      BY <1>5, <2>1, <3>1, <3>2 DEF Distinct, InCell, PairKeys
    <3>4. QED
      BY <2>1, <3>1, <3>3
  <2>4. IsOwned(new, c, keys, mine)
    BY <1>4, <1>8, <1>9, <2>1, <2>3 DEF IsEmpty, Claimed
  <2>5. QED
    BY <2>3, <2>4
<1>10. CASE <<r, "self">> \in b.updateNew /\ Refilled(st, new, r)
  <2>1. PICK o \in b.updateOld : Key(o[1]) = Key(r)
    BY <1>10 DEF AsPlanned
  <2>2. IsOwned(st, c, keys, Naming(marks, owner))
    BY <1>6, <2>1
  <2>3. IsOwned(new, c, keys, mine)
    BY <1>4, <1>7, <1>8, <1>10, <2>2 DEF Refilled, PairKeys
  <2>4. QED
    BY <2>1, <2>2, <2>3
<1>11. CASE <<r, "self">> \in b.delete /\ Released(st, new, r)
  <2>1. IsOwned(st, c, keys, Naming(marks, owner))
    BY <1>6, <1>11
  <2>2. (InCell(c) \ PairKeys(r)) \cap DOMAIN st = {}
    BY <1>7, <1>11, <2>1 DEF Released, PairKeys
  <2>3. IsEmpty(new, c)
    BY <1>3, <1>11, <2>2 DEF IsEmpty, KeptApartFrom, Released
  <2>4. QED
    BY <1>11, <2>1, <2>3
<1>12. QED
  BY <1>3, <1>9, <1>10, <1>11

\* A cell without a change stays what it is.
LEMMA KeptCell ==
  ASSUME NEW st, NEW new, NEW c \in ZoneCells, KeptApartFrom(st, new, c, {})
  PROVE  /\ Intact(st, c) => Intact(new, c)
         /\ \A others : IsOthers(st, c, others) => IsOthers(new, c, others)
         /\ \A keys, marks : IsOwned(st, c, keys, marks) => IsOwned(new, c, keys, marks)
<1>1. \A k \in InCell(c) : /\ k \in DOMAIN new <=> k \in DOMAIN st
                           /\ k \in DOMAIN st => new[k] = st[k]
  BY DEF KeptApartFrom
<1>2. ASSUME NEW r \in Endpoint, IsPair(st, c, r) PROVE IsPair(new, c, r)
  <2>1. PairKeys(r) \subseteq InCell(c)
    BY <1>2, PairKeysInCell DEF IsPair
  <2>2. QED
    BY <1>1, <1>2, <2>1 DEF IsPair, HoldsPair, PairKeys
<1>3. IsEmpty(st, c) => IsEmpty(new, c)
  BY <1>1 DEF IsEmpty
<1>4. QED
  BY <1>1, <1>2, <1>3 DEF Intact, IsOthers, IsOwned

\* The store new is st with the record e put where no record was, or without
\* the record e.
OtherAdded(st, new, e) ==
  /\ Key(e) \notin DOMAIN st /\ Key(e) \in DOMAIN new /\ new[Key(e)] = e
  /\ \A k \in EndpointKey \ {Key(e)} : /\ k \in DOMAIN new <=> k \in DOMAIN st
                                       /\ k \in DOMAIN st => new[k] = st[k]
OtherRemoved(st, new, e) ==
  /\ Key(e) \in DOMAIN st /\ st[Key(e)] = e /\ Key(e) \notin DOMAIN new
  /\ \A k \in EndpointKey \ {Key(e)} : /\ k \in DOMAIN new <=> k \in DOMAIN st
                                       /\ k \in DOMAIN st => new[k] = st[k]

\* It is a store as well, and no cell but that of e changes.
LEMMA OtherCells ==
  ASSUME NEW st, NEW new, NEW e \in Endpoint,
         OtherAdded(st, new, e) \/ OtherRemoved(st, new, e),
         NEW c \in ZoneCells, c # TXTKey(Key(e))
  PROVE  KeptApartFrom(st, new, c, {})
<1>1. ASSUME NEW k \in InCell(c) PROVE k \in EndpointKey \ {Key(e)}
  BY DEF InCell
<1>2. QED
  BY <1>1 DEF KeptApartFrom, OtherAdded, OtherRemoved

\* Others touch cells that hold nothing but their records: in an owned cell
\* they find no free place for a record, and no record of theirs.
LEMMA OthersOutcome ==
  ASSUME PersistLabels,
         NEW st, NEW new, NEW keys, NEW marks, NEW owners,
         NEW others \in SUBSET Endpoint, Distinct(others, keys, marks, owners),
         NEW e \in others, OtherAdded(st, new, e) \/ OtherRemoved(st, new, e),
         NEW c \in ZoneCells, IsOthers(st, c, others) \/ IsOwned(st, c, keys, marks)
  PROVE  \/ IsOthers(st, c, others) /\ IsOthers(new, c, others)
         \/ IsOwned(st, c, keys, marks) /\ KeptApartFrom(st, new, c, {})
<1>1. CASE IsOthers(st, c, others)
  <2>1. ASSUME NEW k \in InCell(c) \cap DOMAIN new PROVE new[k] \in others
    <3>1. CASE k = Key(e)
      BY <3>1 DEF OtherAdded, OtherRemoved
    <3>2. CASE k # Key(e)
      BY <1>1, <3>2 DEF OtherAdded, OtherRemoved, InCell, IsOthers
    <3>3. QED
      BY <3>1, <3>2
  <2>2. QED
    BY <1>1, <2>1 DEF IsOthers
<1>2. CASE IsOwned(st, c, keys, marks)
  <2>1. PICK r \in Endpoint : IsPair(st, c, r) /\ Key(r) \in keys /\ r.labels \in marks
    BY <1>2 DEF IsOwned
  <2>2. c # TXTKey(Key(e))
    <3>1. SUFFICES ASSUME c = TXTKey(Key(e)) PROVE FALSE
      OBVIOUS
    <3>2. Key(e) \in PairKeys(r)
      BY <2>1, <3>1 DEF IsPair, Distinct, PairKeys
    <3>3. Key(e) \in DOMAIN st /\ OtherRemoved(st, new, e)
      BY <2>1, <3>2 DEF IsPair, HoldsPair, PairKeys, OtherAdded
    <3>4. e = r \/ e = TXTRecord(r)
      BY <2>1, <3>2, <3>3 DEF IsPair, HoldsPair, PairKeys, Stored, OtherRemoved
    <3>5. e.labels \in marks \/ e.text \in marks
      BY <2>1, <3>4, TXTRecordType
    <3>6. QED
      BY <3>5 DEF Distinct
  <2>3. QED
    BY <1>2, <2>2, OtherCells
<1>3. QED
  BY <1>1, <1>2

\* What the registry writes of the desired records: it adds its own mark to those
\* it creates, and an update keeps the owner that let it pass the filter.
MarksOf(desired, owner) ==
  {[d.labels EXCEPT !.mesh = owner] : d \in desired}
    \cup {WithOwner(d.labels, owner) : d \in desired}

\* What the registry makes of a plan with an owner.
LEMMA PlanAsPlanned ==
  ASSUME OneSpelling, NEW p, p.policy \in Policies, p.planOwner # "",
         NEW current \in SUBSET Endpoint, NEW desired \in SUBSET Endpoint,
         NEW c \in Plans(p, current, desired), NEW owner \in LabelValues
  PROVE  AsPlanned(RegistryChanges(owner, c), {Key(d) : d \in desired},
                   MarksOf(desired, owner), owner)
<1> DEFINE b == RegistryChanges(owner, c)
           keys == {Key(d) : d \in desired}
           marks == MarksOf(desired, owner)
<1>1. /\ c \in Changes
      /\ \A e \in c.delete \cup c.updateOld \cup c.updateNew : e.labels.owner = p.planOwner
      /\ UpdatesArePaired(c)
  BY PlansType DEF IsOwnedBy
<1>2. AimsAt(c, desired)
  BY PlansWanted
<1>3. /\ \A i \in b.create : \E e \in c.create : i[1] = [e EXCEPT !.labels.mesh = owner]
      /\ \A i \in b.updateNew : i[1] \in c.updateNew /\ i[1].labels.owner = owner
      /\ \A i \in b.updateOld : i[1] \in c.updateOld /\ i[1].labels.owner = owner
      /\ \A i \in b.delete : i[1] \in c.delete /\ i[1].labels.owner = owner
      /\ \A e \in c.updateOld : e.labels.owner = owner => <<e, "self">> \in b.updateOld
  BY DEF RegistryChanges, WithTXT, FilterEndpointsByOwnerID, IsOwnedBy
<1>4. /\ c.create \in SUBSET Endpoint /\ c.updateNew \in SUBSET Endpoint
      /\ c.updateOld \in SUBSET Endpoint
  BY <1>1 DEF Changes
<1>5. ASSUME NEW i \in b.create PROVE Key(i[1]) \in keys /\ i[1].labels \in marks
  <2>1. PICK e \in c.create : i[1] = [e EXCEPT !.labels.mesh = owner]
    BY <1>3
  <2>2. PICK d \in desired : Key(d) = Key(e) /\ d.labels = e.labels
    BY <1>2, <2>1 DEF AimsAt
  <2>3. e \in Endpoint
    BY <1>4, <2>1
  <2>4. Key(i[1]) = Key(e) /\ i[1].labels = [e.labels EXCEPT !.mesh = owner]
    BY <2>1, <2>3 DEF Endpoint, Labels, Key
  <2>5. [d.labels EXCEPT !.mesh = owner] \in marks
    BY DEF MarksOf
  <2>6. QED
    BY <2>2, <2>4, <2>5
<1>6. ASSUME NEW n \in b.updateNew
      PROVE  /\ Key(n[1]) \in keys /\ n[1].labels \in marks
             /\ \E o \in b.updateOld : Key(o[1]) = Key(n[1])
  <2>1. n[1] \in c.updateNew /\ n[1].labels.owner = owner
    BY <1>3
  <2>2. PICK d \in desired :
          Key(d) = Key(n[1]) /\ n[1].labels = WithOwner(d.labels, n[1].labels.owner)
    BY <1>2, <2>1 DEF AimsAt
  <2>3. PICK o \in c.updateOld : Cell(o) = Cell(n[1])
    BY <1>1, <2>1 DEF UpdatesArePaired
  <2>4. Key(o) = Key(n[1])
    BY <1>4, <2>1, <2>3, CellKey
  <2>5. <<o, "self">> \in b.updateOld
    BY <1>1, <1>3, <2>1, <2>3
  <2>6. WithOwner(d.labels, owner) \in marks
    BY DEF MarksOf
  <2>7. QED
    BY <2>1, <2>2, <2>4, <2>5, <2>6
<1>7. PairedBatch(b)
  BY RegistryPairs
<1> HIDE DEF b, keys, marks
<1>8. AsPlanned(b, keys, marks, owner)
  BY <1>3, <1>5, <1>6, <1>7 DEF AsPlanned
<1>9. QED
  BY <1>8 DEF b, keys, marks

(***************************************************************************)
(* What a plan and a request come to when nobody is in the way.            *)
(***************************************************************************)
\* A plan for an owner is the table's, less what the policy and the owner filter
\* take out of it.
OwnPartOf(p, t, c) ==
  /\ c.create = t.create
  /\ c.delete = IF p.policy = "sync" THEN FilterEndpointsByOwnerID(p.planOwner, t.delete)
                ELSE {}
  /\ c.updateNew = IF p.policy = "create-only" THEN {}
                   ELSE FilterEndpointsByOwnerID(p.planOwner, t.updateNew)
  /\ c.updateOld = IF p.policy = "create-only" THEN {}
                   ELSE FilterEndpointsByOwnerID(p.planOwner, t.updateOld)

\* The parts of a plan, after policy and filters, for an owner that is not empty.
LEMMA CalculateParts ==
  ASSUME NEW p, p.policy \in Policies, p.planOwner # "",
         NEW cur, NEW des, NEW last, NEW win
  PROVE  OwnPartOf(p, TableChanges(p.planOwner, cur, des, last, win),
                   Calculate(p, cur, des, last, win))
<1> DEFINE t == TableChanges(p.planOwner, cur, des, last, win)
           a == ApplyPolicy(p.policy, t)
<1>1. t = [create |-> t.create, delete |-> t.delete,
           updateOld |-> t.updateOld, updateNew |-> t.updateNew]
  BY DEF TableChanges
<1>2. Calculate(p, cur, des, last, win) = FilterByOwner(p.planOwner, a)
  BY DEF Calculate
<1> HIDE DEF t
<1>3. /\ a = [create |-> a.create, delete |-> a.delete,
              updateOld |-> a.updateOld, updateNew |-> a.updateNew]
      /\ a.create = t.create
      /\ a.delete = IF p.policy = "sync" THEN t.delete ELSE {}
      /\ a.updateNew = IF p.policy = "create-only" THEN {} ELSE t.updateNew
      /\ a.updateOld = IF p.policy = "create-only" THEN {} ELSE t.updateOld
  BY <1>1 DEF ApplyPolicy, Policies
<1> HIDE DEF a
<1>4. FilterEndpointsByOwnerID(p.planOwner, {}) = {}
  BY DEF FilterEndpointsByOwnerID
<1>5. LET c == FilterByOwner(p.planOwner, a)
          Own(eps) == FilterEndpointsByOwnerID(p.planOwner, eps)
      IN  /\ c.create = a.create /\ c.delete = Own(a.delete)
          /\ c.updateNew = Own(a.updateNew) /\ c.updateOld = Own(a.updateOld)
  BY <1>3 DEF FilterByOwner
<1>6. QED
  BY <1>2, <1>3, <1>4, <1>5 DEF t, OwnPartOf

\* A record that differs from e at most in the order of its targets and in labels.
Resorted(e, f) ==
  /\ f.ttl = e.ttl /\ f.providerSpecific = e.providerSpecific
  /\ f.targets \in TargetLists /\ Sorted(f.targets) = Sorted(e.targets)

\* The comparisons of a plan change nothing else.
LEMMA ComparedData ==
  ASSUME NEW e \in Endpoint, NEW d, NEW c, NEW candidates
  PROVE  /\ Resorted(e, AfterComparison(e, candidates))
         /\ Resorted(e, AfterNeedsUpdate(e, d, c))
<1> DEFINE f == [e EXCEPT !.targets = Sorted(@)]
<1>1. e.targets \in TargetLists
  BY DEF Endpoint
<1>2. Sorted(e.targets) \in TargetLists /\ Sorted(Sorted(e.targets)) = Sorted(e.targets)
  BY <1>1, SortedOnce, EndpointsAssumption
<1>3. f.ttl = e.ttl /\ f.providerSpecific = e.providerSpecific /\ f.targets = Sorted(e.targets)
  BY DEF Endpoint
<1>4. Resorted(e, f) /\ Resorted(e, e)
  <2> HIDE DEF f
  <2>1. QED
    BY <1>1, <1>2, <1>3 DEF Resorted
<1>5. QED
  BY <1>4 DEF AfterComparison, AfterNeedsUpdate

\* A record needs no update to what it was made from.
LEMMA ResortedIsCurrent ==
  ASSUME NEW e \in Endpoint, NEW f \in Endpoint, Resorted(e, f)
  PROVE  ~NeedsUpdate(e, f)
<1>1. Same(e.targets, f.targets)
  BY EqualIsSame DEF Endpoint, Resorted
<1>2. QED
  BY <1>1 DEF NeedsUpdate, TargetChanged, ShouldUpdateTTL, ShouldUpdateProviderSpecific, Resorted

\* What a zone that passes validation does with one item.
LEMMA ItemWritten ==
  ASSUME NEW st, NEW b \in Batches, NEW zs, \A z \in zs : Valid(st, b, z),
         NEW i \in b.create \cup b.updateNew, ZoneOf[ItemKey(i)[1]] \in zs
  PROVE  /\ ItemKey(i) \in DOMAIN ApplyZones(st, b, zs)
         /\ ApplyZones(st, b, zs)[ItemKey(i)] = Stored(ItemEndpoint(i))
<1> DEFINE z == ZoneOf[ItemKey(i)[1]]
           k == ItemKey(i)
           W == ItemsIn(zs, b.create \cup b.updateNew)
           D == ItemsIn(zs, b.delete)
<1>1. b.create \in SUBSET Items /\ b.updateNew \in SUBSET Items /\ b.delete \in SUBSET Items
  BY DEF Batches
<1>2. ASSUME NEW j \in Items, ItemKey(j) = k PROVE ZoneOf[ItemEndpoint(j).dnsName] = z
  <2>1. ItemKey(j)[1] = ItemEndpoint(j).dnsName
    BY ItemType, KeyType DEF ItemKey
  <2>2. QED
    BY <1>2, <2>1
<1>3. i \in W
  BY <1>1, <1>2 DEF ItemsIn, InZone
<1>4. ASSUME NEW j \in W, ItemKey(j) = k
      PROVE  j \in InZone(z, b.create) \cup InZone(z, b.updateNew)
  BY <1>1, <1>2, <1>4, ItemsInType DEF InZone
<1>5. ASSUME NEW j \in D, ItemKey(j) = k PROVE j \in InZone(z, b.delete)
  BY <1>1, <1>2, <1>5, ItemsInType DEF InZone
<1>6. NoOverlap(InZone(z, b.create), InZone(z, b.updateNew), InZone(z, b.delete))
  BY DEF Valid
<1> HIDE DEF W, D
<1>7. ASSUME NEW j \in W, ItemKey(j) = k PROVE j = i
  BY <1>3, <1>4, <1>6, <1>7 DEF NoOverlap, KeysDiffer, ItemKeys
<1>8. k \in ItemKeys(W) /\ k \notin ItemKeys(D)
  BY <1>3, <1>4, <1>5, <1>6 DEF NoOverlap, ItemKeys
<1>9. (CHOOSE j \in W : ItemKey(j) = k) = i
  BY <1>3, <1>7
<1>10. QED
  BY <1>8, <1>9 DEF ApplyZones, W, D

\* What a batch removes in a zone that takes it is gone.
LEMMA ItemRemoved ==
  ASSUME NEW st, NEW b \in Batches, NEW zs,
         NEW i \in b.delete, ZoneOf[ItemKey(i)[1]] \in zs
  PROVE  ItemKey(i) \notin DOMAIN ApplyZones(st, b, zs)
<1>1. i \in Items
  BY DEF Batches
<1>2. ItemKey(i)[1] = ItemEndpoint(i).dnsName
  BY <1>1, ItemType, KeyType DEF ItemKey
<1>3. i \in ItemsIn(zs, b.delete)
  BY <1>2 DEF ItemsIn, InZone
<1>4. QED
  BY <1>3 DEF ApplyZones, ItemKeys

\* The store new is st with the plan carried out for the owner, apart from the
\* TXT records.
CarriedOut(st, new, p, owner) ==
  /\ \A r \in p.create : /\ Key(r) \in DOMAIN new
                         /\ new[Key(r)] = [r EXCEPT !.labels.mesh = owner]
  /\ \A r \in p.updateNew : Key(r) \in DOMAIN new /\ new[Key(r)] = r
  /\ \A r \in p.delete : Key(r) \notin DOMAIN new
  /\ \A k : (k[2] # "TXT" /\ \A r \in p.create \cup p.updateNew \cup p.delete : Key(r) # k)
              => /\ k \in DOMAIN new <=> k \in DOMAIN st
                 /\ k \in DOMAIN st => new[k] = st[k]

\* A request that every zone accepts is carried out.
LEMMA RequestCarriedOut ==
  ASSUME PersistLabels, NEW st, NEW owner \in LabelValues, NEW p \in Changes,
         \A r \in p.updateNew \cup p.delete : IsOwnedBy(r, owner),
         \A r \in p.create \cup p.updateNew \cup p.delete : ZoneOf[r.dnsName] \in Zones,
         \A z \in Zones : Valid(st, RegistryChanges(owner, p), z)
  PROVE  CarriedOut(st, ApplyZones(st, RegistryChanges(owner, p), Zones), p, owner)
<1> DEFINE b == RegistryChanges(owner, p)
           new == ApplyZones(st, b, Zones)
           self(r) == <<r, "self">>
           named(r) == [r EXCEPT !.labels.mesh = owner]
<1>1. b \in Batches
  BY RegistryChangesType
<1>2. /\ \A r \in p.create : self(named(r)) \in b.create
      /\ \A r \in p.updateNew : self(r) \in b.updateNew
      /\ \A r \in p.delete : self(r) \in b.delete
  BY DEF RegistryChanges, WithTXT, FilterEndpointsByOwnerID
<1>3. /\ \A i \in b.create : \E r \in p.create : i[1] = named(r)
      /\ \A i \in b.updateNew : i[1] \in p.updateNew
      /\ \A i \in b.delete : i[1] \in p.delete
  BY DEF RegistryChanges, WithTXT, FilterEndpointsByOwnerID
<1>4. \A r \in p.create : named(r) \in Endpoint /\ Key(named(r)) = Key(r)
  <2>1. p.create \in SUBSET Endpoint
    BY DEF Changes
  <2>2. QED
    BY <2>1 DEF Endpoint, Labels, Key
<1>5. \A r \in Endpoint : /\ ItemEndpoint(self(r)) = r /\ ItemKey(self(r)) = Key(r)
                          /\ Key(r)[1] = r.dnsName
                          /\ Stored(r) = r
  BY DEF ItemEndpoint, ItemKey, Key, Stored
<1>6. p.updateNew \in SUBSET Endpoint /\ p.delete \in SUBSET Endpoint /\ p.create \in SUBSET Endpoint
  BY DEF Changes
<1> HIDE DEF b, new, self, named
<1>7. ASSUME NEW r \in p.create
      PROVE  Key(r) \in DOMAIN new /\ new[Key(r)] = named(r)
  <2>1. self(named(r)) \in b.create /\ ItemKey(self(named(r))) = Key(r)
    BY <1>2, <1>4, <1>5
  <2>2. ItemEndpoint(self(named(r))) = named(r) /\ Stored(named(r)) = named(r)
    BY <1>4, <1>5
  <2>3. ZoneOf[Key(r)[1]] \in Zones
    BY <1>5, <1>6
  <2>4. QED
    BY <1>1, <2>1, <2>2, <2>3, ItemWritten DEF b, new
<1>8. ASSUME NEW r \in p.updateNew
      PROVE  Key(r) \in DOMAIN new /\ new[Key(r)] = r
  <2>1. self(r) \in b.updateNew /\ ItemKey(self(r)) = Key(r)
    BY <1>2, <1>5, <1>6
  <2>2. ItemEndpoint(self(r)) = r /\ Stored(r) = r
    BY <1>5, <1>6
  <2>3. ZoneOf[Key(r)[1]] \in Zones
    BY <1>5, <1>6
  <2>4. QED
    BY <1>1, <2>1, <2>2, <2>3, ItemWritten DEF b, new
<1>9. ASSUME NEW r \in p.delete PROVE Key(r) \notin DOMAIN new
  <2>1. self(r) \in b.delete /\ ItemKey(self(r)) = Key(r)
    BY <1>2, <1>5, <1>6
  <2>2. ZoneOf[Key(r)[1]] \in Zones
    BY <1>5, <1>6
  <2>3. QED
    BY <1>1, <2>1, <2>2, ItemRemoved DEF new
<1>10. ASSUME NEW k, k[2] # "TXT",
              \A r \in p.create \cup p.updateNew \cup p.delete : Key(r) # k
       PROVE  /\ k \in DOMAIN new <=> k \in DOMAIN st
              /\ k \in DOMAIN st => new[k] = st[k]
  <2>1. ASSUME NEW i \in b.create \cup b.updateNew \cup b.delete PROVE ItemKey(i) # k
    <3>1. i \in Items
      BY <1>1 DEF Batches
    <3>2. ItemKey(i) = Key(i[1]) \/ ItemKey(i)[2] = "TXT"
      BY <3>1, ItemType DEF TXTKey
    <3>3. Key(i[1]) # k
      BY <1>3, <1>4, <1>10
    <3>4. QED
      BY <1>10, <3>2, <3>3
  <2>2. /\ k \notin ItemKeys(ItemsIn(Zones, b.create \cup b.updateNew))
        /\ k \notin ItemKeys(ItemsIn(Zones, b.delete))
    BY <2>1, ItemsInType DEF ItemKeys
  <2>3. QED
    BY <2>2 DEF ApplyZones, new
<1>11. QED
  BY <1>7, <1>8, <1>9, <1>10 DEF CarriedOut, new, b, named
==============================================================================
