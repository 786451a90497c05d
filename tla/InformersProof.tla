--------------------------- MODULE InformersProof ----------------------------
(***************************************************************************)
(* Proofs about Informers, for any configurations, resources and changes:  *)
(* no event falls between a cache and a run; what is listed are records    *)
(* the plan can act on, and the same in whatever order the listers return  *)
(* resources; no resource hides another; the ports of a service end up in  *)
(* one record.                                                             *)
(*                                                                         *)
(* What the sources and the chain make of resources is said by contents:   *)
(* the set of the cells of a list, each with its set of targets.           *)
(***************************************************************************)
EXTENDS Informers, FiniteSetTheorems, WellFoundedInduction, TLAPS

(***************************************************************************)
(* Events.                                                                 *)
(***************************************************************************)
Types ==
  /\ scenario.sources \in Seq(SourceNames)
  /\ DOMAIN view = Children /\ DOMAIN used = Children
  /\ \A i \in Children : DOMAIN view[i] = Informed(scenario.sources[i])
  /\ results \in Seq(ToSet(results))

\* The listing goes on as long as the calls return records.
FailedIsLast == \A j \in 1 .. Len(results) : j < Len(results) => results[j].state = "ok"

Inv == Types /\ FailedIsLast /\ EventsSeen

-------------------------------------------------------------------------------
\* A source has informers for what it has handlers for.
LEMMA WatchedIsInformed ==
  ASSUME NEW s, NEW k \in Watched(s) \ Live(s)
  PROVE  k \in Informed(s) /\ k \in Reads(s)
BY DEF Watched, Live, Informed, Reads

\* What source i sees of a kind whose events it handles comes from its cache.
LEMMA SeenIsCached ==
  ASSUME NEW i \in Children, NEW k \in Watched(scenario.sources[i]) \ Live(scenario.sources[i])
  PROVE  SeenBy(i)[k] = view[i][k]
BY WatchedIsInformed DEF SeenBy

\* One failed call fails the chain.
LEMMA ChainFails ==
  ASSUME NEW rs, rs \in Seq(ToSet(rs)), NEW targets, NEW filter, rs # <<>>,
         rs[Len(rs)].state # "ok", \A j \in 1 .. Len(rs) : j < Len(rs) => rs[j].state = "ok"
  PROVE  Chain(rs, targets, filter).state # "ok"
<1> DEFINE bad == {i \in DOMAIN rs : rs[i].state # "ok"}
<1>1. Len(rs) \in DOMAIN rs /\ DOMAIN rs = 1 .. Len(rs)
  OBVIOUS
<1>2. bad = {Len(rs)}
  BY <1>1
<1>3. (CHOOSE i \in bad : \A j \in bad : i <= j) = Len(rs)
  <2> HIDE DEF bad
  <2>1. \E i \in bad : \A j \in bad : i <= j
    BY <1>1, <1>2
  <2>2. (CHOOSE i \in bad : \A j \in bad : i <= j) \in bad
    BY <2>1
  <2>3. QED
    BY <1>2, <2>2
<1>4. Joined(rs) = rs[Len(rs)]
  BY <1>2, <1>3 DEF Joined
<1>5. MultiSource(rs, targets).state # "ok"
  BY <1>4 DEF MultiSource
<1>6. DedupSource(MultiSource(rs, targets)).state # "ok"
  BY <1>5 DEF DedupSource
<1>7. QED
  BY <1>6 DEF Chain, TargetFilterSource

\* Appending to a sequence of anything.
LEMMA Appended ==
  ASSUME NEW rs, rs \in Seq(ToSet(rs)), NEW r
  PROVE  /\ Append(rs, r) \in Seq(ToSet(Append(rs, r)))
         /\ Len(Append(rs, r)) = Len(rs) + 1
         /\ \A j \in 1 .. Len(rs) : Append(rs, r)[j] = rs[j]
<1> DEFINE S == ToSet(rs) \cup {r}
<1>1. rs \in Seq(S) /\ r \in S
  BY DEF ToSet
<1> HIDE DEF S
<1>2. /\ Append(rs, r) \in Seq(S) /\ Len(Append(rs, r)) = Len(rs) + 1
      /\ \A j \in 1 .. Len(rs) : Append(rs, r)[j] = rs[j]
  BY <1>1
<1>3. \A j \in 1 .. Len(Append(rs, r)) : Append(rs, r)[j] \in ToSet(Append(rs, r))
  BY <1>1, <1>2 DEF ToSet
<1>4. QED
  BY <1>2, <1>3

\* What EventsSeen says of one cache.
Waiting(i, k) ==
  \/ view[i][k] = used[i][k]
  \/ due
  \/ <<i, k>> \in notices
  \/ phase = "listing" /\ Len(results) < i
  \/ phase = "down"
  \/ ~Completed

-------------------------------------------------------------------------------
\* At the start of a run there are no results.
LEMMA NoResults ==
  ASSUME NEW rs, rs = <<>>
  PROVE  /\ rs \in Seq(ToSet(rs)) /\ Len(rs) = 0
OBVIOUS

\* The caches have been filled, and a run is due (WaitForCacheSync).
LEMMA InitInv == Init => Inv
<1> SUFFICES ASSUME Init PROVE Inv
  OBVIOUS
<1>1. results = <<>> /\ due
  BY DEF Init
<1>2. Types
  BY <1>1, NoResults, InformersAssumption DEF Init, Types
<1>3. FailedIsLast /\ EventsSeen
  BY <1>1 DEF FailedIsLast, EventsSeen
<1>4. QED
  BY <1>2, <1>3 DEF Inv

\* A run begins, and will come to every source.
LEMMA StartRunStep ==
  ASSUME Inv, StartRun
  PROVE  Inv'
<1>1. /\ phase' = "listing" /\ results' = <<>>
      /\ UNCHANGED <<scenario, view, used>>
  BY DEF StartRun
<1>2. Types' /\ FailedIsLast'
  BY <1>1, NoResults DEF Inv, Types, FailedIsLast, Children
<1>3. EventsSeen'
  BY <1>1, NoResults DEF EventsSeen, Children
<1>4. QED
  BY <1>2, <1>3 DEF Inv

\* What it reads of a source's caches is used; it goes on with the next source.
LEMMA ListSourceStep ==
  ASSUME Inv, NEW i \in Children, ListSource(i)
  PROVE  Inv'
<1>1. /\ phase = "listing" /\ Completed /\ i = Len(results) + 1
      /\ used' = [used EXCEPT ![i] = SeenBy(i)]
      /\ UNCHANGED <<scenario, view, notices, due, phase>>
  BY DEF ListSource
<1>2. PICK r : results' = Append(results, r)
  BY DEF ListSource
<1>3. /\ results' \in Seq(ToSet(results')) /\ Len(results') = i
      /\ \A j \in 1 .. Len(results) : results'[j] = results[j]
  BY <1>1, <1>2, Appended DEF Inv, Types
<1>4. Types'
  BY <1>1, <1>3 DEF Inv, Types, Children
<1>5. Len(results) \in Nat /\ DOMAIN results = 1 .. Len(results)
  BY DEF Inv, Types
<1>6. FailedIsLast'
  BY <1>1, <1>3, <1>5 DEF FailedIsLast, Completed
<1>7. EventsSeen'
  <2> SUFFICES ASSUME NEW j \in Children,
                      NEW k \in Watched(scenario.sources[j]) \ Live(scenario.sources[j])
               PROVE  Waiting(j, k)'
    BY Zenon, <1>1 DEF EventsSeen, Waiting, Children
  <2>1. CASE j = i
    BY <1>1, <2>1, SeenIsCached DEF Waiting, Inv, Types
  <2>2. CASE j # i
    <3>1. Waiting(j, k)
      BY DEF Inv, EventsSeen, Waiting
    <3>2. used'[j] = used[j]
      BY <1>1, <2>2
    <3>3. Len(results) < j => Len(results') < j
      BY <1>1, <1>3, <1>5, <2>2 DEF Children
    <3>4. QED
      BY <1>1, <3>1, <3>2, <3>3 DEF Waiting
  <2>3. QED
    BY <2>1, <2>2
<1>8. QED
  BY <1>4, <1>6, <1>7 DEF Inv

\* A run that ends well has come to every source.
LEMMA FinishStep ==
  ASSUME Inv, Finish
  PROVE  Inv'
<1>1. /\ phase = "listing" /\ results' = <<>>
      /\ Len(results) = Len(scenario.sources) \/ ~Completed
      /\ UNCHANGED <<scenario, view, notices, due, used>>
  BY DEF Finish
<1>2. Types' /\ FailedIsLast'
  BY SMTT(40), <1>1, NoResults DEF Inv, Types, FailedIsLast, Children
<1>3. CASE phase' = "down"
  BY <1>2, <1>3 DEF Inv, EventsSeen
<1>4. CASE phase' # "down"
  <2>1. Combined(results).state = "ok"
    BY <1>4 DEF Finish
  <2>2. Completed
    <3>1. ASSUME ~Completed PROVE FALSE
      <4>1. DOMAIN results = 1 .. Len(results) /\ Len(results) \in Nat
        BY DEF Inv, Types
      <4>2. PICK j \in 1 .. Len(results) : results[j].state # "ok"
        BY <3>1, <4>1 DEF Completed
      <4>3. j = Len(results)
        <5>1. j < Len(results) => results[j].state = "ok"
          BY <4>1, <4>2 DEF Inv, FailedIsLast
        <5>2. ~(j < Len(results))
          BY <4>2, <5>1
        <5>3. \A n \in Nat : \A m \in 1 .. n : ~(m < n) => m = n
          OBVIOUS
        <5>4. QED
          BY <4>1, <4>2, <5>2, <5>3, Zenon
      <4>4. results # <<>>
        BY <4>1, <4>2
      <4>5. Combined(results).state # "ok"
        BY <4>2, <4>3, <4>4, ChainFails DEF Combined, Inv, Types, FailedIsLast
      <4>6. QED
        BY <2>1, <4>5
    <3>2. QED
      BY <3>1
  <2>3. \A i \in Children : ~(Len(results) < i)
    BY <1>1, <2>2 DEF Children, Inv, Types
  <2>4. EventsSeen'
    BY Zenon, <1>1, <2>2, <2>3 DEF Inv, EventsSeen, Children
  <2>5. QED
    BY <1>2, <2>4 DEF Inv
<1>5. QED
  BY <1>3, <1>4

\* A cache moves, and its handler is to be called.
LEMMA DeliverStep ==
  ASSUME Inv, NEW i \in Children, NEW k \in DOMAIN view[i], Deliver(i, k)
  PROVE  Inv'
<1>1. /\ view' = [view EXCEPT ![i] = [view[i] EXCEPT ![k] = world[k]]]
      /\ notices \subseteq notices'
      /\ k \in Watched(scenario.sources[i]) => <<i, k>> \in notices'
      /\ UNCHANGED <<scenario, due, phase, results, used>>
  BY DEF Deliver
<1>2. Types' /\ FailedIsLast'
  BY <1>1 DEF Inv, Types, FailedIsLast, Children
<1>3. EventsSeen'
  <2> SUFFICES ASSUME NEW j \in Children,
                      NEW l \in Watched(scenario.sources[j]) \ Live(scenario.sources[j])
               PROVE  Waiting(j, l)'
    BY Zenon, <1>1 DEF EventsSeen, Waiting, Children
  <2>1. Waiting(j, l)
    BY DEF Inv, EventsSeen, Waiting
  <2>2. CASE j = i /\ l = k
    BY <1>1, <2>2 DEF Waiting
  <2>3. CASE ~(j = i /\ l = k)
    <3>1. l \in DOMAIN view[j]
      BY WatchedIsInformed DEF Inv, Types
    <3>2. view'[j][l] = view[j][l]
      BY <1>1, <2>3, <3>1 DEF Inv, Types
    <3>3. Completed' <=> Completed
      BY <1>1 DEF Completed
    <3>4. QED
      BY <1>1, <2>1, <3>2, <3>3 DEF Waiting
  <2>4. QED
    BY <2>2, <2>3
<1>4. QED
  BY <1>2, <1>3 DEF Inv

\* A run is asked for.
LEMMA BecomesDue ==
  ASSUME Inv, due', DOMAIN view' = DOMAIN view, \A i \in Children : DOMAIN view'[i] = DOMAIN view[i],
         UNCHANGED <<scenario, results, used>>
  PROVE  Inv'
<1>1. Types' /\ FailedIsLast'
  BY DEF Inv, Types, FailedIsLast, Children
<1>2. EventsSeen'
  BY DEF EventsSeen
<1>3. QED
  BY <1>1, <1>2 DEF Inv

\* Every step of the run, the caches and the handlers keeps the invariant.
LEMMA InvStep ==
  ASSUME Inv, [Next]_vars
  PROVE  Inv'
<1>1. CASE StartRun
  BY <1>1, StartRunStep
<1>2. ASSUME NEW i \in Children, ListSource(i) PROVE Inv'
  BY <1>2, ListSourceStep
<1>3. CASE Finish
  BY <1>3, FinishStep
<1>4. CASE IntervalPasses
  BY <1>4, BecomesDue DEF IntervalPasses
<1>5. CASE Restart
  <2>1. /\ view' = [i \in Children |-> [k \in DOMAIN view[i] |-> world[k]]]
        /\ due' /\ UNCHANGED <<scenario, results, used>>
    BY <1>5 DEF Restart
  <2>2. DOMAIN view' = DOMAIN view /\ \A i \in Children : DOMAIN view'[i] = DOMAIN view[i]
    BY <2>1 DEF Inv, Types
  <2>3. QED
    BY <2>1, <2>2, BecomesDue
<1>6. ASSUME NEW i \in Children, NEW k \in DOMAIN view[i], Deliver(i, k) PROVE Inv'
  BY <1>6, DeliverStep
<1>7. ASSUME NEW n \in notices, CallHandler(n) PROVE Inv'
  BY <1>7, BecomesDue DEF CallHandler
<1>8. CASE (\E k \in Kinds : ClusterChanges(k)) \/ UNCHANGED vars
  <2>1. UNCHANGED <<scenario, view, notices, due, phase, results, used>>
    BY <1>8 DEF ClusterChanges, vars
  <2>2. QED
    BY <2>1 DEF Inv, Types, FailedIsLast, EventsSeen, Completed, Children
<1>9. QED
  BY <1>1, <1>2, <1>3, <1>4, <1>5, <1>6, <1>7, <1>8 DEF Next

\* In every state of a sync with its sources: only the last result can be an
\* error, and the caches that moved are waited for.
THEOREM InformersInv == Spec => []Inv
<1>1. QED
  BY InitInv, InvStep, PTL DEF Spec

\* No event is lost between a cache and a run (the event handlers of the
\* sources, and Controller.RunOnce).
THEOREM NoEventLost == Spec => []EventsSeen
<1>1. Inv => EventsSeen
  BY DEF Inv
<1>2. QED
  BY <1>1, InformersInv, PTL

-------------------------------------------------------------------------------
(***************************************************************************)
(* Induction and recursion on an interval.                                 *)
(***************************************************************************)
Less == OpToRel(<, Nat)

\* Of some numbers one is the least.
LEMMA LeastNumber ==
  ASSUME NEW T \in SUBSET Nat, T # {}
  PROVE  \E m \in T : \A k \in T : m <= k
<1>1. \A x, y \in Nat : <<x, y>> \in Less <=> x < y
  BY DEF Less, OpToRel
<1>2. IsWellFoundedOn(Less, Nat)
  BY Zenon, NatLessThanWellFounded DEF Less
<1>3. PICK m \in T : \A k \in T : ~ (<<k, m>> \in Less)
  <2>1. \E m \in T : \A k \in T : ~ (<<k, m>> \in Less)
    BY <1>2, WFMin
  <2>2. QED
    BY <2>1
<1>4. \A k \in T : m <= k
  <2>1. \A k \in T : k \in Nat /\ m \in Nat /\ ~(k < m)
    BY <1>1, <1>3
  <2>2. QED
    BY <2>1
<1>5. QED
  BY <1>4

\* Induction from 0 to N.
LEMMA Upward ==
  ASSUME NEW N \in Nat, NEW T, 0 \in T,
         \A n \in 1 .. N : n - 1 \in T => n \in T
  PROVE  0 .. N \subseteq T
<1> DEFINE U == {n \in 0 .. N : n \notin T}
<1>1. ASSUME U # {} PROVE FALSE
  <2>1. U \in SUBSET Nat
    OBVIOUS
  <2>2. PICK m \in U : \A k \in U : m <= k
    <3> HIDE DEF U
    <3>1. QED
      BY <1>1, <2>1, LeastNumber
  <2>3. m \in 1 .. N /\ m - 1 \in 0 .. N /\ ~(m <= m - 1)
    BY <2>2
  <2>4. m - 1 \in T
    BY <2>2, <2>3
  <2>5. QED
    BY <2>2, <2>3, <2>4
<1>2. QED
  BY <1>1

\* A function that is defined by its value at 0 and by its steps.
Keeps(step, N, V) == \A n \in 1 .. N : \A v \in V : step[n][v] \in V
Follows(f, N, base, step) == f[0] = base /\ \A n \in 1 .. N : f[n] = step[n][f[n - 1]]

\* A function that follows a step from a base exists.
LEMMA Recursion ==
  ASSUME NEW N \in Nat, NEW V, NEW base \in V, NEW step, Keeps(step, N, V)
  PROVE  \E f \in [0 .. N -> V] : Follows(f, N, base, step)
<1> USE DEF Keeps, Follows
<1> DEFINE Begun(m) == \E f \in [0 .. m -> V] :
              f[0] = base /\ \A n \in 1 .. m : f[n] = step[n][f[n - 1]]
           T == {m \in 0 .. N : Begun(m)}
<1>1. Begun(0)
  <2>1. \A n : n \notin 1 .. 0
    OBVIOUS
  <2>2. [n \in 0 .. 0 |-> base] \in [0 .. 0 -> V] /\ [n \in 0 .. 0 |-> base][0] = base
    OBVIOUS
  <2>3. QED
    BY <2>1, <2>2
<1>2. ASSUME NEW m \in 1 .. N, Begun(m - 1) PROVE Begun(m)
  <2>1. PICK f \in [0 .. m - 1 -> V] :
           f[0] = base /\ \A n \in 1 .. m - 1 : f[n] = step[n][f[n - 1]]
    BY <1>2
  <2> DEFINE g == [n \in 0 .. m |-> IF n = m THEN step[m][f[m - 1]] ELSE f[n]]
  <2>2. m - 1 \in 0 .. m - 1 /\ 0 \in 0 .. m - 1 /\ m # 0
        /\ (\A n \in 1 .. m : n - 1 \in 0 .. m - 1 /\ n - 1 # m)
        /\ (\A n \in 0 .. m : n # m => n \in 0 .. m - 1)
        /\ (\A n \in 1 .. m : n # m => n \in 1 .. m - 1)
    OBVIOUS
  <2>3. g \in [0 .. m -> V]
    BY <2>1, <2>2
  <2>4. g[0] = base
    BY <2>1, <2>2
  <2>5. \A n \in 1 .. m : g[n] = step[n][g[n - 1]]
    <3>1. ASSUME NEW n \in 1 .. m PROVE g[n] = step[n][g[n - 1]]
      <4>1. g[n - 1] = f[n - 1] /\ n \in 0 .. m
        BY <2>2
      <4>2. CASE n = m
        BY <4>1, <4>2
      <4>3. CASE n # m
        BY <2>1, <2>2, <4>1, <4>3
      <4>4. QED
        BY <4>2, <4>3
    <3>2. QED
      BY <3>1
  <2> HIDE DEF g
  <2>6. QED
    BY <2>3, <2>4, <2>5
<1>3. 0 .. N \subseteq T
  <2>1. 0 \in T /\ \A n \in 1 .. N : n - 1 \in T => n \in T
    <3> HIDE DEF Begun
    <3>1. QED
      BY <1>1, <1>2
  <2> HIDE DEF T
  <2>2. QED
    BY <2>1, Upward
<1>4. QED
  BY <1>3

-------------------------------------------------------------------------------
(***************************************************************************)
(* Lists.                                                                  *)
(***************************************************************************)
\* How Picked comes about, up to the position n.
PickedUpTo(s, I) ==
  CHOOSE upTo : upTo = [n \in 0 .. Len(s) |->
    IF n = 0 THEN <<>>
    ELSE IF n \in I THEN Append(upTo[n - 1], s[n]) ELSE upTo[n - 1]]

\* The recursion that Picked is defined by.
LEMMA PickedSteps ==
  ASSUME NEW S, NEW s \in Seq(S), NEW I
  PROVE  /\ PickedUpTo(s, I)[0] = <<>> /\ Picked(s, I) = PickedUpTo(s, I)[Len(s)]
         /\ \A n \in 1 .. Len(s) :
              PickedUpTo(s, I)[n] = IF n \in I THEN Append(PickedUpTo(s, I)[n - 1], s[n])
                                   ELSE PickedUpTo(s, I)[n - 1]
<1> DEFINE N == Len(s)
           step == [n \in 1 .. N |-> [v \in Seq(S) |-> IF n \in I THEN Append(v, s[n]) ELSE v]]
<1>1. N \in Nat /\ \A n \in 1 .. N : s[n] \in S
  OBVIOUS
<1>2. \A n \in 1 .. N : \A v \in Seq(S) :
         step[n][v] = IF n \in I THEN Append(v, s[n]) ELSE v
  OBVIOUS
<1>3. \A n \in 1 .. N : \A v \in Seq(S) : step[n][v] \in Seq(S)
  BY <1>1
<1>4. PICK f \in [0 .. N -> Seq(S)] :
         f[0] = <<>> /\ \A n \in 1 .. N : f[n] = step[n][f[n - 1]]
  <2> HIDE DEF step, N
  <2>1. <<>> \in Seq(S) /\ N \in Nat /\ Keeps(step, N, Seq(S))
    BY <1>1, <1>3 DEF Keeps
  <2>2. \E f \in [0 .. N -> Seq(S)] : Follows(f, N, <<>>, step)
    BY <2>1, Recursion
  <2>3. QED
    BY <2>2 DEF Follows
<1>5. f = [n \in 0 .. N |-> IF n = 0 THEN <<>>
             ELSE IF n \in I THEN Append(f[n - 1], s[n]) ELSE f[n - 1]]
  <2>1. ASSUME NEW n \in 0 .. N, n # 0
        PROVE  f[n] = IF n \in I THEN Append(f[n - 1], s[n]) ELSE f[n - 1]
    <3>1. n \in 1 .. N /\ n - 1 \in 0 .. N
      BY <1>1, <2>1
    <3>2. QED
      BY Zenon, <1>2, <1>4, <3>1
  <2>2. QED
    BY <1>4, <2>1
<1>6. PickedUpTo(s, I) = [n \in 0 .. N |-> IF n = 0 THEN <<>>
          ELSE IF n \in I THEN Append(PickedUpTo(s, I)[n - 1], s[n]) ELSE PickedUpTo(s, I)[n - 1]]
  BY Zenon, <1>5 DEF PickedUpTo
<1>7. Picked(s, I) = PickedUpTo(s, I)[N]
  BY DEF Picked, PickedUpTo
<1>8. 0 \in 0 .. N /\ \A n \in 1 .. N : n \in 0 .. N /\ n # 0
  BY <1>1
<1> HIDE DEF step
<1>9. QED
  BY <1>6, <1>7, <1>8

\* t consists of what s has at the positions I, up to n: its k-th element comes
\* from the position h[k].
Picks(h, t, s, I, n) ==
  /\ h \in [1 .. Len(t) -> 1 .. n]
  /\ \A k \in 1 .. Len(t) : h[k] \in I /\ t[k] = s[h[k]]
  /\ \A k, l \in 1 .. Len(t) : k < l => h[k] < h[l]
  /\ \A i \in 1 .. n : i \in I => \E k \in 1 .. Len(t) : h[k] = i

\* One step of Picked: h says where the picked elements come from.
LEMMA PicksOneMore ==
  ASSUME NEW S, NEW s \in Seq(S), NEW I, NEW n \in 1 .. Len(s), NEW t \in Seq(S),
         NEW h, Picks(h, t, s, I, n - 1)
  PROVE  IF n \in I THEN \E g : Picks(g, Append(t, s[n]), s, I, n)
         ELSE Picks(h, t, s, I, n)
<1>1. /\ n \in Nat /\ n \in 1 .. n /\ Len(t) \in Nat
      /\ \A i \in 1 .. n - 1 : i \in 1 .. n /\ i < n
      /\ \A i \in 1 .. n : i # n => i \in 1 .. n - 1
      /\ s[n] \in S
  OBVIOUS
<1>2. CASE n \notin I
  <2>1. h \in [1 .. Len(t) -> 1 .. n]
    BY <1>1 DEF Picks
  <2>2. \A i \in 1 .. n : i \in I => \E k \in 1 .. Len(t) : h[k] = i
    BY <1>1, <1>2 DEF Picks
  <2>3. QED
    BY <1>2, <2>1, <2>2 DEF Picks
<1>3. CASE n \in I
  <2> DEFINE L == Len(t)
             u == Append(t, s[n])
             g == [k \in 1 .. L + 1 |-> IF k = L + 1 THEN n ELSE h[k]]
  <2>1. /\ Len(u) = L + 1 /\ u[L + 1] = s[n]
        /\ \A k \in 1 .. L : u[k] = t[k]
    BY <1>1
  <2>2. /\ L + 1 \in 1 .. L + 1
        /\ \A k \in 1 .. L : k \in 1 .. L + 1 /\ k # L + 1 /\ k < L + 1
        /\ \A k \in 1 .. L + 1 : k # L + 1 => k \in 1 .. L
        /\ \A k \in 1 .. L : ~(L + 1 < k)
        /\ ~(L + 1 < L + 1)
    BY <1>1
  <2>3. /\ g[L + 1] = n
        /\ \A k \in 1 .. L : g[k] = h[k] /\ h[k] \in 1 .. n - 1
    BY <2>2 DEF Picks
  <2>4. g \in [1 .. L + 1 -> 1 .. n]
    BY <1>1, <2>2, <2>3
  <2> HIDE DEF g, u, L
  <2>5. \A k \in 1 .. L + 1 : g[k] \in I /\ u[k] = s[g[k]]
    <3>1. ASSUME NEW k \in 1 .. L PROVE g[k] \in I /\ u[k] = s[g[k]]
      BY <2>1, <2>3 DEF Picks, L
    <3>2. QED
      BY <1>3, <2>1, <2>2, <2>3, <3>1
  <2>6. \A k, l \in 1 .. L + 1 : k < l => g[k] < g[l]
    <3>1. ASSUME NEW k \in 1 .. L, NEW l \in 1 .. L, k < l PROVE g[k] < g[l]
      BY <2>3, <3>1 DEF Picks, L
    <3>2. ASSUME NEW k \in 1 .. L PROVE g[k] < g[L + 1]
      BY <1>1, <2>3
    <3>3. QED
      BY <2>2, <3>1, <3>2
  <2>7. \A i \in 1 .. n : i \in I => \E k \in 1 .. L + 1 : g[k] = i
    <3>1. ASSUME NEW i \in 1 .. n - 1, i \in I PROVE \E k \in 1 .. L + 1 : g[k] = i
      <4>1. PICK k \in 1 .. L : h[k] = i
        BY <3>1 DEF Picks, L
      <4>2. QED
        BY <2>2, <2>3, <4>1
    <3>2. QED
      BY <1>1, <2>2, <2>3, <3>1
  <2>8. Picks(g, u, s, I, n)
    BY <2>1, <2>4, <2>5, <2>6, <2>7 DEF Picks
  <2>9. QED
    BY <1>3, <2>8 DEF u
<1>4. QED
  BY <1>2, <1>3

\* What Picked returns: the elements at the positions I, in their order.
LEMMA PickedType ==
  ASSUME NEW S, NEW s \in Seq(S), NEW I
  PROVE  /\ Picked(s, I) \in Seq(S)
         /\ \E h : Picks(h, Picked(s, I), s, I, Len(s))
<1> DEFINE upTo == PickedUpTo(s, I)
           T == {n \in 0 .. Len(s) : upTo[n] \in Seq(S) /\ \E h : Picks(h, upTo[n], s, I, n)}
<1>1. Len(s) \in Nat /\ \A n \in 1 .. Len(s) : s[n] \in S /\ n \in 0 .. Len(s)
  OBVIOUS
<1>2. upTo[0] = <<>> /\ Picked(s, I) = upTo[Len(s)]
  BY PickedSteps
<1>3. \A n \in 1 .. Len(s) :
         upTo[n] = IF n \in I THEN Append(upTo[n - 1], s[n]) ELSE upTo[n - 1]
  BY PickedSteps
<1> HIDE DEF upTo
<1>4. 0 \in T
  <2>1. Len(<<>>) = 0 /\ \A k : k \notin 1 .. 0
    OBVIOUS
  <2>2. Picks([k \in 1 .. 0 |-> 1], <<>>, s, I, 0)
    BY <2>1 DEF Picks
  <2>3. <<>> \in Seq(S) /\ 0 \in 0 .. Len(s)
    BY <1>1
  <2>4. QED
    BY <1>2, <2>2, <2>3
<1>5. ASSUME NEW n \in 1 .. Len(s), n - 1 \in T PROVE n \in T
  <2>1. PICK h : Picks(h, upTo[n - 1], s, I, n - 1)
    BY <1>5
  <2>2. upTo[n - 1] \in Seq(S)
    BY <1>5
  <2>3. IF n \in I THEN \E g : Picks(g, Append(upTo[n - 1], s[n]), s, I, n)
        ELSE Picks(h, upTo[n - 1], s, I, n)
    BY <2>1, <2>2, PicksOneMore
  <2>4. upTo[n] \in Seq(S)
    <3>1. Append(upTo[n - 1], s[n]) \in Seq(S)
      BY <1>1, <2>2
    <3>2. QED
      BY <1>3, <2>2, <3>1
  <2>5. \E g : Picks(g, upTo[n], s, I, n)
    BY <1>3, <2>3
  <2>6. QED
    BY <1>1, <2>4, <2>5
<1>6. 0 .. Len(s) \subseteq T
  <2> HIDE DEF T
  <2>1. QED
    BY <1>1, <1>4, <1>5, Upward
<1>7. Len(s) \in T
  BY <1>1, <1>6
<1>8. QED
  BY <1>2, <1>7

\* What is left of a list are elements of it, in S.
LEMMA OnlyType ==
  ASSUME NEW T, NEW s \in Seq(T), NEW S
  PROVE  /\ Only(s, S) \in Seq(T)
         /\ ToSet(Only(s, S)) = ToSet(s) \cap S
         /\ Only(s, S) \in Seq(ToSet(s) \cap S)
<1> DEFINE I == {i \in DOMAIN s : s[i] \in S}
           t == Only(s, S)
<1>1. t \in Seq(T) /\ \E h : Picks(h, t, s, I, Len(s))
  BY PickedType DEF Only
<1>2. PICK h : Picks(h, t, s, I, Len(s))
  BY <1>1
<1> HIDE DEF t
<1>3. DOMAIN t = 1 .. Len(t) /\ DOMAIN s = 1 .. Len(s)
  BY <1>1
<1>4. \A k \in 1 .. Len(t) : t[k] \in ToSet(s) \cap S
  BY <1>2, <1>3 DEF Picks, ToSet
<1>5. ASSUME NEW x \in ToSet(s) \cap S PROVE x \in ToSet(t)
  <2>1. PICK i \in 1 .. Len(s) : s[i] = x
    BY <1>3 DEF ToSet
  <2>2. i \in I
    BY <1>3, <2>1
  <2>3. PICK k \in 1 .. Len(t) : h[k] = i
    BY <1>2, <2>2 DEF Picks
  <2>4. t[k] = x
    BY <1>2, <2>1, <2>3 DEF Picks
  <2>5. QED
    BY <1>3, <2>4 DEF ToSet
<1>6. ToSet(t) = ToSet(s) \cap S
  BY <1>3, <1>4, <1>5 DEF ToSet
<1>7. t \in Seq(ToSet(s) \cap S)
  BY <1>1, <1>4
<1>8. QED
  BY <1>1, <1>6, <1>7 DEF t

\* Every element of a list is one that comes first.
LEMMA FirstOf ==
  ASSUME NEW T, NEW s \in Seq(T), NEW i \in DOMAIN s
  PROVE  \E j \in Firsts(s) : s[j] = s[i]
<1> DEFINE U == {j \in DOMAIN s : s[j] = s[i]}
<1>1. U # {} /\ U \in SUBSET Nat
  OBVIOUS
<1>2. PICK j \in U : \A k \in U : j <= k
  <2> HIDE DEF U
  <2>1. QED
    BY <1>1, LeastNumber
<1>3. \A k \in 1 .. j - 1 : k \in DOMAIN s /\ ~(j <= k)
  BY <1>2
<1>4. \A k \in 1 .. j - 1 : s[k] # s[j]
  BY <1>2, <1>3
<1>5. QED
  BY <1>2, <1>4 DEF Firsts

\* What is left of a list has all its elements, each once.
LEMMA DedupedType ==
  ASSUME NEW T, NEW s \in Seq(T)
  PROVE  /\ Deduped(s) \in Seq(T)
         /\ ToSet(Deduped(s)) = ToSet(s)
         /\ \A k, l \in DOMAIN Deduped(s) : Deduped(s)[k] = Deduped(s)[l] => k = l
<1> DEFINE t == Deduped(s)
<1>1. t \in Seq(T) /\ \E h : Picks(h, t, s, Firsts(s), Len(s))
  BY PickedType DEF Deduped
<1>2. PICK h : Picks(h, t, s, Firsts(s), Len(s))
  BY <1>1
<1> HIDE DEF t
<1>3. DOMAIN t = 1 .. Len(t) /\ DOMAIN s = 1 .. Len(s) /\ Len(t) \in Nat /\ Len(s) \in Nat
  BY <1>1
<1>4. \A x \in ToSet(t) : x \in ToSet(s)
  BY <1>2, <1>3 DEF Picks, ToSet
<1>5. ASSUME NEW x \in ToSet(s) PROVE x \in ToSet(t)
  <2>1. PICK i \in DOMAIN s : s[i] = x
    BY DEF ToSet
  <2>2. PICK j \in Firsts(s) : s[j] = x
    BY <2>1, FirstOf
  <2>3. PICK k \in 1 .. Len(t) : h[k] = j
    BY <1>2, <1>3, <2>2 DEF Picks, Firsts
  <2>4. QED
    BY <1>2, <1>3, <2>2, <2>3 DEF Picks, ToSet
<1>6. ASSUME NEW k \in DOMAIN t, NEW l \in DOMAIN t, k < l PROVE t[k] # t[l]
  <2>1. h[k] \in 1 .. Len(s) /\ h[l] \in 1 .. Len(s) /\ h[k] < h[l] /\ h[l] \in Firsts(s)
        /\ t[k] = s[h[k]] /\ t[l] = s[h[l]]
    BY <1>2, <1>3, <1>6 DEF Picks
  <2>2. h[k] \in 1 .. h[l] - 1
    BY <1>3, <2>1
  <2>3. QED
    BY <2>1, <2>2 DEF Firsts
<1>7. \A k, l \in DOMAIN t : t[k] = t[l] => k = l
  <2>1. \A k, l \in DOMAIN t : k < l \/ l < k \/ k = l
    BY <1>3
  <2>2. QED
    BY <1>6, <2>1
<1>8. QED
  BY <1>1, <1>4, <1>5, <1>7 DEF t

-------------------------------------------------------------------------------
\* The positions whose elements do not come after the i-th in the order of the
\* keys, and the position of the element that comes n-th.
NotAfter(s, key, i) == {j \in DOMAIN s : key[j] < key[i] \/ (key[j] = key[i] /\ j <= i)}
PlaceOf(s, key, n) == CHOOSE i \in DOMAIN s : Cardinality(NotAfter(s, key, i)) = n

SortedUpTo(s, key) ==
  CHOOSE upTo : upTo = [n \in 0 .. Len(s) |->
    IF n = 0 THEN <<>> ELSE Append(upTo[n - 1], s[PlaceOf(s, key, n)])]

\* One position for every number.
LEMMA Places ==
  ASSUME NEW T, NEW s \in Seq(T), NEW key, \A i \in DOMAIN s : key[i] \in Int
  PROVE  /\ \A n \in DOMAIN s : /\ PlaceOf(s, key, n) \in DOMAIN s
                                /\ Cardinality(NotAfter(s, key, PlaceOf(s, key, n))) = n
         /\ \A i \in DOMAIN s : \E n \in DOMAIN s : PlaceOf(s, key, n) = i
<1> DEFINE D == DOMAIN s
           rank == [i \in D |-> Cardinality(NotAfter(s, key, i))]
<1>1. D = 1 .. Len(s) /\ Len(s) \in Nat
  OBVIOUS
<1>2. IsFiniteSet(D) /\ Cardinality(D) = Len(s)
  <2>1. ~(1 > Len(s)) => Len(s) - 1 + 1 = Len(s)
    BY <1>1
  <2>2. 1 > Len(s) => Len(s) = 0
    BY <1>1
  <2>3. QED
    BY SMTT(40), <1>1, <2>1, <2>2, FS_Interval
<1>3. ASSUME NEW i \in D
      PROVE  /\ IsFiniteSet(NotAfter(s, key, i)) /\ i \in NotAfter(s, key, i)
             /\ Cardinality(NotAfter(s, key, i)) \in D
  <2>1. NotAfter(s, key, i) \in SUBSET D /\ i \in NotAfter(s, key, i)
    BY <1>1 DEF NotAfter
  <2>2. IsFiniteSet(NotAfter(s, key, i)) /\ Cardinality(NotAfter(s, key, i)) <= Len(s)
    BY <1>2, <2>1, FS_Subset
  <2>3. Cardinality(NotAfter(s, key, i)) \in Nat /\ Cardinality(NotAfter(s, key, i)) # 0
    BY <2>1, <2>2, FS_CardinalityType, FS_EmptySet
  <2>4. QED
    BY <1>1, <2>1, <2>2, <2>3
<1>4. ASSUME NEW i \in D, NEW j \in D, i # j PROVE rank[i] # rank[j]
  <2>1. ASSUME NEW a \in D, NEW b \in D, key[a] < key[b] \/ (key[a] = key[b] /\ a < b)
        PROVE  rank[a] # rank[b]
    <3>1. NotAfter(s, key, a) \in SUBSET NotAfter(s, key, b)
      <4>1. key[a] \in Int /\ key[b] \in Int /\ a \in Int /\ b \in Int
        BY <1>1
      <4>2. ASSUME NEW c \in D, key[c] < key[a] \/ (key[c] = key[a] /\ c <= a)
            PROVE  key[c] < key[b] \/ (key[c] = key[b] /\ c <= b)
        <5>1. key[c] \in Int /\ c \in Int
          BY <1>1
        <5>2. QED
          BY <2>1, <4>1, <4>2, <5>1
      <4>3. QED
        BY <4>2 DEF NotAfter
    <3>2. b \notin NotAfter(s, key, a)
      <4>1. key[a] \in Int /\ key[b] \in Int /\ a \in Int /\ b \in Int
        BY <1>1
      <4>2. QED
        BY <2>1, <4>1 DEF NotAfter
    <3>3. NotAfter(s, key, a) # NotAfter(s, key, b)
      BY <1>3, <3>2
    <3>4. QED
      BY <1>3, <3>1, <3>3, FS_Subset
  <2>2. key[i] \in Int /\ key[j] \in Int /\ i \in Int /\ j \in Int
    BY <1>1
  <2>3. key[i] < key[j] \/ key[j] < key[i] \/ (key[i] = key[j] /\ (i < j \/ j < i))
    BY <1>4, <2>2
  <2>4. QED
    BY <2>1, <2>3
<1>5. rank \in Injection(D, D)
  <2>1. rank \in [D -> D]
    BY <1>3
  <2>2. \A i, j \in D : rank[i] = rank[j] => i = j
    BY <1>4
  <2> HIDE DEF rank
  <2>3. QED
    BY <2>1, <2>2 DEF Injection, IsInjective
<1>6. rank \in Surjection(D, D)
  <2> HIDE DEF rank, D
  <2>1. QED
    BY <1>2, <1>5, FS_Injection
<1>7. \A n \in D : \E i \in D : rank[i] = n
  BY <1>6 DEF Surjection
<1>8. ASSUME NEW n \in D
      PROVE  PlaceOf(s, key, n) \in D /\ Cardinality(NotAfter(s, key, PlaceOf(s, key, n))) = n
  <2>1. \E i \in D : Cardinality(NotAfter(s, key, i)) = n
    BY <1>7
  <2>2. QED
    BY <2>1 DEF PlaceOf
<1>9. ASSUME NEW i \in D PROVE \E n \in D : PlaceOf(s, key, n) = i
  <2>1. rank[i] \in D
    BY <1>3
  <2>2. PlaceOf(s, key, rank[i]) \in D /\ rank[PlaceOf(s, key, rank[i])] = rank[i]
    BY <1>8, <2>1
  <2>3. PlaceOf(s, key, rank[i]) = i
    BY <1>4, <2>2
  <2>4. QED
    BY <2>1, <2>3
<1>10. QED
  BY <1>8, <1>9

\* What SortedBy returns: the same elements in other places.
LEMMA SortedByType ==
  ASSUME NEW T, NEW s \in Seq(T), NEW key, \A i \in DOMAIN s : key[i] \in Int
  PROVE  /\ SortedBy(s, key) \in Seq(T) /\ Len(SortedBy(s, key)) = Len(s)
         /\ \A n \in DOMAIN s : SortedBy(s, key)[n] = s[PlaceOf(s, key, n)]
         /\ ToSet(SortedBy(s, key)) = ToSet(s)
<1> DEFINE N == Len(s)
           e == [n \in 1 .. N |-> s[PlaceOf(s, key, n)]]
           step == [n \in 1 .. N |-> [v \in Seq(T) |-> Append(v, e[n])]]
           U == SortedUpTo(s, key)
<1>1. N \in Nat /\ DOMAIN s = 1 .. N
  OBVIOUS
<1>2. \A n \in 1 .. N : PlaceOf(s, key, n) \in 1 .. N /\ e[n] \in T
  <2>1. \A n \in DOMAIN s : PlaceOf(s, key, n) \in DOMAIN s
    BY Places
  <2>2. QED
    BY <1>1, <2>1
<1>3. PICK f \in [0 .. N -> Seq(T)] : Follows(f, N, <<>>, step)
  <2>1. \A n \in 1 .. N : \A v \in Seq(T) : step[n][v] \in Seq(T)
    BY <1>2
  <2> HIDE DEF step, N
  <2>2. <<>> \in Seq(T) /\ N \in Nat /\ Keeps(step, N, Seq(T))
    BY <1>1, <2>1 DEF Keeps
  <2>3. QED
    BY <2>2, Recursion
<1>4. \A n \in 1 .. N : n \in 0 .. N /\ n # 0 /\ n - 1 \in 0 .. N
  BY <1>1
<1>5. f = [n \in 0 .. N |-> IF n = 0 THEN <<>> ELSE Append(f[n - 1], s[PlaceOf(s, key, n)])]
  <2>1. ASSUME NEW n \in 0 .. N, n # 0 PROVE f[n] = Append(f[n - 1], s[PlaceOf(s, key, n)])
    <3>1. n \in 1 .. N /\ f[n - 1] \in Seq(T)
      BY <1>1, <1>4, <2>1
    <3>2. f[n] = step[n][f[n - 1]]
      BY <1>3, <3>1 DEF Follows
    <3>3. QED
      BY <3>1, <3>2
  <2>2. f[0] = <<>>
    BY <1>3 DEF Follows
  <2>3. QED
    BY <2>1, <2>2
<1>6. U = [n \in 0 .. N |-> IF n = 0 THEN <<>> ELSE Append(U[n - 1], s[PlaceOf(s, key, n)])]
  BY <1>5 DEF SortedUpTo
<1>7. SortedBy(s, key) = U[N]
  BY DEF SortedBy, SortedUpTo, PlaceOf, NotAfter
<1> HIDE DEF U
<1>8. U[0] = <<>> /\ \A n \in 1 .. N : U[n] = Append(U[n - 1], e[n])
  <2>1. U[0] = <<>>
    BY <1>1, <1>6
  <2>2. \A n \in 1 .. N : U[n] = Append(U[n - 1], s[PlaceOf(s, key, n)])
    BY <1>4, <1>6
  <2>3. QED
    BY <2>1, <2>2
<1> HIDE DEF e, step
<1> DEFINE V == {n \in 0 .. N : U[n] \in Seq(T) /\ Len(U[n]) = n /\ \A k \in 1 .. n : U[n][k] = e[k]}
<1>9. 0 .. N \subseteq V
  <2>1. 0 \in V
    <3>1. <<>> \in Seq(T) /\ Len(<<>>) = 0 /\ \A k : k \notin 1 .. 0
      OBVIOUS
    <3>2. 0 \in 0 .. N
      BY <1>1
    <3>3. QED
      BY <1>8, <3>1, <3>2
  <2>2. ASSUME NEW n \in 1 .. N, n - 1 \in V PROVE n \in V
    <3> DEFINE t == U[n - 1]
    <3>1. t \in Seq(T) /\ Len(t) = n - 1 /\ \A k \in 1 .. n - 1 : t[k] = e[k]
      BY <2>2
    <3>2. U[n] = Append(t, e[n]) /\ e[n] \in T
      BY <1>2, <1>8
    <3> HIDE DEF t
    <3>3. n \in Nat /\ n - 1 + 1 = n /\ n \in 0 .. N /\ \A k \in 1 .. n : k = n \/ k \in 1 .. n - 1
      BY <1>1
    <3>4. U[n] \in Seq(T) /\ Len(U[n]) = n /\ U[n][n] = e[n]
          /\ \A k \in 1 .. n - 1 : U[n][k] = t[k]
      BY <3>1, <3>2, <3>3
    <3>5. QED
      BY <3>1, <3>3, <3>4
  <2> HIDE DEF V
  <2>3. QED
    BY <1>1, <2>1, <2>2, Upward
<1>10. N \in V
  BY <1>1, <1>9
<1> DEFINE t == SortedBy(s, key)
<1>11. t \in Seq(T) /\ Len(t) = N /\ \A k \in 1 .. N : t[k] = s[PlaceOf(s, key, k)]
  BY <1>7, <1>10 DEF e
<1> HIDE DEF t, V
<1>12. DOMAIN t = 1 .. N
  BY <1>11
<1>13. ToSet(t) = ToSet(s)
  <2>1. \A k \in 1 .. N : t[k] \in ToSet(s)
    BY <1>1, <1>2, <1>11 DEF ToSet
  <2>2. ASSUME NEW i \in 1 .. N PROVE s[i] \in ToSet(t)
    <3>1. PICK n \in 1 .. N : PlaceOf(s, key, n) = i
      <4>1. \A j \in DOMAIN s : \E n \in DOMAIN s : PlaceOf(s, key, n) = j
        BY Places
      <4>2. QED
        BY <1>1, <4>1
    <3>2. QED
      BY <1>11, <1>12, <3>1 DEF ToSet
  <2>3. QED
    BY <1>1, <1>12, <2>1, <2>2 DEF ToSet
<1>14. QED
  BY <1>1, <1>11, <1>13 DEF t

-------------------------------------------------------------------------------
\* Lists one after the other.
FlatUpTo(ss) ==
  CHOOSE flat : flat = [i \in 1 .. Len(ss) |-> IF i = 1 THEN ss[i] ELSE flat[i - 1] \o ss[i]]

\* t consists of the lists ss, up to the n-th: its k-th element is one of the
\* list with the number b[k].
Joins(b, t, ss, n) ==
  /\ b \in [1 .. Len(t) -> 1 .. n]
  /\ \A k \in 1 .. Len(t) : t[k] \in ToSet(ss[b[k]])
  /\ \A k, l \in 1 .. Len(t) : k < l => b[k] <= b[l]
  /\ \A i \in 1 .. n : \A x \in ToSet(ss[i]) : \E k \in 1 .. Len(t) : t[k] = x

\* One step of FlattenSeq: b says where each list begins.
LEMMA JoinsOneMore ==
  ASSUME NEW S, NEW ss \in Seq(Seq(S)), NEW n \in 1 .. Len(ss), NEW t \in Seq(S),
         NEW b, Joins(b, t, ss, n - 1)
  PROVE  \E c : Joins(c, t \o ss[n], ss, n)
<1> DEFINE L == Len(t)
           M == Len(ss[n])
           u == t \o ss[n]
           c == [k \in 1 .. L + M |-> IF k \in 1 .. L THEN b[k] ELSE n]
<1>1. /\ n \in Nat /\ n \in 1 .. n /\ L \in Nat /\ M \in Nat /\ ss[n] \in Seq(S)
      /\ \A i \in 1 .. n - 1 : i \in 1 .. n /\ i <= n
      /\ \A i \in 1 .. n : i # n => i \in 1 .. n - 1
  OBVIOUS
<1>2. /\ Len(u) = L + M
      /\ \A k \in 1 .. L : u[k] = t[k]
      /\ \A k \in 1 .. M : u[L + k] = ss[n][k]
  BY <1>1
<1>3. /\ DOMAIN ss[n] = 1 .. M
      /\ \A k \in 1 .. L : k \in 1 .. L + M
      /\ \A k \in 1 .. M : L + k \in 1 .. L + M
      /\ \A k \in 1 .. L + M : k \notin 1 .. L => k - L \in 1 .. M /\ L + (k - L) = k
      /\ \A k, l \in 1 .. L + M : k < l /\ l \in 1 .. L => k \in 1 .. L
  BY <1>1
<1> HIDE DEF L, M, u
<1>4. \A k \in 1 .. L + M : c[k] = IF k \in 1 .. L THEN b[k] ELSE n
  OBVIOUS
<1>5. c \in [1 .. L + M -> 1 .. n]
  <2>1. \A k \in 1 .. L : b[k] \in 1 .. n - 1
    BY DEF Joins, L
  <2>2. QED
    BY <1>1, <2>1
<1> HIDE DEF c
<1>6. \A k \in 1 .. L + M : u[k] \in ToSet(ss[c[k]])
  <2>1. ASSUME NEW k \in 1 .. L PROVE u[k] \in ToSet(ss[c[k]])
    BY <1>2, <1>3, <1>4 DEF Joins, L
  <2>2. ASSUME NEW k \in 1 .. L + M, k \notin 1 .. L PROVE u[k] \in ToSet(ss[c[k]])
    <3>1. u[k] = ss[n][k - L] /\ k - L \in DOMAIN ss[n]
      BY <1>2, <1>3, <2>2
    <3>2. QED
      BY <1>4, <2>2, <3>1 DEF ToSet
  <2>3. QED
    BY <2>1, <2>2
<1>7. \A k, l \in 1 .. L + M : k < l => c[k] <= c[l]
  <2>1. ASSUME NEW k \in 1 .. L + M, NEW l \in 1 .. L + M, k < l PROVE c[k] <= c[l]
    <3>1. CASE l \in 1 .. L
      BY <1>3, <1>4, <2>1, <3>1 DEF Joins, L
    <3>2. CASE l \notin 1 .. L
      <4>1. c[l] = n /\ c[k] \in 1 .. n
        BY <1>4, <1>5, <3>2
      <4>2. QED
        BY <1>1, <4>1
    <3>3. QED
      BY <3>1, <3>2
  <2>2. QED
    BY <2>1
<1>8. ASSUME NEW i \in 1 .. n, NEW x \in ToSet(ss[i]) PROVE \E k \in 1 .. L + M : u[k] = x
  <2>1. CASE i = n
    <3>1. PICK k \in 1 .. M : ss[n][k] = x
      BY <1>3, <1>8, <2>1 DEF ToSet
    <3>2. QED
      BY <1>2, <1>3, <3>1
  <2>2. CASE i # n
    <3>1. PICK k \in 1 .. L : t[k] = x
      BY <1>1, <1>8, <2>2 DEF Joins, L
    <3>2. QED
      BY <1>2, <1>3, <3>1
  <2>3. QED
    BY <2>1, <2>2
<1>9. Joins(c, u, ss, n)
  BY <1>2, <1>5, <1>6, <1>7, <1>8 DEF Joins
<1>10. QED
  BY <1>9 DEF u

\* The recursion that FlattenSeq is defined by.
LEMMA FlatUpToSteps ==
  ASSUME NEW S, NEW ss \in Seq(Seq(S)), ss # <<>>
  PROVE  /\ FlattenSeq(ss) = FlatUpTo(ss)[Len(ss)]
         /\ FlatUpTo(ss)[1] = ss[1]
         /\ \A n \in 1 .. Len(ss) : n # 1 => FlatUpTo(ss)[n] = FlatUpTo(ss)[n - 1] \o ss[n]
<1> DEFINE N == Len(ss)
           step == [n \in 1 .. N |-> [v \in Seq(S) |-> IF n = 1 THEN ss[1] ELSE v \o ss[n]]]
           U == FlatUpTo(ss)
<1>1. N \in Nat /\ N # 0 /\ 1 \in 1 .. N /\ \A n \in 1 .. N : ss[n] \in Seq(S)
  OBVIOUS
<1>2. PICK f \in [0 .. N -> Seq(S)] : Follows(f, N, <<>>, step)
  <2>1. \A n \in 1 .. N : \A v \in Seq(S) : step[n][v] \in Seq(S)
    BY <1>1
  <2> HIDE DEF step, N
  <2>2. <<>> \in Seq(S) /\ N \in Nat /\ Keeps(step, N, Seq(S))
    BY <1>1, <2>1 DEF Keeps
  <2>3. QED
    BY <2>2, Recursion
<1>3. \A n \in 1 .. N : f[n] = IF n = 1 THEN ss[n] ELSE f[n - 1] \o ss[n]
  <2>1. ASSUME NEW n \in 1 .. N PROVE f[n] = IF n = 1 THEN ss[n] ELSE f[n - 1] \o ss[n]
    <3>1. n - 1 \in 0 .. N
      BY <1>1
    <3>2. f[n] = step[n][f[n - 1]] /\ f[n - 1] \in Seq(S)
      BY <1>2, <3>1 DEF Follows
    <3>3. QED
      BY <3>2
  <2>2. QED
    BY <2>1
<1> HIDE DEF step
<1> DEFINE g == [i \in 1 .. N |-> f[i]]
<1>4. g = [i \in 1 .. N |-> IF i = 1 THEN ss[i] ELSE g[i - 1] \o ss[i]]
  <2>1. \A i \in 1 .. N : i # 1 => i - 1 \in 1 .. N
    BY <1>1
  <2>2. \A i \in 1 .. N : g[i] = IF i = 1 THEN ss[i] ELSE g[i - 1] \o ss[i]
    BY <1>3, <2>1
  <2> HIDE DEF g
  <2>3. g = [i \in 1 .. N |-> g[i]]
    BY SMTT(40) DEF g
  <2>4. QED
    BY <2>2, <2>3
<1> HIDE DEF g
<1>5. U = [i \in 1 .. N |-> IF i = 1 THEN ss[i] ELSE U[i - 1] \o ss[i]]
  BY Zenon, <1>4 DEF FlatUpTo
<1>6. FlattenSeq(ss) = U[N]
  BY <1>1 DEF FlattenSeq, FlatUpTo
<1> HIDE DEF U
<1>7. U[1] = ss[1] /\ \A n \in 1 .. N : n # 1 => U[n] = U[n - 1] \o ss[n]
  BY <1>1, <1>5
<1>8. QED
  BY <1>6, <1>7 DEF U

\* What FlattenSeq returns: the lists, one after the other.
LEMMA FlattenSeqType ==
  ASSUME NEW S, NEW ss \in Seq(Seq(S))
  PROVE  /\ FlattenSeq(ss) \in Seq(S)
         /\ \E b : Joins(b, FlattenSeq(ss), ss, Len(ss))
<1>1. CASE ss = <<>>
  <2>1. Len(<<>>) = 0 /\ \A k : k \notin 1 .. 0
    OBVIOUS
  <2>2. FlattenSeq(ss) = <<>>
    BY <1>1, <2>1 DEF FlattenSeq
  <2>3. Joins([k \in 1 .. 0 |-> 1], <<>>, ss, 0)
    BY <2>1 DEF Joins
  <2>4. <<>> \in Seq(S)
    OBVIOUS
  <2>5. QED
    BY <1>1, <2>1, <2>2, <2>3, <2>4
<1>2. CASE ss # <<>>
  <2> DEFINE N == Len(ss)
             U == FlatUpTo(ss)
             V == {n \in 1 .. N : U[n] \in Seq(S) /\ \E b : Joins(b, U[n], ss, n)}
  <2>1. N \in Nat /\ N # 0 /\ 1 \in 1 .. N /\ \A n \in 1 .. N : ss[n] \in Seq(S)
    BY <1>2
  <2>2. FlattenSeq(ss) = U[N] /\ U[1] = ss[1]
        /\ \A n \in 1 .. N : n # 1 => U[n] = U[n - 1] \o ss[n]
    BY <1>2, FlatUpToSteps
  <2> HIDE DEF U
  <2>3. 1 \in V
    <3> DEFINE t == ss[1]
    <3>1. t \in Seq(S) /\ DOMAIN t = 1 .. Len(t)
      BY <2>1
    <3>2. \A k \in 1 .. Len(t) : t[k] \in ToSet(t)
      BY <3>1 DEF ToSet
    <3>3. \A x \in ToSet(t) : \E k \in 1 .. Len(t) : t[k] = x
      BY <3>1 DEF ToSet
    <3>4. 1 .. 1 = {1}
      OBVIOUS
    <3>5. Joins([k \in 1 .. Len(t) |-> 1], t, ss, 1)
      <4> DEFINE b == [k \in 1 .. Len(t) |-> 1]
      <4>1. b \in [1 .. Len(t) -> 1 .. 1] /\ \A k \in 1 .. Len(t) : b[k] = 1
        BY <3>4
      <4> HIDE DEF b
      <4>2. \A k, l \in 1 .. Len(t) : b[k] <= b[l]
        BY <4>1
      <4>3. QED
        BY <3>2, <3>3, <3>4, <4>1, <4>2 DEF Joins
    <3>6. QED
      BY <2>1, <2>2, <3>1, <3>5
  <2>4. ASSUME NEW n \in 1 .. N, n # 1, n - 1 \in V PROVE n \in V
    <3>1. U[n - 1] \in Seq(S)
      BY <2>4
    <3>2. PICK b : Joins(b, U[n - 1], ss, n - 1)
      BY <2>4
    <3>3. \E c : Joins(c, U[n - 1] \o ss[n], ss, n)
      BY <3>1, <3>2, JoinsOneMore
    <3>4. U[n] = U[n - 1] \o ss[n]
      BY <2>2, <2>4
    <3>5. U[n] \in Seq(S)
      BY <2>1, <3>1, <3>4
    <3>6. QED
      BY <3>3, <3>4, <3>5
  <2>5. 0 .. N \subseteq {0} \cup V
    <3>1. ASSUME NEW n \in 1 .. N, n - 1 \in {0} \cup V PROVE n \in {0} \cup V
      <4>1. n - 1 = 0 => n = 1
        OBVIOUS
      <4>2. QED
        BY <2>3, <2>4, <3>1, <4>1
    <3> HIDE DEF V
    <3>2. QED
      BY <2>1, <3>1, Upward
  <2>6. N \in V
    BY SMTT(40), <2>1, <2>5
  <2>7. QED
    BY <2>2, <2>6
<1>3. QED
  BY <1>1, <1>2

\* The elements of lists one after the other.
LEMMA Flattened ==
  ASSUME NEW S, NEW ss \in Seq(Seq(S))
  PROVE  /\ FlattenSeq(ss) \in Seq(S)
         /\ ToSet(FlattenSeq(ss)) = UNION {ToSet(ss[i]) : i \in DOMAIN ss}
<1> DEFINE t == FlattenSeq(ss)
<1>1. t \in Seq(S) /\ \E b : Joins(b, t, ss, Len(ss))
  BY FlattenSeqType
<1>2. PICK b : Joins(b, t, ss, Len(ss))
  BY <1>1
<1> HIDE DEF t
<1>3. DOMAIN t = 1 .. Len(t) /\ DOMAIN ss = 1 .. Len(ss)
  BY <1>1
<1>4. \A k \in 1 .. Len(t) : b[k] \in DOMAIN ss /\ t[k] \in ToSet(ss[b[k]])
  BY <1>2, <1>3 DEF Joins
<1>5. \A i \in DOMAIN ss : \A x \in ToSet(ss[i]) : x \in ToSet(t)
  BY <1>2, <1>3 DEF Joins, ToSet
<1>6. ToSet(t) \subseteq UNION {ToSet(ss[i]) : i \in DOMAIN ss}
  BY <1>3, <1>4 DEF ToSet
<1>7. QED
  BY <1>1, <1>5, <1>6 DEF t

\* Two lists, one after the other.
LEMMA Concat ==
  ASSUME NEW S, NEW a \in Seq(S), NEW b \in Seq(S)
  PROVE  a \o b \in Seq(S) /\ ToSet(a \o b) = ToSet(a) \cup ToSet(b)
<1> DEFINE u == a \o b
<1>1. u \in Seq(S) /\ Len(u) = Len(a) + Len(b)
      /\ (\A i \in 1 .. Len(a) : u[i] = a[i])
      /\ (\A i \in 1 .. Len(b) : u[Len(a) + i] = b[i])
  OBVIOUS
<1> HIDE DEF u
<1>2. /\ Len(a) \in Nat /\ Len(b) \in Nat
      /\ DOMAIN a = 1 .. Len(a) /\ DOMAIN b = 1 .. Len(b)
  OBVIOUS
<1>3. DOMAIN u = 1 .. Len(a) + Len(b)
  BY <1>1
<1>4. \A i \in 1 .. Len(a) + Len(b) :
         i \in 1 .. Len(a) \/ (i - Len(a) \in 1 .. Len(b) /\ i = Len(a) + (i - Len(a)))
  BY <1>2
<1>5. (\A i \in 1 .. Len(a) : i \in 1 .. Len(a) + Len(b))
      /\ \A i \in 1 .. Len(b) : Len(a) + i \in 1 .. Len(a) + Len(b)
  BY <1>2
<1>6. ASSUME NEW i \in DOMAIN u PROVE u[i] \in ToSet(a) \cup ToSet(b)
  <2>1. CASE i \in 1 .. Len(a)
    BY <1>1, <1>2, <2>1 DEF ToSet
  <2>2. CASE i - Len(a) \in 1 .. Len(b) /\ i = Len(a) + (i - Len(a))
    <3>1. u[i] = b[i - Len(a)]
      BY <1>1, <2>2
    <3>2. QED
      BY <1>2, <2>2, <3>1 DEF ToSet
  <2>3. QED
    BY <1>3, <1>4, <2>1, <2>2
<1>7. ASSUME NEW i \in DOMAIN a PROVE a[i] \in ToSet(u)
  <2>1. u[i] = a[i] /\ i \in DOMAIN u
    BY <1>1, <1>2, <1>3, <1>5
  <2>2. QED
    BY <2>1 DEF ToSet
<1>8. ASSUME NEW i \in DOMAIN b PROVE b[i] \in ToSet(u)
  <2>1. u[Len(a) + i] = b[i] /\ Len(a) + i \in DOMAIN u
    BY <1>1, <1>2, <1>3, <1>5
  <2>2. QED
    BY <2>1 DEF ToSet
<1>9. ToSet(u) = ToSet(a) \cup ToSet(b)
  <2>1. ToSet(u) \subseteq ToSet(a) \cup ToSet(b)
    BY <1>6 DEF ToSet
  <2>2. ToSet(a) \subseteq ToSet(u) /\ ToSet(b) \subseteq ToSet(u)
    BY <1>7, <1>8 DEF ToSet
  <2>3. QED
    BY <2>1, <2>2
<1>10. QED
  BY <1>1, <1>9 DEF u

\* Keeping the elements in S of a list leaves S, if S has elements of the list only.
LEMMA OnlyThose ==
  ASSUME NEW T, NEW s \in Seq(T), NEW S, S \subseteq ToSet(s)
  PROVE  Only(s, S) \in Seq(T) /\ ToSet(Only(s, S)) = S
<1>1. Only(s, S) \in Seq(T) /\ ToSet(Only(s, S)) = ToSet(s) \cap S
  BY OnlyType
<1>2. QED
  BY <1>1

-------------------------------------------------------------------------------
(***************************************************************************)
(* Records.                                                                *)
(***************************************************************************)
\* Records whose targets are of their type, under names of legal labels; those that
\* some source may list, with the names of nodes and the addresses of pods.
Suited(e) ==
  /\ ~TooLong(e.dnsName)
  /\ e.targets # <<>>
  /\ \A j \in DOMAIN e.targets : SuitableType(e.targets[j]) = e.recordType

Fit == {e \in Record : Suited(e)}
Usable == {e \in Record : Sound(e)}
Listed == Usable \cup {Nil}
ResultOf(S) == [state : {"ok", "failed", "panics"}, eps : Seq(S)]

\* Targets, suited to A and AAAA and CNAME records.
LEMMA TargetTypes ==
  /\ \A t \in Target : SuitableType(t) \in {"A", "AAAA", "CNAME"}
  /\ \A t \in Port : SuitableType(t) = "SRV"
BY SourcesAssumption DEF Target, Port, SuitableType

\* Records whose targets are of their type are among those sources may list.
LEMMA FitIsUsable == Fit \subseteq Usable /\ Usable \subseteq Record
BY DEF Fit, Usable, Suited, Sound

\* A nil endpoint is no record.
LEMMA NilIsNoRecord == Nil \notin Record
BY DEF Nil, Record, RecordTypes

\* A record of its parts.
LEMMA RecordFields ==
  ASSUME NEW name \in Name, NEW type \in RecordTypes, NEW id \in STRING,
         NEW targets \in Seq(Target \cup Port), NEW ttl \in Nat, NEW provider \in Nat,
         NEW labels \in [resource : Nat, mesh : BOOLEAN, dualstack : BOOLEAN],
         ~TooLong(name), targets # <<>>,
         \A j \in DOMAIN targets : SuitableType(targets[j]) = type
  PROVE  [dnsName |-> name, recordType |-> type, setIdentifier |-> id, targets |-> targets,
          ttl |-> ttl, providerSpecific |-> provider, labels |-> labels] \in Fit
<1> DEFINE e == [dnsName |-> name, recordType |-> type, setIdentifier |-> id, targets |-> targets,
                 ttl |-> ttl, providerSpecific |-> provider, labels |-> labels]
<1>1. e \in Record
  BY DEF Record
<1>2. Suited(e)
  BY DEF Suited
<1>3. QED
  BY <1>1, <1>2 DEF Fit

\* One record at most for each type, of the targets of that type.
TypedRecord(host, type, targets, ttl, provider, id, resource) ==
  [dnsName |-> host, recordType |-> type, setIdentifier |-> id, targets |-> targets, ttl |-> ttl,
   providerSpecific |-> provider, labels |-> [resource |-> resource, mesh |-> FALSE, dualstack |-> FALSE]]

OfType(targets, type) == Only(targets, {t \in ToSet(targets) : SuitableType(t) = type})

\* A record's fields are all there is of it.
Fields == {"dnsName", "recordType", "setIdentifier", "targets", "ttl", "providerSpecific", "labels"}
IsFunction(f, D) == f = [x \in D |-> f[x]]
Refilled(y, x, provider, id, labels) ==
  y = [x EXCEPT !.providerSpecific = provider, !.setIdentifier = id, !.labels = labels]

\* Functions that agree on their domain are equal.
LEMMA SameFields ==
  ASSUME NEW D, NEW f, NEW g, IsFunction(f, D), IsFunction(g, D), \A x \in D : f[x] = g[x]
  PROVE  f = g
BY DEF IsFunction

\* A record of an endpoint has the fields of an endpoint.
LEMMA FieldsOfRecord ==
  ASSUME NEW a, NEW b, NEW c, NEW d, NEW e, NEW f, NEW g
  PROVE  IsFunction([dnsName |-> a, recordType |-> b, setIdentifier |-> c, targets |-> d, ttl |-> e,
                     providerSpecific |-> f, labels |-> g], Fields)
BY DEF IsFunction, Fields

\* The fields after three of them were set (EndpointsForHostname).
LEMMA FieldsOfRefilled ==
  ASSUME NEW x, IsFunction(x, Fields), NEW p, NEW i, NEW l, NEW y, Refilled(y, x, p, i, l)
  PROVE  /\ IsFunction(y, Fields)
         /\ y.providerSpecific = p /\ y.setIdentifier = i /\ y.labels = l
         /\ y.dnsName = x.dnsName /\ y.recordType = x.recordType
         /\ y.targets = x.targets /\ y.ttl = x.ttl
BY DEF IsFunction, Fields, Refilled

RecordWith(a, b, c, d, e, f, g) ==
  [dnsName |-> a, recordType |-> b, setIdentifier |-> c, targets |-> d, ttl |-> e,
   providerSpecific |-> f, labels |-> g]

\* A record with three fields set, from its parts.
LEMMA RefilledRecord ==
  ASSUME NEW a, NEW b, NEW c, NEW d, NEW e, NEW f, NEW g, NEW p, NEW i, NEW l,
         NEW y, Refilled(y, RecordWith(a, b, c, d, e, f, g), p, i, l)
  PROVE  y = RecordWith(a, b, i, d, e, p, l)
<1> DEFINE x == RecordWith(a, b, c, d, e, f, g)
           z == RecordWith(a, b, i, d, e, p, l)
<1>1. IsFunction(x, Fields) /\ IsFunction(z, Fields)
  BY FieldsOfRecord DEF RecordWith
<1>2. x.dnsName = a /\ x.recordType = b /\ x.targets = d /\ x.ttl = e
  BY DEF RecordWith
<1>3. /\ z.dnsName = a /\ z.recordType = b /\ z.targets = d /\ z.ttl = e
      /\ z.setIdentifier = i /\ z.providerSpecific = p /\ z.labels = l
  BY DEF RecordWith
<1> HIDE DEF x, z
<1>4. Refilled(y, x, p, i, l)
  BY DEF x
<1>5. /\ IsFunction(y, Fields)
      /\ y.providerSpecific = p /\ y.setIdentifier = i /\ y.labels = l
      /\ y.dnsName = x.dnsName /\ y.recordType = x.recordType
      /\ y.targets = x.targets /\ y.ttl = x.ttl
  BY <1>1, <1>4, FieldsOfRefilled
<1>6. \A k \in Fields : y[k] = z[k]
  BY <1>2, <1>3, <1>5 DEF Fields
<1>7. y = z
  BY <1>1, <1>5, <1>6, SameFields
<1>8. QED
  BY <1>7 DEF z

\* Setting the resource label leaves the other labels.
LEMMA LabelledAnew ==
  ASSUME NEW z, NEW m, NEW d, NEW r
  PROVE  [[resource |-> z, mesh |-> m, dualstack |-> d] EXCEPT !.resource = r]
           = [resource |-> r, mesh |-> m, dualstack |-> d]
BY SMTT(30)

\* The record EndpointsForHostname makes for one type of target.
LEMMA FilledIn ==
  ASSUME NEW host, NEW type, NEW targets, NEW ttl, NEW provider, NEW id, NEW resource
  PROVE  [[dnsName |-> host, recordType |-> type, setIdentifier |-> "", targets |-> targets,
           ttl |-> ttl, providerSpecific |-> 0, labels |-> NoLabels]
            EXCEPT !.providerSpecific = provider, !.setIdentifier = id, !.labels.resource = resource]
         = TypedRecord(host, type, targets, ttl, provider, id, resource)
<1> DEFINE e == RecordWith(host, type, "", targets, ttl, 0, NoLabels)
           l == [resource |-> resource, mesh |-> FALSE, dualstack |-> FALSE]
           y == [e EXCEPT !.providerSpecific = provider, !.setIdentifier = id,
                          !.labels.resource = resource]
<1>1. [NoLabels EXCEPT !.resource = resource] = l
  BY ZenonT(60), LabelledAnew DEF NoLabels
<1>2. e.labels = NoLabels
  BY DEF RecordWith
<1> HIDE DEF e
<1>3. y = [e EXCEPT !.providerSpecific = provider, !.setIdentifier = id,
                    !.labels = [e.labels EXCEPT !.resource = resource]]
  OBVIOUS
<1> HIDE DEF l
<1>4. Refilled(y, e, provider, id, l)
  BY <1>1, <1>2, <1>3 DEF Refilled
<1> HIDE DEF y
<1>5. y = RecordWith(host, type, id, targets, ttl, provider, l)
  BY Zenon, <1>4, RefilledRecord DEF e
<1>6. QED
  BY <1>5 DEF y, e, l, RecordWith, TypedRecord

RecordsFor(host, targets, ttl, provider, id, resource) ==
  IF TooLong(host) THEN {}
  ELSE {TypedRecord(host, type, OfType(targets, type), ttl, provider, id, resource) :
          type \in {y \in {"A", "AAAA", "CNAME"} : OfType(targets, y) # <<>>}}

\* EndpointsForHostname returns the records for the types among the targets.
LEMMA HostnameRecords ==
  ASSUME NEW host \in Name, NEW targets \in Seq(Target), NEW ttl \in Nat, NEW provider \in Nat,
         NEW id \in STRING, NEW resource \in Nat
  PROVE  /\ EndpointsForHostname(host, targets, ttl, provider, id, resource) \in Seq(Fit)
         /\ ToSet(EndpointsForHostname(host, targets, ttl, provider, id, resource)) =
              RecordsFor(host, targets, ttl, provider, id, resource)
<1> DEFINE Three == {"A", "AAAA", "CNAME"}
           Rec(type) == TypedRecord(host, type, OfType(targets, type), ttl, provider, id, resource)
           None(type) == OfType(targets, type) = <<>> \/ TooLong(host)
           Of(type) == IF None(type) THEN <<>> ELSE <<Rec(type)>>
<1>1. EndpointsForHostname(host, targets, ttl, provider, id, resource)
        = Of("A") \o Of("AAAA") \o Of("CNAME")
  <2> DEFINE New(type) == [NewEndpointWithTTL(host, type, ttl, OfType(targets, type)) EXCEPT
                             !.providerSpecific = provider, !.setIdentifier = id,
                             !.labels.resource = resource]
             X(type) == IF None(type) THEN <<>> ELSE <<New(type)>>
  <2>2. ASSUME NEW type, ~TooLong(host) PROVE New(type) = Rec(type)
    BY Zenon, <2>2, FilledIn DEF NewEndpointWithTTL
  <2>3. X("A") = Of("A") /\ X("AAAA") = Of("AAAA") /\ X("CNAME") = Of("CNAME")
    <3> HIDE DEF New, Rec
    <3>1. QED
      BY <2>2
  <2>4. EndpointsForHostname(host, targets, ttl, provider, id, resource)
          = X("A") \o X("AAAA") \o X("CNAME")
    BY DEF EndpointsForHostname, OfType
  <2> HIDE DEF X, Of
  <2>5. QED
    BY <2>3, <2>4
<1>2. ASSUME NEW type \in Three, ~None(type)
      PROVE  Rec(type) \in Fit
  <2> DEFINE U == {t \in ToSet(targets) : SuitableType(t) = type}
  <2>1. OfType(targets, type) \in Seq(ToSet(targets) \cap U)
    BY OnlyType DEF OfType
  <2>2. \A j \in DOMAIN OfType(targets, type) :
           OfType(targets, type)[j] \in U /\ OfType(targets, type)[j] \in Target
    <3>1. ToSet(targets) \subseteq Target
      BY DEF ToSet
    <3>2. QED
      BY <2>1, <3>1
  <2>3. OfType(targets, type) \in Seq(Target \cup Port)
    BY <2>1, <2>2
  <2>4. type \in RecordTypes
    BY DEF RecordTypes
  <2>5. [resource |-> resource, mesh |-> FALSE, dualstack |-> FALSE]
           \in [resource : Nat, mesh : BOOLEAN, dualstack : BOOLEAN]
    OBVIOUS
  <2>6. QED
    BY <1>2, <2>2, <2>3, <2>4, <2>5, RecordFields DEF TypedRecord
<1> HIDE DEF Rec, None
<1>3. \A type \in Three : Of(type) \in Seq(Fit)
                          /\ ToSet(Of(type)) = IF None(type) THEN {} ELSE {Rec(type)}
  BY <1>2 DEF ToSet
<1> HIDE DEF Of
<1>4. ToSet(Of("A") \o Of("AAAA") \o Of("CNAME"))
        = ToSet(Of("A")) \cup ToSet(Of("AAAA")) \cup ToSet(Of("CNAME"))
      /\ Of("A") \o Of("AAAA") \o Of("CNAME") \in Seq(Fit)
  <2>1. Of("A") \in Seq(Fit) /\ Of("AAAA") \in Seq(Fit) /\ Of("CNAME") \in Seq(Fit)
    BY <1>3
  <2>2. Of("A") \o Of("AAAA") \in Seq(Fit)
        /\ ToSet(Of("A") \o Of("AAAA")) = ToSet(Of("A")) \cup ToSet(Of("AAAA"))
    BY <2>1, Concat
  <2> HIDE DEF Three
  <2> DEFINE Two == Of("A") \o Of("AAAA")
  <2>a. Two \in Seq(Fit) /\ ToSet(Two) = ToSet(Of("A")) \cup ToSet(Of("AAAA"))
    BY <2>2
  <2> HIDE DEF Two
  <2>3. Two \o Of("CNAME") \in Seq(Fit) /\ ToSet(Two \o Of("CNAME")) = ToSet(Two) \cup ToSet(Of("CNAME"))
    BY <2>1, <2>a, Concat
  <2>4. QED
    BY <2>a, <2>3 DEF Two
<1>5. ToSet(Of("A")) \cup ToSet(Of("AAAA")) \cup ToSet(Of("CNAME"))
        = {Rec(type) : type \in {y \in Three : ~None(y)}}
  BY <1>3
<1>6. {Rec(type) : type \in {y \in Three : ~None(y)}}
        = IF TooLong(host) THEN {} ELSE {Rec(type) : type \in {y \in Three : OfType(targets, y) # <<>>}}
  BY DEF None
<1>7. QED
  BY <1>1, <1>4, <1>5, <1>6 DEF Rec, RecordsFor

-------------------------------------------------------------------------------
(***************************************************************************)
(* What a list of records says, whatever its order and that of the targets.*)
(***************************************************************************)
Says(e) == <<Cell(e), ToSet(e.targets)>>
ContentOf(eps) == {Says(e) : e \in ToSet(eps)}

\* One host name with a set of targets.
HostContent(host, T, id) ==
  IF TooLong(host) THEN {}
  ELSE {<<<<host, type, id>>, {t \in T : SuitableType(t) = type}>> :
          type \in {y \in {"A", "AAAA", "CNAME"} : \E t \in T : SuitableType(t) = y}}

\* The content of a result is that of its list.
LEMMA ContentIsOf ==
  ASSUME NEW r
  PROVE  Content(r) = ContentOf(r.eps)
BY DEF Content, ContentOf, Says, ToSet

\* The walks through a finite set are its lists without repetition.
LEMMA WalksType ==
  ASSUME NEW S, IsFiniteSet(S), NEW w \in Walks(S)
  PROVE  w \in Seq(S) /\ ToSet(w) = S /\ \A i, j \in DOMAIN w : w[i] = w[j] => i = j
<1> DEFINE n == Cardinality(S)
<1>1. n \in Nat
  BY FS_CardinalityType
<1> HIDE DEF n
<1>2. w \in [1 .. n -> S] /\ \A i, j \in 1 .. n : i # j => w[i] # w[j]
  BY DEF Walks, SetToSeqs, n
<1>3. IsFiniteSet(1 .. n) /\ Cardinality(1 .. n) = n
  <2>1. 1 \in Int /\ n \in Int /\ (IF 1 > n THEN 0 ELSE n - 1 + 1) = n
    BY <1>1
  <2>2. QED
    BY <1>1, <2>1, FS_Interval
<1>4. w \in Injection(1 .. n, S)
  BY <1>2 DEF Injection, IsInjective
<1>5. w \in Surjection(1 .. n, S)
  BY <1>3, <1>4, FS_Injection DEF n
<1>6. w \in Seq(S) /\ DOMAIN w = 1 .. n
  BY <1>1, <1>2
<1>7. ToSet(w) = S
  BY <1>2, <1>5, <1>6 DEF Surjection, ToSet
<1>8. QED
  BY <1>2, <1>6, <1>7

\* A list is not empty when it has positions.
LEMMA NonEmpty ==
  ASSUME NEW S, NEW s \in Seq(S)
  PROVE  s # <<>> <=> DOMAIN s # {}
<1>1. Len(s) \in Nat /\ DOMAIN s = 1 .. Len(s)
  OBVIOUS
<1>2. Len(s) # 0 => 1 \in 1 .. Len(s)
  BY <1>1
<1>3. Len(s) = 0 => s = <<>>
  OBVIOUS
<1>4. DOMAIN <<>> = {}
  OBVIOUS
<1>5. QED
  BY <1>1, <1>2, <1>3, <1>4

\* A list of what becomes of the elements of another.
LEMMA ListOf ==
  ASSUME NEW S, NEW s \in Seq(S), NEW T, NEW f, IsFunction(f, DOMAIN s), \A i \in DOMAIN s : f[i] \in T
  PROVE  f \in Seq(T) /\ DOMAIN f = DOMAIN s /\ Len(f) = Len(s)
<1>1. DOMAIN s = 1 .. Len(s) /\ Len(s) \in Nat
  OBVIOUS
<1>2. f \in [1 .. Len(s) -> T]
  BY <1>1 DEF IsFunction
<1>3. QED
  BY <1>1, <1>2

\* The content of lists one after the other is the union of theirs.
LEMMA ContentOfJoined ==
  ASSUME NEW S, NEW ss \in Seq(Seq(S))
  PROVE  ContentOf(FlattenSeq(ss)) = UNION {ContentOf(ss[i]) : i \in DOMAIN ss}
<1>1. ToSet(FlattenSeq(ss)) = UNION {ToSet(ss[i]) : i \in DOMAIN ss}
  BY Flattened
<1>2. QED
  BY <1>1 DEF ContentOf

\* The content of two lists, one after the other.
LEMMA ContentOfTwo ==
  ASSUME NEW S, NEW a \in Seq(S), NEW b \in Seq(S)
  PROVE  ContentOf(a \o b) = ContentOf(a) \cup ContentOf(b)
<1>1. ToSet(a \o b) = ToSet(a) \cup ToSet(b)
  BY Concat
<1>2. QED
  BY <1>1 DEF ContentOf

\* Sorting the targets leaves the content.
LEMMA SortTargetsType ==
  ASSUME NEW e \in Record
  PROVE  /\ SortTargets(e) \in Record
         /\ SortTargets(e).targets = SortedBy(e.targets, e.targets)
         /\ \A x \in {"dnsName", "recordType", "setIdentifier", "ttl", "providerSpecific", "labels"} :
              SortTargets(e)[x] = e[x]
         /\ ToSet(SortTargets(e).targets) = ToSet(e.targets)
         /\ Says(SortTargets(e)) = Says(e)
         /\ Suited(e) => Suited(SortTargets(e))
<1> DEFINE ts == SortedBy(e.targets, e.targets)
<1>1. e.targets \in Seq(Target \cup Port) /\ \A i \in DOMAIN e.targets : e.targets[i] \in Int
  <2>1. e.targets \in Seq(Target \cup Port)
    BY DEF Record
  <2>2. Target \cup Port \subseteq Int
    BY SourcesAssumption DEF Target, Port
  <2>3. QED
    BY <2>1, <2>2
<1>2. ts \in Seq(Target \cup Port) /\ Len(ts) = Len(e.targets) /\ ToSet(ts) = ToSet(e.targets)
  BY <1>1, SortedByType
<1> HIDE DEF ts
<1>3. SortTargets(e) = [e EXCEPT !.targets = ts]
  BY DEF SortTargets, ts
<1>4. /\ SortTargets(e) \in Record
      /\ SortTargets(e).targets = ts
      /\ \A x \in {"dnsName", "recordType", "setIdentifier", "ttl", "providerSpecific", "labels"} :
           SortTargets(e)[x] = e[x]
  BY <1>2, <1>3 DEF Record
<1>5. Says(SortTargets(e)) = Says(e)
  BY <1>2, <1>4 DEF Says, Cell
<1>6. ASSUME Suited(e) PROVE Suited(SortTargets(e))
  <2>1. \A t \in ToSet(e.targets) : SuitableType(t) = e.recordType
    BY <1>6 DEF Suited, ToSet
  <2>2. \A j \in DOMAIN ts : SuitableType(ts[j]) = e.recordType
    BY <1>2, <2>1 DEF ToSet
  <2>3. ts # <<>>
    BY <1>1, <1>2, <1>6 DEF Suited
  <2>4. QED
    BY <1>4, <1>6, <2>2, <2>3 DEF Suited
<1>7. QED
  BY <1>2, <1>4, <1>5, <1>6 DEF ts

\* Sorting the targets of records leaves the content (sort.Sort at the end of sources).
LEMMA SortAllType ==
  ASSUME NEW eps \in Seq(Fit)
  PROVE  SortAll(eps) \in Seq(Fit) /\ ContentOf(SortAll(eps)) = ContentOf(eps)
<1>1. \A i \in DOMAIN eps : eps[i] \in Record /\ Suited(eps[i])
  BY DEF Fit
<1>2. \A i \in DOMAIN eps : SortTargets(eps[i]) \in Fit /\ Says(SortTargets(eps[i])) = Says(eps[i])
  BY <1>1, SortTargetsType DEF Fit
<1>3. SortAll(eps) \in Seq(Fit) /\ DOMAIN SortAll(eps) = DOMAIN eps
      /\ \A i \in DOMAIN eps : SortAll(eps)[i] = SortTargets(eps[i])
  BY <1>2 DEF SortAll
<1>4. QED
  BY <1>2, <1>3 DEF ContentOf, ToSet

-------------------------------------------------------------------------------
\* The content of what EndpointsForHostname returns.
LEMMA HostContentType ==
  ASSUME NEW host \in Name, NEW targets \in Seq(Target), NEW ttl \in Nat, NEW provider \in Nat,
         NEW id \in STRING, NEW resource \in Nat
  PROVE  ContentOf(EndpointsForHostname(host, targets, ttl, provider, id, resource))
           = HostContent(host, ToSet(targets), id)
<1> DEFINE eps == EndpointsForHostname(host, targets, ttl, provider, id, resource)
           Of(type) == {t \in ToSet(targets) : SuitableType(t) = type}
           Rec(type) == TypedRecord(host, type, OfType(targets, type), ttl, provider, id, resource)
           Three == {"A", "AAAA", "CNAME"}
<1>1. ToSet(eps) = IF TooLong(host) THEN {}
                   ELSE {Rec(type) : type \in {y \in Three : OfType(targets, y) # <<>>}}
  <2>1. ToSet(eps) = RecordsFor(host, targets, ttl, provider, id, resource)
    BY ZenonT(60), HostnameRecords
  <2>2. QED
    BY <2>1 DEF RecordsFor
<1>2. \A type : OfType(targets, type) \in Seq(Target) /\ ToSet(OfType(targets, type)) = Of(type)
  <2>1. ASSUME NEW type
        PROVE  OfType(targets, type) \in Seq(Target)
               /\ ToSet(OfType(targets, type)) = ToSet(targets) \cap Of(type)
    BY OnlyType DEF OfType
  <2>2. QED
    BY <2>1
<1>3. \A type : OfType(targets, type) # <<>> <=> \E t \in ToSet(targets) : SuitableType(t) = type
  <2>1. ASSUME NEW type, NEW s \in Seq(Target), ToSet(s) = Of(type)
        PROVE  s # <<>> <=> Of(type) # {}
    BY <2>1, NonEmpty DEF ToSet
  <2>2. QED
    BY <1>2, <2>1
<1>4. \A type : Says(Rec(type)) = <<<<host, type, id>>, Of(type)>>
  BY <1>2 DEF Says, Cell, TypedRecord
<1> HIDE DEF Rec, eps
<1>5. ASSUME TooLong(host) PROVE ContentOf(eps) = HostContent(host, ToSet(targets), id)
  BY <1>1, <1>5 DEF ContentOf, HostContent
<1>6. ASSUME ~TooLong(host) PROVE ContentOf(eps) = HostContent(host, ToSet(targets), id)
  <2>1. ContentOf(eps) = {Says(Rec(type)) : type \in {y \in Three : OfType(targets, y) # <<>>}}
    BY <1>1, <1>6 DEF ContentOf
  <2> DEFINE Y == {y \in Three : OfType(targets, y) # <<>>}
  <2>2. Y = {y \in Three : \E t \in ToSet(targets) : SuitableType(t) = y}
    BY <1>3
  <2>3. HostContent(host, ToSet(targets), id) = {<<<<host, type, id>>, Of(type)>> : type \in Y}
    BY <1>6, <2>2 DEF HostContent
  <2> HIDE DEF Y, Of
  <2>4. {<<<<host, type, id>>, Of(type)>> : type \in Y} = {Says(Rec(type)) : type \in Y}
    BY <1>4
  <2>5. QED
    BY <2>1, <2>3, <2>4 DEF Y
<1>7. QED
  BY <1>5, <1>6 DEF eps

\* All host names of a resource.
LEMMA HostsType ==
  ASSUME NEW hosts \in Seq(Name), NEW targets \in Seq(Target), NEW ann,
         ann.providerSpecific \in Nat, ann.setIdentifier \in STRING, NEW resource \in Nat
  PROVE  /\ EndpointsForHosts(hosts, targets, ann, resource) \in Seq(Fit)
         /\ ContentOf(EndpointsForHosts(hosts, targets, ann, resource))
              = UNION {HostContent(h, ToSet(targets), ann.setIdentifier) : h \in ToSet(hosts)}
<1> DEFINE Of(h) == EndpointsForHostname(h, targets, GetTTLFromAnnotations(ann),
                                         ann.providerSpecific, ann.setIdentifier, resource)
           ss == [i \in DOMAIN hosts |-> Of(hosts[i])]
<1>1. GetTTLFromAnnotations(ann) \in Nat
  BY SourcesAssumption DEF GetTTLFromAnnotations
<1>2. \A h \in Name : Of(h) \in Seq(Fit)
                      /\ ContentOf(Of(h)) = HostContent(h, ToSet(targets), ann.setIdentifier)
  <2> TAKE h \in Name
  <2>1. Of(h) \in Seq(Fit)
    BY <1>1, HostnameRecords
  <2>2. ContentOf(Of(h)) = HostContent(h, ToSet(targets), ann.setIdentifier)
    BY ZenonT(60), <1>1, HostContentType
  <2>3. QED
    BY <2>1, <2>2
<1> HIDE DEF Of
<1>3. ss \in Seq(Seq(Fit)) /\ DOMAIN ss = DOMAIN hosts
      /\ \A i \in DOMAIN hosts : ContentOf(ss[i]) = HostContent(hosts[i], ToSet(targets), ann.setIdentifier)
  <2>1. \A i \in DOMAIN hosts : hosts[i] \in Name
    OBVIOUS
  <2>2. IsFunction(ss, DOMAIN hosts) /\ \A i \in DOMAIN hosts : ss[i] = Of(hosts[i])
    BY DEF IsFunction
  <2> HIDE DEF ss
  <2>3. ss \in Seq(Seq(Fit)) /\ DOMAIN ss = DOMAIN hosts
    BY <1>2, <2>1, <2>2, ListOf
  <2>4. QED
    BY <1>2, <2>1, <2>2, <2>3
<1>4. EndpointsForHosts(hosts, targets, ann, resource) = FlattenSeq(ss)
  BY DEF EndpointsForHosts, Of
<1> HIDE DEF ss
<1>5. FlattenSeq(ss) \in Seq(Fit)
      /\ ContentOf(FlattenSeq(ss)) = UNION {ContentOf(ss[i]) : i \in DOMAIN ss}
  BY <1>3, Flattened, ContentOfJoined
<1>6. QED
  BY ZenonT(60), <1>3, <1>4, <1>5 DEF ToSet

-------------------------------------------------------------------------------
(***************************************************************************)
(* Results.                                                                *)
(***************************************************************************)
\* Either the records of a content or, if not all went well, what went wrong.
Outcome(r, well, wrong, content) ==
  IF well THEN r.state = "ok" /\ ContentOf(r.eps) = content ELSE r = wrong

\* Records, an error and a panic are results.
LEMMA Results ==
  ASSUME NEW S
  PROVE  /\ \A eps \in Seq(S) : Ok(eps) \in ResultOf(S) /\ Ok(eps).state = "ok" /\ Ok(eps).eps = eps
         /\ Failed \in ResultOf(S) /\ Failed.state = "failed" /\ Failed.eps = <<>>
         /\ Panics \in ResultOf(S) /\ Panics.state = "panics" /\ Panics.eps = <<>>
BY DEF Ok, Failed, Panics, ResultOf

\* Results joined are all their records, or one of the errors (multiSource.Endpoints).
LEMMA JoinedType ==
  ASSUME NEW S, NEW rs \in Seq(ResultOf(S))
  PROVE  /\ Joined(rs) \in ResultOf(S)
         /\ IF \A i \in DOMAIN rs : rs[i].state = "ok"
            THEN /\ Joined(rs).state = "ok"
                 /\ ToSet(Joined(rs).eps) = UNION {ToSet(rs[i].eps) : i \in DOMAIN rs}
                 /\ ContentOf(Joined(rs).eps) = UNION {ContentOf(rs[i].eps) : i \in DOMAIN rs}
            ELSE \E i \in DOMAIN rs : rs[i].state # "ok" /\ Joined(rs) = rs[i]
<1> DEFINE bad == {i \in DOMAIN rs : rs[i].state # "ok"}
           ss == [i \in DOMAIN rs |-> rs[i].eps]
<1>1. \A i \in DOMAIN rs : rs[i] \in ResultOf(S)
  OBVIOUS
<1>2. CASE bad = {}
  <2>1. Joined(rs) = Ok(FlattenSeq(ss))
    BY <1>2 DEF Joined
  <2>2. IsFunction(ss, DOMAIN rs) /\ \A i \in DOMAIN rs : ss[i] = rs[i].eps /\ ss[i] \in Seq(S)
    BY <1>1 DEF IsFunction, ResultOf
  <2> HIDE DEF ss
  <2>3. ss \in Seq(Seq(S)) /\ DOMAIN ss = DOMAIN rs
    BY <2>2, ListOf
  <2>4. /\ FlattenSeq(ss) \in Seq(S)
        /\ ToSet(FlattenSeq(ss)) = UNION {ToSet(ss[i]) : i \in DOMAIN ss}
        /\ ContentOf(FlattenSeq(ss)) = UNION {ContentOf(ss[i]) : i \in DOMAIN ss}
    BY <2>3, Flattened, ContentOfJoined
  <2>5. {ToSet(ss[i]) : i \in DOMAIN ss} = {ToSet(rs[i].eps) : i \in DOMAIN rs}
        /\ {ContentOf(ss[i]) : i \in DOMAIN ss} = {ContentOf(rs[i].eps) : i \in DOMAIN rs}
    BY <2>2, <2>3
  <2>6. Joined(rs) \in ResultOf(S) /\ Joined(rs).state = "ok" /\ Joined(rs).eps = FlattenSeq(ss)
    BY <2>1, <2>4, Results
  <2>7. \A i \in DOMAIN rs : rs[i].state = "ok"
    BY <1>2
  <2>8. QED
    BY <2>4, <2>5, <2>6, <2>7
<1>3. CASE bad # {}
  <2>1. bad \in SUBSET Nat
    OBVIOUS
  <2>2. \E m \in bad : \A k \in bad : m <= k
    BY <1>3, <2>1, LeastNumber
  <2> DEFINE m == CHOOSE i \in bad : \A j \in bad : i <= j
  <2>3. m \in bad
    BY <2>2
  <2>4. Joined(rs) = rs[m]
    BY <1>3 DEF Joined
  <2>5. QED
    BY <1>1, <2>3, <2>4
<1>4. QED
  BY <1>2, <1>3

\* The results of a source for one resource after the other, of which some fail.
LEMMA SortedResults ==
  ASSUME NEW rs \in Seq(ResultOf(Fit)), \A i \in DOMAIN rs : rs[i].state # "ok" => rs[i] = Failed
  PROVE  /\ Sort(Joined(rs)) \in ResultOf(Fit)
         /\ Outcome(Sort(Joined(rs)), \A i \in DOMAIN rs : rs[i].state = "ok", Failed,
                    UNION {ContentOf(rs[i].eps) : i \in DOMAIN rs})
<1> DEFINE r == Joined(rs)
           well == \A i \in DOMAIN rs : rs[i].state = "ok"
           C == UNION {ContentOf(rs[i].eps) : i \in DOMAIN rs}
<1>1. r \in ResultOf(Fit) /\ IF well THEN r.state = "ok" /\ ContentOf(r.eps) = C
                             ELSE r = Failed
  BY JoinedType
<1> HIDE DEF well, C, r
<1>2. r.eps \in Seq(Fit) /\ r = [state |-> r.state, eps |-> r.eps]
  BY <1>1 DEF ResultOf
<1>3. SortAll(r.eps) \in Seq(Fit) /\ ContentOf(SortAll(r.eps)) = ContentOf(r.eps)
  BY <1>2, SortAllType
<1>4. Sort(r) = [state |-> r.state, eps |-> SortAll(r.eps)]
  BY <1>2 DEF Sort
<1>5. Sort(r) \in ResultOf(Fit)
  BY <1>1, <1>3, <1>4 DEF ResultOf
<1>6. CASE well
  BY <1>1, <1>3, <1>4, <1>5, <1>6 DEF Outcome, r, well, C
<1>7. CASE ~well
  <2>1. SortAll(<<>>) = <<>>
    BY DEF SortAll
  <2>2. Sort(r) = Failed
    BY <1>1, <1>4, <1>7, <2>1 DEF Failed
  <2>3. QED
    BY <1>5, <1>7, <2>2 DEF Outcome, r, well, C
<1>8. QED
  BY <1>6, <1>7

-------------------------------------------------------------------------------
(***************************************************************************)
(* Ingresses.                                                              *)
(***************************************************************************)
LEMMA BothOfType ==
  ASSUME NEW lb \in Balancer
  PROVE  BothOf(lb) \in Seq(Target)
<1> DEFINE both == {lb.ip, lb.hostname}
<1>1. lb.ip \in Target \cup {0} /\ lb.hostname \in Target \cup {0}
  BY DEF Balancer
<1>2. <<lb.ip, lb.hostname>> \in Seq(Target \cup {0})
  BY <1>1
<1>3. BothOf(lb) \in Seq(ToSet(<<lb.ip, lb.hostname>>) \cap (both \ {0}))
  BY <1>2, OnlyType DEF BothOf
<1>4. both \ {0} \subseteq Target
  BY <1>1
<1> HIDE DEF both
<1>5. QED
  BY <1>3, <1>4

\* The targets of an ingress are targets (targetsFromIngressStatus).
LEMMA IngressTargetsType ==
  ASSUME NEW ing \in IngressResource
  PROVE  IngressTargets(ing) \in Seq(Target)
<1>1. ing.ann.target \in Seq(Target) /\ ing.status \in Seq(Balancer)
  BY DEF IngressResource, Annotations
<1> DEFINE ss == [i \in DOMAIN ing.status |-> BothOf(ing.status[i])]
<1>2. IsFunction(ss, DOMAIN ing.status) /\ \A i \in DOMAIN ing.status : ss[i] \in Seq(Target)
  BY <1>1, BothOfType DEF IsFunction
<1> HIDE DEF ss
<1>3. ss \in Seq(Seq(Target))
  BY <1>1, <1>2, ListOf
<1>4. FlattenSeq(ss) \in Seq(Target)
  BY <1>3, Flattened
<1>5. QED
  BY <1>1, <1>4 DEF IngressTargets, TargetsFromIngressStatus, ss

\* The hosts of an ingress are names (endpointsFromIngress).
LEMMA DefinedHostsType ==
  ASSUME NEW ing \in IngressResource
  PROVE  DefinedHosts(ing) \in Seq(Name) /\ AnnotatedHosts(ing) \in Seq(Name)
<1>1. ing.rules \in Seq(Name) /\ ing.tls \in Seq(Name) /\ ing.ann.hostname \in Seq(Name)
  BY DEF IngressResource, Annotations
<1> DEFINE a == IF Options.ignoreRules THEN <<>> ELSE ing.rules
           b == IF Options.ignoreTLS THEN <<>> ELSE ing.tls
<1>2. a \in Seq(Name) /\ b \in Seq(Name)
  BY <1>1
<1> HIDE DEF a, b
<1> DEFINE hosts == a \o b
<1>3. hosts \in Seq(Name)
  BY <1>2
<1>4. DefinedHosts(ing) = Only(hosts, ToSet(hosts) \ {EmptyName})
  BY DEF DefinedHosts, a, b
<1> DEFINE named == ToSet(hosts) \ {EmptyName}
<1> HIDE DEF hosts, named
<1>b. Only(hosts, named) \in Seq(Name)
  BY <1>3, OnlyType
<1>5. DefinedHosts(ing) \in Seq(Name)
  BY <1>4, <1>b DEF named
<1>6. AnnotatedHosts(ing) \in Seq(Name)
  BY <1>1 DEF AnnotatedHosts
<1>7. QED
  BY <1>5, <1>6

\* Records of a content without ports.
NoPorts(C) == \A c \in C : c[1][2] # "SRV"
Portless == {e \in Fit : e.recordType # "SRV"}

\* The cell a record speaks for has its type.
LEMMA SaysType ==
  ASSUME NEW e
  PROVE  Says(e)[1][2] = e.recordType
BY DEF Says, Cell

\* The content made of hosts has no ports.
LEMMA HostsPortless ==
  ASSUME NEW H, NEW T, NEW id
  PROVE  NoPorts(UNION {HostContent(h, T, id) : h \in H})
<1>1. \A h : NoPorts(HostContent(h, T, id))
  BY DEF HostContent, NoPorts
<1>2. QED
  BY <1>1 DEF NoPorts

\* Records whose content has no ports have none.
LEMMA PortlessList ==
  ASSUME NEW eps \in Seq(Fit), NoPorts(ContentOf(eps))
  PROVE  eps \in Seq(Portless)
<1>1. ASSUME NEW i \in DOMAIN eps PROVE eps[i] \in Portless
  <2>1. eps[i] \in Fit /\ Says(eps[i]) \in ContentOf(eps)
    BY DEF ContentOf, ToSet
  <2>2. QED
    BY <2>1, SaysType DEF NoPorts, Portless
<1>2. QED
  BY <1>1, ListOf DEF IsFunction

\* The records for some hosts of an ingress (endpointsFromIngress).
LEMMA IngressRecordsType ==
  ASSUME NEW ing \in IngressResource, NEW hosts \in Seq(Name)
  PROVE  IngressRecords(ing, hosts) \in Seq(Portless)
<1> DEFINE targets == IngressTargets(ing)
           ann == ing.ann
           eps == EndpointsForHosts(hosts, targets, ann, ing.resource)
<1>1. ann.providerSpecific \in Nat /\ ann.setIdentifier \in STRING /\ ing.resource \in Nat
  BY DEF IngressResource, Annotations
<1>2. targets \in Seq(Target)
  BY IngressTargetsType
<1> HIDE DEF targets, ann
<1>3. eps \in Seq(Fit)
      /\ ContentOf(eps) = UNION {HostContent(h, ToSet(targets), ann.setIdentifier) : h \in ToSet(hosts)}
  BY <1>1, <1>2, HostsType
<1>4. NoPorts(ContentOf(eps))
  BY <1>3, HostsPortless
<1> HIDE DEF eps
<1>5. eps \in Seq(Portless)
  BY <1>3, <1>4, PortlessList
<1>6. QED
  BY <1>5 DEF IngressRecords, eps, targets, ann

\* The dualstack label leaves records what they are (setDualstackLabel).
LEMMA DualstackType ==
  ASSUME NEW ing, NEW eps \in Seq(Portless)
  PROVE  SetDualstackLabel(ing, eps) \in Seq(Portless)
<1> DEFINE f == SetDualstackLabel(ing, eps)
<1>1. \A e \in Portless : [e EXCEPT !.labels.dualstack = TRUE] \in Portless
  BY DEF Portless, Fit, Record, Suited
<1>2. IsFunction(f, DOMAIN eps)
  BY DEF SetDualstackLabel, IsFunction
<1>a. \A i \in DOMAIN eps :
        f[i] = IF ing.ann.dualstack THEN [eps[i] EXCEPT !.labels.dualstack = TRUE] ELSE eps[i]
  BY DEF SetDualstackLabel
<1>b. \A i \in DOMAIN eps : f[i] \in Portless
  <2> HIDE DEF f
  <2> TAKE i \in DOMAIN eps
  <2>1. eps[i] \in Portless /\ [eps[i] EXCEPT !.labels.dualstack = TRUE] \in Portless
    BY <1>1
  <2>2. f[i] = eps[i] \/ f[i] = [eps[i] EXCEPT !.labels.dualstack = TRUE]
    BY <1>a
  <2>3. QED
    BY <2>1, <2>2
<1> HIDE DEF f
<1>3. QED
  BY <1>2, <1>b, ListOf DEF f

\* The records of an ingress, or an error for its template.
LEMMA IngressEndpointsType ==
  ASSUME NEW ing \in IngressResource
  PROVE  /\ IngressEndpoints(ing) \in ResultOf(Portless) /\ IngressEndpoints(ing) \in ResultOf(Fit)
         /\ IngressEndpoints(ing).state # "ok" => IngressEndpoints(ing) = Failed
<1> DEFINE own == EndpointsFromIngress(ing)
           more == IngressRecords(ing, ing.templated)
<1>1. \A hosts \in Seq(Name) : IngressRecords(ing, hosts) \in Seq(Portless)
  BY IngressRecordsType
<1>2. /\ DefinedHosts(ing) \in Seq(Name) /\ AnnotatedHosts(ing) \in Seq(Name)
      /\ DefinedHosts(ing) \o AnnotatedHosts(ing) \in Seq(Name) /\ <<>> \in Seq(Name)
  BY DefinedHostsType
<1>3. own \in Seq(Portless)
  <2> DEFINE hosts == CASE ing.ann.hostnameSource = "" -> DefinedHosts(ing) \o AnnotatedHosts(ing)
                        [] ing.ann.hostnameSource = "defined-hosts-only" -> DefinedHosts(ing)
                        [] ing.ann.hostnameSource = "annotation-only" -> AnnotatedHosts(ing)
                        [] OTHER -> <<>>
  <2>1. hosts \in Seq(Name)
    BY Zenon, <1>2
  <2>2. QED
    BY Zenon, <1>1, <2>1 DEF EndpointsFromIngress
<1>4. more \in Seq(Portless)
  BY <1>1 DEF IngressResource
<1> HIDE DEF own, more
<1>5. own \o more \in Seq(Portless)
  BY <1>3, <1>4
<1>6. \A eps \in Seq(Portless) : SetDualstackLabel(ing, eps) \in Seq(Portless)
  BY DualstackType
<1>7. \/ IngressEndpoints(ing) = Ok(SetDualstackLabel(ing, own))
      \/ IngressEndpoints(ing) = Failed
      \/ IngressEndpoints(ing) = Ok(SetDualstackLabel(ing, own \o more))
  BY DEF IngressEndpoints, own, more
<1>8. Portless \subseteq Fit
  BY DEF Portless
<1>9. ResultOf(Portless) \subseteq ResultOf(Fit)
  BY <1>8 DEF ResultOf
<1>10. QED
  BY <1>3, <1>5, <1>6, <1>7, <1>9, Results

\* The ingresses the source takes.
TakenIngresses(ings) ==
  {ing \in ings :
     /\ \/ Options.classes = {}
        \/ (IF ing.class # "" THEN ing.class ELSE ing.ann.class) \in Options.classes
     /\ Responsible(ing.ann)}

\* ingressSource.Endpoints: records of all ingresses it takes, or an error.
LEMMA IngressSourceType ==
  ASSUME NEW l \in Seq(IngressResource)
  PROVE  /\ IngressSource(l) \in ResultOf(Fit)
         /\ Outcome(IngressSource(l),
                    \A ing \in TakenIngresses(ToSet(l)) : IngressEndpoints(ing).state = "ok", Failed,
                    UNION {ContentOf(IngressEndpoints(ing).eps) : ing \in TakenIngresses(ToSet(l))})
<1> DEFINE byClass == {ing \in ToSet(l) :
                         (IF ing.class # "" THEN ing.class ELSE ing.ann.class) \in Options.classes}
           mine == {ing \in ToSet(l) : Responsible(ing.ann)}
           filtered == FilterByIngressClass(l)
           chosen == Only(filtered, mine)
           rs == [i \in DOMAIN chosen |-> IngressEndpoints(chosen[i])]
           S == TakenIngresses(ToSet(l))
<1>1. filtered \in Seq(IngressResource)
      /\ ToSet(filtered) = IF Options.classes = {} THEN ToSet(l) ELSE ToSet(l) \cap byClass
  BY Zenon, OnlyType DEF FilterByIngressClass
<1> HIDE DEF filtered
<1>2. chosen \in Seq(IngressResource) /\ ToSet(chosen) = ToSet(filtered) \cap mine
  BY ZenonT(60), <1>1, OnlyType
<1>3. ToSet(chosen) = S
  BY Zenon, <1>1, <1>2 DEF TakenIngresses
<1> HIDE DEF chosen, S
<1>4. S = {chosen[i] : i \in DOMAIN chosen}
  BY <1>3 DEF ToSet
<1>5. IsFunction(rs, DOMAIN chosen) /\ \A i \in DOMAIN chosen : rs[i] = IngressEndpoints(chosen[i])
  BY DEF IsFunction
<1>6. IngressSource(l) = Sort(Joined(rs))
  BY DEF IngressSource, chosen, filtered
<1> HIDE DEF rs
<1>7. \A i \in DOMAIN chosen : rs[i] \in ResultOf(Fit) /\ (rs[i].state # "ok" => rs[i] = Failed)
  BY <1>2, <1>5, IngressEndpointsType
<1>8. rs \in Seq(ResultOf(Fit)) /\ DOMAIN rs = DOMAIN chosen
  BY <1>2, <1>5, <1>7, ListOf
<1>9. /\ Sort(Joined(rs)) \in ResultOf(Fit)
      /\ Outcome(Sort(Joined(rs)), \A i \in DOMAIN rs : rs[i].state = "ok", Failed,
                 UNION {ContentOf(rs[i].eps) : i \in DOMAIN rs})
  BY <1>7, <1>8, SortedResults
<1>10. (\A i \in DOMAIN rs : rs[i].state = "ok") <=> \A ing \in S : IngressEndpoints(ing).state = "ok"
  BY <1>4, <1>5, <1>8
<1>11. {ContentOf(rs[i].eps) : i \in DOMAIN rs} = {ContentOf(IngressEndpoints(ing).eps) : ing \in S}
  BY <1>4, <1>5, <1>8
<1>12. QED
  BY <1>6, <1>9, <1>10, <1>11 DEF Outcome, S

-------------------------------------------------------------------------------
(***************************************************************************)
(* Gateways of the Gateway API.                                            *)
(***************************************************************************)
LEMMA FiniteList ==
  ASSUME NEW T, NEW s \in Seq(T)
  PROVE  IsFiniteSet(ToSet(s))
<1> DEFINE n == Len(s)
<1>1. n \in Nat /\ DOMAIN s = 1 .. n /\ s \in [1 .. n -> T]
  OBVIOUS
<1> HIDE DEF n
<1>2. s \in Surjection(1 .. n, ToSet(s))
  BY <1>1 DEF Surjection, ToSet
<1>3. IsFiniteSet(1 .. n)
  BY <1>1, FS_Interval
<1>4. QED
  BY <1>2, <1>3, FS_Surjection

GatewayContent(gw) ==
  UNION {HostContent(h, ToSet(GatewayAddresses(gw)), "") : h \in ResolveGateway(gw)}

\* uniqueTargets keeps the set of targets.
LEMMA UniqueTargetsType ==
  ASSUME NEW targets \in Seq(Target)
  PROVE  UniqueTargets(targets) \in Seq(Target) /\ ToSet(UniqueTargets(targets)) = ToSet(targets)
<1> DEFINE s == Deduped(targets)
<1>1. s \in Seq(Target) /\ ToSet(s) = ToSet(targets)
  BY DedupedType
<1> HIDE DEF s
<1>2. Target \subseteq Int
  BY SourcesAssumption DEF Target
<1>a. \A i \in DOMAIN s : s[i] \in Target
  BY <1>1
<1>3. \A i \in DOMAIN s : s[i] \in Int
  BY <1>2, <1>a
<1>4. SortedBy(s, s) \in Seq(Target) /\ ToSet(SortedBy(s, s)) = ToSet(s)
  BY <1>1, <1>3, SortedByType
<1>5. QED
  BY <1>1, <1>4 DEF UniqueTargets, s

\* The records of one gateway, in whatever order its hosts are walked.
LEMMA GatewayEndpointsType ==
  ASSUME NEW gw \in GatewayResource, NEW eps \in GatewayEndpoints(gw)
  PROVE  eps \in Seq(Fit) /\ ContentOf(eps) = GatewayContent(gw)
<1> DEFINE H == ResolveGateway(gw)
           ts == UniqueTargets(GatewayAddresses(gw))
<1>1. gw.listeners \in Seq(Name) /\ gw.addresses \in Seq(Target) /\ gw.assigned \in Seq(Target)
      /\ gw.resource \in Nat
  BY DEF GatewayResource
<1>2. ts \in Seq(Target) /\ ToSet(ts) = ToSet(GatewayAddresses(gw))
  BY <1>1, UniqueTargetsType DEF GatewayAddresses
<1>3. H \subseteq Name /\ IsFiniteSet(H)
  <2>1. IsFiniteSet(ToSet(gw.listeners)) /\ ToSet(gw.listeners) \subseteq Name
    BY <1>1, FiniteList DEF ToSet
  <2>2. H \subseteq ToSet(gw.listeners)
    BY DEF ResolveGateway
  <2>3. QED
    BY <2>1, <2>2, FS_Subset
<1> HIDE DEF ts, H
<1> DEFINE Of(h) == EndpointsForHostname(h, ts, 0, 0, "", gw.resource)
           C(h) == HostContent(h, ToSet(GatewayAddresses(gw)), "")
<1>4. PICK hosts \in Walks(H) : eps = FlattenSeq([i \in DOMAIN hosts |-> Of(hosts[i])])
  BY Zenon DEF GatewayEndpoints, ts, H
<1>5. hosts \in Seq(H) /\ ToSet(hosts) = H
  BY <1>3, WalksType
<1> DEFINE ss == [i \in DOMAIN hosts |-> Of(hosts[i])]
<1>6. \A h \in H : Of(h) \in Seq(Fit) /\ ContentOf(Of(h)) = C(h)
  <2> TAKE h \in H
  <2>1. h \in Name
    BY <1>3
  <2>a. 0 \in Nat /\ "" \in STRING
    BY Zenon, LiteralsAreStrings
  <2>2. Of(h) \in Seq(Fit)
    BY Zenon, <1>1, <1>2, <2>1, <2>a, HostnameRecords
  <2>b. \A i \in STRING : \A n, r \in Nat :
          ContentOf(EndpointsForHostname(h, ts, n, n, i, r)) = HostContent(h, ToSet(ts), i)
    BY <1>2, <2>1, HostContentType
  <2>3. ContentOf(Of(h)) = HostContent(h, ToSet(ts), "")
    BY <1>1, <2>a, <2>b, Zenon
  <2>4. QED
    BY Zenon, <1>2, <2>2, <2>3
<1>7. IsFunction(ss, DOMAIN hosts) /\ \A i \in DOMAIN hosts : ss[i] = Of(hosts[i])
  BY DEF IsFunction
<1> HIDE DEF Of, C, ss
<1>8. ss \in Seq(Seq(Fit)) /\ DOMAIN ss = DOMAIN hosts
  <2>1. \A i \in DOMAIN hosts : hosts[i] \in H
    BY <1>5
  <2>2. \A i \in DOMAIN hosts : ss[i] \in Seq(Fit)
    BY <1>6, <1>7, <2>1
  <2>3. QED
    BY <1>5, <1>7, <2>2, ListOf
<1>9. FlattenSeq(ss) \in Seq(Fit)
      /\ ContentOf(FlattenSeq(ss)) = UNION {ContentOf(ss[i]) : i \in DOMAIN ss}
  BY <1>8, Flattened, ContentOfJoined
<1>10. H = {hosts[i] : i \in DOMAIN hosts}
  BY <1>5 DEF ToSet
<1>11. {ContentOf(ss[i]) : i \in DOMAIN ss} = {C(h) : h \in H}
  BY <1>5, <1>6, <1>7, <1>8, <1>10
<1>12. GatewayContent(gw) = UNION {C(h) : h \in H}
  BY DEF GatewayContent, C, H
<1>13. QED
  BY <1>4, <1>9, <1>11, <1>12 DEF ss

WithGateway(v, gw) == {a \o b : a \in v, b \in GatewayEndpoints(gw)}

\* What joins the lists before with those of one more gateway.
LEMMA WithGatewayElements ==
  ASSUME NEW v, NEW gw
  PROVE  \A x : x \in WithGateway(v, gw) <=> \E a \in v : \E b \in GatewayEndpoints(gw) : x = a \o b
<1> DEFINE G == GatewayEndpoints(gw)
<1>1. WithGateway(v, gw) = {a \o b : a \in v, b \in G}
  BY DEF WithGateway
<1> HIDE DEF G
<1>2. \A x : x \in {a \o b : a \in v, b \in G} <=> \E a \in v : \E b \in G : x = a \o b
  OBVIOUS
<1>3. QED
  BY <1>1, <1>2 DEF G

GatewaysUpTo(gws) ==
  CHOOSE upTo : upTo = [n \in 0 .. Len(gws) |->
    IF n = 0 THEN {<<>>} ELSE WithGateway(upTo[n - 1], gws[n])]

\* The recursion over gateways that GatewaySource is defined by.
LEMMA GatewaysSteps ==
  ASSUME NEW gws \in Seq(GatewayResource)
  PROVE  /\ GatewaySource(gws) = {Ok(eps) : eps \in GatewaysUpTo(gws)[Len(gws)]}
         /\ GatewaysUpTo(gws)[0] = {<<>>}
         /\ \A n \in 1 .. Len(gws) :
              GatewaysUpTo(gws)[n] = WithGateway(GatewaysUpTo(gws)[n - 1], gws[n])
<1> DEFINE N == Len(gws)
           V == SUBSET Seq(Fit)
           step == [n \in 1 .. N |-> [v \in V |-> WithGateway(v, gws[n])]]
           U == GatewaysUpTo(gws)
<1>1. N \in Nat /\ 0 \in 0 .. N /\ \A n \in 1 .. N : n \in 0 .. N /\ n - 1 \in 0 .. N /\ n # 0
  OBVIOUS
<1>2. \A n \in 1 .. N : \A v \in V : WithGateway(v, gws[n]) \in V
  <2> TAKE n \in 1 .. N
  <2> TAKE v \in V
  <2>1. gws[n] \in GatewayResource
    OBVIOUS
  <2>2. \A b \in GatewayEndpoints(gws[n]) : b \in Seq(Fit)
    BY <2>1, GatewayEndpointsType
  <2>3. \A a \in Seq(Fit) : \A b \in Seq(Fit) : a \o b \in Seq(Fit)
    OBVIOUS
  <2>4. \A x \in WithGateway(v, gws[n]) : x \in Seq(Fit)
    <3> TAKE x \in WithGateway(v, gws[n])
    <3>1. PICK a \in v : \E b \in GatewayEndpoints(gws[n]) : x = a \o b
      BY SMTT(40), WithGatewayElements
    <3>2. a \in Seq(Fit)
      OBVIOUS
    <3>3. QED
      BY <2>2, <2>3, <3>1, <3>2
  <2>5. QED
    BY <2>4
<1>3. \A n \in 1 .. N : \A v \in V : step[n][v] = WithGateway(v, gws[n])
  OBVIOUS
<1>4. {<<>>} \in V
  OBVIOUS
<1> HIDE DEF step, V
<1>5. Keeps(step, N, V)
  BY <1>2, <1>3 DEF Keeps
<1>6. PICK f \in [0 .. N -> V] : Follows(f, N, {<<>>}, step)
  BY <1>1, <1>4, <1>5, Recursion
<1>7. \A n \in 1 .. N : f[n] = WithGateway(f[n - 1], gws[n])
  <2> TAKE n \in 1 .. N
  <2>1. f[n - 1] \in V
    BY <1>1, <1>6
  <2>2. f[n] = step[n][f[n - 1]]
    BY <1>6 DEF Follows
  <2>3. QED
    BY <1>3, <2>1, <2>2
<1>8. f = [n \in 0 .. N |-> IF n = 0 THEN {<<>>} ELSE WithGateway(f[n - 1], gws[n])]
  <2>1. \A n \in 0 .. N : f[n] = IF n = 0 THEN {<<>>} ELSE WithGateway(f[n - 1], gws[n])
    <3>1. f[0] = {<<>>}
      BY <1>6 DEF Follows
    <3>2. \A n \in 0 .. N : n # 0 => n \in 1 .. N
      BY <1>1
    <3>3. QED
      BY <1>7, <3>1, <3>2
  <2>2. f = [n \in 0 .. N |-> f[n]]
    BY <1>6
  <2>3. QED
    BY <2>1, <2>2
<1>9. U = [n \in 0 .. N |-> IF n = 0 THEN {<<>>} ELSE WithGateway(U[n - 1], gws[n])]
  BY <1>8 DEF GatewaysUpTo
<1>10. GatewaySource(gws) = {Ok(eps) : eps \in U[N]}
  BY DEF GatewaySource, GatewaysUpTo, WithGateway
<1> HIDE DEF U
<1>11. U[0] = {<<>>} /\ \A n \in 1 .. N : U[n] = WithGateway(U[n - 1], gws[n])
  BY <1>1, <1>9
<1>12. QED
  BY <1>10, <1>11 DEF U

\* gatewayRouteSource.Endpoints: records of all gateways, in any order of maps.
LEMMA GatewaySourceType ==
  ASSUME NEW gws \in Seq(GatewayResource), NEW r \in GatewaySource(gws)
  PROVE  /\ r \in ResultOf(Fit)
         /\ Outcome(r, TRUE, Failed, UNION {GatewayContent(gw) : gw \in ToSet(gws)})
<1> DEFINE N == Len(gws)
           U == GatewaysUpTo(gws)
           C(n) == UNION {GatewayContent(gws[i]) : i \in 1 .. n}
           T == {n \in 0 .. N : \A eps \in U[n] : eps \in Seq(Fit) /\ ContentOf(eps) = C(n)}
<1>1. N \in Nat /\ DOMAIN gws = 1 .. N
      /\ (\A n \in 1 .. N : n \in 0 .. N /\ n - 1 \in 0 .. N /\ gws[n] \in GatewayResource
                            /\ 1 .. n = 1 .. n - 1 \cup {n})
      /\ 1 .. 0 = {}
  OBVIOUS
<1>2. GatewaySource(gws) = {Ok(eps) : eps \in U[N]} /\ U[0] = {<<>>}
      /\ \A n \in 1 .. N : U[n] = WithGateway(U[n - 1], gws[n])
  BY GatewaysSteps
<1> HIDE DEF U
<1>3. 0 \in T
  <2>1. C(0) = {}
    BY <1>1
  <2>2. <<>> \in Seq(Fit) /\ ContentOf(<<>>) = {}
    BY DEF ContentOf, ToSet
  <2> HIDE DEF C
  <2>3. \A eps \in U[0] : eps \in Seq(Fit) /\ ContentOf(eps) = C(0)
    BY <1>2, <2>1, <2>2
  <2>4. 0 \in 0 .. N
    BY <1>1
  <2>5. QED
    BY <2>3, <2>4
<1>4. ASSUME NEW n \in 1 .. N, n - 1 \in T PROVE n \in T
  <2>1. C(n) = C(n - 1) \cup GatewayContent(gws[n])
    BY <1>1
  <2> HIDE DEF C
  <2>2. ASSUME NEW a \in U[n - 1], NEW b \in GatewayEndpoints(gws[n])
        PROVE  a \o b \in Seq(Fit) /\ ContentOf(a \o b) = C(n)
    <3>1. a \in Seq(Fit) /\ ContentOf(a) = C(n - 1)
      BY <1>4
    <3>2. b \in Seq(Fit) /\ ContentOf(b) = GatewayContent(gws[n])
      BY <1>1, GatewayEndpointsType
    <3>3. a \o b \in Seq(Fit) /\ ContentOf(a \o b) = ContentOf(a) \cup ContentOf(b)
      BY <3>1, <3>2, ContentOfTwo
    <3>4. QED
      BY <2>1, <3>1, <3>2, <3>3
  <2>3. U[n] = WithGateway(U[n - 1], gws[n])
    BY <1>2
  <2>4. \A eps \in U[n] : eps \in Seq(Fit) /\ ContentOf(eps) = C(n)
    <3> TAKE eps \in U[n]
    <3>1. PICK a \in U[n - 1], b \in GatewayEndpoints(gws[n]) : eps = a \o b
      BY <2>3 DEF WithGateway
    <3>2. QED
      BY <2>2, <3>1
  <2>5. n \in 0 .. N
    BY <1>1
  <2>6. QED
    BY <2>4, <2>5
<1>5. N \in T
  <2> HIDE DEF T
  <2>1. 0 .. N \subseteq T
    BY <1>1, <1>3, <1>4, Upward
  <2>2. QED
    BY <1>1, <2>1
<1>6. PICK eps \in U[N] : r = Ok(eps)
  BY <1>2
<1>7. eps \in Seq(Fit) /\ ContentOf(eps) = C(N)
  BY <1>5
<1>8. C(N) = UNION {GatewayContent(gw) : gw \in ToSet(gws)}
  BY <1>1 DEF ToSet
<1> HIDE DEF C
<1>9. QED
  BY <1>6, <1>7, <1>8, Results DEF Outcome

-------------------------------------------------------------------------------
(***************************************************************************)
(* Gateways of Istio.                                                      *)
(***************************************************************************)
LEMMA BalancersType ==
  ASSUME NEW status \in Seq(Balancer)
  PROVE  TargetsOfBalancers(status) \in Seq(Target)
<1> DEFINE ss == [i \in DOMAIN status |-> OneOf(status[i])]
<1>1. \A lb \in Balancer : OneOf(lb) \in Seq(Target)
  BY DEF OneOf, Balancer
<1>2. \A i \in DOMAIN status : status[i] \in Balancer
  OBVIOUS
<1>3. IsFunction(ss, DOMAIN status) /\ \A i \in DOMAIN status : ss[i] \in Seq(Target)
  BY <1>1, <1>2 DEF IsFunction
<1> HIDE DEF ss
<1>4. ss \in Seq(Seq(Target))
  BY <1>3, ListOf
<1>5. QED
  BY <1>4, Flattened DEF TargetsOfBalancers, ss

\* The targets of a service are targets (targetsFromGateway).
LEMMA ServiceTargetsType ==
  ASSUME NEW svc \in ServiceResource
  PROVE  ServiceTargets(svc) \in Seq(Target)
<1>1. svc.externalIPs \in Seq(Target) /\ svc.status \in Seq(Balancer)
  BY DEF ServiceResource
<1>2. QED
  BY <1>1, BalancersType DEF ServiceTargets

\* The hosts of an Istio gateway are names (hostNamesFromGateway).
LEMMA IstioHostsType ==
  ASSUME NEW gw \in IstioGatewayResource
  PROVE  IstioHosts(gw) \in Seq(Name)
<1> DEFINE wanted == {h \in ToSet(gw.hosts) : h # [ns |-> "", name |-> EmptyName] /\ h.name # Star}
           Entry == [ns : STRING, name : Name]
           named == Only(gw.hosts, wanted)
           names == [i \in DOMAIN named |-> named[i].name]
           more == IF Options.ignoreHostname THEN <<>> ELSE gw.ann.hostname
<1>1. gw.hosts \in Seq(Entry) /\ gw.ann.hostname \in Seq(Name) /\ gw.templated \in Seq(Name)
  BY DEF IstioGatewayResource, Annotations
<1>2. HostNamesFromGateway(gw) = names \o more
  BY DEF HostNamesFromGateway
<1>3. more \in Seq(Name)
  BY <1>1
<1> HIDE DEF wanted, more, Entry
<1>4. named \in Seq(Entry)
  BY <1>1, OnlyType
<1> HIDE DEF named
<1>a. \A i \in DOMAIN named : named[i] \in Entry
  BY <1>4
<1>5. IsFunction(names, DOMAIN named) /\ \A i \in DOMAIN named : names[i] \in Name
  BY <1>a DEF IsFunction, Entry
<1> HIDE DEF names
<1>6. names \in Seq(Name)
  BY <1>4, <1>5, ListOf
<1>7. HostNamesFromGateway(gw) \in Seq(Name)
  BY <1>2, <1>3, <1>6
<1>8. QED
  BY <1>1, <1>7 DEF IstioHosts

NamedIngresses(gw, ings) ==
  {ing \in ings : <<ing.ns, ing.name>> = ParseIngress(gw.ann.ingress, gw.ns)}

FindsTargets(gw, ings) ==
  gw.ann.target # <<>> \/ gw.ann.ingress = <<>> \/ NamedIngresses(gw, ings) # {}

\* The targets of a gateway, given a set of services.
TargetSet(gw, svcs, ings) ==
  IF gw.ann.target # <<>> THEN ToSet(gw.ann.target)
  ELSE IF gw.ann.ingress # <<>>
       THEN ToSet(TargetsOfBalancers((CHOOSE ing \in NamedIngresses(gw, ings) : TRUE).status))
  ELSE UNION {ToSet(ServiceTargets(s)) :
                s \in {t \in svcs : GatewaySelectorMatchesServiceSelector(gw.selector, t.selector)}}

\* targetsFromGateway: targets, or an error when the named ingress is gone.
LEMMA TargetsFromGatewayType ==
  ASSUME NEW gw \in IstioGatewayResource, NEW svcs \in Seq(ServiceResource),
         NEW ings \in SUBSET IngressResource
  PROVE  IF FindsTargets(gw, ings)
         THEN /\ TargetsFromGateway(gw, svcs, ings).state = "ok"
              /\ TargetsFromGateway(gw, svcs, ings).eps \in Seq(Target)
              /\ ToSet(TargetsFromGateway(gw, svcs, ings).eps) = TargetSet(gw, ToSet(svcs), ings)
         ELSE TargetsFromGateway(gw, svcs, ings) = Failed
<1> DEFINE r == TargetsFromGateway(gw, svcs, ings)
<1>1. gw.ann.target \in Seq(Target)
  BY DEF IstioGatewayResource, Annotations
<1>2. CASE gw.ann.target # <<>>
  <2>1. r = Ok(gw.ann.target)
    BY <1>2 DEF TargetsFromGateway
  <2>2. QED
    BY <1>1, <1>2, <2>1 DEF Ok, FindsTargets, TargetSet
<1>3. CASE gw.ann.target = <<>> /\ gw.ann.ingress # <<>>
  <2> DEFINE named == NamedIngresses(gw, ings)
             ts == TargetsOfBalancers((CHOOSE ing \in named : TRUE).status)
  <2>1. r = IF named = {} THEN Failed ELSE Ok(ts)
    BY <1>3 DEF TargetsFromGateway, TargetsFromIngress, NamedIngresses
  <2>2. CASE named = {}
    BY <1>3, <2>1, <2>2 DEF FindsTargets
  <2>3. CASE named # {}
    <3>1. (CHOOSE ing \in named : TRUE) \in IngressResource
      <4>1. (CHOOSE ing \in named : TRUE) \in named
        BY <2>3
      <4>2. named \subseteq ings
        BY DEF NamedIngresses
      <4>3. QED
        BY <4>1, <4>2
    <3>2. ts \in Seq(Target)
      <4>1. (CHOOSE ing \in named : TRUE).status \in Seq(Balancer)
        BY <3>1 DEF IngressResource
      <4>2. QED
        BY <4>1, BalancersType
    <3>3. TargetSet(gw, ToSet(svcs), ings) = ToSet(ts)
      BY <1>3 DEF TargetSet
    <3>4. r.state = "ok" /\ r.eps = ts
      BY <2>1, <2>3 DEF Ok
    <3>5. FindsTargets(gw, ings)
      BY <2>3 DEF FindsTargets
    <3>6. QED
      BY <3>2, <3>3, <3>4, <3>5
  <2>4. QED
    BY <2>2, <2>3
<1>4. CASE gw.ann.target = <<>> /\ gw.ann.ingress = <<>>
  <2> DEFINE Fitting(S) == {t \in S : GatewaySelectorMatchesServiceSelector(gw.selector, t.selector)}
             matching == Only(svcs, Fitting(ToSet(svcs)))
             ss == [i \in DOMAIN matching |-> ServiceTargets(matching[i])]
  <2>1. r = Ok(FlattenSeq(ss))
    BY <1>4 DEF TargetsFromGateway
  <2>2. TargetSet(gw, ToSet(svcs), ings) = UNION {ToSet(ServiceTargets(s)) : s \in Fitting(ToSet(svcs))}
    BY <1>4 DEF TargetSet
  <2>3. Fitting(ToSet(svcs)) \subseteq ToSet(svcs)
    OBVIOUS
  <2> HIDE DEF Fitting
  <2>4. matching \in Seq(ServiceResource) /\ ToSet(matching) = Fitting(ToSet(svcs))
    BY <2>3, OnlyThose
  <2> HIDE DEF matching
  <2>5. IsFunction(ss, DOMAIN matching)
        /\ \A i \in DOMAIN matching : ss[i] = ServiceTargets(matching[i]) /\ ss[i] \in Seq(Target)
    <3>1. \A i \in DOMAIN matching : matching[i] \in ServiceResource
      BY <2>4
    <3>2. QED
      BY <3>1, ServiceTargetsType DEF IsFunction
  <2> HIDE DEF ss
  <2>6. ss \in Seq(Seq(Target)) /\ DOMAIN ss = DOMAIN matching
    BY <2>4, <2>5, ListOf
  <2>7. FlattenSeq(ss) \in Seq(Target)
        /\ ToSet(FlattenSeq(ss)) = UNION {ToSet(ss[i]) : i \in DOMAIN ss}
    BY <2>6, Flattened
  <2>8. {ToSet(ss[i]) : i \in DOMAIN ss} = {ToSet(ServiceTargets(s)) : s \in Fitting(ToSet(svcs))}
    <3>1. Fitting(ToSet(svcs)) = {matching[i] : i \in DOMAIN matching}
      BY <2>4 DEF ToSet
    <3>2. QED
      BY <2>5, <2>6, <3>1
  <2>9. r.state = "ok" /\ r.eps = FlattenSeq(ss)
    BY <2>1 DEF Ok
  <2>10. FindsTargets(gw, ings)
    BY <1>4 DEF FindsTargets
  <2>11. QED
    BY <2>2, <2>7, <2>8, <2>9, <2>10
<1>5. QED
  BY <1>2, <1>3, <1>4

IstioWell(gw, ings) ==
  /\ ~(UsesTemplate(HostNamesFromGateway(gw)) /\ gw.templated = <<>>)
  /\ IstioHosts(gw) = <<>> \/ FindsTargets(gw, ings)

IstioContent(gw, svcs, ings) ==
  UNION {HostContent(h, TargetSet(gw, svcs, ings), gw.ann.setIdentifier) : h \in ToSet(IstioHosts(gw))}

\* The records of an Istio gateway, or an error.
LEMMA IstioEndpointsType ==
  ASSUME NEW gw \in IstioGatewayResource, NEW svcs \in Seq(ServiceResource),
         NEW ings \in SUBSET IngressResource
  PROVE  /\ IstioGatewayEndpoints(gw, svcs, ings) \in ResultOf(Fit)
         /\ Outcome(IstioGatewayEndpoints(gw, svcs, ings), IstioWell(gw, ings), Failed,
                    IstioContent(gw, ToSet(svcs), ings))
<1> DEFINE targets == TargetsFromGateway(gw, svcs, ings)
           hosts == IstioHosts(gw)
           eps == EndpointsForHosts(hosts, targets.eps, gw.ann, gw.resource)
           out == UsesTemplate(HostNamesFromGateway(gw)) /\ gw.templated = <<>>
           r == IstioGatewayEndpoints(gw, svcs, ings)
           C == IstioContent(gw, ToSet(svcs), ings)
           well == IstioWell(gw, ings)
<1>1. /\ gw.ann.providerSpecific \in Nat /\ gw.ann.setIdentifier \in STRING /\ gw.resource \in Nat
      /\ hosts \in Seq(Name)
  BY IstioHostsType DEF IstioGatewayResource, Annotations
<1>2. IF FindsTargets(gw, ings)
      THEN /\ targets.state = "ok" /\ targets.eps \in Seq(Target)
           /\ ToSet(targets.eps) = TargetSet(gw, ToSet(svcs), ings)
      ELSE targets = Failed
  BY TargetsFromGatewayType
<1>3. r = IF out THEN Failed ELSE IF hosts = <<>> THEN Ok(<<>>)
          ELSE IF targets.state # "ok" THEN Failed ELSE Ok(eps)
  BY DEF IstioGatewayEndpoints
<1>4. well <=> ~out /\ (hosts = <<>> \/ FindsTargets(gw, ings))
  BY DEF IstioWell
<1>5. C = UNION {HostContent(h, TargetSet(gw, ToSet(svcs), ings), gw.ann.setIdentifier) : h \in ToSet(hosts)}
  BY DEF IstioContent
<1>6. <<>> \in Seq(Fit) /\ ContentOf(<<>>) = {} /\ ToSet(<<>>) = {}
  BY DEF ContentOf, ToSet
<1> HIDE DEF r, C, well, out, targets, hosts
<1>7. ASSUME FindsTargets(gw, ings)
      PROVE  /\ eps \in Seq(Fit)
             /\ ContentOf(eps) = UNION {HostContent(h, ToSet(targets.eps), gw.ann.setIdentifier) : h \in ToSet(hosts)}
  <2>1. targets.eps \in Seq(Target)
    BY <1>2, <1>7
  <2>2. QED
    BY <1>1, <2>1, HostsType
<1> HIDE DEF eps
<1>8. CASE ~well
  <2>1. r = Failed
    BY <1>2, <1>3, <1>4, <1>8, Results
  <2>2. QED
    BY <1>8, <2>1, Results DEF Outcome, r, well
<1>9. CASE well /\ hosts = <<>>
  <2>1. r = Ok(<<>>) /\ C = {}
    BY <1>3, <1>4, <1>5, <1>6, <1>9
  <2>2. r \in ResultOf(Fit) /\ r.state = "ok" /\ ContentOf(r.eps) = C
    BY <1>6, <2>1, Results
  <2>3. QED
    BY <1>9, <2>2 DEF Outcome, r, C, well
<1>10. CASE well /\ hosts # <<>>
  <2>1. r = Ok(eps) /\ FindsTargets(gw, ings)
    BY <1>2, <1>3, <1>4, <1>10
  <2>2. eps \in Seq(Fit) /\ ContentOf(eps) = C
    BY <1>2, <1>5, <1>7, <2>1
  <2>3. r \in ResultOf(Fit) /\ r.state = "ok" /\ ContentOf(r.eps) = C
    BY <2>1, <2>2, Results
  <2>4. QED
    BY <1>10, <2>3 DEF Outcome, r, C, well
<1>11. QED
  BY <1>8, <1>9, <1>10

\* gatewaySource.Endpoints: records of all gateways it takes, or an error.
LEMMA IstioSourceType ==
  ASSUME NEW l \in Seq(IstioGatewayResource), NEW svcs \in Seq(ServiceResource),
         NEW ings \in SUBSET IngressResource
  PROVE  /\ IstioGatewaySource(l, svcs, ings) \in ResultOf(Fit)
         /\ Outcome(IstioGatewaySource(l, svcs, ings),
                    \A gw \in {g \in ToSet(l) : Responsible(g.ann)} : IstioWell(gw, ings), Failed,
                    UNION {IstioContent(gw, ToSet(svcs), ings) :
                             gw \in {g \in ToSet(l) : Responsible(g.ann)}})
<1> DEFINE S == {g \in ToSet(l) : Responsible(g.ann)}
           chosen == Only(l, S)
           rs == [i \in DOMAIN chosen |-> IstioGatewayEndpoints(chosen[i], svcs, ings)]
<1>1. S \subseteq ToSet(l)
  OBVIOUS
<1>2. IstioGatewaySource(l, svcs, ings) = Sort(Joined(rs))
  BY DEF IstioGatewaySource
<1> HIDE DEF S
<1>3. chosen \in Seq(IstioGatewayResource) /\ ToSet(chosen) = S
  BY <1>1, OnlyThose
<1> HIDE DEF chosen
<1>4. S = {chosen[i] : i \in DOMAIN chosen} /\ \A i \in DOMAIN chosen : chosen[i] \in IstioGatewayResource
  BY <1>3 DEF ToSet
<1>5. IsFunction(rs, DOMAIN chosen)
      /\ \A i \in DOMAIN chosen : rs[i] = IstioGatewayEndpoints(chosen[i], svcs, ings)
  BY DEF IsFunction
<1> HIDE DEF rs
<1>6. \A i \in DOMAIN chosen :
        rs[i] \in ResultOf(Fit)
        /\ Outcome(rs[i], IstioWell(chosen[i], ings), Failed, IstioContent(chosen[i], ToSet(svcs), ings))
  BY <1>4, <1>5, IstioEndpointsType
<1>7. \A i \in DOMAIN chosen :
        /\ rs[i].state # "ok" => rs[i] = Failed
        /\ rs[i].state = "ok" <=> IstioWell(chosen[i], ings)
        /\ rs[i].state = "ok" => ContentOf(rs[i].eps) = IstioContent(chosen[i], ToSet(svcs), ings)
  BY <1>6, Results DEF Outcome
<1>8. rs \in Seq(ResultOf(Fit)) /\ DOMAIN rs = DOMAIN chosen
  BY <1>3, <1>5, <1>6, ListOf
<1>9. /\ Sort(Joined(rs)) \in ResultOf(Fit)
      /\ Outcome(Sort(Joined(rs)), \A i \in DOMAIN rs : rs[i].state = "ok", Failed,
                 UNION {ContentOf(rs[i].eps) : i \in DOMAIN rs})
  BY <1>7, <1>8, SortedResults
<1>10. (\A i \in DOMAIN rs : rs[i].state = "ok") <=> \A gw \in S : IstioWell(gw, ings)
  BY <1>4, <1>7, <1>8
<1>11. (\A i \in DOMAIN rs : rs[i].state = "ok")
       => {ContentOf(rs[i].eps) : i \in DOMAIN rs} = {IstioContent(gw, ToSet(svcs), ings) : gw \in S}
  BY <1>4, <1>7, <1>8
<1>12. QED
  BY <1>2, <1>9, <1>10, <1>11 DEF Outcome, S

-------------------------------------------------------------------------------
(***************************************************************************)
(* Service entries.                                                        *)
(***************************************************************************)
ServiceEntryHosts(se) == ToSet(se.hosts) \ {EmptyName, Star}

ServiceEntryContent(se) ==
  UNION {HostContent(h, ToSet(se.addresses), "") : h \in ServiceEntryHosts(se)}

\* The records of a service entry (dnsRecordsFromServiceEntry).
LEMMA ServiceEntryType ==
  ASSUME NEW se \in ServiceEntryResource
  PROVE  /\ DNSRecordsFromServiceEntry(se) \in Seq(Fit)
         /\ ContentOf(DNSRecordsFromServiceEntry(se)) = ServiceEntryContent(se)
<1> DEFINE ann == [NoAnnotations EXCEPT !.ttl = se.ann.ttl]
           hosts == Only(se.hosts, ServiceEntryHosts(se))
<1>1. se.hosts \in Seq(Name) /\ se.addresses \in Seq(Target) /\ se.resource \in Nat
  BY DEF ServiceEntryResource
<1>2. ann.setIdentifier = ""
  BY DEF NoAnnotations
<1>c. ann.providerSpecific = 0
  BY DEF NoAnnotations
<1>3. ann.providerSpecific \in Nat /\ ann.setIdentifier \in STRING
  <2>1. "" \in STRING
    BY Zenon, LiteralsAreStrings
  <2> HIDE DEF ann
  <2>2. ann.setIdentifier \in STRING
    BY <1>2, <2>1, Zenon
  <2>3. ann.providerSpecific \in Nat
    BY <1>c
  <2>4. QED
    BY <2>2, <2>3
<1>4. ServiceEntryHosts(se) \subseteq ToSet(se.hosts)
  BY DEF ServiceEntryHosts
<1>5. hosts \in Seq(Name) /\ ToSet(hosts) = ServiceEntryHosts(se)
  BY <1>1, <1>4, OnlyThose
<1>6. DNSRecordsFromServiceEntry(se) = EndpointsForHosts(hosts, se.addresses, ann, se.resource)
  BY DEF DNSRecordsFromServiceEntry, ServiceEntryHosts
<1> HIDE DEF ann, hosts
<1>a. hosts \in Seq(Name)
  BY <1>5
<1> DEFINE addresses == se.addresses
<1>b. addresses \in Seq(Target)
  BY <1>1
<1> HIDE DEF addresses
<1>7. /\ EndpointsForHosts(hosts, addresses, ann, se.resource) \in Seq(Fit)
      /\ ContentOf(EndpointsForHosts(hosts, addresses, ann, se.resource))
           = UNION {HostContent(h, ToSet(addresses), ann.setIdentifier) : h \in ToSet(hosts)}
  <2>1. se.resource \in Nat
    BY <1>1
  <2>2. QED
    BY <1>3, <1>a, <1>b, <2>1, HostsType, Zenon
<1>8. QED
  BY Zenon, <1>2, <1>5, <1>6, <1>7 DEF ServiceEntryContent, addresses

LocatedIn(ses, location) == {se \in ses : se.location = location}

\* serviceEntrySource.Endpoints: records of the entries of both locations.
LEMMA ServiceEntrySourceType ==
  ASSUME NEW external \in Seq(ServiceEntryResource), NEW internal \in Seq(ServiceEntryResource)
  PROVE  /\ ServiceEntrySource(external, internal) \in ResultOf(Fit)
         /\ Outcome(ServiceEntrySource(external, internal), TRUE, Failed,
                    UNION {ServiceEntryContent(se) :
                             se \in LocatedIn(ToSet(external), "MESH_EXTERNAL")
                                    \cup LocatedIn(ToSet(internal), "MESH_INTERNAL")})
<1> DEFINE E == LocatedIn(ToSet(external), "MESH_EXTERNAL")
           I == LocatedIn(ToSet(internal), "MESH_INTERNAL")
           ext == Only(external, E)
           int == Only(internal, I)
           ses == ext \o int
           ss == [i \in DOMAIN ses |-> DNSRecordsFromServiceEntry(ses[i])]
<1>1. E \subseteq ToSet(external) /\ I \subseteq ToSet(internal)
  BY DEF LocatedIn
<1>2. ServiceEntrySource(external, internal) = Ok(SortAll(FlattenSeq(ss)))
  BY DEF ServiceEntrySource, Located, LocatedIn
<1> HIDE DEF E, I
<1>3. ext \in Seq(ServiceEntryResource) /\ ToSet(ext) = E
  BY <1>1, OnlyThose
<1>4. int \in Seq(ServiceEntryResource) /\ ToSet(int) = I
  BY <1>1, OnlyThose
<1> HIDE DEF ext, int
<1>5. ses \in Seq(ServiceEntryResource) /\ ToSet(ses) = E \cup I
  BY <1>3, <1>4, Concat
<1> HIDE DEF ses
<1>6. E \cup I = {ses[i] : i \in DOMAIN ses} /\ \A i \in DOMAIN ses : ses[i] \in ServiceEntryResource
  BY <1>5 DEF ToSet
<1>7. IsFunction(ss, DOMAIN ses) /\ \A i \in DOMAIN ses : ss[i] = DNSRecordsFromServiceEntry(ses[i])
  BY DEF IsFunction
<1> HIDE DEF ss
<1>8. \A i \in DOMAIN ses : ss[i] \in Seq(Fit) /\ ContentOf(ss[i]) = ServiceEntryContent(ses[i])
  BY <1>6, <1>7, ServiceEntryType
<1>9. ss \in Seq(Seq(Fit)) /\ DOMAIN ss = DOMAIN ses
  BY <1>5, <1>7, <1>8, ListOf
<1> DEFINE eps == FlattenSeq(ss)
<1>10. eps \in Seq(Fit) /\ ContentOf(eps) = UNION {ContentOf(ss[i]) : i \in DOMAIN ss}
  BY <1>9, Flattened, ContentOfJoined
<1>11. {ContentOf(ss[i]) : i \in DOMAIN ss} = {ServiceEntryContent(se) : se \in E \cup I}
  BY <1>6, <1>8, <1>9
<1> HIDE DEF eps
<1>12. SortAll(eps) \in Seq(Fit) /\ ContentOf(SortAll(eps)) = ContentOf(eps)
  BY <1>10, SortAllType
<1>13. ServiceEntrySource(external, internal) = Ok(SortAll(eps))
  BY <1>2 DEF eps
<1>14. QED
  BY <1>10, <1>11, <1>12, <1>13, Results DEF Outcome, E, I

-------------------------------------------------------------------------------
(***************************************************************************)
(* What is gathered by name and type.                                      *)
(***************************************************************************)
Pair == [name : Name, type : RecordTypes, target : Target, ttl : Nat]
Entry == [name : Name, type : RecordTypes, ttl : Nat, targets : Seq(Target)]
Alike(P, name, type) == {p \in P : p.name = name /\ p.type = type}
TargetsIn(P, name, type) == {p.target : p \in Alike(P, name, type)}

\* An entry has the targets of the pairs of its name and type.
Gathers(w, P) ==
  /\ w \in Entry /\ w.targets # <<>>
  /\ ToSet(w.targets) = TargetsIn(P, w.name, w.type)
  /\ \E p \in Alike(P, w.name, w.type) : w.ttl = p.ttl

\* Gathering in a map: one entry per name and type, with their targets (addToEndpointMap).
LEMMA GatheredType ==
  ASSUME NEW pairs \in Seq(Pair)
  PROVE  /\ Gathered(pairs) \in Seq(Entry)
         /\ \A j \in DOMAIN Gathered(pairs) : Gathers(Gathered(pairs)[j], ToSet(pairs))
         /\ \A p \in ToSet(pairs) : \E j \in DOMAIN Gathered(pairs) :
              Gathered(pairs)[j].name = p.name /\ Gathered(pairs)[j].type = p.type
         /\ \A i, j \in DOMAIN Gathered(pairs) :
              (/\ Gathered(pairs)[i].name = Gathered(pairs)[j].name
               /\ Gathered(pairs)[i].type = Gathered(pairs)[j].type) => i = j
<1> DEFINE P == ToSet(pairs)
           ks == [i \in DOMAIN pairs |-> <<pairs[i].name, pairs[i].type>>]
           keys == Deduped(ks)
           Named(k) == Only(pairs, Alike(P, k[1], k[2]))
           targets == [j \in DOMAIN keys |-> [i \in DOMAIN Named(keys[j]) |-> Named(keys[j])[i].target]]
           w == [j \in DOMAIN keys |->
                   [name |-> keys[j][1], type |-> keys[j][2], ttl |-> Named(keys[j])[1].ttl,
                    targets |-> [i \in DOMAIN Named(keys[j]) |-> Named(keys[j])[i].target]]]
<1>1. \A i \in DOMAIN pairs : pairs[i] \in Pair
  OBVIOUS
<1>2. Gathered(pairs) = w
  BY DEF Gathered, Alike
<1>3. IsFunction(ks, DOMAIN pairs)
      /\ \A i \in DOMAIN pairs : ks[i] = <<pairs[i].name, pairs[i].type>> /\ ks[i] \in Name \X RecordTypes
  BY <1>1 DEF IsFunction, Pair
<1>4. P = {pairs[i] : i \in DOMAIN pairs} /\ \A p \in P : p \in Pair
  BY <1>1 DEF ToSet
<1> HIDE DEF ks, P
<1>5. ks \in Seq(Name \X RecordTypes) /\ DOMAIN ks = DOMAIN pairs
  BY <1>3, ListOf
<1>6. /\ keys \in Seq(Name \X RecordTypes) /\ ToSet(keys) = ToSet(ks)
      /\ \A i, j \in DOMAIN keys : keys[i] = keys[j] => i = j
  BY <1>5, DedupedType
<1> HIDE DEF keys
<1>7. ToSet(ks) = {<<p.name, p.type>> : p \in P}
  BY <1>3, <1>4, <1>5 DEF ToSet
<1>8. \A k : Named(k) \in Seq(Pair) /\ ToSet(Named(k)) = Alike(P, k[1], k[2])
  <2> TAKE k
  <2> DEFINE S == Alike(P, k[1], k[2])
  <2>1. S \subseteq ToSet(pairs)
    BY DEF Alike, P
  <2> HIDE DEF S
  <2>2. Only(pairs, S) \in Seq(Pair) /\ ToSet(Only(pairs, S)) = S
    BY <2>1, OnlyThose
  <2>3. QED
    BY <2>2 DEF S
<1> HIDE DEF Named
<1>9. ASSUME NEW j \in DOMAIN keys
      PROVE  Gathers(w[j], P) /\ w[j].name = keys[j][1] /\ w[j].type = keys[j][2]
  <2> DEFINE k == keys[j]
             s == Named(k)
             ts == [i \in DOMAIN s |-> s[i].target]
  <2>1. k \in Name \X RecordTypes
    BY <1>6
  <2>2. w[j] = [name |-> k[1], type |-> k[2], ttl |-> s[1].ttl, targets |-> ts]
    OBVIOUS
  <2>3. s \in Seq(Pair) /\ ToSet(s) = Alike(P, k[1], k[2])
    BY <1>8
  <2>4. \E p \in P : k = <<p.name, p.type>>
    <3>1. k \in ToSet(keys)
      BY DEF ToSet
    <3>2. QED
      BY <1>6, <1>7, <3>1
  <2> HIDE DEF k, s, w
  <2>5. \A i \in DOMAIN s : s[i] \in Pair
    BY <2>3
  <2>6. IsFunction(ts, DOMAIN s) /\ \A i \in DOMAIN s : ts[i] = s[i].target /\ ts[i] \in Target
    BY <2>5 DEF IsFunction, Pair
  <2> HIDE DEF ts
  <2>7. ts \in Seq(Target) /\ DOMAIN ts = DOMAIN s
    BY <2>3, <2>6, ListOf
  <2>8. Alike(P, k[1], k[2]) # {}
    BY <2>4 DEF Alike
  <2>9. DOMAIN s # {}
    BY <2>3, <2>8 DEF ToSet
  <2>10. ts # <<>> /\ 1 \in DOMAIN s
    <3>1. s # <<>> /\ ts # <<>>
      BY <2>3, <2>7, <2>9, NonEmpty
    <3>2. QED
      BY <2>3, <3>1
  <2>11. ToSet(ts) = TargetsIn(P, k[1], k[2])
    <3>1. Alike(P, k[1], k[2]) = {s[i] : i \in DOMAIN s}
      BY <2>3 DEF ToSet
    <3>2. ToSet(ts) = {s[i].target : i \in DOMAIN s}
      BY <2>6, <2>7 DEF ToSet
    <3>3. QED
      BY <3>1, <3>2 DEF TargetsIn
  <2>12. s[1] \in Alike(P, k[1], k[2]) /\ s[1] \in Pair
    BY <2>3, <2>5, <2>10 DEF ToSet
  <2>13. s[1].ttl \in Nat
    BY <2>12 DEF Pair
  <2>14. w[j] \in Entry
    BY <2>1, <2>2, <2>7, <2>13 DEF Entry
  <2>15. QED
    BY <2>2, <2>10, <2>11, <2>12, <2>14 DEF Gathers, k
<1>10. IsFunction(w, DOMAIN keys)
  BY DEF IsFunction
<1> HIDE DEF w
<1>11. \A j \in DOMAIN keys : w[j] \in Entry
  BY <1>9 DEF Gathers
<1>12. w \in Seq(Entry) /\ DOMAIN w = DOMAIN keys
  BY <1>6, <1>10, <1>11, ListOf
<1>13. \A i, j \in DOMAIN keys : (w[i].name = w[j].name /\ w[i].type = w[j].type) => i = j
  <2>1. \A i \in DOMAIN keys : keys[i] \in Name \X RecordTypes
    BY <1>6
  <2>2. \A i \in DOMAIN keys : keys[i] = <<keys[i][1], keys[i][2]>>
    BY <2>1
  <2>3. QED
    BY <1>6, <1>9, <2>2
<1>14. ASSUME NEW p \in P PROVE \E j \in DOMAIN keys : w[j].name = p.name /\ w[j].type = p.type
  <2>1. <<p.name, p.type>> \in ToSet(keys)
    BY <1>6, <1>7
  <2>2. PICK j \in DOMAIN keys : keys[j] = <<p.name, p.type>>
    BY <2>1 DEF ToSet
  <2>3. QED
    BY <1>9, <2>2
<1>15. QED
  BY <1>2, <1>9, <1>12, <1>13, <1>14 DEF P

-------------------------------------------------------------------------------
\* The pairs of one name with some targets.
PairsFor(name, T, ttl) ==
  {[name |-> name, type |-> SuitableType(t), target |-> t, ttl |-> ttl] : t \in T}

\* The pairs of a name with targets.
LEMMA PairsType ==
  ASSUME NEW name \in Name, NEW targets \in Seq(Target), NEW ttl \in Nat
  PROVE  /\ Pairs(name, targets, ttl) \in Seq(Pair)
         /\ ToSet(Pairs(name, targets, ttl)) = PairsFor(name, ToSet(targets), ttl)
<1> DEFINE Of(t) == [name |-> name, type |-> SuitableType(t), target |-> t, ttl |-> ttl]
           ps == [i \in DOMAIN targets |-> Of(targets[i])]
<1>1. \A t \in Target : Of(t) \in Pair
  <2>1. \A t \in Target : SuitableType(t) \in RecordTypes
    BY TargetTypes DEF RecordTypes
  <2>2. QED
    BY <2>1 DEF Pair
<1>2. Pairs(name, targets, ttl) = ps
  BY DEF Pairs
<1>3. PairsFor(name, ToSet(targets), ttl) = {Of(t) : t \in ToSet(targets)}
  BY DEF PairsFor
<1>4. \A i \in DOMAIN targets : targets[i] \in Target
  OBVIOUS
<1> HIDE DEF Of
<1>5. IsFunction(ps, DOMAIN targets) /\ \A i \in DOMAIN targets : ps[i] = Of(targets[i])
  BY DEF IsFunction
<1> HIDE DEF ps
<1>6. \A i \in DOMAIN targets : ps[i] \in Pair
  BY <1>1, <1>4, <1>5
<1>7. ps \in Seq(Pair) /\ DOMAIN ps = DOMAIN targets
  BY <1>5, <1>6, ListOf
<1>8. ToSet(ps) = {Of(t) : t \in ToSet(targets)}
  BY <1>5, <1>7 DEF ToSet
<1>9. QED
  BY <1>2, <1>3, <1>7, <1>8

GatheredContent(P) == {<<<<p.name, p.type, "">>, TargetsIn(P, p.name, p.type)>> : p \in P}

EntrySays(w) == <<<<w.name, w.type, "">>, ToSet(w.targets)>>

\* The walk over what was gathered.
LEMMA GatheredSays ==
  ASSUME NEW pairs \in Seq(Pair)
  PROVE  {EntrySays(w) : w \in ToSet(Gathered(pairs))} = GatheredContent(ToSet(pairs))
<1> DEFINE P == ToSet(pairs)
           g == Gathered(pairs)
           G == ToSet(g)
<1>1. /\ \A j \in DOMAIN g : Gathers(g[j], P)
      /\ \A p \in P : \E j \in DOMAIN g : g[j].name = p.name /\ g[j].type = p.type
  BY GatheredType
<1> HIDE DEF P, g
<1>2. (\A w \in G : Gathers(w, P)) /\ \A p \in P : \E w \in G : w.name = p.name /\ w.type = p.type
  BY <1>1 DEF ToSet
<1> HIDE DEF G
<1>3. ASSUME NEW w \in G
      PROVE  EntrySays(w) \in GatheredContent(P)
  <2>1. PICK p \in P : p.name = w.name /\ p.type = w.type
    BY <1>2 DEF Gathers, Alike
  <2>2. ToSet(w.targets) = TargetsIn(P, w.name, w.type)
    BY <1>2 DEF Gathers
  <2>3. QED
    BY <2>1, <2>2 DEF GatheredContent, EntrySays
<1>4. ASSUME NEW p \in P
      PROVE  \E w \in G : EntrySays(w) = <<<<p.name, p.type, "">>, TargetsIn(P, p.name, p.type)>>
  <2>1. PICK w \in G : w.name = p.name /\ w.type = p.type
    BY <1>2
  <2>2. ToSet(w.targets) = TargetsIn(P, w.name, w.type)
    BY <1>2 DEF Gathers
  <2>3. QED
    BY <2>1, <2>2 DEF EntrySays
<1>5. {EntrySays(w) : w \in G} = GatheredContent(P)
  BY Zenon, <1>3, <1>4 DEF GatheredContent
<1>6. QED
  BY <1>5 DEF P, G, g

\* A walk through the map of entries, in whatever order, has the gathered content.
LEMMA CollectedType ==
  ASSUME NEW pairs \in Seq(Pair), NEW walk \in Collected(pairs)
  PROVE  /\ walk \in Seq(Entry)
         /\ \A i \in DOMAIN walk : Gathers(walk[i], ToSet(pairs))
         /\ {EntrySays(walk[i]) : i \in DOMAIN walk} = GatheredContent(ToSet(pairs))
<1> DEFINE P == ToSet(pairs)
           g == Gathered(pairs)
           G == ToSet(g)
<1>1. g \in Seq(Entry) /\ \A j \in DOMAIN g : Gathers(g[j], P)
  BY GatheredType
<1>2. walk \in Walks(G) /\ {EntrySays(w) : w \in G} = GatheredContent(P)
  BY GatheredSays DEF Collected
<1> HIDE DEF P, g
<1>3. IsFiniteSet(G)
  BY <1>1, FiniteList
<1>4. G \subseteq Entry /\ \A w \in G : Gathers(w, P)
  <2>1. \A w \in G : Gathers(w, P)
    BY <1>1 DEF ToSet
  <2> HIDE DEF G
  <2>2. QED
    BY <2>1 DEF Gathers
<1> HIDE DEF G
<1>5. walk \in Seq(G) /\ ToSet(walk) = G
  BY <1>2, <1>3, WalksType
<1>6. G = {walk[i] : i \in DOMAIN walk} /\ \A i \in DOMAIN walk : walk[i] \in G
  BY <1>5 DEF ToSet
<1>7. walk \in Seq(Entry)
  BY <1>4, <1>5
<1>8. {EntrySays(walk[i]) : i \in DOMAIN walk} = {EntrySays(w) : w \in G}
  BY <1>6
<1>9. QED
  BY <1>2, <1>4, <1>6, <1>7, <1>8 DEF P

\* The record of an entry.
EntryRecord(w, ttl) ==
  [dnsName |-> w.name, recordType |-> w.type, setIdentifier |-> "", targets |-> w.targets,
   ttl |-> ttl, providerSpecific |-> 0, labels |-> NoLabels]

\* A record made of an entry of the map speaks for it.
LEMMA EntryRecordType ==
  ASSUME NEW P, NEW w, Gathers(w, P), NEW ttl \in Nat
  PROVE  /\ EntryRecord(w, ttl) \in Record
         /\ Says(EntryRecord(w, ttl)) = EntrySays(w)
         /\ (~TooLong(w.name) /\ \A t \in TargetsIn(P, w.name, w.type) : SuitableType(t) = w.type)
              => EntryRecord(w, ttl) \in Fit
         /\ /\ TooLong(w.name) => w.name \in NodeNames
            /\ \A t \in TargetsIn(P, w.name, w.type) :
                 SuitableType(t) = w.type \/ (w.type = "A" /\ PodsOwn(w.name, t))
            => EntryRecord(w, ttl) \in Usable
<1> DEFINE e == EntryRecord(w, ttl)
<1>1. /\ w.name \in Name /\ w.type \in RecordTypes /\ w.targets \in Seq(Target) /\ w.targets # <<>>
      /\ ToSet(w.targets) = TargetsIn(P, w.name, w.type)
  BY DEF Gathers, Entry
<1>2. /\ e.dnsName = w.name /\ e.recordType = w.type /\ e.setIdentifier = "" /\ e.targets = w.targets
      /\ e.ttl = ttl /\ e.providerSpecific = 0 /\ e.labels = NoLabels
  BY DEF EntryRecord
<1>3. e \in Record
  <2>1. w.targets \in Seq(Target \cup Port)
    BY <1>1
  <2>2. NoLabels \in [resource : Nat, mesh : BOOLEAN, dualstack : BOOLEAN]
    BY DEF NoLabels
  <2>3. "" \in STRING
    BY Zenon, LiteralsAreStrings
  <2> DEFINE none == ""
  <2>4. none \in STRING
    BY Zenon, <2>3
  <2>5. e = RecordWith(w.name, w.type, none, w.targets, ttl, 0, NoLabels)
    BY DEF EntryRecord, RecordWith
  <2> HIDE DEF none, e
  <2>6. QED
    BY <1>1, <2>1, <2>2, <2>4, <2>5 DEF Record, RecordWith
<1>4. Says(e) = EntrySays(w)
  BY Zenon, <1>2 DEF Says, EntrySays, Cell
<1>5. ASSUME ~TooLong(w.name), \A t \in TargetsIn(P, w.name, w.type) : SuitableType(t) = w.type
      PROVE  e \in Fit
  <2>1. \A j \in DOMAIN w.targets : w.targets[j] \in TargetsIn(P, w.name, w.type)
    BY <1>1 DEF ToSet
  <2> HIDE DEF e
  <2>2. Suited(e)
    BY Zenon, <1>1, <1>2, <1>5, <2>1 DEF Suited
  <2>3. QED
    BY <1>3, <2>2 DEF Fit, e
<1>6. ASSUME TooLong(w.name) => w.name \in NodeNames,
             \A t \in TargetsIn(P, w.name, w.type) :
               SuitableType(t) = w.type \/ (w.type = "A" /\ PodsOwn(w.name, t))
      PROVE  e \in Usable
  <2>1. \A j \in DOMAIN w.targets : w.targets[j] \in TargetsIn(P, w.name, w.type)
    BY <1>1 DEF ToSet
  <2> HIDE DEF e
  <2>2. Sound(e)
    BY Zenon, <1>1, <1>2, <1>6, <2>1 DEF Sound
  <2>3. QED
    BY <1>3, <2>2 DEF Usable, e
<1>7. QED
  BY <1>3, <1>4, <1>5, <1>6

\* Pairs whose type is that of their target.
SuitedPairs(P) == \A p \in P : p.type = SuitableType(p.target)

\* In suited pairs the targets suit the type they stand with.
LEMMA SuitedTargets ==
  ASSUME NEW P, SuitedPairs(P), NEW name, NEW type, NEW t \in TargetsIn(P, name, type)
  PROVE  SuitableType(t) = type
BY DEF SuitedPairs, TargetsIn, Alike

-------------------------------------------------------------------------------
(***************************************************************************)
(* Nodes.                                                                  *)
(***************************************************************************)
\* What a source has of a kind, at one time or another.
Stock(k) == UNION Clusters(k)

\* The resources that clusters have are of their kind, and finitely many at a time.
LEMMA StockType ==
  ASSUME NEW k \in Kinds
  PROVE  /\ \A c \in Clusters(k) : IsFiniteSet(c) /\ c \subseteq Resource(k) /\ c \subseteq Stock(k)
         /\ Stock(k) \subseteq Resource(k)
<1>1. ASSUME NEW c \in Clusters(k)
      PROVE  IsFiniteSet(c) /\ c \subseteq Resource(k) /\ c \subseteq Stock(k)
  <2>1. CASE c = {}
    BY <2>1, FS_EmptySet
  <2>2. CASE c # {}
    <3>1. PICK v \in UNION {sc.worlds : sc \in Scenarios} : k \in DOMAIN v /\ c = v[k]
      BY <2>2 DEF Clusters
    <3>2. PICK sc \in Scenarios : v \in sc.worlds
      OBVIOUS
    <3>3. k \in DOMAIN v \cap Kinds
      BY <3>1
    <3>4. IsFiniteSet(v[k]) /\ v[k] \subseteq Resource(k)
      BY <3>2, <3>3, InformersAssumption
    <3>5. QED
      BY <3>1, <3>4 DEF Stock
  <2>3. QED
    BY <2>1, <2>2
<1>2. QED
  BY <1>1 DEF Stock

\* Addresses of a node are targets.
LEMMA AddressesType ==
  ASSUME NEW node \in NodeResource, NEW chosen \in SUBSET ToSet(node.addresses)
  PROVE  [i \in DOMAIN Only(node.addresses, chosen) |-> Only(node.addresses, chosen)[i].address]
           \in Seq(Target)
<1> DEFINE A == [type : STRING, address : Target]
           s == Only(node.addresses, chosen)
           f == [i \in DOMAIN s |-> s[i].address]
<1>1. node.addresses \in Seq(A)
  BY DEF NodeResource
<1> HIDE DEF A
<1>2. s \in Seq(A)
  BY <1>1, OnlyThose
<1> HIDE DEF s
<1>3. \A i \in DOMAIN s : s[i] \in A
  BY <1>2
<1>4. IsFunction(f, DOMAIN s) /\ \A i \in DOMAIN s : f[i] \in Target
  BY <1>3 DEF IsFunction, A
<1> HIDE DEF f
<1>5. f \in Seq(Target)
  BY <1>2, <1>4, ListOf
<1>6. QED
  BY <1>5 DEF f, s

\* nodeAddresses returns targets, external or internal ones.
LEMMA NodeAddressesType ==
  ASSUME NEW node \in NodeResource
  PROVE  /\ \A types : AddressesOf(node, types) \in Seq(Target)
         /\ IPv6Addresses(node) \in Seq(Target)
         /\ NodeAddresses(node) \in Seq(Target)
<1>1. ASSUME NEW types PROVE AddressesOf(node, types) \in Seq(Target)
  <2> DEFINE S == {a \in ToSet(node.addresses) : a.type \in types}
  <2>1. S \in SUBSET ToSet(node.addresses)
    OBVIOUS
  <2>2. AddressesOf(node, types)
          = [i \in DOMAIN Only(node.addresses, S) |-> Only(node.addresses, S)[i].address]
    BY DEF AddressesOf
  <2> HIDE DEF S
  <2>3. QED
    BY <2>1, <2>2, AddressesType
<1>2. IPv6Addresses(node) \in Seq(Target)
  <2> DEFINE internal == AddressesOf(node, {"InternalIP"})
             six == {t \in ToSet(internal) : SuitableType(t) = "AAAA"}
  <2>1. IPv6Addresses(node) = Only(internal, six)
    BY DEF IPv6Addresses
  <2>2. internal \in Seq(Target)
    BY <1>1
  <2> HIDE DEF internal, six
  <2>3. Only(internal, six) \in Seq(Target)
    BY <2>2, OnlyType
  <2>4. QED
    BY <2>1, <2>3
<1>3. NodeAddresses(node) \in Seq(Target)
  BY <1>1, <1>2 DEF NodeAddresses
<1>4. QED
  BY <1>1, <1>2, <1>3

NodePairs(n) == PairsFor(n.dnsName, ToSet(NodeAddresses(n)), GetTTLFromAnnotations(n.ann))

\* nodeSource.Endpoints: records of all nodes, or the error of a node without addresses.
LEMMA NodeSourceType ==
  ASSUME NEW nodes \in Seq(NodeResource), ToSet(nodes) \subseteq Stock("node"), NEW r \in NodeSource(nodes)
  PROVE  /\ r \in ResultOf(Usable)
         /\ Outcome(r, \A n \in ToSet(nodes) : NodeAddresses(n) # <<>>, Failed,
                    GatheredContent(UNION {NodePairs(n) : n \in ToSet(nodes)}))
<1> DEFINE S == ToSet(nodes)
           P == UNION {NodePairs(n) : n \in S}
           well == \A n \in S : NodeAddresses(n) # <<>>
           ss == [i \in DOMAIN nodes |->
                    Pairs(nodes[i].dnsName, NodeAddresses(nodes[i]), GetTTLFromAnnotations(nodes[i].ann))]
           pairs == FlattenSeq(ss)
<1>1. S = {nodes[i] : i \in DOMAIN nodes} /\ \A i \in DOMAIN nodes : nodes[i] \in NodeResource
  BY DEF ToSet
<1>2. well <=> ~\E i \in DOMAIN nodes : NodeAddresses(nodes[i]) = <<>>
  BY <1>1
<1>3. CASE ~well
  <2>1. r = Failed
    BY Zenon, <1>2, <1>3 DEF NodeSource
  <2>2. QED
    BY <1>3, <2>1, Results DEF Outcome
<1>4. CASE well
  <2>1. PICK walk \in Collected(pairs) :
          r = Ok([i \in DOMAIN walk |->
              [dnsName |-> walk[i].name, recordType |-> walk[i].type, setIdentifier |-> "",
               targets |-> walk[i].targets, ttl |-> walk[i].ttl, providerSpecific |-> 0,
               labels |-> NoLabels]])
    BY Zenon, <1>2, <1>4 DEF NodeSource
  <2>2. \A i \in DOMAIN nodes :
          /\ nodes[i].dnsName \in Name /\ NodeAddresses(nodes[i]) \in Seq(Target)
          /\ GetTTLFromAnnotations(nodes[i].ann) \in Nat
    <3>1. \A n \in NodeResource : n.dnsName \in Name
      BY DEF NodeResource
    <3>2. \A n \in NodeResource : NodeAddresses(n) \in Seq(Target)
      BY NodeAddressesType
    <3>3. \A ann : GetTTLFromAnnotations(ann) \in Nat
      BY SourcesAssumption DEF GetTTLFromAnnotations
    <3>4. QED
      BY <1>1, <3>1, <3>2, <3>3
  <2>3. IsFunction(ss, DOMAIN nodes)
        /\ \A i \in DOMAIN nodes : ss[i] = Pairs(nodes[i].dnsName, NodeAddresses(nodes[i]),
                                                 GetTTLFromAnnotations(nodes[i].ann))
    BY DEF IsFunction
  <2> HIDE DEF ss, P
  <2>4. \A i \in DOMAIN nodes : ss[i] \in Seq(Pair) /\ ToSet(ss[i]) = NodePairs(nodes[i])
    BY <2>2, <2>3, PairsType DEF NodePairs
  <2>5. ss \in Seq(Seq(Pair)) /\ DOMAIN ss = DOMAIN nodes
    BY <2>3, <2>4, ListOf
  <2>6. pairs \in Seq(Pair) /\ ToSet(pairs) = UNION {ToSet(ss[i]) : i \in DOMAIN ss}
    BY <2>5, Flattened
  <2>7. ToSet(pairs) = P
    BY <1>1, <2>4, <2>5, <2>6 DEF P
  <2> HIDE DEF pairs
  <2>8. /\ walk \in Seq(Entry)
        /\ \A i \in DOMAIN walk : Gathers(walk[i], P)
        /\ {EntrySays(walk[i]) : i \in DOMAIN walk} = GatheredContent(P)
    BY <2>6, <2>7, CollectedType
  <2> DEFINE eps == [i \in DOMAIN walk |-> EntryRecord(walk[i], walk[i].ttl)]
  <2>9. r = Ok(eps)
    BY Zenon, <2>1 DEF EntryRecord
  <2>10. IsFunction(eps, DOMAIN walk) /\ \A i \in DOMAIN walk : eps[i] = EntryRecord(walk[i], walk[i].ttl)
    BY DEF IsFunction
  <2> HIDE DEF eps
  <2>11. \A i \in DOMAIN walk : walk[i].ttl \in Nat
    BY <2>8 DEF Gathers, Entry
  <2>12. \A p \in P : p.name \in NodeNames
    <3> SUFFICES ASSUME NEW p \in P PROVE p.name \in NodeNames
      OBVIOUS
    <3>1. PICK n \in S : p \in NodePairs(n)
      BY DEF P
    <3>2. p.name = n.dnsName
      BY <3>1 DEF NodePairs, PairsFor
    <3>3. QED
      BY <3>2 DEF NodeNames, Stock
  <2>13. SuitedPairs(P)
    <3> SUFFICES ASSUME NEW p \in P PROVE p.type = SuitableType(p.target)
      BY DEF SuitedPairs
    <3>1. PICK n \in S : p \in NodePairs(n)
      BY DEF P
    <3>2. QED
      BY <3>1 DEF NodePairs, PairsFor
  <2>14. ASSUME NEW i \in DOMAIN walk
         PROVE  eps[i] \in Usable /\ Says(eps[i]) = EntrySays(walk[i])
    <3>1. /\ eps[i] \in Record /\ Says(eps[i]) = EntrySays(walk[i])
          /\ /\ TooLong(walk[i].name) => walk[i].name \in NodeNames
             /\ \A t \in TargetsIn(P, walk[i].name, walk[i].type) :
                  SuitableType(t) = walk[i].type \/ (walk[i].type = "A" /\ PodsOwn(walk[i].name, t))
             => eps[i] \in Usable
      BY <2>8, <2>10, <2>11, EntryRecordType
    <3>2. \A t \in TargetsIn(P, walk[i].name, walk[i].type) : SuitableType(t) = walk[i].type
      BY <2>13, SuitedTargets
    <3>3. walk[i].name \in NodeNames
      <4>1. \E p \in P : p.name = walk[i].name
        BY <2>8 DEF Gathers, Alike
      <4>2. QED
        BY <2>12, <4>1
    <3>4. QED
      BY <3>1, <3>2, <3>3
  <2>15. eps \in Seq(Usable) /\ DOMAIN eps = DOMAIN walk
    BY <2>8, <2>10, <2>14, ListOf
  <2>16. ContentOf(eps) = {EntrySays(walk[i]) : i \in DOMAIN walk}
    BY <2>14, <2>15 DEF ContentOf, ToSet
  <2>17. r \in ResultOf(Usable) /\ r.state = "ok" /\ ContentOf(r.eps) = GatheredContent(P)
    BY <2>8, <2>9, <2>15, <2>16, Results
  <2>18. QED
    BY <1>4, <2>17 DEF Outcome, P
<1>5. QED
  BY <1>3, <1>4

-------------------------------------------------------------------------------
(***************************************************************************)
(* Pods.                                                                   *)
(***************************************************************************)
\* A nil in place of the record of a name with an over-long label.
NewContent(C) == {IF TooLong(c[1][1]) THEN Says(Nil) ELSE c : c \in C}

\* The records of a walk, each with a type and targets that go together if the
\* sources' hopes come true.
LEMMA NewEndpointsType ==
  ASSUME NEW pairs \in Seq(Pair), NEW walk \in Collected(pairs), NEW F,
         Fit \subseteq F, F \subseteq Record,
         SuitedPairs(ToSet(pairs)) \/ \A w \in Entry :
           Gathers(w, ToSet(pairs)) /\ ~TooLong(w.name) => EntryRecord(w, 0) \in F
  PROVE  /\ Ok(NewEndpoints(walk)) \in ResultOf(F \cup {Nil})
         /\ Outcome(Ok(NewEndpoints(walk)), TRUE, Failed, NewContent(GatheredContent(ToSet(pairs))))
<1> DEFINE P == ToSet(pairs)
           eps == NewEndpoints(walk)
           G == GatheredContent(P)
           New(c) == IF TooLong(c[1][1]) THEN Says(Nil) ELSE c
<1>1. /\ walk \in Seq(Entry)
      /\ \A i \in DOMAIN walk : Gathers(walk[i], P)
      /\ {EntrySays(walk[i]) : i \in DOMAIN walk} = G
  BY CollectedType
<1>2. IsFunction(eps, DOMAIN walk)
      /\ \A i \in DOMAIN walk : eps[i] = IF TooLong(walk[i].name) THEN Nil ELSE EntryRecord(walk[i], 0)
  BY Zenon DEF IsFunction, NewEndpoints, NewEndpoint, NewEndpointWithTTL, EntryRecord
<1> HIDE DEF eps, G
<1>3. ASSUME NEW i \in DOMAIN walk
      PROVE  eps[i] \in F \cup {Nil} /\ Says(eps[i]) = New(EntrySays(walk[i]))
  <2>1. Gathers(walk[i], P) /\ walk[i] \in Entry
    BY <1>1
  <2>2. /\ Says(EntryRecord(walk[i], 0)) = EntrySays(walk[i])
        /\ (~TooLong(walk[i].name)
            /\ \A t \in TargetsIn(P, walk[i].name, walk[i].type) : SuitableType(t) = walk[i].type)
             => EntryRecord(walk[i], 0) \in Fit
    <3>1. 0 \in Nat
      OBVIOUS
    <3>2. QED
      BY <2>1, <3>1, EntryRecordType
  <2>3. ~TooLong(walk[i].name) => EntryRecord(walk[i], 0) \in F
    <3>1. CASE SuitedPairs(P)
      BY <2>2, <3>1, SuitedTargets
    <3>2. CASE ~SuitedPairs(P)
      BY <2>1, <3>2
    <3>3. QED
      BY <3>1, <3>2
  <2>4. EntrySays(walk[i])[1][1] = walk[i].name
    BY DEF EntrySays
  <2>5. QED
    BY <1>2, <2>2, <2>3, <2>4
<1>4. eps \in Seq(F \cup {Nil}) /\ DOMAIN eps = DOMAIN walk
  BY ZenonT(60), <1>1, <1>2, <1>3, ListOf
<1>5. ContentOf(eps) = {New(EntrySays(walk[i])) : i \in DOMAIN walk}
  BY <1>3, <1>4 DEF ContentOf, ToSet
<1>6. NewContent(G) = {New(c) : c \in G}
  BY DEF NewContent
<1> HIDE DEF New
<1>7. ContentOf(eps) = NewContent(G)
  BY <1>1, <1>5, <1>6
<1>8. QED
  BY <1>4, <1>7, Results DEF Outcome, eps, G

\* The addresses of a pod's node are targets.
LEMMA NodeTargetsType ==
  ASSUME NEW pod, NEW nodes \in SUBSET NodeResource, NodeNamed(pod.node, nodes) # {}
  PROVE  NodeTargets(pod, nodes) \in Seq(Target)
<1> DEFINE node == CHOOSE n \in NodeNamed(pod.node, nodes) : TRUE
           S == {a \in ToSet(node.addresses) :
                   a.type = "ExternalIP" \/ (a.type = "InternalIP" /\ SuitableType(a.address) = "AAAA")}
<1>1. node \in NodeResource
  <2>1. node \in NodeNamed(pod.node, nodes)
    OBVIOUS
  <2>2. NodeNamed(pod.node, nodes) \subseteq nodes
    BY DEF NodeNamed
  <2>3. QED
    BY <2>1, <2>2
<1>2. NodeTargets(pod, nodes)
        = [i \in DOMAIN Only(node.addresses, S) |-> Only(node.addresses, S)[i].address]
  BY DEF NodeTargets
<1>3. S \in SUBSET ToSet(node.addresses)
  OBVIOUS
<1> HIDE DEF node, S
<1>4. QED
  BY <1>1, <1>2, <1>3, AddressesType

\* The pairs of a host network pod whose node is known are suited.
LEMMA PodPairsType ==
  ASSUME NEW pod \in PodResource, NEW nodes \in SUBSET NodeResource,
         ~(NeedsNode(pod) /\ NodeNamed(pod.node, nodes) = {})
  PROVE  PodPairs(pod, nodes) \in Seq(Pair) /\ SuitedPairs(ToSet(PodPairs(pod, nodes)))
<1> DEFINE hostnames == pod.ann.hostname
           internal == pod.ann.internalHostname
           own == TargetsOr(pod, <<pod.podIP>>)
           others == TargetsOr(pod, NodeTargets(pod, nodes))
           a == [i \in DOMAIN internal |-> Pairs(internal[i], own, 0)]
           b == [i \in DOMAIN hostnames |-> Pairs(hostnames[i], others, 0)]
           SP == {p \in Pair : p.type = SuitableType(p.target)}
<1>1. /\ hostnames \in Seq(Name) /\ internal \in Seq(Name) /\ pod.ann.target \in Seq(Target)
      /\ pod.podIP \in Target
  BY DEF PodResource, Annotations, OwnAddress
<1>2. own \in Seq(Target)
  BY <1>1 DEF TargetsOr
<1>3. hostnames # <<>> => others \in Seq(Target)
  <2>1. CASE pod.ann.target # <<>>
    BY <1>1, <2>1 DEF TargetsOr
  <2>2. CASE pod.ann.target = <<>> /\ hostnames # <<>>
    BY <2>2, NodeTargetsType DEF TargetsOr, NeedsNode
  <2>3. QED
    BY <2>1, <2>2
<1>4. PodPairs(pod, nodes) = FlattenSeq(a) \o FlattenSeq(b)
  BY DEF PodPairs
<1> HIDE DEF own, others, hostnames, internal
<1>5. ASSUME NEW name \in Name, NEW targets \in Seq(Target)
      PROVE  Pairs(name, targets, 0) \in Seq(SP)
  <2>1. 0 \in Nat
    OBVIOUS
  <2>2. Pairs(name, targets, 0) \in Seq(Pair)
        /\ ToSet(Pairs(name, targets, 0)) = PairsFor(name, ToSet(targets), 0)
    BY <2>1, PairsType
  <2> DEFINE ps == Pairs(name, targets, 0)
  <2>3. \A i \in DOMAIN ps : ps[i] \in PairsFor(name, ToSet(targets), 0) /\ ps[i] \in Pair
    BY <2>2 DEF ToSet
  <2>4. \A i \in DOMAIN ps : ps[i] \in SP
    BY <2>3 DEF PairsFor
  <2> HIDE DEF ps, SP
  <2>5. ps \in Seq(Pair)
    BY <2>2 DEF ps
  <2>6. ps \in Seq(SP)
    BY <2>4, <2>5
  <2>7. QED
    BY <2>6 DEF ps
<1> HIDE DEF SP
<1>6. FlattenSeq(a) \in Seq(SP)
  <2>1. IsFunction(a, DOMAIN internal) /\ \A i \in DOMAIN internal : a[i] = Pairs(internal[i], own, 0)
    BY DEF IsFunction
  <2> HIDE DEF a
  <2>2. \A i \in DOMAIN internal : internal[i] \in Name
    BY <1>1
  <2>3. \A i \in DOMAIN internal : a[i] \in Seq(SP)
    BY <1>2, <1>5, <2>1, <2>2
  <2>4. a \in Seq(Seq(SP))
    BY <1>1, <2>1, <2>3, ListOf
  <2>5. QED
    BY <2>4, Flattened
<1>7. FlattenSeq(b) \in Seq(SP)
  <2>1. IsFunction(b, DOMAIN hostnames) /\ \A i \in DOMAIN hostnames : b[i] = Pairs(hostnames[i], others, 0)
    BY DEF IsFunction
  <2> HIDE DEF b
  <2>2. \A i \in DOMAIN hostnames : hostnames[i] \in Name /\ others \in Seq(Target)
    BY <1>1, <1>3
  <2>3. \A i \in DOMAIN hostnames : b[i] \in Seq(SP)
    BY <1>5, <2>1, <2>2
  <2>4. b \in Seq(Seq(SP))
    BY <1>1, <2>1, <2>3, ListOf
  <2>5. QED
    BY <2>4, Flattened
<1> DEFINE s == FlattenSeq(a) \o FlattenSeq(b)
<1> HIDE DEF a, b
<1>8. s \in Seq(SP)
  BY <1>6, <1>7
<1> HIDE DEF s
<1>9. \A i \in DOMAIN s : s[i] \in SP
  BY <1>8
<1>10. s \in Seq(Pair) /\ SuitedPairs(ToSet(s))
  BY <1>8, <1>9 DEF SP, SuitedPairs, ToSet
<1>11. QED
  BY <1>4, <1>10 DEF s

HostPods(S) == {p \in S : p.hostNetwork}
NodeMissing(pod, nodes) == NeedsNode(pod) /\ NodeNamed(pod.node, nodes) = {}

\* podSource.Endpoints: records and nils of all pods, or the panic at a missing node.
LEMMA PodSourceType ==
  ASSUME NEW pods \in Seq(PodResource), NEW nodes \in SUBSET NodeResource, NEW r \in PodSource(pods, nodes)
  PROVE  /\ r \in ResultOf(Fit \cup {Nil})
         /\ Outcome(r, \A p \in HostPods(ToSet(pods)) : ~NodeMissing(p, nodes), Panics,
                    NewContent(GatheredContent(
                      UNION {ToSet(PodPairs(p, nodes)) : p \in HostPods(ToSet(pods))})))
<1> DEFINE S == HostPods(ToSet(pods))
           chosen == Only(pods, S)
           well == \A p \in S : ~NodeMissing(p, nodes)
           P == UNION {ToSet(PodPairs(p, nodes)) : p \in S}
           ss == [i \in DOMAIN chosen |-> PodPairs(chosen[i], nodes)]
           pairs == FlattenSeq(ss)
<1>1. S \subseteq ToSet(pods)
  BY DEF HostPods
<1>2. IF \E i \in DOMAIN chosen : NodeMissing(chosen[i], nodes) THEN r = Panics
      ELSE \E walk \in Collected(pairs) : r = Ok(NewEndpoints(walk))
  BY DEF PodSource, NodeMissing, HostPods
<1> HIDE DEF S
<1>3. chosen \in Seq(PodResource) /\ ToSet(chosen) = S
  BY <1>1, OnlyThose
<1> HIDE DEF chosen
<1>4. S = {chosen[i] : i \in DOMAIN chosen} /\ \A i \in DOMAIN chosen : chosen[i] \in PodResource
  BY <1>3 DEF ToSet
<1>5. CASE ~well
  <2>1. r = Panics
    BY <1>2, <1>4, <1>5
  <2>2. QED
    BY <1>5, <2>1, Results DEF Outcome, S
<1>6. CASE well
  <2>1. PICK walk \in Collected(pairs) : r = Ok(NewEndpoints(walk))
    BY <1>2, <1>4, <1>6
  <2>2. \A i \in DOMAIN chosen : ~NodeMissing(chosen[i], nodes)
    BY <1>4, <1>6
  <2>3. \A i \in DOMAIN chosen : PodPairs(chosen[i], nodes) \in Seq(Pair)
                                 /\ SuitedPairs(ToSet(PodPairs(chosen[i], nodes)))
    BY <1>4, <2>2, PodPairsType DEF NodeMissing
  <2>4. IsFunction(ss, DOMAIN chosen) /\ \A i \in DOMAIN chosen : ss[i] = PodPairs(chosen[i], nodes)
    BY DEF IsFunction
  <2> HIDE DEF ss, P
  <2>5. ss \in Seq(Seq(Pair)) /\ DOMAIN ss = DOMAIN chosen
    BY <1>3, <2>3, <2>4, ListOf
  <2>6. pairs \in Seq(Pair) /\ ToSet(pairs) = UNION {ToSet(ss[i]) : i \in DOMAIN ss}
    BY <2>5, Flattened
  <2>7. ToSet(pairs) = P
    BY <1>4, <2>4, <2>5, <2>6 DEF P
  <2>8. SuitedPairs(ToSet(pairs))
    BY <2>3, <2>4, <2>5, <2>6 DEF SuitedPairs
  <2> HIDE DEF pairs
  <2>9. Fit \subseteq Fit /\ Fit \subseteq Record
    BY DEF Fit
  <2>10. /\ Ok(NewEndpoints(walk)) \in ResultOf(Fit \cup {Nil})
         /\ Outcome(Ok(NewEndpoints(walk)), TRUE, Failed, NewContent(GatheredContent(ToSet(pairs))))
    BY <2>6, <2>8, <2>9, NewEndpointsType
  <2>11. r \in ResultOf(Fit \cup {Nil}) /\ r.state = "ok" /\ ContentOf(r.eps) = NewContent(GatheredContent(P))
    BY <2>1, <2>7, <2>10 DEF Outcome
  <2>12. QED
    BY <1>6, <2>11 DEF Outcome, S, P
<1>7. QED
  BY <1>5, <1>6

-------------------------------------------------------------------------------
\* Pods with an address of their own.
AddressedPods(S) == {p \in S : ~p.hostNetwork /\ p.podIP # 0}
K8SPair(p) == [name |-> <<p.name, p.ns, "p">>, type |-> "A", target |-> p.podIP, ttl |-> 0]

\* k8sSource.Endpoints: records and nils of the pods with addresses of their own.
LEMMA K8SSourceType ==
  ASSUME NEW pods \in Seq(PodResource), ToSet(pods) \subseteq Stock("pod"), NEW r \in K8SSource(pods)
  PROVE  /\ r \in ResultOf(Listed)
         /\ Outcome(r, TRUE, Failed,
                    NewContent(GatheredContent({K8SPair(p) : p \in AddressedPods(ToSet(pods))})))
<1> DEFINE S == AddressedPods(ToSet(pods))
           chosen == Only(pods, S)
           P == {K8SPair(p) : p \in S}
           pairs == [i \in DOMAIN chosen |-> K8SPair(chosen[i])]
<1>1. S \subseteq ToSet(pods)
  BY DEF AddressedPods
<1>2. PICK walk \in Collected(pairs) : r = Ok(NewEndpoints(walk))
  BY DEF K8SSource, K8SPair, AddressedPods
<1>3. ASSUME NEW p \in S PROVE p \in Stock("pod") /\ ~p.hostNetwork /\ p.podIP # 0
  BY <1>1 DEF AddressedPods
<1> HIDE DEF S
<1>4. chosen \in Seq(PodResource) /\ ToSet(chosen) = S
  BY <1>1, OnlyThose
<1> HIDE DEF chosen
<1>5. S = {chosen[i] : i \in DOMAIN chosen} /\ \A i \in DOMAIN chosen : chosen[i] \in PodResource
  BY <1>4 DEF ToSet
<1>6. ASSUME NEW p \in PodResource PROVE K8SPair(p) \in Pair
  <2>1. p.name \in STRING /\ p.ns \in STRING /\ p.podIP \in Target
    BY DEF PodResource, OwnAddress
  <2>2. \A a, b, c \in STRING : <<a, b, c>> \in Name
    BY DEF Name
  <2>3. "p" \in STRING
    BY Zenon, LiteralsAreStrings
  <2>4. <<p.name, p.ns, "p">> \in Name
    BY <2>1, <2>2, <2>3, Zenon
  <2> DEFINE name == <<p.name, p.ns, "p">>
  <2>5. K8SPair(p) = [name |-> name, type |-> "A", target |-> p.podIP, ttl |-> 0]
    BY DEF K8SPair
  <2>6. name \in Name
    BY <2>4
  <2> HIDE DEF name
  <2>7. QED
    BY <2>1, <2>5, <2>6 DEF Pair, RecordTypes
<1>7. IsFunction(pairs, DOMAIN chosen) /\ \A i \in DOMAIN chosen : pairs[i] = K8SPair(chosen[i])
  BY DEF IsFunction
<1> HIDE DEF pairs, P
<1>8. \A i \in DOMAIN chosen : pairs[i] \in Pair
  BY <1>5, <1>6, <1>7
<1>9. pairs \in Seq(Pair) /\ DOMAIN pairs = DOMAIN chosen
  BY <1>4, <1>7, <1>8, ListOf
<1>10. ToSet(pairs) = P
  BY <1>5, <1>7, <1>9 DEF ToSet, P
<1>11. ASSUME NEW name, NEW t \in TargetsIn(P, name, "A") PROVE PodsOwn(name, t)
  <2>1. PICK q \in P : q.name = name /\ q.target = t
    BY DEF TargetsIn, Alike
  <2>2. PICK p \in S : q = K8SPair(p)
    BY <2>1 DEF P
  <2>3. name = <<p.name, p.ns, "p">> /\ t = p.podIP
    BY <2>1, <2>2 DEF K8SPair
  <2>4. p \in UNION Clusters("pod") /\ ~p.hostNetwork /\ p.podIP # 0
    BY <1>3 DEF Stock
  <2>5. QED
    BY <2>3, <2>4 DEF PodsOwn
<1>12. \A q \in P : q.type = "A"
  BY DEF P, K8SPair
<1>13. Fit \subseteq Usable /\ Usable \subseteq Record
  BY FitIsUsable
<1>14. ASSUME NEW w \in Entry, Gathers(w, P), ~TooLong(w.name)
       PROVE  EntryRecord(w, 0) \in Usable
  <2>1. w.type = "A"
    BY <1>12, <1>14 DEF Gathers, Alike
  <2>2. \A t \in TargetsIn(P, w.name, w.type) : w.type = "A" /\ PodsOwn(w.name, t)
    BY <1>11, <2>1
  <2>3. 0 \in Nat
    OBVIOUS
  <2>4. QED
    BY <1>14, <2>2, <2>3, EntryRecordType
<1>15. /\ Ok(NewEndpoints(walk)) \in ResultOf(Usable \cup {Nil})
       /\ Outcome(Ok(NewEndpoints(walk)), TRUE, Failed, NewContent(GatheredContent(ToSet(pairs))))
  <2>1. SuitedPairs(ToSet(pairs)) \/ \A w \in Entry :
          Gathers(w, ToSet(pairs)) /\ ~TooLong(w.name) => EntryRecord(w, 0) \in Usable
    BY <1>10, <1>14
  <2>2. QED
    BY <1>9, <1>13, <2>1, NewEndpointsType
<1>16. QED
  BY <1>2, <1>10, <1>15 DEF Listed, P, S

-------------------------------------------------------------------------------
(***************************************************************************)
(* The records of a service of the cluster.                                *)
(***************************************************************************)
Typed(v) ==
  /\ v.service \in Seq(ServiceResource) /\ v.endpoints \in Seq(EndpointsResource)
  /\ v.pod \in Seq(PodResource) /\ v.node \in Seq(NodeResource)

\* A name ends with that of the service.
NamedFor(name, svc) ==
  Len(name) >= 2 /\ name[Len(name) - 1] = svc.name /\ name[Len(name)] = svc.ns

OfService(e, svc) ==
  /\ e \in Fit /\ NamedFor(e.dnsName, svc)
  /\ e.setIdentifier = "" /\ e.ttl = GetTTLFromAnnotations(svc.ann)

\* Records of one cell have the same targets, or a single one.
Separate(S) ==
  \A e, f \in S : Cell(e) = Cell(f) => ToSet(e.targets) = ToSet(f.targets) \/ Len(f.targets) = 1

\* The TTL of a record is not negative (GetTTLFromAnnotations).
LEMMA TTLType ==
  ASSUME NEW ann
  PROVE  GetTTLFromAnnotations(ann) \in Nat
BY SourcesAssumption DEF GetTTLFromAnnotations

\* Every name of a service's records is its own: it ends in the service's name.
LEMMA Names ==
  ASSUME NEW svc \in ServiceResource
  PROVE  /\ Hostname(svc) \in Name /\ NamedFor(Hostname(svc), svc)
         /\ \A h \in STRING : <<h>> \o Hostname(svc) \in Name /\ NamedFor(<<h>> \o Hostname(svc), svc)
         /\ \A p \in STRING : SRVName(svc, p) \in Name /\ NamedFor(SRVName(svc, p), svc)
<1>1. svc.name \in STRING /\ svc.ns \in STRING
  BY DEF ServiceResource
<1> DEFINE Ends(n, a, b) == Len(n) >= 2 /\ n[Len(n) - 1] = a /\ n[Len(n)] = b
<1>2. ASSUME NEW S, NEW a \in S, NEW b \in S
      PROVE  /\ <<a, b>> \in Seq(S) /\ Ends(<<a, b>>, a, b)
             /\ \A h \in S : <<h>> \o <<a, b>> \in Seq(S) /\ Ends(<<h>> \o <<a, b>>, a, b)
             /\ \A c, d, e, f \in S : <<c, d, e, f>> \o <<a, b>> \in Seq(S)
                                      /\ Ends(<<c, d, e, f>> \o <<a, b>>, a, b)
  OBVIOUS
<1> DEFINE L == STRING
<1>3. "_" \in L /\ "tcp" \in L
  BY Zenon, LiteralsAreStrings
<1>4. \A p \in L : (IF p = "" THEN "tcp" ELSE p) \in L
  BY <1>3, Zenon
<1>5. Name = Seq(L) /\ svc.name \in L /\ svc.ns \in L
  BY <1>1 DEF Name
<1> HIDE DEF Ends, L
<1>6. /\ <<svc.name, svc.ns>> \in Seq(L) /\ Ends(<<svc.name, svc.ns>>, svc.name, svc.ns)
      /\ \A h \in L : <<h>> \o <<svc.name, svc.ns>> \in Seq(L)
                      /\ Ends(<<h>> \o <<svc.name, svc.ns>>, svc.name, svc.ns)
      /\ \A c, d, e, f \in L : <<c, d, e, f>> \o <<svc.name, svc.ns>> \in Seq(L)
                      /\ Ends(<<c, d, e, f>> \o <<svc.name, svc.ns>>, svc.name, svc.ns)
  BY <1>2, <1>5
<1>7. \A p \in L : SRVName(svc, p) \in Seq(L) /\ Ends(SRVName(svc, p), svc.name, svc.ns)
  <2> TAKE p \in L
  <2> DEFINE q == IF p = "" THEN "tcp" ELSE p
             u == "_"
  <2>1. SRVName(svc, p) = <<u, svc.name, u, q>> \o <<svc.name, svc.ns>>
    BY DEF SRVName, Hostname
  <2>2. q \in L /\ u \in L
    BY <1>3, <1>4, Zenon
  <2> HIDE DEF q, u
  <2>3. QED
    BY <1>5, <1>6, <2>1, <2>2
<1>8. QED
  BY <1>5, <1>6, <1>7 DEF NamedFor, Ends, L, Hostname

-------------------------------------------------------------------------------
\* The records for a service's own name (generateEndpoints).
LEMMA HostnameOfService ==
  ASSUME NEW svc \in ServiceResource, NEW targets \in Seq(Target)
  PROVE  /\ ServiceRecords(svc, targets) \in Seq(Fit)
         /\ \A e \in ToSet(ServiceRecords(svc, targets)) :
              OfService(e, svc) /\ e.recordType \in {"A", "AAAA", "CNAME"}
         /\ Separate(ToSet(ServiceRecords(svc, targets)))
         /\ ContentOf(ServiceRecords(svc, targets)) = HostContent(Hostname(svc), ToSet(targets), "")
<1> DEFINE host == Hostname(svc)
           ttl == GetTTLFromAnnotations(svc.ann)
           none == ""
           eps == EndpointsForHostname(host, targets, ttl, 0, none, svc.resource)
           Rec(type) == TypedRecord(host, type, OfType(targets, type), ttl, 0, none, svc.resource)
           Three == {"A", "AAAA", "CNAME"}
<1>1. host \in Name /\ NamedFor(host, svc) /\ ttl \in Nat /\ svc.resource \in Nat /\ 0 \in Nat
  BY Names, TTLType DEF ServiceResource
<1>2. none \in STRING
  BY Zenon, LiteralsAreStrings
<1>3. ServiceRecords(svc, targets) = eps
  BY DEF ServiceRecords
<1> HIDE DEF host, ttl, none
<1>4. eps \in Seq(Fit) /\ ToSet(eps) = RecordsFor(host, targets, ttl, 0, none, svc.resource)
  BY ZenonT(60), <1>1, <1>2, HostnameRecords
<1>5. ContentOf(eps) = HostContent(host, ToSet(targets), none)
  BY <1>1, <1>2, HostContentType
<1> HIDE DEF eps
<1>6. \A e \in ToSet(eps) : \E type \in Three : e = Rec(type)
  BY <1>4 DEF RecordsFor
<1>7. \A type : /\ Rec(type).dnsName = host /\ Rec(type).setIdentifier = none
                /\ Rec(type).ttl = ttl /\ Rec(type).recordType = type
  BY DEF TypedRecord
<1> HIDE DEF Rec
<1>8. \A e \in ToSet(eps) : e \in Fit
  BY <1>4 DEF ToSet
<1>9. \A e \in ToSet(eps) : OfService(e, svc) /\ e.recordType \in Three
  <2> TAKE e \in ToSet(eps)
  <2>1. PICK type \in Three : e = Rec(type)
    BY <1>6
  <2>2. e.dnsName = host /\ e.setIdentifier = none /\ e.ttl = ttl /\ e.recordType = type
    BY <1>7, <2>1
  <2>3. e \in Fit
    BY <1>8
  <2> HIDE DEF Three
  <2>4. e.recordType \in Three
    BY <2>1, <2>2
  <2>5. NamedFor(e.dnsName, svc)
    BY <1>1, <2>2
  <2>6. OfService(e, svc)
    BY <2>2, <2>3, <2>5, Zenon DEF OfService, ttl, none
  <2>7. QED
    BY <2>4, <2>6
<1>10. Separate(ToSet(eps))
  <2> SUFFICES ASSUME NEW e \in ToSet(eps), NEW f \in ToSet(eps), Cell(e) = Cell(f) PROVE e = f
    BY DEF Separate
  <2>1. e.recordType = f.recordType
    BY DEF Cell
  <2>2. QED
    BY <1>6, <1>7, <2>1
<1>11. QED
  BY Zenon, <1>3, <1>4, <1>5, <1>9, <1>10 DEF host, none

\* Records with the ports of a service.
LEMMA PortsOfService ==
  ASSUME NEW svc \in ServiceResource
  PROVE  /\ ExtractNodePortEndpoints(svc) \in Seq(Fit)
         /\ \A e \in ToSet(ExtractNodePortEndpoints(svc)) :
              OfService(e, svc) /\ e.recordType = "SRV" /\ Len(e.targets) = 1
<1> DEFINE P == [nodePort : Port \cup {0}, protocol : STRING]
           S == {p \in ToSet(svc.ports) : p.nodePort > 0}
           ports == Only(svc.ports, S)
           ttl == GetTTLFromAnnotations(svc.ann)
           New(p) == NewEndpointWithTTL(SRVName(svc, p.protocol), "SRV", ttl, <<p.nodePort>>)
           eps == [i \in DOMAIN ports |-> New(ports[i])]
           Good(e) == e \in Fit /\ OfService(e, svc) /\ e.recordType = "SRV" /\ Len(e.targets) = 1
<1>1. svc.ports \in Seq(P)
  BY DEF ServiceResource
<1>2. ExtractNodePortEndpoints(svc) = NotNil(eps)
  BY DEF ExtractNodePortEndpoints
<1>3. ttl \in Nat
  BY TTLType
<1>4. S \subseteq ToSet(svc.ports) /\ \A p \in S : p.nodePort > 0
  OBVIOUS
<1> HIDE DEF S
<1>5. ports \in Seq(P) /\ ToSet(ports) = S
  <2> HIDE DEF P
  <2>1. QED
    BY <1>1, <1>4, OnlyThose
<1> HIDE DEF ports
<1>6. \A i \in DOMAIN ports : ports[i] \in P /\ ports[i].nodePort > 0
  <2>1. \A i \in DOMAIN ports : ports[i] \in P
    <3> HIDE DEF P
    <3>1. QED
      BY <1>5
  <2>2. \A i \in DOMAIN ports : ports[i] \in S
    BY <1>5 DEF ToSet
  <2>3. QED
    BY <1>4, <2>1, <2>2
<1>7. ASSUME NEW p \in P, p.nodePort > 0
      PROVE  New(p) = Nil \/ Good(New(p))
  <2> DEFINE name == SRVName(svc, p.protocol)
             none == ""
             targets == <<p.nodePort>>
             e == RecordWith(name, "SRV", none, targets, ttl, 0, NoLabels)
  <2>1. p.nodePort \in Port /\ p.protocol \in STRING
    BY <1>7
  <2>2. name \in Name /\ NamedFor(name, svc)
    BY <2>1, Names
  <2>3. CASE TooLong(name)
    BY <2>3 DEF NewEndpointWithTTL
  <2>4. CASE ~TooLong(name)
    <3>1. New(p) = e
      BY <2>4 DEF NewEndpointWithTTL, RecordWith
    <3>2. none \in STRING
      BY Zenon, LiteralsAreStrings
    <3>3. targets \in Seq(Target \cup Port) /\ targets # <<>> /\ Len(targets) = 1
          /\ \A j \in DOMAIN targets : SuitableType(targets[j]) = "SRV"
      BY <2>1, TargetTypes
    <3>4. NoLabels \in [resource : Nat, mesh : BOOLEAN, dualstack : BOOLEAN]
      BY DEF NoLabels
    <3>5. "SRV" \in RecordTypes /\ 0 \in Nat
      BY DEF RecordTypes
    <3>6. /\ e.dnsName = name /\ e.recordType = "SRV" /\ e.setIdentifier = none /\ e.targets = targets
          /\ e.ttl = ttl
      BY DEF RecordWith
    <3> HIDE DEF name, none, targets
    <3>7. e \in Fit
      BY <1>3, <2>2, <2>4, <3>2, <3>3, <3>4, <3>5, RecordFields DEF RecordWith
    <3> HIDE DEF e
    <3>8. OfService(e, svc)
      BY Zenon, <2>2, <3>6, <3>7 DEF OfService, none
    <3>9. QED
      BY <3>1, <3>3, <3>6, <3>7, <3>8
  <2>5. QED
    BY <2>3, <2>4
<1>8. IsFunction(eps, DOMAIN ports) /\ \A i \in DOMAIN ports : eps[i] = New(ports[i])
  BY DEF IsFunction
<1> DEFINE G == {e \in Fit : Good(e)}
<1> HIDE DEF New, eps, P
<1>9. \A i \in DOMAIN ports : eps[i] \in G \cup {Nil}
  BY <1>6, <1>7, <1>8
<1>10. eps \in Seq(G \cup {Nil})
  BY <1>5, <1>8, <1>9, ListOf
<1>11. NotNil(eps) \in Seq(G)
  <2> DEFINE T == ToSet(eps) \ {Nil}
  <2>1. Only(eps, T) \in Seq(ToSet(eps) \cap T)
    <3> HIDE DEF T
    <3>1. QED
      BY <1>10, OnlyType
  <2>2. ToSet(eps) \subseteq G \cup {Nil}
    BY <1>10 DEF ToSet
  <2>3. ToSet(eps) \cap T \subseteq G
    BY <2>2
  <2> HIDE DEF T
  <2>4. Only(eps, T) \in Seq(G)
    BY <2>1, <2>3
  <2>5. QED
    BY <2>4 DEF NotNil, T
<1>12. NotNil(eps) \in Seq(Fit) /\ \A e \in ToSet(NotNil(eps)) : Good(e)
  <2> DEFINE s == NotNil(eps)
  <2> HIDE DEF s, Good
  <2>1. s \in Seq(G)
    BY <1>11 DEF s
  <2>2. \A i \in DOMAIN s : s[i] \in G
    BY <2>1
  <2>3. QED
    BY <2>1, <2>2 DEF ToSet, s
<1>13. QED
  BY <1>2, <1>12

-------------------------------------------------------------------------------
\* The lists made for each element of a list, one after the other.
LEMMA FlatMap ==
  ASSUME NEW S, NEW s \in Seq(S), NEW T, NEW f, IsFunction(f, DOMAIN s),
         \A i \in DOMAIN s : f[i] \in Seq(T)
  PROVE  /\ FlattenSeq(f) \in Seq(T)
         /\ ToSet(FlattenSeq(f)) = UNION {ToSet(f[i]) : i \in DOMAIN s}
         /\ ContentOf(FlattenSeq(f)) = UNION {ContentOf(f[i]) : i \in DOMAIN s}
<1> DEFINE Q == Seq(T)
<1>1. f \in Seq(Q) /\ DOMAIN f = DOMAIN s
  <2> HIDE DEF Q
  <2>1. \A i \in DOMAIN s : f[i] \in Q
    BY DEF Q
  <2>2. QED
    BY <2>1, ListOf
<1>2. QED
  BY <1>1, Flattened, ContentOfJoined

(***************************************************************************)
(* Headless services.                                                      *)
(***************************************************************************)
HeadlessPairs(svc, pod, ip, v) ==
  UNION {PairsFor(n, ToSet(HeadlessTargets(svc, pod, ip, v)), 0) : n \in ToSet(HeadlessNames(svc, pod))}

\* Pairs of a name of the service and a target of the pair's type.
PairOf(svc) == {p \in Pair : p.type = SuitableType(p.target) /\ NamedFor(p.name, svc)}

\* The names of a headless service's pod are the service's.
LEMMA HeadlessNamesType ==
  ASSUME NEW svc \in ServiceResource, NEW pod \in PodResource
  PROVE  /\ HeadlessNames(svc, pod) \in Seq(Name)
         /\ \A n \in ToSet(HeadlessNames(svc, pod)) : n \in Name /\ NamedFor(n, svc)
<1> DEFINE N == {n \in Name : NamedFor(n, svc)}
           own == Hostname(svc)
           more == <<pod.hostname>> \o Hostname(svc)
<1>1. own \in N
  BY Names
<1>2. more \in N
  <2>1. pod.hostname \in STRING
    BY DEF PodResource
  <2>2. QED
    BY <2>1, Names
<1>3. N \subseteq Name /\ \A n \in N : NamedFor(n, svc)
  OBVIOUS
<1>4. HeadlessNames(svc, pod) = <<own>> \o (IF pod.hostname = "" THEN <<>> ELSE <<more>>)
  BY DEF HeadlessNames
<1> HIDE DEF own, more, N
<1>5. HeadlessNames(svc, pod) \in Seq(N)
  <2>1. <<own>> \o <<>> \in Seq(N) /\ <<own>> \o <<more>> \in Seq(N)
    BY <1>1, <1>2
  <2>2. CASE pod.hostname = ""
    BY <1>4, <2>1, <2>2, Zenon
  <2>3. CASE pod.hostname # ""
    BY <1>4, <2>1, <2>3, Zenon
  <2>4. QED
    BY Zenon, <2>2, <2>3
<1> DEFINE names == HeadlessNames(svc, pod)
<1> HIDE DEF names
<1>6. \A i \in DOMAIN names : names[i] \in N
  BY <1>5 DEF names
<1>7. names \in Seq(Name)
  BY <1>3, <1>5 DEF names
<1>8. QED
  BY <1>3, <1>6, <1>7 DEF ToSet, names

\* The targets of a headless service's pod whose node is known.
LEMMA HeadlessTargetsType ==
  ASSUME NEW svc \in ServiceResource, NEW pod \in PodResource, NEW ip \in Target,
         NEW v, Typed(v), ~MissesNode(svc, pod, v)
  PROVE  HeadlessTargets(svc, pod, ip, v) \in Seq(Target)
<1>1. pod.ann.target \in Seq(Target) /\ pod.hostIP \in Target
  BY DEF PodResource, Annotations
<1>2. Nodes(v) \in SUBSET NodeResource
  BY DEF Typed, Nodes, ToSet
<1>3. CASE pod.ann.target # <<>>
  BY <1>1, <1>3 DEF HeadlessTargets
<1>4. CASE pod.ann.target = <<>> /\ svc.ann.endpointsType = "NodeExternalIP"
  <2>1. NodeNamed(pod.node, Nodes(v)) # {}
    BY <1>4 DEF MissesNode
  <2>2. NodeTargets(pod, Nodes(v)) \in Seq(Target)
    BY <1>2, <2>1, NodeTargetsType
  <2>3. QED
    BY <1>4, <2>2 DEF HeadlessTargets
<1>5. CASE pod.ann.target = <<>> /\ svc.ann.endpointsType # "NodeExternalIP"
  <2>1. <<pod.hostIP>> \in Seq(Target) /\ <<ip>> \in Seq(Target)
    BY <1>1
  <2>2. QED
    BY <1>5, <2>1 DEF HeadlessTargets
<1>6. QED
  BY <1>3, <1>4, <1>5

\* The pairs of one address of a headless service (extractHeadlessEndpoints).
LEMMA AddressPairsType ==
  ASSUME NEW svc \in ServiceResource, NEW pod \in PodResource, NEW ip \in Target,
         NEW v, Typed(v), ~MissesNode(svc, pod, v)
  PROVE  /\ AddressPairs(svc, pod, ip, v) \in Seq(PairOf(svc))
         /\ ToSet(AddressPairs(svc, pod, ip, v)) = HeadlessPairs(svc, pod, ip, v)
<1> DEFINE names == HeadlessNames(svc, pod)
           targets == HeadlessTargets(svc, pod, ip, v)
           f == [i \in DOMAIN names |-> Pairs(names[i], targets, 0)]
<1>1. targets \in Seq(Target)
  BY HeadlessTargetsType
<1>2. names \in Seq(Name) /\ \A n \in ToSet(names) : n \in Name /\ NamedFor(n, svc)
  BY HeadlessNamesType
<1>3. AddressPairs(svc, pod, ip, v) = FlattenSeq(f)
  BY DEF AddressPairs
<1>4. HeadlessPairs(svc, pod, ip, v) = UNION {PairsFor(n, ToSet(targets), 0) : n \in ToSet(names)}
  BY DEF HeadlessPairs
<1> HIDE DEF names, targets
<1>5. IsFunction(f, DOMAIN names) /\ \A i \in DOMAIN names : f[i] = Pairs(names[i], targets, 0)
  BY DEF IsFunction
<1> HIDE DEF f
<1>6. ASSUME NEW name \in Name, NamedFor(name, svc)
      PROVE  /\ Pairs(name, targets, 0) \in Seq(PairOf(svc))
             /\ ToSet(Pairs(name, targets, 0)) = PairsFor(name, ToSet(targets), 0)
  <2> DEFINE ps == Pairs(name, targets, 0)
  <2>1. ps \in Seq(Pair) /\ ToSet(ps) = PairsFor(name, ToSet(targets), 0)
    <3>1. 0 \in Nat
      OBVIOUS
    <3>2. QED
      BY <1>1, <3>1, PairsType
  <2> HIDE DEF ps
  <2>2. \A i \in DOMAIN ps : ps[i] \in PairsFor(name, ToSet(targets), 0) /\ ps[i] \in Pair
    BY <2>1 DEF ToSet
  <2>3. \A i \in DOMAIN ps : ps[i] \in PairOf(svc)
    BY <1>6, <2>2 DEF PairsFor, PairOf
  <2>4. ps \in Seq(PairOf(svc))
    BY <2>1, <2>3
  <2>5. QED
    BY <2>1, <2>4 DEF ps
<1>7. \A i \in DOMAIN names : names[i] \in Name /\ NamedFor(names[i], svc)
  BY <1>2 DEF ToSet
<1>8. \A i \in DOMAIN names : f[i] \in Seq(PairOf(svc)) /\ ToSet(f[i]) = PairsFor(names[i], ToSet(targets), 0)
  BY <1>5, <1>6, <1>7
<1>9. FlattenSeq(f) \in Seq(PairOf(svc)) /\ ToSet(FlattenSeq(f)) = UNION {ToSet(f[i]) : i \in DOMAIN names}
  BY <1>2, <1>5, <1>8, FlatMap
<1>10. UNION {ToSet(f[i]) : i \in DOMAIN names} = UNION {PairsFor(n, ToSet(targets), 0) : n \in ToSet(names)}
  <2> DEFINE G(n) == PairsFor(n, ToSet(targets), 0)
  <2>1. \A i \in DOMAIN names : ToSet(f[i]) = G(names[i])
    BY <1>8
  <2> HIDE DEF G
  <2>2. {ToSet(f[i]) : i \in DOMAIN names} = {G(n) : n \in ToSet(names)}
    BY SMTT(40), <2>1 DEF ToSet
  <2>3. QED
    BY <2>2 DEF G
<1>11. QED
  BY <1>3, <1>4, <1>9, <1>10
PodFor(svc, a, v) == CHOOSE p \in PodOf(svc, a, v) : TRUE

\* The published addresses of pods.
PodAddresses(svc, v) == {a \in ToSet(PublishedAddresses(svc, v)) : PodOf(svc, a, v) # {}}

HeadlessWell(svc, v) ==
  ~ \E a \in PodAddresses(svc, v) : MissesNode(svc, PodFor(svc, a, v), v)

ServicePairs(svc, v) ==
  UNION {HeadlessPairs(svc, PodFor(svc, a, v), a.ip, v) : a \in PodAddresses(svc, v)}

HeadlessContent(svc, v) ==
  IF HeadlessWell(svc, v)
  THEN {c \in GatheredContent(ServicePairs(svc, v)) : ~TooLong(c[1][1])} ELSE {}

Address == [ip : Target, pod : STRING]

\* The addresses a headless service publishes are addresses.
LEMMA PublishedType ==
  ASSUME NEW svc, NEW v, Typed(v)
  PROVE  PublishedAddresses(svc, v) \in Seq(Address)
<1> DEFINE S == {e \in ToSet(v.endpoints) : e.ns = svc.ns /\ e.name = svc.name}
           objects == Only(v.endpoints, S)
<1>1. v.endpoints \in Seq(EndpointsResource)
  BY DEF Typed
<1>2. PublishedAddresses(svc, v)
        = IF objects = <<>> THEN <<>>
          ELSE IF svc.publishNotReady THEN objects[1].ready \o objects[1].notReady
          ELSE objects[1].ready
  BY DEF PublishedAddresses
<1> HIDE DEF S
<1>3. objects \in Seq(EndpointsResource)
  BY <1>1, OnlyType
<1> HIDE DEF objects
<1>4. <<>> \in Seq(Address)
  OBVIOUS
<1>5. ASSUME objects # <<>>
      PROVE  objects[1].ready \in Seq(Address) /\ objects[1].notReady \in Seq(Address)
  <2>1. objects[1] \in EndpointsResource
    BY <1>3, <1>5
  <2>2. QED
    BY <2>1 DEF EndpointsResource, Address
<1>6. objects # <<>> => objects[1].ready \o objects[1].notReady \in Seq(Address)
  BY <1>5, Concat
<1>7. QED
  BY <1>2, <1>4, <1>5, <1>6

\* The pod of an address that has one.
LEMMA PodForType ==
  ASSUME NEW svc, NEW v, Typed(v), NEW a, PodOf(svc, a, v) # {}
  PROVE  /\ PodFor(svc, a, v) \in PodOf(svc, a, v)
         /\ PodFor(svc, a, v) \in PodResource
<1> DEFINE S == {p \in ToSet(v.pod) : p.ns = svc.ns /\ svc.selector \subseteq p.labels}
<1>1. v.pod \in Seq(PodResource) /\ PodsOf(svc, v) = Only(v.pod, S)
  BY DEF Typed, PodsOf
<1>2. S \subseteq ToSet(v.pod)
  OBVIOUS
<1> HIDE DEF S
<1>3. PodsOf(svc, v) \in Seq(PodResource)
  <2>1. Only(v.pod, S) \in Seq(PodResource)
    BY <1>1, OnlyType
  <2>2. QED
    BY <1>1, <2>1
<1>4. PodFor(svc, a, v) \in PodOf(svc, a, v)
  BY DEF PodFor
<1>5. PodOf(svc, a, v) \subseteq ToSet(PodsOf(svc, v))
  BY DEF PodOf
<1>6. ToSet(PodsOf(svc, v)) \subseteq PodResource
  BY <1>3 DEF ToSet
<1>7. QED
  BY <1>4, <1>5, <1>6

\* The pairs of all addresses of a headless service.
LEMMA ServicePairsType ==
  ASSUME NEW svc \in ServiceResource, NEW v, Typed(v), HeadlessWell(svc, v),
         NEW adr, adr = Only(PublishedAddresses(svc, v), PodAddresses(svc, v)),
         NEW f, IsFunction(f, DOMAIN adr),
         \A i \in DOMAIN adr : f[i] = AddressPairs(svc, PodFor(svc, adr[i], v), adr[i].ip, v)
  PROVE  /\ FlattenSeq(f) \in Seq(PairOf(svc))
         /\ ToSet(FlattenSeq(f)) = ServicePairs(svc, v)
<1> DEFINE A == PodAddresses(svc, v)
           Of(a) == HeadlessPairs(svc, PodFor(svc, a, v), a.ip, v)
<1>1. PublishedAddresses(svc, v) \in Seq(Address)
  BY PublishedType
<1>2. A \subseteq ToSet(PublishedAddresses(svc, v))
  BY DEF PodAddresses
<1>3. \A a \in A : PodOf(svc, a, v) # {} /\ ~MissesNode(svc, PodFor(svc, a, v), v)
  BY DEF PodAddresses, HeadlessWell
<1>4. ServicePairs(svc, v) = UNION {Of(a) : a \in A}
  BY DEF ServicePairs
<1>5. adr = Only(PublishedAddresses(svc, v), A)
  OBVIOUS
<1> HIDE DEF A
<1>6. adr \in Seq(Address) /\ ToSet(adr) = A
  BY <1>1, <1>2, <1>5, OnlyThose
<1>7. ASSUME NEW i \in DOMAIN adr
      PROVE  f[i] \in Seq(PairOf(svc)) /\ ToSet(f[i]) = Of(adr[i])
  <2> DEFINE pod == PodFor(svc, adr[i], v)
             ip == adr[i].ip
  <2>1. adr[i] \in A /\ adr[i] \in Address
    BY <1>6 DEF ToSet
  <2>2. PodOf(svc, adr[i], v) # {} /\ ~MissesNode(svc, pod, v)
    BY <1>3, <2>1
  <2>3. pod \in PodResource
    BY <2>2, PodForType
  <2>4. ip \in Target
    BY <2>1 DEF Address
  <2>5. f[i] = AddressPairs(svc, pod, ip, v)
    OBVIOUS
  <2> HIDE DEF pod, ip
  <2>6. f[i] \in Seq(PairOf(svc)) /\ ToSet(f[i]) = HeadlessPairs(svc, pod, ip, v)
    BY <2>2, <2>3, <2>4, <2>5, AddressPairsType
  <2>7. QED
    BY <2>6 DEF pod, ip
<1>8. FlattenSeq(f) \in Seq(PairOf(svc)) /\ ToSet(FlattenSeq(f)) = UNION {ToSet(f[i]) : i \in DOMAIN adr}
  BY <1>6, <1>7, FlatMap
<1> HIDE DEF Of
<1>9. {ToSet(f[i]) : i \in DOMAIN adr} = {Of(a) : a \in A}
  <2>1. A = {adr[i] : i \in DOMAIN adr}
    BY <1>6 DEF ToSet
  <2>2. \A i \in DOMAIN adr : ToSet(f[i]) = Of(adr[i])
    BY <1>7
  <2>3. QED
    BY <2>1, <2>2
<1>10. QED
  BY <1>4, <1>8, <1>9

\* Leaving out nils leaves the rest.
LEMMA NotNilType ==
  ASSUME NEW G, NEW s \in Seq(G \cup {Nil})
  PROVE  NotNil(s) \in Seq(G) /\ ToSet(NotNil(s)) = ToSet(s) \ {Nil}
<1> DEFINE T == ToSet(s) \ {Nil}
<1>1. T \subseteq ToSet(s)
  OBVIOUS
<1>2. ToSet(s) \subseteq G \cup {Nil}
  BY DEF ToSet
<1>3. NotNil(s) = Only(s, T)
  BY DEF NotNil
<1>4. ToSet(s) \cap T = T /\ T \subseteq G
  BY <1>2
<1> HIDE DEF T
<1>5. Only(s, T) \in Seq(ToSet(s) \cap T) /\ ToSet(Only(s, T)) = ToSet(s) \cap T
  BY OnlyType
<1>6. NotNil(s) \in Seq(G) /\ ToSet(NotNil(s)) = T
  BY <1>3, <1>4, <1>5
<1>7. QED
  BY <1>6 DEF T

\* What becomes of an entry.
EntryEndpoint(w, ttl) == NewEndpointWithTTL(w.name, w.type, ttl, Deduped(w.targets))

\* The record made of an entry of a headless service, or nil if its name is too long.
LEMMA EntryEndpointType ==
  ASSUME NEW svc \in ServiceResource, NEW P, P \subseteq PairOf(svc), NEW w, Gathers(w, P)
  PROVE  LET e == EntryEndpoint(w, GetTTLFromAnnotations(svc.ann))
         IN  IF TooLong(w.name) THEN e = Nil
             ELSE /\ OfService(e, svc) /\ e.dnsName = w.name /\ e.recordType = w.type
                  /\ Says(e) = EntrySays(w)
<1> DEFINE ttl == GetTTLFromAnnotations(svc.ann)
           d == Deduped(w.targets)
           x == [name |-> w.name, type |-> w.type, ttl |-> w.ttl, targets |-> d]
           e == EntryRecord(x, ttl)
<1>1. /\ w.name \in Name /\ w.type \in RecordTypes /\ w.ttl \in Nat /\ w.targets \in Seq(Target)
      /\ w.targets # <<>> /\ ToSet(w.targets) = TargetsIn(P, w.name, w.type)
      /\ \E p \in Alike(P, w.name, w.type) : w.ttl = p.ttl
  BY DEF Gathers, Entry
<1>2. d \in Seq(Target) /\ ToSet(d) = ToSet(w.targets)
  BY <1>1, DedupedType
<1>3. d # <<>>
  <2>1. DOMAIN w.targets # {}
    BY <1>1, NonEmpty
  <2>2. ToSet(d) # {}
    BY <1>2, <2>1 DEF ToSet
  <2>3. DOMAIN d # {}
    BY <2>2 DEF ToSet
  <2>4. QED
    BY <1>2, <2>3, NonEmpty
<1>4. IF TooLong(w.name) THEN EntryEndpoint(w, ttl) = Nil ELSE EntryEndpoint(w, ttl) = e
  BY DEF EntryEndpoint, NewEndpointWithTTL, EntryRecord
<1>5. ttl \in Nat
  BY TTLType
<1> HIDE DEF d
<1>6. x.name = w.name /\ x.type = w.type /\ x.ttl = w.ttl /\ x.targets = d /\ x \in Entry
  BY <1>1, <1>2 DEF Entry
<1> HIDE DEF x
<1>7. Gathers(x, P)
  BY <1>1, <1>2, <1>3, <1>6 DEF Gathers
<1>8. NamedFor(w.name, svc)
  BY <1>1 DEF Alike, PairOf
<1>9. SuitedPairs(P)
  BY DEF SuitedPairs, PairOf
<1>10. \A t \in TargetsIn(P, x.name, x.type) : SuitableType(t) = x.type
  BY <1>9, SuitedTargets
<1>11. Says(e) = EntrySays(x) /\ (~TooLong(x.name) => e \in Fit)
  BY <1>5, <1>7, <1>10, EntryRecordType
<1>12. /\ e.dnsName = w.name /\ e.recordType = w.type /\ e.setIdentifier = "" /\ e.ttl = ttl
  BY <1>6 DEF EntryRecord
<1>13. EntrySays(x) = EntrySays(w)
  BY <1>2, <1>6 DEF EntrySays
<1> HIDE DEF e, ttl
<1>14. ~TooLong(w.name) => OfService(e, svc)
  <2> SUFFICES ASSUME ~TooLong(w.name) PROVE OfService(e, svc)
    OBVIOUS
  <2>1. e \in Fit
    BY <1>6, <1>11
  <2>2. NamedFor(e.dnsName, svc)
    BY Zenon, <1>8, <1>12
  <2>3. QED
    BY <1>12, <2>1, <2>2, Zenon DEF OfService, ttl
<1>15. CASE TooLong(w.name)
  BY <1>4, <1>15 DEF ttl
<1>16. CASE ~TooLong(w.name)
  <2>1. EntryEndpoint(w, ttl) = e
    BY <1>4, <1>16
  <2>2. OfService(e, svc) /\ e.dnsName = w.name /\ e.recordType = w.type /\ Says(e) = EntrySays(w)
    BY Zenon, <1>11, <1>12, <1>13, <1>14, <1>16
  <2>3. QED
    BY <1>16, <2>1, <2>2 DEF ttl
<1>17. QED
  BY <1>15, <1>16

\* extractHeadlessEndpoints: records of the service, one for each cell.
LEMMA HeadlessType ==
  ASSUME NEW svc \in ServiceResource, NEW v, Typed(v)
  PROVE  /\ ExtractHeadlessEndpoints(svc, v) \in Seq(Fit)
         /\ \A e \in ToSet(ExtractHeadlessEndpoints(svc, v)) : OfService(e, svc)
         /\ Separate(ToSet(ExtractHeadlessEndpoints(svc, v)))
         /\ ContentOf(ExtractHeadlessEndpoints(svc, v)) = HeadlessContent(svc, v)
<1> DEFINE ttl == GetTTLFromAnnotations(svc.ann)
           adr == Only(PublishedAddresses(svc, v), PodAddresses(svc, v))
           f == [i \in DOMAIN adr |-> AddressPairs(svc, PodFor(svc, adr[i], v), adr[i].ip, v)]
           pairs == FlattenSeq(f)
           walk == Gathered(pairs)
           news == [i \in DOMAIN walk |-> EntryEndpoint(walk[i], ttl)]
           eps == ExtractHeadlessEndpoints(svc, v)
           P == ToSet(pairs)
<1>1. eps = IF HeadlessWell(svc, v) THEN NotNil(news) ELSE <<>>
  <2>1. ToSet(adr) = PodAddresses(svc, v)
    <3>1. PublishedAddresses(svc, v) \in Seq(Address)
      BY PublishedType
    <3>2. PodAddresses(svc, v) \subseteq ToSet(PublishedAddresses(svc, v))
      BY DEF PodAddresses
    <3>3. QED
      BY <3>1, <3>2, OnlyThose
  <2>2. (\E a \in ToSet(adr) : MissesNode(svc, PodFor(svc, a, v), v)) <=> ~HeadlessWell(svc, v)
    BY <2>1 DEF HeadlessWell
  <2>3. eps = IF \E a \in ToSet(adr) : MissesNode(svc, PodFor(svc, a, v), v) THEN <<>> ELSE NotNil(news)
    BY DEF ExtractHeadlessEndpoints, PodFor, PodAddresses, EntryEndpoint
  <2>4. QED
    BY <2>2, <2>3
<1>2. CASE ~HeadlessWell(svc, v)
  <2>1. eps = <<>> /\ HeadlessContent(svc, v) = {}
    BY <1>1, <1>2 DEF HeadlessContent
  <2>2. eps \in Seq(Fit) /\ ToSet(eps) = {}
    BY <2>1 DEF ToSet
  <2>3. QED
    BY <2>1, <2>2 DEF ContentOf, Separate
<1>3. CASE HeadlessWell(svc, v)
  <2>1. pairs \in Seq(PairOf(svc)) /\ P = ServicePairs(svc, v)
    <3>1. IsFunction(f, DOMAIN adr)
          /\ \A i \in DOMAIN adr : f[i] = AddressPairs(svc, PodFor(svc, adr[i], v), adr[i].ip, v)
      BY DEF IsFunction
    <3> HIDE DEF f
    <3>2. QED
      BY <1>3, <3>1, ServicePairsType
  <2> HIDE DEF pairs
  <2>2. pairs \in Seq(Pair) /\ P \subseteq PairOf(svc)
    BY <2>1 DEF PairOf, ToSet
  <2>3. /\ walk \in Seq(Entry) /\ \A j \in DOMAIN walk : Gathers(walk[j], P)
        /\ \A i, j \in DOMAIN walk : walk[i].name = walk[j].name /\ walk[i].type = walk[j].type => i = j
        /\ {EntrySays(w) : w \in ToSet(walk)} = GatheredContent(P)
    BY <2>2, GatheredType, GatheredSays
  <2>4. IsFunction(news, DOMAIN walk) /\ \A i \in DOMAIN walk : news[i] = EntryEndpoint(walk[i], ttl)
    BY DEF IsFunction
  <2> HIDE DEF walk, P, news
  <2> DEFINE Good(e, w) == OfService(e, svc) /\ e.dnsName = w.name /\ e.recordType = w.type
                           /\ Says(e) = EntrySays(w)
             G == {e \in Fit : OfService(e, svc)}
  <2>5. \A i \in DOMAIN walk : IF TooLong(walk[i].name) THEN news[i] = Nil ELSE Good(news[i], walk[i])
    BY <2>2, <2>3, <2>4, EntryEndpointType
  <2>6. \A i \in DOMAIN walk : news[i] \in G \cup {Nil}
    BY Zenon, <2>5 DEF OfService
  <2>7. news \in Seq(G \cup {Nil}) /\ DOMAIN news = DOMAIN walk
    <3> HIDE DEF G
    <3>1. QED
      BY <2>3, <2>4, <2>6, ListOf
  <2>8. eps \in Seq(G) /\ ToSet(eps) = ToSet(news) \ {Nil}
    <3> HIDE DEF G
    <3>1. eps = NotNil(news)
      BY <1>1, <1>3
    <3>2. QED
      BY <2>7, <3>1, NotNilType
  <2>9. Nil \notin Fit
    BY NilIsNoRecord DEF Fit
  <2> HIDE DEF eps, Good
  <2>10. \A e \in ToSet(eps) : \E i \in DOMAIN walk : ~TooLong(walk[i].name) /\ e = news[i] /\ Good(e, walk[i])
    BY <2>5, <2>7, <2>8 DEF ToSet
  <2>11. \A i \in DOMAIN walk : ~TooLong(walk[i].name) => news[i] \in ToSet(eps)
    BY Zenon, <2>5, <2>7, <2>8, <2>9 DEF ToSet, Good, OfService
  <2>12. Separate(ToSet(eps))
    <3> SUFFICES ASSUME NEW e \in ToSet(eps), NEW g \in ToSet(eps), Cell(e) = Cell(g) PROVE e = g
      BY DEF Separate
    <3>1. e.dnsName = g.dnsName /\ e.recordType = g.recordType
      BY DEF Cell
    <3>2. PICK i \in DOMAIN walk : e = news[i] /\ Good(e, walk[i])
      BY <2>10
    <3>3. PICK j \in DOMAIN walk : g = news[j] /\ Good(g, walk[j])
      BY <2>10
    <3>4. i = j
      BY <2>3, <3>1, <3>2, <3>3 DEF Good
    <3>5. QED
      BY <3>2, <3>3, <3>4
  <2>13. ContentOf(eps) = {EntrySays(walk[i]) : i \in {j \in DOMAIN walk : ~TooLong(walk[j].name)}}
    <3>1. ASSUME NEW c \in ContentOf(eps)
          PROVE  \E i \in DOMAIN walk : ~TooLong(walk[i].name) /\ c = EntrySays(walk[i])
      BY <2>10, <3>1 DEF ContentOf, Good
    <3>2. ASSUME NEW i \in DOMAIN walk, ~TooLong(walk[i].name)
          PROVE  EntrySays(walk[i]) \in ContentOf(eps)
      <4>1. Says(news[i]) = EntrySays(walk[i])
        BY <2>5, <3>2 DEF Good
      <4>2. QED
        BY <2>11, <3>2, <4>1 DEF ContentOf
    <3>3. QED
      BY <3>1, <3>2
  <2>14. {EntrySays(walk[i]) : i \in {j \in DOMAIN walk : ~TooLong(walk[j].name)}}
           = {c \in GatheredContent(P) : ~TooLong(c[1][1])}
    <3>1. GatheredContent(P) = {EntrySays(walk[i]) : i \in DOMAIN walk}
      BY <2>3 DEF ToSet
    <3>2. \A i \in DOMAIN walk : EntrySays(walk[i])[1][1] = walk[i].name
      BY DEF EntrySays
    <3>3. QED
      BY <3>1, <3>2
  <2>15. HeadlessContent(svc, v) = {c \in GatheredContent(P) : ~TooLong(c[1][1])}
    BY <1>3, <2>1 DEF HeadlessContent
  <2>16. eps \in Seq(Fit)
    BY <2>8
  <2>17. \A e \in ToSet(eps) : OfService(e, svc)
    BY <2>10 DEF Good
  <2>18. QED
    BY <2>12, <2>13, <2>14, <2>15, <2>16, <2>17 DEF eps
<1>4. QED
  BY <1>2, <1>3

-------------------------------------------------------------------------------
(***************************************************************************)
(* Services with a port on every node.                                     *)
(***************************************************************************)
LEMMA PickedSet ==
  ASSUME NEW S, NEW s \in Seq(S), NEW I, I \subseteq DOMAIN s
  PROVE  Picked(s, I) \in Seq(S) /\ ToSet(Picked(s, I)) = {s[i] : i \in I}
<1> DEFINE t == Picked(s, I)
<1>1. t \in Seq(S) /\ \E h : Picks(h, t, s, I, Len(s))
  BY PickedType
<1> HIDE DEF t
<1>2. PICK h : Picks(h, t, s, I, Len(s))
  BY <1>1
<1>3. DOMAIN t = 1 .. Len(t) /\ DOMAIN s = 1 .. Len(s)
  BY <1>1
<1>4. \A k \in DOMAIN t : h[k] \in I /\ t[k] = s[h[k]]
  BY <1>2, <1>3 DEF Picks
<1>5. \A i \in I : \E k \in DOMAIN t : h[k] = i
  BY <1>2, <1>3 DEF Picks
<1>6. ToSet(t) = {s[i] : i \in I}
  BY <1>4, <1>5 DEF ToSet
<1>7. QED
  BY <1>1, <1>6 DEF t

NodeFor(name, nodes) == CHOOSE n \in NodeNamed(name, nodes) : TRUE

RunningPods(svc, v) ==
  {p \in ToSet(v.pod) : /\ p.ns = svc.ns /\ svc.selector \subseteq p.labels
                        /\ p.phase = "Running" /\ NodeNamed(p.node, Nodes(v)) # {}}

ReadyPods(svc, v) == {p \in RunningPods(svc, v) : IsPodStatusReady(p)}
StayingPods(svc, v) == {p \in ReadyPods(svc, v) : ~p.deleting}

\* The names of the nodes that answer for the service.
LocalNodeNames(svc, v) ==
  {p.node : p \in IF StayingPods(svc, v) # {} THEN StayingPods(svc, v)
                  ELSE IF ReadyPods(svc, v) # {} THEN ReadyPods(svc, v) ELSE RunningPods(svc, v)}

\* The pods listed first on their nodes: running ones, one for each node that has any.
LEMMA FirstsOfNodes ==
  ASSUME NEW svc, NEW v, Typed(v)
  PROVE  /\ FirstOnTheirNodes(svc, v) \in Seq(PodResource)
         /\ ToSet(FirstOnTheirNodes(svc, v)) \subseteq RunningPods(svc, v)
         /\ \A p \in RunningPods(svc, v) :
              \E q \in ToSet(FirstOnTheirNodes(svc, v)) : q.node = p.node
<1> DEFINE S == {p \in ToSet(v.pod) : p.ns = svc.ns /\ svc.selector \subseteq p.labels}
           U == {p \in ToSet(v.pod) : p.phase = "Running" /\ NodeNamed(p.node, Nodes(v)) # {}}
           R == RunningPods(svc, v)
           running == Only(PodsOf(svc, v), U)
           nodes == [i \in DOMAIN running |-> running[i].node]
           firsts == Picked(running, Firsts(nodes))
<1>1. FirstOnTheirNodes(svc, v) = firsts
  BY DEF FirstOnTheirNodes
<1>2. v.pod \in Seq(PodResource) /\ PodsOf(svc, v) = Only(v.pod, S)
  BY DEF Typed, PodsOf
<1>3. S \subseteq ToSet(v.pod) /\ S \cap U = R
  BY DEF RunningPods
<1> HIDE DEF S, U, R
<1>4. PodsOf(svc, v) \in Seq(PodResource) /\ ToSet(PodsOf(svc, v)) = S
  <2>1. Only(v.pod, S) \in Seq(PodResource) /\ ToSet(Only(v.pod, S)) = S
    BY <1>2, <1>3, OnlyThose
  <2>2. QED
    BY <1>2, <2>1
<1>5. running \in Seq(PodResource) /\ ToSet(running) = R
  <2>1. running \in Seq(PodResource) /\ ToSet(running) = ToSet(PodsOf(svc, v)) \cap U
    BY <1>4, OnlyType
  <2>2. QED
    BY <1>3, <1>4, <2>1
<1> HIDE DEF running
<1>6. IsFunction(nodes, DOMAIN running) /\ \A i \in DOMAIN running : nodes[i] = running[i].node
  BY DEF IsFunction
<1> HIDE DEF nodes
<1>7. nodes \in Seq(STRING) /\ DOMAIN nodes = DOMAIN running
  <2>1. \A i \in DOMAIN running : running[i] \in PodResource
    BY <1>5
  <2>2. \A i \in DOMAIN running : nodes[i] \in STRING
    BY <1>6, <2>1 DEF PodResource
  <2> DEFINE L == STRING
  <2>3. \A i \in DOMAIN running : nodes[i] \in L
    BY <2>2
  <2> HIDE DEF L
  <2>4. nodes \in Seq(L) /\ DOMAIN nodes = DOMAIN running
    BY <1>5, <1>6, <2>3, ListOf
  <2>5. QED
    BY <2>4 DEF L
<1>8. Firsts(nodes) \subseteq DOMAIN running
  BY <1>7 DEF Firsts
<1>9. firsts \in Seq(PodResource) /\ ToSet(firsts) = {running[i] : i \in Firsts(nodes)}
  BY <1>5, <1>8, PickedSet
<1> HIDE DEF firsts
<1>10. ToSet(firsts) \subseteq R
  BY <1>5, <1>8, <1>9 DEF ToSet
<1>11. ASSUME NEW p \in R
       PROVE  \E q \in ToSet(firsts) : q.node = p.node
  <2>1. PICK i \in DOMAIN running : running[i] = p
    BY <1>5 DEF ToSet
  <2>2. PICK j \in Firsts(nodes) : nodes[j] = nodes[i]
    BY <1>7, <2>1, FirstOf
  <2>3. j \in DOMAIN running /\ nodes[j] = running[j].node /\ nodes[i] = running[i].node
    BY <1>6, <1>8, <2>1, <2>2
  <2>4. running[j] \in ToSet(firsts)
    BY <1>9, <2>2
  <2>5. QED
    BY <2>1, <2>2, <2>3, <2>4
<1>12. QED
  BY <1>1, <1>9, <1>10, <1>11 DEF R

\* A list is empty when it has no elements.
LEMMA NothingPicked ==
  ASSUME NEW S, NEW s \in Seq(S)
  PROVE  s = <<>> <=> ToSet(s) = {}
BY NonEmpty DEF ToSet

\* Those of the pods listed first that are ready, and those that stay as well.
FirstReady(svc, v) == {p \in ToSet(FirstOnTheirNodes(svc, v)) : IsPodStatusReady(p)}
FirstStaying(svc, v) == {p \in FirstReady(svc, v) : ~p.deleting}

\* The pods a local policy goes by (extractNodePortTargets).
LEMMA LocalPodsFound ==
  ASSUME NEW svc, NEW v, Typed(v)
  PROVE  /\ LocalPods(svc, v) \in Seq(PodResource)
         /\ ToSet(LocalPods(svc, v)) =
              IF FirstStaying(svc, v) # {} THEN FirstStaying(svc, v)
              ELSE IF FirstReady(svc, v) # {} THEN FirstReady(svc, v)
              ELSE ToSet(FirstOnTheirNodes(svc, v))
<1> DEFINE firsts == FirstOnTheirNodes(svc, v)
           F == ToSet(firsts)
           R == RunningPods(svc, v)
           A == {p \in F : IsPodStatusReady(p)}
           ready == Only(firsts, A)
           B == {p \in A : ~p.deleting}
           C == {p \in ToSet(ready) : ~p.deleting}
           staying == Only(ready, C)
<1>1. LocalPods(svc, v) = IF staying # <<>> THEN staying ELSE IF ready # <<>> THEN ready ELSE firsts
  BY DEF LocalPods
<1>2. firsts \in Seq(PodResource) /\ F \subseteq R /\ \A p \in R : \E q \in F : q.node = p.node
  BY FirstsOfNodes
<1>3. A \subseteq F /\ B \subseteq A
  OBVIOUS
<1> HIDE DEF firsts
<1>4. ready \in Seq(PodResource) /\ ToSet(ready) = A
  <2> HIDE DEF A
  <2>1. QED
    BY <1>2, <1>3, OnlyThose
<1>5. C = B
  BY <1>4
<1> HIDE DEF ready
<1>6. staying \in Seq(PodResource) /\ ToSet(staying) = B
  <2>1. C \subseteq ToSet(ready)
    BY <1>3, <1>4, <1>5
  <2> HIDE DEF B, C
  <2>2. QED
    BY <1>4, <1>5, <2>1, OnlyThose
<1> HIDE DEF staying
<1>7. /\ LocalPods(svc, v) \in Seq(PodResource)
      /\ ToSet(LocalPods(svc, v)) = IF B # {} THEN B ELSE IF A # {} THEN A ELSE F
  <2> HIDE DEF A, B
  <2>1. (staying # <<>> <=> B # {}) /\ (ready # <<>> <=> A # {})
    BY <1>4, <1>6, NothingPicked
  <2> HIDE DEF F
  <2>2. ToSet(firsts) = F
    BY DEF F
  <2>3. CASE B # {}
    BY <1>1, <1>6, <2>1, <2>3
  <2>4. CASE B = {} /\ A # {}
    BY <1>1, <1>4, <2>1, <2>4
  <2>5. CASE B = {} /\ A = {}
    BY <1>1, <1>2, <2>1, <2>2, <2>5
  <2>6. QED
    BY <2>3, <2>4, <2>5
<1>8. A = FirstReady(svc, v) /\ B = FirstStaying(svc, v) /\ F = ToSet(FirstOnTheirNodes(svc, v))
  BY DEF FirstReady, FirstStaying, firsts
<1> HIDE DEF A, B, F
<1>9. QED
  BY <1>7, <1>8

\* The running pods of a node are in one condition.
Settled(svc, pods) ==
  svc.externalTrafficPolicy = "Local" =>
    \A p, q \in RunningFor(svc, pods) : p.node = q.node => Condition(p) = Condition(q)

\* If the pods of a node are in one condition, the nodes of a local policy do not
\* depend on which pod is first.
LEMMA LocalPodsType ==
  ASSUME NEW svc, NEW v, Typed(v)
  PROVE  /\ LocalPods(svc, v) \in Seq(PodResource)
         /\ ToSet(LocalPods(svc, v)) \subseteq RunningPods(svc, v)
         /\ Settled(svc, ToSet(v.pod)) /\ svc.externalTrafficPolicy = "Local" =>
              {p.node : p \in ToSet(LocalPods(svc, v))} = LocalNodeNames(svc, v)
<1> DEFINE F == ToSet(FirstOnTheirNodes(svc, v))
           R == RunningPods(svc, v)
           A == {p \in F : IsPodStatusReady(p)}
           B == {p \in A : ~p.deleting}
<1>2. F \subseteq R /\ \A p \in R : \E q \in F : q.node = p.node
  BY FirstsOfNodes
<1>3. A \subseteq F /\ B \subseteq A
  OBVIOUS
<1>7. /\ LocalPods(svc, v) \in Seq(PodResource)
      /\ ToSet(LocalPods(svc, v)) = IF B # {} THEN B ELSE IF A # {} THEN A ELSE F
  BY LocalPodsFound DEF FirstReady, FirstStaying
<1>8. ASSUME Settled(svc, ToSet(v.pod)), svc.externalTrafficPolicy = "Local"
      PROVE  {p.node : p \in ToSet(LocalPods(svc, v))} = LocalNodeNames(svc, v)
  <2> DEFINE RA == ReadyPods(svc, v)
             RB == StayingPods(svc, v)
  <2>1. R \subseteq RunningFor(svc, ToSet(v.pod))
    BY DEF RunningPods, RunningFor
  <2>2. RA = {p \in R : IsPodStatusReady(p)} /\ RB = {p \in RA : ~p.deleting}
    BY DEF ReadyPods, StayingPods
  <2>3. \A p, q \in R : p.node = q.node =>
          /\ IsPodStatusReady(p) <=> IsPodStatusReady(q)
          /\ IsPodStatusReady(p) => (p.deleting <=> q.deleting)
    <3> TAKE p \in R, q \in R
    <3> HAVE p.node = q.node
    <3>1. Condition(p) = Condition(q)
      BY <1>8, <2>1 DEF Settled
    <3>2. QED
      BY <3>1 DEF Condition
  <2> HIDE DEF F, R
  <2>4. A \subseteq RA /\ \A p \in RA : \E q \in A : q.node = p.node
    <3>1. ASSUME NEW p \in RA PROVE \E q \in A : q.node = p.node
      <4>1. p \in R /\ IsPodStatusReady(p)
        BY <2>2
      <4>2. PICK q \in F : q.node = p.node
        BY <1>2, <4>1
      <4>3. q \in R
        BY <1>2, <4>2
      <4>4. IsPodStatusReady(q)
        BY <2>3, <4>1, <4>2, <4>3
      <4>5. QED
        BY <4>2, <4>4
    <3>2. QED
      BY <1>2, <2>2, <3>1
  <2>5. B \subseteq RB /\ \A p \in RB : \E q \in B : q.node = p.node
    <3>1. ASSUME NEW p \in RB PROVE \E q \in B : q.node = p.node
      <4>1. p \in R /\ p \in RA /\ IsPodStatusReady(p) /\ ~p.deleting
        BY <2>2
      <4>2. PICK q \in A : q.node = p.node
        BY <2>4, <4>1
      <4>3. q \in R
        BY <1>2, <4>2
      <4>4. ~q.deleting
        BY <2>3, <4>1, <4>2, <4>3
      <4>5. QED
        BY <4>1, <4>2, <4>4
    <3>2. QED
      BY <1>2, <2>2, <2>4, <3>1
  <2>6. LocalNodeNames(svc, v) = {p.node : p \in IF RB # {} THEN RB ELSE IF RA # {} THEN RA ELSE R}
    BY DEF LocalNodeNames, R
  <2> HIDE DEF A, B, RA, RB
  <2>7. (B # {} <=> RB # {}) /\ (A # {} <=> RA # {})
    BY <2>4, <2>5
  <2>8. {p.node : p \in B} = {p.node : p \in RB}
    BY <2>5
  <2>9. {p.node : p \in A} = {p.node : p \in RA}
    BY <2>4
  <2>10. {p.node : p \in F} = {p.node : p \in R}
    BY <1>2
  <2>11. CASE B # {}
    BY <1>7, <2>6, <2>7, <2>8, <2>11
  <2>12. CASE B = {} /\ A # {}
    BY <1>7, <2>6, <2>7, <2>9, <2>12
  <2>13. CASE B = {} /\ A = {}
    BY <1>7, <2>6, <2>7, <2>10, <2>13
  <2>14. QED
    BY <2>11, <2>12, <2>13
<1>9. ToSet(LocalPods(svc, v)) \subseteq R
  BY <1>2, <1>3, <1>7
<1>10. QED
  BY <1>7, <1>8, <1>9

\* Whichever pod is first, nodes whose running pods all stay are among those of a
\* local policy, and if there are any, nodes without a pod that stays are not.
LEMMA LocalPodsBounds ==
  ASSUME NEW svc, NEW v, Typed(v),
         NEW sure, sure = {p \in StayingPods(svc, v) : \A q \in RunningPods(svc, v) :
                             q.node = p.node => q \in StayingPods(svc, v)}
  PROVE  /\ \A p \in sure : \E q \in ToSet(LocalPods(svc, v)) : q.node = p.node
         /\ sure # {} => ToSet(LocalPods(svc, v)) \subseteq StayingPods(svc, v)
<1> DEFINE F == ToSet(FirstOnTheirNodes(svc, v))
           B == FirstStaying(svc, v)
           L == ToSet(LocalPods(svc, v))
<1>1. F \subseteq RunningPods(svc, v) /\ \A p \in RunningPods(svc, v) : \E q \in F : q.node = p.node
  BY FirstsOfNodes
<1>2. B # {} => L = B
  BY LocalPodsFound
<1>3. StayingPods(svc, v) \subseteq RunningPods(svc, v) /\ B = F \cap StayingPods(svc, v)
  BY <1>1 DEF StayingPods, ReadyPods, FirstStaying, FirstReady
<1> HIDE DEF F, B, L
<1>4. \A p \in sure : \E q \in B : q.node = p.node
  <2> TAKE p \in sure
  <2>1. p \in RunningPods(svc, v)
    BY <1>3
  <2>2. PICK q \in F : q.node = p.node
    BY <1>1, <2>1
  <2>3. q \in StayingPods(svc, v)
    BY <1>1, <2>2
  <2>4. QED
    BY <1>3, <2>2, <2>3
<1>5. sure # {} => L = B
  BY <1>2, <1>4
<1>6. QED
  BY <1>3, <1>4, <1>5 DEF L

\* The nodes whose addresses are published.
TargetNodeSet(svc, v) ==
  IF svc.externalTrafficPolicy = "Local"
  THEN {NodeFor(name, Nodes(v)) : name \in LocalNodeNames(svc, v)} ELSE Nodes(v)

\* The nodes a NodePort service points at (extractNodePortTargets).
LEMMA TargetNodesType ==
  ASSUME NEW svc, NEW v, Typed(v)
  PROVE  /\ TargetNodes(svc, v) \in Seq(NodeResource)
         /\ Settled(svc, ToSet(v.pod)) => ToSet(TargetNodes(svc, v)) = TargetNodeSet(svc, v)
<1> DEFINE pods == LocalPods(svc, v)
           Node(name) == NodeFor(name, Nodes(v))
           nodes == [i \in DOMAIN pods |-> Node(pods[i].node)]
<1>1. v.node \in Seq(NodeResource) /\ Nodes(v) = ToSet(v.node)
  BY DEF Typed, Nodes
<1>2. TargetNodes(svc, v) = IF svc.externalTrafficPolicy = "Local" THEN nodes ELSE v.node
  BY DEF TargetNodes, NodesOf, NodeFor
<1>3. CASE svc.externalTrafficPolicy # "Local"
  BY <1>1, <1>2, <1>3 DEF TargetNodeSet
<1>4. CASE svc.externalTrafficPolicy = "Local"
  <2>1. /\ pods \in Seq(PodResource) /\ ToSet(pods) \subseteq RunningPods(svc, v)
        /\ Settled(svc, ToSet(v.pod)) => {p.node : p \in ToSet(pods)} = LocalNodeNames(svc, v)
    BY <1>4, LocalPodsType
  <2> HIDE DEF pods
  <2>2. \A name : NodeNamed(name, Nodes(v)) # {} => Node(name) \in NodeResource
    <3> TAKE name
    <3> HAVE NodeNamed(name, Nodes(v)) # {}
    <3>1. Node(name) \in NodeNamed(name, Nodes(v))
      BY DEF NodeFor
    <3>2. NodeNamed(name, Nodes(v)) \subseteq Nodes(v)
      BY DEF NodeNamed
    <3>3. Nodes(v) \subseteq NodeResource
      BY <1>1 DEF ToSet
    <3>4. QED
      BY <3>1, <3>2, <3>3
  <2>3. \A i \in DOMAIN pods : NodeNamed(pods[i].node, Nodes(v)) # {}
    <3>1. \A i \in DOMAIN pods : pods[i] \in RunningPods(svc, v)
      BY <2>1 DEF ToSet
    <3>2. QED
      BY <3>1 DEF RunningPods
  <2>4. IsFunction(nodes, DOMAIN pods) /\ \A i \in DOMAIN pods : nodes[i] = Node(pods[i].node)
    BY DEF IsFunction
  <2> HIDE DEF nodes, Node
  <2>5. \A i \in DOMAIN pods : nodes[i] \in NodeResource
    BY <2>2, <2>3, <2>4
  <2>6. nodes \in Seq(NodeResource) /\ DOMAIN nodes = DOMAIN pods
    BY <2>1, <2>4, <2>5, ListOf
  <2>7. ToSet(nodes) = {Node(name) : name \in {p.node : p \in ToSet(pods)}}
    <3>1. ToSet(nodes) = {nodes[i] : i \in DOMAIN pods}
      BY <2>6 DEF ToSet
    <3>2. \A i \in DOMAIN pods : pods[i] \in ToSet(pods)
      BY DEF ToSet
    <3>3. \A p \in ToSet(pods) : \E i \in DOMAIN pods : pods[i] = p
      BY DEF ToSet
    <3> DEFINE N == {p.node : p \in ToSet(pods)}
    <3>4. \A i \in DOMAIN pods : pods[i].node \in N
      BY <3>2
    <3>5. \A name \in N : \E i \in DOMAIN pods : pods[i].node = name
      BY <3>3
    <3> HIDE DEF N
    <3>6. ToSet(nodes) = {Node(name) : name \in N}
      BY <2>4, <3>1, <3>4, <3>5
    <3>7. QED
      BY <3>6 DEF N
  <2>8. TargetNodeSet(svc, v) = {Node(name) : name \in LocalNodeNames(svc, v)}
    BY <1>4 DEF TargetNodeSet, Node
  <2>9. Settled(svc, ToSet(v.pod)) => ToSet(nodes) = TargetNodeSet(svc, v)
    BY <2>1, <2>7, <2>8
  <2>10. TargetNodes(svc, v) = nodes
    BY <1>2, <1>4
  <2>11. QED
    BY <2>6, <2>9, <2>10
<1>5. QED
  BY <1>3, <1>4

AddressesIn(N, types) == UNION {ToSet(AddressesOf(n, types)) : n \in N}
PublicIn(N) == AddressesIn(N, {"ExternalIP"}) \cup UNION {ToSet(IPv6Addresses(n)) : n \in N}

\* The addresses that the annotation "access" asks for.
AccessTargets(access, N) ==
  CASE access = "public" -> PublicIn(N)
    [] access = "private" -> AddressesIn(N, {"InternalIP"})
    [] OTHER -> IF AddressesIn(N, {"ExternalIP"}) # {} THEN PublicIn(N)
                ELSE AddressesIn(N, {"InternalIP"})

\* The addresses a NodePort service points at.
LEMMA NodePortTargetsType ==
  ASSUME NEW svc, NEW v, Typed(v)
  PROVE  /\ ExtractNodePortTargets(svc, v) \in Seq(Target)
         /\ Settled(svc, ToSet(v.pod)) =>
              ToSet(ExtractNodePortTargets(svc, v)) = AccessTargets(svc.ann.access, TargetNodeSet(svc, v))
<1> DEFINE nodes == TargetNodes(svc, v)
           N == ToSet(nodes)
           All(types) == FlattenSeq([i \in DOMAIN nodes |-> AddressesOf(nodes[i], types)])
           more == FlattenSeq([i \in DOMAIN nodes |-> IPv6Addresses(nodes[i])])
           public == All({"ExternalIP"}) \o more
           targets == ExtractNodePortTargets(svc, v)
<1>1. nodes \in Seq(NodeResource) /\ (Settled(svc, ToSet(v.pod)) => N = TargetNodeSet(svc, v))
  BY TargetNodesType
<1>2. targets = CASE svc.ann.access = "public" -> public
                  [] svc.ann.access = "private" -> All({"InternalIP"})
                  [] OTHER -> IF All({"ExternalIP"}) # <<>> THEN public ELSE All({"InternalIP"})
  BY DEF ExtractNodePortTargets, AccessibleAddresses, PublicAddresses, AddressesOfAll
<1> HIDE DEF nodes
<1>3. \A i \in DOMAIN nodes : nodes[i] \in NodeResource
  BY <1>1
<1>4. N = {nodes[i] : i \in DOMAIN nodes}
  BY DEF ToSet
<1>5. ASSUME NEW f, IsFunction(f, DOMAIN nodes), NEW of,
             \A n \in NodeResource : of[n] \in Seq(Target), \A i \in DOMAIN nodes : f[i] = of[nodes[i]]
      PROVE  FlattenSeq(f) \in Seq(Target) /\ ToSet(FlattenSeq(f)) = UNION {ToSet(of[n]) : n \in N}
  <2>1. \A i \in DOMAIN nodes : f[i] \in Seq(Target)
    BY <1>3, <1>5
  <2>2. /\ FlattenSeq(f) \in Seq(Target)
        /\ ToSet(FlattenSeq(f)) = UNION {ToSet(f[i]) : i \in DOMAIN nodes}
    BY <1>1, <1>5, <2>1, FlatMap
  <2>3. {ToSet(f[i]) : i \in DOMAIN nodes} = {ToSet(of[n]) : n \in N}
    BY <1>4, <1>5
  <2>4. QED
    BY <2>2, <2>3
<1>6. ASSUME NEW types
      PROVE  All(types) \in Seq(Target) /\ ToSet(All(types)) = AddressesIn(N, types)
  <2> DEFINE f == [i \in DOMAIN nodes |-> AddressesOf(nodes[i], types)]
             of == [n \in NodeResource |-> AddressesOf(n, types)]
  <2>1. IsFunction(f, DOMAIN nodes) /\ \A i \in DOMAIN nodes : f[i] = of[nodes[i]]
    BY <1>3 DEF IsFunction
  <2>2. \A n \in NodeResource : of[n] \in Seq(Target)
    BY NodeAddressesType
  <2>3. All(types) = FlattenSeq(f) /\ AddressesIn(N, types) = UNION {ToSet(of[n]) : n \in N}
    <3>1. \A n \in N : of[n] = AddressesOf(n, types)
      BY <1>3, <1>4
    <3>2. QED
      BY <3>1 DEF AddressesIn
  <2> HIDE DEF f, of
  <2>4. FlattenSeq(f) \in Seq(Target) /\ ToSet(FlattenSeq(f)) = UNION {ToSet(of[n]) : n \in N}
    BY <1>5, <2>1, <2>2
  <2>5. QED
    BY <2>3, <2>4
<1>7. more \in Seq(Target) /\ ToSet(more) = UNION {ToSet(IPv6Addresses(n)) : n \in N}
  <2> DEFINE f == [i \in DOMAIN nodes |-> IPv6Addresses(nodes[i])]
             of == [n \in NodeResource |-> IPv6Addresses(n)]
  <2>1. IsFunction(f, DOMAIN nodes) /\ \A i \in DOMAIN nodes : f[i] = of[nodes[i]]
    BY <1>3 DEF IsFunction
  <2>2. \A n \in NodeResource : of[n] \in Seq(Target)
    BY NodeAddressesType
  <2>3. more = FlattenSeq(f) /\ UNION {ToSet(IPv6Addresses(n)) : n \in N} = UNION {ToSet(of[n]) : n \in N}
    <3>1. \A n \in N : of[n] = IPv6Addresses(n)
      BY <1>3, <1>4
    <3>2. QED
      BY <3>1
  <2> HIDE DEF f, of
  <2>4. FlattenSeq(f) \in Seq(Target) /\ ToSet(FlattenSeq(f)) = UNION {ToSet(of[n]) : n \in N}
    BY <1>5, <2>1, <2>2
  <2>5. QED
    BY <2>3, <2>4
<1> DEFINE external == All({"ExternalIP"})
           internal == All({"InternalIP"})
<1>8. /\ external \in Seq(Target) /\ ToSet(external) = AddressesIn(N, {"ExternalIP"})
      /\ internal \in Seq(Target) /\ ToSet(internal) = AddressesIn(N, {"InternalIP"})
  BY <1>6
<1> HIDE DEF external, internal, more, All
<1>9. external \o more \in Seq(Target) /\ ToSet(external \o more) = PublicIn(N)
  BY <1>7, <1>8, Concat DEF PublicIn
<1>10. external # <<>> <=> AddressesIn(N, {"ExternalIP"}) # {}
  BY <1>8, NothingPicked
<1>11. targets = CASE svc.ann.access = "public" -> external \o more
                   [] svc.ann.access = "private" -> internal
                   [] OTHER -> IF external # <<>> THEN external \o more ELSE internal
  BY <1>2 DEF external, internal
<1> HIDE DEF targets
<1>12. targets \in Seq(Target) /\ ToSet(targets) = AccessTargets(svc.ann.access, N)
  <2>1. CASE svc.ann.access = "public"
    BY <1>9, <1>11, <2>1 DEF AccessTargets
  <2>2. CASE svc.ann.access = "private"
    BY <1>8, <1>11, <2>2 DEF AccessTargets
  <2>3. CASE svc.ann.access # "public" /\ svc.ann.access # "private" /\ external # <<>>
    BY <1>9, <1>10, <1>11, <2>3 DEF AccessTargets
  <2>4. CASE svc.ann.access # "public" /\ svc.ann.access # "private" /\ external = <<>>
    BY <1>8, <1>10, <1>11, <2>4 DEF AccessTargets
  <2>5. QED
    BY <2>1, <2>2, <2>3, <2>4
<1>13. QED
  BY <1>1, <1>12 DEF targets

-------------------------------------------------------------------------------
(***************************************************************************)
(* All records of a service.                                               *)
(***************************************************************************)
\* Records of a service, with at most one of them for a cell unless it has a port.
RecordsOfService(eps, svc) ==
  eps \in Seq(Fit) /\ (\A e \in ToSet(eps) : OfService(e, svc)) /\ Separate(ToSet(eps))

GeneratedContent(svc, v) ==
  CASE svc.ann.target # <<>> -> HostContent(Hostname(svc), ToSet(svc.ann.target), "")
    [] svc.ann.target = <<>> /\ svc.type = "ClusterIP" /\ svc.clusterIP = Headless ->
         HeadlessContent(svc, v)
    [] svc.ann.target = <<>> /\ svc.type = "NodePort" ->
         ContentOf(ExtractNodePortEndpoints(svc))
           \cup HostContent(Hostname(svc), AccessTargets(svc.ann.access, TargetNodeSet(svc, v)), "")
    [] OTHER -> HostContent(Hostname(svc), ToSet(MeshTargets(svc)), "")

\* The records of a NodePort service: its ports, and its own name.
LEMMA WithPorts ==
  ASSUME NEW svc \in ServiceResource, NEW targets \in Seq(Target)
  PROVE  LET eps == ExtractNodePortEndpoints(svc) \o ServiceRecords(svc, targets)
         IN  /\ RecordsOfService(eps, svc)
             /\ ContentOf(eps) = ContentOf(ExtractNodePortEndpoints(svc))
                                   \cup HostContent(Hostname(svc), ToSet(targets), "")
<1> DEFINE a == ExtractNodePortEndpoints(svc)
           b == ServiceRecords(svc, targets)
           eps == a \o b
           A == ToSet(a)
           B == ToSet(b)
           Three == {"A", "AAAA", "CNAME"}
<1>1. a \in Seq(Fit) /\ \A e \in A : OfService(e, svc) /\ e.recordType = "SRV" /\ Len(e.targets) = 1
  BY PortsOfService
<1>2. /\ b \in Seq(Fit) /\ Separate(B)
      /\ \A e \in B : OfService(e, svc) /\ e.recordType \in Three
      /\ ContentOf(b) = HostContent(Hostname(svc), ToSet(targets), "")
  BY Zenon, HostnameOfService
<1> HIDE DEF a, b
<1>3. eps \in Seq(Fit) /\ ToSet(eps) = A \cup B /\ ContentOf(eps) = ContentOf(a) \cup ContentOf(b)
  <2>a. a \in Seq(Fit) /\ b \in Seq(Fit)
    BY Zenon, <1>1, <1>2
  <2>1. eps \in Seq(Fit) /\ ToSet(eps) = A \cup B
    BY <2>a, Concat
  <2>2. ContentOf(eps) = ContentOf(a) \cup ContentOf(b)
    BY <2>a, ContentOfTwo
  <2>3. QED
    BY <2>1, <2>2
<1>4. \A e \in A \cup B : OfService(e, svc)
  BY Zenon, <1>1, <1>2
<1>5. Separate(A \cup B)
  <2> SUFFICES ASSUME NEW e \in A \cup B, NEW f \in A \cup B, Cell(e) = Cell(f)
               PROVE  ToSet(e.targets) = ToSet(f.targets) \/ Len(f.targets) = 1
    BY DEF Separate
  <2>1. e.recordType = f.recordType
    BY DEF Cell
  <2>2. CASE f \in A
    BY <1>1, <2>2
  <2>3. CASE f \in B /\ e \in B
    BY Zenon, <1>2, <2>3 DEF Separate
  <2>4. CASE f \in B /\ e \in A
    <3>1. e.recordType = "SRV" /\ f.recordType \in Three
      BY Zenon, <1>1, <1>2, <2>4
    <3>2. QED
      BY <2>1, <3>1
  <2>5. QED
    BY <2>2, <2>3, <2>4
<1> HIDE DEF A, B, eps
<1>6. RecordsOfService(eps, svc)
  BY <1>3, <1>4, <1>5 DEF RecordsOfService
<1>7. ContentOf(eps) = ContentOf(a) \cup HostContent(Hostname(svc), ToSet(targets), "")
  BY Zenon, <1>2, <1>3
<1>8. QED
  BY Zenon, <1>6, <1>7 DEF eps, a, b

\* The records of a service that has its own name only.
LEMMA OwnRecords ==
  ASSUME NEW svc \in ServiceResource, NEW targets \in Seq(Target)
  PROVE  /\ RecordsOfService(ServiceRecords(svc, targets), svc)
         /\ ContentOf(ServiceRecords(svc, targets)) = HostContent(Hostname(svc), ToSet(targets), "")
BY Zenon, HostnameOfService DEF RecordsOfService

\* X has the names of services about which the order decides.
Apart(svc, pods, X) == OrderDecides(svc, pods) => Hostname(svc) \in X

\* Leaving out names.
LEMMA LeavingOut ==
  /\ \A A, B, X : Unless(A \cup B, X) = Unless(A, X) \cup Unless(B, X)
  /\ \A C : Unless(C, {}) = C
  /\ \A host, T, id, X : host \in X => Unless(HostContent(host, T, id), X) = {}
<1>1. /\ \A A, B, X : Unless(A \cup B, X) = Unless(A, X) \cup Unless(B, X)
      /\ \A C : Unless(C, {}) = C
  BY DEF Unless
<1>2. ASSUME NEW host, NEW T, NEW id, NEW X, host \in X
      PROVE  Unless(HostContent(host, T, id), X) = {}
  <2>1. \A c \in HostContent(host, T, id) : c[1][1] = host
    BY SMTT(30) DEF HostContent
  <2>2. QED
    BY <1>2, <2>1 DEF Unless
<1>3. QED
  BY <1>1, <1>2

\* generateEndpoints: records of the service, of whatever type it is.
LEMMA GeneratedType ==
  ASSUME NEW svc \in ServiceResource, NEW v, Typed(v), svc.clusterIP # NoIP
  PROVE  /\ RecordsOfService(GenerateEndpoints(svc, v), svc)
         /\ \A X : Apart(svc, ToSet(v.pod), X) =>
              Unless(ContentOf(GenerateEndpoints(svc, v)), X) = Unless(GeneratedContent(svc, v), X)
<1> DEFINE eps == GenerateEndpoints(svc, v)
<1>1. svc.ann.target \in Seq(Target) /\ svc.clusterIP \in Target \cup {Headless}
  BY DEF ServiceResource, Annotations
<1>2. CASE svc.ann.target # <<>>
  <2>1. eps = ServiceRecords(svc, svc.ann.target)
    BY <1>2 DEF GenerateEndpoints
  <2>2. GeneratedContent(svc, v) = HostContent(Hostname(svc), ToSet(svc.ann.target), "")
    BY Zenon, <1>2 DEF GeneratedContent
  <2>3. QED
    BY Zenon, <1>1, <2>1, <2>2, OwnRecords
<1>3. CASE svc.ann.target = <<>> /\ svc.type = "ClusterIP" /\ svc.clusterIP = Headless
  <2>1. eps = ExtractHeadlessEndpoints(svc, v)
    BY <1>3 DEF GenerateEndpoints
  <2>2. GeneratedContent(svc, v) = HeadlessContent(svc, v)
    BY <1>3 DEF GeneratedContent
  <2>3. QED
    BY <2>1, <2>2, HeadlessType DEF RecordsOfService
<1>4. CASE svc.ann.target = <<>> /\ svc.type = "NodePort"
  <2> DEFINE targets == ExtractNodePortTargets(svc, v)
             N == AccessTargets(svc.ann.access, TargetNodeSet(svc, v))
  <2>1. eps = ExtractNodePortEndpoints(svc) \o ServiceRecords(svc, targets)
    BY <1>4 DEF GenerateEndpoints
  <2>2. GeneratedContent(svc, v)
          = ContentOf(ExtractNodePortEndpoints(svc)) \cup HostContent(Hostname(svc), N, "")
    BY <1>4 DEF GeneratedContent
  <2>3. targets \in Seq(Target) /\ (Settled(svc, ToSet(v.pod)) => ToSet(targets) = N)
    BY NodePortTargetsType
  <2> HIDE DEF targets, N
  <2>4. /\ RecordsOfService(eps, svc)
        /\ ContentOf(eps) = ContentOf(ExtractNodePortEndpoints(svc))
                              \cup HostContent(Hostname(svc), ToSet(targets), "")
    BY Zenon, <2>1, <2>3, WithPorts
  <2>5. ASSUME NEW X, Apart(svc, ToSet(v.pod), X)
        PROVE  Unless(ContentOf(eps), X) = Unless(GeneratedContent(svc, v), X)
    <3> DEFINE P == ContentOf(ExtractNodePortEndpoints(svc))
               Taken == HostContent(Hostname(svc), ToSet(targets), "")
               All == HostContent(Hostname(svc), N, "")
    <3>1. CASE OrderDecides(svc, ToSet(v.pod))
      <4>1. Unless(Taken, X) = {} /\ Unless(All, X) = {}
        BY Zenon, <2>5, <3>1, LeavingOut DEF Apart
      <4>2. ContentOf(eps) = P \cup Taken /\ GeneratedContent(svc, v) = P \cup All
        BY Zenon, <2>2, <2>4
      <4> HIDE DEF P, Taken, All, eps
      <4>3. /\ Unless(P \cup Taken, X) = Unless(P, X) \cup Unless(Taken, X)
            /\ Unless(P \cup All, X) = Unless(P, X) \cup Unless(All, X)
        BY DEF Unless
      <4>4. QED
        BY <4>1, <4>2, <4>3
    <3>2. CASE ~OrderDecides(svc, ToSet(v.pod))
      <4>1. Settled(svc, ToSet(v.pod))
        BY <1>4, <3>2 DEF OrderDecides, Settled
      <4>2. QED
        BY Zenon, <2>2, <2>3, <2>4, <4>1
    <3>3. QED
      BY <3>1, <3>2
  <2>6. QED
    BY Zenon, <2>4, <2>5
<1>5. CASE /\ svc.ann.target = <<>>
           /\ ~(svc.type = "ClusterIP" /\ svc.clusterIP = Headless) /\ svc.type # "NodePort"
  <2>1. eps = ServiceRecords(svc, MeshTargets(svc))
    BY <1>5 DEF GenerateEndpoints
  <2>2. GeneratedContent(svc, v) = HostContent(Hostname(svc), ToSet(MeshTargets(svc)), "")
    BY Zenon, <1>5 DEF GeneratedContent
  <2>3. MeshTargets(svc) \in Seq(Target)
    <3>1. CASE svc.type = "ExternalName"
      <4>1. svc.externalIPs \in Seq(Target) /\ svc.externalName \in Target
        BY DEF ServiceResource
      <4>2. QED
        BY <3>1, <4>1 DEF MeshTargets, ExtractServiceExternalName
    <3>2. CASE svc.type # "ExternalName" /\ svc.clusterIP = Headless
      BY <3>2 DEF MeshTargets, ExtractServiceIPs
    <3>3. CASE svc.type # "ExternalName" /\ svc.clusterIP # Headless
      BY <1>1, <3>3 DEF MeshTargets, ExtractServiceIPs
    <3>4. QED
      BY <3>1, <3>2, <3>3
  <2>4. QED
    BY Zenon, <2>1, <2>2, <2>3, OwnRecords
<1>6. QED
  BY <1>2, <1>3, <1>4, <1>5

\* The labels of a record say which service it comes from.
MarkedAs(f, e, r) == f = [e EXCEPT !.labels.resource = r, !.labels.mesh = TRUE]

\* A record with the resource label of its service is otherwise the same.
LEMMA MarkedRecord ==
  ASSUME NEW e \in Fit, NEW r \in Nat, NEW f, MarkedAs(f, e, r)
  PROVE  /\ f \in Fit /\ f.dnsName = e.dnsName /\ f.recordType = e.recordType
         /\ f.setIdentifier = e.setIdentifier /\ f.targets = e.targets /\ f.ttl = e.ttl
         /\ f.labels.resource = r
<1> DEFINE l == [e.labels EXCEPT !.resource = r, !.mesh = TRUE]
           g == [e EXCEPT !.labels = l]
<1>1. f = g
  BY DEF Fit, Record, MarkedAs
<1>2. e.labels \in [resource : Nat, mesh : BOOLEAN, dualstack : BOOLEAN] /\ e \in Record /\ Suited(e)
  BY DEF Fit, Record
<1>3. l \in [resource : Nat, mesh : BOOLEAN, dualstack : BOOLEAN] /\ l.resource = r
  BY <1>2
<1> HIDE DEF l
<1>4. /\ g \in Record /\ g.dnsName = e.dnsName /\ g.recordType = e.recordType
      /\ g.setIdentifier = e.setIdentifier /\ g.targets = e.targets /\ g.ttl = e.ttl /\ g.labels = l
  BY <1>2, <1>3 DEF Record
<1>5. Suited(g)
  BY <1>2, <1>4 DEF Suited
<1>6. QED
  BY <1>1, <1>3, <1>4, <1>5 DEF Fit

\* Marking the records of a service leaves their content (serviceSource.Endpoints).
LEMMA MarkedType ==
  ASSUME NEW svc \in ServiceResource, NEW eps, RecordsOfService(eps, svc)
  PROVE  /\ RecordsOfService(Marked(eps, svc), svc)
         /\ ContentOf(Marked(eps, svc)) = ContentOf(eps)
<1> DEFINE m == Marked(eps, svc)
           r == svc.resource
           Mark(e) == [e EXCEPT !.labels.resource = r, !.labels.mesh = TRUE]
<1>1. eps \in Seq(Fit) /\ r \in Nat /\ Separate(ToSet(eps)) /\ \A e \in ToSet(eps) : OfService(e, svc)
  BY DEF RecordsOfService, ServiceResource
<1>2. IsFunction(m, DOMAIN eps) /\ \A i \in DOMAIN eps : m[i] = Mark(eps[i])
  BY DEF Marked, IsFunction
<1>3. \A e \in Fit : /\ Mark(e) \in Fit /\ Mark(e).dnsName = e.dnsName /\ Mark(e).recordType = e.recordType
                     /\ Mark(e).setIdentifier = e.setIdentifier /\ Mark(e).targets = e.targets
                     /\ Mark(e).ttl = e.ttl
  <2> TAKE e \in Fit
  <2> DEFINE f == Mark(e)
  <2>1. MarkedAs(f, e, r)
    BY DEF MarkedAs
  <2>2. r \in Nat
    BY <1>1
  <2> HIDE DEF f, r, m, Mark
  <2>3. /\ f \in Fit /\ f.dnsName = e.dnsName /\ f.recordType = e.recordType
        /\ f.setIdentifier = e.setIdentifier /\ f.targets = e.targets /\ f.ttl = e.ttl
    BY <2>1, <2>2, MarkedRecord
  <2>4. QED
    BY <2>3 DEF f, r
<1> HIDE DEF Mark, m
<1>4. \A e \in Fit : Cell(Mark(e)) = Cell(e) /\ Says(Mark(e)) = Says(e)
  BY <1>3 DEF Says, Cell
<1>5. \A i \in DOMAIN eps : eps[i] \in Fit
  BY <1>1
<1>6. \A i \in DOMAIN eps : m[i] \in Fit
  BY <1>2, <1>3, <1>5
<1>7. m \in Seq(Fit) /\ DOMAIN m = DOMAIN eps
  BY <1>1, <1>2, <1>6, ListOf
<1>8. \A e \in ToSet(eps) : e \in Fit
  BY <1>5 DEF ToSet
<1>9. ToSet(m) = {Mark(e) : e \in ToSet(eps)}
  BY <1>2, <1>7 DEF ToSet
<1>10. \A f \in ToSet(m) : OfService(f, svc)
  <2> TAKE f \in ToSet(m)
  <2>1. PICK e \in ToSet(eps) : f = Mark(e)
    BY <1>9
  <2>2. OfService(e, svc) /\ e \in Fit
    BY <1>1, <1>8
  <2>3. /\ f \in Fit /\ f.dnsName = e.dnsName /\ f.setIdentifier = e.setIdentifier /\ f.ttl = e.ttl
    BY <1>3, <2>1, <2>2
  <2>4. QED
    BY Zenon, <2>2, <2>3 DEF OfService
<1>11. Separate(ToSet(m))
  <2> SUFFICES ASSUME NEW f \in ToSet(m), NEW h \in ToSet(m), Cell(f) = Cell(h)
               PROVE  ToSet(f.targets) = ToSet(h.targets) \/ Len(h.targets) = 1
    BY DEF Separate
  <2>1. PICK e \in ToSet(eps) : f = Mark(e)
    BY <1>9
  <2>2. PICK d \in ToSet(eps) : h = Mark(d)
    BY <1>9
  <2>3. Cell(e) = Cell(d)
    BY <1>4, <1>8, <2>1, <2>2
  <2>4. f.targets = e.targets /\ h.targets = d.targets
    BY <1>3, <1>8, <2>1, <2>2
  <2>5. QED
    BY <1>1, <2>3, <2>4 DEF Separate
<1>12. ContentOf(m) = ContentOf(eps)
  <2>1. {Says(f) : f \in ToSet(m)} = {Says(Mark(e)) : e \in ToSet(eps)}
    BY <1>9
  <2>2. QED
    BY <1>4, <1>8, <2>1 DEF ContentOf
<1>13. QED
  BY <1>7, <1>10, <1>11, <1>12 DEF RecordsOfService, m

MeshContent(svc, v) == IF svc.clusterIP = NoIP THEN {} ELSE GeneratedContent(svc, v)

\* The records of one service, for all types of services.
LEMMA MeshEndpointsType ==
  ASSUME NEW svc \in ServiceResource, NEW v, Typed(v)
  PROVE  /\ RecordsOfService(MeshEndpoints(svc, v), svc)
         /\ \A X : Apart(svc, ToSet(v.pod), X) =>
              Unless(ContentOf(MeshEndpoints(svc, v)), X) = Unless(MeshContent(svc, v), X)
<1>1. CASE svc.clusterIP = NoIP
  <2>1. MeshEndpoints(svc, v) = <<>> /\ MeshContent(svc, v) = {}
    BY <1>1 DEF MeshEndpoints, MeshContent
  <2>2. <<>> \in Seq(Fit) /\ ToSet(<<>>) = {}
    BY DEF ToSet
  <2>3. QED
    BY <2>1, <2>2 DEF RecordsOfService, Separate, ContentOf
<1>2. CASE svc.clusterIP # NoIP
  <2> DEFINE eps == GenerateEndpoints(svc, v)
  <2>1. /\ RecordsOfService(eps, svc)
        /\ \A X : Apart(svc, ToSet(v.pod), X) =>
             Unless(ContentOf(eps), X) = Unless(GeneratedContent(svc, v), X)
    BY <1>2, GeneratedType
  <2>2. MeshEndpoints(svc, v) = Marked(eps, svc) /\ MeshContent(svc, v) = GeneratedContent(svc, v)
    BY <1>2 DEF MeshEndpoints, MeshContent
  <2> HIDE DEF eps
  <2>3. QED
    BY <2>1, <2>2, MarkedType
<1>3. QED
  BY <1>1, <1>2

-------------------------------------------------------------------------------
(***************************************************************************)
(* All services, sorted, and their records merged.                         *)
(***************************************************************************)
AllApart(v, X) == \A svc \in ToSet(v.service) : Apart(svc, ToSet(v.pod), X)

\* Records of one cell may be merged, two by two, without losing a target.
Consistent(S) ==
  \A e, f \in S :
    /\ e.setIdentifier = f.setIdentifier
    /\ Cell(e) = Cell(f) => /\ e.ttl = f.ttl
                            /\ ToSet(e.targets) = ToSet(f.targets) \/ Len(f.targets) = 1

\* The records of all services: those of one name and type are of one service.
LEMMA AllServicesType ==
  ASSUME NEW v, Typed(v)
  PROVE  /\ AllServices(v) \in Seq(Fit)
         /\ \A e \in ToSet(AllServices(v)) : \E svc \in ToSet(v.service) :
              e \in ToSet(MeshEndpoints(svc, v)) /\ OfService(e, svc)
         /\ Distinct(ToSet(v.service)) => Consistent(ToSet(AllServices(v)))
         /\ ContentOf(AllServices(v)) = UNION {ContentOf(MeshEndpoints(svc, v)) : svc \in ToSet(v.service)}
         /\ \A X : AllApart(v, X) =>
              Unless(ContentOf(AllServices(v)), X)
                = Unless(UNION {MeshContent(svc, v) : svc \in ToSet(v.service)}, X)
<1> DEFINE svcs == v.service
           eps == AllServices(v)
           f == [i \in DOMAIN svcs |-> MeshEndpoints(svcs[i], v)]
<1>1. svcs \in Seq(ServiceResource)
  BY DEF Typed
<1>2. eps = FlattenSeq(f)
  BY DEF AllServices
<1>3. IsFunction(f, DOMAIN svcs) /\ \A i \in DOMAIN svcs : f[i] = MeshEndpoints(svcs[i], v)
  BY DEF IsFunction
<1> HIDE DEF svcs, f, eps
<1>4. \A i \in DOMAIN svcs : svcs[i] \in ServiceResource
  BY <1>1
<1>5. \A i \in DOMAIN svcs : RecordsOfService(f[i], svcs[i])
  BY <1>3, <1>4, MeshEndpointsType
<1>6. \A i \in DOMAIN svcs : f[i] \in Seq(Fit)
  BY <1>5 DEF RecordsOfService
<1>7. /\ eps \in Seq(Fit)
      /\ ToSet(eps) = UNION {ToSet(f[i]) : i \in DOMAIN svcs}
      /\ ContentOf(eps) = UNION {ContentOf(f[i]) : i \in DOMAIN svcs}
  BY <1>1, <1>2, <1>3, <1>6, FlatMap
<1>8. \A e \in ToSet(eps) : \E i \in DOMAIN svcs : e \in ToSet(f[i]) /\ OfService(e, svcs[i])
  <2> TAKE e \in ToSet(eps)
  <2>1. PICK i \in DOMAIN svcs : e \in ToSet(f[i])
    BY <1>7
  <2>2. OfService(e, svcs[i])
    BY <1>5, <2>1 DEF RecordsOfService
  <2>3. QED
    BY <2>1, <2>2
<1>9. \A i \in DOMAIN svcs : svcs[i] \in ToSet(svcs)
  BY DEF ToSet
<1>10. \A e \in ToSet(eps) : \E svc \in ToSet(svcs) : e \in ToSet(MeshEndpoints(svc, v)) /\ OfService(e, svc)
  BY <1>3, <1>8, <1>9
<1>11. ASSUME Distinct(ToSet(svcs))
       PROVE  Consistent(ToSet(eps))
  <2> SUFFICES ASSUME NEW d \in ToSet(eps), NEW e \in ToSet(eps)
               PROVE  /\ d.setIdentifier = e.setIdentifier
                      /\ Cell(d) = Cell(e) => /\ d.ttl = e.ttl
                                              /\ ToSet(d.targets) = ToSet(e.targets) \/ Len(e.targets) = 1
    BY DEF Consistent
  <2>1. PICK i \in DOMAIN svcs : d \in ToSet(f[i]) /\ OfService(d, svcs[i])
    BY <1>8
  <2>2. PICK j \in DOMAIN svcs : e \in ToSet(f[j]) /\ OfService(e, svcs[j])
    BY <1>8
  <2>3. d.setIdentifier = e.setIdentifier
    BY Zenon, <2>1, <2>2 DEF OfService
  <2>4. ASSUME Cell(d) = Cell(e)
        PROVE  d.ttl = e.ttl /\ (ToSet(d.targets) = ToSet(e.targets) \/ Len(e.targets) = 1)
    <3>1. d.dnsName = e.dnsName
      BY <2>4 DEF Cell
    <3>2. NamedFor(d.dnsName, svcs[i]) /\ NamedFor(d.dnsName, svcs[j])
      BY Zenon, <2>1, <2>2, <3>1 DEF OfService
    <3>3. svcs[i] = svcs[j]
      BY <1>9, <1>11, <3>2 DEF NamedFor, Distinct
    <3>4. d.ttl = e.ttl
      BY Zenon, <2>1, <2>2, <3>3 DEF OfService
    <3>5. f[i] = f[j]
      BY <1>3, <3>3
    <3>6. Separate(ToSet(f[i]))
      BY <1>5 DEF RecordsOfService
    <3>7. QED
      BY <2>1, <2>2, <2>4, <3>4, <3>5, <3>6 DEF Separate
  <2>5. QED
    BY <2>3, <2>4
<1>12. ContentOf(eps) = UNION {ContentOf(MeshEndpoints(svc, v)) : svc \in ToSet(svcs)}
  <2>1. {ContentOf(f[i]) : i \in DOMAIN svcs} = {ContentOf(MeshEndpoints(svc, v)) : svc \in ToSet(svcs)}
    BY <1>3 DEF ToSet
  <2>2. QED
    BY <1>7, <2>1
<1>13. ASSUME NEW X, \A svc \in ToSet(svcs) : Apart(svc, ToSet(v.pod), X)
       PROVE  Unless(ContentOf(eps), X) = Unless(UNION {MeshContent(svc, v) : svc \in ToSet(svcs)}, X)
  <2>1. \A svc \in ToSet(svcs) :
          Unless(ContentOf(MeshEndpoints(svc, v)), X) = Unless(MeshContent(svc, v), X)
    <3>1. ToSet(svcs) \subseteq ServiceResource
      BY <1>4 DEF ToSet
    <3>2. QED
      BY <1>13, <3>1, MeshEndpointsType
  <2>2. \A svc \in ToSet(svcs) : \A c : c[1][1] \notin X =>
          (c \in ContentOf(MeshEndpoints(svc, v)) <=> c \in MeshContent(svc, v))
    <3> TAKE svc \in ToSet(svcs)
    <3> DEFINE A == ContentOf(MeshEndpoints(svc, v))
               B == MeshContent(svc, v)
    <3>1. Unless(A, X) = Unless(B, X)
      BY <2>1
    <3> HIDE DEF A, B
    <3>2. \A c : c[1][1] \notin X => (c \in A <=> c \in B)
      BY <3>1 DEF Unless
    <3>3. QED
      BY <3>2 DEF A, B
  <2> DEFINE A(svc) == ContentOf(MeshEndpoints(svc, v))
             B(svc) == MeshContent(svc, v)
  <2>3. \A svc \in ToSet(svcs) : \A c : c[1][1] \notin X => (c \in A(svc) <=> c \in B(svc))
    BY <2>2
  <2>4. ContentOf(eps) = UNION {A(svc) : svc \in ToSet(svcs)}
    BY <1>12
  <2> HIDE DEF A, B
  <2>5. Unless(ContentOf(eps), X) = Unless(UNION {B(svc) : svc \in ToSet(svcs)}, X)
    BY <2>3, <2>4 DEF Unless
  <2>6. QED
    BY <2>5 DEF B
<1>14. QED
  BY <1>7, <1>10, <1>11, <1>12, <1>13 DEF svcs, eps, AllApart

NameAndType(e) == <<e.dnsName, e.recordType>>

\* The records of one name and type are next to each other.
Grouped(s) ==
  \A i, j, k \in DOMAIN s :
    i <= j /\ j <= k /\ NameAndType(s[i]) = NameAndType(s[k]) => NameAndType(s[j]) = NameAndType(s[i])

\* Sorting brings the records of one name and type together (meshservice.go:197).
LEMMA SortedByNameType ==
  ASSUME NEW eps \in Seq(Fit)
  PROVE  /\ SortedByName(eps) \in Seq(Fit)
         /\ ToSet(SortedByName(eps)) = ToSet(eps)
         /\ Grouped(SortedByName(eps))
<1> DEFINE key == [i \in DOMAIN eps |-> eps[i].labels.resource]
           sorted == SortedBy(eps, key)
           kinds == [i \in DOMAIN sorted |-> NameAndType(sorted[i])]
           cells == Deduped(kinds)
           Of(c) == {e \in ToSet(sorted) : NameAndType(e) = c}
           ss == [i \in DOMAIN cells |-> Only(sorted, Of(cells[i]))]
           t == SortedByName(eps)
           T == {NameAndType(e) : e \in Fit}
<1>1. t = FlattenSeq(ss)
  BY DEF SortedByName, NameAndType
<1>2. \A i \in DOMAIN eps : key[i] \in Int
  BY DEF Fit, Record
<1> HIDE DEF key
<1>3. sorted \in Seq(Fit) /\ ToSet(sorted) = ToSet(eps)
  BY <1>2, SortedByType
<1> HIDE DEF sorted
<1>4. IsFunction(kinds, DOMAIN sorted) /\ \A i \in DOMAIN sorted : kinds[i] = NameAndType(sorted[i])
  BY DEF IsFunction
<1> HIDE DEF kinds
<1>5. kinds \in Seq(T) /\ DOMAIN kinds = DOMAIN sorted
  <2>1. \A i \in DOMAIN sorted : kinds[i] \in T
    BY <1>3, <1>4
  <2> HIDE DEF T
  <2>2. QED
    BY <1>3, <1>4, <2>1, ListOf
<1>6. /\ cells \in Seq(T) /\ ToSet(cells) = ToSet(kinds)
      /\ \A k, l \in DOMAIN cells : cells[k] = cells[l] => k = l
  BY <1>5, DedupedType
<1> HIDE DEF cells, T
<1>7. \A c : Of(c) \subseteq ToSet(sorted) /\ \A e \in Of(c) : NameAndType(e) = c
  OBVIOUS
<1>8. \A e \in ToSet(sorted) : e \in Of(NameAndType(e)) /\ \E i \in DOMAIN cells : cells[i] = NameAndType(e)
  <2> TAKE e \in ToSet(sorted)
  <2>1. PICK i \in DOMAIN sorted : sorted[i] = e
    BY DEF ToSet
  <2>2. NameAndType(e) \in ToSet(kinds)
    BY <1>4, <1>5, <2>1 DEF ToSet
  <2>3. QED
    BY <1>6, <2>2 DEF ToSet
<1> HIDE DEF Of
<1>9. IsFunction(ss, DOMAIN cells) /\ \A i \in DOMAIN cells : ss[i] = Only(sorted, Of(cells[i]))
  BY DEF IsFunction
<1> HIDE DEF ss
<1>10. \A i \in DOMAIN cells : ss[i] \in Seq(Fit) /\ ToSet(ss[i]) = Of(cells[i])
  BY <1>3, <1>7, <1>9, OnlyThose
<1> DEFINE Q == Seq(Fit)
<1>11. ss \in Seq(Q) /\ DOMAIN ss = DOMAIN cells
  <2>1. \A i \in DOMAIN cells : ss[i] \in Q
    BY <1>10
  <2> HIDE DEF Q
  <2>2. QED
    BY <1>6, <1>9, <2>1, ListOf
<1>12. t \in Seq(Fit) /\ ToSet(t) = UNION {ToSet(ss[i]) : i \in DOMAIN ss}
  BY <1>1, <1>11, Flattened
<1>13. PICK b : Joins(b, t, ss, Len(ss))
  BY <1>1, <1>11, FlattenSeqType
<1> HIDE DEF t
<1>14. UNION {ToSet(ss[i]) : i \in DOMAIN ss} = ToSet(sorted)
  <2>1. \A i \in DOMAIN ss : ToSet(ss[i]) \subseteq ToSet(sorted)
    BY <1>7, <1>10, <1>11
  <2>2. \A e \in ToSet(sorted) : \E i \in DOMAIN ss : e \in ToSet(ss[i])
    BY <1>8, <1>10, <1>11
  <2>3. QED
    BY <2>1, <2>2
<1>15. DOMAIN t = 1 .. Len(t) /\ DOMAIN cells = 1 .. Len(ss)
  BY <1>11, <1>12
<1>16. \A k \in DOMAIN t : b[k] \in DOMAIN cells /\ b[k] \in Int /\ NameAndType(t[k]) = cells[b[k]]
  <2> TAKE k \in DOMAIN t
  <2>1. b[k] \in DOMAIN cells /\ t[k] \in ToSet(ss[b[k]]) /\ b[k] \in Int
    BY <1>13, <1>15 DEF Joins
  <2>2. QED
    BY <1>7, <1>10, <2>1
<1>17. Grouped(t)
  <2> SUFFICES ASSUME NEW i \in DOMAIN t, NEW j \in DOMAIN t, NEW k \in DOMAIN t, i <= j, j <= k,
                      NameAndType(t[i]) = NameAndType(t[k])
               PROVE  NameAndType(t[j]) = NameAndType(t[i])
    BY DEF Grouped
  <2>1. b[i] = b[k]
    BY <1>6, <1>16
  <2>2. \A x, y \in DOMAIN t : x <= y => b[x] <= b[y]
    <3> TAKE x, y \in DOMAIN t
    <3>1. x < y => b[x] <= b[y]
      BY <1>13, <1>15 DEF Joins
    <3>2. x \in Int /\ y \in Int /\ b[x] \in Int
      BY <1>15, <1>16
    <3>3. QED
      BY <3>1, <3>2
  <2>3. b[i] <= b[j] /\ b[j] <= b[k]
    BY <2>2
  <2>4. b[i] = b[j]
    BY <1>16, <2>1, <2>3
  <2>5. QED
    BY <1>16, <2>4
<1>18. QED
  BY <1>3, <1>12, <1>14, <1>17 DEF t
-------------------------------------------------------------------------------
\* Two records are merged if they are for one cell, with one TTL.
LEMMA MergeableCells ==
  ASSUME NEW e, NEW f
  PROVE  Mergeable(e, f) <=> Cell(e) = Cell(f) /\ e.ttl = f.ttl
BY DEF Mergeable, Cell

\* x is e with one more target.
Widened(x, e, t) ==
  /\ x \in Fit /\ Cell(x) = Cell(e) /\ x.ttl = e.ttl /\ ToSet(x.targets) = ToSet(e.targets) \cup {t}

\* A record with one more target of its cell.
LEMMA WidenedType ==
  ASSUME NEW e \in Fit, NEW f \in Fit, Cell(e) = Cell(f)
  PROVE  /\ f.targets[1] \in ToSet(f.targets)
         /\ Widened([e EXCEPT !.targets = Append(@, f.targets[1])], e, f.targets[1])
<1> DEFINE t == f.targets[1]
           ts == Append(e.targets, t)
           x == [e EXCEPT !.targets = ts]
           TP == Target \cup Port
<1>1. /\ e \in Record /\ Suited(e) /\ e.targets \in Seq(TP)
      /\ Suited(f) /\ f.targets \in Seq(TP) /\ f.targets # <<>>
  BY DEF Fit, Record, Suited
<1>2. e.recordType = f.recordType
  BY DEF Cell
<1>3. 1 \in DOMAIN f.targets
  BY <1>1
<1>4. t \in TP /\ SuitableType(t) = e.recordType /\ t \in ToSet(f.targets)
  BY <1>1, <1>2, <1>3 DEF Suited, ToSet
<1> HIDE DEF t, TP
<1>5. ts \in Seq(TP) /\ ts # <<>>
      /\ \A j \in DOMAIN ts : ts[j] = t \/ \E k \in DOMAIN e.targets : ts[j] = e.targets[k]
  BY <1>1, <1>4
<1>6. ToSet(ts) = ToSet(e.targets) \cup {t}
  <2>1. DOMAIN ts = DOMAIN e.targets \cup {Len(e.targets) + 1} /\ ts[Len(e.targets) + 1] = t
        /\ \A k \in DOMAIN e.targets : ts[k] = e.targets[k]
    BY <1>1
  <2> HIDE DEF ts
  <2>2. QED
    BY <2>1 DEF ToSet
<1>7. \A j \in DOMAIN ts : SuitableType(ts[j]) = e.recordType
  BY <1>1, <1>4, <1>5 DEF Suited
<1> HIDE DEF ts
<1>8. /\ x \in Record /\ x.dnsName = e.dnsName /\ x.recordType = e.recordType
      /\ x.setIdentifier = e.setIdentifier /\ x.ttl = e.ttl /\ x.targets = ts
  BY <1>1, <1>5 DEF Record, TP
<1>9. Suited(x)
  BY <1>1, <1>5, <1>7, <1>8 DEF Suited
<1>10. Widened(x, e, t)
  BY <1>6, <1>8, <1>9 DEF Widened, Fit, Cell
<1>11. QED
  BY <1>4, <1>10 DEF t, ts

\* n is m with e merged in.
Merged(n, m, e) ==
  /\ n \in Seq(Fit) /\ n # <<>>
  /\ IF m # <<>> /\ Mergeable(m[Len(m)], e)
     THEN /\ Len(n) = Len(m) /\ \A k \in 1 .. Len(m) - 1 : n[k] = m[k]
          /\ Widened(n[Len(m)], m[Len(m)], e.targets[1])
     ELSE Len(n) = Len(m) + 1 /\ (\A k \in 1 .. Len(m) : n[k] = m[k]) /\ n[Len(m) + 1] = e

\* All but the last element of a list.
LEMMA AllButLast ==
  ASSUME NEW S, NEW s \in Seq(S), Len(s) \in Nat \ {0}
  PROVE  /\ SubSeq(s, 1, Len(s) - 1) \in Seq(S) /\ Len(SubSeq(s, 1, Len(s) - 1)) = Len(s) - 1
         /\ \A k \in 1 .. Len(s) - 1 : SubSeq(s, 1, Len(s) - 1)[k] = s[k]
<1> DEFINE n == Len(s) - 1
           f == [k \in 1 .. n |-> s[k]]
<1>1. n \in Nat /\ \A k \in 1 .. n : s[k] \in S
  OBVIOUS
<1>2. f \in Seq(S) /\ Len(f) = n
  BY <1>1
<1>3. SubSeq(s, 1, n) = f
  BY <1>1
<1>4. QED
  BY <1>2, <1>3

\* One step of the merge: one more record, or one more target in the last one.
LEMMA MergeType ==
  ASSUME NEW m \in Seq(Fit), NEW e \in Fit
  PROVE  Merged(Merge(m, e), m, e)
<1> DEFINE l == m[Len(m)]
           x == [l EXCEPT !.targets = Append(@, e.targets[1])]
           front == SubSeq(m, 1, Len(m) - 1)
<1>1. Merge(m, e) = IF m # <<>> /\ Mergeable(l, e) THEN Append(front, x) ELSE Append(m, e)
  BY DEF Merge, Last, Front
<1>2. CASE m # <<>> /\ Mergeable(l, e)
  <2>1. l \in Fit /\ front \in Seq(Fit) /\ Len(front) = Len(m) - 1 /\ Len(m) \in Nat \ {0}
        /\ \A k \in 1 .. Len(m) - 1 : front[k] = m[k]
    <3>1. Len(m) \in Nat \ {0}
      BY <1>2
    <3>2. l \in Fit
      BY <3>1
    <3>3. front \in Seq(Fit) /\ Len(front) = Len(m) - 1
          /\ \A k \in 1 .. Len(m) - 1 : front[k] = m[k]
      BY <3>1, AllButLast
    <3>5. QED
      BY <3>1, <3>2, <3>3
  <2>2. Cell(l) = Cell(e)
    BY <1>2, MergeableCells
  <2> HIDE DEF l, front
  <2>3. Widened(x, l, e.targets[1])
    BY <2>1, <2>2, WidenedType
  <2>4. x \in Fit
    BY <2>3 DEF Widened
  <2> HIDE DEF x
  <2> DEFINE n == Append(front, x)
  <2>5. n \in Seq(Fit) /\ n # <<>> /\ Len(n) = Len(m) /\ n[Len(m)] = x
        /\ \A k \in 1 .. Len(m) - 1 : n[k] = m[k]
    BY <2>1, <2>4
  <2> HIDE DEF n
  <2>6. Merge(m, e) = n
    BY <1>1, <1>2 DEF n
  <2>7. QED
    BY <1>2, <2>3, <2>5, <2>6 DEF Merged, l
<1>3. CASE ~(m # <<>> /\ Mergeable(l, e))
  <2> DEFINE n == Append(m, e)
  <2>1. n \in Seq(Fit) /\ n # <<>> /\ Len(n) = Len(m) + 1 /\ n[Len(m) + 1] = e
        /\ \A k \in 1 .. Len(m) : n[k] = m[k]
    OBVIOUS
  <2> HIDE DEF n
  <2>2. Merge(m, e) = n
    BY <1>1, <1>3 DEF n
  <2>3. QED
    BY <1>3, <2>1, <2>2 DEF Merged, l
<1>4. QED
  BY <1>2, <1>3

\* The targets of the first n records of a cell.
TargetsUpTo(s, n, c) == UNION {ToSet(s[i].targets) : i \in {j \in 1 .. n : Cell(s[j]) = c}}

\* m has one record for each cell of the first n of s, with all of its targets.
Merges(m, s, n) ==
  /\ m \in Seq(Fit)
  /\ \A k \in DOMAIN m : ToSet(m[k].targets) = TargetsUpTo(s, n, Cell(m[k]))
  /\ \A k \in DOMAIN m : \E i \in 1 .. n : Cell(s[i]) = Cell(m[k])
  /\ \A i \in 1 .. n : \E k \in DOMAIN m : Cell(m[k]) = Cell(s[i])
  /\ \A k, l \in DOMAIN m : Cell(m[k]) = Cell(m[l]) => k = l
  /\ n > 0 => m # <<>> /\ Cell(m[Len(m)]) = Cell(s[n]) /\ m[Len(m)].ttl = s[n].ttl

\* The targets among the first n records for a cell.
LEMMA TargetsOneMore ==
  ASSUME NEW s, NEW n \in Nat, n > 0, NEW c
  PROVE  TargetsUpTo(s, n, c) = IF Cell(s[n]) = c THEN TargetsUpTo(s, n - 1, c) \cup ToSet(s[n].targets)
                                ELSE TargetsUpTo(s, n - 1, c)
<1>1. 1 .. n = 1 .. n - 1 \cup {n}
  OBVIOUS
<1> DEFINE J(m) == {j \in 1 .. m : Cell(s[j]) = c}
<1>2. J(n) = IF Cell(s[n]) = c THEN J(n - 1) \cup {n} ELSE J(n - 1)
  BY <1>1
<1>3. \A m : TargetsUpTo(s, m, c) = UNION {ToSet(s[i].targets) : i \in J(m)}
  BY DEF TargetsUpTo
<1> HIDE DEF J
<1>4. CASE Cell(s[n]) = c
  <2>1. J(n) = J(n - 1) \cup {n}
    BY <1>2, <1>4
  <2>2. QED
    BY <1>3, <1>4, <2>1
<1>5. CASE Cell(s[n]) # c
  BY <1>2, <1>3, <1>5
<1>6. QED
  BY <1>4, <1>5

\* One step of the merge keeps all targets of the records so far.
LEMMA MergesOneMore ==
  ASSUME NEW s \in Seq(Fit), Consistent(ToSet(s)), Grouped(s), NEW n \in 1 .. Len(s),
         NEW m, Merges(m, s, n - 1), NEW r, Merged(r, m, s[n])
  PROVE  Merges(r, s, n)
<1> DEFINE e == s[n]
           c == Cell(e)
<1>1. /\ m \in Seq(Fit)
      /\ \A k \in DOMAIN m : ToSet(m[k].targets) = TargetsUpTo(s, n - 1, Cell(m[k]))
      /\ \A k \in DOMAIN m : \E i \in 1 .. n - 1 : Cell(s[i]) = Cell(m[k])
      /\ \A i \in 1 .. n - 1 : \E k \in DOMAIN m : Cell(m[k]) = Cell(s[i])
      /\ \A k, l \in DOMAIN m : Cell(m[k]) = Cell(m[l]) => k = l
      /\ n - 1 > 0 => m # <<>> /\ Cell(m[Len(m)]) = Cell(s[n - 1]) /\ m[Len(m)].ttl = s[n - 1].ttl
  BY DEF Merges
<1>2. /\ n \in Nat /\ n > 0 /\ Len(s) \in Nat /\ n <= Len(s)
      /\ \A i \in 1 .. n : i \in DOMAIN s /\ s[i] \in ToSet(s) /\ s[i] \in Fit
  BY DEF ToSet
<1>3. 1 .. n = 1 .. n - 1 \cup {n} /\ n \in 1 .. n
  BY <1>2
<1>4. \A i \in 1 .. n : Cell(s[i]) = c => s[i].ttl = e.ttl
                                          /\ (ToSet(s[i].targets) = ToSet(e.targets) \/ Len(e.targets) = 1)
  BY <1>2, <1>3 DEF Consistent
<1>5. \A i \in 1 .. n : NameAndType(s[i]) = NameAndType(e) <=> Cell(s[i]) = c
  <2> TAKE i \in 1 .. n
  <2>1. s[i].setIdentifier = e.setIdentifier
    BY <1>2, <1>3 DEF Consistent
  <2>2. QED
    BY <2>1 DEF NameAndType, Cell
<1>6. \A d : TargetsUpTo(s, n, d) = IF c = d THEN TargetsUpTo(s, n - 1, d) \cup ToSet(e.targets)
                                    ELSE TargetsUpTo(s, n - 1, d)
  BY <1>2, TargetsOneMore
<1>7. DOMAIN m = 1 .. Len(m) /\ Len(m) \in Nat
  BY <1>1
<1>8. e \in Fit /\ r \in Seq(Fit) /\ r # <<>> /\ DOMAIN r = 1 .. Len(r)
  BY <1>2, <1>3 DEF Merged
<1> HIDE DEF e, c
<1>9. CASE m # <<>> /\ Mergeable(m[Len(m)], e)
  <2> DEFINE z == Len(m)
  <2>1. Cell(m[z]) = c /\ m[z].ttl = e.ttl
    BY <1>9, MergeableCells DEF c
  <2>2. /\ Len(r) = z /\ (\A k \in 1 .. z - 1 : r[k] = m[k]) /\ Widened(r[z], m[z], e.targets[1])
    BY <1>9 DEF Merged, e
  <2>3. Cell(r[z]) = c /\ r[z].ttl = e.ttl /\ ToSet(r[z].targets) = ToSet(m[z].targets) \cup {e.targets[1]}
    BY <2>1, <2>2 DEF Widened
  <2>4. z \in 1 .. z /\ z \in DOMAIN m /\ DOMAIN r = DOMAIN m
        /\ \A k \in 1 .. z : k \in DOMAIN m /\ (k = z \/ k \in 1 .. z - 1)
    <3>1. z \in Nat /\ z > 0
      BY <1>1, <1>9
    <3>2. DOMAIN r = DOMAIN m
      BY <1>7, <1>8, <2>2
    <3>3. DOMAIN m = 1 .. z
      BY <1>7
    <3> HIDE DEF z
    <3>4. z \in 1 .. z /\ \A k \in 1 .. z : k = z \/ k \in 1 .. z - 1
      BY SMTT(40), <3>1
    <3>5. QED
      BY <3>2, <3>3, <3>4
  <2>5. \A k \in DOMAIN m : Cell(r[k]) = Cell(m[k])
    BY Zenon, <1>7, <2>1, <2>2, <2>3, <2>4
  <2>6. PICK i \in 1 .. n - 1 : Cell(s[i]) = c
    BY <1>1, <2>1, <2>4
  <2>7. ToSet(r[z].targets) = TargetsUpTo(s, n, c)
    <3>1. ToSet(m[z].targets) = TargetsUpTo(s, n - 1, c)
      BY <1>1, <2>1, <2>4
    <3>2. e.targets[1] \in ToSet(e.targets) /\ e.targets \in Seq(Target \cup Port)
      BY <1>8, WidenedType DEF Fit, Record
    <3>3. ToSet(s[i].targets) \subseteq TargetsUpTo(s, n - 1, c)
      BY <2>6 DEF TargetsUpTo
    <3>4. ToSet(s[i].targets) = ToSet(e.targets) \/ Len(e.targets) = 1
      BY <1>3, <1>4, <2>6
    <3>5. Len(e.targets) = 1 => ToSet(e.targets) = {e.targets[1]}
      BY <3>2 DEF ToSet
    <3>6. TargetsUpTo(s, n - 1, c) \cup {e.targets[1]} = TargetsUpTo(s, n - 1, c) \cup ToSet(e.targets)
      BY SMTT(40), <3>2, <3>3, <3>4, <3>5
    <3>7. QED
      BY <1>6, <2>3, <3>1, <3>6
  <2>8. \A k \in DOMAIN r : ToSet(r[k].targets) = TargetsUpTo(s, n, Cell(r[k]))
    <3> TAKE k \in DOMAIN r
    <3>1. CASE k = z
      BY <2>3, <2>7, <3>1
    <3>2. CASE k \in 1 .. z - 1
      <4>1. k # z /\ k \in DOMAIN m /\ r[k] = m[k]
        BY <1>7, <2>2, <3>2
      <4>2. Cell(m[k]) # c
        BY <1>1, <2>1, <2>4, <4>1
      <4>3. QED
        BY <1>1, <1>6, <4>1, <4>2
    <3>3. QED
      BY Zenon, <1>7, <2>4, <3>1, <3>2
  <2>9. \A k \in DOMAIN r : \E j \in 1 .. n : Cell(s[j]) = Cell(r[k])
    BY <1>1, <1>3, <2>4, <2>5
  <2>10. \A j \in 1 .. n : \E k \in DOMAIN r : Cell(r[k]) = Cell(s[j])
    <3> TAKE j \in 1 .. n
    <3>1. CASE j = n
      BY <2>3, <2>4, <3>1 DEF c, e
    <3>2. CASE j \in 1 .. n - 1
      BY <1>1, <2>4, <2>5, <3>2
    <3>3. QED
      BY <1>3, <3>1, <3>2
  <2>11. \A k, l \in DOMAIN r : Cell(r[k]) = Cell(r[l]) => k = l
    BY <1>1, <2>4, <2>5
  <2>12. Cell(r[Len(r)]) = Cell(s[n]) /\ r[Len(r)].ttl = s[n].ttl
    BY <2>2, <2>3 DEF c, e
  <2>13. QED
    BY <1>8, <2>8, <2>9, <2>10, <2>11, <2>12 DEF Merges
<1>10. CASE ~(m # <<>> /\ Mergeable(m[Len(m)], e))
  <2> DEFINE z == Len(m)
  <2>1. Len(r) = z + 1 /\ (\A k \in 1 .. z : r[k] = m[k]) /\ r[z + 1] = e
    BY <1>10 DEF Merged, e
  <2>2. \A i \in 1 .. n - 1 : Cell(s[i]) # c
    <3> SUFFICES ASSUME NEW i \in 1 .. n - 1, Cell(s[i]) = c PROVE FALSE
      OBVIOUS
    <3>1. n - 1 \in 1 .. n /\ n - 1 > 0 /\ i <= n - 1 /\ n - 1 <= n /\ i \in 1 .. n
      BY <1>2
    <3>2. m # <<>> /\ Cell(m[z]) = Cell(s[n - 1]) /\ m[z].ttl = s[n - 1].ttl
      BY <1>1, <3>1
    <3>3. NameAndType(s[i]) = NameAndType(s[n])
      BY <1>5, <3>1 DEF e
    <3>4. i \in DOMAIN s /\ n - 1 \in DOMAIN s /\ n \in DOMAIN s
      BY <1>2, <1>3, <3>1
    <3>5. NameAndType(s[n - 1]) = NameAndType(s[i])
      BY <3>1, <3>3, <3>4 DEF Grouped
    <3>6. NameAndType(s[n - 1]) = NameAndType(e)
      BY <3>3, <3>5 DEF e
    <3>7. Cell(s[n - 1]) = c /\ s[n - 1].ttl = e.ttl
      BY <1>4, <1>5, <3>1, <3>6
    <3>8. Mergeable(m[z], e)
      BY <3>2, <3>7, MergeableCells DEF c
    <3>9. QED
      BY <1>10, <3>2, <3>8
  <2>3. \A k \in DOMAIN m : Cell(m[k]) # c
    BY <1>1, <2>2
  <2>4. DOMAIN r = DOMAIN m \cup {z + 1} /\ z + 1 \notin DOMAIN m
    BY <1>7, <1>8, <2>1
  <2>5. \A k \in DOMAIN m : r[k] = m[k]
    BY <1>7, <2>1
  <2>6. TargetsUpTo(s, n, c) = ToSet(e.targets)
    <3>1. TargetsUpTo(s, n - 1, c) = {}
      BY <2>2 DEF TargetsUpTo
    <3>2. QED
      BY <1>6, <3>1
  <2>7. Cell(r[z + 1]) = c
    BY <2>1 DEF c
  <2>8. \A k \in DOMAIN r : ToSet(r[k].targets) = TargetsUpTo(s, n, Cell(r[k]))
    <3> TAKE k \in DOMAIN r
    <3>1. CASE k = z + 1
      BY <2>1, <2>6, <2>7, <3>1
    <3>2. CASE k \in DOMAIN m
      BY <1>1, <1>6, <2>3, <2>5, <3>2
    <3>3. QED
      BY <2>4, <3>1, <3>2
  <2>9. \A k \in DOMAIN r : \E j \in 1 .. n : Cell(s[j]) = Cell(r[k])
    <3> TAKE k \in DOMAIN r
    <3>1. CASE k = z + 1
      BY <1>3, <2>7, <3>1 DEF c, e
    <3>2. CASE k \in DOMAIN m
      BY <1>1, <1>3, <2>5, <3>2
    <3>3. QED
      BY <2>4, <3>1, <3>2
  <2>10. \A j \in 1 .. n : \E k \in DOMAIN r : Cell(r[k]) = Cell(s[j])
    <3> TAKE j \in 1 .. n
    <3>1. CASE j = n
      BY <2>4, <2>7, <3>1 DEF c, e
    <3>2. CASE j \in 1 .. n - 1
      BY <1>1, <2>4, <2>5, <3>2
    <3>3. QED
      BY <1>3, <3>1, <3>2
  <2>11. \A k, l \in DOMAIN r : Cell(r[k]) = Cell(r[l]) => k = l
    BY <1>1, <2>3, <2>4, <2>5, <2>7
  <2>12. Cell(r[Len(r)]) = Cell(s[n]) /\ r[Len(r)].ttl = s[n].ttl
    BY <2>1 DEF e
  <2>13. QED
    BY <1>8, <2>8, <2>9, <2>10, <2>11, <2>12 DEF Merges
<1>11. QED
  BY <1>9, <1>10

-------------------------------------------------------------------------------
MergedUpTo(s) ==
  CHOOSE merged : merged = [n \in 0 .. Len(s) |->
    IF n = 0 THEN <<>> ELSE Merge(merged[n - 1], s[n])]

\* The recursion that MergeAll is defined by.
LEMMA MergeSteps ==
  ASSUME NEW s \in Seq(Fit)
  PROVE  /\ MergeAll(s) = MergedUpTo(s)[Len(s)]
         /\ MergedUpTo(s)[0] = <<>>
         /\ \A n \in 1 .. Len(s) : MergedUpTo(s)[n] = Merge(MergedUpTo(s)[n - 1], s[n])
<1> DEFINE N == Len(s)
           V == Seq(Fit)
           step == [n \in 1 .. N |-> [m \in V |-> Merge(m, s[n])]]
           U == MergedUpTo(s)
<1>1. N \in Nat /\ 0 \in 0 .. N /\ \A n \in 1 .. N : n \in 0 .. N /\ n - 1 \in 0 .. N /\ n # 0 /\ s[n] \in Fit
  OBVIOUS
<1>2. \A n \in 1 .. N : \A m \in V : Merge(m, s[n]) \in V
  BY <1>1, MergeType DEF Merged
<1>3. \A n \in 1 .. N : \A m \in V : step[n][m] = Merge(m, s[n])
  OBVIOUS
<1>4. <<>> \in V
  OBVIOUS
<1> HIDE DEF step, V
<1>5. Keeps(step, N, V)
  BY <1>2, <1>3 DEF Keeps
<1>6. PICK f \in [0 .. N -> V] : Follows(f, N, <<>>, step)
  BY <1>1, <1>4, <1>5, Recursion
<1>7. \A n \in 1 .. N : f[n] = Merge(f[n - 1], s[n])
  <2> TAKE n \in 1 .. N
  <2>1. f[n - 1] \in V
    BY <1>1, <1>6
  <2>2. f[n] = step[n][f[n - 1]]
    BY <1>6 DEF Follows
  <2>3. QED
    BY <1>3, <2>1, <2>2
<1>8. f = [n \in 0 .. N |-> IF n = 0 THEN <<>> ELSE Merge(f[n - 1], s[n])]
  <2>1. f[0] = <<>>
    BY <1>6 DEF Follows
  <2>2. \A n \in 0 .. N : n # 0 => n \in 1 .. N
    BY <1>1
  <2>3. \A n \in 0 .. N : f[n] = IF n = 0 THEN <<>> ELSE Merge(f[n - 1], s[n])
    BY <1>7, <2>1, <2>2
  <2>4. f = [n \in 0 .. N |-> f[n]]
    BY <1>6
  <2>5. QED
    BY <2>3, <2>4
<1>9. U = [n \in 0 .. N |-> IF n = 0 THEN <<>> ELSE Merge(U[n - 1], s[n])]
  BY <1>8 DEF MergedUpTo
<1>10. MergeAll(s) = U[N]
  BY DEF MergeAll, MergedUpTo
<1> HIDE DEF U
<1>11. U[0] = <<>> /\ \A n \in 1 .. N : U[n] = Merge(U[n - 1], s[n])
  BY <1>1, <1>9
<1>12. QED
  BY <1>10, <1>11 DEF U

\* The merge as a whole keeps all targets, in one record for each cell.
LEMMA MergeAllType ==
  ASSUME NEW s \in Seq(Fit)
  PROVE  /\ MergeAll(s) \in Seq(Fit)
         /\ Consistent(ToSet(s)) /\ Grouped(s) => Merges(MergeAll(s), s, Len(s))
<1> DEFINE N == Len(s)
           U == MergedUpTo(s)
           T == {n \in 0 .. N : U[n] \in Seq(Fit)}
           M == {n \in 0 .. N : Merges(U[n], s, n)}
<1>1. /\ MergeAll(s) = U[N] /\ U[0] = <<>>
      /\ \A n \in 1 .. N : U[n] = Merge(U[n - 1], s[n])
  BY MergeSteps
<1> HIDE DEF U
<1>2. N \in Nat /\ 0 \in 0 .. N /\ N \in 0 .. N
      /\ \A n \in 1 .. N : n \in 0 .. N /\ n - 1 \in 0 .. N /\ s[n] \in Fit
  OBVIOUS
<1>3. T = 0 .. N
  <2>1. 0 \in T
    <3>1. U[0] = <<>> /\ <<>> \in Seq(Fit) /\ 0 \in 0 .. N
      BY <1>1, <1>2
    <3>2. U[0] \in Seq(Fit)
      BY <3>1
    <3>3. QED
      BY <3>1, <3>2
  <2>2. ASSUME NEW n \in 1 .. N, n - 1 \in T
        PROVE  n \in T
    BY <1>1, <1>2, <2>2, MergeType DEF Merged
  <2>3. T \subseteq 0 .. N
    OBVIOUS
  <2> HIDE DEF T, N
  <2>4. 0 .. N \subseteq T
    BY <1>2, <2>1, <2>2, Upward
  <2>5. QED
    BY <2>3, <2>4
<1>4. ASSUME Consistent(ToSet(s)), Grouped(s)
      PROVE  M = 0 .. N
  <2>1. 0 \in M
    <3>1. Merges(<<>>, s, 0)
      BY DEF Merges
    <3>2. QED
      BY <1>1, <1>2, <3>1
  <2>2. ASSUME NEW n \in 1 .. N, n - 1 \in M
        PROVE  n \in M
    <3>1. Merges(U[n - 1], s, n - 1) /\ U[n - 1] \in Seq(Fit)
      BY <2>2 DEF Merges
    <3>2. Merged(U[n], U[n - 1], s[n])
      BY <1>1, <1>2, <3>1, MergeType
    <3>3. Merges(U[n], s, n)
      BY <1>4, <3>1, <3>2, MergesOneMore
    <3>4. QED
      BY <1>2, <3>3
  <2>3. M \subseteq 0 .. N
    OBVIOUS
  <2> HIDE DEF M, N
  <2>4. 0 .. N \subseteq M
    BY <1>2, <2>1, <2>2, Upward
  <2>5. QED
    BY <2>3, <2>4
<1>5. QED
  BY <1>1, <1>2, <1>3, <1>4

\* Each cell with all of its targets.
Unite(C) == {<<c[1], UNION {d[2] : d \in {x \in C : x[1] = c[1]}}>> : c \in C}

OnePerCell(S) == \A e, f \in S : Cell(e) = Cell(f) => e = f

\* The content of merged records unites that of the records before.
LEMMA MergesContent ==
  ASSUME NEW s \in Seq(Fit), NEW m, Merges(m, s, Len(s))
  PROVE  ContentOf(m) = Unite(ContentOf(s)) /\ OnePerCell(ToSet(m))
<1> DEFINE C == ContentOf(s)
           All(c) == UNION {d[2] : d \in {x \in C : x[1] = c}}
<1>1. /\ m \in Seq(Fit)
      /\ \A k \in DOMAIN m : ToSet(m[k].targets) = TargetsUpTo(s, Len(s), Cell(m[k]))
      /\ \A k \in DOMAIN m : \E i \in DOMAIN s : Cell(s[i]) = Cell(m[k])
      /\ \A i \in DOMAIN s : \E k \in DOMAIN m : Cell(m[k]) = Cell(s[i])
      /\ \A k, l \in DOMAIN m : Cell(m[k]) = Cell(m[l]) => k = l
  BY DEF Merges
<1>2. C = {Says(s[i]) : i \in DOMAIN s}
  BY DEF ContentOf, ToSet
<1>3. \A i \in DOMAIN s : Says(s[i])[1] = Cell(s[i]) /\ Says(s[i])[2] = ToSet(s[i].targets)
  BY DEF Says
<1>4. \A c : TargetsUpTo(s, Len(s), c) = All(c)
  <2> TAKE c
  <2>1. TargetsUpTo(s, Len(s), c) = UNION {ToSet(s[i].targets) : i \in {j \in DOMAIN s : Cell(s[j]) = c}}
    BY DEF TargetsUpTo
  <2> HIDE DEF C
  <2>2. \A i \in DOMAIN s : Cell(s[i]) = c => ToSet(s[i].targets) \in {d[2] : d \in {x \in C : x[1] = c}}
    BY <1>2, <1>3
  <2>3. \A d \in C : d[1] = c => \E i \in DOMAIN s : Cell(s[i]) = c /\ d[2] = ToSet(s[i].targets)
    BY <1>2, <1>3
  <2>4. {ToSet(s[i].targets) : i \in {j \in DOMAIN s : Cell(s[j]) = c}} = {d[2] : d \in {x \in C : x[1] = c}}
    BY <2>2, <2>3
  <2>5. QED
    BY <2>1, <2>4
<1>5. Unite(C) = {<<c[1], All(c[1])>> : c \in C}
  BY DEF Unite
<1> HIDE DEF C, All
<1>6. {<<c[1], All(c[1])>> : c \in C} = {<<Cell(s[i]), All(Cell(s[i]))>> : i \in DOMAIN s}
  <2> DEFINE G(c) == <<c[1], All(c[1])>>
  <2>1. {G(c) : c \in C} = {G(Says(s[i])) : i \in DOMAIN s}
    BY <1>2
  <2>2. \A i \in DOMAIN s : G(Says(s[i])) = <<Cell(s[i]), All(Cell(s[i]))>>
    BY <1>3
  <2> HIDE DEF G
  <2>3. {G(c) : c \in C} = {<<Cell(s[i]), All(Cell(s[i]))>> : i \in DOMAIN s}
    BY <2>1, <2>2
  <2>4. QED
    BY <2>3 DEF G
<1>7. ContentOf(m) = {<<Cell(m[k]), All(Cell(m[k]))>> : k \in DOMAIN m}
  <2>1. \A k \in DOMAIN m : Says(m[k]) = <<Cell(m[k]), All(Cell(m[k]))>>
    BY <1>1, <1>4 DEF Says
  <2>2. ContentOf(m) = {Says(m[k]) : k \in DOMAIN m}
    BY DEF ContentOf, ToSet
  <2>3. QED
    BY <2>1, <2>2
<1>8. {<<Cell(m[k]), All(Cell(m[k]))>> : k \in DOMAIN m} = {<<Cell(s[i]), All(Cell(s[i]))>> : i \in DOMAIN s}
  BY <1>1
<1>9. OnePerCell(ToSet(m))
  BY <1>1 DEF OnePerCell, ToSet
<1>10. QED
  BY <1>5, <1>6, <1>7, <1>8, <1>9 DEF C

\* Sorting targets leaves one record for each cell.
LEMMA SortedOnePerCell ==
  ASSUME NEW eps \in Seq(Fit), OnePerCell(ToSet(eps))
  PROVE  OnePerCell(ToSet(SortAll(eps)))
<1> DEFINE t == SortAll(eps)
<1>1. IsFunction(t, DOMAIN eps) /\ \A i \in DOMAIN eps : t[i] = SortTargets(eps[i])
  BY DEF SortAll, IsFunction
<1> HIDE DEF t
<1>2. DOMAIN t = DOMAIN eps
  BY <1>1 DEF IsFunction
<1>3. \A e \in Fit : Cell(SortTargets(e)) = Cell(e)
  BY SortTargetsType DEF Fit, Cell
<1>4. \A i \in DOMAIN eps : eps[i] \in Fit /\ eps[i] \in ToSet(eps)
  BY DEF ToSet
<1>5. SUFFICES ASSUME NEW i \in DOMAIN eps, NEW j \in DOMAIN eps, Cell(t[i]) = Cell(t[j])
               PROVE  t[i] = t[j]
  BY <1>2 DEF OnePerCell, ToSet, t
<1>6. Cell(eps[i]) = Cell(eps[j])
  BY <1>1, <1>3, <1>4, <1>5
<1>7. eps[i] = eps[j]
  BY <1>4, <1>6 DEF OnePerCell
<1>8. QED
  BY <1>1, <1>7

\* What is said of other names is united the same way.
LEMMA UnitedApart ==
  ASSUME NEW C, NEW D, NEW X, Unless(C, X) = Unless(D, X)
  PROVE  Unless(Unite(C), X) = Unless(Unite(D), X)
<1> DEFINE U(S, k) == UNION {d[2] : d \in {x \in S : x[1] = k}}
           Say(S, k) == <<k, U(S, k)>>
<1>1. \A c : c[1][1] \notin X => (c \in C <=> c \in D)
  BY DEF Unless
<1>2. \A k : k[1] \notin X => U(C, k) = U(D, k)
  <2> TAKE k
  <2> HAVE k[1] \notin X
  <2>1. {x \in C : x[1] = k} = {x \in D : x[1] = k}
    BY <1>1
  <2>2. QED
    BY <2>1
<1> HIDE DEF U
<1>3. Unite(C) = {Say(C, x[1]) : x \in C} /\ Unite(D) = {Say(D, x[1]) : x \in D}
  BY Zenon DEF Unite, U
<1>4. \A S, k : Say(S, k)[1] = k
  OBVIOUS
<1>5. \A k : k[1] \notin X => Say(C, k) = Say(D, k)
  BY <1>2
<1> HIDE DEF Say
<1>6. Unless(Unite(C), X) = {Say(C, x[1]) : x \in Unless(C, X)}
  BY <1>3, <1>4 DEF Unless
<1>7. Unless(Unite(D), X) = {Say(D, x[1]) : x \in Unless(D, X)}
  BY <1>3, <1>4 DEF Unless
<1>8. \A x \in Unless(C, X) : Say(C, x[1]) = Say(D, x[1])
  BY <1>5 DEF Unless
<1>9. QED
  BY <1>6, <1>7, <1>8

\* Not even with different set identifiers.
OnePerName(S) == \A e, f \in S : NameAndType(e) = NameAndType(f) => e = f

\* serviceSource.Endpoints: one record for each cell, with what all services say.
LEMMA MeshSourceType ==
  ASSUME NEW v, Typed(v), NEW r \in MeshServiceSource(v)
  PROVE  /\ r \in ResultOf(Fit) /\ r.state = "ok"
         /\ Distinct(ToSet(v.service)) => OnePerName(ToSet(r.eps))
         /\ Distinct(ToSet(v.service)) =>
              ContentOf(r.eps) = Unite(UNION {ContentOf(MeshEndpoints(svc, v)) : svc \in ToSet(v.service)})
         /\ \A X : Distinct(ToSet(v.service)) /\ AllApart(v, X) =>
              Unless(ContentOf(r.eps), X)
                = Unless(Unite(UNION {MeshContent(svc, v) : svc \in ToSet(v.service)}), X)
<1> DEFINE all == AllServices(v)
           s == SortedByName(all)
           m == MergeAll(s)
           eps == SortAll(m)
           C == UNION {MeshContent(svc, v) : svc \in ToSet(v.service)}
<1>1. r = Ok(eps)
  BY DEF MeshServiceSource
<1>2. /\ all \in Seq(Fit)
      /\ Distinct(ToSet(v.service)) => Consistent(ToSet(all))
      /\ ContentOf(all) = UNION {ContentOf(MeshEndpoints(svc, v)) : svc \in ToSet(v.service)}
      /\ \A X : AllApart(v, X) => Unless(ContentOf(all), X) = Unless(C, X)
  BY AllServicesType
<1> HIDE DEF all, C
<1>3. s \in Seq(Fit) /\ ToSet(s) = ToSet(all) /\ Grouped(s)
  BY <1>2, SortedByNameType
<1> HIDE DEF s
<1>4. ContentOf(s) = ContentOf(all)
  BY <1>3 DEF ContentOf
<1>5. m \in Seq(Fit) /\ (Consistent(ToSet(s)) => Merges(m, s, Len(s)))
  BY <1>3, MergeAllType
<1> HIDE DEF m
<1>6. Distinct(ToSet(v.service)) => ContentOf(m) = Unite(ContentOf(s)) /\ OnePerCell(ToSet(m))
  BY <1>2, <1>3, <1>5, MergesContent
<1>7. eps \in Seq(Fit) /\ ContentOf(eps) = ContentOf(m)
  BY <1>5, SortAllType
<1>8. OnePerCell(ToSet(m)) => OnePerCell(ToSet(eps))
  BY <1>5, SortedOnePerCell
<1> HIDE DEF eps
<1>9. Ok(eps) \in ResultOf(Fit) /\ Ok(eps).state = "ok" /\ Ok(eps).eps = eps
  BY <1>7, Results
<1>10. ASSUME Distinct(ToSet(v.service))
       PROVE  OnePerName(ToSet(eps))
  <2>1. ASSUME NEW e \in ToSet(eps)
        PROVE  \E x \in ToSet(all) : Cell(e) = Cell(x)
    <3>1. Says(e) \in Unite(ContentOf(all))
      BY <1>4, <1>6, <1>7, <1>10 DEF ContentOf
    <3>2. PICK c \in ContentOf(all) : Says(e)[1] = c[1]
      BY <3>1 DEF Unite
    <3>3. QED
      BY <3>2 DEF ContentOf, Says
  <2>2. ASSUME NEW e \in ToSet(eps), NEW f \in ToSet(eps), NameAndType(e) = NameAndType(f)
        PROVE  e = f
    <3>1. PICK x \in ToSet(all) : Cell(e) = Cell(x)
      BY <2>1
    <3>2. PICK y \in ToSet(all) : Cell(f) = Cell(y)
      BY <2>1
    <3>3. x.setIdentifier = y.setIdentifier
      BY <1>2, <1>10 DEF Consistent
    <3>4. Cell(e) = Cell(f)
      BY <2>2, <3>1, <3>2, <3>3 DEF Cell, NameAndType
    <3>5. OnePerCell(ToSet(eps))
      BY <1>6, <1>8, <1>10
    <3>6. QED
      BY <3>4, <3>5 DEF OnePerCell
  <2>3. QED
    BY <2>2 DEF OnePerName
<1>11. ASSUME Distinct(ToSet(v.service)), NEW X, AllApart(v, X)
       PROVE  Unless(ContentOf(eps), X) = Unless(Unite(C), X)
  <2>1. ContentOf(eps) = Unite(ContentOf(all))
    BY <1>4, <1>6, <1>7, <1>11
  <2>2. Unless(ContentOf(all), X) = Unless(C, X)
    BY <1>2, <1>11
  <2>3. QED
    BY <2>1, <2>2, UnitedApart
<1>12. QED
  BY <1>1, <1>2, <1>4, <1>6, <1>7, <1>9, <1>10, <1>11 DEF C

-------------------------------------------------------------------------------
(***************************************************************************)
(* What a source answers.                                                  *)
(***************************************************************************)
LEMMA SomeWalk ==
  ASSUME NEW S, IsFiniteSet(S)
  PROVE  SetToSeq(S) \in Walks(S)
<1> DEFINE n == Cardinality(S)
           F == [1 .. n -> S]
           W == {g \in F : \A i, j \in 1 .. n : i # j => g[i] # g[j]}
           f == SetToSeq(S)
<1>1. ExistsBijection(1 .. n, S)
  BY FS_CardinalityType
<1>2. \E g \in F : IsInjective(g)
  BY <1>1 DEF ExistsBijection, Bijection, Injection, IsInjective
<1>3. f \in F /\ IsInjective(f)
  BY <1>2 DEF SetToSeq
<1> HIDE DEF f
<1>4. f \in W
  BY <1>3 DEF IsInjective
<1>5. Walks(S) = W
  BY DEF Walks, SetToSeqs
<1>6. QED
  BY <1>4, <1>5 DEF f

\* The same services, pods and nodes in another order.
SameView(u, v) ==
  /\ u.endpoints = v.endpoints /\ ToSet(u.pod) = ToSet(v.pod) /\ ToSet(u.node) = ToSet(v.node)

\* The pods of a service, whatever the order of the lister.
LEMMA PodsOfSet ==
  ASSUME NEW svc, NEW v, Typed(v)
  PROVE  ToSet(PodsOf(svc, v)) = {p \in ToSet(v.pod) : p.ns = svc.ns /\ svc.selector \subseteq p.labels}
<1> DEFINE S == {p \in ToSet(v.pod) : p.ns = svc.ns /\ svc.selector \subseteq p.labels}
<1>1. v.pod \in Seq(PodResource) /\ PodsOf(svc, v) = Only(v.pod, S) /\ S \subseteq ToSet(v.pod)
  BY DEF Typed, PodsOf
<1> HIDE DEF S
<1>2. QED
  BY <1>1, OnlyThose DEF S

\* What a service says depends on the resources, not on their order.
LEMMA SameContent ==
  ASSUME NEW svc, NEW u, NEW v, Typed(u), Typed(v), SameView(u, v)
  PROVE  MeshContent(svc, u) = MeshContent(svc, v)
<1>1. Nodes(u) = Nodes(v) /\ ToSet(PodsOf(svc, u)) = ToSet(PodsOf(svc, v))
  BY PodsOfSet DEF SameView, Nodes
<1>2. PublishedAddresses(svc, u) = PublishedAddresses(svc, v)
  BY DEF PublishedAddresses, SameView
<1>3. \A a : PodOf(svc, a, u) = PodOf(svc, a, v) /\ PodFor(svc, a, u) = PodFor(svc, a, v)
  BY <1>1 DEF PodOf, PodFor
<1>4. PodAddresses(svc, u) = PodAddresses(svc, v)
  BY <1>2, <1>3 DEF PodAddresses
<1>5. \A p : MissesNode(svc, p, u) = MissesNode(svc, p, v)
  BY <1>1 DEF MissesNode
<1>6. HeadlessWell(svc, u) = HeadlessWell(svc, v)
  BY <1>3, <1>4, <1>5 DEF HeadlessWell
<1>7. \A p, ip : HeadlessPairs(svc, p, ip, u) = HeadlessPairs(svc, p, ip, v)
  BY <1>1 DEF HeadlessPairs, HeadlessTargets
<1>8. ServicePairs(svc, u) = ServicePairs(svc, v)
  BY <1>3, <1>4, <1>7 DEF ServicePairs
<1>9. HeadlessContent(svc, u) = HeadlessContent(svc, v)
  BY <1>6, <1>8 DEF HeadlessContent
<1>10. RunningPods(svc, u) = RunningPods(svc, v)
  BY <1>1 DEF RunningPods, SameView
<1>11. ReadyPods(svc, u) = ReadyPods(svc, v) /\ StayingPods(svc, u) = StayingPods(svc, v)
  BY <1>10 DEF ReadyPods, StayingPods
<1>12. LocalNodeNames(svc, u) = LocalNodeNames(svc, v)
  BY <1>10, <1>11 DEF LocalNodeNames
<1>13. TargetNodeSet(svc, u) = TargetNodeSet(svc, v)
  BY <1>1, <1>12 DEF TargetNodeSet
<1>14. GeneratedContent(svc, u) = GeneratedContent(svc, v)
  BY <1>9, <1>13 DEF GeneratedContent
<1>15. QED
  BY <1>14 DEF MeshContent

\* Resources of the cluster, of the kinds a source reads.
Holds(r, s) == \A k \in Reads(s) : IsFiniteSet(r[k]) /\ r[k] \subseteq Stock(k)

\* Some view of them.
ViewOf(r) == [service |-> SetToSeq(r["service"]), endpoints |-> SetToSeq(r["endpoints"]),
              pod |-> SetToSeq(r["pod"]), node |-> SetToSeq(r["node"])]

MeshKinds == {"service", "endpoints", "pod", "node"}

\* What the listers return to the source of services.
LEMMA ViewType ==
  ASSUME NEW r, \A k \in MeshKinds : IsFiniteSet(r[k]) /\ r[k] \subseteq Stock(k),
         NEW l \in Walks(r["service"]), NEW m \in Walks(r["pod"]), NEW n \in Walks(r["node"]),
         NEW v, v = [service |-> l, endpoints |-> SetToSeq(r["endpoints"]), pod |-> m, node |-> n]
  PROVE  /\ Typed(v) /\ ToSet(v.service) = r["service"] /\ ToSet(v.pod) = r["pod"]
         /\ ToSet(v.node) = r["node"] /\ v.endpoints = SetToSeq(r["endpoints"])
<1> DEFINE e == SetToSeq(r["endpoints"])
<1>1. /\ IsFiniteSet(r["service"]) /\ IsFiniteSet(r["endpoints"])
      /\ IsFiniteSet(r["pod"]) /\ IsFiniteSet(r["node"])
  BY DEF MeshKinds
<1>2. /\ r["service"] \subseteq ServiceResource /\ r["endpoints"] \subseteq EndpointsResource
      /\ r["pod"] \subseteq PodResource /\ r["node"] \subseteq NodeResource
  <2>1. \A k \in MeshKinds : k \in Kinds /\ Stock(k) \subseteq Resource(k)
    BY StockType DEF MeshKinds, Kinds
  <2>2. \A k \in MeshKinds : r[k] \subseteq Resource(k)
    BY <2>1
  <2>3. /\ r["service"] \subseteq Resource("service") /\ r["endpoints"] \subseteq Resource("endpoints")
        /\ r["pod"] \subseteq Resource("pod") /\ r["node"] \subseteq Resource("node")
    BY <2>2 DEF MeshKinds
  <2>4. QED
    BY <2>3 DEF Resource
<1>3. /\ l \in Seq(r["service"]) /\ ToSet(l) = r["service"]
      /\ m \in Seq(r["pod"]) /\ ToSet(m) = r["pod"]
      /\ n \in Seq(r["node"]) /\ ToSet(n) = r["node"]
  BY <1>1, WalksType
<1>4. e \in Seq(r["endpoints"])
  BY <1>1, SomeWalk, WalksType
<1> HIDE DEF e
<1>5. v.service = l /\ v.endpoints = e /\ v.pod = m /\ v.node = n
  BY DEF e
<1>6. /\ l \in Seq(ServiceResource) /\ e \in Seq(EndpointsResource)
      /\ m \in Seq(PodResource) /\ n \in Seq(NodeResource)
  BY <1>2, <1>3, <1>4
<1>7. Typed(v)
  BY <1>5, <1>6 DEF Typed
<1>8. QED
  BY <1>3, <1>5, <1>7 DEF e

-------------------------------------------------------------------------------
\* When a source has records to list, what it answers otherwise, and what they say.
SourceWell(s, r) ==
  CASE s = "ingress" -> \A ing \in TakenIngresses(r["ingress"]) : IngressEndpoints(ing).state = "ok"
    [] s = "istio-gateway" ->
         \A gw \in {g \in r["istiogateway"] : Responsible(g.ann)} : IstioWell(gw, r["ingress"])
    [] s = "node" -> \A n \in r["node"] : NodeAddresses(n) # <<>>
    [] s = "pod" -> \A p \in HostPods(r["pod"]) : ~NodeMissing(p, r["node"])
    [] OTHER -> TRUE

SourceWrong(s) == IF s = "pod" THEN Panics ELSE Failed

SourceContent(s, r) ==
  CASE s = "ingress" ->
         UNION {ContentOf(IngressEndpoints(ing).eps) : ing \in TakenIngresses(r["ingress"])}
    [] s = "gateway" -> UNION {GatewayContent(gw) : gw \in r["gateway"]}
    [] s = "istio-gateway" ->
         UNION {IstioContent(gw, r["service"], r["ingress"]) :
                  gw \in {g \in r["istiogateway"] : Responsible(g.ann)}}
    [] s = "istio-se" ->
         UNION {ServiceEntryContent(se) : se \in LocatedIn(r["serviceentry"], "MESH_EXTERNAL")
                                                \cup LocatedIn(r["serviceentry"], "MESH_INTERNAL")}
    [] s = "mesh-service" -> Unite(UNION {MeshContent(svc, ViewOf(r)) : svc \in r["service"]})
    [] s = "node" -> GatheredContent(UNION {NodePairs(n) : n \in r["node"]})
    [] s = "pod" ->
         NewContent(GatheredContent(UNION {ToSet(PodPairs(p, r["node"])) : p \in HostPods(r["pod"])}))
    [] s = "k8s" -> NewContent(GatheredContent({K8SPair(p) : p \in AddressedPods(r["pod"])}))

\* The source of services with services of which no two have one name, and about
\* which the order does not decide: those whose names are in X left aside.
ApartFrom(r, X) == Distinct(r["service"]) /\ \A svc \in r["service"] : Apart(svc, r["pod"], X)

\* Records that fit the plan may be listed.
LEMMA FitIsListed ==
  /\ Fit \subseteq Usable /\ Usable \subseteq Record
  /\ ResultOf(Fit) \subseteq ResultOf(Listed) /\ ResultOf(Usable) \subseteq ResultOf(Listed)
  /\ ResultOf(Fit \cup {Nil}) \subseteq ResultOf(Listed)
<1>1. Fit \subseteq Usable /\ Usable \subseteq Record
  BY FitIsUsable
<1>2. Fit \subseteq Listed /\ Usable \subseteq Listed /\ (Fit \cup {Nil}) \subseteq Listed
  BY <1>1 DEF Listed
<1>3. \A S : S \subseteq Listed => ResultOf(S) \subseteq ResultOf(Listed)
  BY DEF ResultOf
<1>4. QED
  BY <1>1, <1>2, <1>3

\* The resources of one kind, in the order of a lister.
LEMMA ListOfKind ==
  ASSUME NEW s, NEW r, Holds(r, s), NEW k \in Reads(s) \cap Kinds
  PROVE  /\ r[k] \subseteq Resource(k) /\ r[k] \subseteq Stock(k) /\ IsFiniteSet(r[k])
         /\ \A l \in Walks(r[k]) : l \in Seq(Resource(k)) /\ ToSet(l) = r[k]
<1>1. r[k] \subseteq Resource(k) /\ r[k] \subseteq Stock(k) /\ IsFiniteSet(r[k])
  BY StockType DEF Holds
<1>2. \A l \in Walks(r[k]) : l \in Seq(r[k]) /\ ToSet(l) = r[k]
  BY <1>1, WalksType
<1>3. \A S, T : S \subseteq T => Seq(S) \subseteq Seq(T)
  OBVIOUS
<1>4. QED
  BY <1>1, <1>2, <1>3

\* The answer of the source of services, whatever its listers return.
LEMMA MeshAnswer ==
  ASSUME NEW r, Holds(r, "mesh-service"), NEW q \in Endpoints("mesh-service", r)
  PROVE  /\ q \in ResultOf(Fit) /\ q.state = "ok"
         /\ Distinct(r["service"]) => OnePerName(ToSet(q.eps))
         /\ \A X : ApartFrom(r, X) =>
              Unless(ContentOf(q.eps), X) = Unless(SourceContent("mesh-service", r), X)
<1>1. \A k \in MeshKinds : IsFiniteSet(r[k]) /\ r[k] \subseteq Stock(k)
  BY DEF Holds, Reads, Informed, Live, MeshKinds
<1>2. PICK l \in Walks(r["service"]) : \E m \in Walks(r["pod"]), n \in Walks(r["node"]) :
        q \in MeshServiceSource([service |-> l, endpoints |-> SetToSeq(r["endpoints"]),
                                 pod |-> m, node |-> n])
  BY SMTT(40) DEF Endpoints
<1>3. PICK m \in Walks(r["pod"]), n \in Walks(r["node"]) :
        q \in MeshServiceSource([service |-> l, endpoints |-> SetToSeq(r["endpoints"]),
                                 pod |-> m, node |-> n])
  BY <1>2
<1> DEFINE v == [service |-> l, endpoints |-> SetToSeq(r["endpoints"]), pod |-> m, node |-> n]
<1>4. v = [service |-> l, endpoints |-> SetToSeq(r["endpoints"]), pod |-> m, node |-> n]
      /\ q \in MeshServiceSource(v)
  BY <1>3
<1> HIDE DEF v
<1>5. /\ Typed(v) /\ ToSet(v.service) = r["service"] /\ ToSet(v.pod) = r["pod"]
      /\ ToSet(v.node) = r["node"] /\ v.endpoints = SetToSeq(r["endpoints"])
  BY <1>1, <1>4, ViewType
<1>6. /\ q \in ResultOf(Fit) /\ q.state = "ok"
      /\ Distinct(ToSet(v.service)) => OnePerName(ToSet(q.eps))
      /\ \A X : Distinct(ToSet(v.service)) /\ AllApart(v, X) =>
           Unless(ContentOf(q.eps), X)
             = Unless(Unite(UNION {MeshContent(svc, v) : svc \in ToSet(v.service)}), X)
  <2>1. Typed(v)
    BY <1>5
  <2>2. q \in MeshServiceSource(v)
    BY <1>4
  <2>3. QED
    BY <2>1, <2>2, MeshSourceType
<1>7. ASSUME NEW X, ApartFrom(r, X)
      PROVE  Unless(ContentOf(q.eps), X) = Unless(SourceContent("mesh-service", r), X)
  <2> DEFINE u == ViewOf(r)
  <2>1. u = [service |-> SetToSeq(r["service"]), endpoints |-> SetToSeq(r["endpoints"]),
             pod |-> SetToSeq(r["pod"]), node |-> SetToSeq(r["node"])]
    BY DEF ViewOf
  <2>2. /\ SetToSeq(r["service"]) \in Walks(r["service"])
        /\ SetToSeq(r["pod"]) \in Walks(r["pod"]) /\ SetToSeq(r["node"]) \in Walks(r["node"])
    BY <1>1, SomeWalk DEF MeshKinds
  <2> HIDE DEF u
  <2>3. /\ Typed(u) /\ ToSet(u.pod) = r["pod"] /\ ToSet(u.node) = r["node"]
        /\ u.endpoints = SetToSeq(r["endpoints"])
    BY <1>1, <2>1, <2>2, ViewType
  <2>4. SameView(v, u)
    BY <1>5, <2>3 DEF SameView
  <2>5. \A svc : MeshContent(svc, v) = MeshContent(svc, u)
    BY <1>5, <2>3, <2>4, SameContent
  <2>6. Unless(ContentOf(q.eps), X) = Unless(Unite(UNION {MeshContent(svc, v) : svc \in r["service"]}), X)
    <3>1. Distinct(ToSet(v.service)) /\ AllApart(v, X)
      BY <1>5, <1>7 DEF ApartFrom, AllApart
    <3>2. ToSet(v.service) = r["service"]
      BY <1>5
    <3>3. QED
      BY <1>6, <3>1, <3>2
  <2>7. {MeshContent(svc, v) : svc \in r["service"]} = {MeshContent(svc, u) : svc \in r["service"]}
    BY <2>5
  <2>8. SourceContent("mesh-service", r) = Unite(UNION {MeshContent(svc, u) : svc \in r["service"]})
    BY DEF SourceContent, u
  <2>9. QED
    BY <2>6, <2>7, <2>8
<1>8. QED
  BY <1>5, <1>6, <1>7

\* The answers of a source are records or an error, and say the same in any order
\* its resources are listed in.
LEMMA SourceAnswers ==
  ASSUME NEW s \in SourceNames, NEW r, Holds(r, s), NEW q \in Endpoints(s, r)
  PROVE  /\ q \in ResultOf(Listed)
         /\ s # "mesh-service" => Outcome(q, SourceWell(s, r), SourceWrong(s), SourceContent(s, r))
<1>1. CASE s = "ingress"
  <2>1. "ingress" \in Reads(s) \cap Kinds /\ Resource("ingress") = IngressResource
    BY <1>1 DEF Reads, Informed, Live, Kinds, Resource
  <2>2. PICK l \in Walks(r["ingress"]) : q = IngressSource(l)
    BY <1>1 DEF Endpoints
  <2>3. l \in Seq(IngressResource) /\ ToSet(l) = r["ingress"]
    BY <2>1, ListOfKind
  <2>4. /\ q \in ResultOf(Fit)
        /\ Outcome(q, \A ing \in TakenIngresses(ToSet(l)) : IngressEndpoints(ing).state = "ok", Failed,
                    UNION {ContentOf(IngressEndpoints(ing).eps) : ing \in TakenIngresses(ToSet(l))})
    BY <2>2, <2>3, IngressSourceType
  <2>5. QED
    BY <1>1, <2>3, <2>4, FitIsListed DEF SourceWell, SourceWrong, SourceContent
<1>2. CASE s = "gateway"
  <2>1. "gateway" \in Reads(s) \cap Kinds /\ Resource("gateway") = GatewayResource
    BY <1>2 DEF Reads, Informed, Live, Kinds, Resource
  <2>2. PICK l \in Walks(r["gateway"]) : q \in GatewaySource(l)
    BY <1>2 DEF Endpoints
  <2>3. l \in Seq(GatewayResource) /\ ToSet(l) = r["gateway"]
    BY <2>1, ListOfKind
  <2>4. /\ q \in ResultOf(Fit)
        /\ Outcome(q, TRUE, Failed, UNION {GatewayContent(gw) : gw \in ToSet(l)})
    BY <2>2, <2>3, GatewaySourceType
  <2>5. QED
    BY <1>2, <2>3, <2>4, FitIsListed DEF SourceWell, SourceWrong, SourceContent
<1>3. CASE s = "istio-gateway"
  <2>1. /\ {"istiogateway", "service", "ingress"} \subseteq Reads(s) \cap Kinds
        /\ Resource("istiogateway") = IstioGatewayResource
        /\ Resource("service") = ServiceResource /\ Resource("ingress") = IngressResource
    BY <1>3 DEF Reads, Informed, Live, Kinds, Resource
  <2>2. PICK l \in Walks(r["istiogateway"]), m \in Walks(r["service"]) :
          q = IstioGatewaySource(l, m, r["ingress"])
    BY <1>3 DEF Endpoints
  <2>3. /\ l \in Seq(IstioGatewayResource) /\ ToSet(l) = r["istiogateway"]
        /\ m \in Seq(ServiceResource) /\ ToSet(m) = r["service"]
        /\ r["ingress"] \in SUBSET IngressResource
    BY <2>1, ListOfKind
  <2>4. /\ q \in ResultOf(Fit)
        /\ Outcome(q, \A gw \in {g \in ToSet(l) : Responsible(g.ann)} : IstioWell(gw, r["ingress"]), Failed,
                   UNION {IstioContent(gw, ToSet(m), r["ingress"]) :
                             gw \in {g \in ToSet(l) : Responsible(g.ann)}})
    BY <2>2, <2>3, IstioSourceType
  <2>5. QED
    BY <1>3, <2>3, <2>4, FitIsListed DEF SourceWell, SourceWrong, SourceContent
<1>4. CASE s = "istio-se"
  <2>1. "serviceentry" \in Reads(s) \cap Kinds /\ Resource("serviceentry") = ServiceEntryResource
    BY <1>4 DEF Reads, Informed, Live, Kinds, Resource
  <2>2. PICK l \in Walks(r["serviceentry"]), m \in Walks(r["serviceentry"]) :
          q = ServiceEntrySource(l, m)
    BY <1>4 DEF Endpoints
  <2>3. /\ l \in Seq(ServiceEntryResource) /\ ToSet(l) = r["serviceentry"]
        /\ m \in Seq(ServiceEntryResource) /\ ToSet(m) = r["serviceentry"]
    BY <2>1, ListOfKind
  <2>4. /\ q \in ResultOf(Fit)
        /\ Outcome(q, TRUE, Failed,
                   UNION {ServiceEntryContent(se) :
                             se \in LocatedIn(ToSet(l), "MESH_EXTERNAL")
                                    \cup LocatedIn(ToSet(m), "MESH_INTERNAL")})
    BY <2>2, <2>3, ServiceEntrySourceType
  <2>5. QED
    BY <1>4, <2>3, <2>4, FitIsListed DEF SourceWell, SourceWrong, SourceContent
<1>5. CASE s = "mesh-service"
  <2>1. q \in ResultOf(Fit)
    BY <1>5, MeshAnswer
  <2>2. QED
    BY <1>5, <2>1, FitIsListed
<1>6. CASE s = "node"
  <2>1. "node" \in Reads(s) \cap Kinds /\ Resource("node") = NodeResource
    BY <1>6 DEF Reads, Informed, Live, Kinds, Resource
  <2>2. PICK l \in Walks(r["node"]) : q \in NodeSource(l)
    BY <1>6 DEF Endpoints
  <2>3. l \in Seq(NodeResource) /\ ToSet(l) = r["node"] /\ r["node"] \subseteq Stock("node")
    BY <2>1, ListOfKind
  <2>4. /\ q \in ResultOf(Usable)
        /\ Outcome(q, \A n \in ToSet(l) : NodeAddresses(n) # <<>>, Failed,
                   GatheredContent(UNION {NodePairs(n) : n \in ToSet(l)}))
    BY <2>2, <2>3, NodeSourceType
  <2>5. QED
    BY <1>6, <2>3, <2>4, FitIsListed DEF SourceWell, SourceWrong, SourceContent
<1>7. CASE s = "pod"
  <2>1. /\ {"pod", "node"} \subseteq Reads(s) \cap Kinds
        /\ Resource("pod") = PodResource /\ Resource("node") = NodeResource
    BY <1>7 DEF Reads, Informed, Live, Kinds, Resource
  <2>2. PICK l \in Walks(r["pod"]) : q \in PodSource(l, r["node"])
    BY <1>7 DEF Endpoints
  <2>3. l \in Seq(PodResource) /\ ToSet(l) = r["pod"] /\ r["node"] \in SUBSET NodeResource
    BY <2>1, ListOfKind
  <2>4. /\ q \in ResultOf(Fit \cup {Nil})
        /\ Outcome(q, \A p \in HostPods(ToSet(l)) : ~NodeMissing(p, r["node"]), Panics,
                   NewContent(GatheredContent(
                     UNION {ToSet(PodPairs(p, r["node"])) : p \in HostPods(ToSet(l))})))
    BY <2>2, <2>3, PodSourceType
  <2>5. QED
    BY <1>7, <2>3, <2>4, FitIsListed DEF SourceWell, SourceWrong, SourceContent
<1>8. CASE s = "k8s"
  <2>1. "pod" \in Reads(s) \cap Kinds /\ Resource("pod") = PodResource
    BY <1>8 DEF Reads, Informed, Live, Kinds, Resource
  <2>2. PICK l \in Walks(r["pod"]) : q \in K8SSource(l)
    BY <1>8 DEF Endpoints
  <2>3. l \in Seq(PodResource) /\ ToSet(l) = r["pod"] /\ r["pod"] \subseteq Stock("pod")
    BY <2>1, ListOfKind
  <2>4. /\ q \in ResultOf(Listed)
        /\ Outcome(q, TRUE, Failed,
                   NewContent(GatheredContent({K8SPair(p) : p \in AddressedPods(ToSet(l))})))
    BY <2>2, <2>3, K8SSourceType
  <2>5. QED
    BY <1>8, <2>3, <2>4, FitIsListed DEF SourceWell, SourceWrong, SourceContent
<1>9. QED
  BY <1>1, <1>2, <1>3, <1>4, <1>5, <1>6, <1>7, <1>8 DEF SourceNames

\* Two answers to the same resources say the same, or for some services the same
\* about all other names.
LEMMA SameAnswers ==
  ASSUME NEW s \in SourceNames, NEW r, Holds(r, s), s = "mesh-service" => Distinct(r["service"]),
         NEW p \in Endpoints(s, r), NEW q \in Endpoints(s, r),
         NEW names, names = {Hostname(svc) : svc \in Undecided(s, r)}
  PROVE  p.state = q.state /\ Unless(Content(p), names) = Unless(Content(q), names)
<1>1. CASE s # "mesh-service"
  <2>1. /\ Outcome(p, SourceWell(s, r), SourceWrong(s), SourceContent(s, r))
        /\ Outcome(q, SourceWell(s, r), SourceWrong(s), SourceContent(s, r))
    BY <1>1, SourceAnswers
  <2>2. p.state = q.state /\ ContentOf(p.eps) = ContentOf(q.eps)
    BY <2>1 DEF Outcome
  <2>3. QED
    BY <2>2, ContentIsOf
<1>2. CASE s = "mesh-service"
  <2>1. \A svc \in r["service"] : OrderDecides(svc, r["pod"]) => Hostname(svc) \in names
    BY <1>2 DEF Undecided
  <2>2. ApartFrom(r, names)
    BY <1>2, <2>1 DEF ApartFrom, Apart
  <2>3. Holds(r, "mesh-service") /\ p \in Endpoints("mesh-service", r) /\ q \in Endpoints("mesh-service", r)
    BY <1>2
  <2>4. p.state = "ok" /\ Unless(ContentOf(p.eps), names) = Unless(SourceContent("mesh-service", r), names)
    BY <2>2, <2>3, MeshAnswer
  <2>5. q.state = "ok" /\ Unless(ContentOf(q.eps), names) = Unless(SourceContent("mesh-service", r), names)
    BY <2>2, <2>3, MeshAnswer
  <2>6. QED
    BY <2>4, <2>5, ContentIsOf
<1>3. QED
  BY <1>1, <1>2

-------------------------------------------------------------------------------
(***************************************************************************)
(* The chain.                                                              *)
(***************************************************************************)
\* A record with other labels.
Relabelled(f, e, labels) == f = [e EXCEPT !.labels = labels]

\* A record with other labels fits as well.
LEMMA RelabelledType ==
  ASSUME NEW e \in Fit, NEW d \in Record, NEW f, Relabelled(f, e, d.labels)
  PROVE  f \in Fit /\ Says(f) = Says(e) /\ f.recordType = e.recordType
<1>1. e \in Record /\ d.labels \in [resource : Nat, mesh : BOOLEAN, dualstack : BOOLEAN]
  BY DEF Fit, Record
<1>2. /\ f.dnsName = e.dnsName /\ f.recordType = e.recordType /\ f.setIdentifier = e.setIdentifier
      /\ f.targets = e.targets /\ f.ttl = e.ttl /\ f.providerSpecific = e.providerSpecific
      /\ f \in Record
  BY <1>1 DEF Relabelled, Record
<1>3. Suited(e)
  BY DEF Fit
<1>4. Suited(f)
  BY <1>2, <1>3 DEF Suited
<1>5. QED
  BY <1>2, <1>4 DEF Fit, Says, Cell

\* The records with the default targets.
LEMMA DefaultType ==
  ASSUME NEW e \in Record, NEW D \in Seq(Target)
  PROVE  /\ WithDefaultTargets(e, D) \in Seq(Fit)
         /\ ContentOf(WithDefaultTargets(e, D)) = HostContent(e.dnsName, ToSet(D), e.setIdentifier)
         /\ \A f \in ToSet(WithDefaultTargets(e, D)) : f.recordType \in {"A", "AAAA", "CNAME"}
<1> DEFINE eps == EndpointsForHostname(e.dnsName, D, e.ttl, e.providerSpecific, e.setIdentifier, 0)
           f == WithDefaultTargets(e, D)
<1>1. /\ e.dnsName \in Name /\ e.ttl \in Nat /\ e.providerSpecific \in Nat
      /\ e.setIdentifier \in STRING
  BY DEF Record
<1>2. /\ eps \in Seq(Fit)
      /\ ToSet(eps) = RecordsFor(e.dnsName, D, e.ttl, e.providerSpecific, e.setIdentifier, 0)
      /\ ContentOf(eps) = HostContent(e.dnsName, ToSet(D), e.setIdentifier)
  <2> DEFINE n == e.dnsName  t == e.ttl  p == e.providerSpecific  id == e.setIdentifier
  <2>1. n \in Name /\ t \in Nat /\ p \in Nat /\ id \in STRING /\ 0 \in Nat
    BY <1>1
  <2>2. eps = EndpointsForHostname(n, D, t, p, id, 0)
    OBVIOUS
  <2> HIDE DEF n, t, p, id, eps
  <2>3. /\ eps \in Seq(Fit) /\ ToSet(eps) = RecordsFor(n, D, t, p, id, 0)
        /\ ContentOf(eps) = HostContent(n, ToSet(D), id)
    <3>1. /\ EndpointsForHostname(n, D, t, p, id, 0) \in Seq(Fit)
          /\ ToSet(EndpointsForHostname(n, D, t, p, id, 0)) = RecordsFor(n, D, t, p, id, 0)
      BY ZenonT(60), <2>1, HostnameRecords
    <3>2. ContentOf(EndpointsForHostname(n, D, t, p, id, 0)) = HostContent(n, ToSet(D), id)
      BY ZenonT(60), <2>1, HostContentType
    <3>3. QED
      BY <2>2, <3>1, <3>2
  <2>4. QED
    BY <2>3 DEF n, t, p, id
<1>3. \A x \in ToSet(eps) : x.recordType \in {"A", "AAAA", "CNAME"}
  BY <1>2 DEF RecordsFor, TypedRecord
<1>4. IsFunction(f, DOMAIN eps) /\ \A i \in DOMAIN eps : Relabelled(f[i], eps[i], e.labels)
  BY DEF WithDefaultTargets, IsFunction, Relabelled
<1> HIDE DEF eps, f
<1>5. \A i \in DOMAIN eps : eps[i] \in Fit /\ eps[i] \in ToSet(eps)
  BY <1>2 DEF ToSet
<1>6. \A i \in DOMAIN eps :
        f[i] \in Fit /\ Says(f[i]) = Says(eps[i]) /\ f[i].recordType = eps[i].recordType
  BY <1>4, <1>5, RelabelledType
<1>7. f \in Seq(Fit) /\ DOMAIN f = DOMAIN eps
  BY <1>2, <1>4, <1>6, ListOf
<1>8. ContentOf(f) = ContentOf(eps)
  <2>1. ToSet(f) = {f[i] : i \in DOMAIN eps} /\ ToSet(eps) = {eps[i] : i \in DOMAIN eps}
    BY <1>7 DEF ToSet
  <2>2. ContentOf(f) = {Says(f[i]) : i \in DOMAIN eps} /\ ContentOf(eps) = {Says(eps[i]) : i \in DOMAIN eps}
    BY <2>1 DEF ContentOf
  <2>3. {Says(f[i]) : i \in DOMAIN eps} = {Says(eps[i]) : i \in DOMAIN eps}
    BY <1>6
  <2>4. QED
    BY <2>2, <2>3
<1>9. \A x \in ToSet(f) : x.recordType \in {"A", "AAAA", "CNAME"}
  BY <1>3, <1>5, <1>6, <1>7 DEF ToSet
<1>10. QED
  BY <1>2, <1>7, <1>8, <1>9 DEF f

\* What all sources together list.
AllOf(rs) == UNION {ToSet(rs[i].eps) : i \in DOMAIN rs}
AllWell(rs) == \A i \in DOMAIN rs : rs[i].state = "ok"

\* The records of the sources, or what becomes of them with default targets.
Defaulted(S, D) == IF D = <<>> THEN S ELSE UNION {ToSet(WithDefaultTargets(e, D)) : e \in S}

\* A list contains its elements.
LEMMA ContainsIs ==
  ASSUME NEW S, NEW s \in Seq(S), NEW x
  PROVE  Contains(s, x) <=> x \in ToSet(s)
BY DEF Contains, ToSet

\* multiSource.Endpoints: all records, with default targets where they are set.
LEMMA MultiType ==
  ASSUME NEW rs \in Seq(ResultOf(Listed)), NEW D \in Seq(Target),
         NEW m, m = MultiSource(rs, D)
  PROVE  /\ m \in ResultOf(Listed)
         /\ m.state = "ok" => /\ AllWell(rs)
                              /\ ToSet(m.eps) = Defaulted(AllOf(rs), D)
                              /\ D # <<>> => Nil \notin AllOf(rs)
         /\ AllWell(rs) /\ Nil \notin AllOf(rs) => m.state = "ok"
         /\ m.state # "ok" /\ (\A i \in DOMAIN rs : rs[i].state # "ok" => rs[i].eps = <<>>) => m.eps = <<>>
<1> DEFINE all == Joined(rs)
<1>1. /\ all \in ResultOf(Listed)
      /\ IF AllWell(rs)
         THEN all.state = "ok" /\ ToSet(all.eps) = AllOf(rs)
         ELSE \E i \in DOMAIN rs : rs[i].state # "ok" /\ all = rs[i]
  BY JoinedType DEF AllWell, AllOf
<1>2. m = IF all.state # "ok" \/ D = <<>> THEN all
          ELSE IF Contains(all.eps, Nil) THEN Panics
          ELSE Ok(FlattenSeq([i \in DOMAIN all.eps |-> WithDefaultTargets(all.eps[i], D)]))
  BY DEF MultiSource
<1> HIDE DEF all
<1>3. all.eps \in Seq(Listed)
  BY <1>1 DEF ResultOf
<1>4. Contains(all.eps, Nil) <=> Nil \in ToSet(all.eps)
  BY <1>3, ContainsIs
<1>5. CASE all.state # "ok"
  BY <1>1, <1>2, <1>5
<1>6. CASE all.state = "ok" /\ D = <<>>
  BY <1>1, <1>2, <1>6 DEF Defaulted
<1>7. CASE all.state = "ok" /\ D # <<>> /\ Nil \in ToSet(all.eps)
  BY <1>1, <1>2, <1>4, <1>7, Results
<1>8. CASE all.state = "ok" /\ D # <<>> /\ Nil \notin ToSet(all.eps)
  <2> DEFINE f == [i \in DOMAIN all.eps |-> WithDefaultTargets(all.eps[i], D)]
  <2>1. IsFunction(f, DOMAIN all.eps) /\ \A i \in DOMAIN all.eps : f[i] = WithDefaultTargets(all.eps[i], D)
    BY DEF IsFunction
  <2>2. m = Ok(FlattenSeq(f))
    BY <1>2, <1>4, <1>8
  <2> HIDE DEF f
  <2>3. \A i \in DOMAIN all.eps : all.eps[i] \in Listed /\ all.eps[i] \in ToSet(all.eps)
    BY <1>3 DEF ToSet
  <2>4. \A i \in DOMAIN all.eps : all.eps[i] \in Record
    BY <1>8, <2>3 DEF Listed, Usable
  <2>5. \A i \in DOMAIN all.eps : f[i] \in Seq(Fit)
    BY <2>1, <2>4, DefaultType
  <2>6. /\ FlattenSeq(f) \in Seq(Fit)
        /\ ToSet(FlattenSeq(f)) = UNION {ToSet(f[i]) : i \in DOMAIN all.eps}
    BY <1>3, <2>1, <2>5, FlatMap
  <2>7. ToSet(FlattenSeq(f)) = Defaulted(AllOf(rs), D)
    <3>1. {ToSet(f[i]) : i \in DOMAIN all.eps} = {ToSet(WithDefaultTargets(e, D)) : e \in ToSet(all.eps)}
      BY <2>1 DEF ToSet
    <3>2. ToSet(all.eps) = AllOf(rs)
      BY <1>1, <1>8
    <3>3. QED
      BY <1>8, <2>6, <3>1, <3>2 DEF Defaulted
  <2>8. m \in ResultOf(Fit) /\ m.state = "ok" /\ m.eps = FlattenSeq(f)
    BY <2>2, <2>6, Results
  <2>9. QED
    BY <1>1, <1>8, <2>7, <2>8, FitIsListed
<1>9. QED
  BY <1>5, <1>6, <1>7, <1>8

-------------------------------------------------------------------------------
\* Of records with one identifier one stays.
LEMMA DedupType ==
  ASSUME NEW r \in ResultOf(Listed), NEW d, d = DedupSource(r)
  PROVE  /\ d \in ResultOf(Listed)
         /\ d.state = "ok" => /\ r.state = "ok" /\ Nil \notin ToSet(r.eps) /\ d.eps \in Seq(Usable)
                              /\ ToSet(d.eps) \subseteq ToSet(r.eps)
                              /\ \A e \in ToSet(r.eps) :
                                   \E f \in ToSet(d.eps) : Identifier(f) = Identifier(e)
         /\ d.state # "ok" /\ (r.state # "ok" => r.eps = <<>>) => d.eps = <<>>
<1>1. r.eps \in Seq(Listed)
  BY DEF ResultOf
<1>2. Contains(r.eps, Nil) <=> Nil \in ToSet(r.eps)
  BY <1>1, ContainsIs
<1> DEFINE ids == [i \in DOMAIN r.eps |-> Identifier(r.eps[i])]
<1>3. d = IF r.state # "ok" THEN r
          ELSE IF Contains(r.eps, Nil) THEN Panics
          ELSE Ok(Picked(r.eps, Firsts(ids)))
  BY DEF DedupSource
<1>4. IsFunction(ids, DOMAIN r.eps) /\ \A i \in DOMAIN r.eps : ids[i] = Identifier(r.eps[i])
  BY DEF IsFunction
<1> HIDE DEF ids
<1>5. CASE r.state # "ok"
  BY <1>3, <1>5
<1>6. CASE r.state = "ok" /\ Nil \in ToSet(r.eps)
  BY <1>2, <1>3, <1>6, Results
<1>7. CASE r.state = "ok" /\ Nil \notin ToSet(r.eps)
  <2>1. d = Ok(Picked(r.eps, Firsts(ids)))
    BY <1>2, <1>3, <1>7
  <2>2. \A i \in DOMAIN r.eps : r.eps[i] \in Listed /\ r.eps[i] \in ToSet(r.eps)
    BY <1>1 DEF ToSet
  <2>3. \A i \in DOMAIN r.eps : r.eps[i] \in Usable
    BY <1>7, <2>2 DEF Listed
  <2>4. r.eps \in Seq(Usable)
    BY <1>1, <2>3, ListOf DEF IsFunction
  <2> DEFINE I == {ids[i] : i \in DOMAIN r.eps}
  <2>5. \A i \in DOMAIN r.eps : ids[i] \in I
    OBVIOUS
  <2> HIDE DEF I
  <2>6. ids \in Seq(I) /\ DOMAIN ids = DOMAIN r.eps
    BY <1>1, <1>4, <2>5, ListOf
  <2>7. Firsts(ids) \subseteq DOMAIN r.eps
    BY <2>6 DEF Firsts
  <2> DEFINE J == Firsts(ids)
  <2>8. J \subseteq DOMAIN r.eps /\ \A i \in DOMAIN ids : \E j \in J : ids[j] = ids[i]
    BY <2>6, <2>7, FirstOf
  <2> HIDE DEF J
  <2>9. Picked(r.eps, J) \in Seq(Usable) /\ ToSet(Picked(r.eps, J)) = {r.eps[i] : i \in J}
    BY <2>4, <2>8, PickedSet
  <2>10. ToSet(Picked(r.eps, J)) \subseteq ToSet(r.eps)
    BY <2>2, <2>8, <2>9
  <2>11. ASSUME NEW e \in ToSet(r.eps)
         PROVE  \E f \in ToSet(Picked(r.eps, J)) : Identifier(f) = Identifier(e)
    <3>1. PICK i \in DOMAIN r.eps : e = r.eps[i]
      BY DEF ToSet
    <3>2. PICK j \in J : ids[j] = ids[i]
      BY <2>6, <2>8
    <3>3. Identifier(r.eps[j]) = Identifier(e) /\ r.eps[j] \in ToSet(Picked(r.eps, J))
      BY <1>4, <2>8, <2>9, <3>1, <3>2
    <3>4. QED
      BY <3>3
  <2>12. d \in ResultOf(Usable) /\ d.state = "ok" /\ d.eps = Picked(r.eps, J)
    BY <2>1, <2>9, Results DEF J
  <2>13. QED
    BY <1>7, <2>9, <2>10, <2>11, <2>12, FitIsListed
<1>8. QED
  BY <1>5, <1>6, <1>7

\* What the target filter leaves of a record.
Kept(filter, type, t) == type \notin {"A", "AAAA"} \/ Match(filter, t)
Retargeted(f, e, targets) == f = [e EXCEPT !.targets = targets]

\* A record with some of its targets left.
LEMMA RetargetedType ==
  ASSUME NEW e \in Usable, NEW targets \in Seq(ToSet(e.targets)), targets # <<>>,
         NEW f, Retargeted(f, e, targets)
  PROVE  f \in Usable /\ Cell(f) = Cell(e) /\ f.targets = targets
<1>1. e \in Record /\ Sound(e)
  BY DEF Usable
<1>2. e.targets \in Seq(Target \cup Port)
  BY <1>1 DEF Record
<1>3. \A t \in ToSet(e.targets) : t \in Target \cup Port /\ \E j \in DOMAIN e.targets : t = e.targets[j]
  BY <1>2 DEF ToSet
<1>4. targets \in Seq(Target \cup Port)
  BY <1>3
<1>5. /\ f.dnsName = e.dnsName /\ f.recordType = e.recordType /\ f.setIdentifier = e.setIdentifier
      /\ f.targets = targets /\ f \in Record
  BY <1>1, <1>4 DEF Retargeted, Record
<1>6. \A j \in DOMAIN targets : targets[j] \in ToSet(e.targets)
  OBVIOUS
<1>7. Sound(f)
  BY <1>1, <1>3, <1>5, <1>6 DEF Sound
<1>8. QED
  BY <1>5, <1>7 DEF Usable, Cell

\* The target filter of one record: what is left, or nothing if that is no target.
LEMMA FilterRecordType ==
  ASSUME NEW filter, NEW e \in Usable
  PROVE  /\ FilterRecord(filter, e) \in Seq(Usable)
         /\ e.recordType \notin {"A", "AAAA"} => ToSet(FilterRecord(filter, e)) = {e}
         /\ \A f \in ToSet(FilterRecord(filter, e)) :
              /\ Cell(f) = Cell(e)
              /\ ToSet(f.targets) = {t \in ToSet(e.targets) : Kept(filter, e.recordType, t)}
         /\ \A t \in ToSet(e.targets) : Kept(filter, e.recordType, t) =>
              \E f \in ToSet(FilterRecord(filter, e)) : TRUE
<1> DEFINE S == {t \in ToSet(e.targets) : Match(filter, t)}
           left == Matching(filter, e.targets)
           f == [e EXCEPT !.targets = left]
<1>1. e.targets \in Seq(Target \cup Port)
  BY DEF Usable, Record
<1>2. S \subseteq ToSet(e.targets) /\ left = Only(e.targets, S)
  BY DEF Matching
<1>3. FilterRecord(filter, e) = IF e.recordType \notin {"A", "AAAA"} THEN <<e>>
                                ELSE IF left = <<>> THEN <<>> ELSE <<f>>
  BY DEF FilterRecord
<1>4. Retargeted(f, e, left)
  BY DEF Retargeted
<1>5. \A t : t \in S <=> t \in ToSet(e.targets) /\ Match(filter, t)
  OBVIOUS
<1> HIDE DEF S, left, f
<1>6. left \in Seq(Target \cup Port) /\ ToSet(left) = S
  BY <1>1, <1>2, OnlyThose
<1>7. left \in Seq(ToSet(e.targets))
  <2>1. \A i \in DOMAIN left : left[i] \in ToSet(left)
    BY <1>6 DEF ToSet
  <2>2. \A i \in DOMAIN left : left[i] \in ToSet(e.targets)
    BY <1>2, <1>6, <2>1
  <2>3. QED
    BY <1>6, <2>2, ListOf DEF IsFunction
<1>8. \A x \in Usable : <<x>> \in Seq(Usable) /\ ToSet(<<x>>) = {x}
  BY DEF ToSet
<1>9. <<>> \in Seq(Usable) /\ ToSet(<<>>) = {}
  BY DEF ToSet
<1>10. CASE e.recordType \notin {"A", "AAAA"}
  <2>1. FilterRecord(filter, e) = <<e>>
    BY <1>3, <1>10
  <2>2. \A t : Kept(filter, e.recordType, t)
    BY <1>10 DEF Kept
  <2>3. QED
    BY <1>8, <2>1, <2>2
<1>11. CASE e.recordType \in {"A", "AAAA"} /\ left = <<>>
  <2>1. FilterRecord(filter, e) = <<>> /\ S = {}
    BY <1>3, <1>6, <1>9, <1>11
  <2>2. \A t \in ToSet(e.targets) : ~Kept(filter, e.recordType, t)
    BY <1>5, <1>11, <2>1 DEF Kept
  <2>3. QED
    BY <1>9, <1>11, <2>1, <2>2
<1>12. CASE e.recordType \in {"A", "AAAA"} /\ left # <<>>
  <2>1. FilterRecord(filter, e) = <<f>>
    BY <1>3, <1>12
  <2>2. f \in Usable /\ Cell(f) = Cell(e) /\ f.targets = left
    BY <1>4, <1>7, <1>12, RetargetedType
  <2>3. ToSet(f.targets) = {t \in ToSet(e.targets) : Kept(filter, e.recordType, t)}
    BY <1>5, <1>6, <1>12, <2>2 DEF Kept
  <2>4. QED
    BY <1>8, <1>12, <2>1, <2>2, <2>3
<1>13. QED
  BY <1>10, <1>11, <1>12

-------------------------------------------------------------------------------
\* The records that the target filter leaves of others.
FilteredRecords(filter, S) == UNION {ToSet(FilterRecord(filter, e)) : e \in S}

\* targetFilterSource.Endpoints: what the filter leaves of each record.
LEMMA FilterType ==
  ASSUME NEW r, r.state = "ok" => r.eps \in Seq(Usable), NEW filter,
         NEW c, c = TargetFilterSource(r, filter)
  PROVE  IF r.state = "ok"
         THEN c \in ResultOf(Usable) /\ c.state = "ok" /\ ToSet(c.eps) = FilteredRecords(filter, ToSet(r.eps))
         ELSE c = r
<1> DEFINE f == [i \in DOMAIN r.eps |-> FilterRecord(filter, r.eps[i])]
<1>1. c = IF r.state # "ok" THEN r ELSE Ok(FlattenSeq(f))
  BY DEF TargetFilterSource
<1>2. IsFunction(f, DOMAIN r.eps) /\ \A i \in DOMAIN r.eps : f[i] = FilterRecord(filter, r.eps[i])
  BY DEF IsFunction
<1> HIDE DEF f
<1>3. CASE r.state = "ok"
  <2>1. \A i \in DOMAIN r.eps : f[i] \in Seq(Usable)
    BY <1>2, <1>3, FilterRecordType
  <2>2. FlattenSeq(f) \in Seq(Usable) /\ ToSet(FlattenSeq(f)) = UNION {ToSet(f[i]) : i \in DOMAIN r.eps}
    BY <1>2, <1>3, <2>1, FlatMap
  <2>3. {ToSet(f[i]) : i \in DOMAIN r.eps} = {ToSet(FilterRecord(filter, e)) : e \in ToSet(r.eps)}
    BY <1>2 DEF ToSet
  <2>4. c \in ResultOf(Usable) /\ c.state = "ok" /\ c.eps = FlattenSeq(f)
    BY <1>1, <1>3, <2>2, Results
  <2>5. QED
    BY <1>3, <2>2, <2>3, <2>4 DEF FilteredRecords
<1>4. CASE r.state # "ok"
  BY <1>1, <1>4
<1>5. QED
  BY <1>3, <1>4

\* The results of all sources of a run.
Empty(rs) == \A i \in DOMAIN rs : rs[i].state # "ok" => rs[i].eps = <<>>

\* The chain: the filtered records of the sources, less some with an equal identifier.
LEMMA ChainType ==
  ASSUME NEW rs \in Seq(ResultOf(Listed)), NEW D \in Seq(Target), NEW filter,
         NEW c, c = Chain(rs, D, filter)
  PROVE  /\ c.state = "ok" => /\ c.eps \in Seq(Usable) /\ AllWell(rs)
                              /\ Nil \notin Defaulted(AllOf(rs), D)
                              /\ D # <<>> => Nil \notin AllOf(rs)
                              /\ \E S \in SUBSET Defaulted(AllOf(rs), D) :
                                   /\ S \subseteq Usable /\ ToSet(c.eps) = FilteredRecords(filter, S)
                                   /\ \A e \in Defaulted(AllOf(rs), D) :
                                        \E f \in S : Identifier(f) = Identifier(e)
         /\ c.state # "ok" /\ Empty(rs) => c.eps = <<>>
<1> DEFINE m == MultiSource(rs, D)
           d == DedupSource(m)
<1>1. /\ m \in ResultOf(Listed)
      /\ m.state = "ok" => /\ AllWell(rs)
                           /\ ToSet(m.eps) = Defaulted(AllOf(rs), D)
                           /\ D # <<>> => Nil \notin AllOf(rs)
      /\ m.state # "ok" /\ Empty(rs) => m.eps = <<>>
  BY MultiType DEF Empty
<1>2. d = DedupSource(m)
  OBVIOUS
<1>3. c = TargetFilterSource(d, filter)
  BY DEF Chain
<1> HIDE DEF m, d
<1>4. /\ d \in ResultOf(Listed)
      /\ d.state = "ok" => /\ m.state = "ok" /\ Nil \notin ToSet(m.eps) /\ d.eps \in Seq(Usable)
                           /\ ToSet(d.eps) \subseteq ToSet(m.eps)
                           /\ \A e \in ToSet(m.eps) :
                                \E f \in ToSet(d.eps) : Identifier(f) = Identifier(e)
      /\ d.state # "ok" /\ (m.state # "ok" => m.eps = <<>>) => d.eps = <<>>
  BY <1>1, <1>2, DedupType
<1>5. IF d.state = "ok"
      THEN c \in ResultOf(Usable) /\ c.state = "ok" /\ ToSet(c.eps) = FilteredRecords(filter, ToSet(d.eps))
      ELSE c = d
  BY <1>3, <1>4, FilterType
<1>6. ASSUME c.state = "ok"
      PROVE  /\ c.eps \in Seq(Usable) /\ AllWell(rs)
             /\ Nil \notin Defaulted(AllOf(rs), D)
             /\ D # <<>> => Nil \notin AllOf(rs)
             /\ \E S \in SUBSET Defaulted(AllOf(rs), D) :
                  /\ S \subseteq Usable /\ ToSet(c.eps) = FilteredRecords(filter, S)
                  /\ \A e \in Defaulted(AllOf(rs), D) : \E f \in S : Identifier(f) = Identifier(e)
  <2>1. d.state = "ok" /\ m.state = "ok"
    BY <1>4, <1>5, <1>6
  <2>2. c.eps \in Seq(Usable)
    BY <1>5, <2>1 DEF ResultOf
  <2>3. ToSet(d.eps) \subseteq Usable
    BY <1>4, <2>1 DEF ToSet
  <2>4. QED
    BY <1>1, <1>4, <1>5, <2>1, <2>2, <2>3
<1>7. ASSUME c.state # "ok", Empty(rs) PROVE c.eps = <<>>
  BY <1>1, <1>4, <1>5, <1>7
<1>8. QED
  BY <1>6, <1>7

-------------------------------------------------------------------------------
(***************************************************************************)
(* What a list offers: a target for a cell, or under a name and identifier. *)
(***************************************************************************)
Offers(S, c, t) == \E e \in S : Cell(e) = c /\ t \in ToSet(e.targets)
OffersAt(S, p, t) == \E e \in S : Place(e) = p /\ t \in ToSet(e.targets)

\* The filter looks at the addresses of a record that some source may list, whether
\* the record is of the type of its targets or not.
LEMMA KeptByType ==
  ASSUME NEW e \in Usable, NEW t \in ToSet(e.targets), NEW filter
  PROVE  Kept(filter, e.recordType, t) <=> Kept(filter, SuitableType(t), t)
<1>1. PICK j \in DOMAIN e.targets : t = e.targets[j]
  BY DEF ToSet
<1>2. SuitableType(t) = e.recordType \/ (e.recordType = "A" /\ PodsOwn(e.dnsName, t))
  BY <1>1 DEF Usable, Sound
<1>3. ASSUME PodsOwn(e.dnsName, t) PROVE SuitableType(t) \in {"A", "AAAA"}
  <2>1. PICK p \in UNION Clusters("pod") : t = p.podIP /\ t # 0
    BY <1>3 DEF PodsOwn
  <2>2. p \in PodResource
    <3>1. "pod" \in Kinds /\ Resource("pod") = PodResource
      BY DEF Kinds, Resource
    <3>2. QED
      BY <2>1, <3>1, StockType DEF Stock
  <2>3. QED
    BY <2>1, <2>2 DEF PodResource, OwnAddress
<1>4. QED
  BY <1>2, <1>3 DEF Kept

\* Records that some source may list offer something under their names.
LEMMA UsableOffers ==
  ASSUME NEW S \in SUBSET Usable, NEW e \in S
  PROVE  \E t : OffersAt(S, Place(e), t)
<1>1. e.targets # <<>> /\ e.targets \in Seq(Target \cup Port)
  BY DEF Usable, Sound, Record
<1>2. e.targets[1] \in ToSet(e.targets)
  BY <1>1 DEF ToSet
<1>3. QED
  BY <1>2 DEF OffersAt

\* Default targets for more records offer more (multiSource.Endpoints).
LEMMA DefaultedOffers ==
  ASSUME NEW S \in SUBSET Usable, NEW T \in SUBSET Usable, NEW D \in Seq(Target),
         \A c, t : OffersAt(S, c, t) => OffersAt(T, c, t)
  PROVE  /\ \A c, t : OffersAt(Defaulted(S, D), c, t) => OffersAt(Defaulted(T, D), c, t)
         /\ Defaulted(T, D) \subseteq Usable
<1>1. CASE D = <<>>
  BY <1>1 DEF Defaulted
<1>2. CASE D # <<>>
  <2>1. \A e \in Record : /\ WithDefaultTargets(e, D) \in Seq(Fit)
                          /\ ContentOf(WithDefaultTargets(e, D)) = HostContent(e.dnsName, ToSet(D), e.setIdentifier)
    BY DefaultType
  <2>2. Defaulted(S, D) = UNION {ToSet(WithDefaultTargets(e, D)) : e \in S}
        /\ Defaulted(T, D) = UNION {ToSet(WithDefaultTargets(e, D)) : e \in T}
    BY <1>2 DEF Defaulted
  <2>3. ASSUME NEW c, NEW t, OffersAt(Defaulted(S, D), c, t)
        PROVE  OffersAt(Defaulted(T, D), c, t)
    <3>1. PICK f \in Defaulted(S, D) : Place(f) = c /\ t \in ToSet(f.targets)
      BY <2>3 DEF OffersAt
    <3>2. PICK e \in S : f \in ToSet(WithDefaultTargets(e, D))
      BY <2>2, <3>1
    <3>3. PICK u : OffersAt(S, Place(e), u)
      BY UsableOffers
    <3>4. PICK d \in T : Place(d) = Place(e)
      BY <3>3 DEF OffersAt
    <3>5. e \in Record /\ d \in Record
      BY <3>2, <3>4 DEF Usable
    <3>6. d.dnsName = e.dnsName /\ d.setIdentifier = e.setIdentifier
      BY <3>4 DEF Place
    <3>7. ContentOf(WithDefaultTargets(d, D)) = ContentOf(WithDefaultTargets(e, D))
      BY <2>1, <3>5, <3>6
    <3>8. Says(f) \in ContentOf(WithDefaultTargets(d, D))
      BY <3>2, <3>7 DEF ContentOf
    <3>9. PICK g \in ToSet(WithDefaultTargets(d, D)) : Says(g) = Says(f)
      BY <3>8 DEF ContentOf
    <3>10. g \in Defaulted(T, D) /\ Place(g) = c /\ t \in ToSet(g.targets)
      BY <2>2, <3>1, <3>4, <3>9 DEF Says, Cell, Place
    <3>11. QED
      BY <3>10 DEF OffersAt
  <2>4. \A f \in Defaulted(T, D) : f \in Fit
    <3>1. TAKE f \in Defaulted(T, D)
    <3>2. PICK e \in T : f \in ToSet(WithDefaultTargets(e, D))
      BY <2>2
    <3>3. e \in Record
      BY <3>2 DEF Usable
    <3>4. WithDefaultTargets(e, D) \in Seq(Fit)
      BY <2>1, <3>3
    <3>5. QED
      BY <3>2, <3>4 DEF ToSet
  <2>5. Defaulted(T, D) \subseteq Usable
    BY <2>4, FitIsUsable
  <2>6. QED
    BY <2>3, <2>5
<1>3. QED
  BY <1>1, <1>2

\* What the chain offers for what the sources offer.
LEMMA ChainOffers ==
  ASSUME NEW rs \in Seq(ResultOf(Listed)), NEW D \in Seq(Target), NEW filter,
         NEW c, c = Chain(rs, D, filter), c.state = "ok", NEW k, NEW t
  PROVE  /\ OffersAt(ToSet(c.eps), k, t) <=>
              OffersAt(Defaulted(AllOf(rs), D), k, t) /\ Kept(filter, SuitableType(t), t)
         /\ D # <<>> => AllOf(rs) \subseteq Usable
         /\ Defaulted(AllOf(rs), D) \subseteq Usable
<1> DEFINE A == Defaulted(AllOf(rs), D)
<1>1. PICK S \in SUBSET A : /\ ToSet(c.eps) = FilteredRecords(filter, S)
                            /\ \A e \in A : \E f \in S : Identifier(f) = Identifier(e)
  BY ChainType
<1>2. Nil \notin A /\ (D # <<>> => Nil \notin AllOf(rs))
  BY ChainType
<1>3. \A e \in AllOf(rs) : e \in Usable \/ e = Nil
  <2>1. TAKE e \in AllOf(rs)
  <2>2. PICK i \in DOMAIN rs : e \in ToSet(rs[i].eps)
    BY DEF AllOf
  <2>3. rs[i].eps \in Seq(Listed)
    <3>1. rs[i] \in ResultOf(Listed)
      OBVIOUS
    <3>2. QED
      BY <3>1 DEF ResultOf
  <2>4. e \in Listed
    BY <2>2, <2>3 DEF ToSet
  <2>5. QED
    BY <2>4 DEF Listed
<1>4. D # <<>> => AllOf(rs) \subseteq Usable
  BY <1>2, <1>3
<1>5. A \subseteq Usable
  <2>1. CASE D = <<>>
    <3>1. A = AllOf(rs)
      BY <2>1 DEF Defaulted
    <3>2. QED
      BY <1>2, <1>3, <3>1
  <2>2. CASE D # <<>>
    BY <1>4, <2>2, DefaultedOffers
  <2>3. QED
    BY <2>1, <2>2
<1> HIDE DEF A
<1>6. \A e \in Usable : \A f \in ToSet(FilterRecord(filter, e)) :
        /\ Place(f) = Place(e)
        /\ ToSet(f.targets) = {x \in ToSet(e.targets) : Kept(filter, e.recordType, x)}
  BY FilterRecordType DEF Cell, Place
<1>7. \A e, f : Identifier(e) = Identifier(f) => Place(e) = Place(f) /\ e.targets = f.targets
  BY DEF Identifier, Place
<1>8. ASSUME OffersAt(ToSet(c.eps), k, t) PROVE OffersAt(A, k, t) /\ Kept(filter, SuitableType(t), t)
  <2>1. PICK f \in ToSet(c.eps) : Place(f) = k /\ t \in ToSet(f.targets)
    BY <1>8 DEF OffersAt
  <2>2. PICK e \in S : f \in ToSet(FilterRecord(filter, e))
    BY <1>1, <2>1 DEF FilteredRecords
  <2>3. Place(f) = Place(e) /\ t \in ToSet(e.targets) /\ Kept(filter, e.recordType, t)
    BY <1>5, <1>6, <2>1, <2>2
  <2>4. Kept(filter, SuitableType(t), t)
    BY <1>5, <2>2, <2>3, KeptByType
  <2>5. QED
    BY <2>1, <2>2, <2>3, <2>4 DEF OffersAt
<1>9. ASSUME OffersAt(A, k, t), Kept(filter, SuitableType(t), t) PROVE OffersAt(ToSet(c.eps), k, t)
  <2>1. PICK e \in A : Place(e) = k /\ t \in ToSet(e.targets)
    BY <1>9 DEF OffersAt
  <2>2. PICK f \in S : Identifier(f) = Identifier(e)
    BY <1>1, <2>1
  <2>3. Place(f) = k /\ t \in ToSet(f.targets) /\ f \in Usable
    BY <1>5, <1>7, <2>1, <2>2
  <2>4. Kept(filter, f.recordType, t)
    BY <1>9, <2>3, KeptByType
  <2>5. PICK g \in ToSet(FilterRecord(filter, f)) : TRUE
    BY <2>3, <2>4, FilterRecordType
  <2>6. Place(g) = k /\ t \in ToSet(g.targets)
    BY <1>6, <2>3, <2>4, <2>5
  <2>7. g \in ToSet(c.eps)
    BY <1>1, <2>2, <2>5 DEF FilteredRecords
  <2>8. QED
    BY <2>6, <2>7 DEF OffersAt
<1>10. QED
  BY <1>4, <1>5, <1>8, <1>9 DEF A

-------------------------------------------------------------------------------
(***************************************************************************)
(* The sync: what it keeps are resources of the cluster, results of its    *)
(* sources, and records.                                                   *)
(***************************************************************************)
\* The resources that a source may see.
Seen(r, s) == DOMAIN r = Reads(s) /\ \A k \in Reads(s) : r[k] \in Clusters(k)

Cached ==
  /\ scenario \in Scenarios
  /\ DOMAIN world = Kinds /\ \A k \in Kinds : world[k] \in Clusters(k)
  /\ DOMAIN view = Children /\ DOMAIN used = Children
  /\ \A i \in Children : /\ DOMAIN view[i] = Informed(scenario.sources[i])
                         /\ \A k \in DOMAIN view[i] : view[i][k] \in Clusters(k)
                         /\ Seen(used[i], scenario.sources[i])

Running ==
  /\ notices \subseteq {<<i, k>> : i \in Children, k \in Kinds}
  /\ due \in BOOLEAN
  /\ phase \in {"idle", "listing", "down"}
  /\ edits \in 0 .. MaxEdits

\* The results are those of the first sources.
Answered ==
  /\ results \in Seq(ResultOf(Listed))
  /\ Len(results) <= Len(scenario.sources)
  /\ \A j \in 1 .. Len(results) : results[j] \in Endpoints(scenario.sources[j], used[j])

ListsRecords == listing \in SUBSET Usable

Held == Cached /\ Running /\ Answered /\ ListsRecords

\* A scenario names sources and default targets.
LEMMA ScenarioType ==
  ASSUME scenario \in Scenarios
  PROVE  /\ scenario.sources \in Seq(SourceNames) /\ scenario.defaultTargets \in Seq(Target)
         /\ \A i \in Children : scenario.sources[i] \in SourceNames
         /\ Len(scenario.sources) \in Nat /\ Children = 1 .. Len(scenario.sources)
<1>1. scenario.sources \in Seq(SourceNames) /\ scenario.defaultTargets \in Seq(Target)
  BY InformersAssumption
<1>2. QED
  BY <1>1 DEF Children

\* What sources read are kinds of resources.
LEMMA ReadKinds ==
  ASSUME NEW s \in SourceNames
  PROVE  Reads(s) \subseteq Kinds /\ Informed(s) \subseteq Reads(s) /\ Reads(s) \ Live(s) \subseteq Informed(s)
BY DEF SourceNames, Reads, Informed, Live, Kinds

\* What a source sees are resources of the kinds it reads.
LEMMA SeenHolds ==
  ASSUME NEW s \in SourceNames, NEW r, Seen(r, s)
  PROVE  Holds(r, s)
BY ReadKinds, StockType DEF Seen, Holds

\* Names are unique in all clusters: so they are for the source of services.
LEMMA SeenDistinct ==
  ASSUME NamesAreUnique, NEW r, Seen(r, "mesh-service")
  PROVE  Distinct(r["service"])
BY NamesAreUnique DEF NamesAreUnique, Seen, Reads, Informed

\* What a source would see now is of some cluster, kind by kind.
LEMMA SeenByType ==
  ASSUME Cached, NEW i \in Children
  PROVE  Seen(SeenBy(i), scenario.sources[i])
<1> DEFINE s == scenario.sources[i]
<1>1. s \in SourceNames
  BY ScenarioType DEF Cached
<1>2. Reads(s) \subseteq Kinds /\ Reads(s) \ Live(s) \subseteq Informed(s)
  BY <1>1, ReadKinds
<1>3. SeenBy(i) = [k \in Reads(s) |-> IF k \in Live(s) THEN world[k] ELSE view[i][k]]
  BY DEF SeenBy
<1>4. DOMAIN view[i] = Informed(s)
  BY DEF Cached
<1> HIDE DEF s
<1>5. ASSUME NEW k \in Reads(s) PROVE SeenBy(i)[k] \in Clusters(k)
  BY <1>2, <1>3, <1>4 DEF Cached
<1>6. QED
  BY <1>3, <1>5 DEF Seen, s

\* A resource of a scenario's cluster.
LEMMA ClusterOf ==
  ASSUME scenario \in Scenarios, NEW w \in scenario.worlds, NEW k \in DOMAIN w
  PROVE  w[k] \in Clusters(k)
BY DEF Clusters

\* A process starts with what the cluster has.
LEMMA HeldInit == Init => Held
<1> SUFFICES ASSUME Init PROVE Held
  OBVIOUS
<1>1. scenario \in Scenarios
  BY DEF Init
<1>2. PICK w \in scenario.worlds : world = [k \in Kinds |-> IF k \in DOMAIN w THEN w[k] ELSE {}]
  BY DEF Init
<1>3. \A k : {} \in Clusters(k)
  BY DEF Clusters
<1>4. \A k \in DOMAIN w : w[k] \in Clusters(k)
  BY <1>1, ClusterOf
<1>5. DOMAIN world = Kinds /\ \A k \in Kinds : world[k] \in Clusters(k)
  BY <1>2, <1>3, <1>4
<1>6. view = [i \in Children |-> [k \in Informed(scenario.sources[i]) |-> world[k]]]
  BY DEF Init
<1>7. \A i \in Children : scenario.sources[i] \in SourceNames
  BY <1>1, ScenarioType
<1>8. \A i \in Children : Informed(scenario.sources[i]) \subseteq Kinds
  BY <1>7, ReadKinds
<1>9. DOMAIN view = Children /\ \A i \in Children :
        /\ DOMAIN view[i] = Informed(scenario.sources[i])
        /\ \A k \in DOMAIN view[i] : view[i][k] \in Clusters(k)
  BY <1>5, <1>6, <1>8
<1>10. ASSUME NEW i \in Children PROVE Seen(SeenBy(i), scenario.sources[i])
  <2> DEFINE s == scenario.sources[i]
  <2>1. SeenBy(i) = [k \in Reads(s) |-> IF k \in Live(s) THEN world[k] ELSE view[i][k]]
    BY DEF SeenBy
  <2>2. Reads(s) \subseteq Kinds /\ Reads(s) \ Live(s) \subseteq Informed(s)
    BY <1>7, ReadKinds
  <2>3. DOMAIN view[i] = Informed(s)
    BY <1>9
  <2> HIDE DEF s
  <2>4. \A k \in Reads(s) : SeenBy(i)[k] \in Clusters(k)
    BY <1>5, <1>9, <2>1, <2>2, <2>3
  <2>5. QED
    BY <2>1, <2>4 DEF Seen, s
<1>11. used = [i \in Children |-> SeenBy(i)]
  BY DEF Init
<1>12. Cached
  BY <1>1, <1>5, <1>9, <1>10, <1>11 DEF Cached
<1>13. Running
  BY InformersAssumption DEF Init, Running
<1>14. Answered /\ ListsRecords
  <2>1. results = <<>> /\ listing = {}
    BY DEF Init
  <2>2. Len(scenario.sources) \in Nat
    BY <1>1, ScenarioType
  <2>3. QED
    BY <2>1, <2>2 DEF Answered, ListsRecords
<1>15. QED
  BY <1>12, <1>13, <1>14 DEF Held

-------------------------------------------------------------------------------
\* A run that begins or ends has no results.
LEMMA NoAnswers ==
  ASSUME Held, results' = <<>>, UNCHANGED <<scenario, used>>
  PROVE  Answered'
<1>1. Len(scenario.sources) \in Nat
  BY ScenarioType DEF Held, Cached
<1>2. QED
  BY <1>1 DEF Answered

\* Of the run itself, nothing changes but that requests may be taken back.
LEMMA SameRun ==
  ASSUME Running, notices' \subseteq notices, due' \in BOOLEAN,
         phase' \in {"idle", "listing", "down"}, UNCHANGED <<scenario, edits>>
  PROVE  Running'
BY DEF Running, Children

\* Caches that stay hold what they held.
LEMMA SameCaches ==
  ASSUME Cached, UNCHANGED <<scenario, world, view, used>>
  PROVE  Cached'
BY DEF Cached, Children

\* One more source answers.
LEMMA HeldListSource ==
  ASSUME Held, NEW i \in Children, ListSource(i)
  PROVE  Held'
<1>1. /\ i = Len(results) + 1
      /\ used' = [used EXCEPT ![i] = SeenBy(i)]
      /\ UNCHANGED <<scenario, world, view, notices, due, phase, listing, edits>>
  BY DEF ListSource
<1>2. PICK r \in Endpoints(scenario.sources[i], SeenBy(i)) : results' = Append(results, r)
  BY DEF ListSource
<1> DEFINE s == scenario.sources[i]
<1>3. s \in SourceNames /\ Children = 1 .. Len(scenario.sources) /\ Len(scenario.sources) \in Nat
  BY ScenarioType DEF Held, Cached
<1>4. Seen(SeenBy(i), s)
  BY SeenByType DEF Held
<1>5. r \in ResultOf(Listed)
  BY <1>2, <1>3, <1>4, SeenHolds, SourceAnswers
<1>6. \A j \in Children : used'[j] = IF j = i THEN SeenBy(i) ELSE used[j]
  BY <1>1 DEF Held, Cached
<1>7. Cached'
  <2>1. DOMAIN used' = Children
    BY <1>1 DEF Held, Cached
  <2>2. \A j \in Children : Seen(used'[j], scenario.sources[j])
    BY <1>4, <1>6 DEF Held, Cached
  <2>3. QED
    BY <1>1, <2>1, <2>2 DEF Held, Cached, Children
<1>8. /\ results \in Seq(ResultOf(Listed)) /\ Len(results) \in Nat
      /\ \A j \in 1 .. Len(results) : results[j] \in Endpoints(scenario.sources[j], used[j])
  BY DEF Held, Answered
<1> HIDE DEF s
<1>9. /\ results' \in Seq(ResultOf(Listed)) /\ Len(results') = i
      /\ \A j \in 1 .. Len(results) : results'[j] = results[j]
      /\ results'[i] = r
  BY <1>1, <1>2, <1>5, <1>8
<1>10. Answered'
  <2>1. Len(results') <= Len(scenario.sources)
    BY <1>3, <1>9
  <2>2. ASSUME NEW j \in 1 .. Len(results')
        PROVE  results'[j] \in Endpoints(scenario.sources[j], used'[j])
    <3>1. CASE j = i
      <4>1. j \in Children
        BY <3>1
      <4>2. used'[j] = SeenBy(i) /\ results'[j] = r
        BY <1>6, <1>9, <3>1, <4>1
      <4>3. QED
        BY <1>2, <3>1, <4>2
    <3>2. CASE j # i
      <4>1. j \in 1 .. Len(results) /\ j \in Children
        BY <1>1, <1>3, <1>8, <1>9, <3>2
      <4>2. used'[j] = used[j] /\ results'[j] = results[j]
        BY <1>6, <1>9, <3>2, <4>1
      <4>3. QED
        BY <1>8, <4>1, <4>2
    <3>3. QED
      BY <3>1, <3>2
  <2>3. QED
    BY <1>1, <1>9, <2>1, <2>2 DEF Answered
<1>11. Running' /\ ListsRecords'
  BY <1>1 DEF Held, Running, ListsRecords, Children
<1>12. QED
  BY <1>7, <1>10, <1>11 DEF Held

\* The chain makes a listing of the answers.
LEMMA HeldFinish ==
  ASSUME Held, Finish
  PROVE  Held'
<1>1. /\ results' = <<>>
      /\ UNCHANGED <<scenario, world, view, notices, due, used, edits>>
      /\ IF Combined(results).state = "ok"
         THEN listing' = ToSet(Combined(results).eps) /\ phase' = "idle"
         ELSE phase' = "down" /\ listing' = listing
  BY DEF Finish
<1>2. Cached' /\ Answered'
  BY <1>1, SameCaches, NoAnswers DEF Held
<1>3. Running'
  BY <1>1 DEF Held, Running, Children
<1>4. ListsRecords'
  <2>1. CASE Combined(results).state = "ok"
    <3>1. scenario.defaultTargets \in Seq(Target)
      BY ScenarioType DEF Held, Cached
    <3>2. results \in Seq(ResultOf(Listed))
      BY DEF Held, Answered
    <3>3. Combined(results) = Chain(results, scenario.defaultTargets, scenario.filter)
      BY DEF Combined
    <3>4. Combined(results).eps \in Seq(Usable)
      BY <2>1, <3>1, <3>2, <3>3, ChainType
    <3>5. QED
      BY <1>1, <2>1, <3>4 DEF ListsRecords, ToSet
  <2>2. CASE Combined(results).state # "ok"
    BY <1>1, <2>2 DEF Held, ListsRecords
  <2>3. QED
    BY <2>1, <2>2
<1>5. QED
  BY <1>2, <1>3, <1>4 DEF Held

\* A cache moves, or all of them are filled anew.
LEMMA HeldDeliver ==
  ASSUME Held, NEW i \in Children, NEW k \in DOMAIN view[i], Deliver(i, k)
  PROVE  Held'
<1>1. /\ view' = [view EXCEPT ![i] = [view[i] EXCEPT ![k] = world[k]]]
      /\ notices' \subseteq notices \cup {<<i, k>>}
      /\ UNCHANGED <<scenario, world, due, phase, results, used, listing, edits>>
  BY DEF Deliver
<1>2. k \in Kinds
  <2>1. scenario.sources[i] \in SourceNames /\ DOMAIN view[i] = Informed(scenario.sources[i])
    BY ScenarioType DEF Held, Cached
  <2>2. QED
    BY <2>1, ReadKinds
<1>3. world[k] \in Clusters(k)
  BY <1>2 DEF Held, Cached
<1>4. DOMAIN view' = Children /\ \A j \in Children :
        DOMAIN view'[j] = DOMAIN view[j] /\ \A l \in DOMAIN view[j] : view'[j][l] \in Clusters(l)
  BY <1>1, <1>3 DEF Held, Cached
<1>5. Cached'
  BY <1>1, <1>4 DEF Held, Cached, Children
<1>6. Running'
  <2>1. notices' \subseteq {<<j, l>> : j \in Children, l \in Kinds}
    BY <1>1, <1>2 DEF Held, Running
  <2>2. QED
    BY <1>1, <2>1 DEF Held, Running, Children
<1>7. Answered' /\ ListsRecords'
  BY <1>1 DEF Held, Answered, ListsRecords
<1>8. QED
  BY <1>5, <1>6, <1>7 DEF Held

\* A process that starts again fills its caches from the cluster.
LEMMA HeldRestart ==
  ASSUME Held, Restart
  PROVE  Held'
<1>1. /\ view' = [i \in Children |-> [k \in DOMAIN view[i] |-> world[k]]]
      /\ notices' = {} /\ due' = TRUE /\ phase' = "idle"
      /\ UNCHANGED <<scenario, world, results, used, listing, edits>>
  BY DEF Restart
<1>2. \A i \in Children : scenario.sources[i] \in SourceNames /\ DOMAIN view[i] = Informed(scenario.sources[i])
  BY ScenarioType DEF Held, Cached
<1>3. \A i \in Children : DOMAIN view[i] \subseteq Kinds
  BY <1>2, ReadKinds
<1>4. DOMAIN view' = Children /\ \A j \in Children :
        DOMAIN view'[j] = DOMAIN view[j] /\ \A l \in DOMAIN view[j] : view'[j][l] \in Clusters(l)
  BY <1>1, <1>3 DEF Held, Cached
<1>5. Cached'
  BY <1>1, <1>4 DEF Held, Cached, Children
<1>6. Running' /\ Answered' /\ ListsRecords'
  BY <1>1 DEF Held, Running, Answered, ListsRecords
<1>7. QED
  BY <1>5, <1>6 DEF Held

\* The cluster goes on to another state of the scenario, and caches stay.
LEMMA HeldChange ==
  ASSUME Held, NEW k \in Kinds, ClusterChanges(k)
  PROVE  Held'
<1>1. /\ edits < MaxEdits /\ edits' = edits + 1
      /\ UNCHANGED <<scenario, view, notices, due, phase, results, used, listing>>
  BY DEF ClusterChanges
<1>2. PICK w \in scenario.worlds : k \in DOMAIN w /\ world' = [world EXCEPT ![k] = w[k]]
  BY DEF ClusterChanges
<1>3. w[k] \in Clusters(k)
  BY <1>2, ClusterOf DEF Held, Cached
<1>4. DOMAIN world' = Kinds /\ \A l \in Kinds : world'[l] \in Clusters(l)
  BY <1>2, <1>3 DEF Held, Cached
<1>5. Cached'
  BY <1>1, <1>4 DEF Held, Cached, Children
<1>6. Running'
  BY <1>1, InformersAssumption DEF Held, Running, Children
<1>7. Answered' /\ ListsRecords'
  BY <1>1 DEF Held, Answered, ListsRecords
<1>8. QED
  BY <1>5, <1>6, <1>7 DEF Held

\* Every step keeps the invariant.
LEMMA HeldStep ==
  ASSUME Held, [Next]_vars
  PROVE  Held'
<1>1. CASE StartRun
  <2>1. /\ phase' = "listing" /\ due' = FALSE /\ results' = <<>>
        /\ UNCHANGED <<scenario, world, view, notices, used, listing, edits>>
    BY <1>1 DEF StartRun
  <2>2. Cached' /\ Answered'
    BY <2>1, SameCaches, NoAnswers DEF Held
  <2>3. Running /\ ListsRecords
    BY DEF Held
  <2>4. Running'
    BY <2>1, <2>3, SameRun
  <2>5. ListsRecords'
    BY <2>1, <2>3 DEF ListsRecords
  <2>6. QED
    BY <2>2, <2>4, <2>5 DEF Held
<1>2. ASSUME NEW i \in Children, ListSource(i) PROVE Held'
  BY <1>2, HeldListSource
<1>3. CASE Finish
  BY <1>3, HeldFinish
<1>4. CASE IntervalPasses \/ (\E n \in notices : CallHandler(n)) \/ UNCHANGED vars
  <2>1. /\ due' \in {TRUE, due} /\ notices' \subseteq notices
        /\ UNCHANGED <<scenario, world, view, phase, results, used, listing, edits>>
    BY <1>4 DEF IntervalPasses, CallHandler, vars
  <2>2. Cached'
    BY <2>1, SameCaches DEF Held
  <2>3. Running /\ Answered /\ ListsRecords
    BY DEF Held
  <2>4. due' \in BOOLEAN /\ phase' \in {"idle", "listing", "down"}
    <3>1. due \in BOOLEAN /\ phase \in {"idle", "listing", "down"}
      BY <2>3 DEF Running
    <3>2. due' = TRUE \/ due' = due
      BY <2>1
    <3>3. due' \in BOOLEAN
      BY <3>1, <3>2
    <3>4. QED
      BY <2>1, <3>1, <3>3
  <2>5. Running'
    BY <2>1, <2>3, <2>4, SameRun
  <2>6. Answered' /\ ListsRecords'
    BY <2>1, <2>3 DEF Answered, ListsRecords
  <2>7. QED
    BY <2>2, <2>5, <2>6 DEF Held
<1>5. CASE Restart
  BY <1>5, HeldRestart
<1>6. ASSUME NEW i \in Children, NEW k \in DOMAIN view[i], Deliver(i, k) PROVE Held'
  BY <1>6, HeldDeliver
<1>7. ASSUME NEW k \in Kinds, ClusterChanges(k) PROVE Held'
  BY <1>7, HeldChange
<1>8. QED
  BY <1>1, <1>2, <1>3, <1>4, <1>5, <1>6, <1>7 DEF Next

\* Whatever moves when: caches hold, and sources have read, what some state of the
\* cluster has; the results of a run are answers of its first sources; the listing has
\* records that fit the plan (the sources' listers, multiSource.Endpoints).
THEOREM InformersHeld == Spec => []Held
<1>1. QED
  BY HeldInit, HeldStep, PTL DEF Spec

\* The state of a sync with its sources keeps to its types, through crashes and
\* restarts: no more results than sources, and records in the listing, no nil.
THEOREM InformersTypes == Spec => []TypeOK
<1>1. Held => TypeOK
  <2> SUFFICES ASSUME Held PROVE TypeOK
    OBVIOUS
  <2>1. listing = RecordsOf(listing)
    BY DEF Held, ListsRecords, Usable, Record, RecordTypes, RecordsOf
  <2>2. QED
    BY <2>1 DEF Held, Cached, Running, Answered, TypeOK
<1>2. QED
  BY <1>1, InformersHeld, PTL

\* Whatever the resources and the annotations are and however the caches
\* disagree, what reaches the plan are records with targets: no nil, no over-long
\* label but in the name of a node, no target of another type but the address of a
\* pod in a record of its own (NewEndpoint, EndpointsForHostname,
\* targetFilterSource.Endpoints, nodeSource.Endpoints, k8sSource.Endpoints).
THEOREM AlwaysPlannable == Spec => []Plannable
<1>1. Held => Plannable
  BY DEF Held, ListsRecords, Usable, Plannable
<1>2. QED
  BY <1>1, InformersHeld, PTL

\* What is chosen for a local policy hangs on pods and nodes only.
LEMMA SamePods ==
  ASSUME NEW svc, NEW u, NEW v, u.pod = v.pod, u.node = v.node
  PROVE  LocalPods(svc, u) = LocalPods(svc, v)
<1>1. PodsOf(svc, u) = PodsOf(svc, v) /\ Nodes(u) = Nodes(v)
  BY DEF PodsOf, Nodes
<1> DEFINE U(w) == {p \in ToSet(w.pod) : p.phase = "Running" /\ NodeNamed(p.node, Nodes(w)) # {}}
<1>2. U(u) = U(v)
  BY <1>1
<1>3. \A w : FirstOnTheirNodes(svc, w)
               = Picked(Only(PodsOf(svc, w), U(w)),
                        Firsts([i \in DOMAIN Only(PodsOf(svc, w), U(w)) |-> Only(PodsOf(svc, w), U(w))[i].node]))
  BY DEF FirstOnTheirNodes
<1> HIDE DEF U
<1>4. FirstOnTheirNodes(svc, u) = FirstOnTheirNodes(svc, v)
  BY <1>1, <1>2, <1>3
<1>5. QED
  BY <1>4 DEF LocalPods

\* Whatever the order of pods in different conditions, the choice keeps within bounds.
LEMMA KeptWithinBounds ==
  ASSUME NEW r, Holds(r, "mesh-service"), NEW svc
  PROVE  WithinBounds(svc, r["pod"], r["node"])
<1> DEFINE pods == r["pod"]
           nodes == r["node"]
           running == {p \in RunningFor(svc, pods) : NodeNamed(p.node, nodes) # {}}
           serving == {p \in running : Condition(p) = "serving"}
           sure == {p \in serving : \A q \in running : q.node = p.node => q \in serving}
           NodesFor(ps) == {p.node : p \in ps}
<1> SUFFICES ASSUME NEW l \in Walks(pods)
             PROVE  LET taken == ToSet(LocalPods(svc, [pod |-> l, node |-> SetToSeq(nodes)]))
                    IN  /\ NodesFor(sure) \subseteq NodesFor(taken)
                        /\ sure # {} => NodesFor(taken) \subseteq NodesFor(serving)
  BY Zenon DEF WithinBounds
<1> DEFINE u == [pod |-> l, node |-> SetToSeq(nodes)]
           v == [service |-> SetToSeq(r["service"]), endpoints |-> SetToSeq(r["endpoints"]),
                 pod |-> l, node |-> SetToSeq(nodes)]
           taken == ToSet(LocalPods(svc, u))
<1>1. \A k \in MeshKinds : IsFiniteSet(r[k]) /\ r[k] \subseteq Stock(k)
  BY DEF Holds, Reads, Informed, Live, MeshKinds
<1>2. SetToSeq(r["service"]) \in Walks(r["service"]) /\ SetToSeq(nodes) \in Walks(nodes)
  BY <1>1, SomeWalk DEF MeshKinds
<1>3. LocalPods(svc, u) = LocalPods(svc, v)
  <2>1. u.pod = v.pod /\ u.node = v.node
    OBVIOUS
  <2> HIDE DEF u, v
  <2>2. QED
    BY <2>1, SamePods
<1>4. Typed(v) /\ ToSet(v.pod) = pods /\ ToSet(v.node) = nodes
  <2>1. v = [service |-> SetToSeq(r["service"]), endpoints |-> SetToSeq(r["endpoints"]),
             pod |-> l, node |-> SetToSeq(nodes)]
    OBVIOUS
  <2> HIDE DEF v
  <2>2. QED
    BY <1>1, <1>2, <2>1, ViewType
<1> HIDE DEF u, v
<1>5. running = RunningPods(svc, v)
  BY <1>4 DEF RunningPods, RunningFor, Nodes
<1>6. serving = StayingPods(svc, v)
  <2>1. \A p : Condition(p) = "serving" <=> IsPodStatusReady(p) /\ ~p.deleting
    BY DEF Condition
  <2> HIDE DEF running
  <2>2. QED
    BY <1>5, <2>1 DEF StayingPods, ReadyPods
<1> HIDE DEF running, serving, pods, nodes
<1>7. sure = {p \in StayingPods(svc, v) : \A q \in RunningPods(svc, v) :
                q.node = p.node => q \in StayingPods(svc, v)}
  BY <1>5, <1>6
<1> HIDE DEF sure
<1>8. /\ \A p \in sure : \E q \in taken : q.node = p.node
      /\ sure # {} => taken \subseteq serving
  BY <1>3, <1>4, <1>6, <1>7, LocalPodsBounds
<1> HIDE DEF taken
<1>9. NodesFor(sure) \subseteq NodesFor(taken) /\ (sure # {} => NodesFor(taken) \subseteq NodesFor(serving))
  BY <1>8
<1>10. QED
  BY <1>9 DEF taken, u

\* The order in which listers return resources and maps are walked does not
\* matter: whether a source fails, and what it lists, is decided by the resources
\* (Endpoints of all sources; for services the merge and extractNodePortTargets).
\* The exception are services with a local policy and pods in different conditions
\* on one node: of those the order decides which nodes are taken, within bounds,
\* and it decides about nothing else.
THEOREM AnyListerOrder ==
  ASSUME NamesAreUnique
  PROVE  Spec => []ListerOrderDoesNotMatter
<1>1. Held => ListerOrderDoesNotMatter
  <2> SUFFICES ASSUME Held, NEW i \in Children
               PROVE  LET r == SeenBy(i)
                          possible == Endpoints(scenario.sources[i], r)
                          undecided == Undecided(scenario.sources[i], r)
                          names == {Hostname(svc) : svc \in undecided}
                      IN  /\ \A a, b \in {<<p.state, Unless(Content(p), names)>> : p \in possible} : a = b
                          /\ \A svc \in undecided : WithinBounds(svc, r["pod"], r["node"])
    BY Zenon DEF ListerOrderDoesNotMatter
  <2> DEFINE s == scenario.sources[i]
             r == SeenBy(i)
             names == {Hostname(svc) : svc \in Undecided(s, r)}
  <2>1. s \in SourceNames /\ Seen(r, s)
    BY ScenarioType, SeenByType DEF Held, Cached
  <2> HIDE DEF s, r
  <2>2. Holds(r, s)
    BY <2>1, SeenHolds
  <2>3. s = "mesh-service" => Distinct(r["service"])
    BY <2>1, SeenDistinct, NamesAreUnique
  <2>4. names = {Hostname(svc) : svc \in Undecided(s, r)}
    OBVIOUS
  <2> HIDE DEF names
  <2>5. \A p, q \in Endpoints(s, r) :
          p.state = q.state /\ Unless(Content(p), names) = Unless(Content(q), names)
    BY <2>1, <2>2, <2>3, <2>4, SameAnswers
  <2>6. \A a, b \in {<<p.state, Unless(Content(p), names)>> : p \in Endpoints(s, r)} : a = b
    BY <2>5
  <2>7. \A svc \in Undecided(s, r) : WithinBounds(svc, r["pod"], r["node"])
    <3>1. CASE s = "mesh-service"
      BY <2>2, <3>1, KeptWithinBounds
    <3>2. CASE s # "mesh-service"
      BY <3>2 DEF Undecided
    <3>3. QED
      BY <3>1, <3>2
  <2>8. QED
    BY Zenon, <2>6, <2>7 DEF names, s, r
<1>2. QED
  BY <1>1, InformersHeld, PTL

-------------------------------------------------------------------------------
(***************************************************************************)
(* Ports.                                                                  *)
(***************************************************************************)
LEMMA GatheredPortless ==
  ASSUME NEW P, \A p \in P : p.type # "SRV"
  PROVE  NoPorts(GatheredContent(P)) /\ NoPorts(NewContent(GatheredContent(P)))
<1>1. NoPorts(GatheredContent(P))
  <2>1. SUFFICES ASSUME NEW p \in P
                 PROVE  <<<<p.name, p.type, "">>, TargetsIn(P, p.name, p.type)>>[1][2] # "SRV"
    BY Zenon DEF NoPorts, GatheredContent
  <2>2. QED
    OBVIOUS
<1>2. Says(Nil)[1][2] # "SRV"
  BY Zenon, SaysType DEF Nil
<1>3. QED
  BY <1>1, <1>2 DEF NoPorts, NewContent

\* Only services are given records with ports.
LEMMA OtherSourcesPortless ==
  ASSUME NEW s \in SourceNames, s # "mesh-service", NEW r, Holds(r, s)
  PROVE  SourceWell(s, r) => NoPorts(SourceContent(s, r))
<1>1. CASE s = "ingress"
  <2>1. "ingress" \in Reads(s) \cap Kinds /\ Resource("ingress") = IngressResource
    BY <1>1 DEF Reads, Informed, Live, Kinds, Resource
  <2>2. TakenIngresses(r["ingress"]) \subseteq IngressResource
    BY Zenon, <2>1, ListOfKind DEF TakenIngresses
  <2>3. ASSUME NEW ing \in TakenIngresses(r["ingress"])
        PROVE  NoPorts(ContentOf(IngressEndpoints(ing).eps))
    <3>1. IngressEndpoints(ing) \in ResultOf(Portless)
      BY <2>2, IngressEndpointsType
    <3>2. IngressEndpoints(ing).eps \in Seq(Portless)
      BY <3>1 DEF ResultOf
    <3>3. \A e \in ToSet(IngressEndpoints(ing).eps) : e.recordType # "SRV"
      BY <3>2 DEF ToSet, Portless
    <3>4. QED
      BY <3>3, SaysType DEF NoPorts, ContentOf
  <2>4. NoPorts(UNION {ContentOf(IngressEndpoints(ing).eps) : ing \in TakenIngresses(r["ingress"])})
    BY <2>3 DEF NoPorts
  <2>5. QED
    BY <1>1, <2>4 DEF SourceContent
<1>2. CASE s = "gateway"
  <2>1. ASSUME NEW gw PROVE NoPorts(GatewayContent(gw))
    <3> DEFINE H == ResolveGateway(gw)
               T == ToSet(GatewayAddresses(gw))
               id == ""
    <3>1. GatewayContent(gw) = UNION {HostContent(h, T, id) : h \in H}
      BY DEF GatewayContent
    <3> HIDE DEF H, T, id
    <3>2. QED
      BY <3>1, HostsPortless
  <2>2. NoPorts(UNION {GatewayContent(gw) : gw \in r["gateway"]})
    BY <2>1 DEF NoPorts
  <2>3. QED
    BY <1>2, <2>2 DEF SourceContent
<1>3. CASE s = "istio-gateway"
  <2> DEFINE G == {g \in r["istiogateway"] : Responsible(g.ann)}
             C == UNION {IstioContent(gw, r["service"], r["ingress"]) : gw \in G}
  <2>1. \A gw : NoPorts(IstioContent(gw, r["service"], r["ingress"]))
    BY HostsPortless DEF IstioContent
  <2>2. SourceContent(s, r) = C
    BY <1>3 DEF SourceContent
  <2> HIDE DEF G
  <2>3. NoPorts(C)
    BY <2>1 DEF NoPorts
  <2>4. QED
    BY <2>2, <2>3
<1>4. CASE s = "istio-se"
  <2> DEFINE E == LocatedIn(r["serviceentry"], "MESH_EXTERNAL")
                    \cup LocatedIn(r["serviceentry"], "MESH_INTERNAL")
             C == UNION {ServiceEntryContent(se) : se \in E}
  <2>1. ASSUME NEW se PROVE NoPorts(ServiceEntryContent(se))
    <3> DEFINE H == ServiceEntryHosts(se)
               T == ToSet(se.addresses)
               id == ""
    <3>1. ServiceEntryContent(se) = UNION {HostContent(h, T, id) : h \in H}
      BY DEF ServiceEntryContent
    <3> HIDE DEF H, T, id
    <3>2. QED
      BY <3>1, HostsPortless
  <2>2. SourceContent(s, r) = C
    BY <1>4 DEF SourceContent
  <2> HIDE DEF E
  <2>3. NoPorts(C)
    BY <2>1 DEF NoPorts
  <2>4. QED
    BY <2>2, <2>3
<1>5. CASE s = "node"
  <2> DEFINE P == UNION {NodePairs(n) : n \in r["node"]}
  <2>1. "node" \in Reads(s) \cap Kinds /\ Resource("node") = NodeResource
    BY <1>5 DEF Reads, Informed, Live, Kinds, Resource
  <2>2. r["node"] \subseteq NodeResource
    BY <2>1, ListOfKind
  <2>3. ASSUME NEW n \in NodeResource, NEW p \in NodePairs(n) PROVE p.type # "SRV"
    <3>1. NodeAddresses(n) \in Seq(Target)
      BY NodeAddressesType
    <3>2. \A t \in ToSet(NodeAddresses(n)) : t \in Target
      BY <3>1 DEF ToSet
    <3>3. PICK t \in ToSet(NodeAddresses(n)) : p.type = SuitableType(t)
      BY DEF NodePairs, PairsFor
    <3>4. QED
      BY <3>2, <3>3, TargetTypes
  <2>4. \A p \in P : p.type # "SRV"
    BY <2>2, <2>3
  <2>5. SourceContent(s, r) = GatheredContent(P)
    BY <1>5 DEF SourceContent
  <2> HIDE DEF P
  <2>6. QED
    BY <2>4, <2>5, GatheredPortless
<1>6. CASE s = "pod"
  <2> DEFINE H == HostPods(r["pod"])
             P == UNION {ToSet(PodPairs(p, r["node"])) : p \in H}
  <2>1. /\ {"pod", "node"} \subseteq Reads(s) \cap Kinds
        /\ Resource("pod") = PodResource /\ Resource("node") = NodeResource
    BY <1>6 DEF Reads, Informed, Live, Kinds, Resource
  <2>2. r["pod"] \subseteq PodResource /\ r["node"] \in SUBSET NodeResource
    BY <2>1, ListOfKind
  <2>3. SourceWell(s, r) => \A p \in H : ~NodeMissing(p, r["node"])
    BY <1>6 DEF SourceWell
  <2>4. SourceContent(s, r) = NewContent(GatheredContent(P))
    BY <1>6 DEF SourceContent
  <2>5. H \subseteq PodResource
    BY <2>2 DEF HostPods
  <2> HIDE DEF H
  <2>6. ASSUME NEW p \in H, SourceWell(s, r), NEW x \in ToSet(PodPairs(p, r["node"]))
        PROVE  x.type # "SRV"
    <3>1. PodPairs(p, r["node"]) \in Seq(Pair) /\ SuitedPairs(ToSet(PodPairs(p, r["node"])))
      BY <2>2, <2>3, <2>5, <2>6, PodPairsType DEF NodeMissing
    <3>2. x \in Pair /\ x.type = SuitableType(x.target)
      BY <3>1 DEF ToSet, SuitedPairs
    <3>3. QED
      BY <3>2, TargetTypes DEF Pair
  <2>7. SourceWell(s, r) => \A x \in P : x.type # "SRV"
    BY <2>6
  <2> HIDE DEF P
  <2>8. QED
    BY <2>4, <2>7, GatheredPortless
<1>7. CASE s = "k8s"
  <2> DEFINE P == {K8SPair(p) : p \in AddressedPods(r["pod"])}
  <2>1. \A p : K8SPair(p).type # "SRV"
    BY DEF K8SPair
  <2>2. \A x \in P : x.type # "SRV"
    BY <2>1
  <2>3. SourceContent(s, r) = NewContent(GatheredContent(P))
    BY <1>7 DEF SourceContent
  <2> HIDE DEF P
  <2>4. QED
    BY <2>2, <2>3, GatheredPortless
<1>8. QED
  BY <1>1, <1>2, <1>3, <1>4, <1>5, <1>6, <1>7 DEF SourceNames

\* Records with ports come from the source of services (extractNodePortEndpoints).
LEMMA PortsFromServices ==
  ASSUME NEW s \in SourceNames, NEW r, Holds(r, s), NEW q \in Endpoints(s, r),
         NEW e \in ToSet(q.eps), e.recordType = "SRV"
  PROVE  s = "mesh-service"
<1> SUFFICES ASSUME s # "mesh-service" PROVE FALSE
  OBVIOUS
<1>1. Outcome(q, SourceWell(s, r), SourceWrong(s), SourceContent(s, r))
  BY SourceAnswers
<1>2. CASE SourceWell(s, r)
  <2>1. ContentOf(q.eps) = SourceContent(s, r) /\ NoPorts(SourceContent(s, r))
    BY <1>1, <1>2, OtherSourcesPortless DEF Outcome
  <2>2. Says(e) \in ContentOf(q.eps)
    BY DEF ContentOf
  <2>3. QED
    BY <2>1, <2>2, SaysType DEF NoPorts
<1>3. CASE ~SourceWell(s, r)
  <2>1. q.eps = <<>>
    BY <1>1, <1>3, Results DEF Outcome, SourceWrong
  <2>2. QED
    BY <2>1 DEF ToSet
<1>4. QED
  BY <1>2, <1>3

\* A record with a port comes from a source as it is.
LEMMA PortsInChain ==
  ASSUME NEW rs \in Seq(ResultOf(Listed)), NEW D \in Seq(Target), NEW filter,
         NEW c, c = Chain(rs, D, filter), c.state = "ok",
         NEW e \in ToSet(c.eps), e.recordType = "SRV"
  PROVE  \E i \in DOMAIN rs : e \in ToSet(rs[i].eps)
<1>1. PICK S \in SUBSET Defaulted(AllOf(rs), D) :
        S \subseteq Usable /\ ToSet(c.eps) = FilteredRecords(filter, S)
  BY ChainType
<1>2. PICK d \in S : e \in ToSet(FilterRecord(filter, d))
  BY <1>1 DEF FilteredRecords
<1>3. d \in Usable
  BY <1>1, <1>2
<1>4. Cell(e) = Cell(d)
  BY <1>2, <1>3, FilterRecordType
<1>5. d.recordType = "SRV"
  BY <1>4 DEF Cell
<1>6. e = d
  BY <1>2, <1>3, <1>5, FilterRecordType
<1>7. e \in Defaulted(AllOf(rs), D)
  BY <1>1, <1>2, <1>6
<1>8. CASE D = <<>>
  BY <1>7, <1>8 DEF Defaulted, AllOf
<1>9. CASE D # <<>>
  <2>1. PICK x \in AllOf(rs) : e \in ToSet(WithDefaultTargets(x, D))
    BY <1>7, <1>9 DEF Defaulted
  <2>2. Nil \notin AllOf(rs)
    BY <1>9, ChainType
  <2>3. x \in Record
    <3>1. PICK i \in DOMAIN rs : x \in ToSet(rs[i].eps)
      BY <2>1 DEF AllOf
    <3>2. rs[i] \in ResultOf(Listed)
      OBVIOUS
    <3>3. rs[i].eps \in Seq(Listed)
      BY <3>2 DEF ResultOf
    <3>4. x \in Listed
      BY <3>1, <3>3 DEF ToSet
    <3>5. QED
      BY <2>1, <2>2, <3>4 DEF Listed, Usable
  <2>4. QED
    BY <2>1, <2>3, DefaultType
<1>10. QED
  BY <1>8, <1>9

\* The records with ports of a listing come from one call of the one source.
LEMMA PortsTogetherStep ==
  ASSUME NamesAreUnique, OneMeshSource, Held, PortsTogether, [Next]_vars
  PROVE  PortsTogether'
<1>1. CASE listing' = listing
  BY <1>1 DEF PortsTogether
<1>2. CASE listing' # listing
  <2>1. Finish /\ Combined(results).state = "ok" /\ listing' = ToSet(Combined(results).eps)
    BY <1>2 DEF Next, vars, StartRun, ListSource, Finish, IntervalPasses, Restart, Deliver,
                CallHandler, ClusterChanges
  <2>2. /\ results \in Seq(ResultOf(Listed)) /\ Len(results) <= Len(scenario.sources)
        /\ \A j \in 1 .. Len(results) : results[j] \in Endpoints(scenario.sources[j], used[j])
    BY DEF Held, Answered
  <2>3. /\ scenario.defaultTargets \in Seq(Target)
        /\ \A i \in Children : scenario.sources[i] \in SourceNames
        /\ Children = 1 .. Len(scenario.sources) /\ Len(scenario.sources) \in Nat
        /\ scenario.sources \in Seq(SourceNames)
    BY ScenarioType DEF Held, Cached
  <2>4. ASSUME NEW e \in listing', e.recordType = "SRV"
        PROVE  \E j \in Children : /\ scenario.sources[j] = "mesh-service"
                                   /\ results[j] \in Endpoints("mesh-service", used[j])
                                   /\ e \in ToSet(results[j].eps)
    <3>1. Combined(results) = Chain(results, scenario.defaultTargets, scenario.filter)
      BY DEF Combined
    <3>2. PICK j \in DOMAIN results : e \in ToSet(results[j].eps)
      BY <2>1, <2>2, <2>3, <2>4, <3>1, PortsInChain
    <3>3. j \in 1 .. Len(results) /\ j \in Children
      BY <2>2, <2>3
    <3>4. results[j] \in Endpoints(scenario.sources[j], used[j]) /\ scenario.sources[j] \in SourceNames
      BY <2>2, <2>3, <3>3
    <3>5. Holds(used[j], scenario.sources[j])
      BY <3>3, <3>4, SeenHolds DEF Held, Cached
    <3>6. scenario.sources[j] = "mesh-service"
      BY <2>4, <3>2, <3>4, <3>5, PortsFromServices
    <3>7. QED
      BY <3>2, <3>3, <3>4, <3>6
  <2>5. ASSUME NEW e \in listing', NEW f \in listing',
               e.recordType = "SRV", f.recordType = "SRV", e.dnsName = f.dnsName
        PROVE  e = f
    <3>1. PICK j \in Children : /\ scenario.sources[j] = "mesh-service"
                                /\ results[j] \in Endpoints("mesh-service", used[j])
                                /\ e \in ToSet(results[j].eps)
      BY <2>4, <2>5
    <3>2. PICK k \in Children : /\ scenario.sources[k] = "mesh-service"
                                /\ results[k] \in Endpoints("mesh-service", used[k])
                                /\ f \in ToSet(results[k].eps)
      BY <2>4, <2>5
    <3>3. j = k
      <4>1. scenario \in Scenarios /\ j \in DOMAIN scenario.sources /\ k \in DOMAIN scenario.sources
        BY <2>3 DEF Held, Cached
      <4>2. QED
        BY <3>1, <3>2, <4>1, OneMeshSource DEF OneMeshSource
    <3>4. Seen(used[j], "mesh-service")
      BY <3>1 DEF Held, Cached
    <3>5. Holds(used[j], "mesh-service")
      BY <3>4, SeenHolds DEF SourceNames
    <3>6. Distinct(used[j]["service"])
      <4>1. used[j]["service"] \in Clusters("service")
        BY <3>4 DEF Seen, Reads, Informed
      <4>2. QED
        BY <4>1, NamesAreUnique DEF NamesAreUnique
    <3>7. OnePerName(ToSet(results[j].eps))
      BY <3>1, <3>5, <3>6, MeshAnswer
    <3>8. NameAndType(e) = NameAndType(f)
      BY <2>5 DEF NameAndType
    <3>9. QED
      BY <3>1, <3>2, <3>3, <3>7, <3>8 DEF OnePerName
  <2>6. QED
    BY <2>5 DEF PortsTogether
<1>3. QED
  BY <1>1, <1>2

\* The ports of one service and protocol end up in one record, however many they
\* are and whatever else is listed between them (meshservice.go:191-222): the
\* neighbours the merge compares are those of one service.
THEOREM PortsAreTogether ==
  ASSUME NamesAreUnique, OneMeshSource
  PROVE  Spec => []PortsTogether
<1>1. Init => PortsTogether
  BY DEF Init, PortsTogether
<1>2. Held /\ PortsTogether /\ [Next]_vars => PortsTogether'
  BY PortsTogetherStep, NamesAreUnique, OneMeshSource
<1>3. QED
  BY <1>1, <1>2, InformersHeld, PTL DEF Spec

-------------------------------------------------------------------------------
(***************************************************************************)
(* What a source makes of one resource, and of all.                        *)
(***************************************************************************)
OffersIn(C, c, t) == \E x \in C : x[1] = c /\ t \in x[2]

\* What a list offers is what its content offers.
LEMMA OffersContent ==
  ASSUME NEW eps, NEW c, NEW t
  PROVE  Offers(ToSet(eps), c, t) <=> OffersIn(ContentOf(eps), c, t)
<1>1. \A e : Says(e)[1] = Cell(e) /\ Says(e)[2] = ToSet(e.targets)
  BY DEF Says
<1>2. QED
  BY <1>1 DEF Offers, OffersIn, ContentOf

\* Uniting the cells of a content leaves what it offers.
LEMMA UniteOffers ==
  ASSUME NEW C, NEW c, NEW t
  PROVE  OffersIn(Unite(C), c, t) <=> OffersIn(C, c, t)
<1> DEFINE U(k) == UNION {d[2] : d \in {x \in C : x[1] = k}}
<1>1. \A k : t \in U(k) <=> OffersIn(C, k, t)
  BY DEF OffersIn
<1>2. Unite(C) = {<<x[1], U(x[1])>> : x \in C}
  BY DEF Unite
<1> HIDE DEF U
<1>3. ASSUME OffersIn(Unite(C), c, t) PROVE OffersIn(C, c, t)
  <2>1. PICK x \in C : <<x[1], U(x[1])>>[1] = c /\ t \in <<x[1], U(x[1])>>[2]
    BY <1>2, <1>3 DEF OffersIn
  <2>2. x[1] = c /\ t \in U(c)
    BY <2>1
  <2>3. QED
    BY <1>1, <2>2
<1>4. ASSUME OffersIn(C, c, t) PROVE OffersIn(Unite(C), c, t)
  <2>1. PICK x \in C : x[1] = c /\ t \in x[2]
    BY <1>4 DEF OffersIn
  <2> DEFINE y == <<x[1], U(x[1])>>
  <2>2. y \in Unite(C) /\ y[1] = c /\ y[2] = U(c)
    BY <1>2, <2>1
  <2> HIDE DEF y
  <2>3. QED
    BY <1>1, <1>4, <2>2 DEF OffersIn
<1>5. QED
  BY <1>3, <1>4

\* Gathered pairs offer the target of each.
LEMMA GatheredOffers ==
  ASSUME NEW P, NEW c, NEW t
  PROVE  /\ OffersIn(GatheredContent(P), c, t)
              <=> \E p \in P : c = <<p.name, p.type, "">> /\ p.target = t
         /\ OffersIn(NewContent(GatheredContent(P)), c, t)
              <=> ~TooLong(c[1]) /\ OffersIn(GatheredContent(P), c, t)
<1> DEFINE G(p) == <<<<p.name, p.type, "">>, TargetsIn(P, p.name, p.type)>>
           C == GatheredContent(P)
<1>1. C = {G(p) : p \in P}
  BY DEF GatheredContent
<1>2. \A p : G(p)[1] = <<p.name, p.type, "">> /\ G(p)[2] = TargetsIn(P, p.name, p.type)
  OBVIOUS
<1>3. \A p : t \in TargetsIn(P, p.name, p.type)
               <=> \E q \in P : q.name = p.name /\ q.type = p.type /\ q.target = t
  BY DEF TargetsIn, Alike
<1> HIDE DEF G, C
<1>4. ASSUME OffersIn(C, c, t) PROVE \E p \in P : c = <<p.name, p.type, "">> /\ p.target = t
  <2>1. PICK p \in P : G(p)[1] = c /\ t \in G(p)[2]
    BY <1>1, <1>4 DEF OffersIn
  <2>2. PICK q \in P : q.name = p.name /\ q.type = p.type /\ q.target = t
    BY Zenon, <1>2, <1>3, <2>1
  <2>3. QED
    BY Zenon, <1>2, <2>1, <2>2
<1>5. ASSUME NEW p \in P, c = <<p.name, p.type, "">>, p.target = t PROVE OffersIn(C, c, t)
  <2>1. G(p) \in C /\ G(p)[1] = c /\ t \in G(p)[2]
    BY Zenon, <1>1, <1>2, <1>3, <1>5
  <2>2. QED
    BY <2>1 DEF OffersIn
<1>6. Says(Nil)[2] = {}
  BY DEF Says, Nil, ToSet
<1>7. NewContent(C) = {IF TooLong(x[1][1]) THEN Says(Nil) ELSE x : x \in C}
  BY DEF NewContent
<1>8. OffersIn(NewContent(C), c, t) <=> ~TooLong(c[1]) /\ OffersIn(C, c, t)
  <2>1. ASSUME OffersIn(NewContent(C), c, t) PROVE ~TooLong(c[1]) /\ OffersIn(C, c, t)
    <3>1. PICK y \in NewContent(C) : y[1] = c /\ t \in y[2]
      BY <2>1 DEF OffersIn
    <3>2. PICK x \in C : y = IF TooLong(x[1][1]) THEN Says(Nil) ELSE x
      BY <1>7, <3>1
    <3>3. ~TooLong(x[1][1]) /\ y = x
      BY <1>6, <3>1, <3>2
    <3>4. QED
      BY <3>1, <3>3 DEF OffersIn
  <2>2. ASSUME ~TooLong(c[1]), OffersIn(C, c, t) PROVE OffersIn(NewContent(C), c, t)
    <3>1. PICK x \in C : x[1] = c /\ t \in x[2]
      BY <2>2 DEF OffersIn
    <3>2. x \in NewContent(C)
      BY <1>7, <2>2, <3>1
    <3>3. QED
      BY <3>1, <3>2 DEF OffersIn
  <2>3. QED
    BY <2>1, <2>2
<1>9. QED
  BY Zenon, <1>4, <1>5, <1>8 DEF C

\* More pairs offer more.
LEMMA GatheredGrows ==
  ASSUME NEW P, NEW Q, P \subseteq Q, NEW c, NEW t
  PROVE  /\ OffersIn(GatheredContent(P), c, t) => OffersIn(GatheredContent(Q), c, t)
         /\ OffersIn(NewContent(GatheredContent(P)), c, t) => OffersIn(NewContent(GatheredContent(Q)), c, t)
<1>1. ASSUME OffersIn(GatheredContent(P), c, t) PROVE OffersIn(GatheredContent(Q), c, t)
  <2>1. PICK p \in P : c = <<p.name, p.type, "">> /\ p.target = t
    BY Zenon, <1>1, GatheredOffers
  <2>2. p \in Q
    BY Zenon, <2>1
  <2>3. QED
    BY Zenon, <2>1, <2>2, GatheredOffers
<1>2. \A R : OffersIn(NewContent(GatheredContent(R)), c, t)
              <=> ~TooLong(c[1]) /\ OffersIn(GatheredContent(R), c, t)
  BY Zenon, GatheredOffers
<1>3. QED
  BY <1>1, <1>2

\* r with one resource of the kind that matters.
Alone(q, r, s, o) ==
  /\ o \in r[Primary(s)] /\ q[Primary(s)] = {o}
  /\ \A k \in Reads(s) \ {Primary(s)} : q[k] = r[k]

\* A source may see one resource alone.
LEMMA AloneHolds ==
  ASSUME NEW s \in SourceNames, NEW r, Holds(r, s), NEW o, NEW q, Alone(q, r, s, o)
  PROVE  Holds(q, s)
<1>1. Primary(s) \in Reads(s)
  BY DEF SourceNames, Primary, Reads, Informed
<1>2. IsFiniteSet({o}) /\ {o} \subseteq Stock(Primary(s))
  BY <1>1, FS_Singleton DEF Alone, Holds
<1>3. QED
  BY <1>2 DEF Alone, Holds

\* What a source makes of one resource it makes of all of them.
LEMMA ContentGrows ==
  ASSUME NEW s \in SourceNames, s # "mesh-service", NEW r, NEW o, NEW q, Alone(q, r, s, o),
         NEW c, NEW t, OffersIn(SourceContent(s, q), c, t)
  PROVE  OffersIn(SourceContent(s, r), c, t)
<1>1. \A C, D : C \subseteq D /\ OffersIn(C, c, t) => OffersIn(D, c, t)
  BY DEF OffersIn
<1>2. CASE s = "ingress"
  <2>1. o \in r["ingress"] /\ q["ingress"] = {o}
    BY <1>2 DEF Alone, Primary
  <2>2. TakenIngresses({o}) \subseteq TakenIngresses(r["ingress"])
    BY Zenon, <2>1 DEF TakenIngresses
  <2>3. SourceContent(s, q) \subseteq SourceContent(s, r)
    BY <1>2, <2>1, <2>2 DEF SourceContent
  <2>4. QED
    BY <1>1, <2>3
<1>3. CASE s = "gateway"
  <2>1. o \in r["gateway"] /\ q["gateway"] = {o}
    BY <1>3 DEF Alone, Primary
  <2>2. SourceContent(s, q) \subseteq SourceContent(s, r)
    BY <1>3, <2>1 DEF SourceContent
  <2>3. QED
    BY <1>1, <2>2
<1>4. CASE s = "istio-gateway"
  <2>1. /\ o \in r["istiogateway"] /\ q["istiogateway"] = {o}
        /\ q["service"] = r["service"] /\ q["ingress"] = r["ingress"]
    BY <1>4 DEF Alone, Primary, Reads, Informed, Live
  <2>2. {g \in q["istiogateway"] : Responsible(g.ann)} \subseteq {g \in r["istiogateway"] : Responsible(g.ann)}
    BY <2>1
  <2>3. SourceContent(s, q) \subseteq SourceContent(s, r)
    BY <1>4, <2>1, <2>2 DEF SourceContent
  <2>4. QED
    BY <1>1, <2>3
<1>5. CASE s = "istio-se"
  <2>1. o \in r["serviceentry"] /\ q["serviceentry"] = {o}
    BY <1>5 DEF Alone, Primary
  <2>2. \A l : LocatedIn({o}, l) \subseteq LocatedIn(r["serviceentry"], l)
    BY <2>1 DEF LocatedIn
  <2>3. SourceContent(s, q) \subseteq SourceContent(s, r)
    BY <1>5, <2>1, <2>2 DEF SourceContent
  <2>4. QED
    BY <1>1, <2>3
<1>6. CASE s = "node"
  <2>1. o \in r["node"] /\ q["node"] = {o}
    BY <1>6 DEF Alone, Primary
  <2> DEFINE P == UNION {NodePairs(n) : n \in {o}}
             Q == UNION {NodePairs(n) : n \in r["node"]}
  <2>2. P \subseteq Q
    BY <2>1
  <2>3. SourceContent(s, q) = GatheredContent(P) /\ SourceContent(s, r) = GatheredContent(Q)
    BY <1>6, <2>1 DEF SourceContent
  <2> HIDE DEF P, Q
  <2>4. QED
    BY <2>2, <2>3, GatheredGrows
<1>7. CASE s = "pod"
  <2>1. o \in r["pod"] /\ q["pod"] = {o} /\ q["node"] = r["node"]
    BY <1>7 DEF Alone, Primary, Reads, Informed
  <2>2. HostPods({o}) \subseteq HostPods(r["pod"])
    BY <2>1 DEF HostPods
  <2> DEFINE P == UNION {ToSet(PodPairs(p, r["node"])) : p \in HostPods({o})}
             Q == UNION {ToSet(PodPairs(p, r["node"])) : p \in HostPods(r["pod"])}
  <2>3. P \subseteq Q
    BY <2>2
  <2>4. SourceContent(s, q) = NewContent(GatheredContent(P)) /\ SourceContent(s, r) = NewContent(GatheredContent(Q))
    BY <1>7, <2>1 DEF SourceContent
  <2> HIDE DEF P, Q
  <2>5. QED
    BY <2>3, <2>4, GatheredGrows
<1>8. CASE s = "k8s"
  <2>1. o \in r["pod"] /\ q["pod"] = {o}
    BY <1>8 DEF Alone, Primary
  <2>2. AddressedPods({o}) \subseteq AddressedPods(r["pod"])
    BY <2>1 DEF AddressedPods
  <2> DEFINE P == {K8SPair(p) : p \in AddressedPods({o})}
             Q == {K8SPair(p) : p \in AddressedPods(r["pod"])}
  <2>3. P \subseteq Q
    BY <2>2
  <2>4. SourceContent(s, q) = NewContent(GatheredContent(P)) /\ SourceContent(s, r) = NewContent(GatheredContent(Q))
    BY <1>8, <2>1 DEF SourceContent
  <2> HIDE DEF P, Q
  <2>5. QED
    BY <2>3, <2>4, GatheredGrows
<1>9. QED
  BY <1>2, <1>3, <1>4, <1>5, <1>6, <1>7, <1>8 DEF SourceNames

-------------------------------------------------------------------------------
\* The records of the last run, when no other is due, are those that the chain
\* makes of one answer of each source.
Made(rs) ==
  /\ rs \in Seq(ResultOf(Listed)) /\ Len(rs) = Len(scenario.sources)
  /\ \A j \in Children : rs[j] \in Endpoints(scenario.sources[j], used[j])
  /\ Combined(rs).state = "ok" /\ listing = ToSet(Combined(rs).eps)

Covered == phase = "idle" /\ ~due => \E rs : Made(rs)

\* Every step keeps the listing the chain's work on answers to what was read.
LEMMA CoveredStep ==
  ASSUME Held, Covered, [Next]_vars
  PROVE  Covered'
<1>1. CASE Finish
  <2>1. /\ Len(results) = Len(scenario.sources) \/ ~Completed
        /\ UNCHANGED <<scenario, used>>
        /\ phase' = "idle" => Combined(results).state = "ok" /\ listing' = ToSet(Combined(results).eps)
    BY <1>1 DEF Finish
  <2>2. ASSUME phase' = "idle" PROVE \E rs : Made(rs)'
    <3>1. /\ results \in Seq(ResultOf(Listed))
          /\ \A j \in 1 .. Len(results) : results[j] \in Endpoints(scenario.sources[j], used[j])
      BY DEF Held, Answered
    <3>2. scenario.defaultTargets \in Seq(Target) /\ Children = 1 .. Len(scenario.sources)
      BY ScenarioType DEF Held, Cached
    <3>3. Combined(results) = Chain(results, scenario.defaultTargets, scenario.filter)
      BY DEF Combined
    <3>4. AllWell(results)
      BY <2>1, <2>2, <3>1, <3>2, <3>3, ChainType
    <3>5. Len(results) = Len(scenario.sources)
      BY <2>1, <3>4 DEF AllWell, Completed
    <3>6. PICK x : x = results
      OBVIOUS
    <3>7. Made(x)'
      BY <2>1, <2>2, <3>1, <3>2, <3>5, <3>6 DEF Made, Children, Combined
    <3>8. QED
      BY <3>7
  <2>3. QED
    BY <2>2 DEF Covered
<1>2. CASE ~Finish /\ phase' = "idle" /\ ~due'
  <2>1. phase = "idle" /\ ~due /\ UNCHANGED <<scenario, used, listing>>
    BY <1>2 DEF Next, vars, StartRun, ListSource, IntervalPasses, Restart, Deliver,
                CallHandler, ClusterChanges
  <2>2. PICK rs : Made(rs)
    BY <2>1 DEF Covered
  <2>3. Made(rs)'
    BY <2>1, <2>2 DEF Made, Children, Combined
  <2>4. QED
    BY <2>3 DEF Covered
<1>3. CASE ~(phase' = "idle" /\ ~due')
  BY <1>3 DEF Covered
<1>4. QED
  BY <1>1, <1>2, <1>3

\* T offers what S offers.
OffersToo(T, S) == \A c, t : Offers(S, c, t) => Offers(T, c, t)

\* What the chain offers for a single answer it offers for more.
LEMMA ChainGrows ==
  ASSUME NEW q \in ResultOf(Listed), NEW rs \in Seq(ResultOf(Listed)),
         NEW j \in DOMAIN rs, NEW D \in Seq(Target), NEW filter,
         NEW a, a = Chain(<<q>>, D, filter), a.state = "ok",
         NEW b, b = Chain(rs, D, filter), b.state = "ok",
         OffersToo(ToSet(rs[j].eps), ToSet(q.eps)),
         NEW k, NEW t, OffersAt(ToSet(a.eps), k, t)
  PROVE  OffersAt(ToSet(b.eps), k, t)
<1> DEFINE one == <<q>>
<1>1. one \in Seq(ResultOf(Listed)) /\ DOMAIN one = {1} /\ one[1] = q
  OBVIOUS
<1>2. a = Chain(one, D, filter)
  OBVIOUS
<1> HIDE DEF one
<1>3. AllOf(one) = ToSet(q.eps)
  BY <1>1 DEF AllOf
<1>4. /\ OffersAt(Defaulted(AllOf(one), D), k, t) /\ Kept(filter, SuitableType(t), t)
      /\ D # <<>> => AllOf(one) \subseteq Usable
  BY <1>1, <1>2, ChainOffers
<1>5. /\ D # <<>> => AllOf(rs) \subseteq Usable
      /\ OffersAt(Defaulted(AllOf(rs), D), k, t) /\ Kept(filter, SuitableType(t), t)
           => OffersAt(ToSet(b.eps), k, t)
  BY ChainOffers
<1>6. \A c, u : Offers(ToSet(rs[j].eps), c, u) => Offers(AllOf(rs), c, u)
  BY DEF Offers, AllOf
<1>7. \A c, u : Offers(AllOf(one), c, u) => Offers(AllOf(rs), c, u)
  BY <1>3, <1>6 DEF OffersToo
<1>8. \A c, u : OffersAt(AllOf(one), c, u) => OffersAt(AllOf(rs), c, u)
  <2> SUFFICES ASSUME NEW c, NEW u, OffersAt(AllOf(one), c, u) PROVE OffersAt(AllOf(rs), c, u)
    OBVIOUS
  <2>1. PICK e \in AllOf(one) : Place(e) = c /\ u \in ToSet(e.targets)
    BY DEF OffersAt
  <2>2. Offers(AllOf(one), Cell(e), u)
    BY <2>1 DEF Offers
  <2>3. PICK f \in AllOf(rs) : Cell(f) = Cell(e) /\ u \in ToSet(f.targets)
    BY <1>7, <2>2 DEF Offers
  <2>4. Place(f) = Place(e)
    BY <2>3 DEF Cell, Place
  <2>5. QED
    BY <2>1, <2>3, <2>4 DEF OffersAt
<1>9. OffersAt(Defaulted(AllOf(rs), D), k, t)
  <2>1. CASE D = <<>>
    BY <1>4, <1>8, <2>1 DEF Defaulted
  <2>2. CASE D # <<>>
    BY <1>4, <1>5, <1>8, <2>2, DefaultedOffers
  <2>3. QED
    BY <2>1, <2>2
<1>10. QED
  BY <1>4, <1>5, <1>9

\* An answer of a source: what one resource alone makes it say, it says.
LEMMA AloneAnswers ==
  ASSUME NEW s \in SourceNames, s # "mesh-service", NEW r, Holds(r, s), NEW o,
         NEW r1, Alone(r1, r, s, o), NEW p \in Endpoints(s, r), NEW q \in Endpoints(s, r1)
  PROVE  /\ q \in ResultOf(Listed) /\ (q.state # "ok" => q.eps = <<>>)
         /\ p.state = "ok" /\ q.state = "ok" => OffersToo(ToSet(p.eps), ToSet(q.eps))
<1>1. Holds(r1, s)
  BY AloneHolds
<1>2. q \in ResultOf(Listed) /\ Outcome(q, SourceWell(s, r1), SourceWrong(s), SourceContent(s, r1))
  BY <1>1, SourceAnswers
<1>3. Outcome(p, SourceWell(s, r), SourceWrong(s), SourceContent(s, r))
  BY SourceAnswers
<1>4. q.state # "ok" => q.eps = <<>>
  BY <1>2, Results DEF Outcome, SourceWrong
<1>5. ASSUME p.state = "ok", q.state = "ok" PROVE OffersToo(ToSet(p.eps), ToSet(q.eps))
  <2>1. SourceWrong(s).state # "ok"
    BY Results DEF SourceWrong
  <2>2. ContentOf(q.eps) = SourceContent(s, r1) /\ ContentOf(p.eps) = SourceContent(s, r)
    BY <1>2, <1>3, <1>5, <2>1 DEF Outcome
  <2>3. SUFFICES ASSUME NEW c, NEW u, Offers(ToSet(q.eps), c, u) PROVE Offers(ToSet(p.eps), c, u)
    BY DEF OffersToo
  <2>4. OffersIn(SourceContent(s, r1), c, u)
    BY <2>2, <2>3, OffersContent
  <2>5. OffersIn(SourceContent(s, r), c, u)
    BY <2>4, ContentGrows
  <2>6. QED
    BY <2>2, <2>5, OffersContent
<1>6. QED
  BY <1>2, <1>4, <1>5

\* What a service says does not hang on the other services.
LEMMA SameService ==
  ASSUME NEW svc, NEW u, NEW v,
         u.endpoints = v.endpoints, u.pod = v.pod, u.node = v.node
  PROVE  MeshEndpoints(svc, u) = MeshEndpoints(svc, v)
<1>1. PodsOf(svc, u) = PodsOf(svc, v) /\ Nodes(u) = Nodes(v)
  BY DEF PodsOf, Nodes
<1>2. PublishedAddresses(svc, u) = PublishedAddresses(svc, v)
  BY DEF PublishedAddresses
<1>3. \A a : PodOf(svc, a, u) = PodOf(svc, a, v) /\ PodFor(svc, a, u) = PodFor(svc, a, v)
  BY <1>1 DEF PodOf, PodFor
<1>4. PodAddresses(svc, u) = PodAddresses(svc, v)
  BY <1>2, <1>3 DEF PodAddresses
<1>5. \A p : MissesNode(svc, p, u) = MissesNode(svc, p, v)
  BY <1>1 DEF MissesNode
<1>6. \A p, ip : AddressPairs(svc, p, ip, u) = AddressPairs(svc, p, ip, v)
  <2>1. \A p, ip : HeadlessTargets(svc, p, ip, u) = HeadlessTargets(svc, p, ip, v)
    BY <1>1 DEF HeadlessTargets
  <2>2. QED
    BY <2>1 DEF AddressPairs
<1> DEFINE ttl == GetTTLFromAnnotations(svc.ann)
           adr(w) == Only(PublishedAddresses(svc, w), PodAddresses(svc, w))
           f(w) == [i \in DOMAIN adr(w) |-> AddressPairs(svc, PodFor(svc, adr(w)[i], w), adr(w)[i].ip, w)]
           walk(w) == Gathered(FlattenSeq(f(w)))
           news(w) == [i \in DOMAIN walk(w) |-> EntryEndpoint(walk(w)[i], ttl)]
<1>7. ExtractHeadlessEndpoints(svc, u) = ExtractHeadlessEndpoints(svc, v)
  <2>1. \A w : ExtractHeadlessEndpoints(svc, w)
                 = IF \E a \in ToSet(adr(w)) : MissesNode(svc, PodFor(svc, a, w), w) THEN <<>>
                   ELSE NotNil(news(w))
    BY DEF ExtractHeadlessEndpoints, PodFor, PodAddresses, EntryEndpoint
  <2>2. adr(u) = adr(v)
    BY <1>2, <1>4
  <2> HIDE DEF adr
  <2>3. f(u) = f(v)
    BY <1>3, <1>6, <2>2
  <2> HIDE DEF f
  <2>4. walk(u) = walk(v)
    BY <2>3
  <2> HIDE DEF walk
  <2>5. news(u) = news(v)
    BY <2>4
  <2> HIDE DEF news
  <2>6. (\E a \in ToSet(adr(u)) : MissesNode(svc, PodFor(svc, a, u), u))
          <=> (\E a \in ToSet(adr(v)) : MissesNode(svc, PodFor(svc, a, v), v))
    BY <1>3, <1>5, <2>2
  <2>7. QED
    BY <2>1, <2>5, <2>6
<1>8. TargetNodes(svc, u) = TargetNodes(svc, v)
  <2>1. LocalPods(svc, u) = LocalPods(svc, v)
    BY SamePods
  <2>2. \A ps : NodesOf(ps, u) = NodesOf(ps, v)
    BY <1>1 DEF NodesOf
  <2>3. QED
    BY <2>1, <2>2 DEF TargetNodes
<1>9. ExtractNodePortTargets(svc, u) = ExtractNodePortTargets(svc, v)
  BY <1>8 DEF ExtractNodePortTargets
<1>10. GenerateEndpoints(svc, u) = GenerateEndpoints(svc, v)
  BY <1>7, <1>9 DEF GenerateEndpoints
<1>11. QED
  BY <1>10 DEF MeshEndpoints

\* An answer of the source of services: some answer there is to each service
\* alone, in the same order of pods and nodes, says nothing more of it.
LEMMA AloneService ==
  ASSUME NEW r, Holds(r, "mesh-service"), Distinct(r["service"]), NEW o,
         NEW r1, Alone(r1, r, "mesh-service", o), NEW p \in Endpoints("mesh-service", r)
  PROVE  \E q \in Endpoints("mesh-service", r1) :
           q \in ResultOf(Listed) /\ q.state = "ok" /\ OffersToo(ToSet(p.eps), ToSet(q.eps))
<1>1. Holds(r1, "mesh-service")
  <2>1. "mesh-service" \in SourceNames
    BY DEF SourceNames
  <2>2. QED
    BY <2>1, AloneHolds
<1>2. \A x : Holds(x, "mesh-service") => \A k \in MeshKinds : IsFiniteSet(x[k]) /\ x[k] \subseteq Stock(k)
  BY DEF Holds, Reads, Informed, Live, MeshKinds
<1>3. /\ o \in r["service"] /\ r1["service"] = {o}
      /\ r1["endpoints"] = r["endpoints"] /\ r1["pod"] = r["pod"] /\ r1["node"] = r["node"]
  BY DEF Alone, Primary, Reads, Informed
<1>4. PICK l \in Walks(r["service"]) : \E m \in Walks(r["pod"]), n \in Walks(r["node"]) :
        p \in MeshServiceSource([service |-> l, endpoints |-> SetToSeq(r["endpoints"]),
                                 pod |-> m, node |-> n])
  BY SMTT(40) DEF Endpoints
<1>5. PICK m \in Walks(r["pod"]), n \in Walks(r["node"]) :
        p \in MeshServiceSource([service |-> l, endpoints |-> SetToSeq(r["endpoints"]),
                                 pod |-> m, node |-> n])
  BY <1>4
<1> DEFINE v == [service |-> l, endpoints |-> SetToSeq(r["endpoints"]), pod |-> m, node |-> n]
           l1 == SetToSeq({o})
           v1 == [service |-> l1, endpoints |-> SetToSeq(r1["endpoints"]), pod |-> m, node |-> n]
           q == Ok(SortAll(MergeAll(SortedByName(AllServices(v1)))))
<1>6. l1 \in Walks(r1["service"]) /\ m \in Walks(r1["pod"]) /\ n \in Walks(r1["node"])
  BY <1>3, FS_Singleton, SomeWalk
<1>7. /\ v = [service |-> l, endpoints |-> SetToSeq(r["endpoints"]), pod |-> m, node |-> n]
      /\ v1 = [service |-> l1, endpoints |-> SetToSeq(r1["endpoints"]), pod |-> m, node |-> n]
      /\ p \in MeshServiceSource(v)
  BY <1>5
<1>8. q \in MeshServiceSource(v1)
  BY DEF MeshServiceSource
<1> HIDE DEF v, l1, v1, q
<1>9. q \in Endpoints("mesh-service", r1)
  <2> DEFINE W(a, b, c) == MeshServiceSource([service |-> a, endpoints |-> SetToSeq(r1["endpoints"]),
                                              pod |-> b, node |-> c])
  <2> DEFINE All == {W(a, b, c) : a \in Walks(r1["service"]), b \in Walks(r1["pod"]), c \in Walks(r1["node"])}
  <2>1. Endpoints("mesh-service", r1) = UNION All
    BY SMTT(40) DEF Endpoints
  <2>2. q \in W(l1, m, n)
    BY <1>7, <1>8
  <2> HIDE DEF W
  <2>3. W(l1, m, n) \in All
    BY <1>6
  <2> HIDE DEF All
  <2>4. QED
    BY <2>1, <2>2, <2>3
<1>10. Typed(v) /\ ToSet(v.service) = r["service"] /\ Typed(v1) /\ ToSet(v1.service) = {o}
  <2>1. Typed(v) /\ ToSet(v.service) = r["service"]
    BY <1>2, <1>7, ViewType
  <2>2. \A k \in MeshKinds : IsFiniteSet(r1[k]) /\ r1[k] \subseteq Stock(k)
    BY <1>1, <1>2
  <2>3. Typed(v1) /\ ToSet(v1.service) = r1["service"]
    BY <1>6, <1>7, <2>2, ViewType
  <2>4. QED
    BY <1>3, <2>1, <2>3
<1>11. ContentOf(p.eps) = Unite(UNION {ContentOf(MeshEndpoints(svc, v)) : svc \in r["service"]})
  BY <1>7, <1>10, MeshSourceType
<1>12. /\ q \in ResultOf(Fit) /\ q.state = "ok"
       /\ ContentOf(q.eps) = Unite(UNION {ContentOf(MeshEndpoints(svc, v1)) : svc \in {o}})
  <2>1. Distinct(ToSet(v1.service))
    BY <1>10 DEF Distinct
  <2>2. q \in MeshServiceSource(v1) /\ Typed(v1)
    BY <1>8, <1>10
  <2>3. /\ q \in ResultOf(Fit) /\ q.state = "ok"
        /\ ContentOf(q.eps) = Unite(UNION {ContentOf(MeshEndpoints(svc, v1)) : svc \in ToSet(v1.service)})
    BY <2>1, <2>2, MeshSourceType
  <2>4. QED
    BY <1>10, <2>3
<1>13. MeshEndpoints(o, v1) = MeshEndpoints(o, v)
  <2>1. v1.endpoints = v.endpoints /\ v1.pod = v.pod /\ v1.node = v.node
    BY <1>3, <1>7
  <2>2. QED
    BY <2>1, SameService
<1> DEFINE C == UNION {ContentOf(MeshEndpoints(svc, v1)) : svc \in {o}}
           E == UNION {ContentOf(MeshEndpoints(svc, v)) : svc \in r["service"]}
<1>14. C \subseteq E
  BY <1>3, <1>13
<1>15. ContentOf(q.eps) = Unite(C) /\ ContentOf(p.eps) = Unite(E)
  BY <1>11, <1>12
<1> HIDE DEF C, E
<1>16. OffersToo(ToSet(p.eps), ToSet(q.eps))
  <2> SUFFICES ASSUME NEW c, NEW u, Offers(ToSet(q.eps), c, u) PROVE Offers(ToSet(p.eps), c, u)
    BY DEF OffersToo
  <2>1. OffersIn(C, c, u)
    BY <1>15, OffersContent, UniteOffers
  <2>2. OffersIn(E, c, u)
    BY <1>14, <2>1 DEF OffersIn
  <2>3. QED
    BY <1>15, <2>2, OffersContent, UniteOffers
<1>17. q \in ResultOf(Listed)
  BY <1>12, FitIsListed
<1>18. QED
  BY <1>9, <1>12, <1>16, <1>17

\* What the chain makes of an answer alone is listed, if the answer of the source
\* the listing is made of offers as much.
LEMMA AloneListed ==
  ASSUME Held, NEW rs, Made(rs), NEW i \in Children, NEW q \in ResultOf(Listed),
         q.state # "ok" => q.eps = <<>>,
         rs[i].state = "ok" /\ q.state = "ok" => OffersToo(ToSet(rs[i].eps), ToSet(q.eps))
  PROVE  InListing(q)
<1> SUFFICES ASSUME NEW e \in ToSet(Combined(<<q>>).eps), NEW t \in ToSet(e.targets)
             PROVE  \E f \in listing : Place(f) = Place(e) /\ t \in ToSet(f.targets)
  BY DEF InListing
<1>1. scenario.defaultTargets \in Seq(Target) /\ Children = 1 .. Len(scenario.sources)
  BY ScenarioType DEF Held, Cached
<1>2. /\ rs \in Seq(ResultOf(Listed)) /\ i \in DOMAIN rs
      /\ Combined(rs).state = "ok" /\ listing = ToSet(Combined(rs).eps)
  BY <1>1 DEF Made
<1> DEFINE D == scenario.defaultTargets
           filter == scenario.filter
           one == <<q>>
           a == Chain(one, D, filter)
           b == Chain(rs, D, filter)
<1>3. D \in Seq(Target) /\ Combined(<<q>>) = a /\ Combined(rs) = b
  BY <1>1 DEF Combined
<1>4. a = Chain(one, D, filter) /\ a = Chain(<<q>>, D, filter) /\ b = Chain(rs, D, filter)
  OBVIOUS
<1>5. one \in Seq(ResultOf(Listed)) /\ Empty(one) /\ one[1] = q /\ 1 \in DOMAIN one
  BY DEF Empty
<1> HIDE DEF D, filter, one, a, b
<1>6. a.state = "ok"
  <2>1. a.state # "ok" => a.eps = <<>>
    BY <1>3, <1>4, <1>5, ChainType
  <2>2. QED
    BY <1>3, <2>1 DEF ToSet
<1>7. b.state = "ok"
  BY <1>2, <1>3
<1>8. q.state = "ok" /\ rs[i].state = "ok"
  <2>1. AllWell(one)
    BY <1>3, <1>4, <1>5, <1>6, ChainType
  <2>2. AllWell(rs)
    BY <1>2, <1>3, <1>4, <1>7, ChainType
  <2>3. QED
    BY <1>2, <1>5, <2>1, <2>2 DEF AllWell
<1>9. OffersAt(ToSet(a.eps), Place(e), t)
  BY <1>3 DEF OffersAt
<1>10. OffersAt(ToSet(b.eps), Place(e), t)
  BY <1>2, <1>3, <1>4, <1>6, <1>7, <1>8, <1>9, ChainGrows
<1>11. QED
  BY <1>2, <1>3, <1>10 DEF OffersAt

\* What a listing offers, compared with what each resource alone would.
LEMMA CoveredSuffices ==
  ASSUME NamesAreUnique, Held, Covered
  PROVE  NothingLost
<1> SUFFICES ASSUME phase = "idle", ~due, NEW i \in Children,
                    NEW o \in used[i][Primary(scenario.sources[i])]
             PROVE  LET s == scenario.sources[i]
                        alone == Endpoints(s, [used[i] EXCEPT ![Primary(s)] = {o}])
                    IN  IF s = "mesh-service" THEN \E r \in alone : InListing(r)
                        ELSE \A r \in alone : InListing(r)
  BY Zenon DEF NothingLost
<1> DEFINE s == scenario.sources[i]
           r == used[i]
           r1 == [r EXCEPT ![Primary(s)] = {o}]
<1>1. s \in SourceNames /\ Children = 1 .. Len(scenario.sources)
  BY ScenarioType DEF Held, Cached
<1>2. Seen(r, s)
  BY DEF Held, Cached
<1>3. Primary(s) \in Reads(s)
  BY <1>1 DEF SourceNames, Primary, Reads, Informed
<1>4. Alone(r1, r, s, o)
  BY <1>2, <1>3 DEF Alone, Seen
<1>5. PICK rs : Made(rs)
  BY DEF Covered
<1>6. rs[i] \in Endpoints(s, r)
  BY <1>1, <1>5 DEF Made
<1> HIDE DEF s, r, r1
<1>7. Holds(r, s)
  BY <1>1, <1>2, SeenHolds
<1>8. CASE s # "mesh-service"
  <2>1. ASSUME NEW q \in Endpoints(s, r1) PROVE InListing(q)
    <3>1. /\ q \in ResultOf(Listed) /\ (q.state # "ok" => q.eps = <<>>)
          /\ rs[i].state = "ok" /\ q.state = "ok" => OffersToo(ToSet(rs[i].eps), ToSet(q.eps))
      BY <1>1, <1>4, <1>6, <1>7, <1>8, AloneAnswers
    <3>2. QED
      BY <1>5, <3>1, AloneListed
  <2>2. QED
    BY <1>8, <2>1 DEF s, r, r1
<1>9. CASE s = "mesh-service"
  <2>1. Distinct(r["service"])
    BY <1>2, <1>9, NamesAreUnique, SeenDistinct
  <2>2. /\ Holds(r, "mesh-service") /\ Alone(r1, r, "mesh-service", o)
        /\ rs[i] \in Endpoints("mesh-service", r)
    BY <1>4, <1>6, <1>7, <1>9
  <2>3. PICK q \in Endpoints("mesh-service", r1) :
          q \in ResultOf(Listed) /\ q.state = "ok" /\ OffersToo(ToSet(rs[i].eps), ToSet(q.eps))
    BY <2>1, <2>2, AloneService
  <2>4. InListing(q)
    BY <1>5, <2>3, AloneListed
  <2>5. \E x \in Endpoints(s, r1) : InListing(x)
    BY <1>9, <2>4
  <2>6. QED
    BY <1>9, <2>5 DEF s, r, r1
<1>10. QED
  BY <1>8, <1>9

\* What a resource alone would make a source list is in the listing beside all
\* others: neither the merge of services, nor gathering in maps, default targets,
\* deduplication or the target filter lets one resource hide another
\* (meshservice.go:208, dedupsource.go:47, multisource.go:40).
THEOREM NothingIsLost ==
  ASSUME NamesAreUnique
  PROVE  Spec => []NothingLost
<1>1. Init => Covered
  BY DEF Init, Covered
<1>2. Held /\ Covered /\ [Next]_vars => Covered'
  BY CoveredStep
<1>3. Held /\ Covered => NothingLost
  BY CoveredSuffices, NamesAreUnique
<1>4. QED
  BY <1>1, <1>2, <1>3, InformersHeld, PTL DEF Spec
==============================================================================
