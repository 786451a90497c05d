------------------------ MODULE CustomResourcesProof -------------------------
(***************************************************************************)
(* Proofs about CustomResources: what the status of a resource says, for   *)
(* every number of resources, processes, changes and faults.               *)
(***************************************************************************)
EXTENDS CustomResources, FiniteSetTheorems, TLAPS

Item == [name : Objects, object : ObjectType]
Labelled == {SetResourceLabel(o, ep) : o \in Objects, ep \in UNION Specs}

Types ==
  /\ store \in [Objects -> ObjectType]
  /\ run \in [Processes -> [items : Seq(Item), out : SUBSET Labelled, busy : BOOLEAN]]
  /\ changes \in 0 .. MaxChanges
  /\ faults \in 0 .. MaxFaults

\* Every change of the spec and every new resource uses up one of the changes,
\* and no status is ahead of its resource.
Counted(r) == r.uid <= changes /\ r.generation <= changes /\ r.observed <= r.generation

\* A listed resource is at most as new as the one in the API server; if they
\* have one version, they are the same.
ListedEarlier(i) ==
  /\ i.object.version <= store[i.name].version
  /\ i.object.version = store[i.name].version => i.object = store[i.name]

\* It was chosen by the filters, and its generation is noted down as listed.
ListedWell(i) ==
  /\ i.object.there /\ i.object.selected
  /\ <<i.name, i.object.uid, i.object.generation>> \in seen
  /\ i.object.observed <= i.object.generation

ItemsAreCopies ==
  \A p \in Processes : \A j \in 1 .. Len(run[p].items) :
    ListedEarlier(run[p].items[j]) /\ ListedWell(run[p].items[j])

Inv ==
  /\ Types
  /\ \A o \in Objects : Counted(store[o])
  /\ ItemsAreCopies
  /\ ObservedWasListed

-------------------------------------------------------------------------------
\* A list with elements in A is one with elements in B.
LEMMA LargerRange ==
  ASSUME NEW A, NEW B, A \subseteq B, NEW n \in Nat, NEW f \in [1 .. n -> A]
  PROVE  f \in Seq(B)
<1>1. f \in [1 .. n -> B]
  OBVIOUS
<1>2. QED
  BY <1>1

\* The elements of a list.
LEMMA ElementOf ==
  ASSUME NEW A, NEW n \in Nat, NEW f \in [1 .. n -> A], NEW k \in 1 .. Len(f)
  PROVE  f[k] \in A
<1>1. f \in Seq(A)
  OBVIOUS
<1>2. Len(f) = n
  BY <1>1
<1>3. QED
  BY <1>2

\* A finite set can be put into a sequence.
LEMMA SetToSeqElements ==
  ASSUME NEW S, IsFiniteSet(S)
  PROVE  SetToSeq(S) \in [1 .. Cardinality(S) -> S] /\ Cardinality(S) \in Nat
<1>1. PICK n \in Nat : ExistsBijection(1 .. n, S)
  BY FS_NatBijection
<1>2. Cardinality(S) = n
  BY <1>1, FS_CountingElements
<1>3. \E f \in [1 .. Cardinality(S) -> S] : IsInjective(f)
  BY <1>1, <1>2 DEF ExistsBijection, Bijection, Injection
<1>4. SetToSeq(S) \in [1 .. Cardinality(S) -> S]
  BY <1>3 DEF SetToSeq
<1>5. QED
  BY <1>1, <1>2, <1>4

\* What a call of Endpoints lists: copies of selected resources.
LEMMA Listed ==
  ASSUME NEW listed \in SUBSET Objects
  PROVE  LET S == {[name |-> o, object |-> store[o]] : o \in listed}
         IN  SetToSeq(S) \in [1 .. Cardinality(S) -> S] /\ Cardinality(S) \in Nat
<1> DEFINE S == {[name |-> o, object |-> store[o]] : o \in listed}
<1>1. IsFiniteSet(listed)
  BY CustomResourcesAssumption, FS_Subset
<1>2. IsFiniteSet(S)
  <2> DEFINE f == [o \in listed |-> [name |-> o, object |-> store[o]]]
  <2>1. f \in Surjection(listed, S)
    BY DEF Surjection
  <2>2. QED
    BY <1>1, <2>1, FS_Surjection DEF ExistsSurjection
<1>3. QED
  BY <1>2, SetToSeqElements

\* Endpoints of a spec are labelled with their resource.
LEMMA CRDEndpointsType ==
  ASSUME NEW o \in Objects, NEW spec \in Specs \cup {{}}
  PROVE  CRDEndpoints(o, spec) \in SUBSET Labelled
BY DEF CRDEndpoints, Labelled

\* Before the first call there are no copies.
LEMMA InitInv == Init => Inv
<1> SUFFICES ASSUME Init PROVE Inv
  OBVIOUS
<1> USE CustomResourcesAssumption DEF Init
<1>1. Absent \in ObjectType
  BY DEF Absent, ObjectType
<1>2. Idle \in [items : Seq(Item), out : SUBSET Labelled, busy : BOOLEAN]
  BY DEF Idle
<1>3. Types
  BY <1>1, <1>2 DEF Types
<1>4. \A o \in Objects : Counted(store[o])
  BY DEF Counted, Absent
<1>5. ItemsAreCopies /\ ObservedWasListed
  BY DEF ItemsAreCopies, ObservedWasListed, Idle, Absent
<1>6. QED
  BY <1>3, <1>4, <1>5 DEF Inv

-------------------------------------------------------------------------------
\* What the steps of a call find at the head of its list.
LEMMA HeadItem ==
  ASSUME Inv, NEW p \in Processes, run[p].items # <<>>
  PROVE  /\ Head(run[p].items) \in Item
         /\ Tail(run[p].items) \in Seq(Item)
         /\ ListedEarlier(Head(run[p].items)) /\ ListedWell(Head(run[p].items))
         /\ \A j \in 1 .. Len(Tail(run[p].items)) :
              Tail(run[p].items)[j] = run[p].items[j + 1]
              /\ j + 1 \in 1 .. Len(run[p].items)
<1>1. run[p].items \in Seq(Item)
  BY DEF Inv, Types
<1>2. Head(run[p].items) = run[p].items[1] /\ 1 \in 1 .. Len(run[p].items)
  BY <1>1
<1>3. ListedEarlier(run[p].items[1]) /\ ListedWell(run[p].items[1])
  BY <1>2 DEF Inv, ItemsAreCopies
<1>4. QED
  BY <1>1, <1>2, <1>3

\* One resource changes, and becomes one of the right type.
LEMMA Rewritten ==
  ASSUME Types, NEW o \in Objects, NEW r \in ObjectType, store' = [store EXCEPT ![o] = r]
  PROVE  /\ store' \in [Objects -> ObjectType]
         /\ store'[o] = r
         /\ \A x \in Objects \ {o} : store'[x] = store[x]
BY DEF Types

\* The resource after a write of its status ...
StatusOf(o, object) == [store[o] EXCEPT !.version = @ + 1, !.observed = object.generation]

\* The resource with the status of a copy written to it (UpdateStatus).
LEMMA StatusWritten ==
  ASSUME Types, NEW o \in Objects, NEW object \in ObjectType, UpdateStatus(o, object)
  PROVE  /\ StatusOf(o, object) \in ObjectType
         /\ store' = [store EXCEPT ![o] = StatusOf(o, object)]
<1>1. store[o] \in ObjectType
  BY DEF Types
<1>2. store[o].version + 1 \in Nat /\ object.generation \in 0 .. MaxChanges
  BY <1>1 DEF ObjectType
<1>3. StatusOf(o, object) \in ObjectType
  BY <1>1, <1>2 DEF StatusOf, ObjectType
<1>4. QED
  BY <1>1, <1>3 DEF Types, UpdateStatus, StatusOf

\* ... after a change by a user ...
EditOf(o, spec) ==
  [store[o] EXCEPT !.spec = spec, !.version = @ + 1, !.generation = @ + 1]

\* An edit gives a resource a generation and a version.
LEMMA Edited ==
  ASSUME Inv, NEW o \in Objects, Edit(o)
  PROVE  \E spec \in Specs : /\ EditOf(o, spec) \in ObjectType
                             /\ store' = [store EXCEPT ![o] = EditOf(o, spec)]
<1>1. store[o] \in ObjectType
  BY DEF Inv, Types
<1>2. store[o].generation + 1 \in 0 .. MaxChanges
  BY <1>1, CustomResourcesAssumption DEF Inv, Types, Counted, Edit, Changes, ObjectType
<1>3. PICK spec \in Specs :
        store' = [store EXCEPT ![o].spec = spec, ![o].version = @ + 1, ![o].generation = @ + 1]
  BY DEF Edit
<1>4. EditOf(o, spec) \in ObjectType
  <2>1. store[o].version + 1 \in Nat
    BY <1>1 DEF ObjectType
  <2>2. QED
    BY <1>1, <1>2, <2>1 DEF EditOf, ObjectType
<1>5. store' = [store EXCEPT ![o] = EditOf(o, spec)]
  BY <1>1, <1>3 DEF EditOf, Inv, Types
<1>6. QED
  BY <1>4, <1>5

AnnotationOf(o) == [store[o] EXCEPT !.selected = ~@, !.version = @ + 1]

\* An annotation gives a resource a version, no generation.
LEMMA Annotated ==
  ASSUME Types, NEW o \in Objects, Annotate(o)
  PROVE  /\ AnnotationOf(o) \in ObjectType
         /\ store' = [store EXCEPT ![o] = AnnotationOf(o)]
<1>1. store[o] \in ObjectType
  BY DEF Types
<1>2. AnnotationOf(o) \in ObjectType
  <2>1. store[o].version + 1 \in Nat /\ (~store[o].selected) \in BOOLEAN
    BY <1>1 DEF ObjectType
  <2>2. QED
    BY <1>1, <2>1 DEF AnnotationOf, ObjectType
<1>3. QED
  BY <1>1, <1>2 DEF Types, Annotate, AnnotationOf

\* ... and when there is none any more.
RemovalOf(o) == [Absent EXCEPT !.uid = store[o].uid, !.version = store[o].version + 1]

\* A deletion is a new version, and the uid is not used again.
LEMMA Deleted ==
  ASSUME Types, NEW o \in Objects, Delete(o)
  PROVE  /\ RemovalOf(o) \in ObjectType
         /\ store' = [store EXCEPT ![o] = RemovalOf(o)]
<1>1. store[o] \in ObjectType
  BY DEF Types
<1>2. RemovalOf(o) \in ObjectType
  <2>1. Absent \in ObjectType
    BY CustomResourcesAssumption DEF Absent, ObjectType
  <2>2. store[o].version + 1 \in Nat /\ store[o].uid \in 0 .. MaxChanges
    BY <1>1 DEF ObjectType
  <2>3. QED
    BY <2>1, <2>2 DEF RemovalOf, ObjectType
<1>3. QED
  BY <1>2 DEF Delete, RemovalOf

\* Every step keeps the types.
LEMMA TypesStep == Inv /\ [Next]_vars => Types'
<1> SUFFICES ASSUME Inv, [Next]_vars PROVE Types'
  OBVIOUS
<1> USE CustomResourcesAssumption
<1>0. Types
  BY DEF Inv
<1>1. ASSUME NEW p \in Processes, List(p) PROVE Types'
  <2> DEFINE listed == FilterByAnnotations({o \in Objects : store[o].there})
             S == {[name |-> o, object |-> store[o]] : o \in listed}
  <2>1. listed \in SUBSET Objects
    BY DEF FilterByAnnotations
  <2>2. S \subseteq Item
    <3>1. ASSUME NEW o \in listed PROVE [name |-> o, object |-> store[o]] \in Item
      BY <1>0, <2>1 DEF Types, Item
    <3>2. QED
      BY <3>1
  <2>3. SetToSeq(S) \in Seq(Item)
    <3>1. SetToSeq(S) \in [1 .. Cardinality(S) -> S] /\ Cardinality(S) \in Nat
      BY <2>1, Listed
    <3>2. QED
      BY <2>2, <3>1, LargerRange
  <2>4. run' = [run EXCEPT ![p] = [items |-> SetToSeq(S), out |-> {}, busy |-> TRUE]]
    BY <1>1 DEF List
  <2>5. QED
    BY <1>0, <1>1, <2>3, <2>4 DEF Types, List
<1>2. ASSUME NEW p \in Processes, NextItem(p) PROVE Types'
  <2> DEFINE o == Head(run[p].items).name
             object == Head(run[p].items).object
  <2>1. o \in Objects /\ object \in ObjectType /\ Tail(run[p].items) \in Seq(Item)
    BY <1>2, HeadItem DEF NextItem, Item
  <2>2. store' \in [Objects -> ObjectType]
    <3>1. CASE UpdateStatus(o, object)
      BY <1>0, <2>1, <3>1, StatusWritten, Rewritten
    <3>2. CASE UNCHANGED store
      BY <1>0, <3>2 DEF Types
    <3>3. QED
      BY <1>2, <3>1, <3>2 DEF NextItem
  <2>3. CRDEndpoints(o, object.spec) \in SUBSET Labelled
    BY <2>1, CRDEndpointsType DEF ObjectType
  <2>4. run' \in [Processes -> [items : Seq(Item), out : SUBSET Labelled, busy : BOOLEAN]]
    <3>1. run' = [run EXCEPT ![p].items = Tail(@), ![p].out = @ \cup CRDEndpoints(o, object.spec)]
      BY <1>2 DEF NextItem
    <3>2. QED
      BY <1>0, <2>1, <2>3, <3>1 DEF Types
  <2>5. changes' = changes /\ faults' \in 0 .. MaxFaults
    BY <1>0, <1>2 DEF NextItem, Types
  <2>6. QED
    BY <1>0, <2>2, <2>4, <2>5 DEF Types
<1>3. ASSUME NEW p \in Processes, Return(p) \/ Crash(p) PROVE Types'
  <2>1. Idle \in [items : Seq(Item), out : SUBSET Labelled, busy : BOOLEAN]
    BY DEF Idle
  <2>2. run' = [run EXCEPT ![p] = Idle]
    BY <1>3 DEF Return, Crash
  <2>3. run' \in [Processes -> [items : Seq(Item), out : SUBSET Labelled, busy : BOOLEAN]]
    BY <1>0, <2>1, <2>2 DEF Types
  <2>4. store' = store /\ changes' = changes /\ faults' \in 0 .. MaxFaults
    BY <1>0, <1>3 DEF Types, Return, Crash
  <2>5. QED
    BY <1>0, <2>3, <2>4 DEF Types
<1>4. ASSUME NEW o \in Objects, Create(o) PROVE Types'
  <2>1. store[o].uid + 1 \in 0 .. MaxChanges /\ 1 \in 0 .. MaxChanges
    BY <1>0, <1>4 DEF Inv, Types, Counted, Create, Changes, ObjectType
  <2>2. store' \in [Objects -> ObjectType]
    BY <1>0, <1>4, <2>1 DEF Types, Create, ObjectType
  <2>3. QED
    BY <1>0, <1>4, <2>2 DEF Types, Create, Changes
<1>5. ASSUME NEW o \in Objects, Edit(o) PROVE Types'
  <2>1. store' \in [Objects -> ObjectType]
    BY <1>0, <1>5, Edited, Rewritten
  <2>2. QED
    BY <1>0, <1>5, <2>1 DEF Types, Edit, Changes
<1>6. ASSUME NEW o \in Objects, Annotate(o) \/ Delete(o) PROVE Types'
  <2>1. store' \in [Objects -> ObjectType]
    BY <1>0, <1>6, Annotated, Deleted, Rewritten
  <2>2. QED
    BY <1>0, <1>6, <2>1 DEF Types, Annotate, Delete, Changes
<1>7. CASE UNCHANGED vars
  BY <1>0, <1>7 DEF Types, vars
<1>8. QED
  BY <1>1, <1>2, <1>3, <1>4, <1>5, <1>6, <1>7 DEF Next

-------------------------------------------------------------------------------
\* A write that is accepted is one of the resource as it stands: the status
\* gets the present generation, which was listed.
Written(o) ==
  /\ store[o].there /\ store[o].selected
  /\ <<o, store[o].uid, store[o].generation>> \in seen
  /\ store[o].observed < store[o].generation
  /\ store'[o].uid = store[o].uid
  /\ store'[o].observed = store[o].generation

\* All that a step may do to a resource.
ResourceStep(o) ==
  \/ store'[o] = store[o]
  \/ /\ store'[o].version > store[o].version
     /\ \/ store'[o].observed = 0
        \/ store'[o].observed = store[o].observed /\ store'[o].uid = store[o].uid
        \/ Written(o)

\* A write of a status leaves resources as they are or gives them a version.
LEMMA NextItemStep ==
  ASSUME Inv, NEW p \in Processes, NextItem(p), NEW x \in Objects
  PROVE  ResourceStep(x) /\ Counted(store[x])'
<1> DEFINE o == Head(run[p].items).name
           object == Head(run[p].items).object
<1>1. /\ o \in Objects /\ object \in ObjectType
      /\ ListedEarlier(Head(run[p].items)) /\ ListedWell(Head(run[p].items))
  BY HeadItem DEF NextItem, Item
<1>2. store[x] \in ObjectType /\ Counted(store[x]) /\ changes' = changes
  BY DEF Inv, Types, NextItem
<1>3. CASE store' = store
  BY <1>2, <1>3 DEF ResourceStep, Counted
<1>4. CASE NeedsStatus(object) /\ Accepts(o, object) /\ UpdateStatus(o, object)
  <2>1. store[o] = object /\ object.there
    BY <1>1, <1>4 DEF Accepts, ListedEarlier, ListedWell
  <2>2. /\ store'[o] = StatusOf(o, object)
        /\ \A y \in Objects \ {o} : store'[y] = store[y]
    BY <1>1, <1>4, StatusWritten, Rewritten DEF Inv
  <2>3. /\ StatusOf(o, object).uid = object.uid
        /\ StatusOf(o, object).generation = object.generation
        /\ StatusOf(o, object).version = object.version + 1
        /\ StatusOf(o, object).observed = object.generation
    BY <1>1, <2>1 DEF StatusOf, ObjectType
  <2>4. object.version \in Nat /\ object.observed < object.generation
    BY <1>1, <1>4 DEF ObjectType, NeedsStatus, ListedWell
  <2>5. CASE x = o
    <3>1. ResourceStep(x)
      BY <1>1, <2>1, <2>2, <2>3, <2>4, <2>5 DEF ResourceStep, Written, ListedWell
    <3>2. Counted(store[x])'
      BY <1>1, <1>2, <2>1, <2>2, <2>3, <2>5 DEF Counted, ObjectType
    <3>3. QED
      BY <3>1, <3>2
  <2>6. CASE x # o
    BY <1>2, <2>2, <2>6 DEF ResourceStep, Counted
  <2>7. QED
    BY <2>5, <2>6
<1>5. QED
  BY <1>3, <1>4 DEF NextItem

\* What users do gives resources new versions.
LEMMA UserStep ==
  ASSUME Inv, NEW o \in Objects, Create(o) \/ Edit(o) \/ Annotate(o) \/ Delete(o),
         NEW x \in Objects
  PROVE  ResourceStep(x) /\ Counted(store[x])'
<1>1. /\ store[x] \in ObjectType /\ Counted(store[x]) /\ Types
      /\ changes \in Nat /\ changes' = changes + 1
  <2>1. Types /\ Counted(store[x])
    BY DEF Inv
  <2>2. store[x] \in ObjectType /\ changes \in Nat
    BY <2>1, CustomResourcesAssumption DEF Types
  <2>3. changes' = changes + 1
    BY DEF Create, Edit, Annotate, Delete, Changes
  <2>4. QED
    BY <2>1, <2>2, <2>3
<1>2. CASE x # o
  <2>1. store'[x] = store[x]
    BY <1>1, <1>2 DEF Types, Create, Edit, Annotate, Delete
  <2>2. QED
    BY <1>1, <2>1 DEF ResourceStep, Counted, ObjectType
<1>3. CASE x = o /\ Create(o)
  <2>1. /\ store'[o].uid = store[o].uid + 1 /\ store'[o].version = store[o].version + 1
        /\ store'[o].generation = 1 /\ store'[o].observed = 0
    BY <1>1, <1>3 DEF Types, Create
  <2>2. QED
    BY <1>1, <1>3, <2>1 DEF ResourceStep, Counted, ObjectType
<1>4. CASE x = o /\ Edit(o)
  <2>1. PICK spec \in Specs : store' = [store EXCEPT ![o] = EditOf(o, spec)]
    BY <1>4, Edited
  <2>2. /\ store'[o].uid = store[o].uid /\ store'[o].version = store[o].version + 1
        /\ store'[o].generation = store[o].generation + 1
        /\ store'[o].observed = store[o].observed
    BY <1>1, <1>4, <2>1 DEF Types, EditOf, ObjectType
  <2>3. QED
    BY <1>1, <1>4, <2>2 DEF ResourceStep, Counted, ObjectType
<1>5. CASE x = o /\ Annotate(o)
  <2>1. store' = [store EXCEPT ![o] = AnnotationOf(o)]
    BY <1>1, <1>5, Annotated
  <2>2. /\ store'[o].uid = store[o].uid /\ store'[o].version = store[o].version + 1
        /\ store'[o].generation = store[o].generation
        /\ store'[o].observed = store[o].observed
    BY <1>1, <1>5, <2>1 DEF Types, AnnotationOf, ObjectType
  <2>3. QED
    BY <1>1, <1>5, <2>2 DEF ResourceStep, Counted, ObjectType
<1>6. CASE x = o /\ Delete(o)
  <2>1. store' = [store EXCEPT ![o] = RemovalOf(o)]
    BY <1>1, <1>6, Deleted
  <2>2. /\ store'[o].uid = store[o].uid /\ store'[o].version = store[o].version + 1
        /\ store'[o].generation = 0 /\ store'[o].observed = 0
    BY <1>1, <1>6, <2>1 DEF Types, RemovalOf, Absent, ObjectType
  <2>3. QED
    BY <1>1, <1>6, <2>2 DEF ResourceStep, Counted, ObjectType
<1>7. QED
  BY <1>2, <1>3, <1>4, <1>5, <1>6

\* Every step leaves resources as they are or gives them new versions.
LEMMA StoreStep ==
  ASSUME Inv, [Next]_vars, NEW x \in Objects
  PROVE  ResourceStep(x) /\ Counted(store[x])'
<1>1. ASSUME NEW p \in Processes, List(p) \/ Return(p) \/ Crash(p)
      PROVE  ResourceStep(x) /\ Counted(store[x])'
  BY <1>1 DEF List, Return, Crash, ResourceStep, Counted, Inv
<1>2. CASE UNCHANGED vars
  BY <1>2 DEF vars, ResourceStep, Counted, Inv
<1>3. QED
  BY <1>1, <1>2, NextItemStep, UserStep DEF Next

-------------------------------------------------------------------------------
\* Copies stay copies: what changes in the API server becomes newer.
LEMMA CopyStep ==
  ASSUME Inv, [Next]_vars, NEW i \in Item, ListedEarlier(i), ListedWell(i)
  PROVE  ListedEarlier(i)' /\ ListedWell(i)'
<1>1. i.name \in Objects /\ i.object.version \in Nat /\ store[i.name].version \in Nat
  BY DEF Item, ObjectType, Inv, Types
<1>2. store'[i.name].version \in Nat
  BY <1>1, TypesStep DEF Types, ObjectType
<1>3. seen \subseteq seen'
  BY DEF Next, vars, List, NextItem, Return, Crash, Create, Edit, Annotate, Delete, Changes
<1>4. ResourceStep(i.name)
  BY <1>1, StoreStep
<1>5. QED
  BY <1>1, <1>2, <1>3, <1>4 DEF ListedEarlier, ListedWell, ResourceStep

\* Copies stay copies of what the API server had (crdSource.Endpoints).
LEMMA ItemsStep ==
  ASSUME Inv, [Next]_vars
  PROVE  ItemsAreCopies'
<1> SUFFICES ASSUME NEW q \in Processes, NEW j \in 1 .. Len(run'[q].items)
             PROVE  ListedEarlier(run[q].items[j])' /\ ListedWell(run[q].items[j])'
  BY DEF ItemsAreCopies
<1>0. /\ run[q].items \in Seq(Item)
      /\ \A k \in 1 .. Len(run[q].items) :
           /\ run[q].items[k] \in Item
           /\ ListedEarlier(run[q].items[k]) /\ ListedWell(run[q].items[k])
  BY DEF Inv, Types, ItemsAreCopies
<1>1. CASE run'[q].items = run[q].items
  BY <1>0, <1>1, CopyStep
<1>2. CASE NextItem(q)
  <2>1. run'[q].items = Tail(run[q].items)
    BY <1>2 DEF NextItem, Inv, Types
  <2>2. run'[q].items[j] = run[q].items[j + 1] /\ j + 1 \in 1 .. Len(run[q].items)
    BY <1>2, <2>1, HeadItem DEF NextItem
  <2>3. QED
    BY <1>0, <2>2, CopyStep
<1>3. CASE List(q)
  <2> DEFINE listed == FilterByAnnotations({o \in Objects : store[o].there})
             S == {[name |-> o, object |-> store[o]] : o \in listed}
  <2>1. listed \in SUBSET Objects
    BY DEF FilterByAnnotations
  <2>2. run'[q].items = SetToSeq(S)
    BY <1>3 DEF List, Inv, Types
  <2>3. SetToSeq(S)[j] \in S
    <3>1. SetToSeq(S) \in [1 .. Cardinality(S) -> S] /\ Cardinality(S) \in Nat
      BY <2>1, Listed
    <3>2. j \in 1 .. Len(SetToSeq(S))
      BY <2>2
    <3>3. QED
      BY <3>1, <3>2, ElementOf
  <2>4. PICK o \in listed : SetToSeq(S)[j] = [name |-> o, object |-> store[o]]
    BY <2>3
  <2>5. /\ store' = store /\ store[o].there /\ store[o].selected /\ o \in Objects
        /\ <<o, store[o].uid, store[o].generation>> \in seen'
    BY <1>3, <2>4 DEF List, FilterByAnnotations
  <2>6. /\ store[o].version \in Nat /\ store[o].observed <= store[o].generation
    BY <2>5 DEF Inv, Types, Counted, ObjectType
  <2>7. /\ run'[q].items[j].name = o
        /\ run'[q].items[j].object = store[o]
    BY <2>2, <2>4
  <2>8. QED
    BY <2>5, <2>6, <2>7 DEF ListedEarlier, ListedWell
<1>4. CASE Return(q) \/ Crash(q)
  <2>1. run'[q].items = <<>>
    BY <1>4 DEF Return, Crash, Idle, Inv, Types
  <2>2. Len(run'[q].items) = 0
    BY <2>1
  <2>3. j \in Int /\ 1 <= j /\ j <= Len(run'[q].items)
    BY <2>2
  <2>4. QED
    BY <2>2, <2>3
<1>5. run'[q].items = run[q].items \/ NextItem(q) \/ List(q) \/ Return(q) \/ Crash(q)
  <2>1. ASSUME NEW p \in Processes, p # q, List(p) \/ NextItem(p) \/ Return(p) \/ Crash(p)
        PROVE  run'[q] = run[q]
    BY <2>1 DEF List, NextItem, Return, Crash, Inv, Types
  <2>2. QED
    BY <2>1 DEF Next, vars, Create, Edit, Annotate, Delete, Changes
<1>6. QED
  BY <1>1, <1>2, <1>3, <1>4, <1>5

\* No write claims a generation that no call has listed.
LEMMA ObservedStep ==
  ASSUME Inv, [Next]_vars
  PROVE  ObservedWasListed'
<1> SUFFICES ASSUME NEW o \in Objects, store'[o].observed > 0
             PROVE  <<o, store'[o].uid, store'[o].observed>> \in seen'
  BY DEF ObservedWasListed
<1>1. seen \subseteq seen'
  BY DEF Next, vars, List, NextItem, Return, Crash, Create, Edit, Annotate, Delete, Changes
<1>2. ResourceStep(o)
  BY StoreStep
<1>3. QED
  BY <1>1, <1>2 DEF ResourceStep, Written, Inv, ObservedWasListed

\* The inductive invariant: what a call has in its hands are copies of resources
\* that were listed, never newer than the API server's, and the same ones if
\* they have one version.
THEOREM CustomResourcesInv == Spec => []Inv
<1>1. Inv /\ [Next]_vars => Inv'
  BY TypesStep, StoreStep, ItemsStep, ObservedStep DEF Inv
<1>2. QED
  BY InitInv, <1>1, PTL DEF Spec

\* The resources, the lists of the calls and the counters keep their types.
THEOREM TypeCorrect == Spec => []TypeOK
<1>1. Inv => TypeOK
  <2> SUFFICES ASSUME Inv PROVE TypeOK
    OBVIOUS
  <2>1. ASSUME NEW p \in Processes, NEW i \in DOMAIN run[p].items
        PROVE  run[p].items[i].name \in Objects /\ run[p].items[i].object \in ObjectType
    <3>1. run[p].items \in Seq(Item)
      BY DEF Inv, Types
    <3>2. run[p].items[i] \in Item
      BY <2>1, <3>1
    <3>3. QED
      BY <3>2 DEF Item
  <2>2. QED
    BY <2>1 DEF Inv, Types, TypeOK
<1>2. QED
  BY <1>1, CustomResourcesInv, PTL

\* The status of a resource never claims a generation that no call has listed of
\* this very resource (dnsendpoint.go: UpdateStatus).
THEOREM ObservedListed == Spec => []ObservedWasListed
<1>1. Inv => ObservedWasListed
  BY DEF Inv
<1>2. QED
  BY <1>1, CustomResourcesInv, PTL

\* A call that works on an old list writes nothing, and no status goes back
\* (dnsendpoint.go: UpdateStatus with the resourceVersion as it was listed).
THEOREM StatusCurrent == Spec => StatusIsCurrent
<1> DEFINE Current ==
      \A o \in Objects :
        (store'[o].uid = store[o].uid /\ store'[o].observed > 0
           /\ store'[o].observed # store[o].observed)
          => /\ store'[o].observed = store[o].generation
             /\ store'[o].observed > store[o].observed
             /\ Publishable(o)
<1>1. Inv /\ [Next]_vars => Current
  <2> SUFFICES ASSUME Inv, [Next]_vars, NEW o \in Objects,
                      store'[o].observed > 0, store'[o].observed # store[o].observed
               PROVE  /\ store'[o].observed = store[o].generation
                      /\ store'[o].observed > store[o].observed
                      /\ Publishable(o)
    OBVIOUS
  <2>1. ResourceStep(o) /\ store[o] \in ObjectType
    BY StoreStep DEF Inv, Types
  <2>2. QED
    BY <2>1 DEF ResourceStep, Written, Publishable, ObjectType
<1>2. QED
  BY <1>1, CustomResourcesInv, PTL DEF Spec, StatusIsCurrent
=============================================================================
