--------------------------- MODULE CustomResources ---------------------------
(***************************************************************************)
(* The source of DNSEndpoint resources (source/dnsendpoint.go).            *)
(*                                                                         *)
(* A call of Endpoints lists the resources from the API server, with no    *)
(* cache between, and goes through them one by one.  For each it takes     *)
(* over the endpoints that are legal and then writes to the status which   *)
(* generation of the spec it has observed.  The body of that write is the  *)
(* resource as it was listed, with its resourceVersion: the API server     *)
(* refuses it when the resource has changed since, and the source only     *)
(* logs that.  Users change the resources meanwhile, and other processes   *)
(* read them and write their status too.                                   *)
(*                                                                         *)
(* Names of actions that the API server or its users take are external.    *)
(***************************************************************************)
EXTENDS Integers, Sequences, FiniteSets, SequencesExt

CONSTANTS
  Objects,     \* names of resources
  Processes,   \* processes with such a source
  Specs,       \* what spec.endpoints may be: sets of endpoints
  MaxChanges,  \* bound on changes by users
  MaxFaults    \* bound on writes that are lost, and on crashes

ASSUME CustomResourcesAssumption ==
  /\ IsFiniteSet(Objects)
  /\ MaxChanges \in Nat /\ MaxFaults \in Nat

VARIABLES
  store,    \* the resources in the API server
  run,      \* run[p]: the call of Endpoints that p is in
  result,   \* result[p]: what the last call returned
  seen,     \* history: generations that were listed, with the resource's uid
  changes, faults

vars == <<store, run, result, seen, changes, faults>>

Absent == [there |-> FALSE, uid |-> 0, version |-> 0, generation |-> 0, observed |-> 0,
           spec |-> {}, selected |-> FALSE]
Idle == [items |-> <<>>, out |-> {}, busy |-> FALSE]

Init ==
  /\ store = [o \in Objects |-> Absent]
  /\ run = [p \in Processes |-> Idle]
  /\ result = [p \in Processes |-> {}]
  /\ seen = {}
  /\ changes = 0 /\ faults = 0

(***************************************************************************)
(* The endpoints of a resource.  A target is <<name, dot>>.                *)
(***************************************************************************)
WithoutTargets(ep) == ep.type \in {"A", "AAAA", "CNAME"} /\ ep.targets = <<>>

EndsWithDot(target) == target[2]

IllegalTarget(ep) ==
  \E i \in DOMAIN ep.targets : (ep.type = "NAPTR") # EndsWithDot(ep.targets[i])

SetResourceLabel(o, ep) == [ep EXCEPT !.resource = o]

\* One bad endpoint takes the others of its resource along.
CRDEndpointsAllOrNone(o, spec) ==
  {SetResourceLabel(o, ep) : ep \in {e \in spec : \A f \in spec : ~WithoutTargets(f) /\ ~IllegalTarget(f)}}

CRDEndpoints(o, spec) ==
  {SetResourceLabel(o, ep) : ep \in {e \in spec : ~WithoutTargets(e) /\ ~IllegalTarget(e)}}

(***************************************************************************)
(* Endpoints.                                                              *)
(***************************************************************************)
\* The label selector is part of the request, the annotations are filtered
\* afterwards.
FilterByAnnotations(objects) == {o \in objects : store[o].selected}

List(p) ==
  /\ ~run[p].busy
  /\ LET listed == FilterByAnnotations({o \in Objects : store[o].there})
     IN  /\ run' = [run EXCEPT ![p] =
                      [items |-> SetToSeq({[name |-> o, object |-> store[o]] : o \in listed}),
                       out |-> {}, busy |-> TRUE]]
         /\ seen' = seen \cup {<<o, store[o].uid, store[o].generation>> : o \in listed}
  /\ UNCHANGED <<store, result, changes, faults>>

\* Leaves the resourceVersion out of the body: the last write wins.
AcceptsAnything(o, object) == store[o].there

\* The API server takes a write of the resource as it stands only.
Accepts(o, object) ==
  /\ store[o].there
  /\ store[o].uid = object.uid
  /\ store[o].version = object.version

\* Claims the next generation.
UpdateStatusAhead(o, object) ==
  store' = [store EXCEPT ![o].version = @ + 1, ![o].observed = object.generation + 1]

\* Nothing but the status changes.
UpdateStatus(o, object) ==
  store' = [store EXCEPT ![o].version = @ + 1, ![o].observed = object.generation]

\* Only resources that were never observed.
NeedsStatusOnce(object) == object.observed = 0

NeedsStatus(object) == object.observed # object.generation

\* One resource; the write of its status is made, refused, or lost.
NextItem(p) ==
  /\ run[p].busy /\ run[p].items # <<>>
  /\ LET o == Head(run[p].items).name
         object == Head(run[p].items).object
     IN  /\ run' = [run EXCEPT ![p].items = Tail(@),
                               ![p].out = @ \cup CRDEndpoints(o, object.spec)]
         /\ IF NeedsStatus(object)
            THEN \/ Accepts(o, object) /\ UpdateStatus(o, object) /\ UNCHANGED faults
                 \/ ~Accepts(o, object) /\ UNCHANGED <<store, faults>>
                 \/ faults < MaxFaults /\ faults' = faults + 1 /\ UNCHANGED store
            ELSE UNCHANGED <<store, faults>>
  /\ UNCHANGED <<result, seen, changes>>

Return(p) ==
  /\ run[p].busy /\ run[p].items = <<>>
  /\ result' = [result EXCEPT ![p] = run[p].out]
  /\ run' = [run EXCEPT ![p] = Idle]
  /\ UNCHANGED <<store, seen, changes, faults>>

\* The process ends, as it does when the list itself fails, and starts again.
Crash(p) ==
  /\ run[p].busy
  /\ faults < MaxFaults /\ faults' = faults + 1
  /\ run' = [run EXCEPT ![p] = Idle]
  /\ UNCHANGED <<store, result, seen, changes>>

(***************************************************************************)
(* Users.                                                                  *)
(***************************************************************************)
Changes == changes < MaxChanges /\ changes' = changes + 1 /\ UNCHANGED <<run, result, seen, faults>>

Create(o) ==
  /\ ~store[o].there
  /\ \E spec \in Specs :
       store' = [store EXCEPT ![o] = [there |-> TRUE, uid |-> @.uid + 1, version |-> @.version + 1,
                                      generation |-> 1, observed |-> 0, spec |-> spec,
                                      selected |-> TRUE]]
  /\ Changes

\* A change of the spec is a new generation.
Edit(o) ==
  /\ store[o].there
  /\ \E spec \in Specs \ {store[o].spec} :
       store' = [store EXCEPT ![o].spec = spec, ![o].version = @ + 1, ![o].generation = @ + 1]
  /\ Changes

\* A change of an annotation or a label is not.
Annotate(o) ==
  /\ store[o].there
  /\ store' = [store EXCEPT ![o].selected = ~@, ![o].version = @ + 1]
  /\ Changes

Delete(o) ==
  /\ store[o].there
  /\ store' = [store EXCEPT ![o] = [Absent EXCEPT !.uid = store[o].uid, !.version = store[o].version + 1]]
  /\ Changes

Next ==
  \/ \E p \in Processes : List(p) \/ NextItem(p) \/ Return(p) \/ Crash(p)
  \/ \E o \in Objects : Create(o) \/ Edit(o) \/ Annotate(o) \/ Delete(o)

Spec == Init /\ [][Next]_vars

\* The controller calls Endpoints again and again.
FairSpec ==
  /\ Spec
  /\ \A p \in Processes : WF_vars(List(p) \/ NextItem(p) \/ Return(p))

-------------------------------------------------------------------------------
ObjectType ==
  [there : BOOLEAN, uid : 0 .. MaxChanges, version : Nat, generation : 0 .. MaxChanges,
   observed : 0 .. MaxChanges, spec : Specs \cup {{}}, selected : BOOLEAN]

TypeOK ==
  /\ store \in [Objects -> ObjectType]
  /\ \A p \in Processes : \A i \in DOMAIN run[p].items :
       run[p].items[i].name \in Objects /\ run[p].items[i].object \in ObjectType
  /\ changes \in 0 .. MaxChanges /\ faults \in 0 .. MaxFaults

Publishable(o) == store[o].there /\ store[o].selected

\* The status never claims a generation that no call has listed, of this very
\* resource: not of one of the same name that was deleted since.
ObservedWasListed ==
  \A o \in Objects : store[o].observed > 0 => <<o, store[o].uid, store[o].observed>> \in seen

\* A process that works on an old list never writes: what it writes is the
\* generation the resource has at that moment, the resource is still one that
\* it should look at, and the status never goes back.
StatusIsCurrent ==
  [][\A o \in Objects :
       (store'[o].uid = store[o].uid /\ store'[o].observed > 0
          /\ store'[o].observed # store[o].observed)
         => /\ store'[o].observed = store[o].generation
            /\ store'[o].observed > store[o].observed
            /\ Publishable(o)]_vars

\* After the last change every resource's generation is observed, although
\* writes are refused or lost and never tried again by the call that made them.
Observed == <>[](\A o \in Objects : Publishable(o) => store[o].observed = store[o].generation)

\* And every process returns the endpoints of all of them, those that are legal
\* beside illegal ones too, labelled with their resource.
Published ==
  <>[](\A p \in Processes :
         result[p] = UNION {{[ep EXCEPT !.resource = o] : ep \in {e \in store[o].spec : e.legal}} :
                              o \in {x \in Objects : Publishable(x)}})
=============================================================================
