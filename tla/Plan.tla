-------------------------------- MODULE Plan ---------------------------------
(***************************************************************************)
(* The plan that turns the records a provider has into the records the     *)
(* sources ask for (plan/plan.go, plan/conflict.go, plan/policy.go).       *)
(*                                                                         *)
(* The two inputs of Calculate are lists whose order the sources and the   *)
(* provider do not fix (both iterate over Go maps).  They are sets here,   *)
(* and what depends on the order is a choice: "last" is the record that    *)
(* ends up in each cell of the plan table, "win" the candidate that a      *)
(* conflict resolution keeps.  Plans(p, current, desired) is the set of    *)
(* every result the code can compute.                                      *)
(*                                                                         *)
(* p stands for the fields of the Plan struct: p.policy, p.planOwner       *)
(* (OwnerID), p.domain (the names both domain filters accept), p.managed   *)
(* (ManagedRecords, all types if nil) and p.excluded (ExcludeRecords).     *)
(***************************************************************************)
EXTENDS Endpoints

CONSTANT Canonical    \* Canonical[n]: normalizeDNSName of the spelling n

ASSUME CanonicalAssumption == Canonical \in [Names -> Names]

Policies == {"sync", "upsert-only", "create-only"}

(***************************************************************************)
(* The plan table: one row per name and set identifier, in each row one    *)
(* cell per record type.                                                   *)
(***************************************************************************)
PlanKey(e) == <<Canonical[e.dnsName], e.setIdentifier>>
Cell(e) == <<PlanKey(e), e.recordType>>

IsManagedRecord(p, type) == type \in p.managed \ p.excluded

FilterRecordsForPlan(p, records) ==
  {r \in records : r.dnsName \in p.domain /\ IsManagedRecord(p, r.recordType)}

(***************************************************************************)
(* Conflict resolution.                                                    *)
(***************************************************************************)
\* A CNAME candidate yields to a candidate of any other type in its row.
ResolveRecordTypes(des) ==
  {d \in des : d.recordType = "CNAME" =>
                 \A o \in des : PlanKey(o) = PlanKey(d) => o.recordType = "CNAME"}

\* The smallest candidate; of equal ones, the one listed first.
ResolveCreate(candidates) ==
  {d \in candidates : \A o \in candidates : ~IsLess(o.targets, d.targets)}

\* Lets the smallest candidate win every time.
ResolveUpdateIgnoringResource(current, candidates) == ResolveCreate(candidates)

\* Prefers the resource that already holds the name, which keeps two resources
\* that ask for one name from taking it from each other on every run.
ResolveUpdate(current, candidates) ==
  LET same == {d \in candidates :
                 Get(d.labels.resource) = Get(current.labels.resource)}
  IN  IF same # {} THEN ResolveCreate(same) ELSE ResolveCreate(candidates)

\* The candidates that may be kept, given the current record of each cell.
Winners(last, candidates) ==
  {win \in Selections(candidates, Cell) : \A w \in win :
     LET rivals  == {d \in candidates : Cell(d) = Cell(w)}
         current == {c \in last : Cell(c) = Cell(w)}
     IN  IF current = {} THEN w \in ResolveCreate(rivals)
         ELSE \A c \in current : w \in ResolveUpdate(c, rivals)}

\* A candidate that was compared with another one of the same length comes out
\* of the comparison sorted.
AfterComparison(w, candidates) ==
  IF \E d \in candidates \ {w} : Cell(d) = Cell(w) /\ Len(d.targets) = Len(w.targets)
  THEN [w EXCEPT !.targets = Sorted(@)] ELSE w

(***************************************************************************)
(* Which records change.                                                   *)
(***************************************************************************)
\* Takes lists of one length for equal.
TargetCountChanged(desired, current) == Len(desired.targets) # Len(current.targets)

TargetChanged(desired, current) == ~Same(desired.targets, current.targets)
ShouldUpdateTTL(desired, current) == desired.ttl > 0 /\ desired.ttl # current.ttl
ShouldUpdateProviderSpecific(desired, current) ==
  desired.providerSpecific # current.providerSpecific

NeedsUpdate(desired, current) ==
  \/ ShouldUpdateTTL(desired, current)
  \/ TargetChanged(desired, current)
  \/ ShouldUpdateProviderSpecific(desired, current)

\* The test stops at a TTL that differs; otherwise Same has sorted both lists
\* in place if they are equally long.
AfterNeedsUpdate(e, desired, current) ==
  IF ~ShouldUpdateTTL(desired, current) /\ Len(desired.targets) = Len(current.targets)
  THEN [e EXCEPT !.targets = Sorted(@)] ELSE e

InheritOwner(from, to) == [to EXCEPT !.labels.owner = Get(from.labels.owner)]

(***************************************************************************)
(* The changes of the table, before the policy and the owner filter.       *)
(***************************************************************************)
OwnersMatch(owner, cur, e) ==
  owner # "" => \A c \in cur : PlanKey(c) = PlanKey(e) => IsOwnedBy(c, owner)

TableChanges(owner, cur, des, last, win) ==
  LET Taken(e)  == \E c \in cur : PlanKey(c) = PlanKey(e)
      Wanted(e) == \E d \in des : PlanKey(d) = PlanKey(e)
      created   == {w \in win : \/ ~Taken(w)
                                \/ /\ \A c \in last : Cell(c) # Cell(w)
                                   /\ OwnersMatch(owner, cur, w)}
      released  == {c \in cur : ~Wanted(c)}
      undesired == {c \in last : Wanted(c) /\ \A w \in win : Cell(w) # Cell(c)}
      updated   == {u \in last \X win : /\ Cell(u[1]) = Cell(u[2])
                                        /\ NeedsUpdate(u[2], u[1])}
  IN  [create    |-> {AfterComparison(w, des) : w \in created},
       delete    |-> released \cup undesired,
       updateOld |-> {AfterNeedsUpdate(u[1], u[2], u[1]) : u \in updated},
       updateNew |-> {InheritOwner(u[1], AfterNeedsUpdate(
                          AfterComparison(u[2], des), u[2], u[1])) : u \in updated}]

(***************************************************************************)
(* Policies and ownership.                                                 *)
(***************************************************************************)
\* Lets upsert-only delete.
UpsertOnlyKeepsDeletes(policy, c) ==
  IF policy = "create-only"
  THEN [c EXCEPT !.delete = {}, !.updateOld = {}, !.updateNew = {}] ELSE c

ApplyPolicy(policy, c) ==
  CASE policy = "sync"        -> c
    [] policy = "upsert-only" -> [c EXCEPT !.delete = {}]
    [] policy = "create-only" -> [c EXCEPT !.delete = {}, !.updateOld = {}, !.updateNew = {}]

FilterByOwner(owner, c) ==
  IF owner = "" THEN c
  ELSE [c EXCEPT !.delete    = FilterEndpointsByOwnerID(owner, @),
                 !.updateOld = FilterEndpointsByOwnerID(owner, @),
                 !.updateNew = FilterEndpointsByOwnerID(owner, @)]

\* One result of Calculate, for one choice of what the table keeps.
Calculate(p, cur, des, last, win) ==
  FilterByOwner(p.planOwner,
    ApplyPolicy(p.policy, TableChanges(p.planOwner, cur, des, last, win)))

Plans(p, current, desired) ==
  LET cur == FilterRecordsForPlan(p, current)
      des == FilterRecordsForPlan(p, desired)
  IN  UNION {{Calculate(p, cur, des, last, win) :
                win \in Winners(last, ResolveRecordTypes(des))} :
             last \in Selections(cur, Cell)}
=============================================================================
