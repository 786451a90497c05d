------------------------------- MODULE Rounds --------------------------------
(***************************************************************************)
(* One controller and its provider, a round at a time                      *)
(* (Controller.RunOnce over the TXT registry).                             *)
(*                                                                         *)
(* A round is atomic here: nothing comes between the listing and the       *)
(* application of the plan.  What a round computes is then a matter of the *)
(* plan, the registry and the provider's validation, with rich data;       *)
(* module Sync splits the round and interleaves several of them.           *)
(***************************************************************************)
EXTENDS Plan, InMemory

CONSTANTS
  Configs,      \* the configurations the process may be started with
  Wants,        \* the sets of records the sources may ask for
  Foreign       \* records that others may put into the zones

ConfigType == [policy : Policies, planOwner : LabelValues, txtOwner : LabelValues,
               domain : SUBSET Names, managed : SUBSET RecordTypes,
               excluded : SUBSET RecordTypes]

ASSUME RoundsAssumption ==
  /\ Configs \subseteq ConfigType
  /\ \A w \in Wants : w \subseteq Endpoint
  /\ Foreign \subseteq Endpoint

VARIABLES
  config,   \* the configuration of the sync
  store,    \* what the provider holds
  want,     \* what the sources ask for
  outcome   \* of the last round, "none" since the sources or others changed

vars == <<config, store, want, outcome>>

Outcomes == {"none", "unchanged", "applied", "rejected"}

Init ==
  /\ config \in Configs
  /\ store = EmptyStore
  /\ want \in Wants
  /\ outcome = "none"

\* Every plan a round may make now, for each listing Registry.Records may return.
PlansNow ==
  UNION {Plans(config, l, want) : l \in RegistryRecords(config.txtOwner, RecordsOf(store))}

RunOnceUnchanged ==
  /\ \E c \in PlansNow : ~HasChanges(c)
  /\ outcome' = "unchanged"
  /\ UNCHANGED <<config, store, want>>

RunOnceApply ==
  /\ \E c \in PlansNow : /\ HasChanges(c)
                         /\ \E o \in ApplyOutcomes(store, RegistryChanges(config.txtOwner, c)) :
                              /\ store' = o.store
                              /\ outcome' = IF o.ok THEN "applied" ELSE "rejected"
  /\ UNCHANGED <<config, want>>

RunOnce == RunOnceUnchanged \/ RunOnceApply

SourceChanges(w) ==
  /\ w # want
  /\ want' = w
  /\ outcome' = "none"
  /\ UNCHANGED <<config, store>>

\* The process is started again with an edited configuration; the provider is
\* a server of its own and keeps its records.
Reconfigure(c) ==
  /\ c # config
  /\ config' = c
  /\ outcome' = "none"
  /\ UNCHANGED <<store, want>>

\* Another client of the zone adds one of its records, or takes it away.
OtherAdds(e) ==
  /\ Key(e) \notin DOMAIN store
  /\ store' = [k \in DOMAIN store \cup {Key(e)} |-> IF k = Key(e) THEN e ELSE store[k]]
  /\ outcome' = "none"
  /\ UNCHANGED <<config, want>>

OtherRemoves(e) ==
  /\ Key(e) \in DOMAIN store
  /\ store[Key(e)] = e
  /\ store' = [k \in DOMAIN store \ {Key(e)} |-> store[k]]
  /\ outcome' = "none"
  /\ UNCHANGED <<config, want>>

Next ==
  \/ RunOnceUnchanged
  \/ RunOnceApply
  \/ \E w \in Wants : SourceChanges(w)
  \/ \E c \in Configs : Reconfigure(c)
  \/ \E e \in Foreign : OtherAdds(e) \/ OtherRemoves(e)

Spec == Init /\ [][Next]_vars

-------------------------------------------------------------------------------
TypeOK ==
  /\ config \in Configs
  /\ IsStore(store)
  /\ want \in Wants
  /\ outcome \in Outcomes

Accepted == outcome \in {"applied", "unchanged"}

Changed(k) == k \notin DOMAIN store' \/ store'[k] # store[k]

\* No round removes or rewrites a record unless the zone holds, at that moment,
\* the TXT record of this sync that names the sync as owner, for the record's
\* own name and set identifier: "sync" mode deletes and updates only entries
\* with a matching TXT record (endpoint/server.go:31).
HasOwnerTXT(k) ==
  /\ TXTKey(k) \in DOMAIN store
  /\ store[TXTKey(k)].text.owner = config.txtOwner

OwnerSafety == [][RunOnce => \A k \in DOMAIN store : Changed(k) => HasOwnerTXT(k)]_vars

\* A second round right after an accepted one finds nothing to do, whatever
\* order the sources list their records in: two resources that ask for one
\* name do not take it from each other, and no difference is reported that an
\* update cannot remove.
NoFlapping == Accepted => \A c \in PlansNow : ~HasChanges(c)

\* After an accepted round of the sync policy every name that is asked for has a
\* record of its type, and every record labelled with the plan's owner is what
\* is asked for.  A record of a resource without that label is created, and from
\* then on no round touches it (endpoint.go:252).
Meets(e, d) ==
  /\ Key(e) = Key(d)
  /\ Sorted(e.targets) = Sorted(d.targets)
  /\ d.ttl \in {0, e.ttl}

Converged ==
  (Accepted /\ config.policy = "sync") =>
    LET kept    == ResolveRecordTypes(want)
        records == {e \in RecordsOf(store) : e.recordType # "TXT"}
    IN  /\ \A e \in records : IsOwnedBy(e, config.planOwner) => \E d \in kept : Meets(e, d)
        /\ \A d \in kept : \E e \in records : Cell(e) = Cell(d)

\* RFC 1034: a name that holds a CNAME holds no other address record, even
\* while records change type or several resources disagree (plan.go:100).
CNAMEExclusive ==
  \A e, f \in RecordsOf(store) :
    (e.recordType = "CNAME" /\ f.recordType # "TXT" /\ PlanKey(e) = PlanKey(f))
      => f.recordType = "CNAME"

\* Whatever the sources do, the policy bounds what a round may do: create-only
\* never touches a record that is there, upsert-only never removes one.
PolicyRespected ==
  [][RunOnce => \A k \in DOMAIN store :
       /\ config.policy = "create-only" => ~Changed(k)
       /\ config.policy = "upsert-only" => k \in DOMAIN store']_vars

\* As long as the resource that holds a name asks for it, no round hands the
\* name to another resource, however small the targets of the other one are
\* (plan/conflict.go:50).
HolderKeepsName ==
  [][RunOnce => \A k \in DOMAIN store \cap DOMAIN store' :
       (k[2] # "TXT" /\ \E d \in want : /\ Key(d) = k
                                       /\ d.labels.resource = store[k].labels.resource)
         => store'[k].labels.resource = store[k].labels.resource]_vars

\* Every record of a name that this sync manages alone comes with a TXT record,
\* and every TXT record of the registry with a record: the pairs are created,
\* updated and deleted together.
Paired ==
  \A k \in DOMAIN store :
    IF k[2] = "TXT"
    THEN \E l \in DOMAIN store : l[2] # "TXT" /\ TXTKey(l) = k
    ELSE TXTKey(k) \in DOMAIN store

-------------------------------------------------------------------------------
(***************************************************************************)
(* What the repository's comments say of a round, and the code does not    *)
(* keep; each one is refuted by a run of its own.                          *)
(***************************************************************************)
\* The lists of a batch do not overlap, and an update or deletion names a record
\* that exists (pkg/mem/inmemory.go:117-119): with one controller and nobody
\* else at the zone, no plan is refused.
PlanAccepted == outcome # "rejected"
=============================================================================
