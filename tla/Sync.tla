-------------------------------- MODULE Sync ---------------------------------
(***************************************************************************)
(* Several dns-sync controllers and one DNS service                        *)
(* (controller/controller.go, pkg/dns-sync/dns-sync.go,                    *)
(* provider/webhook/webhook.go, pkg/dns_service/httpapi.go).               *)
(*                                                                         *)
(* Every sync lists the records, makes a plan of what it listed and of     *)
(* what its sources ask for, and posts the plan to the service; between    *)
(* the three the service, the other syncs and other writers move on.  An   *)
(* HTTP error with a code from 500 to 510 ends the round; every other      *)
(* error ends the whole process (log.Fatalf), with all the syncs that run  *)
(* in it.  A request that was on its way then may still arrive, later.     *)
(***************************************************************************)
EXTENDS Plan, InMemory

CONSTANTS
  Syncs,          \* the controllers
  ProcessOf,      \* ProcessOf[s]: the process that runs s
  SourceOf,       \* SourceOf[s]: the cluster whose resources s reads
  Config,         \* Config[s]: the configuration of s
  Wants,          \* Wants[c]: the sets of records cluster c may ask for
  Foreign,        \* records that others may put into the zones
  MaxEdits,       \* bound on the number of changes in the clusters
  MaxFatals       \* bound on the number of times a process dies

\* The plan's owner is the exported field Owner of a Controller; the program sets
\* it to "mesh" in every sync it starts, another caller may choose.
ConfigType == [policy : Policies, planOwner : LabelValues \ {""}, txtOwner : LabelValues,
               domain : SUBSET Names, managed : SUBSET RecordTypes,
               excluded : SUBSET RecordTypes]

Processes == {ProcessOf[s] : s \in Syncs}
Clusters == {SourceOf[s] : s \in Syncs}

ASSUME SyncAssumption ==
  /\ Config \in [Syncs -> ConfigType]
  /\ Wants \in [Clusters -> SUBSET SUBSET Endpoint]
  /\ Foreign \subseteq Endpoint
  /\ MaxEdits \in Nat /\ MaxFatals \in Nat

VARIABLES
  store,     \* what the service holds
  goal,      \* goal[c]: what the resources of cluster c ask for
  view,      \* view[s]: what s knows of them (its informers' caches)
  pc,        \* pc[s]: where s is in its round
  listing,   \* listing[s]: the records s listed in this round
  call,      \* call[s]: the request of s to change the records
  late,      \* requests whose sender is gone
  edits,     \* number of changes in the clusters so far
  fatals     \* number of processes that died so far

vars == <<store, goal, view, pc, listing, call, late, edits, fatals>>

Goals == {g \in [Clusters -> UNION {Wants[c] : c \in Clusters}] :
            \A c \in Clusters : g[c] \in Wants[c]}

NoBatch == [create |-> {}, updateOld |-> {}, updateNew |-> {}, delete |-> {}]
NoCall == [state |-> "none", batch |-> NoBatch]

Init ==
  /\ store = EmptyStore
  /\ goal \in Goals
  /\ view = [s \in Syncs |-> goal[SourceOf[s]]]
  /\ pc = [s \in Syncs |-> "idle"]
  /\ listing = [s \in Syncs |-> {}]
  /\ call = [s \in Syncs |-> NoCall]
  /\ late = {}
  /\ edits = 0
  /\ fatals = 0

(***************************************************************************)
(* A round.                                                                *)
(***************************************************************************)
\* GET records, answered with 200.
ListRecords(s) ==
  /\ pc[s] = "idle"
  /\ \E l \in RegistryRecords(Config[s].txtOwner, RecordsOf(store)) :
       listing' = [listing EXCEPT ![s] = l]
  /\ pc' = [pc EXCEPT ![s] = "listed"]
  /\ UNCHANGED <<store, goal, view, call, late, edits, fatals>>

\* The plan, and the POST of its changes if there are any.
PlanAndPost(s) ==
  /\ pc[s] = "listed"
  /\ \E c \in Plans(Config[s], listing[s], view[s]) :
       IF HasChanges(c)
       THEN /\ pc' = [pc EXCEPT ![s] = "posted"]
            /\ call' = [call EXCEPT ![s] =
                 [state |-> "sent", batch |-> RegistryChanges(Config[s].txtOwner, c)]]
       ELSE /\ pc' = [pc EXCEPT ![s] = "idle"]
            /\ UNCHANGED call
  /\ listing' = [listing EXCEPT ![s] = {}]
  /\ UNCHANGED <<store, goal, view, late, edits, fatals>>

\* POST adjustendpoints is answered with 500 to 510.
AdjustFails(s) ==
  /\ pc[s] = "listed"
  /\ pc' = [pc EXCEPT ![s] = "idle"]
  /\ listing' = [listing EXCEPT ![s] = {}]
  /\ UNCHANGED <<store, goal, view, call, late, edits, fatals>>

\* The service handles the POST: all of it, or some of the zones and an error.
HandlePost(s) ==
  /\ pc[s] = "posted" /\ call[s].state = "sent"
  /\ \E o \in ApplyOutcomes(store, call[s].batch) :
       /\ store' = o.store
       /\ call' = [call EXCEPT ![s] =
            [state |-> IF o.ok THEN "204" ELSE "500", batch |-> NoBatch]]
  /\ UNCHANGED <<goal, view, pc, listing, late, edits, fatals>>

\* The answer arrives: 204 ends the round well, 500 ends it with a soft error,
\* and the loop goes on either way.
RoundEnds(s) ==
  /\ pc[s] = "posted" /\ call[s].state \in {"204", "500"}
  /\ pc' = [pc EXCEPT ![s] = "idle"]
  /\ call' = [call EXCEPT ![s] = NoCall]
  /\ UNCHANGED <<store, goal, view, listing, late, edits, fatals>>

(***************************************************************************)
(* Failures.  A lost connection, a 4xx, an answer that cannot be decoded   *)
(* or an error of a source is fatal at any point of a round.               *)
(***************************************************************************)
Of(p) == {s \in Syncs : ProcessOf[s] = p}

Fatal(p) ==
  /\ fatals < MaxFatals
  /\ \E s \in Of(p) : pc[s] # "down"
  /\ fatals' = fatals + 1
  /\ late' = late \cup {[sync |-> s, batch |-> call[s].batch] :
                          s \in {t \in Of(p) : call[t].state = "sent"}}
  /\ pc' = [s \in Syncs |-> IF s \in Of(p) THEN "down" ELSE pc[s]]
  /\ listing' = [s \in Syncs |-> IF s \in Of(p) THEN {} ELSE listing[s]]
  /\ call' = [s \in Syncs |-> IF s \in Of(p) THEN NoCall ELSE call[s]]
  /\ UNCHANGED <<store, goal, view, edits>>

\* The process is started again, and its informers list the resources anew.
Restart(p) ==
  /\ \A s \in Of(p) : pc[s] = "down"
  /\ pc' = [s \in Syncs |-> IF s \in Of(p) THEN "idle" ELSE pc[s]]
  /\ view' = [s \in Syncs |-> IF s \in Of(p) THEN goal[SourceOf[s]] ELSE view[s]]
  /\ UNCHANGED <<store, goal, listing, call, late, edits, fatals>>

HandleLatePost(r) ==
  /\ \E o \in ApplyOutcomes(store, r.batch) : store' = o.store
  /\ late' = late \ {r}
  /\ UNCHANGED <<goal, view, pc, listing, call, edits, fatals>>

LoseLatePost(r) ==
  /\ late' = late \ {r}
  /\ UNCHANGED <<store, goal, view, pc, listing, call, edits, fatals>>

(***************************************************************************)
(* The surroundings.                                                       *)
(***************************************************************************)
SourceChanges(c, w) ==
  /\ edits < MaxEdits
  /\ w # goal[c]
  /\ goal' = [goal EXCEPT ![c] = w]
  /\ edits' = edits + 1
  /\ UNCHANGED <<store, view, pc, listing, call, late, fatals>>

\* The informers of s catch up.
Observe(s) ==
  /\ view[s] # goal[SourceOf[s]]
  /\ view' = [view EXCEPT ![s] = goal[SourceOf[s]]]
  /\ UNCHANGED <<store, goal, pc, listing, call, late, edits, fatals>>

OtherAdds(e) ==
  /\ Key(e) \notin DOMAIN store
  /\ store' = [k \in DOMAIN store \cup {Key(e)} |-> IF k = Key(e) THEN e ELSE store[k]]
  /\ UNCHANGED <<goal, view, pc, listing, call, late, edits, fatals>>

OtherRemoves(e) ==
  /\ Key(e) \in DOMAIN store
  /\ store[Key(e)] = e
  /\ store' = [k \in DOMAIN store \ {Key(e)} |-> store[k]]
  /\ UNCHANGED <<goal, view, pc, listing, call, late, edits, fatals>>

Round(s) ==
  \/ ListRecords(s)
  \/ PlanAndPost(s)
  \/ HandlePost(s)
  \/ RoundEnds(s)

Next ==
  \/ \E s \in Syncs : Round(s) \/ AdjustFails(s) \/ Observe(s)
  \/ \E p \in Processes : Fatal(p) \/ Restart(p)
  \/ \E r \in late : HandleLatePost(r) \/ LoseLatePost(r)
  \/ \E c \in Clusters : \E w \in Wants[c] : SourceChanges(c, w)
  \/ \E e \in Foreign : OtherAdds(e) \/ OtherRemoves(e)

Spec == Init /\ [][Next]_vars

(***************************************************************************)
(* Run calls RunOnce at least once an interval, an HTTP call ends, the     *)
(* informers catch up and the process is restarted when it exits.          *)
(* Nothing forces an AdjustEndpoints to fail, but nothing stops one that   *)
(* fails again and again either: planning is strongly fair, it cannot be   *)
(* put off by such failures for ever.                                      *)
(***************************************************************************)
Fairness ==
  /\ \A s \in Syncs : /\ WF_vars(ListRecords(s)) /\ SF_vars(PlanAndPost(s))
                      /\ WF_vars(HandlePost(s)) /\ WF_vars(RoundEnds(s))
                      /\ WF_vars(Observe(s))
  /\ \A p \in Processes : WF_vars(Restart(p))
  /\ WF_vars(\E r \in late : HandleLatePost(r) \/ LoseLatePost(r))

FairSpec == Spec /\ Fairness

-------------------------------------------------------------------------------
TypeOK ==
  /\ IsStore(store)
  /\ goal \in Goals
  /\ view \in [Syncs -> SUBSET Endpoint] /\ \A s \in Syncs : view[s] \in Wants[SourceOf[s]]
  /\ pc \in [Syncs -> {"idle", "listed", "posted", "down"}]
  /\ listing \in [Syncs -> SUBSET Endpoint]
  /\ call \in [Syncs -> [state : {"none", "sent", "204", "500"}, batch : Batches]]
  /\ late \in SUBSET [sync : Syncs, batch : Batches]
  /\ edits \in 0 .. MaxEdits
  /\ fatals \in 0 .. MaxFatals

(***************************************************************************)
(* Safety.                                                                 *)
(***************************************************************************)
Changed(k) == k \notin DOMAIN store' \/ store'[k] # store[k]

\* The labels name the owner and no other maker: a registry that creates a
\* record signs it in the label "mesh", which an update does not repeat.
OwnedOnlyBy(l, ownerID) == l.owner = ownerID /\ l.mesh \in {ownerID, Absent}

HasOwnerTXT(k, ownerID) ==
  /\ TXTKey(k) \in DOMAIN store
  /\ OwnedOnlyBy(store[TXTKey(k)].text, ownerID)

OnlyOwnedChange(s) ==
  \A k \in DOMAIN store : Changed(k) => HasOwnerTXT(k, Config[s].txtOwner)

\* However old the listing a plan was made from, whoever else wrote to the zone
\* in between, and even if the request arrives after its sender died: handling
\* a request of sync s removes or rewrites a record only if the zone holds, at
\* that moment and at the record's name and set identifier, a TXT record that
\* names s's owner and was not signed by the registry of another sync
\* (endpoint/server.go:31, impl-notes.md "Ownership").
OwnerSafety ==
  [][/\ \A s \in Syncs : HandlePost(s) => OnlyOwnedChange(s)
     /\ \A r \in late : HandleLatePost(r) => OnlyOwnedChange(r.sync)]_vars

\* Registry TXT records and the records they speak for come and go together,
\* through every interleaving of replicas, retries and late requests.
Paired ==
  \A k \in DOMAIN store :
    IF k[2] = "TXT"
    THEN \E l \in DOMAIN store : l[2] # "TXT" /\ TXTKey(l) = k
    ELSE TXTKey(k) \in DOMAIN store

\* A record and the TXT record beside it always stem from one and the same
\* plan: they agree on the resource the record was made for.
SameOrigin ==
  \A k \in DOMAIN store :
    (k[2] # "TXT" /\ TXTKey(k) \in DOMAIN store)
      => store[k].labels.resource = store[TXTKey(k)].text.resource

(***************************************************************************)
(* What all of it amounts to: a zone whose cells have owners.              *)
(***************************************************************************)
Cells == Names \X {"TXT"} \X SetIdentifiers
SyncOwners == {Config[s].txtOwner : s \in Syncs}

\* The owner that a TXT record's labels name, or else the registry that signed
\* it: what a source does not label is created, and stays as it is.
SignedBy(l) == IF l.owner \in SyncOwners THEN l.owner
               ELSE IF l.mesh \in SyncOwners THEN l.mesh ELSE Absent

OwnerOf(c) == IF c \in DOMAIN store THEN SignedBy(store[c].text) ELSE Absent

ContentOf(c) == {store[k] : k \in {l \in DOMAIN store : l[2] # "TXT" /\ TXTKey(l) = c}}

Zone == INSTANCE OwnedZone WITH
  Owners <- SyncOwners, Nobody <- Absent,
  owner <- [c \in Cells |-> OwnerOf(c)], content <- [c \in Cells |-> ContentOf(c)]

\* Listings, plans, requests, crashes and other writers implement a zone with
\* owners: nobody's records are not taken over, an owner's are not lost to
\* another owner, and a record and its TXT record change in one step.
ZoneWithOwners == Zone!Spec

\* A record that others put there is neither removed nor rewritten by a sync
\* (impl-notes.md:18: "'sync' only deletes and updates entries that have same
\* owner").
ForeignKept ==
  [][\A s \in Syncs : HandlePost(s) =>
       \A k \in DOMAIN store : Changed(k) => store[k] \notin Foreign]_vars

(***************************************************************************)
(* Liveness.                                                               *)
(***************************************************************************)
Meets(e, d) ==
  /\ Key(e) = Key(d)
  /\ Sorted(e.targets) = Sorted(d.targets)
  /\ d.ttl \in {0, e.ttl}

OwnedFor(c, e) == \E s \in Syncs : SourceOf[s] = c /\ IsOwnedBy(e, Config[s].txtOwner)

HoldsGoal(c) ==
  LET records == {store[k] : k \in {l \in DOMAIN store : l[2] # "TXT"}}
  IN  /\ \A e \in records : OwnedFor(c, e) => \E d \in goal[c] : Meets(e, d)
      /\ \A d \in goal[c] : \E e \in records : Cell(e) = Cell(d)

\* Once a cluster stops changing, the zone comes to hold something at every name
\* it asks for, its syncs' own records are what it asks for and no others, and
\* so it stays, whatever replicas, crashes and late requests did before.  What a
\* source does not label with an owner is created and never updated or deleted.
Converges == \A c \in Clusters : <>[]HoldsGoal(c)
=============================================================================
