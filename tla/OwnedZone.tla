------------------------------ MODULE OwnedZone ------------------------------
(***************************************************************************)
(* What a registry with owners promises of a zone (impl-notes.md,          *)
(* "Ownership" and "Sync vs export"), without listings, plans, requests    *)
(* and processes.                                                          *)
(*                                                                         *)
(* A cell is a name with a set identifier: what one TXT record speaks for. *)
(* An owner takes a cell nobody has anything in, fills and refills it, and *)
(* gives it back empty; a cell never passes from one owner to another      *)
(* directly, and what is in it is never without its owner.  Others keep to *)
(* the cells of nobody.                                                    *)
(***************************************************************************)
CONSTANTS
  Cells,
  Owners,
  Nobody    \* is not an owner

VARIABLES
  owner,    \* owner[c]: an owner, or Nobody
  content   \* content[c]: the set of records in c

vars == <<owner, content>>

Init ==
  /\ owner = [c \in Cells |-> Nobody]
  /\ content = [c \in Cells |-> {}]

Claim(c, o) ==
  /\ owner[c] = Nobody /\ content[c] = {}
  /\ owner'[c] = o /\ content'[c] # {}

Refill(c, o) ==
  /\ owner[c] = o
  /\ owner'[c] = o /\ content'[c] # {}

Release(c, o) ==
  /\ owner[c] = o
  /\ owner'[c] = Nobody /\ content'[c] = {}

Untouched(c) == owner'[c] = owner[c] /\ content'[c] = content[c]

\* A request changes any number of cells, all for one owner.
Write(o) ==
  /\ DOMAIN owner' = Cells /\ DOMAIN content' = Cells
  /\ \A c \in Cells : Claim(c, o) \/ Refill(c, o) \/ Release(c, o) \/ Untouched(c)

OthersWrite ==
  /\ owner' = owner
  /\ DOMAIN content' = Cells
  /\ \A c \in Cells : owner[c] # Nobody => content'[c] = content[c]

Next == (\E o \in Owners : Write(o)) \/ OthersWrite

Spec == Init /\ [][Next]_vars

-------------------------------------------------------------------------------
\* A cell with an owner is never empty: a TXT record is not left alone.
NeverEmpty == \A c \in Cells : owner[c] # Nobody => content[c] # {}
=============================================================================
