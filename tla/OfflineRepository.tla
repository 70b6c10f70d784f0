------------------------- MODULE OfflineRepository --------------------------
(* The IndexedDB store of one account's downloads, shared by the tabs of a   *)
(* browser (apps/web/src/lib/offline/repository.ts): a control record that   *)
(* fences, a catalog of groups, and one downloaded copy of each group.       *)
(* Every operator below is one read-write transaction, or a condition that   *)
(* one looks at.  A copy stands for a group's metadata, data and expenses,   *)
(* which a transaction always replaces or deletes together.                  *)
EXTENDS Naturals

CONSTANTS Groups, Tabs,
          Nobody,      \* owns the lease when no tab does
          Gone,        \* owner of a lease whose tab was closed
          Removals     \* how many catalogs may have dropped groups before

ASSUME OwnersAssumption == Nobody # Gone /\ {Nobody, Gone} \cap Tabs = {}
ASSUME RemovalsAssumption == Removals \subseteq Nat

VARIABLES control, catalog, rows

store == <<control, catalog, rows>>

(* version is the server's revision of the copy, 0 for none; epoch counts the *)
(* deletions of the whole store before the copy was fetched.                  *)
Row == [version : Nat, dirty : BOOLEAN, epoch : Nat]
NoRow == [version |-> 0, dirty |-> FALSE, epoch |-> 0]

Control == [gen : Nat, rev : Nat, owner : Tabs \cup {Nobody, Gone}, fresh : BOOLEAN,
            revoked : BOOLEAN]

StoreTypeOK == /\ control \in Control
               /\ catalog \subseteq Groups
               /\ rows \in [Groups -> Row]

(* newControlRecord, and what such removals have made of it *)
StoreInit == /\ \E n \in Removals :
                   control = [gen |-> n, rev |-> 0, owner |-> Nobody, fresh |-> FALSE,
                              revoked |-> FALSE]
             /\ catalog = {}
             /\ rows = [g \in Groups |-> NoRow]

-----------------------------------------------------------------------------
(* requireControl, and requireNotRevoked after it *)
Current(gen) == control.gen = gen
Writable(gen) == Current(gen) /\ ~control.revoked

\* Mutant: the copy is fenced by the generation alone.
FenceByGeneration(t, gen, rev) ==
    IF ~Writable(gen) THEN "disabled"
    ELSE IF control.fresh /\ control.owner # t THEN "lease" ELSE "ok"

\* Mutant: the copy is fenced by the revision alone.
FenceByRevision(t, gen, rev) ==
    IF control.revoked THEN "disabled"
    ELSE IF control.rev # rev THEN "revision"
    ELSE IF control.fresh /\ control.owner # t THEN "lease" ELSE "ok"

(* What a download meets when it writes: a store that was reset or revoked,  *)
(* a mutation since the capture, another tab's lease that has not expired.   *)
Fence(t, gen, rev) ==
    IF ~Writable(gen) THEN "disabled"
    ELSE IF control.rev # rev THEN "revision"
    ELSE IF control.fresh /\ control.owner # t THEN "lease" ELSE "ok"

Dropped(ids) == {g \in Groups \ ids : rows[g] # NoRow}

(* Groups that are gone from the catalog are deleted, and the generation     *)
(* moves on so that older downloads cannot bring them back.                  *)
ReplaceCatalog(ids) ==
    /\ catalog' = ids
    /\ rows' = [g \in Groups |-> IF g \in Dropped(ids) THEN NoRow ELSE rows[g]]
    /\ control' = IF Dropped(ids) = {} THEN control
                  ELSE [control EXCEPT !.gen = @ + 1]

CommitGroup(g, copy) ==
    /\ rows' = [rows EXCEPT ![g] = copy]
    /\ UNCHANGED <<control, catalog>>

MarkDirty(g) ==
    /\ control' = [control EXCEPT !.rev = @ + 1]
    /\ rows' = [rows EXCEPT ![g] =
                    IF @ = NoRow THEN @ ELSE [@ EXCEPT !.dirty = TRUE]]
    /\ UNCHANGED catalog

\* Mutant: the revision is moved the wrong way.
EvictGroupBack(g) ==
    /\ control' = [control EXCEPT !.rev = @ - 1]
    /\ rows' = [rows EXCEPT ![g] = NoRow]
    /\ UNCHANGED catalog

EvictGroup(g) ==
    /\ control' = [control EXCEPT !.rev = @ + 1]
    /\ rows' = [rows EXCEPT ![g] = NoRow]
    /\ UNCHANGED catalog

DeleteGroupLocally(g) ==
    /\ control' = [control EXCEPT !.rev = @ + 1]
    /\ rows' = [rows EXCEPT ![g] = NoRow]
    /\ catalog' = catalog \ {g}

AcquireLease(t) ==
    /\ control' = [control EXCEPT !.owner = t, !.fresh = TRUE]
    /\ UNCHANGED <<catalog, rows>>

(* The tab that held the lease is closed: nobody knows its owner id any more. *)
Abandoned(t) == IF control.owner = t THEN [control EXCEPT !.owner = Gone] ELSE control

RenewLease == /\ control' = [control EXCEPT !.fresh = TRUE]
              /\ UNCHANGED <<catalog, rows>>

ReleaseLease(t, gen) ==
    /\ control' = IF Current(gen) /\ control.owner = t
                  THEN [control EXCEPT !.owner = Nobody, !.fresh = FALSE]
                  ELSE control
    /\ UNCHANGED <<catalog, rows>>

RevokeNamespace ==
    /\ control' = [control EXCEPT !.gen = @ + 1, !.revoked = TRUE,
                                  !.owner = Nobody, !.fresh = FALSE]
    /\ catalog' = {}
    /\ rows' = [g \in Groups |-> NoRow]

ReactivateNamespace ==
    IF control.revoked
    THEN /\ control' = [control EXCEPT !.gen = @ + 1, !.rev = 0, !.revoked = FALSE,
                                       !.owner = Nobody, !.fresh = FALSE]
         /\ catalog' = {}
         /\ rows' = [g \in Groups |-> NoRow]
    ELSE UNCHANGED store
=============================================================================
