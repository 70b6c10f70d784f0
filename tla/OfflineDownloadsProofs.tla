----------------------- MODULE OfflineDownloadsProofs ------------------------
(* Proofs about OfflineDownloads, for any number of groups, tabs and events. *)
EXTENDS OfflineDownloads, TLAPS

\* A pass that fetches knows no later fence than the store's, and what it has
\* fetched is good enough to write as long as the fence has not moved.
Sound(p, c, n, e) == p.pc \in {"fetching", "fetched"} =>
    /\ p.at \in Groups
    /\ p.gen <= c.gen
    /\ p.gen = c.gen => p.rev <= c.rev
    /\ p.pc = "fetched" /\ p.gen = c.gen =>
          /\ p.copy.epoch = e
          /\ p.rev = c.rev => p.copy.version >= n[p.at]
PassSound(p) == Sound(p, control, noted, epoch)

Passes == \A t \in Tabs : PassSound(pass[t])

\* What a handler is about to note has happened at the server.
Handlers == \A t \in Tabs : handler[t].pc # "idle" =>
    /\ handler[t].group \in Groups
    /\ handler[t].version <= server[handler[t].group].version

\* What was noted has happened at the server.
Noted == \A g \in Groups : noted[g] <= server[g].version

\* A copy that may be shown: not from before a deletion, and not older than what
\* was noted unless it is marked.
Shows(r, n, e) == r = NoRow \/ (r.epoch = e /\ (r.dirty \/ r.version >= n))

IInv == /\ TypeOK /\ Passes /\ Handlers /\ Noted
        /\ ReadYourWrites /\ NothingFromBefore

-----------------------------------------------------------------------------
(* Typing *)

\* A pass that is put in its place is well typed when it is a pass.
LEMMA PutType == ASSUME TypeOK, NEW t \in Tabs, NEW q \in Pass, Put(t, q)
                 PROVE  pass' \in [Tabs -> Pass]
BY DEF TypeOK, Put

\* No pass, and a pass that is ending, are passes.
LEMMA PassTypes == NoPass \in Pass /\ \A p \in Pass : Ending(p) \in Pass
<1>1. NoRow \in Row
    BY DEF NoRow, Row
<1>2. NoPass \in Pass
    BY <1>1 DEF NoPass, Pass
<1> QED BY <1>2 DEF Ending, Pass

\* A request keeps the pending groups well typed.
LEMMA RequestType ==
    ASSUME TypeOK, NEW t \in Tabs, NEW want \in SUBSET Groups,
           Request(t, want) \/ UNCHANGED pending
    PROVE  pending' \in [Tabs -> SUBSET Groups]
BY DEF TypeOK, Request

\* What the transactions of the store leave behind is a store.
LEMMA StoreTypes ==
    ASSUME StoreTypeOK,
           \/ \E ids \in SUBSET Groups : ReplaceCatalog(ids)
           \/ \E g \in Groups : \/ \E copy \in Row : CommitGroup(g, copy)
                                \/ MarkDirty(g) \/ EvictGroup(g) \/ DeleteGroupLocally(g)
           \/ \E t \in Tabs : AcquireLease(t) \/ \E gen \in Nat : ReleaseLease(t, gen)
           \/ RenewLease \/ RevokeNamespace \/ ReactivateNamespace \/ UNCHANGED store
    PROVE  StoreTypeOK'
<1>0. NoRow \in Row
    BY DEF NoRow, Row
<1> USE <1>0 DEF StoreTypeOK, Control
<1>1. ASSUME NEW ids \in SUBSET Groups, ReplaceCatalog(ids) PROVE StoreTypeOK'
    BY <1>1 DEF ReplaceCatalog, Dropped
<1>2. ASSUME NEW g \in Groups, NEW copy \in Row, CommitGroup(g, copy) PROVE StoreTypeOK'
    BY <1>2 DEF CommitGroup
<1>3. ASSUME NEW g \in Groups, MarkDirty(g) PROVE StoreTypeOK'
    <2>1. \A r \in Row : [r EXCEPT !.dirty = TRUE] \in Row
        BY DEF Row
    <2> QED BY <1>3, <2>1 DEF MarkDirty
<1>4. ASSUME NEW g \in Groups, EvictGroup(g) PROVE StoreTypeOK'
    BY <1>4 DEF EvictGroup
<1>5. ASSUME NEW g \in Groups, DeleteGroupLocally(g) PROVE StoreTypeOK'
    BY <1>5 DEF DeleteGroupLocally
<1>6. ASSUME NEW t \in Tabs, AcquireLease(t) PROVE StoreTypeOK'
    BY <1>6 DEF AcquireLease
<1>7. ASSUME NEW t \in Tabs, NEW gen \in Nat, ReleaseLease(t, gen) PROVE StoreTypeOK'
    BY <1>7 DEF ReleaseLease
<1>8. ASSUME RenewLease PROVE StoreTypeOK'
    BY <1>8 DEF RenewLease
<1>9. ASSUME RevokeNamespace \/ ReactivateNamespace \/ UNCHANGED store PROVE StoreTypeOK'
    <2>1. CASE UNCHANGED store
        BY <2>1 DEF store
    <2>e. [g \in Groups |-> NoRow] \in [Groups -> Row] /\ {} \subseteq Groups
        OBVIOUS
    <2>c. control \in Control /\ control.gen + 1 \in Nat
        OBVIOUS
    <2>2. CASE RevokeNamespace
        <3>1. control' \in Control
            BY <2>2, <2>c DEF RevokeNamespace
        <3> QED BY <2>2, <2>e, <3>1 DEF RevokeNamespace
    <2>3. CASE ReactivateNamespace /\ control.revoked
        <3>0. [control EXCEPT !.gen = control.gen + 1, !.rev = 0, !.revoked = FALSE,
                              !.owner = Nobody, !.fresh = FALSE] \in Control
            BY <2>c
        <3>1. control' \in Control
            BY <2>3, <3>0 DEF ReactivateNamespace
        <3> QED BY <2>3, <2>e, <3>1 DEF ReactivateNamespace
    <2> QED BY <1>9, <2>1, <2>2, <2>3 DEF ReactivateNamespace
<1> QED BY <1>1, <1>2, <1>3, <1>4, <1>5, <1>6, <1>7, <1>8, <1>9

\* Every step of a pass leaves a pass, pending groups and a store.
LEMMA DriveTypes ==
    ASSUME TypeOK, Passes, NEW t \in Tabs, Drive(t)
    PROVE  StoreTypeOK' /\ pass' \in [Tabs -> Pass] /\ pending' \in [Tabs -> SUBSET Groups]
<1> DEFINE p == pass[t]
<1>0. /\ p \in Pass /\ StoreTypeOK /\ control.gen \in Nat /\ control.rev \in Nat
      /\ pending[t] \in SUBSET Groups /\ pending \in [Tabs -> SUBSET Groups]
      /\ pass \in [Tabs -> Pass]
    BY DEF TypeOK, StoreTypeOK, Control
<1> DEFINE Goal == StoreTypeOK' /\ pass' \in [Tabs -> Pass]
                   /\ pending' \in [Tabs -> SUBSET Groups]
<1>g. ASSUME NEW q \in Pass, Put(t, q), StoreTypeOK', UNCHANGED pending PROVE Goal
    BY <1>0, <1>g, PutType
<1>s. UNCHANGED store => StoreTypeOK'
    BY <1>0, StoreTypes
<1>1. CASE StartPass(t)
    <2>1. pending' \in [Tabs -> SUBSET Groups]
        BY <1>0, <1>1 DEF StartPass
    <2>2. [NoPass EXCEPT !.pc = "ensured", !.gen = control.gen, !.want = pending[t]] \in Pass
        BY <1>0, PassTypes DEF Pass
    <2> QED BY <1>1, <1>s, <2>1, <2>2, PassTypes, PutType DEF StartPass
<1>2. CASE Acquire(t)
    <2>1. [p EXCEPT !.pc = "leased"] \in Pass
        BY <1>0 DEF Pass
    <2>2. StoreTypeOK'
        BY <1>0, <1>2, StoreTypes DEF Acquire
    <2> QED BY <1>2, <1>g, <2>1, <2>2, PassTypes DEF Acquire
<1>3. CASE ReadControl(t)
    <2> DEFINE read == [p EXCEPT !.gen = control.gen, !.rev = control.rev]
    <2>1. read \in Pass /\ [read EXCEPT !.pc = "catalog"] \in Pass
        BY <1>0 DEF Pass
    <2> QED BY <1>3, <1>g, <1>s, <2>1, PassTypes DEF ReadControl
<1>4. CASE FetchCatalog(t)
    <2> DEFINE tokens == [g \in Groups |-> IF g \in Members THEN server[g].version ELSE 0]
    <2>1. tokens \in [Groups -> Nat]
        BY DEF TypeOK
    <2>2. [p EXCEPT !.pc = "received", !.tokens = tokens] \in Pass
        BY <1>0, <2>1 DEF Pass
    <2> QED BY <1>0, <1>4, <1>g, <1>s, <2>2, PassTypes DEF FetchCatalog
<1>5. CASE CommitCatalog(t)
    <2>1. Published(p) \in SUBSET Groups
        BY DEF Published
    <2>2. StoreTypeOK'
        BY <1>0, <1>5, <2>1, StoreTypes, <1>s DEF CommitCatalog
    <2>3. control'.gen \in Nat
        BY <2>2 DEF StoreTypeOK, Control
    <2> DEFINE known == [p EXCEPT !.gen = control'.gen, !.rev = 0]
    <2>4. known \in Pass /\ [known EXCEPT !.pc = "inventory", !.todo = Published(p)] \in Pass
        BY <1>0, <2>1, <2>3 DEF Pass
    <2>5. pass' \in [Tabs -> Pass]
        BY <1>0, <1>5, <2>4, PassTypes, PutType DEF CommitCatalog
    <2>6. p.want \in SUBSET Groups
        BY <1>0 DEF Pass
    <2>7. pending' \in [Tabs -> SUBSET Groups]
        BY <1>0, <1>5, <2>6, RequestType DEF CommitCatalog, Ask
    <2> QED BY <2>2, <2>5, <2>7
<1>6. CASE Inventory(t)
    <2>1. \A g \in p.todo, queue \in SUBSET Groups :
             /\ [p EXCEPT !.pc = "groups", !.todo = {}, !.queue = queue,
                          !.tokens = NoPass.tokens] \in Pass
             /\ [p EXCEPT !.todo = @ \ {g}, !.queue = queue] \in Pass
        BY <1>0, PassTypes DEF Pass
    <2>2. \A g \in p.todo : p.queue \cup {g} \in SUBSET Groups /\ p.queue \in SUBSET Groups
        BY <1>0 DEF Pass
    <2> QED BY <1>6, <1>g, <1>s, <2>1, <2>2 DEF Inventory
<1>7. CASE NextGroup(t)
    <2>1. [p EXCEPT !.gen = control.gen] \in Pass
        BY <1>0 DEF Pass
    <2>2. \A g \in p.queue : [p EXCEPT !.pc = "fetching", !.at = g, !.rev = control.rev,
                                       !.queue = @ \ {g}] \in Pass
        BY <1>0 DEF Pass
    <2> QED BY <1>0, <1>7, <1>g, <1>s, <2>1, <2>2, PassTypes DEF NextGroup
<1>8. CASE FetchSnapshot(t)
    <2> DEFINE next == [p EXCEPT !.pc = "groups", !.at = Nobody, !.rev = 0]
               copy == [version |-> server[p.at].version, dirty |-> FALSE, epoch |-> epoch]
    <2>0. p.at \in Groups
        BY <1>8 DEF Passes, PassSound, Sound, FetchSnapshot
    <2>1. next \in Pass /\ [next EXCEPT !.pc = "evicted"] \in Pass
          /\ [next EXCEPT !.again = {}] \in Pass
        BY <1>0 DEF Pass
    <2>2. copy \in Row
        BY <2>0 DEF TypeOK, Row
    <2>3. [p EXCEPT !.pc = "fetched", !.copy = copy] \in Pass
        BY <1>0, <2>2 DEF Pass
    <2>4. StoreTypeOK'
        BY <1>0, <1>8, <1>s, <2>0, StoreTypes DEF FetchSnapshot
    <2> QED BY <1>8, <1>g, <2>1, <2>3, <2>4, PassTypes DEF FetchSnapshot
<1>9. CASE Reread(t)
    <2>1. [p EXCEPT !.pc = "groups", !.gen = control.gen] \in Pass
        BY <1>0 DEF Pass
    <2> QED BY <1>9, <1>g, <1>s, <2>1 DEF Reread
<1>10. CASE CommitSnapshot(t)
    <2> DEFINE next == [p EXCEPT !.pc = "groups", !.at = Nobody, !.rev = 0, !.copy = NoRow]
    <2>0. p.at \in Groups /\ p.copy \in Row
        BY <1>0, <1>10 DEF Passes, PassSound, Sound, CommitSnapshot, Pass
    <2>1. NoRow \in Row
        BY DEF NoRow, Row
    <2>2. next \in Pass /\ [next EXCEPT !.again = @ \cup {p.at}] \in Pass
        BY <1>0, <2>0, <2>1 DEF Pass
    <2>3. StoreTypeOK'
        BY <1>0, <1>10, <1>s, <2>0, StoreTypes DEF CommitSnapshot
    <2> QED BY <1>10, <1>g, <2>2, <2>3, PassTypes DEF CommitSnapshot
<1>11. CASE Abort(t)
    BY <1>0, <1>11, <1>g, <1>s, PassTypes DEF Abort
<1>12. CASE EndPass(t)
    <2>1. StoreTypeOK'
        <3>1. p.gen \in Nat
            BY <1>0 DEF Pass
        <3> QED BY <1>0, <1>12, <3>1, StoreTypes DEF EndPass
    <2>2. p.again \in SUBSET Groups /\ Groups \in SUBSET Groups
        BY <1>0 DEF Pass
    <2>3. pending' \in [Tabs -> SUBSET Groups]
        BY <1>0, <1>12, <2>2, RequestType DEF EndPass
    <2> QED BY <1>12, <2>1, <2>3, PassTypes, PutType DEF EndPass
<1>13. CASE Renew(t)
    <2>1. [p EXCEPT !.aborted = TRUE] \in Pass
        BY <1>0 DEF Pass
    <2>2. StoreTypeOK'
        BY <1>0, <1>13, <1>s, StoreTypes DEF Renew
    <2> QED BY <1>0, <1>13, <1>g, <2>1, <2>2 DEF Renew
<1> QED BY <1>1, <1>2, <1>3, <1>4, <1>5, <1>6, <1>7, <1>8, <1>9, <1>10, <1>11,
           <1>12, <1>13 DEF Drive

\* The type invariant, with the facts about passes and handlers it needs.
LEMMA Typing == IInv /\ [Next]_vars => TypeOK'
<1> SUFFICES ASSUME IInv, [Next]_vars PROVE TypeOK'
    OBVIOUS
<1>0. TypeOK /\ StoreTypeOK
    BY DEF IInv, TypeOK
<1>s. UNCHANGED store => StoreTypeOK'
    BY <1>0, StoreTypes
<1>e. /\ events' \in 0 .. MaxEvents
      /\ signOuts' \in 0 .. MaxSignOuts
    <2>1. \/ UNCHANGED <<events, signOuts>> \/ Event
          \/ /\ events < MaxEvents /\ events' = events + 1
             /\ signOuts < MaxSignOuts /\ signOuts' = signOuts + 1
        BY ZenonT(60) DEF Next, vars, OthersChange, Removed, Joined, Mutate, Trigger, Handle,
           HandlerReads, HandlerWrites, Drive, StartPass, Acquire, ReadControl,
           FetchCatalog, CommitCatalog, Inventory, NextGroup, FetchSnapshot, Reread,
           CommitSnapshot, Abort, EndPass, Renew, LeaseExpires, SignOut, Account,
           HearRevoked, ConfirmedSignedOut, Delete, Verify, Focus, Reopen, NoFault, Event
    <2> QED BY <1>0, <2>1, BudgetAssumption DEF TypeOK, Event
<1>1. ASSUME NEW t \in Tabs, Drive(t) PROVE TypeOK'
    <2>1. /\ UNCHANGED <<server, session, marker, life, handler, noted, epoch>>
          /\ overlapped' \in BOOLEAN
        BY <1>0, <1>1 DEF Drive, StartPass, Acquire, ReadControl,
           FetchCatalog, CommitCatalog, Inventory, NextGroup, FetchSnapshot, Reread,
           CommitSnapshot, Abort, EndPass, Renew, PassOnly, ghosts, TypeOK
    <2> QED BY <1>0, <1>1, <1>e, <2>1, DriveTypes DEF IInv, TypeOK
<1>2. ASSUME NEW g \in Groups, OthersChange(g) \/ Removed(g) \/ Joined(g) PROVE TypeOK'
    <2>1. server' \in [Groups -> [version : Nat, member : BOOLEAN]]
        <3>1. \A b \in BOOLEAN : [version |-> server[g].version + 1, member |-> b]
                                   \in [version : Nat, member : BOOLEAN]
            BY <1>0 DEF TypeOK
        <3> QED BY <1>0, <1>2, <3>1 DEF OthersChange, Removed, Joined, Changed, TypeOK
    <2> QED BY <1>0, <1>2, <1>e, <1>s, <2>1 DEF OthersChange, Removed, Joined, TypeOK,
           tabs, ghosts
<1>3. ASSUME NEW t \in Tabs, NEW g \in Groups, NEW kind \in {"edit", "leave"},
             Mutate(t, g, kind)
      PROVE  TypeOK'
    <2>1. server' \in [Groups -> [version : Nat, member : BOOLEAN]]
        BY <1>0, <1>3 DEF Mutate, Changed, TypeOK
    <2>2. [pc |-> "read", kind |-> kind, group |-> g, version |-> server[g].version + 1,
           gen |-> 0, live |-> TRUE] \in Handler
        BY <1>0 DEF TypeOK, Handler
    <2> QED BY <1>0, <1>3, <1>e, <1>s, <2>1, <2>2 DEF Mutate, TypeOK, ghosts
<1>4. ASSUME NEW t \in Tabs, Trigger(t) PROVE TypeOK'
    <2>1. pending' \in [Tabs -> SUBSET Groups]
        BY <1>0, <1>4, RequestType DEF Trigger
    <2> QED BY <1>0, <1>4, <1>e, <1>s, <2>1 DEF Trigger, PassOnly, ghosts, TypeOK
<1>5. ASSUME NEW t \in Tabs, HandlerReads(t) PROVE TypeOK'
    <2>1. [handler[t] EXCEPT !.pc = "write", !.gen = control.gen] \in Handler
        BY <1>0, ZenonT(60) DEF TypeOK, Handler, StoreTypeOK, Control
    <2>2. handler' = [handler EXCEPT ![t] = [handler[t] EXCEPT !.pc = "write",
                                                               !.gen = control.gen]]
        BY <1>0, <1>5 DEF HandlerReads, TypeOK
    <2> QED BY <1>0, <1>5, <1>e, <1>s, <2>1, <2>2 DEF HandlerReads, TypeOK, ghosts
<1>6. ASSUME NEW t \in Tabs, HandlerWrites(t) PROVE TypeOK'
    <2>1. handler[t].group \in Groups /\ handler[t].version \in Nat
        BY <1>0, <1>6 DEF IInv, Handlers, HandlerWrites, TypeOK, Handler
    <2>2. StoreTypeOK'
        BY <1>0, <1>6, <1>s, <2>1, StoreTypes DEF HandlerWrites
    <2>3. NoHandler \in Handler
        BY DEF NoHandler, Handler
    <2>4. noted' \in [Groups -> Nat]
        BY <1>0, <1>6, <2>1 DEF HandlerWrites, Note, TypeOK
    <2>5. pending' \in [Tabs -> SUBSET Groups]
        BY <1>0, <1>6, <2>1, RequestType DEF HandlerWrites
    <2> QED BY <1>0, <1>6, <1>e, <2>2, <2>3, <2>4, <2>5 DEF HandlerWrites, TypeOK
<1>7. ASSUME LeaseExpires PROVE TypeOK'
    BY <1>0, <1>7, <1>e DEF LeaseExpires, PassOnly, ghosts, TypeOK, StoreTypeOK, Control
<1>8. ASSUME NEW t \in Tabs, SignOut(t) \/ ConfirmedSignedOut(t) PROVE TypeOK'
    <2>0. Leave(t) /\ session' \in BOOLEAN
        BY <1>0, <1>8 DEF SignOut, ConfirmedSignedOut, TypeOK
    <2>1. [session |-> "out", gen |-> life[t].gen + 1, cleanup |-> "deleting",
           drop |-> life[t].gen + 1] \in Life
        BY <1>0 DEF TypeOK, Life
    <2>2. [pass[t] EXCEPT !.aborted = @ \/ pass[t].pc # "idle"] \in Pass
        BY <1>0, ZenonT(60) DEF TypeOK, Pass
    <2>3. [handler[t] EXCEPT !.live = FALSE] \in Handler
        BY <1>0 DEF TypeOK, Handler
    <2>4. life' \in [Tabs -> Life]
        BY <1>0, <2>0, <2>1 DEF Leave, TypeOK
    <2>5. pass' \in [Tabs -> Pass]
        BY <1>0, <2>0, <2>2 DEF Leave, TypeOK
    <2>6. handler' \in [Tabs -> Handler]
        BY <1>0, <2>0, <2>3 DEF Leave, TypeOK
    <2> QED BY <1>0, <1>e, <1>s, <2>0, <2>4, <2>5, <2>6 DEF Leave, TypeOK, ghosts
<1>9. ASSUME NEW t \in Tabs, HearRevoked(t) \/ Focus(t) PROVE TypeOK'
    <2>0. life[t] \in Life /\ control.gen \in Nat
        BY <1>0 DEF TypeOK, StoreTypeOK, Control
    <2>n. life[t].gen + 1 \in Nat
        BY <2>0 DEF Life
    <2>1. [life[t] EXCEPT !.session = "offline", !.gen = life[t].gen + 1] \in Life
        BY <2>0, <2>n DEF Life
    <2>3. [life[t] EXCEPT !.gen = control.gen] \in Life
        BY <2>0 DEF Life
    <2>2. life' \in [Tabs -> Life]
        BY <1>0, <1>9, <2>1, <2>3 DEF HearRevoked, Focus, TypeOK
    <2> QED BY <1>0, <1>9, <1>e, <1>s, <2>2 DEF HearRevoked, Focus, TypeOK, ghosts
<1>10. ASSUME NEW t \in Tabs, Delete(t) PROVE TypeOK'
    <2>1. /\ [life[t] EXCEPT !.cleanup = "none", !.drop = 0] \in Life
          /\ [life[t] EXCEPT !.cleanup = "failed"] \in Life
        BY <1>0 DEF TypeOK, Life
    <2>2. life' \in [Tabs -> Life]
        BY <1>0, <1>10, <2>1 DEF Delete, TypeOK
    <2>3. StoreTypeOK'
        BY <1>0, <1>10, <1>s, StoreTypes DEF Delete
    <2>4. epoch' \in Nat
        BY <1>0, <1>10 DEF Delete, TypeOK
    <2> QED BY <1>0, <1>10, <1>e, <2>2, <2>3, <2>4 DEF Delete, TypeOK
<1>11. ASSUME NEW t \in Tabs, Verify(t) PROVE TypeOK'
    <2>1. StoreTypeOK'
        BY <1>0, <1>11, <1>s, StoreTypes DEF Verify
    <2>2. control'.gen \in Nat
        BY <2>1 DEF StoreTypeOK, Control
    <2>3. /\ [life[t] EXCEPT !.session = "verified", !.gen = control'.gen,
                             !.cleanup = IF @ = "deleting" THEN @ ELSE "none"] \in Life
          /\ [life[t] EXCEPT !.session = "verified"] \in Life
        BY <1>0, <2>2 DEF TypeOK, Life
    <2>4. life' \in [Tabs -> Life]
        BY <1>0, <1>11, <2>3 DEF Verify, TypeOK
    <2>5. epoch' \in Nat
        BY <1>0, <1>11 DEF Verify, TypeOK
    <2> QED BY <1>0, <1>11, <1>e, <2>1, <2>4, <2>5 DEF Verify, TypeOK
<1>12. ASSUME NEW t \in Tabs, Reopen(t) PROVE TypeOK'
    <2>1. StoreTypeOK'
        BY <1>0, <1>12 DEF Reopen, Abandoned, StoreTypeOK, Control
    <2>2. life' \in [Tabs -> Life]
        BY <1>0, <1>12 DEF Reopen, TypeOK, Life, StoreTypeOK, Control
    <2>3. NoHandler \in Handler
        BY DEF NoHandler, Handler
    <2> QED BY <1>0, <1>12, <1>e, <2>1, <2>2, <2>3, PassTypes DEF Reopen, TypeOK, ghosts
<1>13. CASE UNCHANGED vars
    BY <1>0, <1>13, <1>s DEF vars, tabs, ghosts, TypeOK
<1> QED BY <1>1, <1>2, <1>3, <1>4, <1>5, <1>6, <1>7, <1>8, <1>9, <1>10, <1>11, <1>12,
           <1>13 DEF Next, Handle, Account

-----------------------------------------------------------------------------
(* Fences *)

\* The fence moves on, or nothing was noted and nothing deleted.
Ahead == \/ control'.gen > control.gen
         \/ control'.gen = control.gen /\ control'.rev > control.rev /\ epoch' = epoch
         \/ /\ control'.gen = control.gen /\ control'.rev = control.rev
            /\ UNCHANGED <<noted, epoch>>

\* Every step moves the fence on, or leaves alone what was noted and deleted.
LEMMA Forward == IInv /\ [Next]_vars => Ahead
<1> SUFFICES ASSUME IInv, [Next]_vars PROVE Ahead
    OBVIOUS
<1>0. TypeOK /\ control \in Control /\ control.gen \in Nat /\ control.rev \in Nat
    BY DEF IInv, TypeOK, StoreTypeOK, Control
<1>1. ASSUME UNCHANGED control, UNCHANGED <<noted, epoch>> PROVE Ahead
    BY <1>1 DEF Ahead
<1>2. ASSUME NEW t \in Tabs, Drive(t) PROVE Ahead
    <2>0. UNCHANGED <<noted, epoch>>
        BY <1>2 DEF Drive, StartPass, Acquire, ReadControl, FetchCatalog, CommitCatalog,
           Inventory, NextGroup, FetchSnapshot, Reread, CommitSnapshot, Abort, EndPass,
           Renew, PassOnly, ghosts
    <2>1. CASE UNCHANGED store
        BY <1>1, <2>0, <2>1 DEF store
    <2>2. CASE Acquire(t) \/ EndPass(t) \/ Renew(t)
        BY <1>0, <1>1, <2>0, <2>2 DEF Ahead, Acquire, EndPass, Renew, AcquireLease,
           ReleaseLease, RenewLease, Control, store
    <2>3. CASE CommitCatalog(t)
        BY <1>0, <1>1, <2>0, <2>3 DEF Ahead, CommitCatalog, ReplaceCatalog, Control, store
    <2>4. CASE FetchSnapshot(t)
        BY <1>0, <1>1, <2>0, <2>4 DEF Ahead, FetchSnapshot, EvictGroup, Control, store, ghosts
    <2>5. CASE CommitSnapshot(t)
        BY <1>1, <2>0, <2>5 DEF CommitSnapshot, CommitGroup, store
    <2> QED BY <1>2, <2>1, <2>2, <2>3, <2>4, <2>5 DEF Drive, StartPass, ReadControl,
           FetchCatalog, Inventory, NextGroup, Reread, Abort
<1>3. ASSUME NEW t \in Tabs, HandlerWrites(t) PROVE Ahead
    BY <1>0, <1>1, <1>3 DEF Ahead, HandlerWrites, MarkDirty, DeleteGroupLocally, Control, store
<1>4. ASSUME NEW t \in Tabs, Delete(t) PROVE Ahead
    <2>1. ASSUME RevokeNamespace PROVE control'.gen = control.gen + 1
        BY <1>0, <2>1 DEF RevokeNamespace, Control
    <2>2. CASE Current(life[t].drop)
        BY <1>0, <1>4, <2>1, <2>2 DEF Ahead, Delete
    <2>3. CASE ~Current(life[t].drop)
        BY <1>1, <1>4, <2>3 DEF Delete, store
    <2> QED BY <2>2, <2>3
<1>5. ASSUME NEW t \in Tabs, Verify(t) PROVE Ahead
    <2>1. ASSUME control.revoked, ReactivateNamespace PROVE control'.gen = control.gen + 1
        BY <1>0, <2>1 DEF ReactivateNamespace, Control
    <2>2. CASE control.revoked
        BY <1>0, <1>5, <2>1, <2>2 DEF Ahead, Verify
    <2>3. CASE ~control.revoked
        BY <1>1, <1>5, <2>3 DEF Verify, ReactivateNamespace, store
    <2> QED BY <2>2, <2>3
<1>6. ASSUME NEW t \in Tabs, Reopen(t) PROVE Ahead
    BY <1>0, <1>6 DEF Ahead, Reopen, Abandoned, Control, ghosts
<1>7. ASSUME LeaseExpires PROVE Ahead
    BY <1>0, <1>7 DEF Ahead, LeaseExpires, PassOnly, ghosts, Control
<1>8. CASE UNCHANGED <<store, ghosts>>
    BY <1>1, <1>8 DEF store, ghosts
<1> QED BY <1>2, <1>3, <1>4, <1>5, <1>6, <1>7, <1>8 DEF Next, vars, OthersChange, Removed,
           Joined, Mutate, Trigger, PassOnly, Handle, HandlerReads, SignOut, Account,
           HearRevoked, ConfirmedSignedOut, Leave, Focus

\* What was sound stays so when the fence moves on.
LEMMA Kept ==
    ASSUME TypeOK, TypeOK', Ahead, NEW p \in Pass, PassSound(p)
    PROVE  PassSound(p)'
<1>1. /\ control.gen \in Nat /\ control.rev \in Nat /\ p.gen \in Nat /\ p.rev \in Nat
      /\ control'.gen \in Nat /\ control'.rev \in Nat
    BY DEF TypeOK, StoreTypeOK, Control, Pass
<1>2. CASE control'.gen > control.gen
    BY <1>1, <1>2 DEF PassSound, Sound
<1>3. CASE control'.gen = control.gen /\ control'.rev > control.rev /\ epoch' = epoch
    BY <1>1, <1>3 DEF PassSound, Sound
<1>4. CASE /\ control'.gen = control.gen /\ control'.rev = control.rev
           /\ UNCHANGED <<noted, epoch>>
    BY <1>1, <1>4 DEF PassSound, Sound
<1> QED BY <1>2, <1>3, <1>4 DEF Ahead

\* Passes stay sound: a fence is read before the copy is fetched, and a copy that
\* is fetched shows what was noted.
LEMMA PassesKept == IInv /\ TypeOK' /\ [Next]_vars => Passes'
<1> SUFFICES ASSUME IInv, TypeOK', [Next]_vars, NEW u \in Tabs
             PROVE  PassSound(pass[u])'
    BY DEF Passes
<1>0. /\ TypeOK /\ Ahead /\ pass[u] \in Pass /\ PassSound(pass[u])
      /\ pass'[u] \in Pass
    BY Forward DEF IInv, TypeOK, Passes
<1>1. ASSUME pass'[u] = pass[u] PROVE PassSound(pass[u])'
    BY <1>0, <1>1, Kept DEF PassSound
<1>2. ASSUME pass'[u].pc \notin {"fetching", "fetched"} PROVE PassSound(pass[u])'
    BY <1>2 DEF PassSound, Sound
<1>3. ASSUME pass'[u] = [pass[u] EXCEPT !.aborted = pass'[u].aborted]
      PROVE  PassSound(pass[u])'
    <2>1. PassSound(pass'[u])
        BY <1>0, <1>3 DEF PassSound, Sound, Pass
    <2>2. Sound(pass'[u], control', noted', epoch')
        BY <1>0, <2>1, Kept DEF PassSound
    <2> QED BY <2>2 DEF PassSound
<1>4. ASSUME NEW t \in Tabs, Drive(t) PROVE PassSound(pass[u])'
    <2>1. CASE u # t
        BY <1>0, <1>1, <1>4, <2>1 DEF Drive, StartPass, Acquire, ReadControl,
           FetchCatalog, CommitCatalog, Inventory, NextGroup, FetchSnapshot, Reread,
           CommitSnapshot, Abort, EndPass, Renew, Put, TypeOK
    <2> DEFINE p == pass[t]
    <2>p. ASSUME NEW q \in Pass, Put(t, q), u = t, Sound(q, control', noted', epoch')
          PROVE  PassSound(pass[u])'
        BY <2>p DEF Put, TypeOK, PassSound, IInv
    <2>q. ASSUME NEW q \in Pass, Put(t, q), u = t, q.pc \notin {"fetching", "fetched"}
          PROVE  PassSound(pass[u])'
        BY <2>p, <2>q DEF Sound
    <2>e. Ending(p) \in Pass /\ Ending(p).pc = "ending" /\ NoPass \in Pass /\ NoPass.pc = "idle"
        BY <1>0, PassTypes DEF Ending, NoPass, TypeOK
    <2>2. CASE u = t /\ NextGroup(t)
        <3>1. CASE UNCHANGED control /\ Writable(p.gen) /\ \E g \in p.queue :
                      Put(t, [p EXCEPT !.pc = "fetching", !.at = g, !.rev = control.rev,
                                       !.queue = @ \ {g}])
            <4>1. PICK g \in p.queue :
                      Put(t, [p EXCEPT !.pc = "fetching", !.at = g, !.rev = control.rev,
                                       !.queue = @ \ {g}])
                BY <3>1
            <4> DEFINE q == [p EXCEPT !.pc = "fetching", !.at = g, !.rev = control.rev,
                                       !.queue = @ \ {g}]
            <4>2. /\ g \in Groups /\ q \in Pass /\ q.pc = "fetching" /\ q.at = g
                  /\ q.gen = p.gen /\ q.rev = control.rev /\ p.gen = control.gen
                  /\ control.gen \in Nat /\ control.rev \in Nat
                BY <1>0, <3>1, <2>2 DEF Pass, Writable, Current, TypeOK, StoreTypeOK, Control
            <4>3. Sound(q, control', noted', epoch')
                BY <3>1, <4>2 DEF Sound
            <4> QED BY <2>2, <2>p, <4>1, <4>2, <4>3
        <3>2. CASE \/ Put(t, Ending(p)) \/ Put(t, Ending([p EXCEPT !.gen = control.gen]))
            <4>1. [p EXCEPT !.gen = control.gen] \in Pass
                BY <1>0, <2>2 DEF Pass, TypeOK, StoreTypeOK, Control
            <4>2. /\ Ending([p EXCEPT !.gen = control.gen]) \in Pass
                  /\ Ending([p EXCEPT !.gen = control.gen]).pc = "ending"
                BY <4>1, PassTypes DEF Ending, NoPass
            <4> QED BY <2>2, <2>q, <2>e, <3>2, <4>2
        <3> QED BY <2>2, <3>1, <3>2 DEF NextGroup, store
    <2>3. CASE u = t /\ FetchSnapshot(t)
        <3> DEFINE next == [p EXCEPT !.pc = "groups", !.at = Nobody, !.rev = 0]
                   copy == [version |-> server[p.at].version, dirty |-> FALSE, epoch |-> epoch]
                   q == [p EXCEPT !.pc = "fetched", !.copy = copy]
        <3>0. p.at \in Groups /\ p.pc = "fetching" /\ p \in Pass
            BY <1>0, <2>3 DEF FetchSnapshot, PassSound, Sound
        <3>1. CASE Put(t, q) /\ UNCHANGED <<control, noted, epoch>>
            <4>1. copy \in Row
                BY <1>0, <3>0 DEF TypeOK, Row
            <4>2. /\ q \in Pass /\ q.pc = "fetched" /\ q.at = p.at /\ q.gen = p.gen
                  /\ q.rev = p.rev /\ q.copy = copy
                BY <3>0, <4>1 DEF Pass
            <4>3. noted[p.at] <= server[p.at].version
                BY <3>0 DEF IInv, Noted
            <4>4. Sound(p, control, noted, epoch)
                BY <1>0, <2>3 DEF PassSound
            <4>5. copy.epoch = epoch /\ copy.version = server[p.at].version
                  /\ server[p.at].version \in Nat /\ noted[p.at] \in Nat
                BY <1>0, <3>0 DEF TypeOK
            <4>6. Sound(q, control', noted', epoch')
                BY <3>0, <3>1, <4>2, <4>3, <4>4, <4>5 DEF Sound
            <4> QED BY <2>3, <2>p, <3>1, <4>2, <4>6
        <3>2. CASE \/ Put(t, next) \/ Put(t, [next EXCEPT !.pc = "evicted"])
                   \/ Put(t, Ending([next EXCEPT !.again = {}]))
            <4>1. /\ next \in Pass /\ next.pc = "groups"
                  /\ [next EXCEPT !.pc = "evicted"] \in Pass
                  /\ [next EXCEPT !.pc = "evicted"].pc = "evicted"
                  /\ [next EXCEPT !.again = {}] \in Pass
                BY <3>0 DEF Pass
            <4>2. /\ Ending([next EXCEPT !.again = {}]) \in Pass
                  /\ Ending([next EXCEPT !.again = {}]).pc = "ending"
                BY <4>1, PassTypes DEF Ending, NoPass
            <4> QED BY <2>3, <2>q, <3>2, <4>1, <4>2
        <3> QED BY <2>3, <3>1, <3>2 DEF FetchSnapshot, PassOnly, ghosts, store
    <2>4. CASE u = t /\ Renew(t)
        <3>1. CASE UNCHANGED pass
            BY <1>1, <3>1
        <3>2. CASE Put(t, [p EXCEPT !.aborted = TRUE])
            <4>1. pass'[u] = [pass[u] EXCEPT !.aborted = TRUE]
                BY <1>0, <2>4, <3>2 DEF Put, TypeOK
            <4>2. pass'[u].aborted = TRUE
                BY <1>0, <4>1 DEF Pass
            <4> QED BY <1>3, <4>1, <4>2
        <3> QED BY <2>4, <3>1, <3>2 DEF Renew
    <2>5. CASE u = t /\ (StartPass(t) \/ Acquire(t) \/ Abort(t) \/ EndPass(t))
        <3>1. pass'[u] = NoPass \/ pass'[u] = Ending(p)
              \/ pass'[u] = [NoPass EXCEPT !.pc = "ensured", !.gen = control.gen,
                                           !.want = pending[t]]
              \/ pass'[u] = [p EXCEPT !.pc = "leased"]
            BY <1>0, <2>5 DEF StartPass, Acquire, Abort, EndPass, Put, TypeOK
        <3> QED BY <1>0, <1>2, <2>e, <3>1 DEF NoPass, Pass
    <2>0. p \in Pass /\ control.gen \in Nat /\ control.rev \in Nat /\ control'.gen \in Nat
        BY <1>0 DEF TypeOK, StoreTypeOK, Control
    <2>6. CASE u = t /\ (ReadControl(t) \/ Reread(t))
        <3> DEFINE read == [p EXCEPT !.gen = control.gen, !.rev = control.rev]
                   r == [read EXCEPT !.pc = "catalog"]
                   q == [p EXCEPT !.pc = "groups", !.gen = control.gen]
        <3>1. /\ read \in Pass
              /\ r \in Pass /\ r.pc = "catalog"
              /\ q \in Pass /\ q.pc = "groups"
            BY <2>0 DEF Pass
        <3>2. Ending(read) \in Pass /\ Ending(read).pc = "ending"
            BY <3>1, PassTypes DEF Ending, NoPass
        <3>3. Put(t, Ending(read)) \/ Put(t, r) \/ Put(t, q)
            BY <2>6 DEF ReadControl, Reread
        <3> QED BY <2>6, <2>q, <3>1, <3>2, <3>3
    <2>7. CASE u = t /\ FetchCatalog(t)
        <3>1. PICK q : /\ Put(t, q)
                       /\ \/ q = Ending(p)
                          \/ q = [p EXCEPT !.pc = "received", !.tokens = q.tokens]
            <4> DEFINE tokens == [g \in Groups |-> IF g \in Members THEN server[g].version
                                                   ELSE 0]
            <4>1. CASE Put(t, Ending(p))
                BY <4>1
            <4>2. CASE Put(t, [p EXCEPT !.pc = "received", !.tokens = tokens])
                <5>1. [p EXCEPT !.pc = "received", !.tokens = tokens].tokens = tokens
                    BY <2>0 DEF Pass
                <5> QED BY <4>2, <5>1
            <4> QED BY <2>7, <4>1, <4>2 DEF FetchCatalog
        <3>2. q.pc \in {"ending", "received"}
            BY <2>0, <2>e, <3>1 DEF Pass
        <3>3. pass'[u] = q
            BY <1>0, <2>7, <3>1 DEF Put, TypeOK
        <3> QED BY <1>2, <3>2, <3>3
    <2>8. CASE u = t /\ Inventory(t)
        <3>1. PICK g \in p.todo : \E queue : pass'[u] =
                  IF p.todo = {g}
                  THEN [p EXCEPT !.pc = "groups", !.todo = {}, !.queue = queue,
                                 !.tokens = NoPass.tokens]
                  ELSE [p EXCEPT !.todo = @ \ {g}, !.queue = queue]
            BY <1>0, <2>8 DEF Inventory, Put, TypeOK
        <3>2. p.pc = "inventory"
            BY <2>8 DEF Inventory
        <3>3. pass'[u].pc \in {"groups", "inventory"}
            BY <2>0, <3>1, <3>2 DEF Pass
        <3> QED BY <1>2, <3>3
    <2>9. CASE u = t /\ CommitCatalog(t)
        <3> DEFINE known == [p EXCEPT !.gen = control'.gen, !.rev = 0]
                   r == [known EXCEPT !.pc = "inventory", !.todo = Published(p)]
        <3>1. known \in Pass /\ r \in Pass /\ r.pc = "inventory"
            BY <2>0 DEF Pass, Published
        <3>2. Ending(known) \in Pass /\ Ending(known).pc = "ending"
            BY <3>1, PassTypes DEF Ending, NoPass
        <3>3. Put(t, Ending(p)) \/ Put(t, Ending(known)) \/ Put(t, r)
            BY <2>9 DEF CommitCatalog
        <3> QED BY <2>9, <2>e, <2>q, <3>1, <3>2, <3>3
    <2>10. CASE u = t /\ CommitSnapshot(t)
        <3> DEFINE next == [p EXCEPT !.pc = "groups", !.at = Nobody, !.rev = 0, !.copy = NoRow]
                   r == [next EXCEPT !.again = @ \cup {p.at}]
        <3>0. p.at \in Groups
            BY <1>0, <2>10 DEF CommitSnapshot, PassSound, Sound
        <3>n. NoRow \in Row
            BY DEF NoRow, Row
        <3>1. next \in Pass /\ next.pc = "groups" /\ r \in Pass /\ r.pc = "groups"
            BY <2>0, <3>0, <3>n DEF Pass
        <3>2. Ending(next) \in Pass /\ Ending(next).pc = "ending"
            BY <3>1, PassTypes DEF Ending, NoPass
        <3>3. Put(t, Ending(next)) \/ Put(t, next) \/ Put(t, r)
            BY <2>10 DEF CommitSnapshot
        <3> QED BY <2>10, <2>q, <3>1, <3>2, <3>3
    <2> QED BY <1>4, <2>1, <2>2, <2>3, <2>4, <2>5, <2>6, <2>7, <2>8, <2>9, <2>10 DEF Drive
<1>5. ASSUME NEW t \in Tabs, SignOut(t) \/ ConfirmedSignedOut(t) PROVE PassSound(pass[u])'
    BY <1>0, <1>1, <1>3, <1>5 DEF SignOut, ConfirmedSignedOut, Leave, TypeOK, Pass
<1>6. ASSUME NEW t \in Tabs, Reopen(t) PROVE PassSound(pass[u])'
    BY <1>0, <1>1, <1>2, <1>6 DEF Reopen, NoPass, TypeOK
<1>7. CASE UNCHANGED pass
    BY <1>1, <1>7
<1> QED BY <1>4, <1>5, <1>6, <1>7 DEF Next, vars, tabs, OthersChange, Removed,
           Joined, Mutate, Trigger, Handle, HandlerReads, HandlerWrites, Account,
           HearRevoked, Delete, Verify, Focus, LeaseExpires

-----------------------------------------------------------------------------
(* Copies *)

AllShow == \A g \in Groups : Shows(rows[g], noted[g], epoch)

\* What is stored may be shown, and goes on to be so: only a copy whose fence
\* still holds is written, and noting a mutation marks or deletes the copy.
LEMMA RowsKept == IInv /\ TypeOK' /\ AllShow /\ [Next]_vars => AllShow'
<1> SUFFICES ASSUME IInv, TypeOK', AllShow, [Next]_vars, NEW g \in Groups
             PROVE  Shows(rows[g], noted[g], epoch)'
    BY DEF AllShow
<1>0. /\ TypeOK /\ Shows(rows[g], noted[g], epoch)
      /\ rows \in [Groups -> Row] /\ rows[g] \in Row /\ noted \in [Groups -> Nat]
    BY DEF IInv, AllShow, TypeOK, StoreTypeOK
<1>1. ASSUME rows'[g] = rows[g], noted'[g] = noted[g], epoch' = epoch
      PROVE  Shows(rows[g], noted[g], epoch)'
    BY <1>0, <1>1 DEF Shows
<1>2. ASSUME rows'[g] = NoRow PROVE Shows(rows[g], noted[g], epoch)'
    BY <1>2 DEF Shows
<1>3. ASSUME NEW t \in Tabs, Drive(t) PROVE Shows(rows[g], noted[g], epoch)'
    <2>0. UNCHANGED <<noted, epoch>>
        BY <1>3 DEF Drive, StartPass, Acquire, ReadControl, FetchCatalog, CommitCatalog,
           Inventory, NextGroup, FetchSnapshot, Reread, CommitSnapshot, Abort, EndPass,
           Renew, PassOnly, ghosts
    <2>1. CASE UNCHANGED rows
        BY <1>1, <2>0, <2>1
    <2>2. CASE CommitCatalog(t) /\ ~UNCHANGED rows
        BY <1>0, <1>1, <1>2, <2>0, <2>2 DEF CommitCatalog, ReplaceCatalog, store
    <2>3. CASE FetchSnapshot(t) /\ ~UNCHANGED rows
        BY <1>0, <1>1, <1>2, <2>0, <2>3 DEF FetchSnapshot, EvictGroup, store
    <2>4. CASE CommitSnapshot(t) /\ ~UNCHANGED rows
        <3>1. /\ Fence(t, pass[t].gen, pass[t].rev) = "ok" /\ pass[t].pc = "fetched"
              /\ CommitGroup(pass[t].at, pass[t].copy)
            BY <2>4 DEF CommitSnapshot, store
        <3>2. PassSound(pass[t])
            BY DEF IInv, Passes
        <3>3. control.gen = pass[t].gen /\ control.rev = pass[t].rev
            BY <3>1 DEF Fence, Writable, Current
        <3>4. /\ pass[t].at \in Groups /\ pass[t].copy.epoch = epoch
              /\ pass[t].copy.version >= noted[pass[t].at]
            BY <3>1, <3>2, <3>3 DEF PassSound, Sound
        <3>5. CASE g = pass[t].at
            <4>1. rows'[g] = pass[t].copy
                BY <1>0, <3>1, <3>5 DEF CommitGroup
            <4> QED BY <2>0, <3>4, <3>5, <4>1 DEF Shows
        <3>6. CASE g # pass[t].at
            BY <1>0, <1>1, <2>0, <3>1, <3>6 DEF CommitGroup
        <3> QED BY <3>5, <3>6
    <2> QED BY <1>3, <2>1, <2>2, <2>3, <2>4 DEF Drive, StartPass, Acquire, ReadControl,
           FetchCatalog, Inventory, NextGroup, Reread, Abort, EndPass, Renew,
           AcquireLease, RenewLease, ReleaseLease, store
<1>4. ASSUME NEW t \in Tabs, HandlerWrites(t) PROVE Shows(rows[g], noted[g], epoch)'
    <2> DEFINE h == handler[t]
    <2>0. epoch' = epoch /\ h.group \in Groups
        BY <1>4 DEF HandlerWrites, IInv, Handlers
    <2>1. CASE UNCHANGED <<store, noted>>
        BY <1>1, <2>0, <2>1 DEF store
    <2>2. CASE MarkDirty(h.group) /\ Note(h.group, h.version)
        <3>1. CASE g = h.group
            <4>1. rows'[g] = IF rows[g] = NoRow THEN rows[g]
                             ELSE [rows[g] EXCEPT !.dirty = TRUE]
                BY <1>0, <2>2, <3>1 DEF MarkDirty
            <4>2. [rows[g] EXCEPT !.dirty = TRUE].epoch = rows[g].epoch
                  /\ [rows[g] EXCEPT !.dirty = TRUE].dirty = TRUE
                BY <1>0 DEF Row
            <4> QED BY <1>0, <2>0, <4>1, <4>2 DEF Shows
        <3>2. CASE g # h.group
            <4>1. rows'[g] = rows[g] /\ noted'[g] = noted[g]
                BY <1>0, <2>2, <3>2 DEF MarkDirty, Note
            <4> QED BY <1>1, <2>0, <4>1
        <3> QED BY <3>1, <3>2
    <2>3. CASE DeleteGroupLocally(h.group) /\ Note(h.group, h.version)
        <3>1. CASE g = h.group
            BY <1>0, <1>2, <2>3, <3>1 DEF DeleteGroupLocally
        <3>2. CASE g # h.group
            BY <1>0, <1>1, <2>0, <2>3, <3>2 DEF DeleteGroupLocally, Note
        <3> QED BY <3>1, <3>2
    <2> QED BY <1>4, <2>1, <2>2, <2>3 DEF HandlerWrites
<1>5. ASSUME NEW t \in Tabs, Delete(t) \/ Verify(t) PROVE Shows(rows[g], noted[g], epoch)'
    <2>1. CASE RevokeNamespace \/ (ReactivateNamespace /\ control.revoked)
        BY <1>2, <2>1 DEF RevokeNamespace, ReactivateNamespace
    <2>2. CASE UNCHANGED <<store, ghosts>>
        BY <1>1, <2>2 DEF store, ghosts
    <2> QED BY <1>5, <2>1, <2>2 DEF Delete, Verify, ReactivateNamespace, ghosts
<1>6. CASE UNCHANGED <<rows, noted, epoch>>
    BY <1>1, <1>6
<1> QED BY <1>3, <1>4, <1>5, <1>6 DEF Next, vars, store, ghosts, OthersChange, Removed,
       Joined, Mutate, Trigger, PassOnly, Handle, HandlerReads, LeaseExpires, SignOut,
       Account, HearRevoked, ConfirmedSignedOut, Leave, Focus, Reopen

\* What is noted, or about to be, has happened: versions only grow.
LEMMA NotedKept == IInv /\ TypeOK' /\ [Next]_vars => Handlers' /\ Noted'
<1> SUFFICES ASSUME IInv, TypeOK', [Next]_vars PROVE Handlers' /\ Noted'
    OBVIOUS
<1>0. /\ TypeOK /\ Handlers /\ Noted
      /\ server \in [Groups -> [version : Nat, member : BOOLEAN]]
      /\ noted \in [Groups -> Nat] /\ handler \in [Tabs -> Handler]
    BY DEF IInv, TypeOK
<1>v. ASSUME NEW g \in Groups, NEW m \in BOOLEAN, Changed(g, m)
      PROVE  /\ \A k \in Groups : server[k].version <= server'[k].version
             /\ server'[g].version = server[g].version + 1
    <2>1. server[g].version \in Nat /\ \A k \in Groups : server[k].version \in Nat
        BY <1>0
    <2>2. server'[g] = [version |-> server[g].version + 1, member |-> m]
        BY <1>0, <1>v DEF Changed
    <2>3. \A k \in Groups : k # g => server'[k] = server[k]
        BY <1>0, <1>v DEF Changed
    <2> QED BY <2>1, <2>2, <2>3
<1>1. ASSUME UNCHANGED noted, \A k \in Groups : server[k].version <= server'[k].version
      PROVE  Noted'
    <2> SUFFICES ASSUME NEW k \in Groups PROVE noted[k] <= server'[k].version
        BY <1>1 DEF Noted
    <2>1. /\ noted[k] \in Nat /\ server[k].version \in Nat /\ server'[k].version \in Nat
          /\ noted[k] <= server[k].version
        BY <1>0 DEF Noted, TypeOK
    <2> QED BY <1>1, <2>1
<1>2. ASSUME \A k \in Groups : server[k].version <= server'[k].version,
             NEW t \in Tabs, handler[t].pc # "idle",
             handler'[t].group = handler[t].group, handler'[t].version = handler[t].version
      PROVE  /\ handler'[t].group \in Groups
             /\ handler'[t].version <= server'[handler'[t].group].version
    <2>1. /\ handler[t].group \in Groups /\ handler[t].version \in Nat
          /\ handler[t].version <= server[handler[t].group].version
        BY <1>0, <1>2 DEF Handlers, Handler
    <2>2. server[handler[t].group].version \in Nat /\ server'[handler[t].group].version \in Nat
        BY <1>0, <2>1 DEF TypeOK
    <2> QED BY <1>2, <2>1, <2>2
<1>h. ASSUME UNCHANGED handler, \A k \in Groups : server[k].version <= server'[k].version
      PROVE  Handlers'
    BY <1>2, <1>h DEF Handlers
<1>s. UNCHANGED server => \A k \in Groups : server[k].version <= server'[k].version
    BY <1>0
<1>3. CASE UNCHANGED <<handler, noted, server>>
    BY <1>1, <1>3, <1>h, <1>s
<1>4. ASSUME NEW g \in Groups, OthersChange(g) \/ Removed(g) \/ Joined(g)
      PROVE  Handlers' /\ Noted'
    BY <1>1, <1>4, <1>h, <1>v DEF OthersChange, Removed, Joined, tabs, ghosts
<1>5. ASSUME NEW t \in Tabs, NEW g \in Groups, NEW kind \in {"edit", "leave"},
             Mutate(t, g, kind)
      PROVE  Handlers' /\ Noted'
    <2>1. /\ \A k \in Groups : server[k].version <= server'[k].version
          /\ server'[g].version = server[g].version + 1
        <3>1. Changed(g, kind = "edit") /\ (kind = "edit") \in BOOLEAN
            BY <1>5 DEF Mutate
        <3> QED BY <1>v, <3>1
    <2>2. /\ handler'[t].group = g /\ handler'[t].version = server[g].version + 1
          /\ \A u \in Tabs : u # t => handler'[u] = handler[u]
        BY <1>0, <1>5 DEF Mutate
    <2>3. server[g].version \in Nat
        BY <1>0
    <2>4. Handlers'
        BY <1>2, <2>1, <2>2, <2>3 DEF Handlers
    <2>5. Noted'
        BY <1>1, <1>5, <2>1 DEF Mutate, ghosts
    <2> QED BY <2>4, <2>5
<1>6. ASSUME NEW t \in Tabs, HandlerReads(t) PROVE Handlers' /\ Noted'
    <2>0. handler[t].pc = "read" /\ UNCHANGED <<server, noted>>
        BY <1>6 DEF HandlerReads, ghosts
    <2>1. /\ handler'[t].group = handler[t].group /\ handler'[t].version = handler[t].version
          /\ \A u \in Tabs : u # t => handler'[u] = handler[u]
        BY <1>0, <1>6 DEF HandlerReads, Handler
    <2>2. Handlers'
        BY <1>2, <1>s, <2>0, <2>1 DEF Handlers
    <2> QED BY <1>1, <1>s, <2>0, <2>2
<1>7. ASSUME NEW t \in Tabs, HandlerWrites(t) PROVE Handlers' /\ Noted'
    <2>1. /\ handler[t].group \in Groups
          /\ handler[t].version <= server[handler[t].group].version /\ UNCHANGED server
        BY <1>0, <1>7 DEF HandlerWrites, Handlers
    <2>2. handler' = [handler EXCEPT ![t] = NoHandler] /\ NoHandler.pc = "idle"
        BY <1>7 DEF HandlerWrites, NoHandler
    <2>3. Handlers'
        BY <1>0, <1>2, <1>s, <2>1, <2>2 DEF Handlers
    <2>4. UNCHANGED noted \/ Note(handler[t].group, handler[t].version)
        BY <1>7 DEF HandlerWrites
    <2>5. Noted'
        BY <1>0, <1>1, <1>s, <2>1, <2>4 DEF Noted, Note
    <2> QED BY <2>3, <2>5
<1>8. ASSUME NEW t \in Tabs, SignOut(t) \/ ConfirmedSignedOut(t) PROVE Handlers' /\ Noted'
    <2>0. Leave(t) /\ UNCHANGED <<server, noted>>
        BY <1>8 DEF SignOut, ConfirmedSignedOut, Leave, ghosts
    <2>1. /\ handler'[t].group = handler[t].group /\ handler'[t].version = handler[t].version
          /\ handler'[t].pc = handler[t].pc
          /\ \A u \in Tabs : u # t => handler'[u] = handler[u]
        BY <1>0, <2>0 DEF Leave, Handler
    <2>2. Handlers'
        BY <1>2, <1>s, <2>0, <2>1 DEF Handlers
    <2> QED BY <1>1, <1>s, <2>0, <2>2
<1>9. ASSUME NEW t \in Tabs, Reopen(t) PROVE Handlers' /\ Noted'
    <2>1. UNCHANGED <<server, noted>> /\ handler' = [handler EXCEPT ![t] = NoHandler]
          /\ NoHandler.pc = "idle"
        BY <1>9 DEF Reopen, ghosts, NoHandler
    <2>2. Handlers'
        BY <1>0, <1>2, <1>s, <2>1 DEF Handlers
    <2> QED BY <1>1, <1>s, <2>1, <2>2
<1> QED BY <1>3, <1>4, <1>5, <1>6, <1>7, <1>8, <1>9 DEF Next, vars, tabs, ghosts, Drive,
       StartPass, Acquire, ReadControl, FetchCatalog, CommitCatalog, Inventory, NextGroup,
       FetchSnapshot, Reread, CommitSnapshot, Abort, EndPass, Renew, Trigger, PassOnly,
       Handle, LeaseExpires, Account, HearRevoked, Delete, Verify, Focus

-----------------------------------------------------------------------------
(* The theorems *)

\* AllShow is ReadYourWrites and NothingFromBefore at once.
LEMMA ShowsBoth == TypeOK => (AllShow <=> ReadYourWrites /\ NothingFromBefore)
BY DEF AllShow, Shows, ReadYourWrites, NothingFromBefore

\* The inductive invariant holds at first.
LEMMA Initially == Init => IInv
<1> SUFFICES ASSUME Init PROVE IInv
    OBVIOUS
<1>1. NoRow \in Row /\ NoHandler \in Handler
    BY DEF NoRow, Row, NoHandler, Handler
<1>2. StoreTypeOK
    BY <1>1, RemovalsAssumption DEF Init, StoreInit, StoreTypeOK, Control
<1>3. life \in [Tabs -> Life]
    BY DEF Init, Life
<1>4. server \in [Groups -> [version : Nat, member : BOOLEAN]]
    BY DEF Init
<1>5. events \in 0 .. MaxEvents /\ signOuts \in 0 .. MaxSignOuts
    BY BudgetAssumption DEF Init
<1>6. TypeOK
    BY <1>1, <1>2, <1>3, <1>4, <1>5, PassTypes DEF Init, TypeOK
<1>7. Passes
    BY DEF Init, Passes, PassSound, Sound, NoPass
<1>8. Handlers /\ Noted
    BY DEF Init, Handlers, Noted, NoHandler
<1>9. ReadYourWrites /\ NothingFromBefore
    BY DEF Init, StoreInit, ReadYourWrites, NothingFromBefore
<1> QED BY <1>6, <1>7, <1>8, <1>9 DEF IInv

\* Every step keeps it.
LEMMA Inductive == IInv /\ [Next]_vars => IInv'
<1> SUFFICES ASSUME IInv, [Next]_vars PROVE IInv'
    OBVIOUS
<1>1. TypeOK' /\ TypeOK
    BY Typing DEF IInv
<1>2. AllShow
    BY <1>1, ShowsBoth DEF IInv
<1>3. AllShow'
    BY <1>1, <1>2, RowsKept
<1>4. ReadYourWrites' /\ NothingFromBefore'
    BY <1>1, <1>3 DEF AllShow, Shows, ReadYourWrites, NothingFromBefore
<1> QED BY <1>1, <1>4, PassesKept, NotedKept DEF IInv

\* Fences, noted mutations and stored copies agree in every reachable state.
THEOREM Invariance == Spec => []IInv
BY Initially, Inductive, PTL DEF Spec

\* The store, the passes, the handlers and the sessions stay well typed.
THEOREM TypeCorrect == Spec => []TypeOK
<1>1. IInv => TypeOK
    BY DEF IInv
<1> QED BY <1>1, Invariance, PTL

\* A stored copy shows every mutation of this browser whose handler has run, or
\* is marked as stale, however many tabs download and whatever fails: the fence
\* of commitGroup is read before the copy is fetched and moved by every mutation.
THEOREM KeepsWrites == Spec => []ReadYourWrites
<1>1. IInv => ReadYourWrites
    BY DEF IInv
<1> QED BY <1>1, Invariance, PTL

\* What was downloaded before the account's copies were deleted never comes back
\* after it, though passes of the earlier life are still in flight and the
\* revision starts again from zero (revokeNamespace, reactivateNamespace).
THEOREM NothingReturns == Spec => []NothingFromBefore
<1>1. IInv => NothingFromBefore
    BY DEF IInv
<1> QED BY <1>1, Invariance, PTL

-----------------------------------------------------------------------------
(* Leases *)

\* Pcs of a pass that still may write, and one that may.
Working == Holding \ {"ending"}
Alive(p) == p.pc \in Working /\ (p.pc \in {"leased", "evicted"} \/ Current(p.gen))

\* Stored and fetched copies are versions the server has had.
Known ==
    /\ \A g \in Groups : rows[g].version <= server[g].version
    /\ \A t \in Tabs : pass[t].pc = "fetched" =>
          pass[t].copy.version <= server[pass[t].at].version

\* No pass knows a generation to come.
Behind == \A t \in Tabs : pass[t].pc \in Working \cup {"ensured"} =>
    pass[t].gen <= control.gen

\* Unless a lease was stolen, one pass at most may write, and no other tab has
\* the lease.
Lone == ~overlapped => \A t \in Tabs : Alive(pass[t]) =>
    /\ control.owner \in {t, Nobody}
    /\ \A u \in Tabs : Alive(pass[u]) => u = t

\* What that pass has fetched is at least as new as what is stored.
Newest == ~overlapped => \A t \in Tabs : pass[t].pc = "fetched" /\ Alive(pass[t]) =>
    rows[pass[t].at].version <= pass[t].copy.version

LeaseInv == Known /\ Behind /\ Lone /\ Newest

\* How the pass of a tab may change: it keeps its generation or takes the store's;
\* only the lease makes it write; and what it has fetched is the server's.
Turn(p, q, won) ==
    /\ q.pc \in Working \cup {"ensured"} =>
          \/ q.gen \in {control.gen, control'.gen}
          \/ p.pc \in Working \cup {"ensured"} /\ q.gen = p.gen
    /\ q.pc \in Working =>
          \/ won \/ Alive(p)
          \/ p.pc \in Working /\ q.gen = p.gen /\ q.pc \notin {"leased", "evicted"}
    /\ q.pc = "fetched" =>
          \/ p.pc = "fetched" /\ q.at = p.at /\ q.copy = p.copy
          \/ /\ p.pc = "fetching" /\ q.at = p.at
             /\ q.copy.version = server[p.at].version /\ UNCHANGED <<rows, server>>
Won(t) == Acquire(t) /\ pass'[t].pc = "leased"

LEMMA PutIs == ASSUME TypeOK, NEW t \in Tabs, NEW q, Put(t, q)
               PROVE  pass'[t] = q /\ \A u \in Tabs : u # t => pass'[u] = pass[u]
BY DEF TypeOK, Put

\* A pass that stays, or is only aborted, takes no turn.
LEMMA SameTurn ==
    ASSUME NEW p \in Pass, NEW b \in BOOLEAN, NEW won \in BOOLEAN,
           NEW q, q = p \/ q = [p EXCEPT !.aborted = b]
    PROVE  Turn(p, q, won)
<1>1. q.pc = p.pc /\ q.gen = p.gen /\ q.at = p.at /\ q.copy = p.copy
    BY DEF Pass
<1> QED BY <1>1 DEF Turn, Alive

\* A step of a pass is a turn.
LEMMA DriveTurns ==
    ASSUME TypeOK, Passes, NEW t \in Tabs, Drive(t)
    PROVE  Turn(pass[t], pass'[t], Won(t)) /\ \A u \in Tabs : u # t => pass'[u] = pass[u]
<1> DEFINE p == pass[t]
           q == pass'[t]
           Goal == Turn(p, q, Won(t)) /\ \A u \in Tabs : u # t => pass'[u] = pass[u]
<1>0. p \in Pass /\ control.gen \in Nat /\ control.rev \in Nat /\ NoPass \in Pass
      /\ NoPass.pc = "idle" /\ \A r \in Pass : Ending(r).pc = "ending"
    BY PassTypes DEF TypeOK, StoreTypeOK, Control, NoPass, Ending
<1>e. ASSUME NEW r, Put(t, r), r.pc \notin Working \cup {"ensured"} PROVE Goal
    BY <1>e, PutIs DEF Turn, Working, Holding
<1>k. ASSUME NEW r, Put(t, r), r.gen = p.gen, p.pc \in Working,
             r.pc \in Working \ {"leased", "evicted", "fetched"}
      PROVE  Goal
    BY <1>k, PutIs DEF Turn
<1>c. ASSUME NEW r, Put(t, r), r.gen \in {control.gen, control'.gen}, Alive(p),
             r.pc \in Working \ {"fetched"}
      PROVE  Goal
    BY <1>c, PutIs DEF Turn
<1>1. CASE StartPass(t)
    <2> DEFINE r == [NoPass EXCEPT !.pc = "ensured", !.gen = control.gen, !.want = pending[t]]
    <2>1. r.pc = "ensured" /\ r.gen = control.gen
        BY <1>0 DEF Pass
    <2>2. CASE Put(t, r)
        <3> HIDE DEF r
        <3> QED BY <2>1, <2>2, PutIs DEF Turn, Working, Holding
    <2>3. CASE Put(t, NoPass)
        BY <1>0, <1>e, <2>3 DEF Working, Holding
    <2> QED BY <1>1, <2>2, <2>3 DEF StartPass
<1>2. CASE Acquire(t)
    <2> DEFINE r == [p EXCEPT !.pc = "leased"]
    <2>1. r.pc = "leased" /\ r.gen = p.gen
        BY <1>0 DEF Pass
    <2>2. CASE Put(t, r)
        <3>1. q.pc = "leased" /\ q.gen = p.gen /\ \A u \in Tabs : u # t => pass'[u] = pass[u]
            BY <2>1, <2>2, PutIs
        <3>2. Won(t) /\ p.pc = "ensured"
            BY <1>2, <3>1 DEF Won, Acquire
        <3> QED BY <3>1, <3>2 DEF Turn
    <2>3. CASE Put(t, NoPass)
        BY <1>0, <1>e, <2>3 DEF Working, Holding
    <2> QED BY <1>2, <2>2, <2>3 DEF Acquire
<1>3. CASE ReadControl(t)
    <2> DEFINE read == [p EXCEPT !.gen = control.gen, !.rev = control.rev]
               r == [read EXCEPT !.pc = "catalog"]
    <2>1. read \in Pass /\ r.pc = "catalog" /\ r.gen = control.gen
        BY <1>0 DEF Pass
    <2>2. Alive(p)
        BY <1>3 DEF ReadControl, Alive, Working, Holding
    <2>3. CASE Put(t, Ending(read))
        BY <1>0, <1>e, <2>1, <2>3 DEF Working, Holding
    <2>4. CASE Put(t, r)
        BY <1>c, <2>1, <2>2, <2>4 DEF Working, Holding
    <2> QED BY <1>3, <2>3, <2>4 DEF ReadControl
<1>4. CASE FetchCatalog(t)
    <2> DEFINE tokens == [g \in Groups |-> IF g \in Members THEN server[g].version ELSE 0]
               r == [p EXCEPT !.pc = "received", !.tokens = tokens]
    <2>1. r.pc = "received" /\ r.gen = p.gen
        BY <1>0 DEF Pass
    <2>2. CASE Put(t, r)
        <3> HIDE DEF r
        <3> QED BY <1>4, <1>k, <2>1, <2>2 DEF FetchCatalog, Working, Holding
    <2>3. CASE Put(t, Ending(p))
        BY <1>0, <1>e, <2>3 DEF Working, Holding
    <2> QED BY <1>4, <2>2, <2>3 DEF FetchCatalog
<1>5. CASE CommitCatalog(t)
    <2> DEFINE known == [p EXCEPT !.gen = control'.gen, !.rev = 0]
               r == [known EXCEPT !.pc = "inventory", !.todo = Published(p)]
    <2>0. Published(p) \in SUBSET Groups /\ control'.gen \in Nat
        BY DriveTypes DEF Published, StoreTypeOK, Control
    <2>1. known \in Pass /\ r.pc = "inventory" /\ r.gen = control'.gen
        BY <1>0, <2>0 DEF Pass
    <2>2. CASE Put(t, r) /\ Fence(t, p.gen, p.rev) = "ok"
        <3>1. Alive(p)
            BY <1>5, <2>2 DEF CommitCatalog, Fence, Writable, Alive, Working, Holding
        <3> QED BY <1>c, <2>1, <2>2, <3>1 DEF Working, Holding
    <2>3. CASE Put(t, Ending(p)) \/ Put(t, Ending(known))
        BY <1>0, <1>e, <2>1, <2>3 DEF Working, Holding
    <2> QED BY <1>5, <2>2, <2>3 DEF CommitCatalog
<1>6. CASE Inventory(t)
    <2>1. PICK g \in p.todo, queue \in SUBSET Groups :
             \/ Put(t, [p EXCEPT !.pc = "groups", !.todo = {}, !.queue = queue,
                                 !.tokens = NoPass.tokens])
             \/ Put(t, [p EXCEPT !.todo = @ \ {g}, !.queue = queue])
        <3>1. \A g \in p.todo : p.queue \cup {g} \in SUBSET Groups /\ p.queue \in SUBSET Groups
            BY <1>0 DEF Pass
        <3> QED BY <1>6, <3>1 DEF Inventory
    <2> DEFINE r == [p EXCEPT !.pc = "groups", !.todo = {}, !.queue = queue,
                              !.tokens = NoPass.tokens]
               o == [p EXCEPT !.todo = @ \ {g}, !.queue = queue]
    <2>2. r.pc = "groups" /\ r.gen = p.gen /\ o.pc = "inventory" /\ o.gen = p.gen
          /\ p.pc = "inventory"
        BY <1>0, <1>6 DEF Pass, Inventory
    <2> HIDE DEF r, o
    <2>3. Put(t, r) \/ Put(t, o)
        BY <2>1 DEF r, o
    <2> QED BY <1>k, <2>2, <2>3 DEF Working, Holding
<1>7. CASE NextGroup(t)
    <2>1. CASE \E g \in p.queue :
                  Put(t, [p EXCEPT !.pc = "fetching", !.at = g, !.rev = control.rev,
                                   !.queue = @ \ {g}])
        <3>1. PICK g \in p.queue :
                  Put(t, [p EXCEPT !.pc = "fetching", !.at = g, !.rev = control.rev,
                                   !.queue = @ \ {g}])
            BY <2>1
        <3> DEFINE r == [p EXCEPT !.pc = "fetching", !.at = g, !.rev = control.rev,
                                  !.queue = @ \ {g}]
        <3>2. r.pc = "fetching" /\ r.gen = p.gen
            BY <1>0 DEF Pass
        <3> HIDE DEF r
        <3>3. Put(t, r)
            BY <3>1 DEF r
        <3> QED BY <1>7, <1>k, <3>2, <3>3 DEF NextGroup, Working, Holding
    <2>2. CASE Put(t, Ending(p)) \/ Put(t, Ending([p EXCEPT !.gen = control.gen]))
        <3>1. [p EXCEPT !.gen = control.gen] \in Pass
            BY <1>0 DEF Pass
        <3> QED BY <1>0, <1>e, <2>2, <3>1 DEF Working, Holding
    <2> QED BY <1>7, <2>1, <2>2 DEF NextGroup
<1>8. CASE FetchSnapshot(t)
    <2> DEFINE next == [p EXCEPT !.pc = "groups", !.at = Nobody, !.rev = 0]
               copy == [version |-> server[p.at].version, dirty |-> FALSE, epoch |-> epoch]
               r == [p EXCEPT !.pc = "fetched", !.copy = copy]
               e == [next EXCEPT !.pc = "evicted"]
    <2>1. /\ next \in Pass /\ next.pc = "groups" /\ next.gen = p.gen
          /\ e.pc = "evicted" /\ e.gen = p.gen /\ [next EXCEPT !.again = {}] \in Pass
          /\ r.pc = "fetched" /\ r.gen = p.gen /\ r.at = p.at /\ r.copy = copy
          /\ copy.version = server[p.at].version /\ p.pc = "fetching"
        BY <1>0, <1>8 DEF Pass, FetchSnapshot
    <2>2. CASE Put(t, r) /\ UNCHANGED <<rows, server>>
        <3>1. q = r /\ \A u \in Tabs : u # t => pass'[u] = pass[u]
            BY <2>2, PutIs
        <3> HIDE DEF r, copy
        <3>2. /\ q.pc = "fetched" /\ q.gen = p.gen /\ q.at = p.at
              /\ q.copy.version = server[p.at].version
            BY <2>1, <3>1
        <3> QED BY <2>1, <2>2, <3>1, <3>2 DEF Turn, Working, Holding
    <2>3. CASE Put(t, e) /\ Current(p.gen)
        <3>1. Alive(p)
            BY <2>1, <2>3 DEF Alive, Working, Holding
        <3> QED BY <1>c, <2>1, <2>3, <3>1 DEF Working, Holding, Current
    <2>4. CASE Put(t, next)
        <3> HIDE DEF next
        <3> QED BY <1>k, <2>1, <2>4 DEF Working, Holding
    <2>5. CASE Put(t, Ending([next EXCEPT !.again = {}]))
        BY <1>0, <1>e, <2>1, <2>5 DEF Working, Holding
    <2> QED BY <1>8, <2>2, <2>3, <2>4, <2>5 DEF FetchSnapshot, PassOnly, store
<1>9. CASE Reread(t)
    <2> DEFINE r == [p EXCEPT !.pc = "groups", !.gen = control.gen]
    <2>1. r.pc = "groups" /\ r.gen = control.gen /\ Put(t, r)
        BY <1>0, <1>9 DEF Pass, Reread
    <2>2. Alive(p)
        BY <1>9 DEF Reread, Alive, Working, Holding
    <2> HIDE DEF r
    <2> QED BY <1>c, <2>1, <2>2 DEF Working, Holding
<1>10. CASE CommitSnapshot(t)
    <2> DEFINE next == [p EXCEPT !.pc = "groups", !.at = Nobody, !.rev = 0, !.copy = NoRow]
               r == [next EXCEPT !.again = @ \cup {p.at}]
    <2>0. p.at \in Groups
        BY <1>10 DEF Passes, PassSound, Sound, CommitSnapshot
    <2>1. /\ next \in Pass /\ next.pc = "groups" /\ next.gen = p.gen
          /\ r.pc = "groups" /\ r.gen = p.gen
        BY <1>0, <2>0 DEF Pass, NoRow, Row
    <2>2. CASE Put(t, next) \/ Put(t, r)
        <3> HIDE DEF next, r
        <3> QED BY <1>10, <1>k, <2>1, <2>2 DEF CommitSnapshot, Working, Holding
    <2>3. CASE Put(t, Ending(next))
        BY <1>0, <1>e, <2>1, <2>3 DEF Working, Holding
    <2> QED BY <1>10, <2>2, <2>3 DEF CommitSnapshot
<1>11. CASE Abort(t) \/ EndPass(t)
    BY <1>0, <1>e, <1>11 DEF Abort, EndPass, Working, Holding
<1>12. CASE Renew(t)
    <2>1. CASE UNCHANGED pass
        BY <1>0, <2>1, SameTurn DEF Turn, Alive
    <2>2. CASE Put(t, [p EXCEPT !.aborted = TRUE])
        <3>1. q = [p EXCEPT !.aborted = TRUE] /\ \A u \in Tabs : u # t => pass'[u] = pass[u]
            BY <2>2, PutIs
        <3>2. q.pc = p.pc /\ q.gen = p.gen /\ q.at = p.at /\ q.copy = p.copy
            BY <1>0, <3>1 DEF Pass
        <3> QED BY <3>1, <3>2 DEF Turn, Alive
    <2> QED BY <1>12, <2>1, <2>2 DEF Renew
<1> QED BY <1>1, <1>2, <1>3, <1>4, <1>5, <1>6, <1>7, <1>8, <1>9, <1>10, <1>11, <1>12
        DEF Drive

\* Every step gives every pass a turn.
LEMMA Turns ==
    ASSUME TypeOK, Passes, [Next]_vars, NEW u \in Tabs
    PROVE  Turn(pass[u], pass'[u], Won(u))
<1>0. pass[u] \in Pass /\ pass \in [Tabs -> Pass] /\ Won(u) \in BOOLEAN
    BY DEF TypeOK, Won
<1>1. ASSUME pass'[u] = pass[u] PROVE Turn(pass[u], pass'[u], Won(u))
    BY <1>1 DEF Turn, Alive
<1>2. ASSUME NEW t \in Tabs, Drive(t) PROVE Turn(pass[u], pass'[u], Won(u))
    BY <1>1, <1>2, DriveTurns
<1>3. ASSUME NEW t \in Tabs, Leave(t) PROVE Turn(pass[u], pass'[u], Won(u))
    <2>1. CASE u # t
        BY <1>0, <1>1, <1>3, <2>1 DEF Leave
    <2>2. CASE u = t
        <3> DEFINE b == pass[u].aborted \/ pass[u].pc # "idle"
        <3>1. pass'[u] = [pass[u] EXCEPT !.aborted = b] /\ b \in BOOLEAN
            BY <1>0, <1>3, <2>2 DEF Leave, Pass
        <3> HIDE DEF b
        <3> QED BY <1>0, <3>1, SameTurn
    <2> QED BY <2>1, <2>2
<1>4. ASSUME NEW t \in Tabs, Reopen(t) PROVE Turn(pass[u], pass'[u], Won(u))
    <2>1. pass'[u] = pass[u] \/ pass'[u] = NoPass
        BY <1>0, <1>4 DEF Reopen
    <2> QED BY <1>1, <2>1 DEF Turn, NoPass, Working, Holding
<1>5. CASE UNCHANGED pass
    BY <1>1, <1>5
<1> QED BY <1>2, <1>3, <1>4, <1>5 DEF Next, vars, tabs, OthersChange, Removed, Joined,
       Mutate, Trigger, Handle, HandlerReads, HandlerWrites, LeaseExpires, SignOut,
       Account, HearRevoked, ConfirmedSignedOut, Delete, Verify, Focus

\* The lease passes to a tab only through Acquire, or is left behind.
LEMMA OwnerMoves ==
    ASSUME TypeOK, [Next]_vars
    PROVE  \/ control'.owner \in {control.owner, Nobody}
           \/ \E t \in Tabs : Won(t) /\ control'.owner = t
           \/ \E t \in Tabs : /\ control.owner = t /\ control'.owner = Gone
                              /\ pass'[t].pc = "idle"
<1>0. control \in Control /\ NoPass \in Pass /\ NoPass.pc = "idle"
    BY PassTypes DEF TypeOK, StoreTypeOK, NoPass
<1>1. CASE \E t \in Tabs : Drive(t)
    <2>1. PICK t \in Tabs : Drive(t)
        BY <1>1
    <2>2. CASE Acquire(t)
        <3>1. \/ control'.owner = t /\ Put(t, [pass[t] EXCEPT !.pc = "leased"])
              \/ control' = control
            BY <1>0, <2>2 DEF Acquire, AcquireLease, Control, store
        <3>2. [pass[t] EXCEPT !.pc = "leased"].pc = "leased"
            BY DEF TypeOK, Pass
        <3> QED BY <2>2, <3>1, <3>2, PutIs DEF Won
    <2>3. CASE ~Acquire(t)
        <3>1. \/ control' = control
              \/ \E ids : ReplaceCatalog(ids)
              \/ \E g : EvictGroup(g)
              \/ RenewLease \/ ReleaseLease(t, pass[t].gen)
            BY <2>1, <2>3 DEF Drive, StartPass, ReadControl, FetchCatalog, CommitCatalog,
               Inventory, NextGroup, FetchSnapshot, Reread, CommitSnapshot, CommitGroup,
               Abort, EndPass, Renew, store
        <3> QED BY <1>0, <3>1 DEF ReplaceCatalog, EvictGroup, RenewLease, ReleaseLease,
                                  Control
    <2> QED BY <2>2, <2>3
<1>2. CASE \E t \in Tabs : HandlerWrites(t) \/ Delete(t) \/ Verify(t)
    <2>1. \/ control' = control
          \/ \E g : MarkDirty(g) \/ DeleteGroupLocally(g)
          \/ RevokeNamespace \/ ReactivateNamespace
        BY <1>2 DEF HandlerWrites, Delete, Verify, store
    <2> QED BY <1>0, <2>1 DEF MarkDirty, DeleteGroupLocally, RevokeNamespace,
                              ReactivateNamespace, Control, store
<1>3. CASE \E t \in Tabs : Reopen(t)
    <2>1. PICK t \in Tabs : Reopen(t)
        BY <1>3
    <2>2. pass'[t].pc = "idle"
        BY <1>0, <2>1 DEF Reopen, TypeOK
    <2> QED BY <1>0, <2>1, <2>2 DEF Reopen, Abandoned, Control
<1>4. CASE LeaseExpires
    BY <1>0, <1>4 DEF LeaseExpires, Control
<1>5. CASE UNCHANGED control
    BY <1>5
<1> QED BY <1>1, <1>2, <1>3, <1>4, <1>5 DEF Next, vars, tabs, store, OthersChange, Removed,
       Joined, Mutate, Trigger, Handle, HandlerReads, SignOut, Account, HearRevoked,
       ConfirmedSignedOut, Leave, Focus

\* The lease is won from another pass that may write only by stealing it.
LEMMA WonAlone ==
    ASSUME TypeOK, Lone, NEW t \in Tabs, Won(t), ~overlapped',
           NEW u \in Tabs, u # t
    PROVE  ~Alive(pass[u])
<1>1. ~overlapped /\ (control.fresh => control.owner = t)
      /\ ~(~control.fresh /\ SameLife(pass[u]))
    <2>1. pass'[t] # NoPass
        BY DEF Won, NoPass
    <2>2. ~Put(t, NoPass)
        BY <2>1, PutIs
    <2> QED BY <2>2 DEF Won, Acquire
<1>2. Alive(pass[u]) => SameLife(pass[u])
    BY DEF Alive, SameLife, Working
<1> QED BY <1>1, <1>2, OwnersAssumption DEF Lone

\* Whatever may write after a step could before, or has just won the lease.
LEMMA AliveBefore ==
    ASSUME IInv, Behind, [Next]_vars, NEW u \in Tabs, Alive(pass[u])'
    PROVE  Alive(pass[u]) \/ Won(u)
<1>1. Turn(pass[u], pass'[u], Won(u)) /\ Ahead
    BY Turns, Forward DEF IInv
<1>2. control.gen \in Nat /\ pass[u].gen \in Nat /\ control'.gen \in Nat
    BY Typing DEF IInv, TypeOK, StoreTypeOK, Control, Pass
<1>3. control'.gen >= control.gen
    BY <1>1, <1>2 DEF Ahead
<1> QED BY <1>1, <1>2, <1>3 DEF Turn, Alive, Current, Behind

\* The server's versions only grow.
LEMMA ServerGrows ==
    ASSUME TypeOK, [Next]_vars, NEW k \in Groups
    PROVE  server[k].version <= server'[k].version
<1>0. server \in [Groups -> [version : Nat, member : BOOLEAN]] /\ server[k].version \in Nat
    BY DEF TypeOK
<1>1. ASSUME NEW g \in Groups, NEW m, Changed(g, m)
      PROVE  server[k].version <= server'[k].version
    BY <1>0, <1>1 DEF Changed
<1>2. UNCHANGED server \/ \E g \in Groups : \E m : Changed(g, m)
    BY ZenonT(60) DEF Next, vars, OthersChange, Removed, Joined, Mutate, Trigger, Drive, StartPass,
       Acquire, ReadControl, FetchCatalog, CommitCatalog, Inventory, NextGroup,
       FetchSnapshot, Reread, CommitSnapshot, Abort, EndPass, Renew, PassOnly, Handle,
       HandlerReads, HandlerWrites, LeaseExpires, SignOut, Account, HearRevoked,
       ConfirmedSignedOut, Leave, Delete, Verify, Focus, Reopen
<1> QED BY <1>0, <1>1, <1>2

\* A stored copy gets a newer version only from a pass that commits it.
Commits(t, g) == /\ pass[t].pc = "fetched" /\ pass'[t].pc = "groups"
                 /\ g = pass[t].at /\ Current(pass[t].gen) /\ rows'[g] = pass[t].copy

LEMMA RowsMove ==
    ASSUME TypeOK, Passes, [Next]_vars, NEW g \in Groups
    PROVE  \/ rows'[g] = NoRow \/ rows'[g].version = rows[g].version
           \/ \E t \in Tabs : Commits(t, g)
<1>0. rows \in [Groups -> Row] /\ rows[g] \in Row
    BY DEF TypeOK, StoreTypeOK
<1>1. CASE UNCHANGED rows
    BY <1>1
<1>2. CASE \E t \in Tabs : CommitCatalog(t) \/ FetchSnapshot(t)
    BY <1>0, <1>2 DEF CommitCatalog, FetchSnapshot, ReplaceCatalog, EvictGroup, store
<1>3. ASSUME NEW t \in Tabs, CommitSnapshot(t)
      PROVE  UNCHANGED rows \/ rows'[g] = rows[g] \/ Commits(t, g)
    <2> DEFINE next == [pass[t] EXCEPT !.pc = "groups", !.at = Nobody, !.rev = 0, !.copy = NoRow]
    <2>1. next.pc = "groups" /\ pass[t].at \in Groups
        BY <1>3 DEF TypeOK, Pass, Passes, PassSound, Sound, CommitSnapshot
    <2>2. CASE CommitGroup(pass[t].at, pass[t].copy) /\ Put(t, next)
                 /\ Fence(t, pass[t].gen, pass[t].rev) = "ok"
        <3>1. pass'[t].pc = "groups"
            BY <2>1, <2>2, PutIs
        <3>2. Current(pass[t].gen)
            BY <2>2 DEF Fence, Writable
        <3> QED BY <1>0, <1>3, <2>1, <2>2, <3>1, <3>2 DEF Commits, CommitGroup, CommitSnapshot
    <2> QED BY <1>3, <2>2 DEF CommitSnapshot, store
<1>4. CASE \E t \in Tabs : HandlerWrites(t)
    <2>1. \/ UNCHANGED rows
          \/ \E k : MarkDirty(k) \/ DeleteGroupLocally(k)
        BY <1>4 DEF HandlerWrites, store
    <2>2. [rows[g] EXCEPT !.dirty = TRUE].version = rows[g].version
        BY <1>0 DEF Row
    <2> QED BY <1>0, <2>1, <2>2 DEF MarkDirty, DeleteGroupLocally
<1>5. CASE \E t \in Tabs : Delete(t) \/ Verify(t)
    BY <1>0, <1>5 DEF Delete, Verify, RevokeNamespace, ReactivateNamespace, store
<1> QED BY <1>1, <1>2, <1>3, <1>4, <1>5 DEF Next, vars, tabs, store, OthersChange, Removed,
       Joined, Mutate, Trigger, Drive, StartPass, Acquire, AcquireLease, ReadControl,
       FetchCatalog, Inventory, NextGroup, Reread, Abort, EndPass, ReleaseLease, Renew,
       RenewLease, Handle, HandlerReads, LeaseExpires, SignOut, Account, HearRevoked,
       ConfirmedSignedOut, Leave, Focus, Reopen

\* Versions that are stored or fetched stay versions the server has had.
LEMMA KnownKept ==
    ASSUME IInv, TypeOK', Known, [Next]_vars
    PROVE  Known'
<1>0. /\ TypeOK /\ Passes
      /\ \A g \in Groups : /\ rows[g].version \in Nat /\ rows'[g].version \in Nat
                           /\ server[g].version \in Nat /\ server'[g].version \in Nat
      /\ \A t \in Tabs : pass[t].copy.version \in Nat
    BY DEF IInv, TypeOK, StoreTypeOK, Row, Pass
<1>1. \A g \in Groups : server[g].version <= server'[g].version
    BY <1>0, ServerGrows
<1>2. \A t \in Tabs : pass[t].pc = "fetched" => pass[t].at \in Groups
    BY <1>0 DEF Passes, PassSound, Sound
<1>3. ASSUME NEW g \in Groups PROVE rows'[g].version <= server'[g].version
    <2>1. CASE rows'[g] = NoRow
        <3>1. rows'[g].version = 0
            BY <2>1 DEF NoRow
        <3> QED BY <1>0, <3>1
    <2>2. CASE rows'[g].version = rows[g].version
        BY <1>0, <1>1, <2>2 DEF Known
    <2>3. ASSUME NEW t \in Tabs, Commits(t, g) PROVE rows'[g].version <= server'[g].version
        BY <1>0, <1>1, <2>3 DEF Known, Commits
    <2> QED BY <1>0, <2>1, <2>2, <2>3, RowsMove
<1>4. ASSUME NEW t \in Tabs, pass'[t].pc = "fetched"
      PROVE  pass'[t].copy.version <= server'[pass'[t].at].version
    <2>1. Turn(pass[t], pass'[t], Won(t))
        BY <1>0, Turns
    <2>2. CASE pass[t].pc = "fetched" /\ pass'[t].at = pass[t].at
               /\ pass'[t].copy = pass[t].copy
        BY <1>0, <1>1, <1>2, <2>2 DEF Known
    <2>3. CASE /\ pass[t].pc = "fetching" /\ pass'[t].at = pass[t].at
               /\ pass'[t].copy.version = server[pass[t].at].version /\ UNCHANGED server
        <3>1. pass[t].at \in Groups
            BY <1>0, <2>3 DEF Passes, PassSound, Sound
        <3> QED BY <1>0, <2>3, <3>1
    <2> QED BY <1>4, <2>1, <2>2, <2>3 DEF Turn
<1> QED BY <1>3, <1>4 DEF Known

\* A pass takes no generation from the future.
LEMMA BehindKept ==
    ASSUME IInv, TypeOK', Behind, [Next]_vars
    PROVE  Behind'
<1> SUFFICES ASSUME NEW t \in Tabs, pass'[t].pc \in Working \cup {"ensured"}
             PROVE  pass'[t].gen <= control'.gen
    BY DEF Behind
<1>1. Turn(pass[t], pass'[t], Won(t)) /\ Ahead
    BY Turns, Forward DEF IInv
<1>2. /\ control.gen \in Nat /\ control'.gen \in Nat
      /\ pass[t].gen \in Nat /\ pass'[t].gen \in Nat
    BY DEF IInv, TypeOK, StoreTypeOK, Control, Pass
<1>3. control'.gen >= control.gen
    BY <1>1, <1>2 DEF Ahead
<1> QED BY <1>1, <1>2, <1>3 DEF Turn, Behind

\* Once a lease was stolen, it was.
LEMMA StolenStays == TypeOK /\ [Next]_vars /\ ~overlapped' => ~overlapped
BY ZenonT(60) DEF Next, vars, ghosts, OthersChange, Removed, Joined, Mutate, Trigger, Drive, StartPass,
       Acquire, ReadControl, FetchCatalog, CommitCatalog, Inventory, NextGroup,
       FetchSnapshot, Reread, CommitSnapshot, Abort, EndPass, Renew, PassOnly, Handle,
       HandlerReads, HandlerWrites, LeaseExpires, SignOut, Account, HearRevoked,
       ConfirmedSignedOut, Leave, Delete, Verify, Focus, Reopen

\* A pass that may write is alone as long as no lease is stolen.
LEMMA LoneKept ==
    ASSUME IInv, Behind, Lone, [Next]_vars
    PROVE  Lone'
<1> SUFFICES ASSUME ~overlapped', NEW t \in Tabs, Alive(pass[t])'
             PROVE  /\ control'.owner \in {t, Nobody}
                    /\ \A u \in Tabs : Alive(pass[u])' => u = t
    BY DEF Lone
<1>0. TypeOK /\ ~overlapped
    BY StolenStays DEF IInv
<1>1. ASSUME NEW u \in Tabs, NEW v \in Tabs, Won(u), Won(v) PROVE u = v
    <2>1. pass[u].pc = "ensured" /\ pass'[u].pc = "leased" /\ pass[v].pc = "ensured"
          /\ pass'[v].pc = "leased" /\ \E q : Put(v, q)
        BY <1>1 DEF Won, Acquire
    <2> QED BY <1>0, <2>1, PutIs
<1>2. ASSUME NEW u \in Tabs, Alive(pass[u])', u # t PROVE FALSE
    <2>1. CASE Alive(pass[u]) /\ Alive(pass[t])
        BY <1>0, <1>2, <2>1 DEF Lone
    <2>2. CASE Won(u) \/ Won(t)
        BY <1>0, <1>1, <1>2, <2>2, AliveBefore, WonAlone
    <2> QED BY <1>2, <2>1, <2>2, AliveBefore
<1>3. control'.owner \in {t, Nobody}
    <2>1. CASE Alive(pass[t])
        <3>0. control.owner \in {t, Nobody}
            BY <1>0, <2>1 DEF Lone
        <3>1. CASE control'.owner \in {control.owner, Nobody}
            BY <3>0, <3>1
        <3>2. ASSUME NEW u \in Tabs, Won(u), control'.owner = u PROVE u = t
            BY <1>0, <2>1, <3>2, WonAlone
        <3>3. ASSUME NEW u \in Tabs, control.owner = u, pass'[u].pc = "idle" PROVE FALSE
            <4>1. u = t
                BY <3>0, <3>3, OwnersAssumption
            <4> QED BY <3>3, <4>1 DEF Alive, Working, Holding
        <3> QED BY <1>0, <3>1, <3>2, <3>3, OwnerMoves
    <2>2. CASE Won(t)
        <3>1. pass[t].pc = "ensured" /\ pass'[t].pc = "leased" /\ ~Put(t, NoPass)
            BY <1>0, <2>2, PutIs DEF Won, Acquire, NoPass
        <3>2. control' = [control EXCEPT !.owner = t, !.fresh = TRUE]
            BY <2>2, <3>1 DEF Won, Acquire, AcquireLease
        <3> QED BY <1>0, <3>2 DEF TypeOK, StoreTypeOK, Control
    <2> QED BY <2>1, <2>2, AliveBefore
<1> QED BY <1>2, <1>3

\* A pass's copy stays the newest: nobody else commits, and what is fetched is the
\* server's.
LEMMA NewestKept ==
    ASSUME IInv, TypeOK', LeaseInv, [Next]_vars
    PROVE  Newest'
<1> SUFFICES ASSUME ~overlapped', NEW t \in Tabs, pass'[t].pc = "fetched", Alive(pass[t])'
             PROVE  rows'[pass'[t].at].version <= pass'[t].copy.version
    BY DEF Newest
<1>0. TypeOK /\ Passes /\ ~overlapped /\ Known /\ Lone /\ Newest /\ Behind
    BY StolenStays DEF IInv, LeaseInv
<1>1. Alive(pass[t])
    BY <1>0, AliveBefore DEF Won
<1>2. Turn(pass[t], pass'[t], Won(t))
    BY <1>0, Turns
<1>3. CASE /\ pass[t].pc = "fetching" /\ pass'[t].at = pass[t].at
           /\ pass'[t].copy.version = server[pass[t].at].version /\ UNCHANGED rows
    <2>1. pass[t].at \in Groups
        BY <1>0, <1>3 DEF Passes, PassSound, Sound
    <2> QED BY <1>0, <1>3, <2>1 DEF Known
<1>4. CASE pass[t].pc = "fetched" /\ pass'[t].at = pass[t].at /\ pass'[t].copy = pass[t].copy
    <2> DEFINE g == pass[t].at
    <2>1. g \in Groups /\ rows[g].version <= pass[t].copy.version
        BY <1>0, <1>1, <1>4 DEF Passes, PassSound, Sound, Newest
    <2>2. CASE rows'[g] = NoRow
        <3>1. rows'[g].version = 0 /\ pass[t].copy.version \in Nat
            BY <1>0, <2>2 DEF NoRow, TypeOK, Pass, Row
        <3> QED BY <1>4, <3>1
    <2>3. CASE rows'[g].version = rows[g].version
        BY <1>4, <2>1, <2>3
    <2>4. ASSUME NEW u \in Tabs, Commits(u, g) PROVE FALSE
        <3>1. Alive(pass[u]) /\ pass'[u].pc = "groups"
            BY <2>4 DEF Commits, Alive, Working, Holding
        <3>2. u = t
            BY <1>0, <1>1, <3>1 DEF Lone
        <3> QED BY <3>1, <3>2
    <2> HIDE DEF g
    <2> QED BY <1>0, <2>1, <2>2, <2>3, <2>4, RowsMove
<1> QED BY <1>2, <1>3, <1>4 DEF Turn

\* Unless a lease was stolen, a stored copy is only replaced by one at least as
\* new, for any number of tabs, groups and events: the lease keeps all passes but
\* one from writing, through expiry, sign-out, deletion and reopening.
THEOREM NewerOnly == Spec => NewestStays
<1>1. Init => LeaseInv
    BY DEF Init, StoreInit, LeaseInv, Known, Behind, Lone, Newest, Alive, NoPass, NoRow,
           Working, Holding
<1>2. IInv /\ LeaseInv /\ [Next]_vars => LeaseInv'
    <2> SUFFICES ASSUME IInv, LeaseInv, [Next]_vars PROVE LeaseInv'
        OBVIOUS
    <2>1. TypeOK'
        BY Typing
    <2> QED BY <2>1, KnownKept, BehindKept, LoneKept, NewestKept DEF LeaseInv
<1>3. IInv /\ LeaseInv /\ [Next]_vars =>
        [\A g \in Groups : \/ overlapped' \/ rows'[g] = NoRow
                           \/ rows'[g].version >= rows[g].version]_vars
    <2> SUFFICES ASSUME IInv, LeaseInv, [Next]_vars, NEW g \in Groups, ~overlapped',
                        rows'[g] # NoRow
                 PROVE  rows'[g].version >= rows[g].version
        OBVIOUS
    <2>0. /\ TypeOK /\ Passes /\ ~overlapped /\ Newest /\ rows[g].version \in Nat
          /\ \A t \in Tabs : pass[t].copy.version \in Nat
        BY StolenStays DEF IInv, LeaseInv, TypeOK, StoreTypeOK, Row, Pass
    <2>1. CASE rows'[g].version = rows[g].version
        BY <2>0, <2>1
    <2>2. ASSUME NEW t \in Tabs, Commits(t, g) PROVE rows'[g].version >= rows[g].version
        BY <2>0, <2>2 DEF Commits, Newest, Alive, Working, Holding
    <2> QED BY <2>0, <2>1, <2>2, RowsMove
<1> QED BY <1>1, <1>2, <1>3, Invariance, PTL DEF Spec, NewestStays
=============================================================================
