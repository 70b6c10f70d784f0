-------------------------- MODULE OfflineDownloads --------------------------
(* The tabs of one browser that download an account's groups: the passes of  *)
(* sync.ts, the mutations that make a copy stale, and the sign-in and        *)
(* sign-out of lifecycle.ts, over one OfflineRepository and a server whose   *)
(* groups other members change.                                              *)
EXTENDS OfflineRepository

CONSTANTS MaxEvents,     \* budget of changes, sign-outs, faults and Focus
          MaxSignOuts    \* how many of them may be sign-outs

ASSUME BudgetAssumption == MaxEvents \in Nat /\ MaxSignOuts \in Nat

VARIABLES server,      \* version of each group, and whether the account is in it
          session,     \* the server's session of this browser
          marker,      \* the revocation marker in localStorage
          life, pass, pending, handler,    \* by tab
          noted,       \* version of each group's last mutation that was noted
          epoch,       \* deletions of the whole store so far
          overlapped,  \* a lease expired under a pass, and was taken
          events, signOuts

tabs == <<life, pass, pending, handler>>
ghosts == <<noted, epoch, overlapped>>
vars == <<store, server, session, marker, tabs, ghosts, events, signOuts>>

Life == [session : {"verified", "offline", "out"}, gen : Nat,
         cleanup : {"none", "deleting", "failed"}, drop : Nat]

(* want is the set of groups of a targeted pass, all groups for a full one.  *)
Pass == [pc : {"idle", "ensured", "leased", "catalog", "received", "inventory",
               "groups", "fetching", "evicted", "fetched", "ending"},
         gen : Nat, rev : Nat, want : SUBSET Groups, tokens : [Groups -> Nat],
         todo : SUBSET Groups, queue : SUBSET Groups, again : SUBSET Groups,
         at : Groups \cup {Nobody}, copy : Row, aborted : BOOLEAN]
NoPass == [pc |-> "idle", gen |-> 0, rev |-> 0, want |-> {},
           tokens |-> [g \in Groups |-> 0], todo |-> {}, queue |-> {}, again |-> {},
           at |-> Nobody, copy |-> NoRow, aborted |-> FALSE]

Handler == [pc : {"idle", "read", "write"}, kind : {"edit", "leave"},
            group : Groups \cup {Nobody}, version : Nat, gen : Nat, live : BOOLEAN]
NoHandler == [pc |-> "idle", kind |-> "edit", group |-> Nobody, version |-> 0,
              gen |-> 0, live |-> FALSE]

TypeOK ==
    /\ StoreTypeOK
    /\ server \in [Groups -> [version : Nat, member : BOOLEAN]]
    /\ session \in BOOLEAN /\ marker \in BOOLEAN
    /\ life \in [Tabs -> Life]
    /\ pass \in [Tabs -> Pass]
    /\ pending \in [Tabs -> SUBSET Groups]
    /\ handler \in [Tabs -> Handler]
    /\ noted \in [Groups -> Nat] /\ epoch \in Nat
    /\ overlapped \in BOOLEAN /\ events \in 0 .. MaxEvents
    /\ signOuts \in 0 .. MaxSignOuts

Init ==
    /\ StoreInit
    /\ server = [g \in Groups |-> [version |-> 1, member |-> TRUE]]
    /\ session = TRUE /\ marker = FALSE
    /\ life = [t \in Tabs |-> [session |-> "verified", gen |-> 0,
                               cleanup |-> "none", drop |-> 0]]
    /\ pass = [t \in Tabs |-> NoPass]
    /\ pending = [t \in Tabs |-> {}]
    /\ handler = [t \in Tabs |-> NoHandler]
    /\ noted = [g \in Groups |-> 0] /\ epoch = 0
    /\ overlapped = FALSE /\ events = 0 /\ signOuts = 0

Event == events < MaxEvents /\ events' = events + 1 /\ UNCHANGED signOuts

-----------------------------------------------------------------------------
(* The server: other members edit a group, and the account joins and leaves. *)
Changed(g, member) ==
    server' = [server EXCEPT ![g] = [version |-> @.version + 1, member |-> member]]

OthersChange(g) ==
    /\ Event /\ server[g].member /\ Changed(g, TRUE)
    /\ UNCHANGED <<store, session, marker, tabs, ghosts>>

Removed(g) ==
    /\ Event /\ server[g].member /\ Changed(g, FALSE)
    /\ UNCHANGED <<store, session, marker, tabs, ghosts>>

Joined(g) ==
    /\ Event /\ ~server[g].member /\ Changed(g, TRUE)
    /\ UNCHANGED <<store, session, marker, tabs, ghosts>>

(* A mutation in a tab succeeds online; its handler then runs.               *)
Mutate(t, g, kind) ==
    /\ Event /\ session /\ life[t].session = "verified"
    /\ server[g].member /\ handler[t].pc = "idle"
    /\ Changed(g, kind = "edit")
    /\ handler' = [handler EXCEPT ![t] =
                       [pc |-> "read", kind |-> kind, group |-> g,
                        version |-> server[g].version + 1, gen |-> 0, live |-> TRUE]]
    /\ UNCHANGED <<store, session, marker, life, pass, pending, ghosts>>

(* handleMutationSuccess, handleExpenseDeleted, handleGroupRemoved: the      *)
(* control record is read in one transaction and relied on in the next.      *)
HandlerReads(t) ==
    /\ handler[t].pc = "read"
    /\ handler' = [handler EXCEPT ![t].pc = "write", ![t].gen = control.gen]
    /\ UNCHANGED <<store, server, session, marker, life, pass, pending, ghosts, events, signOuts>>

Request(t, want) == pending' = [pending EXCEPT ![t] = @ \cup want]

Note(g, version) ==
    noted' = [noted EXCEPT ![g] = IF version > @ THEN version ELSE @]

(* A fenced write is dropped, and no refresh is asked for.                   *)
HandlerWrites(t) ==
    LET h == handler[t]  g == h.group
    IN  /\ h.pc = "write"
        /\ handler' = [handler EXCEPT ![t] = NoHandler]
        /\ \/ /\ h.kind = "edit" /\ Writable(h.gen)
              /\ MarkDirty(g)
              /\ Note(g, h.version)
              /\ IF h.live THEN Request(t, {g}) ELSE UNCHANGED pending
           \/ /\ h.kind = "leave" /\ Current(h.gen)
              /\ DeleteGroupLocally(g)
              /\ Note(g, h.version)
              /\ UNCHANGED pending
           \/ /\ IF h.kind = "edit" THEN ~Writable(h.gen) ELSE ~Current(h.gen)
              /\ UNCHANGED <<store, noted, pending>>
        /\ UNCHANGED <<server, session, marker, life, pass, epoch, overlapped, events, signOuts>>

-----------------------------------------------------------------------------
(* The passes of a tab, one at a time (requestSync, pump, runPass).          *)
Put(t, p) == pass' = [pass EXCEPT ![t] = p]
Ending(p) == [NoPass EXCEPT !.pc = "ending", !.gen = p.gen, !.want = p.want,
                            !.again = p.again, !.aborted = p.aborted]
PassOnly == UNCHANGED <<server, session, marker, life, handler, ghosts>>
NoFault == UNCHANGED <<events, signOuts>>

(* Launch, reconnect and foreground return ask for a full pass; one that      *)
(* comes during a pass waits for its end, and is taken to come then.         *)
Trigger(t) ==
    /\ life[t].session = "verified" /\ pending[t] # Groups
    /\ pass[t].pc = "idle"
    /\ Request(t, Groups)
    /\ UNCHANGED <<store, pass>> /\ PassOnly /\ NoFault

StartPass(t) ==
    /\ pass[t].pc = "idle" /\ pending[t] # {}
    /\ pending' = [pending EXCEPT ![t] = {}]
    /\ Put(t, IF control.revoked THEN NoPass
              ELSE [NoPass EXCEPT !.pc = "ensured", !.gen = control.gen,
                                  !.want = pending[t]])
    /\ UNCHANGED store /\ PassOnly /\ NoFault

(* pcs of a pass that has acquired the lease *)
Holding == {"leased", "catalog", "received", "inventory", "groups", "fetching",
            "evicted", "fetched", "ending"}
SameLife(p) == p.pc \in Holding /\ (p.pc \in {"leased", "evicted"} \/ Current(p.gen))

\* Mutant: a lease that has not expired is taken over.
AcquireAnyway(t) ==
    LET p == pass[t]
        wins == session /\ ~p.aborted /\ Writable(p.gen)
    IN  /\ p.pc = "ensured"
        /\ \/ /\ wins
              /\ AcquireLease(t)
              /\ Put(t, [p EXCEPT !.pc = "leased"])
              /\ overlapped' = (overlapped \/ (~control.fresh
                                               /\ \E u \in Tabs \ {t} : SameLife(pass[u])))
           \/ /\ ~wins
              /\ Put(t, NoPass)
              /\ UNCHANGED <<store, overlapped>>
        /\ UNCHANGED <<server, session, marker, life, pending, handler, noted, epoch>>
        /\ NoFault

(* The session is verified, then the lease acquired; a loser stops.          *)
Acquire(t) ==
    LET p == pass[t]
        wins == /\ session /\ ~p.aborted /\ Writable(p.gen)
                /\ (control.fresh => control.owner = t)
    IN  /\ p.pc = "ensured"
        /\ \/ /\ wins
              /\ AcquireLease(t)
              /\ Put(t, [p EXCEPT !.pc = "leased"])
              /\ overlapped' = (overlapped \/ (~control.fresh
                                               /\ \E u \in Tabs \ {t} : SameLife(pass[u])))
           \/ /\ ~wins
              /\ Put(t, NoPass)
              /\ UNCHANGED <<store, overlapped>>
        /\ UNCHANGED <<server, session, marker, life, pending, handler, noted, epoch>>
        /\ NoFault

(* The control record is read again, for the fence of the catalog.           *)
ReadControl(t) ==
    LET p == pass[t]
        read == [p EXCEPT !.gen = control.gen, !.rev = control.rev]
    IN  /\ p.pc = "leased" /\ ~p.aborted
        /\ Put(t, IF control.revoked THEN Ending(read) ELSE [read EXCEPT !.pc = "catalog"])
        /\ UNCHANGED <<store, pending>> /\ PassOnly /\ NoFault

Members == {g \in Groups : server[g].member}

(* A failed fetch, whatever its class, ends the pass.                        *)
FetchCatalog(t) ==
    LET p == pass[t]
    IN  /\ p.pc = "catalog" /\ ~p.aborted
        /\ \/ /\ session
              /\ Put(t, [p EXCEPT !.pc = "received",
                             !.tokens = [g \in Groups |->
                                             IF g \in Members THEN server[g].version
                                             ELSE 0]])
              /\ NoFault
           \/ Put(t, Ending(p)) /\ (IF session THEN Event ELSE NoFault)
        /\ UNCHANGED <<store, pending>> /\ PassOnly

Published(p) == {g \in Groups : p.tokens[g] # 0}

(* A disposed engine asks for nothing any more.                              *)
Ask(t, want) == IF life[t].session = "out" THEN UNCHANGED pending
                ELSE Request(t, want)

(* No look at the abort signal between the answer and its commit.            *)
CommitCatalog(t) ==
    LET p == pass[t]
    IN  /\ p.pc = "received"
        /\ \/ /\ Fence(t, p.gen, p.rev) = "ok"
              /\ ReplaceCatalog(Published(p))
              /\ LET known == [p EXCEPT !.gen = control'.gen, !.rev = 0]
                 IN  Put(t, IF Published(p) = {} THEN Ending(known)
                            ELSE [known EXCEPT !.pc = "inventory",
                                               !.todo = Published(p)])
              /\ UNCHANGED pending
           \/ /\ Fence(t, p.gen, p.rev) = "revision"
              /\ Ask(t, p.want) /\ Put(t, Ending(p))
              /\ UNCHANGED store
           \/ /\ Fence(t, p.gen, p.rev) \in {"disabled", "lease"}
              /\ Put(t, Ending(p))
              /\ UNCHANGED <<store, pending>>
        /\ PassOnly /\ NoFault

\* Mutant: a copy of the published version is skipped though it is dirty.
StaleByToken(p, g) == rows[g] = NoRow \/ rows[g].version # p.tokens[g]

(* Missing, dirty, or of another version than the catalog's.                 *)
Stale(p, g) == rows[g] = NoRow \/ rows[g].dirty \/ rows[g].version # p.tokens[g]

(* The metadata of the groups is read one by one.                            *)
Inventory(t) ==
    LET p == pass[t]
    IN  /\ p.pc = "inventory" /\ ~p.aborted
        /\ \E g \in p.todo :
              LET queue == IF g \in p.want /\ Stale(p, g) THEN p.queue \cup {g}
                           ELSE p.queue
              IN  Put(t, IF p.todo = {g}
                         THEN [p EXCEPT !.pc = "groups", !.todo = {}, !.queue = queue,
                                        !.tokens = NoPass.tokens]
                         ELSE [p EXCEPT !.todo = @ \ {g}, !.queue = queue])
        /\ UNCHANGED <<store, pending>> /\ PassOnly /\ NoFault

(* The fence of a group's copy is read before the copy is fetched.           *)
NextGroup(t) ==
    LET p == pass[t]
    IN  /\ p.pc = "groups" /\ ~p.aborted
        /\ \/ p.queue = {} /\ Put(t, Ending(p))
           \/ /\ p.queue # {} /\ ~Writable(p.gen)
              /\ Put(t, Ending([p EXCEPT !.gen = control.gen]))
           \/ /\ Writable(p.gen)
              /\ \E g \in p.queue :
                    Put(t, [p EXCEPT !.pc = "fetching", !.at = g, !.rev = control.rev,
                                     !.queue = @ \ {g}])
        /\ UNCHANGED <<store, pending>> /\ PassOnly /\ NoFault

(* A copy arrives, the group is refused and evicted, or the fetch fails: the *)
(* pass goes on to the next group, or, when the network is gone, ends and    *)
(* forgets the reruns it had put down.                                       *)
FetchSnapshot(t) ==
    LET p == pass[t]  g == p.at  next == [p EXCEPT !.pc = "groups", !.at = Nobody, !.rev = 0]
    IN  /\ p.pc = "fetching" /\ ~p.aborted
        /\ \/ /\ session /\ server[g].member
              /\ Put(t, [p EXCEPT !.pc = "fetched",
                             !.copy = [version |-> server[g].version, dirty |-> FALSE,
                                       epoch |-> epoch]])
              /\ UNCHANGED store /\ NoFault
           \/ /\ session /\ ~server[g].member /\ Current(p.gen)
              /\ EvictGroup(g)
              /\ Put(t, [next EXCEPT !.pc = "evicted"]) /\ NoFault
           \/ /\ ~session \/ (~server[g].member /\ ~Current(p.gen))
              /\ Put(t, next)
              /\ UNCHANGED store /\ NoFault
           \/ /\ session /\ Event
              /\ (Put(t, next) \/ Put(t, Ending([next EXCEPT !.again = {}])))
              /\ UNCHANGED store
        /\ UNCHANGED pending /\ PassOnly

Reread(t) ==
    /\ pass[t].pc = "evicted"
    /\ Put(t, [pass[t] EXCEPT !.pc = "groups", !.gen = control.gen])
    /\ UNCHANGED <<store, pending>> /\ PassOnly /\ NoFault

(* The copy replaces the stored one, or the group is put down for a rerun,   *)
(* or the pass ends.                                                         *)
CommitSnapshot(t) ==
    LET p == pass[t]
        next == [p EXCEPT !.pc = "groups", !.at = Nobody, !.rev = 0, !.copy = NoRow]
    IN  /\ p.pc = "fetched"
        /\ \/ /\ Fence(t, p.gen, p.rev) = "ok"
              /\ CommitGroup(p.at, p.copy) /\ Put(t, next)
           \/ /\ Fence(t, p.gen, p.rev) = "revision"
              /\ Put(t, [next EXCEPT !.again = @ \cup {p.at}])
              /\ UNCHANGED store
           \/ /\ Fence(t, p.gen, p.rev) \in {"disabled", "lease"}
              /\ Put(t, Ending(next))
              /\ UNCHANGED store
        /\ UNCHANGED pending /\ PassOnly /\ NoFault

(* An aborted pass does no more than the commit it is at.                    *)
Abort(t) ==
    LET p == pass[t]
    IN  /\ p.aborted /\ p.pc \in Holding \ {"received", "fetched", "ending"}
        /\ Put(t, Ending(p))
        /\ UNCHANGED <<store, pending>> /\ PassOnly /\ NoFault

(* Reruns are asked for unless the pass was aborted; a full pass is rerun in *)
(* full.  The lease is released with the generation the pass knows.          *)
EndPass(t) ==
    LET p == pass[t]
    IN  /\ p.pc = "ending"
        /\ ReleaseLease(t, p.gen)
        /\ IF p.again = {} \/ p.aborted THEN UNCHANGED pending
           ELSE Request(t, IF p.want = Groups THEN Groups ELSE p.again)
        /\ Put(t, NoPass)
        /\ PassOnly /\ NoFault

(* The renewal of every 10 seconds; a lease that was lost aborts the pass.   *)
Renew(t) ==
    LET p == pass[t]
    IN  /\ p.pc \in Holding \ {"ending"} /\ ~p.aborted
        /\ \/ /\ Writable(p.gen) /\ control.owner = t /\ ~control.fresh
              /\ RenewLease /\ UNCHANGED pass
           \/ /\ ~(Writable(p.gen) /\ control.owner = t)
              /\ Put(t, [p EXCEPT !.aborted = TRUE])
              /\ UNCHANGED store
        /\ UNCHANGED pending /\ PassOnly /\ NoFault

(* 30 seconds without a renewal: the owner is gone, or is suspended.         *)
LeaseExpires ==
    /\ control.fresh
    /\ control' = [control EXCEPT !.fresh = FALSE]
    /\ IF control.owner \in Tabs /\ pass[control.owner].pc \in Holding THEN Event
       ELSE NoFault
    /\ UNCHANGED <<catalog, rows, pass, pending>> /\ PassOnly

-----------------------------------------------------------------------------
(* Sign-in and sign-out (lifecycle.ts).                                      *)

(* The engine is disposed with the namespace; the generation that is bumped  *)
(* in memory is the one the deletion is asked for with.                      *)
Leave(t) ==
    /\ marker' = TRUE
    /\ life' = [life EXCEPT ![t] = [session |-> "out", gen |-> @.gen + 1,
                                    cleanup |-> "deleting", drop |-> @.gen + 1]]
    /\ pending' = [pending EXCEPT ![t] = {}]
    /\ pass' = [pass EXCEPT ![t].aborted = @ \/ pass[t].pc # "idle"]
    /\ handler' = [handler EXCEPT ![t].live = FALSE]
    /\ UNCHANGED <<store, server, ghosts>>

SignOut(t) ==
    /\ events < MaxEvents /\ events' = events + 1
    /\ signOuts < MaxSignOuts /\ signOuts' = signOuts + 1
    /\ session /\ life[t].session = "verified"
    /\ session' = FALSE /\ Leave(t)

(* A verification finds that the session is gone.                            *)
ConfirmedSignedOut(t) ==
    /\ ~session /\ life[t].session # "out"
    /\ Leave(t) /\ NoFault /\ UNCHANGED session

(* The message of another tab, or the marker on focus.                       *)
HearRevoked(t) ==
    /\ marker \/ control.revoked
    /\ life[t].session = "verified"
    /\ life' = [life EXCEPT ![t].session = "offline", ![t].gen = @ + 1]
    /\ UNCHANGED <<store, server, session, marker, pass, pending, handler, ghosts>>
    /\ NoFault

(* recheckOnFocus of a store that is not revoked *)
Focus(t) ==
    /\ Event
    /\ life[t].session # "out" /\ ~marker /\ ~control.revoked
    /\ control.gen > life[t].gen
    /\ life' = [life EXCEPT ![t].gen = control.gen]
    /\ UNCHANGED <<store, server, session, marker, pass, pending, handler, ghosts>>

(* The deletion, or a retry of it, of everything the account had stored.     *)
Delete(t) ==
    /\ life[t].cleanup # "none"
    /\ IF Current(life[t].drop)
       THEN /\ RevokeNamespace
            /\ epoch' = epoch + 1
            /\ life' = [life EXCEPT ![t].cleanup = "none", ![t].drop = 0]
       ELSE /\ life[t].cleanup = "deleting"
            /\ life' = [life EXCEPT ![t].cleanup = "failed"]
            /\ UNCHANGED <<store, epoch>>
    /\ UNCHANGED <<server, session, marker, pass, pending, handler, noted, overlapped>>
    /\ NoFault

(* A fresh session, of a sign-in in this tab or in another: a revoked store  *)
(* starts a new life, and what the marker hides comes back.                  *)
Verify(t) ==
    /\ session \/ life[t].session = "out"
    /\ life[t].session # "verified" \/ marker \/ control.revoked
    /\ life[t].session = "out" => pass[t].pc = "idle"
    /\ session' = TRUE /\ marker' = FALSE
    /\ IF marker \/ control.revoked
       THEN /\ ReactivateNamespace
            /\ epoch' = IF control.revoked THEN epoch + 1 ELSE epoch
            /\ life' = [life EXCEPT ![t].session = "verified", ![t].gen = control'.gen,
                            ![t].cleanup = IF @ = "deleting" THEN @ ELSE "none"]
       ELSE /\ life' = [life EXCEPT ![t].session = "verified"]
            /\ UNCHANGED <<store, epoch>>
    /\ UNCHANGED <<server, pass, pending, handler, noted, overlapped>>
    /\ NoFault

(* A tab is closed and opened again, and restores the cached identity unless *)
(* it is revoked.                                                            *)
Reopen(t) ==
    LET restored == ~marker /\ ~control.revoked /\ life[t].session # "out"
    IN  /\ Event
        /\ life' = [life EXCEPT ![t] =
                        [session |-> IF restored THEN "offline" ELSE "out",
                         gen |-> IF restored THEN control.gen ELSE 0,
                         cleanup |-> "none", drop |-> 0]]
        /\ pass' = [pass EXCEPT ![t] = NoPass]
        /\ pending' = [pending EXCEPT ![t] = {}]
        /\ handler' = [handler EXCEPT ![t] = NoHandler]
        /\ control' = Abandoned(t)
        /\ UNCHANGED <<catalog, rows, server, session, marker, ghosts>>

-----------------------------------------------------------------------------
Drive(t) ==
    \/ StartPass(t) \/ Acquire(t) \/ ReadControl(t) \/ FetchCatalog(t)
    \/ CommitCatalog(t) \/ Inventory(t) \/ NextGroup(t) \/ FetchSnapshot(t)
    \/ Reread(t) \/ CommitSnapshot(t) \/ Abort(t) \/ EndPass(t) \/ Renew(t)
Handle(t) == HandlerReads(t) \/ HandlerWrites(t)
Account(t) == HearRevoked(t) \/ ConfirmedSignedOut(t) \/ Delete(t) \/ Verify(t)

Next ==
    \/ \E g \in Groups : OthersChange(g) \/ Removed(g) \/ Joined(g)
    \/ \E t \in Tabs : \E g \in Groups : \E kind \in {"edit", "leave"} :
          Mutate(t, g, kind)
    \/ \E t \in Tabs : Trigger(t) \/ Drive(t) \/ Handle(t)
    \/ LeaseExpires
    \/ \E t \in Tabs : SignOut(t) \/ Account(t) \/ Focus(t) \/ Reopen(t)

Spec == Init /\ [][Next]_vars

(* Engines, handlers and deletions run on; leases expire; somebody comes     *)
(* back to each tab, which asks for a full pass and verifies the session.    *)
Fairness ==
    /\ \A t \in Tabs : /\ WF_vars(Drive(t)) /\ WF_vars(Handle(t))
                       /\ WF_vars(Trigger(t)) /\ WF_vars(Account(t))
    /\ WF_vars(LeaseExpires)

FairSpec == Spec /\ Fairness

-----------------------------------------------------------------------------
(* A stored copy shows every mutation of this browser whose handler has run, *)
(* or is marked as stale: no download in flight undoes one (commitGroup's    *)
(* generation and revision).                                                 *)
ReadYourWrites ==
    \A g \in Groups : \/ rows[g] = NoRow \/ rows[g].dirty
                      \/ rows[g].version >= noted[g]

(* What was downloaded before the account's copies were deleted never comes  *)
(* back after it (revokeNamespace, reactivateNamespace).                     *)
NothingFromBefore ==
    \A g \in Groups : rows[g] # NoRow => rows[g].epoch = epoch

(* Unless a lease was stolen, a stored copy is only replaced by one at least *)
(* as new, whatever tabs download (acquireLease, commitGroup).               *)
NewestStays ==
    [][\A g \in Groups : \/ overlapped' \/ rows'[g] = NoRow
                         \/ rows'[g].version >= rows[g].version]_vars

(* A copy marked stale is refreshed or dropped as long as the account stays  *)
(* signed in, though a tab that loses the lease forgets its refresh and a    *)
(* pass may be aborted (markDirty, requestSync, runPass).                    *)
DirtyIsRefreshed ==
    \A g \in Groups : rows[g].dirty ~> (~rows[g].dirty \/ ~session)

(* Once every tab has signed out and its deletion has been tried, nothing of *)
(* the account is left on the disk: "clears persisted A data"                *)
(* (deletePersistedOrFence, revokeNamespace).                                *)
SignedOutIsEmpty ==
    (\A t \in Tabs : life[t].session = "out" /\ life[t].cleanup # "deleting"
                     /\ pass[t].pc = "idle")
        => \A g \in Groups : rows[g] = NoRow
=============================================================================
