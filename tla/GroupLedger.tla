---------------------------- MODULE GroupLedger ----------------------------
(* The ledger and the members of one group while its members write expenses, *)
(* leave, remove each other, change roles and archive the group: calls that  *)
(* read the balances, wait, and write settlements for what they have read.   *)
EXTENDS Balances

CONSTANTS Members,     \* their ids, and those of their ledger participants
          AtFirst,     \* sets of members: those ACTIVE at first
          Menu,        \* the expenses members enter
          MaxWritten,  \* bound of the expenses there at first
          MaxCalls     \* bound of the calls made

ASSUME ConstantsAssumption ==
    /\ Members \subseteq Nat /\ IsFiniteSet(Members)
    /\ AtFirst \subseteq SUBSET Members
    /\ \A e \in Menu : IsExpense(e, Members)
    /\ MaxWritten \in Nat /\ MaxCalls \in Nat

VARIABLES ledger,      \* by id: an expense and its version
          drawn,       \* randomId: the ids drawn so far
          active,      \* members whose status is ACTIVE
          admins,      \* members whose role is ADMIN, whatever their status
          hidden,      \* members whose participant has removedAt
          archived,
          call,        \* by member: the call under way
          made         \* against MaxCalls

rows == <<ledger, drawn>>
people == <<active, admins, hidden>>
vars == <<rows, people, archived, call, made>>

-----------------------------------------------------------------------------
Expenses == [i \in DOMAIN ledger |-> ledger[i].expense]

GroupBalances == PublicBalances(SuggestedSettlements(GetBalances(Expenses)))
Unsettled      == LET cents == GroupBalances IN \E p \in DOMAIN cents : cents[p] # 0
IsUnsettled(m) == LET cents == GroupBalances IN m \in DOMAIN cents /\ cents[m] # 0
Shown(m)       == CentsIn(GroupBalances, m)

SettlementLegs == SuggestedSettlements(GroupBalances)
(* Mutant: whoever leaves pays what they owe, but is not paid.               *)
LegsFrom(m) == LET legs == SettlementLegs IN Picked(legs, {i \in DOMAIN legs : m = legs[i].from})
LegsOf(m)   == LET legs == SettlementLegs
               IN  Picked(legs, {i \in DOMAIN legs : m \in {legs[i].from, legs[i].to}})

Settlement(leg) ==
    [amount |-> leg.amount, original |-> leg.amount, converted |-> FALSE,
     payer |-> leg.from,
     paidBy |-> [mode |-> "BY_AMOUNT", shares |-> [p \in {leg.from} |-> leg.amount]],
     paidFor |-> [mode |-> "EVENLY", shares |-> [p \in {leg.to} |-> 1]],
     items |-> <<>>, rest |-> [mode |-> "EVENLY", shares |-> Nobody]]

Row(e, n) == [expense |-> e, version |-> n]
Accepted(e, allowed) ==
    Involved(e) \subseteq allowed /\ (Itemized(e) => ItemsAllowed(e.items, e.original, e.rest))

(* The settlement expenses a call writes for the legs it has computed.       *)
Settle(legs) ==
    LET paid == Picked(legs, {i \in DOMAIN legs : legs[i].amount > 0})
    IN  /\ drawn' = drawn + Len(paid)
        /\ ledger' = [i \in DOMAIN ledger \cup (drawn + 1)..(drawn + Len(paid)) |->
                         IF i \in DOMAIN ledger THEN ledger[i]
                                                ELSE Row(Settlement(paid[i - drawn]), 1)]

-----------------------------------------------------------------------------
(* What a call has read and keeps. For the properties: seen, the members as  *)
(* it believes them to be; due, the balances it was shown and settles; raced,*)
(* that others wrote since it locked.                                        *)
NoCall == [op |-> "none"]
In(m, ops) == call[m].op \in ops

(* Group ... FOR UPDATE, which creates and archivings take; not the others.  *)
Locked == \E m \in Members : In(m, {"archive", "archiving"})

Begin(m, c) ==
    /\ call[m] = NoCall /\ made < MaxCalls
    /\ call' = [call EXCEPT ![m] = c]
    /\ made' = made + 1

Continue(m, c) == call' = [call EXCEPT ![m] = c] /\ UNCHANGED made

End(m) == Continue(m, NoCall)

(* The last step of a call that changes balances without the lock.           *)
EndUnlocked(m) ==
    /\ call' = [k \in Members |->
                  IF k = m THEN NoCall
                  ELSE IF In(k, {"archive", "archiving"}) THEN [call[k] EXCEPT !.raced = TRUE]
                  ELSE call[k]]
    /\ UNCHANGED made

OtherAdmins(m) == (admins \cap active) \ {m}
Seen(who, admin) == [active |-> active,
                     admins |-> IF admin THEN admins \cup {who} ELSE admins \ {who}]
(* Mutant: an admin who leaves is the last one when nobody else is left.     *)
LastMember(m)  == m \in admins /\ active \ {m} = {}
LastAdmin(m)   == m \in admins /\ OtherAdmins(m) = {}

-----------------------------------------------------------------------------
Init ==
    /\ \E n \in 0..MaxWritten : \E es \in [1..n -> {e \in Menu : Accepted(e, Members)}] :
          /\ ledger = [i \in 1..n |-> Row(Stored(es[i], Members, i), 1)]
          /\ drawn = n
    /\ active \in AtFirst
    /\ admins \in (SUBSET active) \ {{}}
    /\ hidden = {}
    /\ archived = FALSE
    /\ call = [m \in Members |-> NoCall]
    /\ made = 0

(* createExpense: participants are read first, archived again under the lock.*)
CreateReads(m) ==
    \E e \in Menu :
       /\ m \in active /\ ~archived
       /\ Accepted(e, Members \ hidden)
       /\ Begin(m, [op |-> "create", id |-> drawn + 1,
                    expense |-> Stored(e, Members \ hidden, drawn + 1)])
       /\ drawn' = drawn + 1
       /\ UNCHANGED <<ledger, people, archived>>

(* Mutant: the insert does not take the lock of the group.                   *)
CreateWritesUnlocked(m) ==
    /\ In(m, {"create"}) /\ ~archived
    /\ ledger' = [i \in DOMAIN ledger \cup {call[m].id} |->
                     IF i = call[m].id THEN Row(call[m].expense, 1) ELSE ledger[i]]
    /\ End(m)
    /\ UNCHANGED <<drawn, people, archived>>

CreateWrites(m) ==
    /\ In(m, {"create"}) /\ ~Locked /\ ~archived
    /\ ledger' = [i \in DOMAIN ledger \cup {call[m].id} |->
                     IF i = call[m].id THEN Row(call[m].expense, 1) ELSE ledger[i]]
    /\ End(m)
    /\ UNCHANGED <<drawn, people, archived>>

CreateRefused(m) ==
    /\ In(m, {"create"}) /\ ~Locked /\ archived
    /\ End(m)
    /\ UNCHANGED <<rows, people, archived>>

(* updateExpense: a removed participant stays on the expenses that have it.  *)
UpdateReads(m) ==
    \E i \in DOMAIN ledger, e \in Menu :
       LET allowed == (Members \ hidden) \cup Involved(ledger[i].expense)
       IN  /\ m \in active /\ ~archived
           /\ Accepted(e, allowed)
           /\ Begin(m, [op |-> "update", id |-> i, version |-> ledger[i].version,
                        expense |-> Stored(e, allowed, i)])
           /\ UNCHANGED <<rows, people, archived>>

Claimed(m) == call[m].id \in DOMAIN ledger /\ ledger[call[m].id].version = call[m].version

UpdateWrites(m) ==
    /\ In(m, {"update"}) /\ Claimed(m)
    /\ ledger' = [ledger EXCEPT ![call[m].id] = Row(call[m].expense, call[m].version + 1)]
    /\ EndUnlocked(m)
    /\ UNCHANGED <<drawn, people, archived>>

UpdateConflicts(m) ==
    /\ In(m, {"update"}) /\ ~Claimed(m)
    /\ End(m)
    /\ UNCHANGED <<rows, people, archived>>

DeleteReads(m) ==
    \E i \in DOMAIN ledger :
       /\ m \in active /\ ~archived
       /\ Begin(m, [op |-> "delete", id |-> i])
       /\ UNCHANGED <<rows, people, archived>>

DeleteWrites(m) ==
    /\ In(m, {"delete"})
    /\ ledger' = [i \in DOMAIN ledger \ {call[m].id} |-> ledger[i]]
    /\ EndUnlocked(m)
    /\ UNCHANGED <<drawn, people, archived>>

-----------------------------------------------------------------------------
(* leaveGroup: the checks, the balances inside its transaction, its commit.  *)
(* Only the deletion of an account leaves archived groups, or unsettled.     *)
LeaveChecks(m) ==
    \E erasing, wanted \in BOOLEAN, promote \in SUBSET (active \ {m}) :
       /\ m \in active
       /\ archived \/ ~wanted => erasing
       /\ active \ {m} # {}
       /\ IF LastAdmin(m) THEN Cardinality(promote) = 1 ELSE promote = {}
       /\ Begin(m, [op |-> "leave", settle |-> wanted /\ IsUnsettled(m), promote |-> promote,
                    seen |-> Seen(m, m \in admins)])
       /\ UNCHANGED <<rows, people, archived>>

LeaveReads(m) ==
    /\ In(m, {"leave"})
    /\ Continue(m, [op |-> "leaving", promote |-> call[m].promote, seen |-> call[m].seen,
                    who |-> m, legs |-> IF call[m].settle THEN LegsOf(m) ELSE <<>>,
                    due |-> IF call[m].settle THEN Shown(m) ELSE 0])
    /\ UNCHANGED <<rows, people, archived>>

LeaveWrites(m) ==
    /\ In(m, {"leaving"})
    /\ Settle(call[m].legs)
    /\ active' = active \ {m}
    /\ admins' = admins \cup call[m].promote
    /\ EndUnlocked(m)
    /\ UNCHANGED <<hidden, archived>>

(* removeMember by an admin: whether to settle is the admin's answer to the  *)
(* first look at the balances; the role is read with it, the admins left are *)
(* counted in the transaction.                                               *)
RemoveChecks(m) ==
    \E who \in active \ {m}, settle \in BOOLEAN :
       /\ m \in active \cap admins /\ ~archived
       /\ Begin(m, [op |-> "remove", who |-> who, settle |-> settle, admin |-> who \in admins])
       /\ UNCHANGED <<rows, people, archived>>

RemoveReads(m) ==
    LET who == call[m].who
    IN  /\ In(m, {"remove"})
        /\ call[m].admin => OtherAdmins(who) # {}
        /\ Continue(m, [op |-> "removing", who |-> who, seen |-> Seen(who, call[m].admin),
                        legs |-> IF call[m].settle THEN LegsOf(who) ELSE <<>>,
                        due |-> IF call[m].settle THEN Shown(who) ELSE 0])
        /\ UNCHANGED <<rows, people, archived>>

RemoveWrites(m) ==
    /\ In(m, {"removing"})
    /\ Settle(call[m].legs)
    /\ active' = active \ {call[m].who}
    /\ hidden' = hidden \cup {call[m].who}
    /\ EndUnlocked(m)
    /\ UNCHANGED <<admins, archived>>

(* updateMemberRole                                                          *)
RoleChecks(m) ==
    \E who \in active \ {m} :
       /\ m \in active \cap admins
       /\ Begin(m, [op |-> "role", who |-> who, admin |-> who \in admins])
       /\ UNCHANGED <<rows, people, archived>>

RoleReads(m) ==
    LET who == call[m].who
    IN  /\ In(m, {"role"})
        /\ call[m].admin => OtherAdmins(who) # {}
        /\ Continue(m, [op |-> "assigning", who |-> who, admin |-> ~call[m].admin,
                        seen |-> Seen(who, call[m].admin)])
        /\ UNCHANGED <<rows, people, archived>>

RoleWrites(m) ==
    /\ In(m, {"assigning"})
    /\ admins' = IF call[m].admin THEN admins \cup {call[m].who} ELSE admins \ {call[m].who}
    /\ End(m)
    /\ UNCHANGED <<rows, active, hidden, archived>>

-----------------------------------------------------------------------------
(* The archive procedure, under the lock: the first look at the balances,    *)
(* the second one for the settlements if it is forced, its commit.           *)
(* Mutant: archivings do not wait for each other.                            *)
ArchiveAtOnce(m) ==
    \E force \in BOOLEAN :
       /\ m \in active \cap admins /\ ~archived
       /\ Unsettled => force
       /\ Begin(m, [op |-> "archive", settle |-> Unsettled, raced |-> FALSE])
       /\ UNCHANGED <<rows, people, archived>>

ArchiveLocks(m) ==
    \E force \in BOOLEAN :
       /\ m \in active \cap admins /\ ~archived /\ ~Locked
       /\ Unsettled => force
       /\ Begin(m, [op |-> "archive", settle |-> Unsettled, raced |-> FALSE])
       /\ UNCHANGED <<rows, people, archived>>

ArchiveReads(m) ==
    /\ In(m, {"archive"})
    /\ Continue(m, [op |-> "archiving", raced |-> call[m].raced,
                    legs |-> IF call[m].settle THEN SettlementLegs ELSE <<>>,
                    due |-> LET cents == GroupBalances
                            IN  [p \in Members |-> IF call[m].settle THEN CentsIn(cents, p) ELSE 0]])
    /\ UNCHANGED <<rows, people, archived>>

ArchiveWrites(m) ==
    /\ In(m, {"archiving"})
    /\ Settle(call[m].legs)
    /\ archived' = TRUE
    /\ End(m)
    /\ UNCHANGED people

Unarchive(m) ==
    /\ m \in active \cap admins /\ archived /\ ~Locked
    /\ call[m] = NoCall /\ made < MaxCalls
    /\ archived' = FALSE
    /\ made' = made + 1
    /\ UNCHANGED <<rows, people, call>>

(* archiveGroupForSelf, of the only member left, settles nothing.            *)
ArchiveForSelf(m) ==
    /\ active = {m} /\ ~Locked
    /\ call[m] = NoCall /\ made < MaxCalls
    /\ archived' = TRUE
    /\ made' = made + 1
    /\ UNCHANGED <<rows, people, call>>

(* An error or a crash before the commit: the transaction is rolled back.    *)
Abort(m) ==
    /\ call[m] # NoCall
    /\ End(m)
    /\ UNCHANGED <<rows, people, archived>>

-----------------------------------------------------------------------------
Write(m) == CreateReads(m) \/ CreateWrites(m) \/ CreateRefused(m)
               \/ UpdateReads(m) \/ UpdateWrites(m) \/ UpdateConflicts(m)
               \/ DeleteReads(m) \/ DeleteWrites(m)
Exit(m) == LeaveChecks(m) \/ LeaveReads(m) \/ LeaveWrites(m) \/ RemoveChecks(m)
               \/ RemoveReads(m) \/ RemoveWrites(m)
Manage(m) == RoleChecks(m) \/ RoleReads(m) \/ RoleWrites(m) \/ ArchiveLocks(m) \/ ArchiveReads(m)
                \/ ArchiveWrites(m) \/ Unarchive(m) \/ ArchiveForSelf(m)

Next == \E m \in Members : Write(m) \/ Exit(m) \/ Manage(m) \/ Abort(m)

Spec == Init /\ [][Next]_vars
-----------------------------------------------------------------------------
Settled(expenses, who) ==
    LET balances == GetBalances(expenses)
    IN  \A p \in who \cap DOMAIN balances : balances[p] = 0

Ordinary == \A i \in DOMAIN ledger : AddsUp(Expenses[i])

TypeOK ==
    /\ DOMAIN ledger \subseteq 1..drawn
    /\ \A i \in DOMAIN ledger :
          /\ ledger[i].version \in Nat \ {0}
          /\ IsExpense(ledger[i].expense, Members)
    /\ active \subseteq Members /\ admins \subseteq Members /\ hidden \subseteq Members
    /\ archived \in BOOLEAN
    /\ \A m \in Members : In(m, {"leaving", "removing", "archiving"}) =>
          call[m].legs \in Seq([from : Members, to : Members, amount : Int])
    /\ \A m, k \in Members : m # k => ~(In(m, {"archive", "archiving"}) /\ In(k, {"archive", "archiving"}))
    /\ made \in 0..MaxCalls

(* Paying one suggested settlement settles just that one: those suggested    *)
(* after it are the others, whichever is paid first (the comment on          *)
(* compareBalancesForSettlements), unless the ledger has refunds or the      *)
(* converted cents of several payers.                                        *)
PaidLegLeavesTheRest ==
    Ordinary =>
        LET legs == SuggestedSettlements(GetBalances(Expenses))
        IN  \A i \in DOMAIN legs :
               LET paid == [j \in DOMAIN ledger \cup {drawn + 1} |->
                               IF j = drawn + 1 THEN Settlement(legs[i]) ELSE Expenses[j]]
               IN  SuggestedSettlements(GetBalances(paid)) = RemoveAt(legs, i)

(* Nobody is more than a cent off: what a participant is said to have paid   *)
(* and to owe over all expenses is the exact sum, rounded up or down.        *)
WithinACent ==
    Ordinary =>
        \A exact \in {Paid(Expenses), Owed(Expenses)} :
           LET cents == Distribute(exact, Amount(Expenses), 0)
           IN  /\ SumFunction(cents) = Amount(Expenses)
               /\ \A p \in DOMAIN exact : /\ Below(exact[p], Whole(cents[p] + 1))
                                         /\ Below(Whole(cents[p] - 1), exact[p])

(* What a member who leaves, or is removed, is left with is what others have *)
(* written since the call looked at the balances: it pays and is paid what   *)
(* was due then, to the cent, whatever has been written, settled or archived *)
(* since, and nothing if nobody asked to settle.                             *)
ExitSettlesWhatItSaw ==
    [][\A m \in Members :
          /\ In(m, {"leaving", "removing"}) /\ call'[m] = NoCall
          /\ <<rows, people>>' # <<rows, people>> /\ Ordinary
          => Balance(Expenses', call[m].who) = Balance(Expenses, call[m].who) - call[m].due]_vars

(* What the members of an archived group are left with is what others have   *)
(* written since the second look at the balances; if nothing that needs no   *)
(* lock has committed since the lock, they have no balances, though members  *)
(* write all the while.                                                      *)
ArchiveSettlesWhatItSaw ==
    [][\A m \in Members :
          /\ In(m, {"archiving"}) /\ archived' /\ ~archived /\ Ordinary
          => /\ \A p \in Members :
                   Balance(Expenses', p) = Balance(Expenses, p) - call[m].due[p]
             /\ ~call[m].raced => Settled(Expenses', Members)]_vars

(* Whom a call that takes an admin counts on: the active admins it has seen  *)
(* besides, and whom it promotes.                                            *)
Promoted(c)  == IF c.op = "leaving" THEN c.promote ELSE {}
CountedOn(c) == ((c.seen.admins \cap c.seen.active) \ {c.who}) \cup Promoted(c)

(* "Group must keep at least one admin": one call alone keeps it. The last   *)
(* active admin is lost only to a call that counted on somebody, all of whom *)
(* other calls have taken from the admins since its look at the members, or  *)
(* that took from them one who became an admin since.                        *)
AdminLostToRaceOnly ==
    [][admins \cap active # {} /\ (admins \cap active)' = {} =>
          \E m \in Members :
             LET c == call[m]
             IN  /\ In(m, {"leaving", "removing", "assigning"}) /\ call'[m] = NoCall
                 /\ \/ c.who \in admins \ c.seen.admins
                    \/ /\ CountedOn(c) # {}
                       /\ CountedOn(c) \cap active \cap (admins \cup Promoted(c)) = {}]_vars

(* Violated: archiving "matches a zeroed-out ledger" (archive.procedure.ts). *)
ArchiveSettles ==
    [][\A m \in Members :
          In(m, {"archiving"}) /\ archived' /\ ~archived => Settled(Expenses', Members)]_vars
=============================================================================
