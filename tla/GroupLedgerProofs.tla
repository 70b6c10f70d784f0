-------------------------- MODULE GroupLedgerProofs --------------------------
(* A group loses its last admin only to calls that race, an archiving that   *)
(* does not race settles what is there and leaves nobody a balance, exits    *)
(* and archivings settle to the cent what they were shown however they race, *)
(* paying a suggested settlement leaves the others, and nobody is more than a*)
(* cent off, whatever the members of the group, their expenses and the number*)
(* of their calls.                                                           *)
EXTENDS GroupLedger, BalancesProofs

Others(seen, who) == (seen.admins \cap seen.active) \ {who}

(* What a call has made sure of, about the members as it saw them: whoever   *)
(* it takes the last admin from, somebody who stays is one or is made one.   *)
LeaverConsidered(m, c) ==
    /\ c.promote \subseteq c.seen.active \ {m}
    /\ m \in c.seen.admins /\ c.promote = {} => Others(c.seen, m) # {}
RemovalConsidered(c) == c.who \in c.seen.admins => Others(c.seen, c.who) # {}
RoleConsidered(c)    == c.admin \/ Others(c.seen, c.who) # {}

Considered(m, c) ==
    /\ c.op \in {"leave", "leaving"} => LeaverConsidered(m, c)
    /\ c.op = "leaving" => c.who = m
    /\ c.op = "removing" => RemovalConsidered(c)
    /\ c.op = "assigning" => RoleConsidered(c)

(* Calls are records; those that change members have considered the admins.  *)
IInv ==
    /\ DOMAIN call = Members
    /\ \A m \in Members : "op" \in DOMAIN call[m] /\ Considered(m, call[m])

-----------------------------------------------------------------------------
(* Calls that say nothing about the members.                                 *)
Silent(c) ==
    /\ "op" \in DOMAIN c
    /\ c.op \notin {"leave", "leaving", "removing", "assigning"}

(* One call that goes on keeps the invariant when what it is next is sound.  *)
LEMMA OneMoves ==
    ASSUME IInv, NEW m \in Members, NEW c, "op" \in DOMAIN c, Considered(m, c),
           call' = [call EXCEPT ![m] = c]
    PROVE  IInv'
<1>1. DOMAIN call' = Members
    BY DEF IInv
<1>2. ASSUME NEW k \in Members
      PROVE  "op" \in DOMAIN call'[k] /\ Considered(k, call'[k])
    <2>1. CASE k = m
        <3>1. call'[k] = c
            BY <2>1 DEF IInv
        <3> QED BY <2>1, <3>1
    <2>2. CASE k # m
        <3>1. call'[k] = call[k]
            BY <2>2 DEF IInv
        <3> QED BY <3>1 DEF IInv
    <2> QED BY <2>1, <2>2
<1> QED BY <1>1, <1>2 DEF IInv, Considered, LeaverConsidered, RemovalConsidered, RoleConsidered, Others

(* A call that has nothing to say is sound.                                  *)
LEMMA SilentConsidered ==
    ASSUME NEW m, NEW c, Silent(c)
    PROVE  "op" \in DOMAIN c /\ Considered(m, c)
BY DEF Silent, Considered

(* So is the member between calls.                                           *)
LEMMA NoCallSilent == Silent(NoCall)
BY DEF NoCall, Silent

(* A call that ends keeps the invariant.                                     *)
LEMMA EndKeeps ==
    ASSUME IInv, NEW m \in Members, End(m)
    PROVE  IInv'
BY NoCallSilent, SilentConsidered, OneMoves DEF End, Continue

(* So does one that ends without the lock, which marks an archiving as raced.*)
LEMMA EndUnlockedKeeps ==
    ASSUME IInv, NEW m \in Members, EndUnlocked(m)
    PROVE  IInv'
<1>1. DOMAIN call' = Members
    BY DEF EndUnlocked
<1>2. ASSUME NEW k \in Members
      PROVE  "op" \in DOMAIN call'[k] /\ Considered(k, call'[k])
    <2>1. CASE k = m
        <3>1. call'[k] = NoCall
            BY <2>1 DEF EndUnlocked
        <3> QED BY <3>1, NoCallSilent, SilentConsidered
    <2>2. CASE k # m /\ In(k, {"archive", "archiving"})
        <3>1. call'[k] = [call[k] EXCEPT !.raced = TRUE]
            BY <2>2 DEF EndUnlocked
        <3>2. "op" \in DOMAIN call[k]
            BY DEF IInv
        <3>3. DOMAIN call'[k] = DOMAIN call[k] /\ call'[k].op = call[k].op
            BY <3>1, <3>2
        <3>4. Silent(call'[k])
            BY <2>2, <3>2, <3>3 DEF In, Silent
        <3> QED BY <3>4, SilentConsidered
    <2>3. CASE k # m /\ ~In(k, {"archive", "archiving"})
        <3>1. call'[k] = call[k]
            BY <2>3 DEF EndUnlocked
        <3> QED BY <3>1 DEF IInv
    <2> QED BY <2>1, <2>2, <2>3
<1> QED BY <1>1, <1>2 DEF IInv, Considered, LeaverConsidered, RemovalConsidered, RoleConsidered, Others

-----------------------------------------------------------------------------
(* No member's call is under way at first.                                   *)
LEMMA InitIInv == Init => IInv
<1> SUFFICES ASSUME Init PROVE IInv
    OBVIOUS
<1>1. DOMAIN call = Members /\ \A m \in Members : call[m] = NoCall
    BY DEF Init
<1> QED BY <1>1, NoCallSilent, SilentConsidered DEF IInv

(* Creates, edits and deletions of expenses keep the invariant.              *)
LEMMA WriteKeeps ==
    ASSUME IInv, NEW m \in Members, Write(m)
    PROVE  IInv'
<1>1. CASE CreateReads(m)
    <2>1. PICK e \in Menu :
             Begin(m, [op |-> "create", id |-> drawn + 1,
                       expense |-> Stored(e, Members \ hidden, drawn + 1)])
        BY <1>1 DEF CreateReads
    <2> DEFINE c == [op |-> "create", id |-> drawn + 1,
                     expense |-> Stored(e, Members \ hidden, drawn + 1)]
    <2>2. Silent(c)
        BY DEF Silent
    <2> QED BY <2>1, <2>2, SilentConsidered, OneMoves DEF Begin
<1>2. CASE UpdateReads(m)
    <2>1. PICK i \in DOMAIN ledger, e \in Menu :
             Begin(m, [op |-> "update", id |-> i, version |-> ledger[i].version,
                       expense |-> Stored(e, (Members \ hidden) \cup Involved(ledger[i].expense), i)])
        BY <1>2 DEF UpdateReads
    <2> DEFINE c == [op |-> "update", id |-> i, version |-> ledger[i].version,
                     expense |-> Stored(e, (Members \ hidden) \cup Involved(ledger[i].expense), i)]
    <2>2. Silent(c)
        BY DEF Silent
    <2> QED BY <2>1, <2>2, SilentConsidered, OneMoves DEF Begin
<1>3. CASE DeleteReads(m)
    <2>1. PICK i \in DOMAIN ledger : Begin(m, [op |-> "delete", id |-> i])
        BY <1>3 DEF DeleteReads
    <2>2. Silent([op |-> "delete", id |-> i])
        BY DEF Silent
    <2> QED BY <2>1, <2>2, SilentConsidered, OneMoves DEF Begin
<1>4. CASE CreateWrites(m) \/ CreateRefused(m) \/ UpdateConflicts(m)
    BY <1>4, EndKeeps DEF CreateWrites, CreateRefused, UpdateConflicts
<1>5. CASE UpdateWrites(m) \/ DeleteWrites(m)
    BY <1>5, EndUnlockedKeeps DEF UpdateWrites, DeleteWrites
<1> QED BY <1>1, <1>2, <1>3, <1>4, <1>5 DEF Write

(* Leaving and removing: the checks before the transaction, or those in it,  *)
(* establish what the call has considered.                                   *)
LEMMA ExitKeeps ==
    ASSUME IInv, NEW m \in Members, Exit(m)
    PROVE  IInv'
<1>1. CASE LeaveChecks(m)
    <2>1. PICK erasing \in BOOLEAN, wanted \in BOOLEAN, promote \in SUBSET (active \ {m}) :
             /\ IF LastAdmin(m) THEN Cardinality(promote) = 1 ELSE promote = {}
             /\ Begin(m, [op |-> "leave", settle |-> wanted /\ IsUnsettled(m),
                          promote |-> promote, seen |-> Seen(m, m \in admins)])
        BY <1>1 DEF LeaveChecks
    <2> DEFINE c == [op |-> "leave", settle |-> wanted /\ IsUnsettled(m),
                     promote |-> promote, seen |-> Seen(m, m \in admins)]
    <2>2. /\ c.op = "leave" /\ c.promote = promote /\ c.seen.active = active
          /\ c.seen.admins = IF m \in admins THEN admins \cup {m} ELSE admins \ {m}
          /\ "op" \in DOMAIN c
        BY DEF Seen
    <2>3. ASSUME m \in c.seen.admins, promote = {}
          PROVE  Others(c.seen, m) # {}
        <3>1. Cardinality(promote) # 1
            BY <2>3, FS_EmptySet
        <3>2. ~LastAdmin(m)
            BY <2>1, <3>1
        <3>3. m \in admins
            BY <2>2, <2>3
        <3>4. Others(c.seen, m) = OtherAdmins(m)
            BY <2>2 DEF Others, OtherAdmins
        <3> QED BY <3>2, <3>3, <3>4 DEF LastAdmin
    <2>4. Considered(m, c)
        BY <2>2, <2>3 DEF Considered, LeaverConsidered
    <2> QED BY <2>1, <2>2, <2>4, OneMoves DEF Begin
<1>2. CASE LeaveReads(m)
    <2> DEFINE c == [op |-> "leaving", promote |-> call[m].promote, seen |-> call[m].seen,
                     who |-> m, legs |-> IF call[m].settle THEN LegsOf(m) ELSE <<>>,
                     due |-> IF call[m].settle THEN Shown(m) ELSE 0]
    <2>1. call[m].op = "leave" /\ call' = [call EXCEPT ![m] = c]
        BY <1>2 DEF LeaveReads, Continue, In
    <2>2. LeaverConsidered(m, call[m])
        BY <2>1 DEF IInv, Considered
    <2>3. "op" \in DOMAIN c /\ Considered(m, c)
        BY <2>2 DEF Considered, LeaverConsidered
    <2> QED BY <2>1, <2>3, OneMoves
<1>3. CASE LeaveWrites(m)
    BY <1>3, EndUnlockedKeeps DEF LeaveWrites
<1>4. CASE RemoveChecks(m)
    <2>1. PICK who \in active \ {m}, settle \in BOOLEAN :
             Begin(m, [op |-> "remove", who |-> who, settle |-> settle, admin |-> who \in admins])
        BY <1>4 DEF RemoveChecks
    <2>2. Silent([op |-> "remove", who |-> who, settle |-> settle, admin |-> who \in admins])
        BY DEF Silent
    <2> QED BY <2>1, <2>2, SilentConsidered, OneMoves DEF Begin
<1>5. CASE RemoveReads(m)
    <2> DEFINE who == call[m].who
               c == [op |-> "removing", who |-> who, seen |-> Seen(who, call[m].admin),
                     legs |-> IF call[m].settle THEN LegsOf(who) ELSE <<>>,
                     due |-> IF call[m].settle THEN Shown(who) ELSE 0]
    <2>1. (call[m].admin => OtherAdmins(who) # {}) /\ call' = [call EXCEPT ![m] = c]
        BY <1>5 DEF RemoveReads, Continue
    <2>2. Others(c.seen, who) = OtherAdmins(who)
        BY DEF Seen, Others, OtherAdmins
    <2>3. who \in c.seen.admins => call[m].admin
        BY DEF Seen
    <2>4. "op" \in DOMAIN c /\ Considered(m, c)
        BY <2>1, <2>2, <2>3 DEF Considered, RemovalConsidered
    <2> HIDE DEF c
    <2> QED BY <2>1, <2>4, OneMoves
<1>6. CASE RemoveWrites(m)
    BY <1>6, EndUnlockedKeeps DEF RemoveWrites
<1> QED BY <1>1, <1>2, <1>3, <1>4, <1>5, <1>6 DEF Exit

(* Roles and archiving.                                                      *)
LEMMA ManageKeeps ==
    ASSUME IInv, NEW m \in Members, Manage(m)
    PROVE  IInv'
<1>1. CASE RoleChecks(m)
    <2>1. PICK who \in active \ {m} :
             Begin(m, [op |-> "role", who |-> who, admin |-> who \in admins])
        BY <1>1 DEF RoleChecks
    <2>2. Silent([op |-> "role", who |-> who, admin |-> who \in admins])
        BY DEF Silent
    <2> QED BY <2>1, <2>2, SilentConsidered, OneMoves DEF Begin
<1>2. CASE RoleReads(m)
    <2> DEFINE who == call[m].who
               c == [op |-> "assigning", who |-> who, admin |-> ~call[m].admin,
                     seen |-> Seen(who, call[m].admin)]
    <2>1. (call[m].admin => OtherAdmins(who) # {}) /\ call' = [call EXCEPT ![m] = c]
        BY <1>2 DEF RoleReads, Continue
    <2>2. Others(c.seen, who) = OtherAdmins(who)
        BY DEF Seen, Others, OtherAdmins
    <2>3. c.op = "assigning" /\ "op" \in DOMAIN c /\ c.who = who /\ (c.admin <=> ~call[m].admin)
        OBVIOUS
    <2>4. Considered(m, c)
        BY <2>1, <2>2, <2>3 DEF Considered, RoleConsidered
    <2> HIDE DEF c
    <2> QED BY <2>1, <2>3, <2>4, OneMoves
<1>3. CASE RoleWrites(m) \/ ArchiveWrites(m)
    BY <1>3, EndKeeps DEF RoleWrites, ArchiveWrites
<1>4. CASE ArchiveLocks(m)
    <2> DEFINE c == [op |-> "archive", settle |-> Unsettled, raced |-> FALSE]
    <2>1. call' = [call EXCEPT ![m] = c]
        BY <1>4 DEF ArchiveLocks, Begin
    <2>2. Silent(c)
        BY DEF Silent
    <2> QED BY <2>1, <2>2, SilentConsidered, OneMoves
<1>5. CASE ArchiveReads(m)
    <2> DEFINE c == [op |-> "archiving", raced |-> call[m].raced,
                     legs |-> IF call[m].settle THEN SettlementLegs ELSE <<>>,
                     due |-> [p \in Members |-> IF call[m].settle THEN Shown(p) ELSE 0]]
    <2>1. call' = [call EXCEPT ![m] = c]
        BY <1>5 DEF ArchiveReads, Continue, Shown
    <2>2. Silent(c)
        BY DEF Silent
    <2> QED BY <2>1, <2>2, SilentConsidered, OneMoves
<1>6. CASE Unarchive(m) \/ ArchiveForSelf(m)
    <2>1. call' = call
        BY <1>6 DEF Unarchive, ArchiveForSelf
    <2> QED BY <2>1 DEF IInv, Considered, LeaverConsidered, RemovalConsidered, RoleConsidered, Others
<1> QED BY <1>1, <1>2, <1>3, <1>4, <1>5, <1>6 DEF Manage

(* Every step keeps the invariant.                                           *)
LEMMA NextKeeps == IInv /\ [Next]_vars => IInv'
<1> SUFFICES ASSUME IInv, [Next]_vars PROVE IInv'
    OBVIOUS
<1>1. CASE UNCHANGED vars
    BY <1>1 DEF vars, IInv, Considered, LeaverConsidered, RemovalConsidered, RoleConsidered, Others
<1>2. ASSUME NEW m \in Members, Write(m) \/ Exit(m) \/ Manage(m) \/ Abort(m)
      PROVE  IInv'
    <2>1. CASE Abort(m)
        BY <2>1, EndKeeps DEF Abort
    <2> QED BY <1>2, <2>1, WriteKeeps, ExitKeeps, ManageKeeps
<1> QED BY <1>1, <1>2 DEF Next

-----------------------------------------------------------------------------
(* Only three steps change who is an admin of the group.                     *)
LEMMA WhoChangesMembers ==
    ASSUME [Next]_vars, (admins \cap active)' # admins \cap active
    PROVE  \E m \in Members : LeaveWrites(m) \/ RemoveWrites(m) \/ RoleWrites(m)
<1>1. ~UNCHANGED vars
    BY DEF vars, people
<1>2. PICK m \in Members : Write(m) \/ Exit(m) \/ Manage(m) \/ Abort(m)
    BY <1>1 DEF Next
<1>3. ~Write(m)
    BY DEF Write, CreateReads, CreateWrites, CreateRefused, UpdateReads, UpdateWrites,
           UpdateConflicts, DeleteReads, DeleteWrites, people
<1>4. ~Abort(m)
    BY DEF Abort, people
<1>5. Exit(m) => LeaveWrites(m) \/ RemoveWrites(m)
    BY DEF Exit, LeaveChecks, LeaveReads, RemoveChecks, RemoveReads, people
<1>6. Manage(m) => RoleWrites(m)
    BY DEF Manage, RoleChecks, RoleReads, ArchiveLocks, ArchiveReads, ArchiveWrites, Unarchive,
           ArchiveForSelf, people
<1> QED BY <1>2, <1>3, <1>4, <1>5, <1>6

(* One call alone leaves an admin: those it counted on are all gone.         *)
LEMMA LastStays ==
    ASSUME IInv, [Next]_vars, admins \cap active # {}, (admins \cap active)' = {}
    PROVE  \E m \in Members :
             LET c == call[m]
             IN  /\ In(m, {"leaving", "removing", "assigning"}) /\ call'[m] = NoCall
                 /\ \/ c.who \in admins \ c.seen.admins
                    \/ /\ CountedOn(c) # {}
                       /\ CountedOn(c) \cap active \cap (admins \cup Promoted(c)) = {}
<1>1. PICK m \in Members : LeaveWrites(m) \/ RemoveWrites(m) \/ RoleWrites(m)
    BY WhoChangesMembers
<1>2. In(m, {"leaving", "removing", "assigning"})
    BY <1>1 DEF LeaveWrites, RemoveWrites, RoleWrites, In
<1>3. call'[m] = NoCall
    BY <1>1 DEF LeaveWrites, RemoveWrites, RoleWrites, EndUnlocked, End, Continue, IInv
<1> DEFINE c == call[m]
<1>4. Considered(m, c)
    BY DEF IInv
<1>5. SUFFICES ASSUME c.who \in admins => c.who \in c.seen.admins
               PROVE  /\ CountedOn(c) # {}
                      /\ CountedOn(c) \cap active \cap (admins \cup Promoted(c)) = {}
    BY <1>2, <1>3
<1>6. CASE LeaveWrites(m)
    <2>1. active' = active \ {m} /\ admins' = admins \cup c.promote /\ c.op = "leaving"
        BY <1>6 DEF LeaveWrites, In
    <2>2. LeaverConsidered(m, c) /\ c.who = m
        BY <1>4, <2>1 DEF Considered
    <2>3. CountedOn(c) = Others(c.seen, m) \cup c.promote /\ Promoted(c) = c.promote
        BY <2>1, <2>2 DEF CountedOn, Promoted, Others
    <2>4. m \in c.seen.admins
        BY <1>5, <2>1, <2>2
    <2>5. CountedOn(c) # {}
        BY <2>2, <2>3, <2>4 DEF LeaverConsidered
    <2>6. m \notin CountedOn(c)
        BY <2>2, <2>3 DEF LeaverConsidered, Others
    <2> QED BY <2>1, <2>3, <2>5, <2>6
<1>7. CASE RemoveWrites(m)
    <2>1. active' = active \ {c.who} /\ admins' = admins /\ c.op = "removing"
        BY <1>7 DEF RemoveWrites, In
    <2>2. CountedOn(c) = Others(c.seen, c.who) /\ Promoted(c) = {}
        BY <2>1 DEF CountedOn, Promoted, Others
    <2>3. c.who \in c.seen.admins
        BY <1>5, <2>1
    <2>4. CountedOn(c) # {} /\ c.who \notin CountedOn(c)
        BY <1>4, <2>1, <2>2, <2>3 DEF Considered, RemovalConsidered, Others
    <2> QED BY <2>1, <2>2, <2>4
<1>8. CASE RoleWrites(m)
    <2>1. /\ admins' = IF c.admin THEN admins \cup {c.who} ELSE admins \ {c.who}
          /\ active' = active /\ c.op = "assigning"
        BY <1>8 DEF RoleWrites, In
    <2>2. CountedOn(c) = Others(c.seen, c.who) /\ Promoted(c) = {}
        BY <2>1 DEF CountedOn, Promoted, Others
    <2>3. ~c.admin
        BY <2>1
    <2>4. CountedOn(c) # {} /\ c.who \notin CountedOn(c)
        BY <1>4, <2>1, <2>2, <2>3 DEF Considered, RoleConsidered, Others
    <2> QED BY <2>1, <2>2, <2>3, <2>4
<1> QED BY <1>1, <1>6, <1>7, <1>8

(* members.ts, "Group must keep at least one admin": one call alone keeps it.*)
(* The last active admin is lost only when all the admins that a leave, a    *)
(* removal or a demotion counted on have been taken by other calls since its *)
(* look at the members, or the one it takes became an admin since.           *)
THEOREM AdminsStay == Spec => AdminLostToRaceOnly
<1>1. IInv /\ [Next]_vars =>
        [admins \cap active # {} /\ (admins \cap active)' = {} =>
           \E m \in Members :
             LET c == call[m]
             IN  /\ In(m, {"leaving", "removing", "assigning"}) /\ call'[m] = NoCall
                 /\ \/ c.who \in admins \ c.seen.admins
                    \/ /\ CountedOn(c) # {}
                       /\ CountedOn(c) \cap active \cap (admins \cup Promoted(c)) = {}]_vars
    BY LastStays
<1> QED BY <1>1, InitIInv, NextKeeps, PTL DEF Spec, AdminLostToRaceOnly
-----------------------------------------------------------------------------
(* An archiving that is not raced.                                           *)
Archiving(m) == In(m, {"archive", "archiving"})
Unraced(m)   == ~call[m].raced

(* One member archives at a time, and unless raced with the balances as they *)
(* are: what it settles is what there is to settle.                          *)
OneArchives == \A m, k \in Members : Archiving(m) /\ Archiving(k) => m = k
LegsAreCurrent == \A m \in Members :
    In(m, {"archiving"}) /\ Unraced(m) =>
        call[m].legs = IF Unsettled THEN SettlementLegs ELSE <<>>
LookIsCurrent == \A m \in Members :
    In(m, {"archive"}) /\ Unraced(m) => (call[m].settle <=> Unsettled)

Markable == \A m \in Members : Archiving(m) => "raced" \in DOMAIN call[m]

Archivings == OneArchives /\ Markable /\ LegsAreCurrent /\ LookIsCurrent

(* The balances are a matter of the expenses alone.                          *)
LEMMA SameBalances ==
    ASSUME ledger' = ledger
    PROVE  (Unsettled' <=> Unsettled) /\ SettlementLegs' = SettlementLegs
<1>1. Expenses' = Expenses
    BY DEF Expenses
<1>2. GroupBalances' = GroupBalances
    BY <1>1 DEF GroupBalances
<1> QED BY <1>2 DEF Unsettled, SettlementLegs

(* Calls of other members, and those that neither archive nor write, leave   *)
(* an archiving as it was.                                                   *)
LEMMA OneQuiet ==
    ASSUME IInv, Archivings, NEW m \in Members, NEW c, c.op \notin {"archive", "archiving"},
           call' = [call EXCEPT ![m] = c],
           ledger' = ledger \/ ~Locked \/ Archiving(m)
    PROVE  Archivings'
<1>1. call'[m] = c /\ \A k \in Members : k # m => call'[k] = call[k]
    BY DEF IInv
<1>2. \A k \in Members : Archiving(k)' => Archiving(k) /\ k # m /\ call'[k] = call[k]
    BY <1>1 DEF Archiving, In
<1>3. OneArchives'
    BY <1>2 DEF Archivings, OneArchives
<1>4. Markable'
    BY <1>2 DEF Archivings, Markable
<1>5. ASSUME NEW k \in Members, Archiving(k)'
      PROVE  ledger' = ledger
    BY <1>2, <1>5 DEF Archivings, OneArchives, Locked, Archiving
<1>6. LegsAreCurrent'
    <2> SUFFICES ASSUME NEW k \in Members, In(k, {"archiving"})', Unraced(k)'
                 PROVE  call'[k].legs = IF Unsettled' THEN SettlementLegs' ELSE <<>>
        BY DEF LegsAreCurrent
    <2>1. Archiving(k)'
        BY DEF Archiving, In
    <2>2. In(k, {"archiving"}) /\ Unraced(k) /\ call'[k] = call[k]
        BY <1>2, <2>1 DEF In, Unraced
    <2>3. (Unsettled' <=> Unsettled) /\ SettlementLegs' = SettlementLegs
        BY <1>5, <2>1, SameBalances
    <2> QED BY <2>2, <2>3 DEF Archivings, LegsAreCurrent
<1>7. LookIsCurrent'
    <2> SUFFICES ASSUME NEW k \in Members, In(k, {"archive"})', Unraced(k)'
                 PROVE  call'[k].settle <=> Unsettled'
        BY DEF LookIsCurrent
    <2>1. Archiving(k)'
        BY DEF Archiving, In
    <2>2. In(k, {"archive"}) /\ Unraced(k) /\ call'[k] = call[k]
        BY <1>2, <2>1 DEF In, Unraced
    <2>3. Unsettled' <=> Unsettled
        BY <1>5, <2>1, SameBalances
    <2> QED BY <2>2, <2>3 DEF Archivings, LookIsCurrent
<1> QED BY <1>3, <1>4, <1>6, <1>7 DEF Archivings

(* A call that commits without the lock leaves every archiving raced.        *)
LEMMA UnlockedQuiet ==
    ASSUME IInv, Archivings, NEW m \in Members, EndUnlocked(m)
    PROVE  Archivings'
<1>1. ASSUME NEW k \in Members, Archiving(k)'
      PROVE  Archiving(k) /\ ~Unraced(k)' /\ "raced" \in DOMAIN call'[k]
    <2>1. CASE k = m
        <3>1. call'[k] = NoCall
            BY <2>1 DEF EndUnlocked
        <3> QED BY <1>1, <3>1 DEF NoCall, Archiving, In
    <2>2. CASE k # m /\ Archiving(k)
        <3>1. call'[k] = [call[k] EXCEPT !.raced = TRUE]
            BY <2>2 DEF EndUnlocked, Archiving
        <3>2. "op" \in DOMAIN call[k] /\ "raced" \in DOMAIN call[k]
            BY <2>2 DEF IInv, Archivings, Markable
        <3>3. DOMAIN call'[k] = DOMAIN call[k] /\ call'[k].raced = TRUE
            BY <3>1, <3>2
        <3> QED BY <2>2, <3>2, <3>3 DEF Unraced
    <2>3. CASE k # m /\ ~Archiving(k)
        <3>1. call'[k] = call[k]
            BY <2>3 DEF EndUnlocked, Archiving
        <3> QED BY <1>1, <2>3, <3>1 DEF Archiving, In
    <2> QED BY <2>1, <2>2, <2>3
<1>2. OneArchives'
    BY <1>1 DEF Archivings, OneArchives
<1>3. LegsAreCurrent'
    BY <1>1 DEF LegsAreCurrent, Archiving, In
<1>4. LookIsCurrent'
    BY <1>1 DEF LookIsCurrent, Archiving, In
<1>5. Markable'
    BY <1>1 DEF Markable
<1> QED BY <1>2, <1>3, <1>4, <1>5 DEF Archivings

(* Nobody archives at first.                                                 *)
LEMMA InitArchivings == Init => Archivings
<1> SUFFICES ASSUME Init PROVE Archivings
    OBVIOUS
<1>1. \A m \in Members : ~Archiving(m)
    BY DEF Init, NoCall, Archiving, In
<1> QED BY <1>1 DEF Archivings, OneArchives, Markable, LegsAreCurrent, LookIsCurrent, Archiving, In

(* A step that changes neither calls nor expenses.                           *)
LEMMA StillQuiet ==
    ASSUME Archivings, call' = call, ledger' = ledger
    PROVE  Archivings'
<1>1. (Unsettled' <=> Unsettled) /\ SettlementLegs' = SettlementLegs
    BY SameBalances
<1> QED BY <1>1 DEF Archivings, OneArchives, Markable, LegsAreCurrent, LookIsCurrent, Archiving,
                    In, Unraced

(* Creates wait for an archiving, edits and deletions mark it as raced.      *)
LEMMA WriteQuiet ==
    ASSUME IInv, Archivings, NEW m \in Members, Write(m)
    PROVE  Archivings'
<1>1. CASE CreateReads(m)
    <2>1. PICK e \in Menu :
             /\ Begin(m, [op |-> "create", id |-> drawn + 1,
                          expense |-> Stored(e, Members \ hidden, drawn + 1)])
             /\ ledger' = ledger
        BY <1>1 DEF CreateReads, rows
    <2> QED BY <2>1, OneQuiet DEF Begin
<1>2. CASE UpdateReads(m)
    <2>1. PICK i \in DOMAIN ledger, e \in Menu :
             /\ Begin(m, [op |-> "update", id |-> i, version |-> ledger[i].version,
                          expense |-> Stored(e, (Members \ hidden)
                                                   \cup Involved(ledger[i].expense), i)])
             /\ ledger' = ledger
        BY <1>2 DEF UpdateReads, rows
    <2> QED BY <2>1, OneQuiet DEF Begin
<1>3. CASE DeleteReads(m)
    <2>1. PICK i \in DOMAIN ledger :
             Begin(m, [op |-> "delete", id |-> i]) /\ ledger' = ledger
        BY <1>3 DEF DeleteReads, rows
    <2> QED BY <2>1, OneQuiet DEF Begin
<1>4. CASE CreateWrites(m) \/ CreateRefused(m) \/ UpdateConflicts(m)
    <2>1. call' = [call EXCEPT ![m] = NoCall] /\ (ledger' = ledger \/ ~Locked)
        BY <1>4 DEF CreateWrites, CreateRefused, UpdateConflicts, End, Continue, rows
    <2> QED BY <2>1, OneQuiet DEF NoCall
<1>5. CASE UpdateWrites(m) \/ DeleteWrites(m)
    BY <1>5, UnlockedQuiet DEF UpdateWrites, DeleteWrites
<1> QED BY <1>1, <1>2, <1>3, <1>4, <1>5 DEF Write

(* Exits mark an archiving as raced when they commit.                        *)
LEMMA ExitQuiet ==
    ASSUME IInv, Archivings, NEW m \in Members, Exit(m)
    PROVE  Archivings'
<1>1. CASE LeaveChecks(m)
    <2>1. PICK erasing \in BOOLEAN, wanted \in BOOLEAN, promote \in SUBSET (active \ {m}) :
             /\ Begin(m, [op |-> "leave", settle |-> wanted /\ IsUnsettled(m),
                          promote |-> promote, seen |-> Seen(m, m \in admins)])
             /\ ledger' = ledger
        BY <1>1 DEF LeaveChecks, rows
    <2> DEFINE c == [op |-> "leave", settle |-> wanted /\ IsUnsettled(m),
                     promote |-> promote, seen |-> Seen(m, m \in admins)]
    <2>2. call' = [call EXCEPT ![m] = c] /\ c.op = "leave"
        BY <2>1 DEF Begin
    <2> HIDE DEF c
    <2> QED BY <2>1, <2>2, OneQuiet
<1>2. CASE LeaveReads(m)
    <2> DEFINE c == [op |-> "leaving", promote |-> call[m].promote, seen |-> call[m].seen,
                     who |-> m, legs |-> IF call[m].settle THEN LegsOf(m) ELSE <<>>,
                     due |-> IF call[m].settle THEN Shown(m) ELSE 0]
    <2>1. call' = [call EXCEPT ![m] = c] /\ ledger' = ledger /\ c.op = "leaving"
        BY <1>2 DEF LeaveReads, Continue, rows
    <2> HIDE DEF c
    <2> QED BY <2>1, OneQuiet
<1>3. CASE RemoveChecks(m)
    <2>1. PICK who \in active \ {m}, settle \in BOOLEAN :
             /\ Begin(m, [op |-> "remove", who |-> who, settle |-> settle,
                          admin |-> who \in admins])
             /\ ledger' = ledger
        BY <1>3 DEF RemoveChecks, rows
    <2> QED BY <2>1, OneQuiet DEF Begin
<1>4. CASE RemoveReads(m)
    <2> DEFINE who == call[m].who
               c == [op |-> "removing", who |-> who, seen |-> Seen(who, call[m].admin),
                     legs |-> IF call[m].settle THEN LegsOf(who) ELSE <<>>,
                     due |-> IF call[m].settle THEN Shown(who) ELSE 0]
    <2>1. call' = [call EXCEPT ![m] = c] /\ ledger' = ledger /\ c.op = "removing"
        BY <1>4 DEF RemoveReads, Continue, rows
    <2> HIDE DEF c
    <2> QED BY <2>1, OneQuiet
<1>5. CASE LeaveWrites(m) \/ RemoveWrites(m)
    BY <1>5, UnlockedQuiet DEF LeaveWrites, RemoveWrites
<1> QED BY <1>1, <1>2, <1>3, <1>4, <1>5 DEF Exit

(* An archiving starts when nobody else's is under way, with the balances    *)
(* looked at under the lock, and looks at them again.                        *)
LEMMA ArchiveQuiet ==
    ASSUME IInv, Archivings, NEW m \in Members,
           ArchiveLocks(m) \/ ArchiveReads(m) \/ ArchiveWrites(m)
    PROVE  Archivings'
<1>1. CASE ArchiveLocks(m)
    <2> DEFINE c == [op |-> "archive", settle |-> Unsettled, raced |-> FALSE]
    <2>1. call' = [call EXCEPT ![m] = c] /\ ledger' = ledger /\ ~Locked
        BY <1>1 DEF ArchiveLocks, Begin, rows
    <2>2. call'[m] = c /\ \A k \in Members : k # m => call'[k] = call[k]
        BY <2>1 DEF IInv
    <2>3. \A k \in Members : Archiving(k)' => k = m
        BY <2>1, <2>2 DEF Archiving, In, Locked
    <2>4. /\ c.op = "archive" /\ (c.settle <=> Unsettled) /\ "raced" \in DOMAIN c
        OBVIOUS
    <2>5. Unsettled' <=> Unsettled
        BY <2>1, SameBalances
    <2>6. OneArchives' /\ Markable'
        BY <2>2, <2>3, <2>4 DEF OneArchives, Markable
    <2>7. LegsAreCurrent'
        <3>1. \A k \in Members : ~In(k, {"archiving"})'
            BY <2>2, <2>3, <2>4 DEF Archiving, In
        <3> QED BY <3>1 DEF LegsAreCurrent
    <2>8. LookIsCurrent'
        <3> SUFFICES ASSUME NEW k \in Members, In(k, {"archive"})'
                     PROVE  call'[k].settle <=> Unsettled'
            BY DEF LookIsCurrent
        <3>1. k = m
            BY <2>3 DEF Archiving, In
        <3> QED BY <2>2, <2>4, <2>5, <3>1
    <2> QED BY <2>6, <2>7, <2>8 DEF Archivings
<1>2. CASE ArchiveReads(m)
    <2> DEFINE c == [op |-> "archiving", raced |-> call[m].raced,
                     legs |-> IF call[m].settle THEN SettlementLegs ELSE <<>>,
                     due |-> [p \in Members |-> IF call[m].settle THEN Shown(p) ELSE 0]]
    <2>1. /\ call' = [call EXCEPT ![m] = c] /\ ledger' = ledger
          /\ In(m, {"archive"})
        BY <1>2 DEF ArchiveReads, Continue, rows, Shown
    <2>2. call'[m] = c /\ \A k \in Members : k # m => call'[k] = call[k]
        BY <2>1 DEF IInv
    <2>3. \A k \in Members : Archiving(k)' => k = m
        BY <2>1, <2>2 DEF Archiving, In, Archivings, OneArchives
    <2>4. /\ c.op = "archiving" /\ "raced" \in DOMAIN c /\ (c.raced <=> call[m].raced)
          /\ c.legs = IF call[m].settle THEN SettlementLegs ELSE <<>>
        OBVIOUS
    <2>5. (Unsettled' <=> Unsettled) /\ SettlementLegs' = SettlementLegs
        BY <2>1, SameBalances
    <2>6. OneArchives' /\ Markable'
        BY <2>2, <2>3, <2>4 DEF OneArchives, Markable
    <2>7. LegsAreCurrent'
        <3> SUFFICES ASSUME NEW k \in Members, In(k, {"archiving"})', Unraced(k)'
                     PROVE  call'[k].legs = IF Unsettled' THEN SettlementLegs' ELSE <<>>
            BY DEF LegsAreCurrent
        <3>1. k = m
            BY <2>3 DEF Archiving, In
        <3>2. call[m].settle <=> Unsettled
            BY <2>1, <2>2, <2>4, <3>1 DEF Unraced, Archivings, LookIsCurrent
        <3> QED BY <2>2, <2>4, <2>5, <3>1, <3>2
    <2>8. LookIsCurrent'
        <3>1. \A k \in Members : ~In(k, {"archive"})'
            BY <2>2, <2>3, <2>4 DEF Archiving, In
        <3> QED BY <3>1 DEF LookIsCurrent
    <2> QED BY <2>6, <2>7, <2>8 DEF Archivings
<1>3. CASE ArchiveWrites(m)
    <2>1. call' = [call EXCEPT ![m] = NoCall] /\ Archiving(m)
        BY <1>3 DEF ArchiveWrites, End, Continue, Archiving, In
    <2> QED BY <2>1, OneQuiet DEF NoCall
<1> QED BY <1>1, <1>2, <1>3

(* Every step keeps what archivings know.                                    *)
LEMMA NextQuiet == IInv /\ Archivings /\ [Next]_vars => Archivings'
<1> SUFFICES ASSUME IInv, Archivings, [Next]_vars PROVE Archivings'
    OBVIOUS
<1>1. CASE UNCHANGED vars
    BY <1>1, StillQuiet DEF vars, rows
<1>2. ASSUME NEW m \in Members, Write(m) \/ Exit(m) \/ Manage(m) \/ Abort(m)
      PROVE  Archivings'
    <2>1. CASE RoleChecks(m)
        <3>1. PICK who \in active \ {m} :
                 /\ Begin(m, [op |-> "role", who |-> who, admin |-> who \in admins])
                 /\ ledger' = ledger
            BY <2>1 DEF RoleChecks, rows
        <3> QED BY <3>1, OneQuiet DEF Begin
    <2>2. CASE RoleReads(m)
        <3> DEFINE c == [op |-> "assigning", who |-> call[m].who, admin |-> ~call[m].admin,
                         seen |-> Seen(call[m].who, call[m].admin)]
        <3>1. call' = [call EXCEPT ![m] = c] /\ ledger' = ledger /\ c.op = "assigning"
            BY <2>2 DEF RoleReads, Continue, rows
        <3> HIDE DEF c
        <3> QED BY <3>1, OneQuiet
    <2>3. CASE RoleWrites(m) \/ Abort(m)
        <3>1. call' = [call EXCEPT ![m] = NoCall] /\ ledger' = ledger
            BY <2>3 DEF RoleWrites, Abort, End, Continue, rows
        <3> QED BY <3>1, OneQuiet DEF NoCall
    <2>4. CASE Unarchive(m) \/ ArchiveForSelf(m)
        <3>1. call' = call /\ ledger' = ledger
            BY <2>4 DEF Unarchive, ArchiveForSelf, rows
        <3> QED BY <3>1, StillQuiet
    <2> QED BY <1>2, <2>1, <2>2, <2>3, <2>4, WriteQuiet, ExitQuiet, ArchiveQuiet DEF Manage
<1> QED BY <1>1, <1>2 DEF Next

(* archive.procedure.ts:82, the lock of the group: one member archives at a  *)
(* time.                                                                     *)
THEOREM ArchivesAlone == Spec => []OneArchives
<1>1. IInv /\ Archivings => OneArchives
    BY DEF Archivings
<1> QED BY <1>1, InitIInv, NextKeeps, InitArchivings, NextQuiet, PTL DEF Spec

(* archive.procedure.ts:113, the balances looked at twice outside of the     *)
(* transaction: unless an edit, a deletion or an exit has committed since    *)
(* the lock, the settlements about to be written are those of the ledger.    *)
THEOREM SettlesWhatIsThere == Spec => []LegsAreCurrent
<1>1. IInv /\ Archivings => LegsAreCurrent
    BY DEF Archivings
<1> QED BY <1>1, InitIInv, NextKeeps, InitArchivings, NextQuiet, PTL DEF Spec

-----------------------------------------------------------------------------
(* What the rows, the members and the calls under way are.                   *)
RowsInv ==
    /\ drawn \in Nat /\ DOMAIN ledger \subseteq 1..drawn
    /\ \A i \in DOMAIN ledger : /\ ledger[i].version \in Nat \ {0}
                                /\ IsExpense(ledger[i].expense, Members)
PeopleInv ==
    /\ active \subseteq Members /\ admins \subseteq Members /\ hidden \subseteq Members
    /\ archived \in BOOLEAN /\ made \in 0..MaxCalls

(* Settlements that bring somebody what they are due.                        *)
Brings(legs, who, due) ==
    Net(legs, {who}) = due /\ \A i \in DOMAIN legs : legs[i].amount >= 0

(* A call holds an expense the schema let through, members, and settlements  *)
(* between members that bring those it settles what it was shown, when n ids *)
(* have been drawn.                                                          *)
Sound(c, n) ==
    /\ c.op = "create" => c.id \in 1..n
    /\ c.op = "update" => c.version \in Nat \ {0}
    /\ c.op \in {"create", "update"} => IsExpense(c.expense, Members)
    /\ c.op \in {"leave", "leaving"} => c.promote \subseteq Members
    /\ c.op \in {"remove", "removing", "role", "assigning"} => c.who \in Members
    /\ c.op \in {"leaving", "removing", "archiving"} =>
          "legs" \in DOMAIN c /\ c.legs \in Seq(LegsAmong(Members))
    /\ c.op \in {"leaving", "removing"} => "due" \in DOMAIN c /\ Brings(c.legs, c.who, c.due)
    /\ c.op = "archiving" =>
          "due" \in DOMAIN c /\ \A p \in Members : Brings(c.legs, p, c.due[p])
CallsInv == \A m \in Members : Sound(call[m], drawn)

TInv == RowsInv /\ PeopleInv /\ CallsInv

-----------------------------------------------------------------------------
(* More ids drawn do no harm.                                                *)
LEMMA SoundGrows ==
    ASSUME NEW c, NEW n \in Nat, NEW k \in Nat, n <= k, Sound(c, n)
    PROVE  Sound(c, k)
BY DEF Sound

(* Between calls there is nothing to hold.                                   *)
LEMMA NoCallSound ==
    ASSUME NEW n
    PROVE  Sound(NoCall, n)
BY DEF Sound, NoCall

(* One call that goes on, with ids drawn or not.                             *)
LEMMA KindMoves ==
    ASSUME IInv, CallsInv, drawn \in Nat, drawn' \in Nat, drawn <= drawn',
           NEW m \in Members, NEW c, Sound(c, drawn'), call' = [call EXCEPT ![m] = c]
    PROVE  CallsInv'
<1>1. ASSUME NEW k \in Members
      PROVE  Sound(call'[k], drawn')
    <2>1. CASE k = m
        <3>1. call'[k] = c
            BY <2>1 DEF IInv
        <3> QED BY <3>1
    <2>2. CASE k # m
        <3>1. call'[k] = call[k]
            BY <2>2 DEF IInv
        <3> QED BY <3>1, SoundGrows DEF CallsInv
    <2> QED BY <2>1, <2>2
<1> QED BY <1>1 DEF CallsInv, Sound

(* A call that ends holds nothing.                                           *)
LEMMA EndSound ==
    ASSUME IInv, CallsInv, drawn \in Nat, drawn' \in Nat, drawn <= drawn',
           NEW m \in Members, End(m)
    PROVE  CallsInv'
BY NoCallSound, KindMoves DEF End, Continue

(* Nor does one that ends without the lock; the marked keep their legs.      *)
LEMMA EndUnlockedSound ==
    ASSUME IInv, CallsInv, drawn \in Nat, drawn' \in Nat, drawn <= drawn',
           NEW m \in Members, EndUnlocked(m)
    PROVE  CallsInv'
<1>1. ASSUME NEW k \in Members
      PROVE  Sound(call'[k], drawn')
    <2>1. CASE k = m
        <3>1. call'[k] = NoCall
            BY <2>1 DEF EndUnlocked
        <3> QED BY <3>1, NoCallSound
    <2>2. CASE k # m /\ In(k, {"archive", "archiving"})
        <3>1. call'[k] = [call[k] EXCEPT !.raced = TRUE]
            BY <2>2 DEF EndUnlocked
        <3>2. "op" \in DOMAIN call[k] /\ Sound(call[k], drawn)
            BY DEF IInv, CallsInv
        <3>3. /\ DOMAIN call'[k] = DOMAIN call[k] /\ call'[k].op = call[k].op
              /\ "legs" \in DOMAIN call[k] => call'[k].legs = call[k].legs
              /\ "due" \in DOMAIN call[k] => call'[k].due = call[k].due
            BY <3>1, <3>2
        <3> QED BY <2>2, <3>2, <3>3 DEF In, Sound
    <2>3. CASE k # m /\ ~In(k, {"archive", "archiving"})
        <3>1. call'[k] = call[k]
            BY <2>3 DEF EndUnlocked
        <3> QED BY <3>1, SoundGrows DEF CallsInv
    <2> QED BY <2>1, <2>2, <2>3
<1> QED BY <1>1 DEF CallsInv, Sound

-----------------------------------------------------------------------------
(* A ledger that holds what expenses are.                                    *)
LEMMA LedgerRows ==
    ASSUME RowsInv
    PROVE  Rows(Expenses, Members)
<1>1. DOMAIN Expenses = DOMAIN ledger /\ \A i \in DOMAIN ledger : Expenses[i] = ledger[i].expense
    BY DEF Expenses
<1>2. IsFiniteSet(1..drawn)
    <2>1. 1 \in Int /\ drawn \in Int
        BY DEF RowsInv
    <2> QED BY <2>1, FS_Interval
<1>3. IsFiniteSet(DOMAIN ledger)
    BY <1>2, FS_Subset DEF RowsInv
<1> QED BY <1>1, <1>3 DEF Rows, RowsInv

(* The settlements a call computes are between members.                      *)
LEMMA LegsFine ==
    ASSUME RowsInv
    PROVE  /\ SettlementLegs \in Seq(LegsAmong(Members))
           /\ \A m : LegsOf(m) \in Seq(LegsAmong(Members))
           /\ <<>> \in Seq(LegsAmong(Members))
           /\ SuggestedSettlements(GetBalances(Expenses)) \in Seq(LegsAmong(Members))
           /\ GroupBalances \in CentsOf(Members)
<1>1. Members \in SUBSET Nat /\ Members \in SUBSET Int /\ IsFiniteSet(Members)
    BY ConstantsAssumption
<1>2. GetBalances(Expenses) \in CentsOf(Members)
    BY <1>1, LedgerRows, BalancesType
<1>3. SuggestedSettlements(GetBalances(Expenses)) \in Seq(LegsAmong(Members))
    BY <1>1, <1>2, SuggestedType
<1>4. GroupBalances \in CentsOf(Members)
    BY <1>3, PublicType DEF GroupBalances
<1>5. SettlementLegs \in Seq(LegsAmong(Members))
    BY <1>1, <1>4, SuggestedType DEF SettlementLegs
<1>6. ASSUME NEW m
      PROVE  LegsOf(m) \in Seq(LegsAmong(Members))
    <2> DEFINE legs == SettlementLegs
               I == {i \in DOMAIN legs : m \in {legs[i].from, legs[i].to}}
    <2>1. LegsOf(m) = Picked(legs, I)
        BY DEF LegsOf
    <2>2. I \in SUBSET DOMAIN legs
        OBVIOUS
    <2> HIDE DEF I
    <2> QED BY <1>5, <2>1, <2>2, PickedHolds
<1> QED BY <1>3, <1>4, <1>5, <1>6

(* Whatever the ledger, they bring each member what the group shows for them,*)
(* and those of somebody who leaves bring them all of it.                    *)
LEMMA ShownBring ==
    ASSUME RowsInv, NEW who \in Members
    PROVE  /\ Brings(SettlementLegs, who, Shown(who))
           /\ Brings(LegsOf(who), who, Shown(who))
           /\ Brings(<<>>, who, 0)
<1> DEFINE legs == SettlementLegs
           I == {i \in DOMAIN legs : who \in {legs[i].from, legs[i].to}}
           G == LegsAmong(Members)
<1>1. Members \in SUBSET Nat /\ IsFiniteSet(Members)
    BY ConstantsAssumption
<1>2. legs \in Seq(G) /\ GroupBalances \in CentsOf(Members)
    BY LegsFine
<1>3. SumFunctionOnSet([p \in Members |-> CentsIn(GroupBalances, p)], Members) = 0
    BY <1>1, LegsFine, PublicCancels DEF GroupBalances
<1>4. /\ Net(legs, {who}) = Shown(who)
      /\ \A i \in DOMAIN legs : legs[i].amount > 0
    BY <1>1, <1>2, <1>3, SuggestedSettle DEF SettlementLegs, Shown
<1>5. LegsOf(who) = Picked(legs, I)
    BY DEF LegsOf
<1> HIDE DEF legs
<1>6. \A i \in DOMAIN legs : legs[i].amount >= 0
    <2>1. \A i \in DOMAIN legs : legs[i] \in G
        BY <1>2
    <2> QED BY <1>4, <2>1 DEF LegsAmong
<1>7. I \in SUBSET DOMAIN legs /\ \A i \in DOMAIN legs : i \notin I => Moves(legs[i], {who}) = 0
    BY DEF Moves, Within
<1> HIDE DEF I, G
<1>8. Net(Picked(legs, I), {who}) = Net(legs, {who})
    <2>1. Thinned(Picked(legs, I), legs, I)
        BY <1>2, <1>7, PickedThinned
    <2> QED BY <1>2, <1>7, <2>1, ThinnedNet DEF G
<1>9. \A n \in DOMAIN Picked(legs, I) : \E i \in I : Picked(legs, I)[n] = legs[i]
    BY <1>2, <1>7, PickedHolds
<1>10. \A n \in DOMAIN Picked(legs, I) : Picked(legs, I)[n].amount >= 0
    BY <1>6, <1>7, <1>9
<1>11. Net(<<>>, {who}) = 0 /\ DOMAIN <<>> = {}
    BY NoLegs
<1> QED BY <1>4, <1>5, <1>6, <1>8, <1>10, <1>11 DEF Brings, legs

(* A settlement of some cents is an expense the schema lets through.         *)
LEMMA SettlementFine ==
    ASSUME NEW leg \in LegsAmong(Members), leg.amount # 0
    PROVE  IsExpense(Settlement(leg), Members)
<1> DEFINE e == Settlement(leg)
<1>1. leg.from \in Members /\ leg.to \in Members /\ leg.amount \in Int \ {0}
    BY DEF LegsAmong
<1>2. /\ DOMAIN e = {"amount", "original", "converted", "payer", "paidBy", "paidFor", "items", "rest"}
      /\ e.amount = leg.amount /\ e.original = leg.amount /\ e.converted = FALSE
      /\ e.payer = leg.from
      /\ e.paidBy = [mode |-> "BY_AMOUNT", shares |-> [p \in {leg.from} |-> leg.amount]]
      /\ e.paidFor = [mode |-> "EVENLY", shares |-> [p \in {leg.to} |-> 1]]
      /\ e.items = <<>> /\ e.rest = [mode |-> "EVENLY", shares |-> Nobody]
    BY DEF Settlement
<1> HIDE DEF e
<1>3. IsSplit(e.paidBy, Modes \cup {"ITEMIZED"}, Members)
      /\ IsSplit(e.paidFor, Modes \cup {"ITEMIZED"}, Members)
    BY <1>1, <1>2 DEF IsSplit, Modes
<1>4. IsSplit(e.rest, Modes \cup {"PROPORTIONAL"}, Members)
    BY <1>2 DEF IsSplit, Modes, Nobody
<1>5. DOMAIN e.items = {} /\ IsFiniteSet(DOMAIN e.items)
    BY <1>2, FS_EmptySet
<1> QED BY <1>1, <1>2, <1>3, <1>4, <1>5 DEF IsExpense, e

(* Settlements written for legs between members leave the ledger sound.      *)
LEMMA SettleKeeps ==
    ASSUME RowsInv, NEW legs \in Seq(LegsAmong(Members)), Settle(legs)
    PROVE  RowsInv' /\ drawn' \in Nat /\ drawn <= drawn'
<1> DEFINE I == {i \in DOMAIN legs : legs[i].amount > 0}
           paid == Picked(legs, I)
           New == (drawn + 1)..(drawn + Len(paid))
<1>1. /\ paid \in Seq(LegsAmong(Members))
      /\ \A n \in DOMAIN paid : paid[n].amount > 0
    <2>1. I \in SUBSET DOMAIN legs /\ \A i \in I : legs[i].amount > 0
        OBVIOUS
    <2> HIDE DEF I
    <2>2. /\ paid \in Seq(LegsAmong(Members))
          /\ \A n \in DOMAIN paid : \E i \in I : paid[n] = legs[i]
        BY <2>1, PickedHolds
    <2> HIDE DEF paid
    <2> QED BY <2>1, <2>2
<1>2. /\ drawn' = drawn + Len(paid)
      /\ ledger' = [i \in DOMAIN ledger \cup New |->
                       IF i \in DOMAIN ledger THEN ledger[i]
                                              ELSE Row(Settlement(paid[i - drawn]), 1)]
    BY DEF Settle
<1> HIDE DEF paid, I
<1>3. drawn \in Nat /\ Len(paid) \in Nat /\ DOMAIN paid = 1..Len(paid)
    BY <1>1 DEF RowsInv
<1>4. drawn' \in Nat /\ drawn <= drawn'
    BY <1>2, <1>3
<1>5. DOMAIN ledger' \subseteq 1..drawn'
    BY <1>2, <1>3 DEF RowsInv
<1>6. ASSUME NEW i \in DOMAIN ledger'
      PROVE  ledger'[i].version \in Nat \ {0} /\ IsExpense(ledger'[i].expense, Members)
    <2>1. CASE i \in DOMAIN ledger
        <3>1. ledger'[i] = ledger[i]
            BY <1>2, <2>1
        <3> QED BY <2>1, <3>1 DEF RowsInv
    <2>2. CASE i \notin DOMAIN ledger
        <3>1. i \in New /\ ledger'[i] = Row(Settlement(paid[i - drawn]), 1)
            BY <1>2, <2>2
        <3>2. i - drawn \in DOMAIN paid
            BY <1>3, <3>1
        <3>3. paid[i - drawn] \in LegsAmong(Members) /\ paid[i - drawn].amount > 0
            BY <1>1, <3>2
        <3>4. paid[i - drawn].amount # 0
            BY <3>3 DEF LegsAmong
        <3>5. IsExpense(Settlement(paid[i - drawn]), Members)
            BY <3>3, <3>4, SettlementFine
        <3> QED BY <3>1, <3>5 DEF Row
    <2> QED BY <2>1, <2>2
<1> QED BY <1>4, <1>5, <1>6 DEF RowsInv

-----------------------------------------------------------------------------
(* A step that changes no expense and draws no id.                           *)
LEMMA SameRows ==
    ASSUME RowsInv, UNCHANGED rows
    PROVE  RowsInv' /\ drawn' \in Nat /\ drawn \in Nat /\ drawn <= drawn'
BY DEF RowsInv, rows

(* One that leaves the members as they are, with a call begun or not.        *)
LEMMA SamePeople ==
    ASSUME PeopleInv, UNCHANGED people, archived' \in BOOLEAN,
           made' = made \/ (made < MaxCalls /\ made' = made + 1)
    PROVE  PeopleInv'
<1>1. MaxCalls \in Nat
    BY ConstantsAssumption
<1> QED BY <1>1 DEF PeopleInv, people

(* What may be read of an expense of the menu is stored as an expense.       *)
LEMMA MenuStored ==
    ASSUME NEW e \in Menu, NEW allowed \in SUBSET Members, NEW seed \in Int
    PROVE  IsExpense(Stored(e, allowed, seed), Members)
<1>1. Members \in SUBSET Int /\ IsFiniteSet(Members) /\ IsExpense(e, Members)
    BY ConstantsAssumption
<1> QED BY <1>1, StoredType

(* A call that begins and leaves the rest as it is.                          *)
LEMMA BeginSound ==
    ASSUME IInv, TInv, NEW m \in Members, NEW c, Sound(c, drawn'), Begin(m, c),
           RowsInv', drawn <= drawn', UNCHANGED <<people, archived>>
    PROVE  TInv'
<1>1. drawn \in Nat /\ drawn' \in Nat
    BY DEF TInv, RowsInv
<1>2. CallsInv'
    BY <1>1, KindMoves DEF TInv, Begin
<1>3. PeopleInv'
    <2>1. made < MaxCalls /\ made' = made + 1 /\ archived' \in BOOLEAN /\ UNCHANGED people
        BY DEF Begin, TInv, PeopleInv
    <2> QED BY <2>1, SamePeople DEF TInv
<1> QED BY <1>2, <1>3 DEF TInv

(* One that goes on.                                                         *)
LEMMA ContinueSound ==
    ASSUME IInv, TInv, NEW m \in Members, NEW c, Sound(c, drawn'), Continue(m, c),
           UNCHANGED <<rows, people, archived>>
    PROVE  TInv'
<1>1. RowsInv' /\ drawn' \in Nat /\ drawn \in Nat /\ drawn <= drawn'
    BY SameRows DEF TInv
<1>2. CallsInv'
    BY <1>1, KindMoves DEF TInv, Continue
<1>3. PeopleInv'
    <2>1. made' = made /\ archived' \in BOOLEAN /\ UNCHANGED people
        BY DEF Continue, TInv, PeopleInv
    <2> QED BY <2>1, SamePeople DEF TInv
<1> QED BY <1>1, <1>2, <1>3 DEF TInv

(* The expenses there at first are stored like all others.                   *)
LEMMA InitSound == Init => TInv
<1> SUFFICES ASSUME Init PROVE TInv
    OBVIOUS
<1>1. PICK n \in 0..MaxWritten :
         \E es \in [1..n -> {e \in Menu : Accepted(e, Members)}] :
            ledger = [i \in 1..n |-> Row(Stored(es[i], Members, i), 1)] /\ drawn = n
    BY DEF Init
<1>2. RowsInv
    <2>0. PICK es \in [1..n -> {e \in Menu : Accepted(e, Members)}] :
             ledger = [i \in 1..n |-> Row(Stored(es[i], Members, i), 1)] /\ drawn = n
        BY <1>1
    <2>1. ASSUME NEW i \in 1..n
          PROVE  IsExpense(Stored(es[i], Members, i), Members)
        <3>1. es[i] \in Menu /\ i \in Int /\ Members \in SUBSET Members
            OBVIOUS
        <3> QED BY <3>1, MenuStored
    <2>2. n \in Nat
        BY ConstantsAssumption
    <2> QED BY <2>0, <2>1, <2>2 DEF RowsInv, Row
<1>3. PeopleInv
    <2>1. /\ active \in AtFirst /\ admins \in SUBSET active /\ hidden = {}
          /\ archived = FALSE /\ made = 0
        BY DEF Init
    <2>2. AtFirst \subseteq SUBSET Members /\ MaxCalls \in Nat
        BY ConstantsAssumption
    <2>3. active \subseteq Members /\ admins \subseteq Members
        BY <2>1, <2>2
    <2>4. archived \in BOOLEAN
        BY <2>1
    <2>5. made \in 0..MaxCalls /\ hidden \subseteq Members
        BY <2>1, <2>2
    <2> QED BY <2>3, <2>4, <2>5 DEF PeopleInv
<1>4. CallsInv
    <2>1. \A m \in Members : call[m] = NoCall
        BY DEF Init
    <2> QED BY <2>1, NoCallSound DEF CallsInv
<1> QED BY <1>2, <1>3, <1>4 DEF TInv

(* Creates, edits and deletions store expenses the schema let through.       *)
LEMMA WriteSound ==
    ASSUME IInv, TInv, NEW m \in Members, Write(m)
    PROVE  TInv'
<1>1. CASE CreateReads(m)
    <2>1. PICK e \in Menu :
             /\ Begin(m, [op |-> "create", id |-> drawn + 1,
                          expense |-> Stored(e, Members \ hidden, drawn + 1)])
             /\ drawn' = drawn + 1 /\ UNCHANGED <<ledger, people, archived>>
        BY <1>1 DEF CreateReads
    <2> DEFINE x == Stored(e, Members \ hidden, drawn + 1)
               c == [op |-> "create", id |-> drawn + 1, expense |-> x]
    <2>2. drawn \in Nat
        BY DEF TInv, RowsInv
    <2>3. IsExpense(x, Members)
        BY <2>2, MenuStored
    <2> HIDE DEF x
    <2>4. Sound(c, drawn')
        BY <2>1, <2>2, <2>3 DEF Sound
    <2>5. RowsInv' /\ drawn <= drawn'
        BY <2>1, <2>2 DEF TInv, RowsInv
    <2>6. Begin(m, c) /\ UNCHANGED <<people, archived>>
        BY <2>1 DEF x
    <2> HIDE DEF c
    <2> QED BY <2>4, <2>5, <2>6, BeginSound
<1>2. CASE CreateWrites(m)
    <2> DEFINE id == call[m].id
    <2>1. /\ id \in 1..drawn /\ IsExpense(call[m].expense, Members)
        BY <1>2 DEF CreateWrites, In, TInv, CallsInv, Sound
    <2>2. /\ ledger' = [i \in DOMAIN ledger \cup {id} |->
                          IF i = id THEN Row(call[m].expense, 1) ELSE ledger[i]]
          /\ drawn' = drawn /\ End(m) /\ UNCHANGED <<people, archived>>
        BY <1>2 DEF CreateWrites
    <2> HIDE DEF id
    <2>3. RowsInv'
        BY <2>1, <2>2 DEF TInv, RowsInv, Row
    <2>4. drawn \in Nat /\ drawn' \in Nat /\ drawn <= drawn'
        BY <2>2 DEF TInv, RowsInv
    <2>5. CallsInv'
        BY <2>2, <2>4, EndSound DEF TInv
    <2>6. PeopleInv'
        BY <2>2 DEF End, Continue, TInv, PeopleInv, people
    <2> QED BY <2>3, <2>5, <2>6 DEF TInv
<1>3. CASE UpdateReads(m)
    <2>1. PICK i \in DOMAIN ledger, e \in Menu :
             /\ Begin(m, [op |-> "update", id |-> i, version |-> ledger[i].version,
                          expense |-> Stored(e, (Members \ hidden)
                                                   \cup Involved(ledger[i].expense), i)])
             /\ UNCHANGED <<rows, people, archived>>
        BY <1>3 DEF UpdateReads
    <2> DEFINE allowed == (Members \ hidden) \cup Involved(ledger[i].expense)
               x == Stored(e, allowed, i)
               c == [op |-> "update", id |-> i, version |-> ledger[i].version, expense |-> x]
    <2>2. /\ i \in Int /\ ledger[i].version \in Nat \ {0}
          /\ IsExpense(ledger[i].expense, Members)
        BY DEF TInv, RowsInv
    <2>3. allowed \in SUBSET Members
        BY <2>2, ExpenseParts
    <2>4. IsExpense(x, Members)
        <3> HIDE DEF allowed
        <3> QED BY <2>2, <2>3, MenuStored
    <2> HIDE DEF x
    <2>5. Sound(c, drawn')
        BY <2>2, <2>4 DEF Sound
    <2>6. RowsInv' /\ drawn <= drawn'
        BY <2>1, SameRows DEF TInv
    <2>7. Begin(m, c) /\ UNCHANGED <<people, archived>>
        BY <2>1 DEF x
    <2> HIDE DEF c
    <2> QED BY <2>5, <2>6, <2>7, BeginSound
<1>4. CASE UpdateWrites(m)
    <2>1. /\ call[m].version \in Nat \ {0} /\ IsExpense(call[m].expense, Members)
        BY <1>4 DEF UpdateWrites, In, TInv, CallsInv, Sound
    <2>2. /\ ledger' = [ledger EXCEPT ![call[m].id] = Row(call[m].expense, call[m].version + 1)]
          /\ call[m].id \in DOMAIN ledger
          /\ drawn' = drawn /\ EndUnlocked(m) /\ UNCHANGED <<people, archived>>
        BY <1>4 DEF UpdateWrites, Claimed
    <2>3. RowsInv'
        BY <2>1, <2>2 DEF TInv, RowsInv, Row
    <2>4. drawn \in Nat /\ drawn' \in Nat /\ drawn <= drawn'
        BY <2>2 DEF TInv, RowsInv
    <2>5. CallsInv'
        BY <2>2, <2>4, EndUnlockedSound DEF TInv
    <2>6. PeopleInv'
        BY <2>2 DEF EndUnlocked, TInv, PeopleInv, people
    <2> QED BY <2>3, <2>5, <2>6 DEF TInv
<1>5. CASE DeleteReads(m)
    <2>1. PICK i \in DOMAIN ledger :
             Begin(m, [op |-> "delete", id |-> i]) /\ UNCHANGED <<rows, people, archived>>
        BY <1>5 DEF DeleteReads
    <2>2. Sound([op |-> "delete", id |-> i], drawn')
        BY DEF Sound
    <2>3. RowsInv' /\ drawn <= drawn'
        BY <2>1, SameRows DEF TInv
    <2> QED BY <2>1, <2>2, <2>3, BeginSound
<1>6. CASE DeleteWrites(m)
    <2>1. /\ ledger' = [i \in DOMAIN ledger \ {call[m].id} |-> ledger[i]]
          /\ drawn' = drawn /\ EndUnlocked(m) /\ UNCHANGED <<people, archived>>
        BY <1>6 DEF DeleteWrites
    <2>2. RowsInv'
        BY <2>1 DEF TInv, RowsInv
    <2>3. drawn \in Nat /\ drawn' \in Nat /\ drawn <= drawn'
        BY <2>1 DEF TInv, RowsInv
    <2>4. CallsInv'
        BY <2>1, <2>3, EndUnlockedSound DEF TInv
    <2>5. PeopleInv'
        BY <2>1 DEF EndUnlocked, TInv, PeopleInv, people
    <2> QED BY <2>2, <2>4, <2>5 DEF TInv
<1>7. CASE CreateRefused(m) \/ UpdateConflicts(m)
    <2>1. Continue(m, NoCall) /\ UNCHANGED <<rows, people, archived>>
        BY <1>7 DEF CreateRefused, UpdateConflicts, End
    <2> QED BY <2>1, NoCallSound, ContinueSound
<1> QED BY <1>1, <1>2, <1>3, <1>4, <1>5, <1>6, <1>7 DEF Write

(* Exits settle between members.                                             *)
LEMMA ExitSound ==
    ASSUME IInv, TInv, NEW m \in Members, Exit(m)
    PROVE  TInv'
<1>0. active \subseteq Members /\ RowsInv
    BY DEF TInv, PeopleInv
<1>1. CASE LeaveChecks(m)
    <2>1. PICK erasing \in BOOLEAN, wanted \in BOOLEAN, promote \in SUBSET (active \ {m}) :
             /\ Begin(m, [op |-> "leave", settle |-> wanted /\ IsUnsettled(m),
                          promote |-> promote, seen |-> Seen(m, m \in admins)])
             /\ UNCHANGED <<rows, people, archived>>
        BY <1>1 DEF LeaveChecks
    <2> DEFINE c == [op |-> "leave", settle |-> wanted /\ IsUnsettled(m),
                     promote |-> promote, seen |-> Seen(m, m \in admins)]
    <2>2. c.op = "leave" /\ c.promote = promote /\ Begin(m, c)
        BY <2>1
    <2> HIDE DEF c
    <2>3. Sound(c, drawn')
        BY <1>0, <2>2 DEF Sound
    <2>4. RowsInv' /\ drawn <= drawn'
        BY <2>1, SameRows DEF TInv
    <2> QED BY <2>1, <2>2, <2>3, <2>4, BeginSound
<1>2. CASE LeaveReads(m)
    <2> DEFINE legs == IF call[m].settle THEN LegsOf(m) ELSE <<>>
               due == IF call[m].settle THEN Shown(m) ELSE 0
               c == [op |-> "leaving", promote |-> call[m].promote, seen |-> call[m].seen,
                     who |-> m, legs |-> legs, due |-> due]
    <2>1. In(m, {"leave"}) /\ Continue(m, c) /\ UNCHANGED <<rows, people, archived>>
        BY <1>2 DEF LeaveReads
    <2>2. call[m].promote \subseteq Members
        BY <2>1 DEF In, TInv, CallsInv, Sound
    <2>3. legs \in Seq(LegsAmong(Members)) /\ Brings(legs, m, due)
        BY <1>0, LegsFine, ShownBring
    <2>4. /\ c.op = "leaving" /\ c.promote = call[m].promote /\ c.who = m
          /\ "legs" \in DOMAIN c /\ c.legs = legs /\ "due" \in DOMAIN c /\ c.due = due
        OBVIOUS
    <2> HIDE DEF c, legs, due
    <2>5. Sound(c, drawn')
        BY <2>2, <2>3, <2>4 DEF Sound
    <2> QED BY <2>1, <2>5, ContinueSound
<1>3. CASE LeaveWrites(m)
    <2>1. /\ Settle(call[m].legs) /\ EndUnlocked(m)
          /\ active' = active \ {m} /\ admins' = admins \cup call[m].promote
          /\ UNCHANGED <<hidden, archived>>
        BY <1>3 DEF LeaveWrites
    <2>2. call[m].promote \subseteq Members /\ call[m].legs \in Seq(LegsAmong(Members))
        BY <1>3 DEF LeaveWrites, In, TInv, CallsInv, Sound
    <2>3. RowsInv' /\ drawn' \in Nat /\ drawn \in Nat /\ drawn <= drawn'
        BY <1>0, <2>1, <2>2, SettleKeeps DEF RowsInv
    <2>4. CallsInv'
        BY <2>1, <2>3, EndUnlockedSound DEF TInv
    <2>5. PeopleInv'
        BY <2>1, <2>2 DEF EndUnlocked, TInv, PeopleInv
    <2> QED BY <2>3, <2>4, <2>5 DEF TInv
<1>4. CASE RemoveChecks(m)
    <2>1. PICK who \in active \ {m}, settle \in BOOLEAN :
             /\ Begin(m, [op |-> "remove", who |-> who, settle |-> settle,
                          admin |-> who \in admins])
             /\ UNCHANGED <<rows, people, archived>>
        BY <1>4 DEF RemoveChecks
    <2> DEFINE c == [op |-> "remove", who |-> who, settle |-> settle, admin |-> who \in admins]
    <2>2. c.op = "remove" /\ c.who = who /\ Begin(m, c)
        BY <2>1
    <2> HIDE DEF c
    <2>3. Sound(c, drawn')
        BY <1>0, <2>2 DEF Sound
    <2>4. RowsInv' /\ drawn <= drawn'
        BY <2>1, SameRows DEF TInv
    <2> QED BY <2>1, <2>2, <2>3, <2>4, BeginSound
<1>5. CASE RemoveReads(m)
    <2> DEFINE who == call[m].who
               legs == IF call[m].settle THEN LegsOf(who) ELSE <<>>
               due == IF call[m].settle THEN Shown(who) ELSE 0
               c == [op |-> "removing", who |-> who, seen |-> Seen(who, call[m].admin),
                     legs |-> legs, due |-> due]
    <2>1. In(m, {"remove"}) /\ Continue(m, c) /\ UNCHANGED <<rows, people, archived>>
        BY <1>5 DEF RemoveReads
    <2>2. who \in Members
        BY <2>1 DEF In, TInv, CallsInv, Sound
    <2>3. legs \in Seq(LegsAmong(Members)) /\ Brings(legs, who, due)
        BY <1>0, <2>2, LegsFine, ShownBring
    <2>4. /\ c.op = "removing" /\ c.who = who
          /\ "legs" \in DOMAIN c /\ c.legs = legs /\ "due" \in DOMAIN c /\ c.due = due
        OBVIOUS
    <2> HIDE DEF c, legs, due, who
    <2>5. Sound(c, drawn')
        BY <2>2, <2>3, <2>4 DEF Sound
    <2> QED BY <2>1, <2>5, ContinueSound
<1>6. CASE RemoveWrites(m)
    <2>1. /\ Settle(call[m].legs) /\ EndUnlocked(m)
          /\ active' = active \ {call[m].who} /\ hidden' = hidden \cup {call[m].who}
          /\ UNCHANGED <<admins, archived>>
        BY <1>6 DEF RemoveWrites
    <2>2. call[m].who \in Members /\ call[m].legs \in Seq(LegsAmong(Members))
        BY <1>6 DEF RemoveWrites, In, TInv, CallsInv, Sound
    <2>3. RowsInv' /\ drawn' \in Nat /\ drawn \in Nat /\ drawn <= drawn'
        BY <1>0, <2>1, <2>2, SettleKeeps DEF RowsInv
    <2>4. CallsInv'
        BY <2>1, <2>3, EndUnlockedSound DEF TInv
    <2>5. PeopleInv'
        BY <2>1, <2>2 DEF EndUnlocked, TInv, PeopleInv
    <2> QED BY <2>3, <2>4, <2>5 DEF TInv
<1> QED BY <1>1, <1>2, <1>3, <1>4, <1>5, <1>6 DEF Exit

(* So do archivings; roles concern members.                                  *)
LEMMA ManageSound ==
    ASSUME IInv, TInv, NEW m \in Members, Manage(m)
    PROVE  TInv'
<1>0. active \subseteq Members /\ admins \subseteq Members /\ RowsInv
    BY DEF TInv, PeopleInv
<1>1. CASE RoleChecks(m)
    <2>1. PICK who \in active \ {m} :
             /\ Begin(m, [op |-> "role", who |-> who, admin |-> who \in admins])
             /\ UNCHANGED <<rows, people, archived>>
        BY <1>1 DEF RoleChecks
    <2> DEFINE c == [op |-> "role", who |-> who, admin |-> who \in admins]
    <2>2. c.op = "role" /\ c.who = who /\ Begin(m, c)
        BY <2>1
    <2> HIDE DEF c
    <2>3. Sound(c, drawn')
        BY <1>0, <2>2 DEF Sound
    <2>4. RowsInv' /\ drawn <= drawn'
        BY <2>1, SameRows DEF TInv
    <2> QED BY <2>1, <2>2, <2>3, <2>4, BeginSound
<1>2. CASE RoleReads(m)
    <2> DEFINE c == [op |-> "assigning", who |-> call[m].who, admin |-> ~call[m].admin,
                     seen |-> Seen(call[m].who, call[m].admin)]
    <2>1. In(m, {"role"}) /\ Continue(m, c) /\ UNCHANGED <<rows, people, archived>>
        BY <1>2 DEF RoleReads
    <2>2. call[m].who \in Members
        BY <2>1 DEF In, TInv, CallsInv, Sound
    <2>3. c.op = "assigning" /\ c.who = call[m].who
        OBVIOUS
    <2> HIDE DEF c
    <2>4. Sound(c, drawn')
        BY <2>2, <2>3 DEF Sound
    <2> QED BY <2>1, <2>4, ContinueSound
<1>3. CASE RoleWrites(m)
    <2>1. /\ admins' = IF call[m].admin THEN admins \cup {call[m].who}
                                        ELSE admins \ {call[m].who}
          /\ End(m) /\ UNCHANGED <<rows, active, hidden, archived>>
        BY <1>3 DEF RoleWrites
    <2>2. call[m].who \in Members
        BY <1>3 DEF RoleWrites, In, TInv, CallsInv, Sound
    <2>3. RowsInv' /\ drawn' \in Nat /\ drawn \in Nat /\ drawn <= drawn'
        BY <2>1, SameRows DEF TInv
    <2>4. CallsInv'
        BY <2>1, <2>3, EndSound DEF TInv
    <2>5. PeopleInv'
        <3>1. admins' \subseteq admins \cup {call[m].who}
            BY <2>1
        <3> QED BY <2>1, <2>2, <3>1 DEF End, Continue, TInv, PeopleInv
    <2> QED BY <2>3, <2>4, <2>5 DEF TInv
<1>4. CASE ArchiveLocks(m)
    <2> DEFINE c == [op |-> "archive", settle |-> Unsettled, raced |-> FALSE]
    <2>1. Begin(m, c) /\ UNCHANGED <<rows, people, archived>>
        BY <1>4 DEF ArchiveLocks
    <2>2. c.op = "archive"
        OBVIOUS
    <2> HIDE DEF c
    <2>3. Sound(c, drawn')
        BY <2>2 DEF Sound
    <2>4. RowsInv' /\ drawn <= drawn'
        BY <2>1, SameRows DEF TInv
    <2> QED BY <2>1, <2>3, <2>4, BeginSound
<1>5. CASE ArchiveReads(m)
    <2> DEFINE legs == IF call[m].settle THEN SettlementLegs ELSE <<>>
               due == [p \in Members |-> IF call[m].settle THEN Shown(p) ELSE 0]
               c == [op |-> "archiving", raced |-> call[m].raced, legs |-> legs, due |-> due]
    <2>1. Continue(m, c) /\ UNCHANGED <<rows, people, archived>>
        BY <1>5 DEF ArchiveReads, Shown
    <2>2. /\ legs \in Seq(LegsAmong(Members))
          /\ \A p \in Members : Brings(legs, p, due[p])
        BY <1>0, LegsFine, ShownBring
    <2>3. /\ c.op = "archiving" /\ "legs" \in DOMAIN c /\ c.legs = legs
          /\ "due" \in DOMAIN c /\ c.due = due
        OBVIOUS
    <2> HIDE DEF c, legs, due
    <2>4. Sound(c, drawn')
        BY <2>2, <2>3 DEF Sound
    <2> QED BY <2>1, <2>4, ContinueSound
<1>6. CASE ArchiveWrites(m)
    <2>1. Settle(call[m].legs) /\ archived' = TRUE /\ End(m) /\ UNCHANGED people
        BY <1>6 DEF ArchiveWrites
    <2>2. call[m].legs \in Seq(LegsAmong(Members))
        BY <1>6 DEF ArchiveWrites, In, TInv, CallsInv, Sound
    <2>3. RowsInv' /\ drawn' \in Nat /\ drawn \in Nat /\ drawn <= drawn'
        BY <1>0, <2>1, <2>2, SettleKeeps DEF RowsInv
    <2>4. CallsInv'
        BY <2>1, <2>3, EndSound DEF TInv
    <2>5. PeopleInv'
        BY <2>1 DEF End, Continue, TInv, PeopleInv, people
    <2> QED BY <2>3, <2>4, <2>5 DEF TInv
<1>7. CASE Unarchive(m) \/ ArchiveForSelf(m)
    <2>1. /\ made < MaxCalls /\ made' = made + 1 /\ archived' \in BOOLEAN
          /\ UNCHANGED <<rows, people, call>>
        BY <1>7 DEF Unarchive, ArchiveForSelf
    <2>2. RowsInv' /\ drawn' = drawn
        BY <2>1, SameRows DEF TInv, rows
    <2>3. PeopleInv'
        BY <2>1, SamePeople DEF TInv
    <2>4. CallsInv'
        BY <2>1, <2>2 DEF TInv, CallsInv, Sound
    <2> QED BY <2>2, <2>3, <2>4 DEF TInv
<1> QED BY <1>1, <1>2, <1>3, <1>4, <1>5, <1>6, <1>7 DEF Manage

(* Every step keeps the types.                                               *)
LEMMA NextSound == IInv /\ TInv /\ [Next]_vars => TInv'
<1> SUFFICES ASSUME IInv, TInv, [Next]_vars PROVE TInv'
    OBVIOUS
<1>1. CASE UNCHANGED vars
    BY <1>1 DEF vars, rows, people, TInv, RowsInv, PeopleInv, CallsInv, Sound
<1>2. ASSUME NEW m \in Members, Write(m) \/ Exit(m) \/ Manage(m) \/ Abort(m)
      PROVE  TInv'
    <2>1. CASE Abort(m)
        <3>1. Continue(m, NoCall) /\ UNCHANGED <<rows, people, archived>>
            BY <2>1 DEF Abort, End
        <3> QED BY <3>1, NoCallSound, ContinueSound
    <2> QED BY <1>2, <2>1, WriteSound, ExitSound, ManageSound
<1> QED BY <1>1, <1>2 DEF Next

(* The ledger holds expenses of members that the schema lets through,        *)
(* settlements among them, and what calls are about to write is of members.  *)
THEOREM TypesHold == Spec => []TypeOK
<1>1. TInv /\ Archivings => TypeOK
    <2> SUFFICES ASSUME TInv, Archivings PROVE TypeOK
        OBVIOUS
    <2>1. \A m \in Members : In(m, {"leaving", "removing", "archiving"}) =>
             call[m].legs \in Seq([from : Members, to : Members, amount : Int])
        BY DEF TInv, CallsInv, Sound, In, LegsAmong
    <2>2. \A m, k \in Members :
             m # k => ~(In(m, {"archive", "archiving"}) /\ In(k, {"archive", "archiving"}))
        BY DEF Archivings, OneArchives, Archiving
    <2> QED BY <2>1, <2>2 DEF TInv, RowsInv, PeopleInv, TypeOK
<1> QED BY <1>1, InitIInv, NextKeeps, InitArchivings, NextQuiet, InitSound, NextSound, PTL DEF Spec

(* balances.ts, the cents left over of a whole ledger: whatever its members  *)
(* write, settle, edit and delete, what each of them is said to have paid    *)
(* and to owe is the exact sum rounded up or down, and adds up.              *)
THEOREM CentsHold == Spec => []WithinACent
<1>1. TInv => WithinACent
    <2> SUFFICES ASSUME TInv, Ordinary, NEW exact \in {Paid(Expenses), Owed(Expenses)}
                 PROVE  LET cents == Distribute(exact, Amount(Expenses), 0)
                        IN  /\ SumFunction(cents) = Amount(Expenses)
                            /\ \A p \in DOMAIN exact :
                                  /\ Below(exact[p], Whole(cents[p] + 1))
                                  /\ Below(Whole(cents[p] - 1), exact[p])
        BY DEF WithinACent
    <2>1. Members \in SUBSET Int /\ IsFiniteSet(Members)
        BY ConstantsAssumption
    <2>2. Rows(Expenses, Members)
        BY LedgerRows DEF TInv
    <2>3. \A i \in DOMAIN Expenses : AddsUp(Expenses[i])
        BY DEF Ordinary, Expenses
    <2> QED BY <2>1, <2>2, <2>3, BalancesWithinACent
<1> QED BY <1>1, InitIInv, NextKeeps, InitSound, NextSound, PTL DEF Spec

-----------------------------------------------------------------------------
(* Settlements written into a ledger move the balances by what they come to. *)

(* A settlement: one participant pays all of it, one owes it.                *)
LEMMA SettlementSides ==
    ASSUME NEW U, NEW leg \in LegsAmong(U), leg.amount > 0
    PROVE  /\ Settlement(leg).amount = leg.amount
           /\ PaidShares(Settlement(leg)) = [q \in {leg.from} |-> Whole(leg.amount)]
           /\ OwedShares(Settlement(leg)) = [q \in {leg.to} |-> Whole(leg.amount)]
           /\ AddsUp(Settlement(leg))
<1> DEFINE e == Settlement(leg)
           n == leg.amount
           paid == [q \in {leg.from} |-> Whole(n)]
           owed == [q \in {leg.to} |-> Whole(n)]
<1>1. n \in Int /\ n > 0 /\ n # 0
    BY DEF LegsAmong
<1>2. /\ e.amount = n /\ e.original = n /\ e.converted = FALSE /\ e.payer = leg.from
      /\ e.paidBy = [mode |-> "BY_AMOUNT", shares |-> [p \in {leg.from} |-> n]]
      /\ e.paidFor = [mode |-> "EVENLY", shares |-> [p \in {leg.to} |-> 1]]
    BY DEF Settlement
<1> HIDE DEF e, n
<1>3. ExactShares(e.original, e.paidBy) = paid
    BY <1>1, <1>2 DEF ExactShares
<1>4. Residual(paid, n, leg.from) = paid
    <2>1. n - Rounded(Total(paid)) = 0
        <3>1. Total(paid) = Whole(n) /\ Rounded(Whole(n)) = n
            BY <1>1, TotalOfOne
        <3> QED BY <1>1, <3>1
    <2> QED BY <2>1 DEF Residual
<1>5. PaidShares(e) = paid
    BY <1>2, <1>3, <1>4 DEF PaidShares
<1>6. ExactShares(e.amount, e.paidFor) = owed
    <2>1. Cardinality({leg.to}) = 1
        BY FS_Singleton
    <2>2. ExactShares(e.amount, e.paidFor) = [p \in {leg.to} |-> Fraction(n, Cardinality({leg.to}))]
        BY <1>1, <1>2 DEF ExactShares
    <2> QED BY <1>1, <2>1, <2>2, WholeFraction
<1>7. OwedShares(e) = owed
    BY <1>2, <1>6 DEF OwedShares, Itemized
<1>8. AddsUp(e)
    <2>1. Total(paid) = Whole(n) /\ Total(owed) = Whole(n)
        BY <1>1, TotalOfOne
    <2>2. (\A q \in DOMAIN paid : paid[q].num >= 0) /\ \A q \in DOMAIN owed : owed[q].num >= 0
        BY <1>1 DEF Whole
    <2> QED BY <1>2, <1>5, <1>7, <2>1, <2>2 DEF AddsUp
<1> QED BY <1>2, <1>5, <1>7, <1>8 DEF e, n

(* A ledger with the settlements for some legs, whose ids follow n.          *)
Written(all, old, paid, n) ==
    LET T == (n + 1)..(n + Len(paid))
    IN  /\ DOMAIN all = DOMAIN old \cup T /\ DOMAIN old \cap T = {}
        /\ \A i \in DOMAIN old : all[i] = old[i]
        /\ \A i \in T : all[i] = Settlement(paid[i - n])

(* They move the balances by what the legs bring.                            *)
LEMMA LegsMove ==
    ASSUME NEW old, Rows(old, Members), \A i \in DOMAIN old : AddsUp(old[i]),
           NEW paid \in Seq(LegsAmong(Members)), \A i \in DOMAIN paid : paid[i].amount > 0,
           NEW base \in Nat, NEW all, Written(all, old, paid, base), NEW p \in Members
    PROVE  /\ Rows(all, Members) /\ \A i \in DOMAIN all : AddsUp(all[i])
           /\ Balance(all, p) = Balance(old, p) - Net(paid, {p})
           /\ Balance(old, p) \in Int /\ Net(paid, {p}) \in Int
<1> DEFINE G == LegsAmong(Members)
           k == Len(paid)
           T == (base + 1)..(base + k)
           from == [i \in T |-> paid[i - base].from]
           to == [i \in T |-> paid[i - base].to]
           a == AmountOf(all)
           f == Comes(from, a, T, p)
           t == Comes(to, a, T, p)
           d == [i \in T |-> Moves(paid[i - base], {p})]
           h == [i \in T |-> i - base]
<1>1. paid \in Seq(G) /\ \A i \in DOMAIN paid : paid[i].amount > 0
    OBVIOUS
<1> HIDE DEF G
<1>2. base \in Nat /\ k \in Nat /\ DOMAIN paid = 1..k
    BY <1>1
<1>3. /\ DOMAIN all = DOMAIN old \cup T /\ DOMAIN old \cap T = {}
      /\ \A i \in DOMAIN old : all[i] = old[i]
      /\ \A i \in T : all[i] = Settlement(paid[i - base])
    BY DEF Written
<1>4. ASSUME NEW i \in T
      PROVE  i - base \in 1..k /\ paid[i - base] \in G /\ paid[i - base].amount > 0
    <2>1. i - base \in 1..k
        BY <1>2
    <2> HIDE DEF k
    <2> QED BY <1>1, <1>2, <2>1
<1>5. ASSUME NEW i \in T
      PROVE  /\ all[i].amount = paid[i - base].amount
             /\ PaidShares(all[i]) = [q \in {paid[i - base].from} |-> Whole(paid[i - base].amount)]
             /\ OwedShares(all[i]) = [q \in {paid[i - base].to} |-> Whole(paid[i - base].amount)]
             /\ AddsUp(all[i])
    <2> DEFINE leg == paid[i - base]
    <2>1. leg \in LegsAmong(Members) /\ leg.amount > 0 /\ all[i] = Settlement(leg)
        BY <1>3, <1>4 DEF G
    <2> HIDE DEF leg
    <2>2. /\ Settlement(leg).amount = leg.amount
          /\ PaidShares(Settlement(leg)) = [q \in {leg.from} |-> Whole(leg.amount)]
          /\ OwedShares(Settlement(leg)) = [q \in {leg.to} |-> Whole(leg.amount)]
          /\ AddsUp(Settlement(leg))
        BY <2>1, SettlementSides
    <2> QED BY <2>1, <2>2 DEF leg
<1>6. Rows(old, Members) /\ Rows(all, Members)
    <2>1. IsFiniteSet(T)
        <3>1. base + 1 \in Int /\ base + k \in Int
            BY <1>2
        <3> QED BY <3>1, FS_Interval
    <2>2. IsFiniteSet(DOMAIN all)
        BY <1>3, <2>1, FS_Union DEF Rows
    <2>3. ASSUME NEW i \in T
          PROVE  IsExpense(all[i], Members)
        <3> DEFINE leg == paid[i - base]
        <3>1. leg \in LegsAmong(Members) /\ leg.amount > 0 /\ all[i] = Settlement(leg)
            BY <1>3, <1>4 DEF G
        <3> HIDE DEF leg
        <3>2. leg.amount # 0
            BY <3>1 DEF LegsAmong
        <3> QED BY <3>1, <3>2, SettlementFine
    <2> HIDE DEF T
    <2> QED BY <1>3, <2>2, <2>3 DEF Rows
<1>7. \A i \in DOMAIN all : AddsUp(all[i])
    <2> HIDE DEF T
    <2> QED BY <1>3, <1>5
<1>8. PaidOver(all, T, from, to, Members)
    <2>1. ASSUME NEW i \in T
          PROVE  /\ from[i] = paid[i - base].from /\ to[i] = paid[i - base].to
                 /\ from[i] \in Members /\ to[i] \in Members
        <3>1. from[i] = paid[i - base].from /\ to[i] = paid[i - base].to
            OBVIOUS
        <3>2. paid[i - base] \in LegsAmong(Members)
            BY <1>4 DEF G
        <3> HIDE DEF from, to
        <3> QED BY <3>1, <3>2 DEF LegsAmong
    <2> HIDE DEF from, to, T
    <2> QED BY <1>5, <2>1 DEF PaidOver
<1>9. \A i \in T : /\ a[i] = paid[i - base].amount /\ a[i] \in Int
                    /\ d[i] = t[i] - f[i] /\ d[i] \in Int /\ t[i] \in Int /\ f[i] \in Int
    <2> TAKE i \in T
    <2>1. a[i] = paid[i - base].amount
        <3>1. i \in DOMAIN all
            BY <1>3
        <3>2. a[i] = all[i].amount
            BY <3>1 DEF AmountOf
        <3> QED BY <1>5, <3>2
    <2> DEFINE leg == paid[i - base]
    <2>2. leg.amount \in Int
        BY <1>4 DEF G, LegsAmong
    <2> HIDE DEF a
    <2>3. /\ f[i] = IF leg.from = p THEN leg.amount ELSE 0
          /\ t[i] = IF leg.to = p THEN leg.amount ELSE 0
        BY <2>1 DEF Comes
    <2>4. d[i] = Moves(leg, {p})
        OBVIOUS
    <2> HIDE DEF leg, f, t, d
    <2> QED BY <2>1, <2>2, <2>3, <2>4 DEF Moves, Within, leg
<1>10. IsFiniteSet(T) /\ IsFiniteSet(1..k)
    <2>1. base + 1 \in Int /\ base + k \in Int /\ 1 \in Int /\ k \in Int
        BY <1>2
    <2> HIDE DEF k
    <2> QED BY <2>1, FS_Interval
<1>11. Through(h, T, 1..k)
    <2>1. \A i \in T : h[i] = i - base /\ h[i] \in 1..k
        BY <1>4
    <2>2. \A n \in 1..k : n + base \in T /\ (n + base) - base = n
        BY <1>2
    <2>3. \A i, j \in T : i - base = j - base => i = j
        BY <1>2
    <2> HIDE DEF h, T, k
    <2> QED BY <2>1, <2>2, <2>3 DEF Through
<1>12. \A i \in T : d[i] = Nets(paid, {p})[h[i]]
    <2>1. \A i \in T : h[i] \in DOMAIN paid /\ d[i] = Moves(paid[h[i]], {p})
        BY <1>2, <1>4
    <2> HIDE DEF h, T, d
    <2> QED BY <2>1 DEF Nets
<1>13. /\ \A n \in 1..k : Nets(paid, {p})[n] \in Int
       /\ Net(paid, {p}) = SumFunctionOnSet(Nets(paid, {p}), 1..k) /\ Net(paid, {p}) \in Int
    BY <1>1, <1>2, NetType DEF G, Net
<1> DEFINE W == 1..k
           N == Nets(paid, {p})
<1>14. /\ \A n \in W : N[n] \in Int
       /\ \A i \in T : d[i] = N[h[i]]
       /\ Through(h, T, W) /\ IsFiniteSet(W)
       /\ Net(paid, {p}) = SumFunctionOnSet(N, W)
    BY <1>10, <1>11, <1>12, <1>13
<1>15. /\ Balance(all, p) = Balance(old, p) + SumFunctionOnSet(f, T) - SumFunctionOnSet(t, T)
       /\ SumFunctionOnSet(f, T) \in Int /\ SumFunctionOnSet(t, T) \in Int
    <2>1. Members \in SUBSET Int /\ IsFiniteSet(Members)
        BY ConstantsAssumption
    <2> HIDE DEF T, from, to
    <2> QED BY <1>3, <1>6, <1>7, <1>8, <2>1, BalancesMove
<1>16. Balance(old, p) \in Int
    <2>1. Members \in SUBSET Int /\ IsFiniteSet(Members)
        BY ConstantsAssumption
    <2> QED BY <1>6, <2>1, BalanceIs
<1> HIDE DEF T, f, t, d, h, N, W, a, from, to
<1>17. SumFunctionOnSet(d, T) = SumFunctionOnSet(N, W)
    <2>1. Through(h, T, W) /\ IsFiniteSet(W)
        BY <1>14
    <2>2. \A n \in W : N[n] \in Int
        BY <1>14
    <2>3. \A i \in T : d[i] = N[h[i]]
        BY <1>14
    <2> QED BY <1>10, <2>1, <2>2, <2>3, SumThrough
<1>18. SumFunctionOnSet(t, T) = SumFunctionOnSet(d, T) + SumFunctionOnSet(f, T)
    <2>1. Joined(t, d, f, T)
        BY <1>9 DEF Joined
    <2> QED BY <1>10, <2>1, SumPlus
<1>19. Balance(all, p) = Balance(old, p) - Net(paid, {p})
    BY <1>13, <1>14, <1>15, <1>16, <1>17, <1>18
<1> QED BY <1>6, <1>7, <1>13, <1>16, <1>19

(* So do the settlements that a call writes for legs.                        *)
LEMMA SettleMoves ==
    ASSUME RowsInv, Ordinary, NEW legs \in Seq(LegsAmong(Members)), Settle(legs),
           \A i \in DOMAIN legs : legs[i].amount >= 0, NEW p \in Members
    PROVE  /\ Balance(Expenses', p) = Balance(Expenses, p) - Net(legs, {p})
           /\ Balance(Expenses, p) \in Int /\ Net(legs, {p}) \in Int
<1> DEFINE G == LegsAmong(Members)
           I == {i \in DOMAIN legs : legs[i].amount > 0}
           paid == Picked(legs, I)
           T == (drawn + 1)..(drawn + Len(paid))
<1>1. paid \in Seq(G) /\ \A n \in DOMAIN paid : paid[n].amount > 0
    <2>1. I \in SUBSET DOMAIN legs /\ \A i \in I : legs[i].amount > 0
        OBVIOUS
    <2> HIDE DEF I, G
    <2>2. paid \in Seq(G) /\ \A n \in DOMAIN paid : \E i \in I : paid[n] = legs[i]
        BY <2>1, PickedHolds DEF G
    <2> HIDE DEF paid
    <2> QED BY <2>1, <2>2
<1>2. Net(paid, {p}) = Net(legs, {p})
    <2>1. \A i \in DOMAIN legs : legs[i].amount \in Int
        <3>1. \A i \in DOMAIN legs : legs[i] \in LegsAmong(Members)
            OBVIOUS
        <3> QED BY <3>1 DEF LegsAmong
    <2>2. \A i \in DOMAIN legs : i \notin I => Moves(legs[i], {p}) = 0
        <3>1. \A i \in DOMAIN legs : i \notin I => legs[i].amount = 0
            BY <2>1
        <3> QED BY <3>1 DEF Moves, Within
    <2>3. I \in SUBSET DOMAIN legs
        OBVIOUS
    <2> HIDE DEF I, G
    <2>4. Thinned(paid, legs, I)
        <3>1. legs \in Seq(G)
            BY DEF G
        <3> QED BY <2>3, <3>1, PickedThinned
    <2> HIDE DEF paid
    <2> QED BY <2>2, <2>3, <2>4, ThinnedNet
<1>3. /\ drawn' = drawn + Len(paid)
      /\ ledger' = [i \in DOMAIN ledger \cup T |->
                       IF i \in DOMAIN ledger THEN ledger[i]
                                              ELSE Row(Settlement(paid[i - drawn]), 1)]
    BY DEF Settle
<1> HIDE DEF I, paid, G
<1>4. drawn \in Nat /\ Len(paid) \in Nat
    BY <1>1 DEF RowsInv
<1>5. DOMAIN ledger \cap T = {}
    BY <1>4 DEF RowsInv
<1>6. Written(Expenses', Expenses, paid, drawn)
    <2> DEFINE all == Expenses'
               old == Expenses
    <2>1. DOMAIN old = DOMAIN ledger /\ \A i \in DOMAIN ledger : old[i] = ledger[i].expense
        BY DEF Expenses
    <2>2. DOMAIN all = DOMAIN ledger' /\ \A i \in DOMAIN ledger' : all[i] = ledger'[i].expense
        BY DEF Expenses
    <2> HIDE DEF all, old
    <2>3. /\ DOMAIN all = DOMAIN old \cup T /\ DOMAIN old \cap T = {}
          /\ \A i \in DOMAIN old : all[i] = old[i]
          /\ \A i \in T : all[i] = Settlement(paid[i - drawn])
        <3> HIDE DEF T
        <3> QED BY <1>3, <1>5, <2>1, <2>2 DEF Row
    <2>4. Written(all, old, paid, drawn)
        BY <2>3 DEF Written
    <2> QED BY <2>4 DEF all, old
<1>7. Rows(Expenses, Members) /\ \A i \in DOMAIN Expenses : AddsUp(Expenses[i])
    BY LedgerRows DEF Ordinary, Expenses
<1> DEFINE all == Expenses'
<1>8. Written(all, Expenses, paid, drawn)
    BY <1>6
<1> HIDE DEF all
<1>9. /\ Balance(all, p) = Balance(Expenses, p) - Net(paid, {p})
      /\ Balance(Expenses, p) \in Int /\ Net(paid, {p}) \in Int
    BY <1>1, <1>4, <1>7, <1>8, LegsMove DEF G
<1> QED BY <1>2, <1>9 DEF all

(* Expenses that add up, and the settlements suggested for them.             *)
LEMMA OrdinarySuggests ==
    ASSUME NEW old, Rows(old, Members), \A i \in DOMAIN old : AddsUp(old[i])
    PROVE  LET legs == SuggestedSettlements(GetBalances(old))
           IN  /\ legs \in Seq(LegsAmong(Members)) /\ Steps(legs)
               /\ \A p \in Members : Net(legs, {p}) = Balance(old, p)
<1> DEFINE b == GetBalances(old)
<1>1. Members \in SUBSET Nat /\ Members \in SUBSET Int /\ IsFiniteSet(Members)
    BY ConstantsAssumption
<1>2. b \in CentsOf(Members)
    BY <1>1, BalancesType
<1>3. \A p : Balance(old, p) = CentsIn(b, p)
    BY DEF Balance
<1>4. SumFunctionOnSet([p \in Members |-> CentsIn(b, p)], Members) = 0
    <2>1. SumFunctionOnSet([p \in Members |-> Balance(old, p)], Members) = 0
        BY <1>1, BalancesCancel
    <2> QED BY <2>1 DEF Balance
<1> HIDE DEF b
<1>5. /\ Stairs(SuggestedSettlements(b))
      /\ \A p \in Members : Net(SuggestedSettlements(b), {p}) = CentsIn(b, p)
      /\ \A i \in DOMAIN SuggestedSettlements(b) : SuggestedSettlements(b)[i].amount > 0
      /\ SuggestedSettlements(b) \in Seq(LegsAmong(Members))
    BY <1>1, <1>2, <1>4, SuggestedSettle, SuggestedType
<1> QED BY <1>3, <1>5 DEF b, Steps

-----------------------------------------------------------------------------
(* Who leaves settles what the group has shown them.                         *)

(* What is suggested for an ordinary ledger brings each member what they are *)
(* due, and so does what is suggested for the balances the group shows.      *)
LEMMA LegsBring ==
    ASSUME RowsInv, Ordinary
    PROVE  /\ SettlementLegs = SuggestedSettlements(GetBalances(Expenses))
           /\ SettlementLegs \in Seq(LegsAmong(Members))
           /\ Stairs(SettlementLegs)
           /\ \A i \in DOMAIN SettlementLegs : SettlementLegs[i].amount > 0
           /\ \A p \in Members : /\ Net(SettlementLegs, {p}) = Balance(Expenses, p)
                                 /\ CentsIn(GroupBalances, p) = Balance(Expenses, p)
<1> DEFINE b == GetBalances(Expenses)
           legs == SuggestedSettlements(b)
<1>1. Members \in SUBSET Nat /\ Members \in SUBSET Int /\ IsFiniteSet(Members)
    BY ConstantsAssumption
<1>2. Rows(Expenses, Members) /\ \A i \in DOMAIN Expenses : AddsUp(Expenses[i])
    BY LedgerRows DEF Ordinary, Expenses
<1>3. /\ legs \in Seq(LegsAmong(Members)) /\ Steps(legs)
      /\ \A p \in Members : Net(legs, {p}) = Balance(Expenses, p)
    BY <1>2, OrdinarySuggests
<1>4. b \in CentsOf(Members)
    BY <1>1, <1>2, BalancesType
<1>5. SumFunctionOnSet([p \in Members |-> CentsIn(b, p)], Members) = 0
    <2>1. SumFunctionOnSet([p \in Members |-> Balance(Expenses, p)], Members) = 0
        BY <1>1, <1>2, BalancesCancel
    <2> QED BY <2>1 DEF Balance
<1>6. \A p : Balance(Expenses, p) = CentsIn(b, p)
    BY DEF Balance
<1>7. SettlementLegs = SuggestedSettlements(PublicBalances(legs)) /\ GroupBalances = PublicBalances(legs)
    BY DEF SettlementLegs, GroupBalances
<1> HIDE DEF b
<1>8. /\ SuggestedSettlements(PublicBalances(legs)) = legs
      /\ \A p \in Members : CentsIn(PublicBalances(legs), p) = CentsIn(b, p)
    BY <1>1, <1>4, <1>5, PublicSame
<1> HIDE DEF legs
<1>9. SettlementLegs = legs /\ Stairs(legs) /\ \A i \in DOMAIN legs : legs[i].amount > 0
    BY <1>3, <1>7, <1>8 DEF Steps
<1> QED BY <1>3, <1>6, <1>7, <1>8, <1>9 DEF b, legs

(* Legs that bring a member what they are due leave them without balance.    *)
LEMMA SettleClears ==
    ASSUME RowsInv, Ordinary, NEW legs \in Seq(LegsAmong(Members)), Settle(legs),
           \A i \in DOMAIN legs : legs[i].amount >= 0, NEW p \in Members,
           Net(legs, {p}) = Balance(Expenses, p)
    PROVE  Settled(Expenses', {p})
<1>1. Balance(Expenses', p) = Balance(Expenses, p) - Net(legs, {p}) /\ Balance(Expenses, p) \in Int
    BY SettleMoves
<1>2. Balance(Expenses', p) = 0
    BY <1>1
<1> DEFINE b == GetBalances(Expenses')
<1>3. CentsIn(b, p) = 0
    BY <1>2 DEF Balance
<1>4. Settled(Expenses', {p}) <=> \A q \in {p} \cap DOMAIN b : b[q] = 0
    BY DEF Settled
<1> HIDE DEF b
<1> QED BY <1>3, <1>4 DEF CentsIn

(* Whatever others do, a call about to take a member stays as it is.         *)
LEMMA OthersKept ==
    ASSUME IInv, NEW k \in Members, NEW m \in Members, m # k, In(m, {"leaving", "removing"}),
           Write(k) \/ Exit(k) \/ Manage(k) \/ Abort(k)
    PROVE  call'[m] = call[m]
<1>1. ASSUME NEW c, call' = [call EXCEPT ![k] = c] PROVE call'[m] = call[m]
    BY <1>1 DEF IInv
<1>2. \A c : Begin(k, c) \/ Continue(k, c) => call'[m] = call[m]
    BY <1>1 DEF Begin, Continue
<1>3. EndUnlocked(k) => call'[m] = call[m]
    BY DEF EndUnlocked, In
<1>4. CASE Write(k)
    BY <1>2, <1>3, <1>4 DEF Write, CreateReads, CreateWrites, CreateRefused, UpdateReads,
           UpdateWrites, UpdateConflicts, DeleteReads, DeleteWrites, End
<1>5. CASE Exit(k)
    BY <1>2, <1>3, <1>5 DEF Exit, LeaveChecks, LeaveReads, LeaveWrites, RemoveChecks, RemoveReads,
           RemoveWrites
<1>6. CASE Manage(k)
    BY <1>2, <1>6 DEF Manage, RoleChecks, RoleReads, RoleWrites, ArchiveLocks, ArchiveReads,
           ArchiveWrites, Unarchive, ArchiveForSelf, End
<1>7. CASE Abort(k)
    BY <1>2, <1>7 DEF Abort, End
<1> QED BY <1>4, <1>5, <1>6, <1>7

(* Such a call ends with a commit unless nothing changes.                    *)
LEMMA WhoEnds ==
    ASSUME IInv, [Next]_vars, <<rows, people>>' # <<rows, people>>,
           NEW m \in Members, In(m, {"leaving", "removing"}), call'[m] = NoCall
    PROVE  LeaveWrites(m) \/ RemoveWrites(m)
<1>1. ~UNCHANGED vars
    BY DEF vars
<1>2. PICK k \in Members : Write(k) \/ Exit(k) \/ Manage(k) \/ Abort(k)
    BY <1>1 DEF Next
<1>3. call[m].op \in {"leaving", "removing"} /\ call[m] # NoCall
    BY DEF In, NoCall
<1>4. k = m
    BY <1>2, <1>3, OthersKept
<1>5. ~Write(m)
    BY <1>3 DEF Write, CreateReads, CreateWrites, CreateRefused, UpdateReads, UpdateWrites,
           UpdateConflicts, DeleteReads, DeleteWrites, Begin, In
<1>6. ~Manage(m)
    BY <1>3 DEF Manage, RoleChecks, RoleReads, RoleWrites, ArchiveLocks, ArchiveReads,
           ArchiveWrites, Unarchive, ArchiveForSelf, Begin, In
<1>7. ~Abort(m)
    BY DEF Abort, rows, people
<1>8. Exit(m) => LeaveWrites(m) \/ RemoveWrites(m)
    BY <1>3 DEF Exit, LeaveChecks, LeaveReads, RemoveChecks, RemoveReads, Begin, In
<1> QED BY <1>2, <1>4, <1>5, <1>6, <1>7, <1>8

(* It moves the balance of its member by what it was shown.                  *)
LEMMA ExitMoves ==
    ASSUME IInv, TInv, [Next]_vars, NEW m \in Members, In(m, {"leaving", "removing"}),
           call'[m] = NoCall, <<rows, people>>' # <<rows, people>>, Ordinary
    PROVE  Balance(Expenses', call[m].who) = Balance(Expenses, call[m].who) - call[m].due
<1>1. Settle(call[m].legs)
    BY WhoEnds DEF LeaveWrites, RemoveWrites
<1>2. /\ RowsInv /\ call[m].legs \in Seq(LegsAmong(Members))
      /\ Brings(call[m].legs, call[m].who, call[m].due)
    BY DEF TInv, CallsInv, Sound, In
<1>3. call[m].who \in Members
    BY DEF TInv, CallsInv, Sound, In, IInv, Considered
<1> DEFINE legs == call[m].legs
           who == call[m].who
<1>4. /\ legs \in Seq(LegsAmong(Members)) /\ Settle(legs) /\ who \in Members
      /\ \A i \in DOMAIN legs : legs[i].amount >= 0
      /\ Net(legs, {who}) = call[m].due
    BY <1>1, <1>2, <1>3 DEF Brings
<1> HIDE DEF legs, who
<1>5. Balance(Expenses', who) = Balance(Expenses, who) - Net(legs, {who})
    BY <1>2, <1>4, SettleMoves
<1> QED BY <1>4, <1>5 DEF who

(* members.ts, settling on the way out: whatever has been written since the  *)
(* call looked at the balances, a member who leaves, or is removed, pays and *)
(* is paid what was due then; what they are left with is what was written    *)
(* since.                                                                    *)
THEOREM ExitsSettle == Spec => ExitSettlesWhatItSaw
<1>1. IInv /\ TInv /\ [Next]_vars =>
        [\A m \in Members :
          /\ In(m, {"leaving", "removing"}) /\ call'[m] = NoCall
          /\ <<rows, people>>' # <<rows, people>> /\ Ordinary
          => Balance(Expenses', call[m].who) = Balance(Expenses, call[m].who) - call[m].due]_vars
    BY ExitMoves
<1> QED BY <1>1, InitIInv, NextKeeps, InitSound, NextSound, PTL DEF Spec, ExitSettlesWhatItSaw

-----------------------------------------------------------------------------
(* An archiving settles what it was shown; not raced, it leaves nobody a     *)
(* balance.                                                                  *)

(* An archiving that commits is that of the call that ends.                  *)
LEMMA WhoArchives ==
    ASSUME Archivings, [Next]_vars, NEW m \in Members, In(m, {"archiving"}), archived', ~archived
    PROVE  ArchiveWrites(m)
<1>1. ~UNCHANGED vars
    BY DEF vars
<1>2. PICK k \in Members : Write(k) \/ Exit(k) \/ Manage(k) \/ Abort(k)
    BY <1>1 DEF Next
<1>3. ~Write(k)
    BY DEF Write, CreateReads, CreateWrites, CreateRefused, UpdateReads, UpdateWrites,
           UpdateConflicts, DeleteReads, DeleteWrites
<1>4. ~Abort(k)
    BY DEF Abort
<1>5. ~Exit(k)
    BY DEF Exit, LeaveChecks, LeaveReads, LeaveWrites, RemoveChecks, RemoveReads, RemoveWrites
<1>6. Manage(k) => ArchiveWrites(k) \/ ArchiveForSelf(k)
    BY DEF Manage, RoleChecks, RoleReads, RoleWrites, ArchiveLocks, ArchiveReads, Unarchive
<1>7. Locked
    BY DEF Locked, In
<1>8. ArchiveWrites(k)
    BY <1>2, <1>3, <1>4, <1>5, <1>6, <1>7 DEF ArchiveForSelf
<1>9. Archiving(k) /\ Archiving(m)
    BY <1>8 DEF ArchiveWrites, Archiving, In
<1> QED BY <1>8, <1>9 DEF Archivings, OneArchives

(* What it writes settles everybody, if nothing has come in between.         *)
LEMMA ArchiveClears ==
    ASSUME TInv, Archivings, [Next]_vars, NEW m \in Members, In(m, {"archiving"}),
           archived', ~archived, ~call[m].raced, Ordinary
    PROVE  Settled(Expenses', Members)
<1>1. ArchiveWrites(m) /\ RowsInv
    BY WhoArchives DEF TInv
<1> DEFINE legs == call[m].legs
<1>2. Settle(legs)
    BY <1>1 DEF ArchiveWrites
<1>3. legs = IF Unsettled THEN SettlementLegs ELSE <<>>
    BY DEF Archivings, LegsAreCurrent, Unraced
<1> HIDE DEF legs
<1>4. ASSUME NEW p \in Members
      PROVE  Settled(Expenses', {p})
    <2>1. /\ SettlementLegs \in Seq(LegsAmong(Members))
          /\ \A i \in DOMAIN SettlementLegs : SettlementLegs[i].amount > 0
          /\ Net(SettlementLegs, {p}) = Balance(Expenses, p)
          /\ CentsIn(GroupBalances, p) = Balance(Expenses, p)
        BY <1>1, LegsBring
    <2>2. CASE Unsettled
        <3>1. legs = SettlementLegs
            BY <1>3, <2>2
        <3>2. \A i \in DOMAIN legs : legs[i].amount >= 0
            <4>1. \A i \in DOMAIN legs : legs[i] \in LegsAmong(Members)
                BY <2>1, <3>1
            <4> QED BY <2>1, <3>1, <4>1 DEF LegsAmong
        <3> QED BY <1>1, <1>2, <2>1, <3>1, <3>2, SettleClears
    <2>3. CASE ~Unsettled
        <3>1. CentsIn(GroupBalances, p) = 0
            BY <2>3 DEF Unsettled, CentsIn
        <3>2. legs = <<>> /\ DOMAIN <<>> = {} /\ <<>> \in Seq(LegsAmong(Members))
            BY <1>3, <2>3
        <3>3. Net(legs, {p}) = Balance(Expenses, p)
            BY <2>1, <3>1, <3>2, NoLegs
        <3>4. legs \in Seq(LegsAmong(Members)) /\ \A i \in DOMAIN legs : legs[i].amount >= 0
            BY <3>2
        <3> QED BY <1>1, <1>2, <3>3, <3>4, SettleClears
    <2> QED BY <2>2, <2>3
<1> QED BY <1>4 DEF Settled

(* Raced or not, it moves the balances by what it was shown.                 *)
LEMMA ArchiveMoves ==
    ASSUME TInv, Archivings, [Next]_vars, NEW m \in Members, In(m, {"archiving"}),
           archived', ~archived, Ordinary, NEW p \in Members
    PROVE  Balance(Expenses', p) = Balance(Expenses, p) - call[m].due[p]
<1> DEFINE legs == call[m].legs
<1>1. Settle(legs)
    BY WhoArchives DEF ArchiveWrites
<1>2. RowsInv /\ legs \in Seq(LegsAmong(Members)) /\ Brings(legs, p, call[m].due[p])
    BY DEF TInv, CallsInv, Sound, In
<1> HIDE DEF legs
<1>3. Net(legs, {p}) = call[m].due[p] /\ \A i \in DOMAIN legs : legs[i].amount >= 0
    BY <1>2 DEF Brings
<1>4. Balance(Expenses', p) = Balance(Expenses, p) - Net(legs, {p})
    BY <1>1, <1>2, <1>3, SettleMoves
<1> QED BY <1>3, <1>4

(* archive.procedure.ts, a group archived with its balances settled: what    *)
(* the members are left with is what has been written since the second look  *)
(* at the balances, and nothing unless a write that takes no lock has        *)
(* committed since the lock.                                                 *)
THEOREM ArchivesSettle == Spec => ArchiveSettlesWhatItSaw
<1>1. IInv /\ TInv /\ Archivings /\ [Next]_vars =>
        [\A m \in Members :
          /\ In(m, {"archiving"}) /\ archived' /\ ~archived /\ Ordinary
          => /\ \A p \in Members :
                   Balance(Expenses', p) = Balance(Expenses, p) - call[m].due[p]
             /\ ~call[m].raced => Settled(Expenses', Members)]_vars
    BY ArchiveMoves, ArchiveClears
<1> QED BY <1>1, InitIInv, NextKeeps, InitArchivings, NextQuiet, InitSound, NextSound,
           PTL DEF Spec, ArchiveSettlesWhatItSaw

-----------------------------------------------------------------------------
(* Paying a suggested settlement leaves the others.                          *)

(* Paying one of the settlements suggested leaves the others.                *)
LEMMA PaidLeaves ==
    ASSUME RowsInv, Ordinary, NEW i \in DOMAIN SuggestedSettlements(GetBalances(Expenses)),
           NEW all,
           Written(all, Expenses, <<SuggestedSettlements(GetBalances(Expenses))[i]>>, drawn)
    PROVE  SuggestedSettlements(GetBalances(all))
              = RemoveAt(SuggestedSettlements(GetBalances(Expenses)), i)
<1> DEFINE legs == SuggestedSettlements(GetBalances(Expenses))
           left == SuggestedSettlements(GetBalances(all))
           leg == legs[i]
           r == RemoveAt(legs, i)
           E == LegsAmong(Members)
<1>1. Rows(Expenses, Members) /\ \A k \in DOMAIN Expenses : AddsUp(Expenses[k])
    BY LedgerRows DEF Ordinary, Expenses
<1>2. /\ legs \in Seq(E) /\ Steps(legs)
      /\ \A p \in Members : Net(legs, {p}) = Balance(Expenses, p)
    BY <1>1, OrdinarySuggests
<1>3. Written(all, Expenses, <<leg>>, drawn) /\ i \in DOMAIN legs
    OBVIOUS
<1> HIDE DEF legs
<1>4. leg \in E /\ leg.amount > 0
    BY <1>2, <1>3 DEF Steps
<1>5. \A P : r \in Seq(E) /\ Steps(r) /\ Net(r, P) = Net(legs, P) - Moves(leg, P)
    BY <1>2, <1>3, RemovedNet
<1> HIDE DEF leg
<1>6. <<leg>> \in Seq(E) /\ \A k \in DOMAIN <<leg>> : <<leg>>[k].amount > 0
    <2>1. <<leg>> \in Seq(E)
        BY <1>4, OneLeg
    <2>2. \A k \in DOMAIN <<leg>> : <<leg>>[k] = leg
        OBVIOUS
    <2> QED BY <1>4, <2>1, <2>2
<1>7. drawn \in Nat
    BY DEF RowsInv
<1> DEFINE one == <<leg>>
<1>8. ASSUME NEW p \in Members
      PROVE  /\ Rows(all, Members) /\ \A k \in DOMAIN all : AddsUp(all[k])
             /\ Balance(all, p) = Balance(Expenses, p) - Moves(leg, {p})
    <2>1. Net(one, {p}) = Moves(leg, {p})
        BY <1>4, OneLeg
    <2>2. one \in Seq(LegsAmong(Members)) /\ \A k \in DOMAIN one : one[k].amount > 0
        BY <1>6
    <2>3. Written(all, Expenses, one, drawn)
        BY <1>3
    <2> HIDE DEF one, E
    <2>4. /\ Rows(all, Members) /\ \A k \in DOMAIN all : AddsUp(all[k])
          /\ Balance(all, p) = Balance(Expenses, p) - Net(one, {p})
        BY <1>1, <1>7, <2>2, <2>3, LegsMove, ZenonT(60)
    <2> QED BY <2>1, <2>4
<1>9. Members # {}
    BY <1>4 DEF LegsAmong
<1>10. Rows(all, Members) /\ \A k \in DOMAIN all : AddsUp(all[k])
    BY <1>8, <1>9
<1>11. /\ left \in Seq(E) /\ Steps(left)
       /\ \A p \in Members : Net(left, {p}) = Balance(all, p)
    BY <1>10, OrdinarySuggests
<1> HIDE DEF left, r
<1>12. Alike(left, r, Members)
    BY <1>2, <1>5, <1>8, <1>11 DEF Alike
<1>13. Members \in SUBSET Nat
    BY ConstantsAssumption
<1>14. r \in Seq(E) /\ Steps(r)
    BY <1>5
<1> HIDE DEF E
<1>15. left = r
    BY <1>11, <1>12, <1>13, <1>14, StepsUnique DEF E
<1> QED BY <1>15 DEF left, r, legs

(* balances.ts, the order of the settlements suggested: of an ordinary       *)
(* ledger, whatever its members, their expenses and what they have settled   *)
(* of it, paying any one of them settles that one alone, to the cent.        *)
THEOREM PaidLegsLeave == Spec => []PaidLegLeavesTheRest
<1>1. TInv => PaidLegLeavesTheRest
    <2> DEFINE legs == SuggestedSettlements(GetBalances(Expenses))
               With(i) == [j \in DOMAIN ledger \cup {drawn + 1} |->
                              IF j = drawn + 1 THEN Settlement(legs[i]) ELSE Expenses[j]]
    <2> SUFFICES ASSUME TInv, Ordinary, NEW i \in DOMAIN legs
                 PROVE  SuggestedSettlements(GetBalances(With(i))) = RemoveAt(legs, i)
        BY DEF PaidLegLeavesTheRest
    <2> DEFINE all == With(i)
               leg == legs[i]
               old == Expenses
    <2>1. drawn \in Nat /\ DOMAIN ledger \subseteq 1..drawn
        BY DEF TInv, RowsInv
    <2>2. Len(<<leg>>) = 1 /\ <<leg>>[1] = leg
        OBVIOUS
    <2>3. DOMAIN old = DOMAIN ledger
        BY DEF Expenses
    <2>4. all = [j \in DOMAIN ledger \cup {drawn + 1} |->
                               IF j = drawn + 1 THEN Settlement(leg) ELSE old[j]]
        OBVIOUS
    <2> HIDE DEF all, leg, old
    <2>5. (drawn + 1)..(drawn + 1) = {drawn + 1} /\ (drawn + 1) - drawn = 1 /\ drawn + 1 \notin DOMAIN old
        BY <2>1, <2>3
    <2>6. Written(all, old, <<leg>>, drawn)
        BY <2>2, <2>3, <2>4, <2>5 DEF Written
    <2>7. Written(all, Expenses, <<SuggestedSettlements(GetBalances(Expenses))[i]>>, drawn)
        BY <2>6 DEF leg, old
    <2>8. RowsInv
        BY DEF TInv
    <2>9. SuggestedSettlements(GetBalances(all)) = RemoveAt(SuggestedSettlements(GetBalances(Expenses)), i)
        BY <2>7, <2>8, PaidLeaves
    <2> QED BY <2>9 DEF all
<1> QED BY <1>1, InitIInv, NextKeeps, InitSound, NextSound, PTL DEF Spec
=============================================================================
