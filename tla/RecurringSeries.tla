--------------------------- MODULE RecurringSeries ---------------------------
(***************************************************************************)
(* One recurring expense of one group: the RecurringExpenseSeries row, the *)
(* expense rows it has produced, the materialization jobs of its exclusive *)
(* pg-boss queue, the workers that run them, the reconciliation cron and   *)
(* the mutations a member may commit meanwhile (archive, unarchive, stop,  *)
(* delete, edit "this and future").                                        *)
(*                                                                         *)
(* A database transaction that takes the Group and Series row locks is one *)
(* action.  What the code reads before such a transaction is kept in the   *)
(* worker's run, the editor's snapshot or the reconciler's page, so that   *)
(* every other transaction may come in between.                            *)
(*                                                                         *)
(* Days are numbers.  The clock counts half days: an occurrence of day d   *)
(* is due at 2*d+1 (anchorTimeMinutes, taken to be in the afternoon and    *)
(* never edited), so that "its date is today" and "it is due" differ.      *)
(***************************************************************************)
EXTENDS Integers, FiniteSets

CONSTANTS
    Workers,       \* worker threads that run materialization jobs
    Start,         \* the clock when the series is created
    Anchors,       \* days the first expense may be dated
    Intervals,     \* schedule intervals a member may choose, in days
    Ends,          \* end rules a member may choose: [type, n]
    RetryLimit,    \* JOBS_RETRY_LIMIT of the materialization queue
    MaxClock,      \* bound: the clock stops here
    MaxOps,        \* bound: member mutations in a behaviour
    NoBatch, NoRun, NoPage, NoEdit

End == [type : {"INDEFINITE", "COUNT", "DATE"}, n : Nat]

ASSUME ConstantsAssumption ==
    /\ Start \in Nat /\ MaxClock \in Nat /\ MaxOps \in Nat /\ RetryLimit \in Nat
    /\ Anchors \subseteq Nat
    /\ Intervals \subseteq Nat \ {0}
    /\ Ends \subseteq End

\* A null catch-up batch is not a batch.
ASSUME NoBatchAssumption == NoBatch \notin [count : Nat, through : Nat]

VARIABLES
    clock,
    archived,      \* Group.archived
    status, version, created, anchor, interval, end, nextDate, nextOrd,
    batch,         \* catchUpBatch: NoBatch or [count, through]
    tpl,           \* the template, by its generation
    rows,          \* the series' expense rows: [seq, date, tpl]
    jobs,          \* materialization jobs: [seq, date, st, tries]
    dead,          \* keys [seq, date] in the dead-letter queue
    runs,          \* what each worker's handler has read
    page,          \* a due cursor the reconciler has read, not yet sent
    editing,       \* what an editor has read before its transaction
    ops,           \* member mutations so far (bound only)
    said,          \* history: the ranges of occurrences announced
    tplFrom,       \* history: the row of the last edit of a live series
    endFrom        \* history: the row of the last edit of a live schedule

schedVars == <<created, anchor, interval, end, nextDate, nextOrd>>
seriesVars == <<status, version, schedVars, batch, tpl>>
queueVars == <<jobs, dead, runs, page>>
userVars == <<archived, editing, ops>>
histVars == <<said, tplFrom, endFrom>>
vars == <<clock, seriesVars, rows, queueVars, userVars, histVars>>

------------------------------------------------------------------------------
(* Schedule arithmetic *)

\* calculateRecurrenceDate, for day intervals: the date of a 1-based ordinal.
OccDate(a, i, ordinal) == a + (ordinal - 1) * i

RunAt(date) == 2 * date + 1
Today == clock \div 2

\* Whether number seq of date d is outside the end rule e.
Outside(e, seq, d) == \/ e.type = "COUNT" /\ seq > e.n
                      \/ e.type = "DATE" /\ d > e.n

EndReached(e, seq, d) == \/ e.type = "COUNT" /\ seq >= e.n
                         \/ e.type = "DATE" /\ d >= e.n

\* No occurrence follows number seq of date d, the next date being nd.
Last(e, seq, d, nd) == EndReached(e, seq, d) \/ (e.type = "DATE" /\ nd > e.n)

\* Mutant: a completed series is taken for a live one.
TerminalCancelledOnly(s) == s = "CANCELLED"
Terminal(s) == s \in {"CANCELLED", "COMPLETED"}

------------------------------------------------------------------------------
(* The exclusive queue: one queued or active job for a key *)

Key(seq, d) == [seq |-> seq, date |-> d]
KeyOf(j) == Key(j.seq, j.date)
Queued(k) == [seq |-> k.seq, date |-> k.date, st |-> "queued", tries |-> 0]

\* sendJob: a send whose key is taken is dropped.
Send(js, k) == IF \E j \in js : KeyOf(j) = k THEN js ELSE js \cup {Queued(k)}

Complete(js, k) == {j \in js : KeyOf(j) # k \/ j.st # "active"}

Retried(j) == [seq |-> j.seq, date |-> j.date, st |-> "queued", tries |-> j.tries + 1]

\* pg-boss retries a failed or expired job until its limit, then dead-letters it.
\* Mutant: a failed job is left in a state nobody takes it from.
FailJobForGood(j) ==
    /\ jobs' = (jobs \ {j}) \cup {[j EXCEPT !.st = "failed"]}
    /\ UNCHANGED dead
FailJob(j) ==
    IF j.tries < RetryLimit
    THEN /\ jobs' = (jobs \ {j}) \cup {Retried(j)}
         /\ UNCHANGED dead
    ELSE /\ jobs' = jobs \ {j}
         /\ dead' = dead \cup {KeyOf(j)}

------------------------------------------------------------------------------
(* Creation: createExpense with a recurrence, then createSeriesForExpense.  *)

Seeded(a, i, e) == LET second == OccDate(a, i, 2) IN
    /\ second <= Today
    /\ e.type = "COUNT" => e.n >= 2
    /\ e.type = "DATE" => second <= e.n

Init ==
    /\ clock = Start /\ archived = FALSE
    /\ anchor \in Anchors /\ interval \in Intervals
    /\ end \in {e \in Ends : e.type = "DATE" => e.n >= anchor}
    /\ version = 1 /\ created = 1 /\ tpl = 0
    /\ nextOrd = 2 /\ nextDate = OccDate(anchor, interval, 2)
    /\ status = IF Last(end, 1, anchor, nextDate) THEN "COMPLETED" ELSE "ACTIVE"
    /\ batch = IF Seeded(anchor, interval, end)
               THEN [count |-> 1, through |-> Today] ELSE NoBatch
    /\ rows = {[seq |-> 1, date |-> anchor, tpl |-> 0]}
    /\ jobs = IF status = "ACTIVE" THEN {Queued(Key(2, nextDate))} ELSE {}
    /\ dead = {} /\ runs = [w \in Workers |-> NoRun] /\ page = NoPage
    /\ editing = NoEdit /\ ops = 0
    /\ said = IF batch = NoBatch THEN {<<1, 1>>} ELSE {}
    /\ tplFrom = 1 /\ endFrom = 1

Tick ==
    /\ clock < MaxClock
    /\ clock' = clock + 1
    /\ UNCHANGED <<seriesVars, rows, queueVars, userVars, histVars>>

------------------------------------------------------------------------------
(* materializeRecurringExpense *)

\* The snapshot's guards: the job is still about the series' cursor.
AtCursor(k) ==
    /\ status = "ACTIVE"
    /\ created + 1 = k.seq
    /\ nextDate = k.date
    /\ ~Outside(end, k.seq, k.date)

\* A worker takes a due job and reads the series outside any transaction.
Claim(w) == \E j \in jobs :
    /\ runs[w] = NoRun
    /\ j.st = "queued" /\ RunAt(j.date) <= clock
    /\ jobs' = (jobs \ {j}) \cup {[j EXCEPT !.st = "active"]}
    /\ runs' = [runs EXCEPT ![w] = [seq |-> j.seq, date |-> j.date,
                                    version |-> version, tpl |-> tpl,
                                    done |-> ~AtCursor(KeyOf(j))]]
    /\ UNCHANGED <<clock, seriesVars, rows, dead, page, userVars, histVars>>

\* Mutants: trust the unique key alone; re-check the status alone.
ConfirmedByKey(r) == \A x \in rows : x.seq # r.seq
ConfirmedByStatus(r) == status = "ACTIVE"

\* What the transaction re-checks under the Group and Series locks.
Confirmed(r) ==
    /\ version = r.version
    /\ \A x \in rows : x.seq # r.seq
    /\ AtCursor(r)
    /\ OccDate(anchor, interval, nextOrd) = r.date

\* The range announced by the transaction that writes number seq: seq alone
\* outside a batch, the whole batch when it closes with two or more.
\* Mutants: a range that starts one early; a batch of two taken for too small.
AnnouncesOneMore(seq, open, closes, count) ==
    IF ~open THEN {<<seq, seq>>}
    ELSE IF closes /\ count >= 2 THEN {<<seq - count, seq>>} ELSE {}
AnnouncesAboveTwo(seq, open, closes, count) ==
    IF ~open THEN {<<seq, seq>>}
    ELSE IF closes /\ count > 2 THEN {<<seq - count + 1, seq>>} ELSE {}
Announces(seq, open, closes, count) ==
    IF ~open THEN {<<seq, seq>>}
    ELSE IF closes /\ count >= 2 THEN {<<seq - count + 1, seq>>} ELSE {}

Finish(w) == runs' = [runs EXCEPT ![w].done = TRUE]

\* The series changed since the snapshot: the job ends without a row.
Skip(w) ==
    /\ runs[w] # NoRun /\ ~runs[w].done
    /\ ~Confirmed(runs[w])
    /\ Finish(w)
    /\ UNCHANGED <<clock, seriesVars, rows, jobs, dead, page, userVars, histVars>>

\* The group was archived meanwhile: pause instead of writing.
PauseArchived(w) ==
    /\ runs[w] # NoRun /\ ~runs[w].done
    /\ Confirmed(runs[w]) /\ archived
    /\ status' = "PAUSED" /\ version' = version + 1 /\ batch' = NoBatch
    /\ Finish(w)
    /\ UNCHANGED <<clock, schedVars, tpl, rows, jobs, dead, page, userVars, histVars>>

\* Write the occurrence, move the cursor, keep or close the catch-up batch,
\* announce, and enqueue the next occurrence, in one transaction.
Materialize(w) ==
    LET r == runs[w]
        after == OccDate(anchor, interval, nextOrd + 1)
        last == Last(end, r.seq, r.date, after)
        cutoff == IF batch # NoBatch THEN batch.through ELSE Today
        starts == batch = NoBatch /\ r.date <= cutoff /\ after <= cutoff /\ ~last
        open == batch # NoBatch \/ starts
        count == IF batch # NoBatch THEN batch.count + 1 ELSE 1
        closes == last \/ after > cutoff
    IN
    /\ r # NoRun /\ ~r.done
    /\ Confirmed(r) /\ ~archived
    /\ rows' = rows \cup {[seq |-> r.seq, date |-> r.date, tpl |-> r.tpl]}
    /\ created' = r.seq
    /\ nextOrd' = nextOrd + 1 /\ nextDate' = after
    /\ version' = version + 1
    /\ status' = IF last THEN "COMPLETED" ELSE "ACTIVE"
    /\ batch' = IF open /\ ~closes THEN [count |-> count, through |-> cutoff]
                ELSE NoBatch
    /\ said' = said \cup Announces(r.seq, open, closes, count)
    /\ jobs' = IF last THEN jobs ELSE Send(jobs, Key(r.seq + 1, after))
    /\ Finish(w)
    /\ UNCHANGED <<clock, anchor, interval, end, tpl, dead, page, userVars,
                   tplFrom, endFrom>>

\* The handler returned: pg-boss completes the job.
Ack(w) ==
    /\ runs[w] # NoRun /\ runs[w].done
    /\ jobs' = Complete(jobs, Key(runs[w].seq, runs[w].date))
    /\ runs' = [runs EXCEPT ![w] = NoRun]
    /\ UNCHANGED <<clock, seriesVars, rows, dead, page, userVars, histVars>>

\* The handler threw before its transaction (no exchange rate, lost connection).
Throw(w) ==
    /\ runs[w] # NoRun /\ ~runs[w].done
    /\ runs' = [runs EXCEPT ![w] = NoRun]
    /\ \/ \E j \in jobs : /\ KeyOf(j) = Key(runs[w].seq, runs[w].date)
                          /\ j.st = "active"
                          /\ FailJob(j)
       \/ /\ \A j \in jobs : KeyOf(j) = Key(runs[w].seq, runs[w].date)
                             => j.st # "active"
          /\ UNCHANGED <<jobs, dead>>
    /\ UNCHANGED <<clock, seriesVars, rows, page, userVars, histVars>>

\* The worker process dies; its job stays active until it expires.
Crash(w) ==
    /\ runs[w] # NoRun
    /\ runs' = [runs EXCEPT ![w] = NoRun]
    /\ UNCHANGED <<clock, seriesVars, rows, jobs, dead, page, userVars, histVars>>

\* An active job outlives expireInSeconds, whether or not its worker is alive.
Expire == \E j \in jobs :
    /\ j.st = "active"
    /\ FailJob(j)
    /\ UNCHANGED <<clock, seriesVars, rows, runs, page, userVars, histVars>>

------------------------------------------------------------------------------
(* reconcileDueRecurringExpenses *)

\* The first ordinal from the cursor on whose instant has not passed.
\* Mutant: only the cursor's own ordinal is tried.
CursorIfFuture(o) == o = nextOrd /\ RunAt(OccDate(anchor, interval, o)) > clock
FirstFuture(o) ==
    /\ RunAt(OccDate(anchor, interval, o)) > clock
    /\ \A p \in nextOrd..(o - 1) : RunAt(OccDate(anchor, interval, p)) <= clock

\* Skip the ordinals whose instant has passed, or complete the series.
Resume ==
    /\ ~archived /\ status = "PAUSED"
    /\ \E o \in nextOrd..(nextOrd + clock + 1) :
        LET d == OccDate(anchor, interval, o)
            over == \/ end.type = "DATE" /\ d > end.n
                    \/ end.type = "COUNT" /\ created >= end.n
        IN
        /\ FirstFuture(o)
        /\ \/ over /\ status' = "COMPLETED"
              /\ UNCHANGED <<nextDate, nextOrd, jobs>>
           \/ ~over /\ status' = "ACTIVE"
              /\ nextDate' = d /\ nextOrd' = o
              /\ jobs' = Send(jobs, Key(created + 1, d))
    /\ version' = version + 1
    /\ UNCHANGED <<clock, created, anchor, interval, end, batch, tpl, rows, dead,
                   runs, page, userVars, histVars>>

\* Mutant: the query's horizon leaves today's date out.
DueBeforeToday == status = "ACTIVE" /\ ~archived /\ nextDate < Today
Due == status = "ACTIVE" /\ ~archived /\ RunAt(nextDate) <= clock

\* The page of due series is read in one query ...
ScanDue ==
    /\ page = NoPage /\ Due
    /\ page' = Key(created + 1, nextDate)
    /\ UNCHANGED <<clock, seriesVars, rows, jobs, dead, runs, userVars, histVars>>

\* ... and each job sent later, unless it is dead-lettered.
SendDue ==
    /\ page # NoPage
    /\ jobs' = IF page \in dead THEN jobs ELSE Send(jobs, page)
    /\ page' = NoPage
    /\ UNCHANGED <<clock, seriesVars, rows, dead, runs, userVars, histVars>>

------------------------------------------------------------------------------
(* What members do *)

Mutate == ops < MaxOps /\ ops' = ops + 1

\* archive: pause in the transaction that sets the flag.
Archive ==
    /\ Mutate /\ ~archived /\ archived' = TRUE
    /\ IF status = "ACTIVE"
       THEN status' = "PAUSED" /\ version' = version + 1
       ELSE UNCHANGED <<status, version>>
    /\ UNCHANGED <<clock, schedVars, batch, tpl, rows, queueVars, editing, histVars>>

\* unarchive only clears the flag: Resume follows in a transaction of its own.
Unarchive ==
    /\ Mutate /\ archived /\ archived' = FALSE
    /\ UNCHANGED <<clock, seriesVars, rows, queueVars, editing, histVars>>

\* The procedures below look at Group.archived before they open a transaction;
\* a request let through may commit after the group is archived.

\* stopRecurrence
Stop ==
    /\ Mutate /\ ~Terminal(status)
    /\ rows # {}
    /\ status' = "CANCELLED" /\ version' = version + 1 /\ batch' = NoBatch
    /\ UNCHANGED <<clock, schedVars, tpl, rows, queueVars, archived, editing, histVars>>

\* deleteExpense, or an edit that detaches the row, of one occurrence.
DeleteOne == \E x \in rows :
    /\ Mutate
    /\ rows' = rows \ {x}
    /\ UNCHANGED <<clock, seriesVars, queueVars, archived, editing, histVars>>

\* deleteExpense THIS_AND_FUTURE, which may also stop the series.
DeleteFuture == \E x \in rows, stop \in BOOLEAN :
    /\ Mutate
    /\ rows' = {y \in rows : y.seq < x.seq}
    /\ status' = IF stop /\ ~Terminal(status) THEN "CANCELLED" ELSE status
    /\ version' = version + 1 /\ batch' = NoBatch
    /\ UNCHANGED <<clock, schedVars, tpl, queueVars, archived, editing, histVars>>

\* updateExpense reads the series and the rows it will rewrite ...
EditRead == \E x \in rows :
    /\ ops < MaxOps /\ editing = NoEdit
    /\ editing' = [seq |-> x.seq, version |-> version,
                   future |-> {y.seq : y \in {z \in rows : z.seq > x.seq}}]
    /\ UNCHANGED <<clock, seriesVars, rows, queueVars, archived, ops, histVars>>

\* ... and gives up when the series version moved or a row is gone.
\* Mutant: only the edited row's own version is checked.
StaleRow == \A x \in rows : x.seq # editing.seq
Stale == \/ version # editing.version
         \/ \A x \in rows : x.seq # editing.seq

\* A later row that was deleted meanwhile fails the update of the edit's rows.
AllThere(kept) == \A s \in kept : \E x \in rows : x.seq = s

EditConflict ==
    /\ editing # NoEdit /\ (Stale \/ ~AllThere(editing.future))
    /\ Mutate /\ editing' = NoEdit
    /\ UNCHANGED <<clock, seriesVars, rows, queueVars, archived, histVars>>

\* Removing the recurrence THIS_AND_FUTURE detaches the row, cancels the series.
EditDetach ==
    /\ editing # NoEdit /\ ~Stale
    /\ Mutate /\ editing' = NoEdit
    /\ rows' = {x \in rows : x.seq # editing.seq}
    /\ status' = "CANCELLED" /\ version' = version + 1 /\ batch' = NoBatch
    /\ UNCHANGED <<clock, schedVars, tpl, queueVars, archived, histVars>>

\* The later rows a new schedule leaves no place for.
\* Mutant: the end date is forgotten.
OutOfCount(a, i, e) == {s \in editing.future : e.type = "COUNT" /\ s > e.n}
Out(a, i, e) == {s \in editing.future :
                   Outside(e, s, OccDate(a, i, s - editing.seq + 1))}

Dropped(a, i, e, changed) == IF changed THEN Out(a, i, e) ELSE {}

\* An edited row gets the new template and, redated, its day in the schedule.
Rewritten(x, a, i, redate) ==
    [seq |-> x.seq, tpl |-> tpl + 1,
     date |-> IF redate THEN OccDate(a, i, x.seq - editing.seq + 1) ELSE x.date]

\* The rows after an edit: the edited one and the kept ones are rewritten, rows
\* the snapshot lacks are untouched, a live series loses the dropped ones.
Reflow(a, i, dropped, changed, live) ==
    {Rewritten(x, a, i, changed /\ live /\ x.seq # editing.seq) :
        x \in {y \in rows : y.seq \in {editing.seq} \cup (editing.future \ dropped)}}
    \cup {x \in rows : x.seq \notin {editing.seq} \cup editing.future}
    \cup {x \in rows : x.seq \in dropped /\ ~live}

\* An edit THIS_AND_FUTURE of a series that has ended: template only.
EditTerminal == \E i \in Intervals, e \in Ends, x \in rows :
    LET changed == i # interval \/ e # end
        dropped == Dropped(x.date, i, e, changed)
    IN
    /\ editing # NoEdit /\ ~Stale /\ Terminal(status)
    /\ x.seq = editing.seq
    /\ e.type = "DATE" => e.n >= x.date
    /\ AllThere(editing.future \ dropped)
    /\ Mutate /\ editing' = NoEdit
    /\ rows' = Reflow(x.date, i, dropped, changed, FALSE)
    /\ tpl' = tpl + 1 /\ version' = version + 1 /\ batch' = NoBatch
    /\ UNCHANGED <<clock, status, schedVars, queueVars, archived, histVars>>

\* An edit THIS_AND_FUTURE of a live series re-anchors it at the edited row,
\* recomputes the cursor from the high-water number, and enqueues it.  The anchor is
\* the row's own day: with this scope resolvedWallDate (update-expense.ts:87-105)
\* keeps it, whatever date is submitted.
Reanchor(x, i, e) ==
    LET changed == i # interval \/ e # end
        dropped == Dropped(x.date, i, e, changed)
        top == IF editing.seq > created THEN editing.seq ELSE created
        ord == top - editing.seq + 2
        d == OccDate(x.date, i, ord)
        over == \/ e.type = "COUNT" /\ top >= e.n
                \/ e.type = "DATE" /\ d > e.n
    IN
    /\ editing # NoEdit /\ ~Stale /\ ~Terminal(status)
    /\ x.seq = editing.seq
    /\ e.type = "DATE" => e.n >= x.date
    /\ AllThere(editing.future \ dropped)
    /\ Mutate /\ editing' = NoEdit
    /\ rows' = Reflow(x.date, i, dropped, changed, TRUE)
    /\ anchor' = x.date /\ interval' = i /\ end' = e
    /\ created' = top /\ nextOrd' = ord /\ nextDate' = d
    /\ status' = IF over THEN "COMPLETED" ELSE "ACTIVE"
    /\ batch' = IF changed /\ ~over /\ d <= Today /\ ~Outside(e, top + 1, d)
                THEN [count |-> 0, through |-> Today] ELSE NoBatch
    /\ tpl' = tpl + 1 /\ version' = version + 1
    /\ jobs' = IF over THEN jobs ELSE Send(jobs, Key(top + 1, d))
    /\ tplFrom' = editing.seq
    /\ endFrom' = IF changed THEN editing.seq ELSE endFrom
    /\ UNCHANGED <<clock, dead, runs, page, archived, said>>

EditLive == \E x \in rows, i \in Intervals, e \in Ends : Reanchor(x, i, e)

------------------------------------------------------------------------------
Worker(w) == \/ Claim(w) \/ Skip(w) \/ PauseArchived(w) \/ Materialize(w)
             \/ Ack(w) \/ Throw(w) \/ Crash(w)

Member == \/ Archive \/ Unarchive \/ Stop \/ DeleteOne \/ DeleteFuture
          \/ EditRead \/ EditConflict \/ EditDetach \/ EditTerminal \/ EditLive

Next == \/ Tick
        \/ \E w \in Workers : Worker(w)
        \/ Expire \/ Resume \/ ScanDue \/ SendDue
        \/ Member

Spec == Init /\ [][Next]_vars

\* The crons run forever, pg-boss expires and hands out jobs forever, and a
\* handler that does not crash comes to its end.  Members owe nothing.
Fairness ==
    /\ WF_vars(Expire) /\ WF_vars(Resume) /\ WF_vars(ScanDue) /\ WF_vars(SendDue)
    /\ \A w \in Workers :
        /\ WF_vars(Claim(w)) /\ WF_vars(Ack(w))
        /\ WF_vars(Skip(w) \/ PauseArchived(w) \/ Materialize(w))

FairSpec == Spec /\ Fairness

------------------------------------------------------------------------------
(* Properties *)

Row == [seq : Nat, date : Nat, tpl : Nat]
Job == [seq : Nat, date : Nat, st : {"queued", "active"}, tries : Nat]
Run == [seq : Nat, date : Nat, version : Nat, tpl : Nat, done : BOOLEAN]

SeriesOK ==
    /\ clock \in Nat
    /\ status \in {"ACTIVE", "PAUSED", "COMPLETED", "CANCELLED"}
    /\ version \in Nat /\ tpl \in Nat
    /\ created \in Nat \ {0} /\ anchor \in Nat /\ interval \in Nat \ {0}
    /\ end \in End /\ nextDate \in Nat /\ nextOrd \in Nat \ {0}
    /\ batch \in [count : Nat, through : Nat] \cup {NoBatch}
    /\ rows \subseteq Row

QueueOK ==
    /\ jobs \subseteq Job
    /\ dead \subseteq [seq : Nat, date : Nat]
    /\ runs \in [Workers -> Run \cup {NoRun}]
    /\ page \in [seq : Nat, date : Nat] \cup {NoPage}

MemberOK ==
    /\ archived \in BOOLEAN /\ ops \in Nat
    /\ editing \in [seq : Nat, version : Nat, future : SUBSET Nat] \cup {NoEdit}

HistoryOK ==
    /\ said \subseteq Nat \X Nat
    /\ tplFrom \in Nat /\ endFrom \in Nat

TypeOK == SeriesOK /\ QueueOK /\ MemberOK /\ HistoryOK

\* The rows a step adds, told by their number.
NewRows == {x \in rows' : \A y \in rows : y.seq # x.seq}

\* Occurrences are written one at a time, in order, never twice even when the
\* first copy was deleted, never early, and never while paused or archived:
\* whatever redelivered, stale or concurrent job runs materialize.ts.
WrittenInOrder == [][\A x \in NewRows :
    /\ x.seq = created + 1 /\ created' = x.seq /\ RunAt(x.date) <= clock
    /\ status = "ACTIVE" /\ ~archived]_vars

\* The ledger never holds two expenses with one number, nor a number the
\* cursor has not passed; the stored next date is that of the stored ordinal.
CursorAgrees ==
    /\ \A x, y \in rows : x.seq = y.seq => x = y
    /\ \A x \in rows : x.seq \in 1..created
    /\ nextDate = OccDate(anchor, interval, nextOrd)

\* No row after the last edit of the schedule lies outside its end rule, neither
\* one the edit kept nor one a worker wrote around it.  (Of an edit that leaves
\* the schedule alone this does not hold: it re-anchors at an earlier row and
\* keeps the rows between, which the end rule was never applied to.)
EndRespected == \A x \in rows : x.seq > endFrom => ~Outside(end, x.seq, x.date)

\* An edit THIS_AND_FUTURE reaches every later row, those included that a
\* worker was writing while the edit read the rows and committed.
EditReachesAll == ~Terminal(status) =>
    \A x \in rows : x.seq >= tplFrom => x.tpl = tpl

\* No occurrence is announced twice: a batch summary covers only numbers that
\* were held back for it.
AnnouncedOnce ==
    /\ \A a, b \in said : a # b => a[2] < b[1] \/ b[2] < a[1]
    /\ \A a \in said : 1 <= a[1] /\ a[1] <= a[2] /\ a[2] <= created

Announced(n) == \E a \in said : n \in a[1]..a[2]

\* Unless a member intervenes, every occurrence is announced or waits in the
\* open catch-up batch.
NothingLeftUnsaid == ops = 0 => \A n \in 1..created :
    Announced(n) \/ (batch # NoBatch /\ n > created - batch.count)

\* A due occurrence of a live series is written, or the series or its group is
\* stopped, rescheduled or paused, or its job is dead-lettered: a job dropped by
\* a concurrent edit, a crash or an exclusive-key collision is made good.
Stuck(n) == /\ created = n /\ status = "ACTIVE" /\ ~archived
            /\ RunAt(nextDate) <= clock
            /\ Key(created + 1, nextDate) \notin dead

DueIsWritten == \A n \in 1..(MaxClock + 1) : Stuck(n) ~> ~Stuck(n)

\* A series of an unarchived group does not stay paused, even when the API died
\* between the two transactions of unarchive.
PausedIsResumed ==
    (status = "PAUSED" /\ ~archived) ~> (status # "PAUSED" \/ archived)

\* The promise to the group, see OccurrenceLog.
Phase == CASE status = "ACTIVE" -> "live"
           [] status = "PAUSED" -> "paused"
           [] OTHER -> "closed"
Log == INSTANCE OccurrenceLog WITH
    high <- created, log <- {x.seq : x \in rows}, phase <- Phase
ImplementsLog == Log!LogSpec
==============================================================================
