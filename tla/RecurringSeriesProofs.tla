------------------------ MODULE RecurringSeriesProofs ------------------------
(***************************************************************************)
(* Proofs about RecurringSeries, for every set of workers, schedule, end   *)
(* rule and bound: types, agreement of cursor and ledger, order of writes, *)
(* what an edit reaches, what is left unsaid, and the refinement of        *)
(* OccurrenceLog.                                                          *)
(***************************************************************************)
EXTENDS RecurringSeries, TLAPS

\* A handler runs only jobs whose instant has passed.
RunsDue == \A w \in Workers : runs[w] # NoRun => RunAt(runs[w].date) <= clock

\* An editor's snapshot holds the rows after the edited one.
EditAhead == editing # NoEdit => \A s \in editing.future : s > editing.seq

\* How many occurrences the open batch holds back.
Held == IF batch = NoBatch THEN 0 ELSE batch.count

\* What has been announced lies below what the open batch holds back.
SaidBehind == /\ Held <= created
              /\ \A a \in said : a[2] + Held <= created

IInv == TypeOK /\ CursorAgrees /\ AnnouncedOnce /\ SaidBehind /\ RunsDue /\ EditAhead

------------------------------------------------------------------------------
(* Operators *)

\* calculateRecurrenceDate yields a day for a day, an interval and an ordinal.
LEMMA OccDateType ==
    ASSUME NEW a \in Nat, NEW i \in Nat \ {0}, NEW o \in Nat \ {0}
    PROVE  OccDate(a, i, o) \in Nat
<1>1. o - 1 \in Nat /\ i \in Nat
    OBVIOUS
<1>2. \A m, n \in Nat : m * n \in Nat
    OBVIOUS
<1>3. (o - 1) * i \in Nat
    BY <1>1, <1>2
<1> QED BY <1>3 DEF OccDate

\* Today is a day.
LEMMA TodayType == ASSUME clock \in Nat PROVE Today \in Nat
    BY DEF Today

\* What sendJob leaves in the queue: jobs, the new one not started.
LEMMA SendType ==
    ASSUME NEW js \in SUBSET Job, NEW s \in Nat, NEW d \in Nat
    PROVE  Send(js, Key(s, d)) \in SUBSET Job
    BY DEF Send, Key, Queued, Job, KeyOf

\* Members choose end rules and intervals among the constants.
LEMMA Choices ==
    /\ \A e \in Ends : e \in End
    /\ \A i \in Intervals : i \in Nat \ {0}
    /\ \A a \in Anchors : a \in Nat
    BY ConstantsAssumption

\* A failed job is queued again or leaves its key in the dead-letter queue.
LEMMA FailJobType ==
    ASSUME QueueOK, NEW j \in jobs, FailJob(j)
    PROVE  /\ jobs' \subseteq Job
           /\ dead' \subseteq [seq : Nat, date : Nat]
<1>1. j \in Job /\ KeyOf(j) \in [seq : Nat, date : Nat]
    BY DEF QueueOK, Job, KeyOf, Key
<1>2. Retried(j) \in Job
    BY <1>1 DEF Job, Retried
<1> QED BY <1>1, <1>2 DEF FailJob, QueueOK

------------------------------------------------------------------------------
(* The inductive invariant *)

\* The saved first expense and its series satisfy the invariant.
LEMMA InitIInv == Init => IInv
<1> SUFFICES ASSUME Init PROVE IInv
    OBVIOUS
<1>1. anchor \in Nat /\ interval \in Nat \ {0} /\ end \in End
    BY Choices DEF Init
<1>2. nextDate \in Nat
    BY <1>1, OccDateType DEF Init
<1>3. clock \in Nat /\ Today \in Nat
    BY ConstantsAssumption, TodayType DEF Init
<1>4. jobs \subseteq Job
    BY <1>2 DEF Init, Queued, Key, Job
<1>5. rows \subseteq Row
    BY <1>1 DEF Init, Row
<1>6. batch \in [count : Nat, through : Nat] \cup {NoBatch}
    BY <1>3 DEF Init
<1>7. SeriesOK
    BY <1>1, <1>2, <1>3, <1>5, <1>6 DEF Init, SeriesOK
<1>8. QueueOK
    BY <1>4 DEF Init, QueueOK
<1>9. MemberOK
    BY DEF Init, MemberOK
<1>10. said \subseteq Nat \X Nat
    BY DEF Init
<1>11. HistoryOK
    BY <1>10 DEF Init, HistoryOK
<1>12. CursorAgrees
    BY DEF Init, CursorAgrees
<1>13. RunsDue /\ EditAhead
    BY DEF Init, RunsDue, EditAhead
<1>14. batch # NoBatch => batch.count = 1
    BY DEF Init
<1>15. AnnouncedOnce /\ SaidBehind
    BY <1>14 DEF Init, AnnouncedOnce, SaidBehind, Held
<1> QED BY <1>7, <1>8, <1>9, <1>11, <1>12, <1>13, <1>15 DEF IInv, TypeOK

\* Time only passes.
LEMMA TickIInv == IInv /\ Tick => IInv'
<1> SUFFICES ASSUME IInv, Tick PROVE IInv'
    OBVIOUS
<1> USE DEF IInv, TypeOK, Tick
<1>1. SeriesOK'
    BY DEF SeriesOK, seriesVars, schedVars
<1>2. QueueOK' /\ MemberOK' /\ HistoryOK'
    BY DEF QueueOK, MemberOK, HistoryOK, queueVars, userVars, histVars
<1>3. CursorAgrees'
    BY DEF CursorAgrees, seriesVars, schedVars, OccDate
<1>4. RunsDue' /\ EditAhead'
  <2>1. ASSUME NEW w \in Workers, runs[w] # NoRun PROVE runs[w].date \in Nat
    BY <2>1 DEF QueueOK, Run
  <2> QED BY <2>1 DEF RunsDue, RunAt, EditAhead, queueVars, userVars, SeriesOK
<1>5. AnnouncedOnce' /\ SaidBehind'
    BY DEF AnnouncedOnce, SaidBehind, Held, seriesVars, schedVars, histVars
<1> QED BY <1>1, <1>2, <1>3, <1>4, <1>5

\* Steps that leave the series, its rows, the members and the histories alone.
LEMMA SeriesKept ==
    ASSUME IInv, UNCHANGED <<clock, seriesVars, rows, userVars, histVars>>
    PROVE  /\ SeriesOK' /\ MemberOK' /\ HistoryOK'
           /\ CursorAgrees' /\ EditAhead' /\ AnnouncedOnce' /\ SaidBehind'
<1>1. SeriesOK' /\ MemberOK' /\ HistoryOK'
    BY DEF IInv, TypeOK, SeriesOK, MemberOK, HistoryOK,
           seriesVars, schedVars, userVars, histVars
<1>2. CursorAgrees' /\ EditAhead'
    BY DEF IInv, CursorAgrees, EditAhead, seriesVars, schedVars, userVars, OccDate
<1>3. AnnouncedOnce' /\ SaidBehind'
    BY DEF IInv, AnnouncedOnce, SaidBehind, Held, seriesVars, schedVars, histVars
<1> QED BY <1>1, <1>2, <1>3

\* A run ends: whatever else happens to the queue, the other runs stay due.
LEMMA RunEnds ==
    ASSUME IInv, NEW w \in Workers, clock' = clock,
           \/ runs' = [runs EXCEPT ![w] = NoRun]
           \/ runs[w] # NoRun /\ Finish(w)
    PROVE  runs' \in [Workers -> Run \cup {NoRun}] /\ RunsDue'
<1>1. CASE runs' = [runs EXCEPT ![w] = NoRun]
    BY <1>1 DEF IInv, TypeOK, QueueOK, RunsDue, RunAt
<1>2. CASE runs[w] # NoRun /\ Finish(w)
  <2>1. runs[w] \in Run
    BY <1>2 DEF IInv, TypeOK, QueueOK
  <2>2. /\ [runs[w] EXCEPT !.done = TRUE] \in Run
        /\ [runs[w] EXCEPT !.done = TRUE].date = runs[w].date
    BY <2>1 DEF Run
  <2>3. runs' = [runs EXCEPT ![w] = [runs[w] EXCEPT !.done = TRUE]]
    BY <1>2 DEF Finish
  <2> QED BY <1>2, <2>2, <2>3 DEF IInv, TypeOK, QueueOK, RunsDue, RunAt
<1> QED BY <1>1, <1>2

\* A claimed job is due, and the run holds what the worker read.
LEMMA ClaimIInv == ASSUME IInv, NEW w \in Workers, Claim(w) PROVE IInv'
<1> USE DEF IInv, TypeOK
<1>1. /\ SeriesOK' /\ MemberOK' /\ HistoryOK'
      /\ CursorAgrees' /\ EditAhead' /\ AnnouncedOnce' /\ SaidBehind'
    BY SeriesKept DEF Claim
<1>2. PICK j \in jobs :
        /\ runs[w] = NoRun
        /\ j.st = "queued" /\ RunAt(j.date) <= clock
        /\ jobs' = (jobs \ {j}) \cup {[j EXCEPT !.st = "active"]}
        /\ runs' = [runs EXCEPT ![w] = [seq |-> j.seq, date |-> j.date,
                                        version |-> version, tpl |-> tpl,
                                        done |-> ~AtCursor(KeyOf(j))]]
        /\ UNCHANGED <<clock, dead, page>>
    BY DEF Claim
<1>3. j \in Job
    BY DEF QueueOK
<1>4. [j EXCEPT !.st = "active"] \in Job
    BY <1>3 DEF Job
<1> DEFINE r == [seq |-> j.seq, date |-> j.date, version |-> version,
                 tpl |-> tpl, done |-> ~AtCursor(KeyOf(j))]
<1>5. (~AtCursor(KeyOf(j))) \in BOOLEAN
    BY DEF AtCursor
<1>6. r \in Run /\ r.date = j.date
    BY <1>3, <1>5 DEF Job, Run, SeriesOK
<1> HIDE DEF r
<1>7. runs' = [runs EXCEPT ![w] = r]
    BY <1>2 DEF r
<1>8. QueueOK'
    BY <1>2, <1>4, <1>6, <1>7 DEF QueueOK
<1>9. RunsDue'
    BY <1>2, <1>6, <1>7 DEF QueueOK, RunsDue, RunAt
<1> QED BY <1>1, <1>8, <1>9

\* A run that ends without a write changes the queue alone.
LEMMA SkipIInv == ASSUME IInv, NEW w \in Workers, Skip(w) PROVE IInv'
<1>1. /\ SeriesOK' /\ MemberOK' /\ HistoryOK'
      /\ CursorAgrees' /\ EditAhead' /\ AnnouncedOnce' /\ SaidBehind'
    BY SeriesKept DEF Skip
<1>2. runs' \in [Workers -> Run \cup {NoRun}] /\ RunsDue'
    BY RunEnds DEF Skip
<1>3. QueueOK'
    BY <1>2 DEF Skip, QueueOK, IInv, TypeOK
<1> QED BY <1>1, <1>2, <1>3 DEF IInv, TypeOK

\* A completed job leaves the queue, its run ends.
LEMMA AckIInv == ASSUME IInv, NEW w \in Workers, Ack(w) PROVE IInv'
<1>1. /\ SeriesOK' /\ MemberOK' /\ HistoryOK'
      /\ CursorAgrees' /\ EditAhead' /\ AnnouncedOnce' /\ SaidBehind'
    BY SeriesKept DEF Ack
<1>2. runs' \in [Workers -> Run \cup {NoRun}] /\ RunsDue'
    BY RunEnds DEF Ack
<1>3. QueueOK'
    BY <1>2 DEF Ack, Complete, QueueOK, IInv, TypeOK
<1> QED BY <1>1, <1>2, <1>3 DEF IInv, TypeOK

\* A failed job is queued again or dead-lettered, its run ends.
LEMMA ThrowIInv == ASSUME IInv, NEW w \in Workers, Throw(w) PROVE IInv'
<1>1. /\ SeriesOK' /\ MemberOK' /\ HistoryOK'
      /\ CursorAgrees' /\ EditAhead' /\ AnnouncedOnce' /\ SaidBehind'
    BY SeriesKept DEF Throw
<1>2. runs' \in [Workers -> Run \cup {NoRun}] /\ RunsDue'
    BY RunEnds DEF Throw
<1>3. jobs' \subseteq Job /\ dead' \subseteq [seq : Nat, date : Nat]
  <2>1. CASE \E j \in jobs : FailJob(j)
    BY <2>1, FailJobType DEF IInv, TypeOK
  <2>2. CASE UNCHANGED <<jobs, dead>>
    BY <2>2 DEF IInv, TypeOK, QueueOK
  <2> QED BY <2>1, <2>2 DEF Throw
<1>4. QueueOK'
    BY <1>2, <1>3 DEF Throw, QueueOK, IInv, TypeOK
<1> QED BY <1>1, <1>2, <1>4 DEF IInv, TypeOK

\* A crash takes the run and leaves the job active.
LEMMA CrashIInv == ASSUME IInv, NEW w \in Workers, Crash(w) PROVE IInv'
<1>1. /\ SeriesOK' /\ MemberOK' /\ HistoryOK'
      /\ CursorAgrees' /\ EditAhead' /\ AnnouncedOnce' /\ SaidBehind'
    BY SeriesKept DEF Crash
<1>2. runs' \in [Workers -> Run \cup {NoRun}] /\ RunsDue'
    BY RunEnds DEF Crash
<1>3. QueueOK'
    BY <1>2 DEF Crash, QueueOK, IInv, TypeOK
<1> QED BY <1>1, <1>2, <1>3 DEF IInv, TypeOK

\* A job outlives its expiry: its run, if any, goes on.
LEMMA ExpireIInv == ASSUME IInv, Expire PROVE IInv'
<1>1. /\ SeriesOK' /\ MemberOK' /\ HistoryOK'
      /\ CursorAgrees' /\ EditAhead' /\ AnnouncedOnce' /\ SaidBehind'
    BY SeriesKept DEF Expire
<1>2. jobs' \subseteq Job /\ dead' \subseteq [seq : Nat, date : Nat]
    BY FailJobType DEF Expire, IInv, TypeOK
<1>3. QueueOK' /\ RunsDue'
    BY <1>2 DEF Expire, QueueOK, RunsDue, RunAt, IInv, TypeOK
<1> QED BY <1>1, <1>3 DEF IInv, TypeOK

\* The reconciler reads the cursor of a due series.
LEMMA ScanDueIInv == ASSUME IInv, ScanDue PROVE IInv'
<1>1. /\ SeriesOK' /\ MemberOK' /\ HistoryOK'
      /\ CursorAgrees' /\ EditAhead' /\ AnnouncedOnce' /\ SaidBehind'
    BY SeriesKept DEF ScanDue
<1>2. page' \in [seq : Nat, date : Nat]
    BY DEF ScanDue, Key, IInv, TypeOK, SeriesOK
<1>3. QueueOK' /\ RunsDue'
    BY <1>2 DEF ScanDue, QueueOK, RunsDue, RunAt, IInv, TypeOK
<1> QED BY <1>1, <1>3 DEF IInv, TypeOK

\* The reconciler sends the job of what it read, however old that is.
LEMMA SendDueIInv == ASSUME IInv, SendDue PROVE IInv'
<1>1. /\ SeriesOK' /\ MemberOK' /\ HistoryOK'
      /\ CursorAgrees' /\ EditAhead' /\ AnnouncedOnce' /\ SaidBehind'
    BY SeriesKept DEF SendDue
<1>2. page \in [seq : Nat, date : Nat]
    BY DEF SendDue, IInv, TypeOK, QueueOK
<1>3. page.seq \in Nat /\ page.date \in Nat /\ page = Key(page.seq, page.date)
    BY <1>2 DEF Key
<1>4. jobs' \in SUBSET Job
  <2>1. jobs \in SUBSET Job
    BY DEF IInv, TypeOK, QueueOK
  <2>2. Send(jobs, page) \in SUBSET Job
    BY <1>3, <2>1, SendType
  <2> QED BY <2>1, <2>2 DEF SendDue
<1>5. QueueOK' /\ RunsDue'
    BY <1>4 DEF SendDue, QueueOK, RunsDue, RunAt, IInv, TypeOK
<1> QED BY <1>1, <1>5 DEF IInv, TypeOK

\* The cursor moves to the first future ordinal and keeps agreeing with it.
LEMMA ResumeIInv == ASSUME IInv, Resume PROVE IInv'
<1> USE DEF IInv, TypeOK
<1>1. PICK o \in nextOrd..(nextOrd + clock + 1) :
        \/ /\ status' = "COMPLETED"
           /\ UNCHANGED <<nextDate, nextOrd, jobs>>
        \/ /\ status' = "ACTIVE"
           /\ nextDate' = OccDate(anchor, interval, o) /\ nextOrd' = o
           /\ jobs' = Send(jobs, Key(created + 1, OccDate(anchor, interval, o)))
    BY DEF Resume
<1>2. o \in Nat \ {0}
    BY DEF SeriesOK
<1>3. OccDate(anchor, interval, o) \in Nat
    BY <1>2, OccDateType DEF SeriesOK
<1>4. jobs' \in SUBSET Job
  <2>1. created + 1 \in Nat /\ jobs \in SUBSET Job
    BY DEF SeriesOK, QueueOK
  <2> QED BY <1>1, <1>3, <2>1, SendType
<1>5. SeriesOK'
    BY <1>1, <1>2, <1>3 DEF Resume, SeriesOK
<1>6. QueueOK' /\ MemberOK'
    BY <1>4 DEF Resume, QueueOK, MemberOK, userVars
<1>7. HistoryOK'
    BY <1>1, <1>3 DEF Resume, HistoryOK, histVars
<1>8. CursorAgrees'
    BY <1>1 DEF Resume, CursorAgrees, OccDate
<1>9. RunsDue' /\ EditAhead'
    BY DEF Resume, RunsDue, EditAhead, RunAt, userVars
<1>10. AnnouncedOnce' /\ SaidBehind'
    BY DEF Resume, AnnouncedOnce, SaidBehind, Held, histVars
<1> QED BY <1>5, <1>6, <1>7, <1>8, <1>9, <1>10

\* A worker that finds the group archived pauses the series.
LEMMA PauseArchivedIInv == ASSUME IInv, NEW w \in Workers, PauseArchived(w) PROVE IInv'
<1> USE DEF IInv, TypeOK
<1>1. SeriesOK' /\ CursorAgrees'
    BY DEF PauseArchived, SeriesOK, CursorAgrees, schedVars, OccDate
<1>2. runs' \in [Workers -> Run \cup {NoRun}] /\ RunsDue'
    BY RunEnds DEF PauseArchived
<1>3. QueueOK' /\ MemberOK' /\ HistoryOK' /\ EditAhead'
    BY <1>2 DEF PauseArchived, QueueOK, MemberOK, HistoryOK, EditAhead, userVars, histVars
<1>4. AnnouncedOnce' /\ SaidBehind'
    BY DEF PauseArchived, AnnouncedOnce, SaidBehind, Held, schedVars, histVars,
           SeriesOK, HistoryOK
<1> QED BY <1>1, <1>2, <1>3, <1>4

------------------------------------------------------------------------------
(* Writing an occurrence *)

\* The facts of a write that the invariant and the write order rest on.
LEMMA Written ==
    ASSUME IInv, NEW w \in Workers, Materialize(w)
    PROVE  /\ runs[w] \in Run
           /\ runs[w].seq = created + 1 /\ runs[w].date = nextDate
           /\ RunAt(runs[w].date) <= clock
           /\ status = "ACTIVE" /\ ~archived
           /\ \A x \in rows : x.seq # runs[w].seq
           /\ OccDate(anchor, interval, nextOrd + 1) \in Nat
<1> USE DEF IInv, TypeOK
<1>1. runs[w] # NoRun /\ Confirmed(runs[w]) /\ ~archived
    BY DEF Materialize
<1>2. runs[w] \in Run
    BY <1>1 DEF QueueOK
<1>3. /\ status = "ACTIVE" /\ created + 1 = runs[w].seq /\ nextDate = runs[w].date
      /\ \A x \in rows : x.seq # runs[w].seq
    BY <1>1 DEF Confirmed, AtCursor
<1>4. RunAt(runs[w].date) <= clock
    BY <1>1 DEF RunsDue
<1>5. nextOrd + 1 \in Nat \ {0} /\ anchor \in Nat /\ interval \in Nat \ {0}
    BY DEF SeriesOK
<1>6. OccDate(anchor, interval, nextOrd + 1) \in Nat
    BY <1>5, OccDateType
<1> QED BY <1>1, <1>2, <1>3, <1>4, <1>6

\* A new range is one occurrence or the batch that ends with it.
LEMMA AnnouncesRange ==
    ASSUME NEW seq \in Nat \ {0}, NEW open, NEW closes,
           NEW count \in Nat \ {0}, count <= seq,
           NEW a \in Announces(seq, open, closes, count)
    PROVE  /\ a \in Nat \X Nat
           /\ a[1] = (IF open THEN seq - count + 1 ELSE seq)
           /\ a[2] = seq
           /\ open => closes
           /\ \A b \in Announces(seq, open, closes, count) : b = a
    BY DEF Announces

\* The catch-up batch of a write: it grows by one, and is kept or closed.
LEMMA WrittenBatch ==
    ASSUME IInv, NEW w \in Workers, Materialize(w)
    PROVE  \E open \in BOOLEAN, closes \in BOOLEAN, through \in Nat :
             /\ ~open => batch = NoBatch
             /\ open /\ closes => batch # NoBatch
             /\ said' = said \cup Announces(runs[w].seq, open, closes, Held + 1)
             /\ batch' = IF open /\ ~closes
                         THEN [count |-> Held + 1, through |-> through] ELSE NoBatch
<1> DEFINE r == runs[w]
           after == OccDate(anchor, interval, nextOrd + 1)
           last == Last(end, r.seq, r.date, after)
           cutoff == IF batch # NoBatch THEN batch.through ELSE Today
           starts == batch = NoBatch /\ r.date <= cutoff /\ after <= cutoff /\ ~last
           open == batch # NoBatch \/ starts
           count == IF batch # NoBatch THEN batch.count + 1 ELSE 1
           closes == last \/ after > cutoff
<1>1. /\ batch' = IF open /\ ~closes THEN [count |-> count, through |-> cutoff] ELSE NoBatch
      /\ said' = said \cup Announces(r.seq, open, closes, count)
    BY DEF Materialize
<1>2. count = Held + 1
    BY DEF Held, IInv, TypeOK, SeriesOK
<1>3. cutoff \in Nat
    BY TodayType DEF IInv, TypeOK, SeriesOK
<1>4. open \in BOOLEAN /\ closes \in BOOLEAN
    BY DEF Last, EndReached
<1>5. ~open => batch = NoBatch
    OBVIOUS
<1>6. open /\ closes => batch # NoBatch
  <2>1. after \in Nat
    BY Written
  <2> HIDE DEF cutoff, after, last
  <2> QED BY <1>3, <2>1
<1> HIDE DEF cutoff, open, closes, count, r
<1> QED BY <1>1, <1>2, <1>3, <1>4, <1>5, <1>6 DEF r

\* A write announces numbers above everything announced before.
LEMMA WrittenAnnounced ==
    ASSUME IInv, NEW w \in Workers, Materialize(w)
    PROVE  said' \subseteq Nat \X Nat /\ AnnouncedOnce' /\ SaidBehind'
<1> USE DEF IInv, TypeOK
<1>1. PICK open \in BOOLEAN, closes \in BOOLEAN, through \in Nat :
        /\ ~open => batch = NoBatch
        /\ said' = said \cup Announces(runs[w].seq, open, closes, Held + 1)
        /\ batch' = IF open /\ ~closes
                    THEN [count |-> Held + 1, through |-> through] ELSE NoBatch
    BY WrittenBatch
<1> DEFINE new == Announces(created + 1, open, closes, Held + 1)
<1>2. created \in Nat \ {0} /\ Held \in Nat /\ Held <= created
    BY DEF SeriesOK, SaidBehind, Held
<1>3. /\ said' = said \cup new
      /\ created' = created + 1
    BY <1>1, Written DEF Materialize
<1>4. ASSUME NEW a \in new
      PROVE  /\ a \in Nat \X Nat
             /\ a[1] = (IF open THEN created - Held + 1 ELSE created + 1)
             /\ a[2] = created + 1
             /\ open => closes
             /\ \A b \in new : b = a
  <2>1. created + 1 \in Nat \ {0} /\ Held + 1 \in Nat \ {0} /\ Held + 1 <= created + 1
    BY <1>2
  <2>2. a[1] = (IF open THEN (created + 1) - (Held + 1) + 1 ELSE created + 1)
    BY <2>1, AnnouncesRange
  <2>3. (created + 1) - (Held + 1) + 1 = created - Held + 1
    BY <1>2
  <2> QED BY <2>1, <2>2, <2>3, AnnouncesRange
<1> HIDE DEF new
<1>5. \A a \in said : a \in Nat \X Nat /\ a[1] \in Nat /\ a[2] \in Nat
    BY DEF HistoryOK
<1>6. ~open => Held = 0
    BY <1>1 DEF Held
<1>7. \A a \in said, b \in new : a[2] < b[1]
    BY <1>2, <1>4, <1>5, <1>6 DEF SaidBehind
<1>8. AnnouncedOnce'
  <2>1. \A a, b \in said' : a # b => a[2] < b[1] \/ b[2] < a[1]
    BY <1>3, <1>4, <1>7 DEF AnnouncedOnce
  <2>2. \A a \in said' : 1 <= a[1] /\ a[1] <= a[2] /\ a[2] <= created'
    BY <1>2, <1>3, <1>4, <1>5 DEF AnnouncedOnce
  <2> QED BY <2>1, <2>2 DEF AnnouncedOnce
<1>9. Held' \in Nat /\ Held' <= created' /\ (Held' # 0 => new = {} /\ Held' = Held + 1)
  <2>1. CASE batch' = NoBatch
    BY <2>1, <1>2, <1>3 DEF Held
  <2>2. CASE batch' # NoBatch
    BY <2>2, <1>1, <1>2, <1>3, <1>4 DEF Held
  <2> QED BY <2>1, <2>2
<1>10. SaidBehind'
  <2>1. CASE Held' = 0
    BY <2>1, <1>2, <1>3, <1>4, <1>5 DEF SaidBehind, AnnouncedOnce
  <2>2. CASE Held' # 0
    BY <2>2, <1>2, <1>3, <1>5, <1>9 DEF SaidBehind
  <2> QED BY <2>1, <2>2
<1>11. said' \subseteq Nat \X Nat
    BY <1>3, <1>4, <1>5
<1> QED BY <1>8, <1>10, <1>11

\* A write keeps the invariant.
LEMMA MaterializeIInv == ASSUME IInv, NEW w \in Workers, Materialize(w) PROVE IInv'
<1> USE DEF IInv, TypeOK
<1> DEFINE r == runs[w]
           after == OccDate(anchor, interval, nextOrd + 1)
<1>1. /\ r \in Run /\ r.seq = created + 1
      /\ after \in Nat
      /\ \A x \in rows : x.seq # r.seq
    BY Written
<1>2. /\ r.seq \in Nat /\ r.date \in Nat /\ r.tpl \in Nat
    BY <1>1 DEF Run
<1>3. /\ rows' = rows \cup {[seq |-> r.seq, date |-> r.date, tpl |-> r.tpl]}
      /\ created' = r.seq /\ nextOrd' = nextOrd + 1 /\ nextDate' = after
      /\ version' = version + 1
      /\ status' \in {"ACTIVE", "COMPLETED"}
      /\ UNCHANGED <<clock, anchor, interval, end, tpl, dead, page, userVars,
                     tplFrom, endFrom>>
      /\ jobs' = jobs \/ jobs' = Send(jobs, Key(r.seq + 1, after))
      /\ r # NoRun /\ Finish(w)
    BY DEF Materialize
<1> HIDE DEF r, after
<1>4. jobs' \in SUBSET Job
  <2>1. r.seq + 1 \in Nat /\ jobs \in SUBSET Job
    BY <1>2 DEF QueueOK
  <2> QED BY <1>1, <1>3, <2>1, SendType
<1>5. batch' \in [count : Nat, through : Nat] \cup {NoBatch}
  <2>1. Held + 1 \in Nat
    BY DEF Held, SeriesOK
  <2> QED BY <2>1, WrittenBatch
<1>6. SeriesOK'
  <2>1. rows' \subseteq Row
    BY <1>2, <1>3 DEF SeriesOK, Row
  <2> QED BY <1>1, <1>2, <1>3, <1>5, <2>1 DEF SeriesOK
<1>7. runs' \in [Workers -> Run \cup {NoRun}] /\ RunsDue'
    BY <1>3, RunEnds DEF r
<1>8. QueueOK' /\ MemberOK' /\ EditAhead'
    BY <1>3, <1>4, <1>7 DEF QueueOK, MemberOK, EditAhead, userVars
<1>9. HistoryOK' /\ AnnouncedOnce' /\ SaidBehind'
    BY <1>3, WrittenAnnounced DEF HistoryOK
<1>10. CursorAgrees'
  <2>1. \A x, y \in rows' : x.seq = y.seq => x = y
    BY <1>1, <1>3 DEF CursorAgrees
  <2>2. \A x \in rows' : x.seq \in 1..created'
    BY <1>1, <1>2, <1>3 DEF CursorAgrees, SeriesOK
  <2>3. nextDate' = OccDate(anchor', interval', nextOrd')
    BY <1>3 DEF after, OccDate
  <2> QED BY <2>1, <2>2, <2>3 DEF CursorAgrees
<1> QED BY <1>6, <1>7, <1>8, <1>9, <1>10

------------------------------------------------------------------------------
(* What members do *)

\* Steps that leave the schedule alone and only take rows away.
LEMMA Trimmed ==
    ASSUME IInv, rows' \subseteq rows,
           UNCHANGED <<clock, schedVars, tpl, queueVars, histVars>>,
           status' \in {"ACTIVE", "PAUSED", "COMPLETED", "CANCELLED"},
           version' \in {version, version + 1},
           batch' \in {batch, NoBatch}
    PROVE  /\ SeriesOK' /\ QueueOK' /\ HistoryOK'
           /\ CursorAgrees' /\ RunsDue' /\ AnnouncedOnce' /\ SaidBehind'
<1> USE DEF IInv, TypeOK
<1>1. SeriesOK' /\ QueueOK' /\ HistoryOK'
    BY DEF SeriesOK, QueueOK, HistoryOK, schedVars, queueVars, histVars
<1>2. CursorAgrees' /\ RunsDue'
    BY DEF CursorAgrees, RunsDue, RunAt, OccDate, schedVars, queueVars
<1>3. AnnouncedOnce' /\ SaidBehind'
    BY DEF AnnouncedOnce, SaidBehind, Held, schedVars, histVars, SeriesOK, HistoryOK
<1> QED BY <1>1, <1>2, <1>3

\* Archiving, unarchiving, stopping, deleting, detaching and giving up an edit.
LEMMA TrimsIInv ==
    ASSUME IInv, Archive \/ Unarchive \/ Stop \/ DeleteOne \/ DeleteFuture
                 \/ EditConflict \/ EditDetach
    PROVE  IInv'
<1> USE DEF IInv, TypeOK
<1>1. /\ rows' \subseteq rows
      /\ UNCHANGED <<clock, schedVars, tpl, queueVars, histVars>>
      /\ status' \in {"ACTIVE", "PAUSED", "COMPLETED", "CANCELLED"}
      /\ version' \in {version, version + 1}
      /\ batch' \in {batch, NoBatch}
      /\ archived' \in BOOLEAN /\ ops' = ops + 1
      /\ editing' = editing \/ editing' = NoEdit
  <2>1. CASE Archive
    BY <2>1 DEF Archive, Mutate, SeriesOK, MemberOK, queueVars, histVars
  <2>2. CASE Unarchive
    BY <2>2 DEF Unarchive, Mutate, SeriesOK, MemberOK, seriesVars
  <2>3. CASE Stop
    BY <2>3 DEF Stop, Mutate, SeriesOK, MemberOK
  <2>4. CASE DeleteOne
    BY <2>4 DEF DeleteOne, Mutate, SeriesOK, MemberOK, seriesVars
  <2>5. CASE DeleteFuture
    BY <2>5 DEF DeleteFuture, Mutate, SeriesOK, MemberOK
  <2>6. CASE EditConflict
    BY <2>6 DEF EditConflict, Mutate, SeriesOK, MemberOK, seriesVars
  <2>7. CASE EditDetach
    BY <2>7 DEF EditDetach, Mutate, SeriesOK, MemberOK
  <2> QED BY <2>1, <2>2, <2>3, <2>4, <2>5, <2>6, <2>7
<1>2. /\ SeriesOK' /\ QueueOK' /\ HistoryOK'
      /\ CursorAgrees' /\ RunsDue' /\ AnnouncedOnce' /\ SaidBehind'
    BY <1>1, Trimmed
<1>3. MemberOK' /\ EditAhead'
    BY <1>1 DEF MemberOK, EditAhead
<1> QED BY <1>2, <1>3

\* An editor's snapshot is taken.
LEMMA EditReadIInv == ASSUME IInv, EditRead PROVE IInv'
<1> USE DEF IInv, TypeOK
<1>1. PICK x \in rows :
        editing' = [seq |-> x.seq, version |-> version,
                    future |-> {y.seq : y \in {z \in rows : z.seq > x.seq}}]
    BY DEF EditRead
<1>2. /\ rows' \subseteq rows
      /\ UNCHANGED <<clock, schedVars, tpl, queueVars, histVars,
                     status, version, batch, archived, ops>>
    BY DEF EditRead, seriesVars
<1>3. /\ SeriesOK' /\ QueueOK' /\ HistoryOK'
      /\ CursorAgrees' /\ RunsDue' /\ AnnouncedOnce' /\ SaidBehind'
    BY <1>2, Trimmed DEF SeriesOK
<1> DEFINE future == {y.seq : y \in {z \in rows : z.seq > x.seq}}
<1>4. future \in SUBSET Nat /\ \A n \in future : n > x.seq
    BY DEF SeriesOK, Row
<1>5. x.seq \in Nat /\ version \in Nat
    BY DEF SeriesOK, Row
<1> HIDE DEF future
<1>6. MemberOK' /\ EditAhead'
    BY <1>1, <1>2, <1>4, <1>5 DEF MemberOK, EditAhead, future
<1> QED BY <1>3, <1>6

\* An edit's rows: typed, one for a number, and numbers that were there before.
LEMMA Reflowed ==
    ASSUME IInv, editing # NoEdit, NEW a \in Nat, NEW i \in Nat \ {0},
           NEW dropped, dropped \subseteq editing.future,
           NEW changed \in BOOLEAN, NEW live \in BOOLEAN,
           rows' = Reflow(a, i, dropped, changed, live)
    PROVE  /\ rows' \subseteq Row
           /\ \A y \in rows' : \E x \in rows : x.seq = y.seq
           /\ \A x, y \in rows' : x.seq = y.seq => x = y
<1> USE DEF IInv, TypeOK
<1> DEFINE hit == {editing.seq} \cup (editing.future \ dropped)
           R(x) == Rewritten(x, a, i, changed /\ live /\ x.seq # editing.seq)
<1>1. /\ editing.seq \in Nat /\ editing.future \subseteq Nat
      /\ \A n \in editing.future : n > editing.seq
    BY DEF MemberOK, EditAhead
<1>2. \A y \in rows' : \/ \E x \in rows : x.seq \in hit /\ y = R(x)
                       \/ y \in rows /\ y.seq \notin hit
    BY <1>1 DEF Reflow
<1>3. ASSUME NEW x \in rows, x.seq \in hit
      PROVE  R(x) \in Row /\ R(x).seq = x.seq
  <2>1. x.seq \in Nat /\ x.date \in Nat /\ tpl + 1 \in Nat
    BY DEF SeriesOK, Row
  <2>2. CASE x.seq = editing.seq
    BY <2>1, <2>2 DEF Rewritten, Row
  <2>3. CASE x.seq # editing.seq
    <3>1. x.seq - editing.seq + 1 \in Nat \ {0}
      BY <1>1, <1>3, <2>1, <2>3
    <3>2. OccDate(a, i, x.seq - editing.seq + 1) \in Nat
      BY <3>1, OccDateType
    <3> QED BY <2>1, <3>2 DEF Rewritten, Row
  <2> QED BY <2>2, <2>3
<1> HIDE DEF R, hit
<1>4. rows' \subseteq Row
    BY <1>2, <1>3 DEF SeriesOK
<1>5. \A y \in rows' : \E x \in rows : x.seq = y.seq
    BY <1>2, <1>3
<1>6. \A x, y \in rows' : x.seq = y.seq => x = y
    BY <1>2, <1>3 DEF CursorAgrees
<1> QED BY <1>4, <1>5, <1>6

\* What an edit drops is part of its snapshot.
LEMMA DroppedFuture ==
    ASSUME NEW a, NEW i, NEW e, NEW changed
    PROVE  Dropped(a, i, e, changed) \subseteq editing.future
    BY DEF Dropped, Out

\* Editing an ended series rewrites rows and leaves the schedule alone.
LEMMA EditTerminalIInv == ASSUME IInv, EditTerminal PROVE IInv'
<1> USE DEF IInv, TypeOK
<1>1. PICK i \in Intervals, e \in Ends, x \in rows :
        /\ editing # NoEdit
        /\ rows' = Reflow(x.date, i,
                          Dropped(x.date, i, e, i # interval \/ e # end),
                          i # interval \/ e # end, FALSE)
    BY DEF EditTerminal
<1>2. x.date \in Nat /\ i \in Nat \ {0}
    BY Choices DEF SeriesOK, Row
<1>3. /\ rows' \subseteq Row
      /\ \A y \in rows' : \E z \in rows : z.seq = y.seq
      /\ \A y, z \in rows' : y.seq = z.seq => y = z
    BY <1>1, <1>2, DroppedFuture, Reflowed
<1>4. /\ UNCHANGED <<clock, status, schedVars, queueVars, archived, histVars>>
      /\ tpl' = tpl + 1 /\ version' = version + 1 /\ batch' = NoBatch
      /\ ops' = ops + 1 /\ editing' = NoEdit
    BY DEF EditTerminal, Mutate
<1>5. SeriesOK' /\ QueueOK' /\ MemberOK' /\ HistoryOK'
    BY <1>3, <1>4 DEF SeriesOK, QueueOK, MemberOK, HistoryOK,
                      schedVars, queueVars, histVars
<1>6. CursorAgrees'
    BY <1>3, <1>4 DEF CursorAgrees, OccDate, schedVars
<1>7. RunsDue' /\ EditAhead'
    BY <1>4 DEF RunsDue, RunAt, EditAhead, queueVars
<1>8. AnnouncedOnce' /\ SaidBehind'
    BY <1>4 DEF AnnouncedOnce, SaidBehind, Held, schedVars, histVars, SeriesOK, HistoryOK
<1> QED BY <1>5, <1>6, <1>7, <1>8

\* The cursor of a re-anchored series: the high-water number does not move,
\* and the next ordinal counts from the edited row.
LEMMA Reanchored ==
    ASSUME IInv, NEW x \in rows, x.seq = editing.seq
    PROVE  /\ (IF editing.seq > created THEN editing.seq ELSE created) = created
           /\ created - editing.seq + 2 \in Nat \ {0}
           /\ editing.seq \in Nat /\ x.date \in Nat
<1>1. x.seq \in 1..created /\ x.seq \in Nat /\ x.date \in Nat /\ created \in Nat
    BY DEF IInv, TypeOK, SeriesOK, CursorAgrees, Row
<1> QED BY <1>1

\* Editing a live series re-anchors it and keeps the invariant.
LEMMA EditLiveIInv == ASSUME IInv, EditLive PROVE IInv'
<1> USE DEF IInv, TypeOK
<1>0. PICK x \in rows, i \in Intervals, e \in Ends : Reanchor(x, i, e)
    BY DEF EditLive
<1>1. /\ editing # NoEdit /\ x.seq = editing.seq
      /\ rows' = Reflow(x.date, i,
                        Dropped(x.date, i, e, i # interval \/ e # end),
                        i # interval \/ e # end, TRUE)
      /\ status' \in {"ACTIVE", "COMPLETED"}
      /\ batch' \in {[count |-> 0, through |-> Today], NoBatch}
      /\ tpl' = tpl + 1 /\ version' = version + 1
      /\ tplFrom' = editing.seq /\ endFrom' \in {editing.seq, endFrom}
      /\ UNCHANGED <<clock, dead, runs, page, archived, said>>
      /\ ops' = ops + 1 /\ editing' = NoEdit
    BY <1>0 DEF Reanchor, Mutate
<1> DEFINE d == OccDate(x.date, i, created - editing.seq + 2)
<1>2. /\ i \in Nat \ {0} /\ e \in End /\ x.date \in Nat /\ editing.seq \in Nat
      /\ (IF editing.seq > created THEN editing.seq ELSE created) = created
      /\ created - editing.seq + 2 \in Nat \ {0}
    BY <1>1, Choices, Reanchored
<1>3. /\ anchor' = x.date /\ interval' = i /\ end' = e
      /\ created' = created /\ nextOrd' = created - editing.seq + 2 /\ nextDate' = d
      /\ jobs' = jobs \/ jobs' = Send(jobs, Key(created + 1, d))
    BY <1>0, <1>2 DEF Reanchor
<1>4. d \in Nat
    BY <1>2, OccDateType
<1>5. /\ rows' \subseteq Row
      /\ \A y \in rows' : \E z \in rows : z.seq = y.seq
      /\ \A y, z \in rows' : y.seq = z.seq => y = z
    BY <1>1, <1>2, DroppedFuture, Reflowed
<1>6. jobs' \in SUBSET Job
  <2>1. jobs \in SUBSET Job /\ created + 1 \in Nat
    BY DEF QueueOK, SeriesOK
  <2> QED BY <1>3, <1>4, <2>1, SendType
<1>7. CursorAgrees'
  <2>1. nextDate' = OccDate(anchor', interval', nextOrd')
    BY <1>3 DEF OccDate
  <2>2. (nextDate = OccDate(anchor, interval, nextOrd))'
    BY <2>1 DEF OccDate
  <2> QED BY <1>3, <1>5, <2>2 DEF CursorAgrees
<1> HIDE DEF d
<1>8. SeriesOK'
  <2>1. Today \in Nat
    BY TodayType DEF SeriesOK
  <2>2. batch' \in [count : Nat, through : Nat] \cup {NoBatch}
    BY <1>1, <2>1
  <2>3. /\ clock' \in Nat /\ version' \in Nat /\ tpl' \in Nat
        /\ status' \in {"ACTIVE", "PAUSED", "COMPLETED", "CANCELLED"}
    BY <1>1 DEF SeriesOK
  <2>4. /\ created' \in Nat \ {0} /\ anchor' \in Nat /\ interval' \in Nat \ {0}
        /\ end' \in End /\ nextDate' \in Nat /\ nextOrd' \in Nat \ {0}
    BY <1>2, <1>3, <1>4 DEF SeriesOK
  <2> QED BY <1>5, <2>2, <2>3, <2>4 DEF SeriesOK
<1>9. QueueOK' /\ MemberOK' /\ HistoryOK'
    BY <1>1, <1>2, <1>6 DEF QueueOK, MemberOK, HistoryOK
<1>10. RunsDue' /\ EditAhead'
    BY <1>1 DEF RunsDue, RunAt, EditAhead
<1>11. AnnouncedOnce' /\ SaidBehind'
  <2>1. Held' = 0
    BY <1>1 DEF Held
  <2>2. \A a \in said : a[2] \in Nat /\ a[2] <= created
    BY DEF AnnouncedOnce, HistoryOK
  <2> QED BY <1>1, <1>3, <2>1, <2>2 DEF AnnouncedOnce, SaidBehind, SeriesOK
<1> QED BY <1>7, <1>8, <1>9, <1>10, <1>11

------------------------------------------------------------------------------
(* Theorems *)

\* Every step of the specification keeps the invariant.
LEMMA NextIInv == IInv /\ [Next]_vars => IInv'
<1> SUFFICES ASSUME IInv, [Next]_vars PROVE IInv'
    OBVIOUS
<1>1. CASE Tick
    BY <1>1, TickIInv
<1>2. ASSUME NEW w \in Workers, Worker(w) PROVE IInv'
    BY <1>2, ClaimIInv, SkipIInv, PauseArchivedIInv, MaterializeIInv, AckIInv,
       ThrowIInv, CrashIInv DEF Worker
<1>3. CASE Expire \/ Resume \/ ScanDue \/ SendDue
    BY <1>3, ExpireIInv, ResumeIInv, ScanDueIInv, SendDueIInv
<1>4. CASE Member
    BY <1>4, TrimsIInv, EditReadIInv, EditTerminalIInv, EditLiveIInv DEF Member
<1>5. CASE UNCHANGED vars
  <2>1. UNCHANGED <<clock, seriesVars, rows, queueVars, userVars, histVars>>
    BY <1>5 DEF vars
  <2>2. /\ SeriesOK' /\ MemberOK' /\ HistoryOK'
        /\ CursorAgrees' /\ EditAhead' /\ AnnouncedOnce' /\ SaidBehind'
    BY <2>1, SeriesKept
  <2>3. QueueOK' /\ RunsDue'
    BY <2>1 DEF QueueOK, RunsDue, RunAt, queueVars, IInv, TypeOK
  <2> QED BY <2>2, <2>3 DEF IInv, TypeOK
<1> QED BY <1>1, <1>2, <1>3, <1>4, <1>5 DEF Next

\* The invariant holds in every reachable state.
THEOREM Inductive == Spec => []IInv
    BY InitIInv, NextIInv, PTL DEF Spec

\* The series, its queue, its members and the histories keep their types.
THEOREM Types == Spec => []TypeOK
<1>1. IInv => TypeOK
    BY DEF IInv
<1> QED BY <1>1, Inductive, PTL

\* The ledger and the series cursor agree: one row for a number, no number the
\* cursor has not passed, and a next date that is the next ordinal's.
THEOREM Agreement == Spec => []CursorAgrees
<1>1. IInv => CursorAgrees
    BY DEF IInv
<1> QED BY <1>1, Inductive, PTL

\* No occurrence is announced twice, by a range of its own or by a summary.
THEOREM SaidOnce == Spec => []AnnouncedOnce
<1>1. IInv => AnnouncedOnce
    BY DEF IInv
<1> QED BY <1>1, Inductive, PTL

\* Only a worker's write moves the high-water number or adds a number to the
\* ledger, and nothing reopens an ended series.
LEMMA OnlyWorkersWrite ==
    ASSUME IInv, [Next]_vars, \A w \in Workers : ~Materialize(w)
    PROVE  /\ created' = created
           /\ \A y \in rows' : \E x \in rows : x.seq = y.seq
           /\ Terminal(status) => Terminal(status')
<1> USE DEF IInv, TypeOK
<1>1. CASE UNCHANGED <<seriesVars, rows>>
    BY <1>1 DEF seriesVars, schedVars
<1>2. CASE Tick \/ Expire \/ ScanDue \/ SendDue
    BY <1>1, <1>2 DEF Tick, Expire, ScanDue, SendDue
<1>3. ASSUME NEW w \in Workers, Worker(w)
      PROVE  UNCHANGED <<seriesVars, rows>> \/ PauseArchived(w)
    BY <1>3 DEF Worker, Claim, Skip, Ack, Throw, Crash
<1>4. ASSUME NEW w \in Workers, PauseArchived(w)
      PROVE  UNCHANGED <<created, rows>> /\ ~Terminal(status)
    BY <1>4 DEF PauseArchived, Confirmed, AtCursor, Terminal, schedVars
<1>5. CASE Resume
    BY <1>5 DEF Resume, Terminal
<1>6. CASE Archive \/ Unarchive \/ EditRead \/ EditConflict
    BY <1>6 DEF Archive, Unarchive, EditRead, EditConflict, Terminal, seriesVars, schedVars
<1>7. CASE Stop \/ DeleteOne \/ DeleteFuture \/ EditDetach
    BY <1>7 DEF Stop, DeleteOne, DeleteFuture, EditDetach, Terminal, seriesVars, schedVars
<1>8. CASE EditTerminal
  <2>1. PICK i \in Intervals, e \in Ends, x \in rows :
          /\ editing # NoEdit
          /\ rows' = Reflow(x.date, i,
                            Dropped(x.date, i, e, i # interval \/ e # end),
                            i # interval \/ e # end, FALSE)
    BY <1>8 DEF EditTerminal
  <2>2. x.date \in Nat /\ i \in Nat \ {0}
    BY Choices DEF SeriesOK, Row
  <2>3. \A y \in rows' : \E z \in rows : z.seq = y.seq
    BY <2>1, <2>2, DroppedFuture, Reflowed
  <2> QED BY <1>8, <2>3 DEF EditTerminal, schedVars
<1>9. CASE EditLive
  <2>1. PICK x \in rows, i \in Intervals, e \in Ends : Reanchor(x, i, e)
    BY <1>9 DEF EditLive
  <2>2. /\ editing # NoEdit /\ x.seq = editing.seq /\ ~Terminal(status)
        /\ rows' = Reflow(x.date, i,
                          Dropped(x.date, i, e, i # interval \/ e # end),
                          i # interval \/ e # end, TRUE)
        /\ created' = IF editing.seq > created THEN editing.seq ELSE created
    BY <2>1 DEF Reanchor
  <2>3. x.date \in Nat /\ i \in Nat \ {0}
    BY Choices DEF SeriesOK, Row
  <2>4. \A y \in rows' : \E z \in rows : z.seq = y.seq
    BY <2>2, <2>3, DroppedFuture, Reflowed
  <2> QED BY <2>2, <2>4, Reanchored
<1>10. CASE UNCHANGED vars
    BY <1>1, <1>10 DEF vars
<1>11. CASE \E w \in Workers : Worker(w)
    BY <1>1, <1>3, <1>4, <1>11
<1>12. CASE Member
    BY <1>6, <1>7, <1>8, <1>9, <1>12 DEF Member
<1> QED BY <1>2, <1>5, <1>10, <1>11, <1>12 DEF Next

\* Every row a step adds is the next number, due, of a live series in an
\* unarchived group.
THEOREM InOrder == Spec => WrittenInOrder
<1>1. ASSUME IInv, [Next]_vars, NEW x \in NewRows
      PROVE  /\ x.seq = created + 1 /\ created' = x.seq /\ RunAt(x.date) <= clock
             /\ status = "ACTIVE" /\ ~archived
  <2>1. PICK w \in Workers : Materialize(w)
    BY <1>1, OnlyWorkersWrite DEF NewRows
  <2>2. /\ rows' = rows \cup {[seq |-> runs[w].seq, date |-> runs[w].date, tpl |-> runs[w].tpl]}
        /\ created' = runs[w].seq
    BY <2>1 DEF Materialize
  <2>3. x.seq = runs[w].seq /\ x.date = runs[w].date
    BY <2>2 DEF NewRows
  <2> QED BY <1>1, <2>1, <2>2, <2>3, Written
<1>2. IInv /\ [Next]_vars
      => [\A x \in NewRows :
            /\ x.seq = created + 1 /\ created' = x.seq /\ RunAt(x.date) <= clock
            /\ status = "ACTIVE" /\ ~archived]_vars
    BY <1>1
<1> QED BY <1>2, Inductive, PTL DEF Spec, WrittenInOrder

\* A series begins as a log of one occurrence.
LEMMA LogStarts == Init => Log!LogInit
<1> SUFFICES ASSUME Init PROVE Log!LogInit
    OBVIOUS
<1>1. {x.seq : x \in rows} = {1}
    BY DEF Init
<1>2. Phase \in {"live", "closed"}
    BY DEF Init, Phase
<1> QED BY <1>1, <1>2 DEF Init, Log!LogInit

\* Each step of the series writes to the log, trims it, or leaves it alone.
LEMMA LogSteps == IInv /\ [Next]_vars => [Log!LogNext]_(Log!logVars)
<1> SUFFICES ASSUME IInv, [Next]_vars PROVE Log!LogNext
    OBVIOUS
<1>1. IInv'
    BY NextIInv
<1>2. CASE \E w \in Workers : Materialize(w)
  <2>1. PICK w \in Workers : Materialize(w)
    BY <1>2
  <2>2. /\ rows' = rows \cup {[seq |-> runs[w].seq, date |-> runs[w].date, tpl |-> runs[w].tpl]}
        /\ created' = runs[w].seq /\ status' \in {"ACTIVE", "COMPLETED"}
    BY <2>1 DEF Materialize
  <2>3. created' = created + 1 /\ status = "ACTIVE"
    BY <2>1, <2>2, Written
  <2>4. {x.seq : x \in rows'} = {x.seq : x \in rows} \cup {created'}
    <3> DEFINE n == [seq |-> runs[w].seq, date |-> runs[w].date, tpl |-> runs[w].tpl]
    <3>1. rows' = rows \cup {n} /\ n.seq = created'
      BY <2>2
    <3> HIDE DEF n
    <3>2. \A x \in rows' : x \in rows \/ x.seq = created'
      BY <3>1
    <3>3. rows \subseteq rows' /\ n \in rows'
      BY <3>1
    <3> QED BY <3>1, <3>2, <3>3
  <2>5. Phase = "live" /\ Phase' \in {"live", "closed"}
    BY <2>2, <2>3 DEF Phase
  <2>6. Log!Write
    BY <2>3, <2>4, <2>5 DEF Log!Write
  <2> QED BY <2>6 DEF Log!LogNext
<1>3. CASE \A w \in Workers : ~Materialize(w)
  <2>1. /\ created' = created
        /\ \A y \in rows' : \E x \in rows : x.seq = y.seq
        /\ Terminal(status) => Terminal(status')
    BY <1>3, OnlyWorkersWrite
  <2>2. {x.seq : x \in rows'} \subseteq {x.seq : x \in rows}
    BY <2>1
  <2>3. /\ Phase' \in {"live", "paused", "closed"}
        /\ Phase = "closed" => Phase' = "closed"
    BY <1>1, <2>1 DEF Phase, Terminal, IInv, TypeOK, SeriesOK
  <2>4. Log!Trim
    BY <2>1, <2>2, <2>3 DEF Log!Trim
  <2> QED BY <2>4 DEF Log!LogNext
<1> QED BY <1>2, <1>3

\* The series with its queue, workers and members implements OccurrenceLog.
THEOREM Refinement == Spec => ImplementsLog
    BY LogStarts, LogSteps, Inductive, PTL DEF Spec, ImplementsLog, Log!LogSpec
------------------------------------------------------------------------------
(* What an edit THIS_AND_FUTURE reaches *)

\* A run of the current version holds the current template.
RunsCurrent == \A w \in Workers : runs[w] # NoRun =>
    /\ runs[w].version <= version
    /\ runs[w].version = version => runs[w].tpl = tpl

\* An editor's snapshot of the current version lacks no later row.
SnapshotCurrent == editing # NoEdit =>
    /\ editing.version <= version
    /\ editing.version = version =>
         \A x \in rows : x.seq > editing.seq => x.seq \in editing.future

EInv == RunsCurrent /\ SnapshotCurrent /\ EditReachesAll /\ EndRespected

\* A step that leaves the version alone, but for rows that go.
Quiet == /\ UNCHANGED <<status, version, tpl, end, tplFrom, endFrom>>
         /\ rows' \subseteq rows

\* Steps that take rows away or none, and may move the version.
Loud == /\ version' = version + 1
        /\ UNCHANGED <<runs, tpl, end, tplFrom, endFrom>>
        /\ rows' \subseteq rows
        /\ Terminal(status) => Terminal(status')
        /\ editing' \in {editing, NoEdit}

\* Every step is quiet, bumps the version and writes nothing, or is one of the
\* four that touch rows or runs as well.
LEMMA StepKinds ==
    ASSUME IInv, [Next]_vars
    PROVE  \/ Quiet /\ editing' \in {editing, NoEdit}
           \/ Quiet /\ EditRead
           \/ Loud
           \/ \E w \in Workers : PauseArchived(w) \/ Materialize(w)
           \/ EditTerminal \/ EditLive
<1>1. CASE Tick \/ Expire \/ ScanDue \/ SendDue \/ UNCHANGED vars
    BY <1>1 DEF Quiet, Tick, Expire, ScanDue, SendDue, vars, seriesVars, schedVars,
                userVars, histVars
<1>2. ASSUME NEW w \in Workers, Claim(w) \/ Skip(w) \/ Ack(w) \/ Throw(w) \/ Crash(w)
      PROVE  Quiet /\ editing' = editing
    BY <1>2 DEF Quiet, Claim, Skip, Ack, Throw, Crash, seriesVars, schedVars,
                userVars, histVars
<1>3. CASE Resume
    BY <1>3 DEF Loud, Resume, Terminal, userVars, histVars
<1>4. CASE Archive
    BY <1>4 DEF Quiet, Loud, Archive, Terminal, schedVars, histVars, queueVars
<1>5. CASE Unarchive \/ EditConflict
    BY <1>5 DEF Quiet, Unarchive, EditConflict, seriesVars, schedVars, histVars
<1>6. CASE DeleteOne
    BY <1>6 DEF Quiet, DeleteOne, seriesVars, schedVars, histVars
<1>7. CASE Stop
    BY <1>7 DEF Loud, Stop, Terminal, schedVars, queueVars, histVars
<1>8. CASE DeleteFuture
    BY <1>8 DEF Loud, DeleteFuture, Terminal, schedVars, queueVars, histVars
<1>9. CASE EditDetach
    BY <1>9 DEF Loud, EditDetach, Terminal, schedVars, queueVars, histVars
<1>10. CASE EditRead
    BY <1>10 DEF Quiet, EditRead, seriesVars, schedVars, histVars
<1>11. CASE Member
    BY <1>4, <1>5, <1>6, <1>7, <1>8, <1>9, <1>10, <1>11 DEF Member
<1>12. CASE \E w \in Workers : Worker(w)
    BY <1>2, <1>12 DEF Worker
<1> QED BY <1>1, <1>3, <1>11, <1>12 DEF Next

\* The version moves whenever the template does, and by one.
LEMMA VersionMoves ==
    ASSUME IInv, [Next]_vars
    PROVE  \/ UNCHANGED <<version, tpl>>
           \/ version' = version + 1
<1>1. CASE Quiet \/ Loud
    BY <1>1 DEF Quiet, Loud
<1>2. CASE \E w \in Workers : PauseArchived(w) \/ Materialize(w)
    BY <1>2 DEF PauseArchived, Materialize
<1>3. CASE EditTerminal
    BY <1>3 DEF EditTerminal
<1>4. CASE EditLive
    BY <1>4 DEF EditLive, Reanchor
<1> QED BY <1>1, <1>2, <1>3, <1>4, StepKinds

\* A run keeps what it read, or is new and reads the current version.
LEMMA RunsKeep ==
    ASSUME IInv, [Next]_vars, NEW v \in Workers, runs'[v] # NoRun
    PROVE  \/ /\ runs[v] # NoRun
              /\ runs'[v].version = runs[v].version /\ runs'[v].tpl = runs[v].tpl
           \/ /\ UNCHANGED <<version, tpl>>
              /\ runs'[v].version = version /\ runs'[v].tpl = tpl
<1> USE DEF IInv, TypeOK, QueueOK
<1>1. CASE runs' = runs
    BY <1>1
<1>2. ASSUME NEW w \in Workers, runs[w] # NoRun, Finish(w)
      PROVE  /\ runs[v] # NoRun
             /\ runs'[v].version = runs[v].version /\ runs'[v].tpl = runs[v].tpl
  <2>1. runs[w] \in Run
    BY <1>2
  <2>2. /\ [runs[w] EXCEPT !.done = TRUE].version = runs[w].version
        /\ [runs[w] EXCEPT !.done = TRUE].tpl = runs[w].tpl
    BY <2>1 DEF Run
  <2>3. runs' = [runs EXCEPT ![w] = [runs[w] EXCEPT !.done = TRUE]]
    BY <1>2 DEF Finish
  <2> QED BY <1>2, <2>2, <2>3
<1>3. ASSUME NEW w \in Workers, runs' = [runs EXCEPT ![w] = NoRun]
      PROVE  runs[v] # NoRun /\ runs'[v] = runs[v]
    BY <1>3
<1>4. ASSUME NEW w \in Workers, Claim(w)
      PROVE  \/ runs[v] # NoRun /\ runs'[v] = runs[v]
             \/ /\ UNCHANGED <<version, tpl>>
                /\ runs'[v].version = version /\ runs'[v].tpl = tpl
  <2>1. PICK j \in jobs :
          runs' = [runs EXCEPT ![w] = [seq |-> j.seq, date |-> j.date,
                                       version |-> version, tpl |-> tpl,
                                       done |-> ~AtCursor(KeyOf(j))]]
    BY <1>4 DEF Claim
  <2> DEFINE c == [seq |-> j.seq, date |-> j.date, version |-> version,
                   tpl |-> tpl, done |-> ~AtCursor(KeyOf(j))]
  <2>2. c.version = version /\ c.tpl = tpl
    OBVIOUS
  <2> HIDE DEF c
  <2>3. runs' = [runs EXCEPT ![w] = c]
    BY <2>1 DEF c
  <2>4. UNCHANGED <<version, tpl>>
    BY <1>4 DEF Claim, seriesVars
  <2> QED BY <2>2, <2>3, <2>4
<1>5. ASSUME NEW w \in Workers, Worker(w)
      PROVE  \/ Claim(w)
             \/ runs[w] # NoRun /\ Finish(w)
             \/ runs' = [runs EXCEPT ![w] = NoRun]
    BY <1>5 DEF Worker, Skip, PauseArchived, Materialize, Ack, Throw, Crash
<1>6. CASE Tick \/ Expire \/ Resume \/ ScanDue \/ SendDue \/ UNCHANGED vars
    BY <1>1, <1>6 DEF Tick, Expire, Resume, ScanDue, SendDue, vars, queueVars
<1>7. CASE Member
  <2>1. ASSUME EditLive PROVE runs' = runs
    BY <2>1 DEF EditLive, Reanchor
  <2>2. runs' = runs
    BY <1>7, <2>1 DEF Member, Archive, Unarchive, Stop, DeleteOne, DeleteFuture, EditRead,
       EditConflict, EditDetach, EditTerminal, queueVars
  <2> QED BY <1>1, <2>2
<1>8. CASE \E w \in Workers : Worker(w)
    BY <1>2, <1>3, <1>4, <1>5, <1>8
<1> QED BY <1>6, <1>7, <1>8 DEF Next

LEMMA RunsCurrentKept == IInv /\ RunsCurrent /\ [Next]_vars => RunsCurrent'
<1> SUFFICES ASSUME IInv, RunsCurrent, [Next]_vars,
                    NEW v \in Workers, runs'[v] # NoRun
             PROVE  /\ runs'[v].version <= version'
                    /\ runs'[v].version = version' => runs'[v].tpl = tpl'
    BY DEF RunsCurrent
<1>1. version \in Nat /\ \A w \in Workers : runs[w] # NoRun => runs[w].version \in Nat
    BY DEF IInv, TypeOK, SeriesOK, QueueOK, Run
<1> QED BY <1>1, RunsKeep, VersionMoves DEF RunsCurrent

LEMMA SnapshotCurrentKept == IInv /\ SnapshotCurrent /\ [Next]_vars => SnapshotCurrent'
<1> SUFFICES ASSUME IInv, SnapshotCurrent, [Next]_vars PROVE SnapshotCurrent'
    OBVIOUS
<1>1. version \in Nat /\ (editing # NoEdit => editing.version \in Nat)
    BY DEF IInv, TypeOK, SeriesOK, MemberOK
<1>2. CASE Quiet /\ editing' \in {editing, NoEdit}
    BY <1>2 DEF Quiet, SnapshotCurrent
<1>3. CASE Quiet /\ EditRead
  <2>1. PICK x \in rows :
          editing' = [seq |-> x.seq, version |-> version,
                      future |-> {y.seq : y \in {z \in rows : z.seq > x.seq}}]
    BY <1>3 DEF EditRead
  <2>2. /\ editing'.version = version /\ editing'.seq = x.seq
        /\ editing'.future = {y.seq : y \in {z \in rows : z.seq > x.seq}}
    BY <2>1
  <2>3. version' = version /\ rows' \subseteq rows
    BY <1>3 DEF Quiet
  <2>4. \A y \in rows' : y.seq > editing'.seq => y.seq \in editing'.future
    BY <2>2, <2>3
  <2> QED BY <1>1, <2>2, <2>3, <2>4 DEF SnapshotCurrent
<1>4. CASE version' = version + 1 /\ editing' \in {editing, NoEdit}
    BY <1>1, <1>4 DEF SnapshotCurrent
<1>5. CASE \E w \in Workers : PauseArchived(w) \/ Materialize(w)
    BY <1>4, <1>5 DEF PauseArchived, Materialize, userVars
<1>6. CASE EditTerminal
    BY <1>4, <1>6 DEF EditTerminal
<1>7. CASE EditLive
    BY <1>4, <1>7 DEF EditLive, Reanchor
<1> QED BY <1>2, <1>3, <1>4, <1>5, <1>6, <1>7, StepKinds DEF Loud

\* An edit finds every later row in its snapshot, unless it gives up.
LEMMA SnapshotComplete ==
    ASSUME SnapshotCurrent, editing # NoEdit, ~Stale,
           NEW y \in rows, y.seq > editing.seq
    PROVE  y.seq \in editing.future
    BY DEF SnapshotCurrent, Stale

\* The rows from the edited one on that an edit leaves: rewritten, in their place
\* in the schedule, and not dropped.
LEMMA ReflowedRow ==
    ASSUME IInv, SnapshotCurrent, editing # NoEdit, ~Stale,
           NEW a, NEW i, NEW e, NEW changed \in BOOLEAN,
           NEW y \in Reflow(a, i, Dropped(a, i, e, changed), changed, TRUE),
           y.seq >= editing.seq
    PROVE  /\ y.tpl = tpl + 1
           /\ changed /\ y.seq # editing.seq
              => /\ y.seq \in editing.future \ Out(a, i, e)
                 /\ y.date = OccDate(a, i, y.seq - editing.seq + 1)
<1> DEFINE kept == {editing.seq} \cup (editing.future \ Dropped(a, i, e, changed))
<1>1. ASSUME y \in rows, y.seq \notin {editing.seq} \cup editing.future
      PROVE  FALSE
  <2>1. y.seq \in Nat /\ editing.seq \in Nat
    BY <1>1 DEF IInv, TypeOK, SeriesOK, MemberOK, Row
  <2>2. y.seq > editing.seq
    BY <1>1, <2>1
  <2> QED BY <1>1, <2>2, SnapshotComplete
<1>2. PICK x \in {z \in rows : z.seq \in kept} :
        y = Rewritten(x, a, i, changed /\ TRUE /\ x.seq # editing.seq)
    BY <1>1 DEF Reflow
<1>3. y.seq = x.seq /\ y.tpl = tpl + 1
    BY <1>2 DEF Rewritten
<1>4. ASSUME changed, y.seq # editing.seq
      PROVE  /\ y.seq \in editing.future \ Out(a, i, e)
             /\ y.date = OccDate(a, i, y.seq - editing.seq + 1)
    BY <1>2, <1>3, <1>4 DEF Rewritten, Dropped
<1> QED BY <1>3, <1>4

\* An edit of an ended series moves no row and no number.
LEMMA ReflowedEnded ==
    ASSUME NEW a, NEW i, NEW dropped, NEW changed \in BOOLEAN,
           NEW y \in Reflow(a, i, dropped, changed, FALSE)
    PROVE  \E x \in rows : x.seq = y.seq /\ x.date = y.date
    BY DEF Reflow, Rewritten

LEMMA EditReachesAllKept ==
    IInv /\ EInv /\ [Next]_vars => EditReachesAll'
<1> SUFFICES ASSUME IInv, EInv, [Next]_vars, ~Terminal(status'),
                    NEW y \in rows', y.seq >= tplFrom'
             PROVE  y.tpl = tpl'
    BY DEF EditReachesAll, Terminal
<1>1. CASE Quiet \/ Loud
    BY <1>1 DEF Quiet, Loud, EInv, EditReachesAll
<1>2. ASSUME NEW w \in Workers, PauseArchived(w) PROVE y.tpl = tpl'
    BY <1>2 DEF PauseArchived, Confirmed, AtCursor, Terminal, histVars, EInv, EditReachesAll
<1>3. ASSUME NEW w \in Workers, Materialize(w) PROVE y.tpl = tpl'
  <2>1. /\ rows' = rows \cup {[seq |-> runs[w].seq, date |-> runs[w].date, tpl |-> runs[w].tpl]}
        /\ runs[w] # NoRun /\ version = runs[w].version /\ status = "ACTIVE"
        /\ UNCHANGED <<tpl, tplFrom>>
    BY <1>3 DEF Materialize, Confirmed, AtCursor
  <2>2. runs[w].tpl = tpl
    BY <2>1 DEF EInv, RunsCurrent
  <2> QED BY <2>1, <2>2 DEF EInv, EditReachesAll, Terminal
<1>4. CASE EditTerminal
    BY <1>4 DEF EditTerminal
<1>5. CASE EditLive
  <2>1. PICK x \in rows, i \in Intervals, e \in Ends : Reanchor(x, i, e)
    BY <1>5 DEF EditLive
  <2> DEFINE changed == i # interval \/ e # end
  <2>2. /\ editing # NoEdit /\ ~Stale
        /\ rows' = Reflow(x.date, i, Dropped(x.date, i, e, changed), changed, TRUE)
        /\ tplFrom' = editing.seq /\ tpl' = tpl + 1
    BY <2>1 DEF Reanchor
  <2>3. changed \in BOOLEAN /\ SnapshotCurrent
    BY DEF EInv
  <2> HIDE DEF changed
  <2> QED BY <2>2, <2>3, ReflowedRow
<1> QED BY <1>1, <1>2, <1>3, <1>4, <1>5, StepKinds

\* What an edit of a live series leaves lies inside the end rule it set or kept.
LEMMA EditedEnd ==
    ASSUME IInv, SnapshotCurrent, EndRespected, editing # NoEdit, ~Stale,
           NEW a, NEW i, NEW e, NEW changed \in BOOLEAN, ~changed => e = end,
           NEW y \in Reflow(a, i, Dropped(a, i, e, changed), changed, TRUE),
           y.seq \in Nat, y.seq > (IF changed THEN editing.seq ELSE endFrom)
    PROVE  ~Outside(e, y.seq, y.date)
<1>1. CASE changed
  <2>1. editing.seq \in Nat
    BY DEF IInv, TypeOK, MemberOK
  <2>2. y.seq >= editing.seq /\ y.seq # editing.seq
    BY <1>1, <2>1
  <2>3. /\ y.seq \in editing.future \ Out(a, i, e)
        /\ y.date = OccDate(a, i, y.seq - editing.seq + 1)
    BY <1>1, <2>2, ReflowedRow
  <2> QED BY <2>3 DEF Out
<1>2. CASE ~changed
  <2>1. \E z \in rows : y.seq = z.seq /\ y.date = z.date
    BY <1>2 DEF Reflow, Rewritten
  <2> QED BY <1>2, <2>1 DEF EndRespected
<1> QED BY <1>1, <1>2

LEMMA EndRespectedKept ==
    IInv /\ EInv /\ [Next]_vars => EndRespected'
<1> SUFFICES ASSUME IInv, EInv, [Next]_vars, NEW y \in rows', y.seq > endFrom'
             PROVE  ~Outside(end', y.seq, y.date)
    BY DEF EndRespected, Outside
<1>1. CASE Quiet \/ Loud
    BY <1>1 DEF Quiet, Loud, EInv, EndRespected
<1>2. ASSUME NEW w \in Workers, PauseArchived(w) PROVE ~Outside(end', y.seq, y.date)
    BY <1>2 DEF PauseArchived, schedVars, histVars, EInv, EndRespected
<1>3. ASSUME NEW w \in Workers, Materialize(w) PROVE ~Outside(end', y.seq, y.date)
  <2>1. /\ rows' = rows \cup {[seq |-> runs[w].seq, date |-> runs[w].date, tpl |-> runs[w].tpl]}
        /\ ~Outside(end, runs[w].seq, runs[w].date)
        /\ UNCHANGED <<end, endFrom>>
    BY <1>3 DEF Materialize, Confirmed, AtCursor
  <2> QED BY <2>1 DEF EInv, EndRespected
<1>4. CASE EditTerminal
  <2>1. PICK i \in Intervals, e \in Ends, x \in rows :
          rows' = Reflow(x.date, i,
                         Dropped(x.date, i, e, i # interval \/ e # end),
                         i # interval \/ e # end, FALSE)
    BY <1>4 DEF EditTerminal
  <2>2. PICK z \in rows : z.seq = y.seq /\ z.date = y.date
    BY <2>1, ReflowedEnded
  <2> QED BY <1>4, <2>2 DEF EditTerminal, schedVars, histVars, EInv, EndRespected
<1>5. CASE EditLive
  <2>1. PICK x \in rows, i \in Intervals, e \in Ends : Reanchor(x, i, e)
    BY <1>5 DEF EditLive
  <2> DEFINE changed == i # interval \/ e # end
  <2>2. /\ editing # NoEdit /\ ~Stale
        /\ rows' = Reflow(x.date, i, Dropped(x.date, i, e, changed), changed, TRUE)
    BY <2>1 DEF Reanchor
  <2>0. /\ endFrom' = IF changed THEN editing.seq ELSE endFrom
        /\ end' = e
    BY <2>1 DEF Reanchor
  <2>3. changed \in BOOLEAN /\ (~changed => e = end)
    OBVIOUS
  <2>4. y.seq \in Nat
    BY NextIInv DEF IInv, TypeOK, SeriesOK, Row
  <2> HIDE DEF changed
  <2> QED BY <2>0, <2>2, <2>3, <2>4, EditedEnd DEF EInv
<1> QED BY <1>1, <1>2, <1>3, <1>4, <1>5, StepKinds

\* Edits, workers and the template stay in step in every reachable state.
LEMMA EditsInductive == Spec => []EInv
<1>1. Init => EInv
  <2> SUFFICES ASSUME Init PROVE EInv
    OBVIOUS
  <2>1. RunsCurrent /\ SnapshotCurrent
    BY DEF Init, RunsCurrent, SnapshotCurrent
  <2>2. \A x \in rows : x.seq = 1 /\ x.tpl = tpl /\ tplFrom = 1 /\ endFrom = 1
    BY DEF Init
  <2> QED BY <2>1, <2>2 DEF EInv, EditReachesAll, EndRespected
<1>2. IInv /\ EInv /\ [Next]_vars => EInv'
    BY RunsCurrentKept, SnapshotCurrentKept, EditReachesAllKept, EndRespectedKept DEF EInv
<1> QED BY <1>1, <1>2, Inductive, PTL DEF Spec

\* An edit "this and future" of a live series reaches every row from the edited
\* one on, those included that a worker writes around it.
THEOREM EditsReachAll == Spec => []EditReachesAll
<1>1. EInv => EditReachesAll
    BY DEF EInv
<1> QED BY <1>1, EditsInductive, PTL

\* No row after the last edit of the schedule lies outside its end rule.
THEOREM EndsRespected == Spec => []EndRespected
<1>1. EInv => EndRespected
    BY DEF EInv
<1> QED BY <1>1, EditsInductive, PTL

------------------------------------------------------------------------------
(* What is left unsaid *)

\* Before a member acts the group is not archived, and an open batch holds at
\* least one occurrence back.
Untouched == ops = 0 => /\ ~archived
                        /\ batch # NoBatch => batch.count > 0

UInv == Untouched /\ NothingLeftUnsaid

\* Steps that leave the series' counters and announcements alone.
LEMMA SaidKept ==
    ASSUME UInv, UNCHANGED <<created, batch, said>>, ops' = 0 => ops = 0 /\ archived' = archived
    PROVE  UInv'
    BY DEF UInv, Untouched, NothingLeftUnsaid, Announced

\* A batch that closes with two or more is announced whole.
LEMMA SummaryRange ==
    ASSUME NEW seq, NEW count, count >= 2,
           NEW open \in BOOLEAN, NEW closes \in BOOLEAN, open /\ closes
    PROVE  <<seq - count + 1, seq>> \in Announces(seq, open, closes, count)
    BY DEF Announces

\* A write is announced at once, held back, or announced with all that was held.
LEMMA WriteSaid == ASSUME IInv, UInv, NEW w \in Workers, Materialize(w) PROVE UInv'
<1> SUFFICES ASSUME ops' = 0 PROVE UInv'
    BY DEF UInv, Untouched, NothingLeftUnsaid
<1>1. PICK open \in BOOLEAN, closes \in BOOLEAN, through \in Nat :
        /\ ~open => batch = NoBatch
        /\ open /\ closes => batch # NoBatch
        /\ said' = said \cup Announces(runs[w].seq, open, closes, Held + 1)
        /\ batch' = IF open /\ ~closes
                    THEN [count |-> Held + 1, through |-> through] ELSE NoBatch
    BY WrittenBatch
<1>2. created \in Nat \ {0} /\ Held \in Nat /\ Held <= created /\ ops \in Nat
    BY DEF IInv, TypeOK, SeriesOK, MemberOK, SaidBehind, Held
<1>3. runs[w].seq = created + 1 /\ created' = created + 1 /\ ops = 0 /\ ~archived'
    BY Written DEF Materialize, userVars
<1>4. batch # NoBatch => Held > 0
    BY <1>3 DEF UInv, Untouched, Held
<1>5. \A n \in 1..created : Announced(n) \/ n > created - Held
    BY <1>2, <1>3 DEF UInv, NothingLeftUnsaid, Held
<1>6. said \subseteq said'
    BY <1>1
<1>7. Untouched'
    BY <1>1, <1>2, <1>3 DEF Untouched
<1>8. ASSUME NEW n \in 1..created', ~Announced(n)'
      PROVE  batch' # NoBatch /\ n > created' - batch'.count
  <2>1. ~Announced(n)
    BY <1>6, <1>8 DEF Announced
  <2>2. n \in Nat /\ n <= created + 1 /\ n > created - Held
    BY <1>2, <1>3, <1>5, <2>1
  <2>3. CASE ~open
    <3>1. <<created + 1, created + 1>> \in said'
      BY <1>1, <1>3, <2>3 DEF Announces
    <3>2. n # created + 1
      BY <1>2, <1>8, <3>1 DEF Announced
    <3> QED BY <1>1, <1>2, <2>2, <2>3, <3>2 DEF Held
  <2>4. CASE open /\ closes
    <3>1. Held + 1 >= 2
      BY <1>1, <1>2, <1>4, <2>4
    <3> DEFINE seq == created + 1
               count == Held + 1
    <3>2. <<seq - count + 1, seq>> \in Announces(seq, open, closes, count)
      <4>1. count >= 2
        BY <3>1
      <4> HIDE DEF seq, count
      <4> QED BY <1>1, <2>4, <4>1, SummaryRange
    <3>3. seq - count + 1 = created - Held + 1
      BY <1>2
    <3>4. n \in (created - Held + 1)..(created + 1)
      BY <1>2, <2>2
    <3>5. <<created - Held + 1, created + 1>> \in said'
      BY <1>1, <1>3, <3>2, <3>3
    <3> QED BY <1>8, <3>4, <3>5 DEF Announced
  <2>5. CASE open /\ ~closes
    <3>1. batch' = [count |-> Held + 1, through |-> through]
      BY <1>1, <2>5
    <3>2. [count |-> Held + 1, through |-> through] \in [count : Nat, through : Nat]
      BY <1>2
    <3>3. batch' # NoBatch /\ batch'.count = Held + 1
      BY <3>1, <3>2, NoBatchAssumption
    <3>4. created' - batch'.count = created - Held
      BY <1>2, <1>3, <3>3
    <3> QED BY <2>2, <3>3, <3>4
  <2> QED BY <2>3, <2>4, <2>5
<1> QED BY <1>7, <1>8 DEF UInv, NothingLeftUnsaid

\* Unless a member acts, no step changes what is announced but a write.
LEMMA UInvKept == IInv /\ UInv /\ [Next]_vars => UInv'
<1> SUFFICES ASSUME IInv, UInv, [Next]_vars, ops' = 0 PROVE UInv'
    BY DEF UInv, Untouched, NothingLeftUnsaid
<1>1. ops \in Nat
    BY DEF IInv, TypeOK, MemberOK
<1>2. ASSUME NEW w \in Workers, Worker(w) PROVE UInv'
  <2>1. CASE Claim(w) \/ Skip(w) \/ Ack(w) \/ Throw(w) \/ Crash(w)
    BY <2>1, SaidKept DEF Claim, Skip, Ack, Throw, Crash, seriesVars, schedVars,
                          userVars, histVars
  <2>2. CASE PauseArchived(w)
    BY <2>2 DEF PauseArchived, userVars, UInv, Untouched
  <2> QED BY <1>2, <2>1, <2>2, WriteSaid DEF Worker
<1>3. CASE Tick \/ Expire \/ ScanDue \/ SendDue \/ EditRead \/ UNCHANGED vars
    BY <1>3, SaidKept DEF Tick, Expire, ScanDue, SendDue, EditRead, vars, seriesVars,
                          schedVars, userVars, histVars
<1>4. CASE Resume
    BY <1>4, SaidKept DEF Resume, userVars, histVars
<1>5. ~Mutate
    BY <1>1 DEF Mutate
<1>6. CASE Member
  <2>1. ~Archive /\ ~Unarchive /\ ~Stop /\ ~EditConflict /\ ~EditDetach
    BY <1>5 DEF Archive, Unarchive, Stop, EditConflict, EditDetach
  <2>2. ~DeleteOne /\ ~DeleteFuture /\ ~EditTerminal
    BY <1>5 DEF DeleteOne, DeleteFuture, EditTerminal
  <2>3. ASSUME NEW x \in rows, NEW i \in Intervals, NEW e \in Ends, Reanchor(x, i, e)
        PROVE  Mutate
    BY <2>3 DEF Reanchor
  <2> QED BY <1>3, <1>5, <1>6, <2>1, <2>2, <2>3 DEF Member, EditLive
<1> QED BY <1>2, <1>3, <1>4, <1>6 DEF Next

\* Unless a member acts, every occurrence written is announced, or waits in the
\* open catch-up batch.
THEOREM LeftUnsaid == Spec => []NothingLeftUnsaid
<1>1. Init => UInv
  <2> SUFFICES ASSUME Init PROVE UInv
    OBVIOUS
  <2>1. created = 1 /\ ~archived /\ (batch # NoBatch => batch.count = 1)
    BY DEF Init
  <2>2. batch = NoBatch => <<1, 1>> \in said
    BY DEF Init
  <2> QED BY <2>1, <2>2 DEF UInv, Untouched, NothingLeftUnsaid, Announced
<1>2. UInv => NothingLeftUnsaid
    BY DEF UInv
<1> QED BY <1>1, <1>2, UInvKept, Inductive, PTL DEF Spec
==============================================================================
