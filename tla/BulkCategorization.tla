------------------------- MODULE BulkCategorization -------------------------
(* The bulk categorization of one group (bulk-categorization-run.ts): a run  *)
(* captures the uncategorized expenses, workers suggest categories chunk by  *)
(* chunk, admins calibrate, correct and rerun, and the categories are saved. *)
EXTENDS Naturals, FiniteSets

CONSTANTS Expenses, Admins, Workers, Categories,
          General,         \* DEFAULT_CATEGORY_ID
          Nothing,         \* null: no run, row, job, expense, category seen
          Foreign,         \* a job of another group's run
          ChunkSize, SampleSize,
          MaxRevision,     \* bound of the changes to one run
          MaxDrawn,        \* bound of starts, phases and retries
          MaxEvents        \* bound of changes by others and of faults

ASSUME ConstantsAssumption ==
    /\ IsFiniteSet(Expenses)
    /\ General \in Categories
    /\ ChunkSize \in Nat \ {0} /\ SampleSize \in Nat \ {0}
    /\ MaxRevision \in Nat /\ MaxDrawn \in Nat /\ MaxEvents \in Nat

VARIABLES ledger,     \* version and category of each expense
          run, rows,  \* the group's BulkCategorizationRun and its rows
          job,        \* the queue's one job
          work,       \* by worker: the handler it runs
          call,       \* by admin: the procedure under way
          page,       \* the review as it was last displayed
          drawn,      \* randomId: ids drawn so far
          events      \* against MaxEvents

clients == <<call, page>>
vars == <<ledger, run, rows, job, work, clients, drawn, events>>

-----------------------------------------------------------------------------
Phases == {"calibration", "full", "rerun"}

Queued(phase) ==
    CASE phase = "calibration" -> "QUEUED_CALIBRATION"
      [] phase = "full"        -> "QUEUED"
      [] phase = "rerun"       -> "QUEUED_RERUN"
Running(phase) ==
    CASE phase = "calibration" -> "CALIBRATING"
      [] phase = "full"        -> "PROCESSING"
      [] phase = "rerun"       -> "RERUNNING"
Failed(phase) ==
    CASE phase = "calibration" -> "FAILED_CALIBRATION"
      [] phase = "full"        -> "FAILED_FULL"
      [] phase = "rerun"       -> "FAILED_RERUN"

(* What the run is doing, has queued or has failed at.                       *)
Stage(phase) == {Queued(phase), Running(phase), Failed(phase)}

Statuses == {"CALIBRATION_REVIEW", "REVIEW", "DONE"}
                \cup UNION {Stage(phase) : phase \in Phases}

(* old: it was last updated more than LEASE_MS * 2 ago.                      *)
Run == [id : Nat, status : Statuses, mode : {"local", "system-one"},
        revision : Nat, processed : Nat, total : Nat, attempt : Nat, token : Nat,
        pass : {"first", "second", "complete"}, old : BOOLEAN]

(* initial, the category suggested, is null in a PENDING row, where nothing  *)
(* reads it.                                                                 *)
Row == [stage : {"PENDING", "SAMPLE", "CONFIRMED", "SUGGESTED"},
        version : Nat, category : Categories, initial : Categories,
        feedback : BOOLEAN, target : BOOLEAN, second : BOOLEAN]

Job == [phase : Phases, attempt : Nat, active : BOOLEAN]

Work == [pc : {"idle", "taken", "claimed", "ready", "guessed", "mark", "second",
               "finish", "failing", "ended"},
         phase : Phases, attempt : Nat, token : Nat, owns : BOOLEAN,
         processed : Nat, pass : {"first", "second", "complete"},
         guesses : [Expenses -> Categories \cup {Nothing}]]
NoGuesses == [e \in Expenses |-> Nothing]
Idle == [pc |-> "idle", phase |-> "full", attempt |-> 0, token |-> 0, owns |-> FALSE,
         processed |-> 0, pass |-> "first", guesses |-> NoGuesses]

Call == [op : {"none", "start", "enqueue", "save", "retry"},
         id : Nat, revision : Nat, phase : Phases, attempt : Nat,
         captured : [Expenses -> Nat \cup {Nothing}], skips : SUBSET Expenses]
NoCall == [op |-> "none", id |-> 0, revision |-> 0, phase |-> "full", attempt |-> 0,
           captured |-> NoGuesses, skips |-> {}]

Page == [id : Nat, revision : Nat, seen : [Expenses -> Categories \cup {Nothing}]]
NoPage == [id |-> 0, revision |-> 0, seen |-> NoGuesses]

ASSUME NullAssumption ==
    /\ Nothing \notin Run \cup Row \cup Categories \cup Job \cup Nat
    /\ Nothing \notin [version : Nat, category : Categories]
    /\ Foreign \notin Job \cup {Nothing}

TypeOK ==
    /\ ledger \in [Expenses -> [version : Nat, category : Categories] \cup {Nothing}]
    /\ run \in Run \cup {Nothing}
    /\ rows \in [Expenses -> Row \cup {Nothing}]
    /\ job \in Job \cup {Foreign, Nothing}
    /\ work \in [Workers -> Work]
    /\ call \in [Admins -> Call]
    /\ page \in Page
    /\ drawn \in Nat
    /\ events \in 0 .. MaxEvents

Init ==
    /\ ledger = [e \in Expenses |-> [version |-> 1, category |-> General]]
    /\ run = Nothing /\ rows = [e \in Expenses |-> Nothing]
    /\ job = Nothing
    /\ work = [w \in Workers |-> Idle]
    /\ call = [a \in Admins |-> NoCall] /\ page = NoPage
    /\ drawn = 0 /\ events = 0

Event == events < MaxEvents /\ events' = events + 1

-----------------------------------------------------------------------------
(* Rows.  A correction differs from what was suggested.                      *)
Rows == {e \in Expenses : rows[e] # Nothing}
At(stage) == {e \in Rows : rows[e].stage = stage}
Targets == {e \in Rows : rows[e].target}
SecondTargets == {e \in Rows : rows[e].second}
Selected == {e \in Rows : rows[e].category # General}

Manual(row) == row.category # row.initial

(* getRerunCandidates, getAutomaticSystemOneTargets: how sure a suggestion   *)
(* is, is left open; no suggestion, and not corrected, is always a target.   *)
Uncertain(suggested) ==
    {chosen \in SUBSET suggested :
        \A e \in suggested : rows[e].category = General => e \in chosen}

RerunEligible == {e \in At("SUGGESTED") : ~Manual(rows[e])}

Busy == run # Nothing /\ \E phase \in Phases : run.status \in {Queued(phase), Running(phase)}

(* Mutant: an expense edited, but left without a category, is no conflict.   *)
ConflictByCategory(e) == ledger[e] = Nothing \/ ledger[e].category # General
(* An expense was edited, categorized or deleted since it was captured.      *)
Conflict(e) == ledger[e] # [version |-> rows[e].version, category |-> General]

-----------------------------------------------------------------------------
(* Other members edit and delete expenses meanwhile.                        *)
OthersOnly == Event /\ UNCHANGED <<run, rows, work, clients, drawn>>

EditExpense(e) ==
    /\ OthersOnly /\ ledger[e] # Nothing /\ UNCHANGED job
    /\ \E c \in Categories :
          ledger' = [ledger EXCEPT ![e] = [version |-> @.version + 1, category |-> c]]

DeleteExpense(e) ==
    /\ OthersOnly /\ ledger[e] # Nothing /\ UNCHANGED job
    /\ ledger' = [ledger EXCEPT ![e] = Nothing]

-----------------------------------------------------------------------------
(* The procedures of the admins.  What a procedure reads before it writes is *)
(* kept in call; a save holds the lock of the run's row from its first step. *)
Free(a) == call[a].op = "none"
Unlocked == \A a \in Admins : call[a].op # "save"

Answer(a) == call' = [call EXCEPT ![a] = NoCall]
Enqueues(a, phase, attempt) ==
    call' = [call EXCEPT ![a] = [NoCall EXCEPT !.op = "enqueue", !.phase = phase,
                                               !.attempt = attempt]]

(* A page displays the review.                                               *)
Look ==
    /\ run # Nothing /\ run.status = "REVIEW"
    /\ page' = [id |-> run.id, revision |-> run.revision,
                seen |-> [e \in Expenses |-> IF e \in Rows THEN rows[e].category ELSE Nothing]]
    /\ page' # page
    /\ UNCHANGED <<ledger, run, rows, job, work, call, drawn, events>>

Displayed == run # Nothing /\ page.id = run.id /\ page.revision = run.revision

(* updateMany where id, revision and status.  An old revision is refused and *)
(* changes nothing: what an admin does, it does with the current one.        *)
Claims(statuses) ==
    /\ run # Nothing /\ Unlocked
    /\ run.status \in statuses

Bounded == run.revision < MaxRevision
Draw == drawn < MaxDrawn /\ drawn' = drawn + 1
MayRetry == Bounded /\ drawn < MaxDrawn

Bumped == [run EXCEPT !.revision = @ + 1, !.old = FALSE]

Requeued(phase, r) ==
    [r EXCEPT !.status = Queued(phase), !.attempt = drawn', !.token = 0]

(* startCategorizationRun: a run that is not DONE is shown instead.          *)
StartRead(a) ==
    /\ Free(a) /\ drawn < MaxDrawn
    /\ run # Nothing => run.status = "DONE"
    /\ call' = [call EXCEPT ![a] =
          [NoCall EXCEPT !.op = "start",
                         !.id = IF run = Nothing THEN 0 ELSE run.id,
                         !.captured = [e \in Expenses |->
                             IF ledger[e] # Nothing /\ ledger[e].category = General
                             THEN ledger[e].version ELSE Nothing]]]
    /\ UNCHANGED <<ledger, run, rows, job, work, page, drawn, events>>

NewRow(version) ==
    [stage |-> "PENDING", version |-> version, category |-> General, initial |-> General,
     feedback |-> FALSE, target |-> FALSE, second |-> FALSE]

Least(m, n) == IF m < n THEN m ELSE n

(* The group has one run: the unique index lets a second create fail.        *)
StartCommit(a) ==
    LET c == call[a]
        captured == {e \in Expenses : c.captured[e] # Nothing}
    IN  /\ c.op = "start"
        /\ run # Nothing => run.id = c.id
        /\ Draw
        /\ \E mode \in {"local", "system-one"} :
              run' = [id |-> drawn', mode |-> mode, revision |-> 0, processed |-> 0,
                      status |-> IF captured = {} THEN "REVIEW" ELSE Queued("calibration"),
                      total |-> Least(SampleSize, Cardinality(captured)),
                      attempt |-> IF captured = {} THEN 0 ELSE drawn', token |-> 0,
                      pass |-> "first", old |-> FALSE]
        /\ rows' = [e \in Expenses |->
                        IF e \in captured THEN NewRow(c.captured[e]) ELSE Nothing]
        /\ IF captured = {} THEN Answer(a) ELSE Enqueues(a, "calibration", drawn')
        /\ UNCHANGED <<ledger, job, work, page, events>>

StartFails(a) ==
    /\ call[a].op = "start"
    /\ run # Nothing /\ run.id # call[a].id
    /\ Answer(a)
    /\ UNCHANGED <<ledger, run, rows, job, work, page, drawn, events>>

(* enqueueCategorization: the queue is exclusive and the send has no key, so *)
(* any queued or active job, whoever's, drops it and the run has failed.     *)
Enqueue(a) ==
    LET c == call[a]
    IN  /\ c.op = "enqueue"
        /\ IF job = Nothing
           THEN /\ job' = [phase |-> c.phase, attempt |-> c.attempt, active |-> FALSE]
                /\ UNCHANGED run
           ELSE /\ run' = IF run # Nothing /\ run.attempt = c.attempt /\ run.status = Queued(c.phase)
                          THEN [run EXCEPT !.status = Failed(c.phase), !.old = FALSE]
                          ELSE run
                /\ UNCHANGED job
        /\ Answer(a)
        /\ UNCHANGED <<ledger, rows, work, page, drawn, events>>

(* updateRunSuggestions: the page has the change and the new revision.       *)
EditSuggestion(a) ==
    /\ Free(a) /\ Claims({"REVIEW", "CALIBRATION_REVIEW"}) /\ Bounded
    /\ \E e \in Rows, c \in Categories :
          /\ IF run.status = "REVIEW" THEN rows[e].stage \in {"CONFIRMED", "SUGGESTED"}
             ELSE rows[e].stage = "SAMPLE"
          /\ rows' = IF rows[e].category = c THEN rows
                     ELSE [rows EXCEPT ![e].category = c, ![e].feedback = FALSE]
          /\ page' = IF Displayed THEN [page EXCEPT !.revision = @ + 1, !.seen[e] = c]
                     ELSE page
    /\ run' = Bumped
    /\ UNCHANGED <<ledger, job, work, call, drawn, events>>

(* confirmCalibrationRound: whether another round follows depends on how     *)
(* many suggestions were accepted, but not once all rows are confirmed.      *)
ConfirmRound(a) ==
    LET left == Cardinality(Rows \ (At("SAMPLE") \cup At("CONFIRMED")))
    IN  /\ Free(a) /\ Claims({"CALIBRATION_REVIEW"}) /\ Bounded
        /\ At("SAMPLE") # {}
        /\ Draw
        /\ rows' = [e \in Expenses |-> IF e \in At("SAMPLE")
                                        THEN [rows[e] EXCEPT !.stage = "CONFIRMED"] ELSE rows[e]]
        /\ \E phase \in {"calibration", "full"} :
              /\ left = 0 => phase = "full"
              /\ run' = [Requeued(phase, Bumped) EXCEPT
                            !.processed = 0,
                            !.total = IF phase = "full" THEN left ELSE Least(SampleSize, left)]
              /\ Enqueues(a, phase, drawn')
        /\ UNCHANGED <<ledger, job, work, page, events>>

(* rerunCategorizationRun                                                    *)
Rerun(a) ==
    LET corrected == {e \in At("SUGGESTED") : Manual(rows[e])}
    IN  /\ Free(a) /\ Claims({"REVIEW"}) /\ Bounded
        /\ \E e \in corrected : ~rows[e].feedback
        /\ Draw
        /\ \E eligible \in Uncertain(RerunEligible) :
              /\ eligible # {}
              /\ rows' = [e \in Expenses |->
                              IF e \in corrected THEN [rows[e] EXCEPT !.feedback = TRUE]
                              ELSE IF e \in eligible THEN [rows[e] EXCEPT !.target = TRUE]
                              ELSE rows[e]]
              /\ run' = [Requeued("rerun", Bumped) EXCEPT !.processed = 0,
                                                          !.total = Cardinality(eligible)]
        /\ Enqueues(a, "rerun", drawn')
        /\ UNCHANGED <<ledger, job, work, page, events>>

(* applyCategorizationRun, in one transaction: conflicts the admin has not   *)
(* agreed to skip refuse it, one agreed to that is none any more is saved;   *)
(* each expense is written if its version is the captured one, or none is.   *)
(* A save of single rows: with a series scope category-bulk.ts goes on to    *)
(* write the other rows of the series, whatever the page showed.             *)
SaveRead(a) ==
    /\ Free(a) /\ Displayed /\ Claims({"REVIEW"})
    /\ call' = [call EXCEPT ![a] = [NoCall EXCEPT !.op = "save",
                                        !.skips = {e \in Selected : Conflict(e)}]]
    /\ UNCHANGED <<ledger, run, rows, job, work, page, drawn, events>>

Categorized(apply) ==
    [e \in Expenses |-> IF e \in apply THEN [version |-> ledger[e].version + 1,
                                             category |-> rows[e].category]
                        ELSE ledger[e]]

SaveWrite(a) ==
    LET apply == Selected \ call[a].skips
    IN  /\ call[a].op = "save"
        /\ \A e \in apply : ~Conflict(e)
        /\ ledger' = Categorized(apply)
        /\ run' = [Bumped EXCEPT !.status = "DONE", !.processed = Cardinality(Selected),
                                 !.total = Cardinality(Selected)]
        /\ Answer(a)
        /\ UNCHANGED <<rows, job, work, page, drawn, events>>

SaveRollsBack(a) ==
    /\ call[a].op = "save"
    /\ \E e \in Selected \ call[a].skips : Conflict(e)
    /\ Answer(a)
    /\ UNCHANGED <<ledger, run, rows, job, work, page, drawn, events>>

(* retryCategorizationRun reads the run, and then writes it if it has still  *)
(* the revision read, which no worker changes: its status is not looked at.  *)
RetryRead(a) ==
    /\ Free(a) /\ run # Nothing /\ MayRetry
    /\ \E phase \in Phases :
          /\ \/ run.status = Failed(phase)
             \/ run.status \in {Queued(phase), Running(phase)} /\ run.old
          /\ call' = [call EXCEPT ![a] = [NoCall EXCEPT !.op = "retry", !.id = run.id,
                                              !.revision = run.revision, !.phase = phase]]
    /\ UNCHANGED <<ledger, run, rows, job, work, page, drawn, events>>

Unchanged(c) == run # Nothing /\ run.id = c.id /\ run.revision = c.revision

RetryCommit(a) ==
    LET c == call[a]
    IN  /\ c.op = "retry" /\ Unchanged(c) /\ Unlocked
        /\ Draw
        /\ run' = Requeued(c.phase, Bumped)
        /\ Enqueues(a, c.phase, drawn')
        /\ UNCHANGED <<ledger, rows, job, work, page, events>>

RetryRefused(a) ==
    /\ call[a].op = "retry" /\ ~Unchanged(call[a])
    /\ Answer(a)
    /\ UNCHANGED <<ledger, run, rows, job, work, page, drawn, events>>

(* discardCategorizationRun: the rows go with the run.                       *)
Discard(a) ==
    /\ Free(a) /\ Claims(Statuses \ {"DONE"})
    /\ run' = Nothing /\ rows' = NoGuesses
    /\ UNCHANGED <<ledger, job, work, clients, drawn, events>>

(* The API process dies: a transaction under way is rolled back, a job not   *)
(* yet sent is never sent.                                                   *)
ApiCrash(a) ==
    /\ Event /\ ~Free(a)
    /\ Answer(a)
    /\ UNCHANGED <<ledger, run, rows, job, work, page, drawn>>

-----------------------------------------------------------------------------
(* The workers, and the queue as it hands out, completes and fails the job   *)
(* (retryLimit 0).                                                           *)
Put(w, h) == work' = [work EXCEPT ![w] = h]

Ended(h) == [Idle EXCEPT !.pc = "ended", !.owns = h.owns]

WorkOnly == UNCHANGED <<ledger, clients, drawn, events>>

Take(w) ==
    /\ work[w].pc = "idle"
    /\ job \notin {Nothing, Foreign} /\ ~job.active
    /\ job' = [job EXCEPT !.active = TRUE]
    /\ Put(w, [Idle EXCEPT !.pc = "taken", !.phase = job.phase, !.attempt = job.attempt,
                           !.owns = TRUE])
    /\ UNCHANGED <<run, rows>> /\ WorkOnly

Claimable(h) ==
    /\ run # Nothing /\ run.attempt = h.attempt
    /\ run.status = Queued(h.phase) \/ (run.status = Running(h.phase) /\ run.old)

(* claimJob.  A lease is taken over by a second delivery of the same attempt *)
(* only, and the queue, which does not retry, makes none.                    *)
Claim(w) ==
    LET h == work[w]
    IN  /\ h.pc = "taken" /\ Claimable(h)
        /\ drawn' = drawn + 1
        /\ run' = [run EXCEPT !.status = Running(h.phase), !.token = drawn', !.old = FALSE]
        /\ Put(w, [h EXCEPT !.pc = "claimed", !.token = drawn'])
        /\ UNCHANGED <<ledger, rows, job, clients, events>>

Obsolete(w) ==
    /\ work[w].pc = "taken" /\ ~Claimable(work[w])
    /\ Put(w, Ended(work[w]))
    /\ UNCHANGED <<run, rows, job>> /\ WorkOnly

(* Mutant: the fence looks at the status alone.                              *)
CurrentByStatus(w) == run # Nothing /\ run.status = Running(work[w].phase)
(* Where every write of a worker is fenced: updateMany where status,         *)
(* attemptId and workerToken.                                                *)
Current(w) ==
    /\ run # Nothing /\ run.status = Running(work[w].phase)
    /\ run.attempt = work[w].attempt /\ run.token = work[w].token

(* A run deleted meanwhile: ids are drawn in order, an attempt after its run.*)
Present(h) == run # Nothing /\ run.id <= h.attempt

(* The handler reads the run; a sample that is there is not drawn again, and *)
(* a full pass that is complete has nothing left to do, not even its end.    *)
Begin(w) ==
    LET h == work[w]
    IN  /\ h.pc = "claimed" /\ Present(h)
        /\ IF h.phase = "full" /\ run.pass = "complete" THEN Put(w, Ended(h))
           ELSE Put(w, [h EXCEPT !.processed = run.processed, !.pass = run.pass,
                                 !.pc = IF h.phase = "calibration" /\ At("SAMPLE") # {}
                                        THEN "finish" ELSE "ready"])
        /\ UNCHANGED <<run, rows, job>> /\ WorkOnly

(* Mutant: the second pass of a run taken over starts from the first.        *)
PendingFirst(h) == IF h.phase = "rerun" THEN Targets ELSE At("PENDING")
Pending(h) == CASE h.phase = "rerun" -> Targets
                [] h.phase = "full" /\ h.pass = "second" -> SecondTargets
                [] OTHER -> At("PENDING")

(* A second suggestion only replaces no category, and only if it is strong.  *)
Suggestions(h, e) ==
    IF h.phase = "full" /\ h.pass = "second" /\ rows[e].category # General
    THEN {rows[e].category}
    ELSE Categories

(* suggestRows for the next chunk, or for a sample of the pending rows; its  *)
(* order and its choice are left open.                                       *)
Suggest(w) ==
    LET h == work[w]
        size == IF h.phase = "calibration" THEN SampleSize ELSE ChunkSize
    IN  /\ h.pc = "ready" /\ Present(h)
        /\ Pending(h) # {} \/ h.phase = "calibration"
        /\ \E chunk \in SUBSET Pending(h) :
              /\ Cardinality(chunk) = Least(size, Cardinality(Pending(h)))
              /\ \E guesses \in [Expenses -> Categories \cup {Nothing}] :
                    /\ \A e \in Expenses : IF e \in chunk THEN guesses[e] \in Suggestions(h, e)
                                           ELSE guesses[e] = Nothing
                    /\ Put(w, [h EXCEPT !.guesses = guesses,
                                        !.pc = IF h.phase = "calibration" THEN "finish"
                                               ELSE "guessed"])
        /\ UNCHANGED <<run, rows, job>> /\ WorkOnly

(* All chunks are done: a first pass of System One marks a second.           *)
Exhausted(w) ==
    LET h == work[w]
    IN  /\ h.pc = "ready" /\ Present(h)
        /\ h.phase # "calibration" /\ Pending(h) = {}
        /\ Put(w, [h EXCEPT !.pc = IF h.phase = "full" /\ h.pass = "first"
                                      /\ run.mode = "system-one"
                                   THEN "mark" ELSE "finish"])
        /\ UNCHANGED <<run, rows, job>> /\ WorkOnly

(* suggestionData: feedback stays as it is                                   *)
Suggested(h, row, guess, stage) ==
    [row EXCEPT !.stage = stage, !.category = guess, !.initial = guess,
                !.target = @ /\ h.phase # "rerun",
                !.second = @ /\ ~(h.phase = "full" /\ h.pass = "second")]

(* Mutant: a row without a suggestion is written too.                        *)
WrittenAll(h, stage) ==
    [e \in Expenses |-> IF e \in Rows THEN Suggested(h, rows[e], h.guesses[e], stage)
                        ELSE rows[e]]
Written(h, stage) ==
    [e \in Expenses |-> IF e \in Rows /\ h.guesses[e] # Nothing
                        THEN Suggested(h, rows[e], h.guesses[e], stage) ELSE rows[e]]

Guessed(h) == {e \in Expenses : h.guesses[e] # Nothing}

(* checkpoint of a chunk                                                     *)
Checkpoint(w) ==
    LET h == work[w]  done == h.processed + Cardinality(Guessed(h))
    IN  /\ h.pc = "guessed" /\ Current(w)
        /\ run' = [run EXCEPT !.processed = done, !.old = FALSE]
        /\ rows' = Written(h, "SUGGESTED")
        /\ Put(w, [h EXCEPT !.pc = "ready", !.processed = done, !.guesses = NoGuesses])
        /\ UNCHANGED job /\ WorkOnly

(* The targets of the second pass, in checkpoints of 500 rows, one here: and *)
(* none, so nothing fenced, where there is no target.                        *)
Mark(w) ==
    /\ work[w].pc = "mark"
    /\ \E targets \in Uncertain(At("SUGGESTED")) :
          /\ targets # {} => Current(w)
          /\ rows' = [e \in Expenses |-> IF e \in targets THEN [rows[e] EXCEPT !.second = TRUE]
                                          ELSE rows[e]]
          /\ run' = IF targets = {} THEN run
                    ELSE [run EXCEPT !.processed = work[w].processed, !.old = FALSE]
    /\ Put(w, [work[w] EXCEPT !.pc = "second"])
    /\ UNCHANGED job /\ WorkOnly

SecondPass(w) ==
    LET h == work[w]
    IN  /\ h.pc = "second" /\ Current(w)
        /\ run' = [run EXCEPT !.pass = "second", !.processed = 0, !.old = FALSE,
                              !.total = Cardinality(SecondTargets)]
        /\ Put(w, [h EXCEPT !.pc = "ready", !.pass = "second", !.processed = 0])
        /\ UNCHANGED <<rows, job>> /\ WorkOnly

(* finishPhase                                                               *)
FinishPhase(w, phase, r) ==
    /\ work[w].pc = "finish" /\ work[w].phase = phase /\ Current(w)
    /\ run' = [r EXCEPT !.token = 0, !.old = FALSE]
    /\ Put(w, Ended(work[w]))
    /\ UNCHANGED job /\ WorkOnly

FinishCalibration(w) ==
    LET sampled == Cardinality(Guessed(work[w]))
    IN  /\ FinishPhase(w, "calibration",
              [run EXCEPT !.status = "CALIBRATION_REVIEW",
                          !.processed = IF sampled = 0 THEN @ ELSE sampled,
                          !.total = IF sampled = 0 THEN @ ELSE sampled])
        /\ rows' = Written(work[w], "SAMPLE")

FinishFull(w) ==
    /\ FinishPhase(w, "full", [run EXCEPT !.status = "REVIEW", !.pass = "complete"])
    /\ UNCHANGED rows

FinishRerun(w) ==
    /\ FinishPhase(w, "rerun", [run EXCEPT !.status = "REVIEW", !.processed = 0])
    /\ UNCHANGED rows

(* A fenced write that finds the run taken, or any other error.              *)
Superseded(w) ==
    /\ \/ work[w].pc \in {"guessed", "mark", "second", "finish"} /\ ~Current(w)
       \/ work[w].pc \in {"claimed", "ready"} /\ ~Present(work[w])
    /\ Put(w, [work[w] EXCEPT !.pc = "failing", !.guesses = NoGuesses])
    /\ UNCHANGED <<run, rows, job>> /\ WorkOnly

Throw(w) ==
    /\ Event /\ work[w].pc \notin {"idle", "failing", "ended"}
    /\ Put(w, IF work[w].pc = "taken" THEN Ended(work[w])
              ELSE [work[w] EXCEPT !.pc = "failing", !.guesses = NoGuesses])
    /\ UNCHANGED <<ledger, run, rows, job, clients, drawn>>

(* The catch of processCategorizationJob                                     *)
FailRun(w) ==
    LET h == work[w]
    IN  /\ h.pc = "failing"
        /\ run' = IF Current(w) THEN [run EXCEPT !.status = Failed(h.phase), !.token = 0, !.old = FALSE]
                  ELSE run
        /\ Put(w, Ended(h))
        /\ UNCHANGED <<rows, job>> /\ WorkOnly

(* The job is completed or failed; a run that has lost it ends none.         *)
EndJob(w) ==
    LET h == work[w]
    IN  /\ h.pc = "ended"
        /\ job' = IF h.owns THEN Nothing ELSE job
        /\ Put(w, Idle)
        /\ UNCHANGED <<run, rows>> /\ WorkOnly

-----------------------------------------------------------------------------
(* A graceful stop runs out: the job is failed, its handler runs on.         *)
Shutdown(w) ==
    /\ Event /\ work[w].owns
    /\ job' = Nothing /\ Put(w, [work[w] EXCEPT !.owns = FALSE])
    /\ UNCHANGED <<ledger, run, rows, clients, drawn>>

WorkerCrash(w) ==
    /\ Event /\ work[w].pc # "idle"
    /\ Put(w, Idle)
    /\ UNCHANGED <<ledger, run, rows, job, clients, drawn>>

(* Six hours after its worker died.                                          *)
Expire ==
    /\ job \notin {Nothing, Foreign} /\ job.active
    /\ \A w \in Workers : ~work[w].owns
    /\ job' = Nothing
    /\ UNCHANGED <<run, rows, work>> /\ WorkOnly

(* Another group's run uses the queue.                                       *)
Occupy ==
    /\ OthersOnly /\ job = Nothing /\ job' = Foreign
    /\ UNCHANGED ledger

Vacate ==
    /\ job = Foreign /\ job' = Nothing
    /\ UNCHANGED <<run, rows, work>> /\ WorkOnly

(* Ten minutes pass, be it at one call to System One.  No job is delivered   *)
(* twice, so only a retry looks how old a run is: they pass while the bounds *)
(* still leave one.                                                          *)
Age ==
    /\ Busy /\ ~run.old /\ MayRetry
    /\ run' = [run EXCEPT !.old = TRUE]
    /\ IF \E a \in Admins : call[a].op = "enqueue" THEN Event ELSE UNCHANGED events
    /\ UNCHANGED <<ledger, rows, job, work, clients, drawn>>

-----------------------------------------------------------------------------
Ledger == \E e \in Expenses : EditExpense(e) \/ DeleteExpense(e)

Procedure(a) ==
    \/ StartRead(a) \/ StartCommit(a) \/ StartFails(a) \/ Enqueue(a)
    \/ EditSuggestion(a) \/ ConfirmRound(a) \/ Rerun(a)
    \/ SaveRead(a) \/ SaveWrite(a) \/ SaveRollsBack(a)
    \/ RetryRead(a) \/ RetryCommit(a) \/ RetryRefused(a)
    \/ Discard(a) \/ ApiCrash(a)

Handle(w) ==
    \/ Take(w) \/ Claim(w) \/ Obsolete(w) \/ Begin(w) \/ Suggest(w) \/ Exhausted(w)
    \/ Checkpoint(w) \/ Mark(w) \/ SecondPass(w)
    \/ FinishCalibration(w) \/ FinishFull(w) \/ FinishRerun(w)
    \/ Superseded(w) \/ FailRun(w) \/ EndJob(w)

Next ==
    \/ Ledger \/ Look
    \/ \E a \in Admins : Procedure(a)
    \/ \E w \in Workers : Handle(w) \/ Throw(w) \/ Shutdown(w) \/ WorkerCrash(w)
    \/ Expire \/ Occupy \/ Vacate \/ Age

Spec == Init /\ [][Next]_vars

-----------------------------------------------------------------------------
(* What is reviewed is complete: no row waits for a suggestion, a sample's   *)
(* confirmation, a second look or a rerun, whatever worker got it there.     *)
ReviewIsComplete ==
    run # Nothing /\ run.status \in {"REVIEW", "DONE"} =>
        At("PENDING") \cup At("SAMPLE") \cup Targets \cup SecondTargets = {}

(* What an admin has confirmed or corrected is changed by no worker, late,   *)
(* repeated or rerun: only by an admin, whose change moves the revision.     *)
CorrectionsKept ==
    [][\A e \in Rows :
          /\ rows[e].stage = "CONFIRMED" \/ Manual(rows[e])
          /\ rows'[e] # Nothing /\ run # Nothing /\ run' # Nothing /\ run'.id = run.id
          /\ rows'[e].category # rows[e].category
          => run'.revision > run.revision]_vars

(* A save writes what the admin who asked for it saw, and no expense that    *)
(* was changed since the run captured it; all of it but the agreed skips.    *)
(* This is about single rows (scope SELECTED).  A series scope is meant to   *)
(* write rows that were not displayed, and the model has none.               *)
SavedAsSeen ==
    [][\A a \in Admins :
          call[a].op = "save" /\ run'.status = "DONE" =>
              \A e \in Expenses :
                 \/ /\ ledger'[e] = ledger[e]
                    /\ page.seen[e] \in {General, Nothing} \/ e \in call[a].skips
                 \/ /\ ledger'[e].category = page.seen[e]
                    /\ ledger[e] = [version |-> rows[e].version, category |-> General]]_vars
=============================================================================
