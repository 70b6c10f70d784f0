--------------------- MODULE BulkCategorizationProofs -----------------------
(* Proofs about BulkCategorization, for any number of expenses, admins,      *)
(* workers and categories, and whatever the bounds.                          *)
EXTENDS BulkCategorization, FiniteSetTheorems, TLAPS

\* A save under way, one at a time, is about the review that is displayed.
Saves == \A a \in Admins : call[a].op = "save" =>
    /\ Displayed /\ run.status = "REVIEW"
    /\ \A b \in Admins : call[b].op = "save" => b = a

-----------------------------------------------------------------------------
(* Statuses and rows *)

\* The nine statuses of the phases.
LEMMA StatusFacts ==
    /\ Phases = {"calibration", "full", "rerun"}
    /\ Queued("calibration") = "QUEUED_CALIBRATION" /\ Queued("full") = "QUEUED"
    /\ Queued("rerun") = "QUEUED_RERUN"
    /\ Running("calibration") = "CALIBRATING" /\ Running("full") = "PROCESSING"
    /\ Running("rerun") = "RERUNNING"
    /\ Failed("calibration") = "FAILED_CALIBRATION" /\ Failed("full") = "FAILED_FULL"
    /\ Failed("rerun") = "FAILED_RERUN"
BY DEF Phases, Queued, Running, Failed

\* Every status of a phase is a status, and so are the reviews and the end.
LEMMA StatusTypes ==
    /\ \A phase \in Phases : /\ Queued(phase) \in Statuses /\ Running(phase) \in Statuses
                             /\ Failed(phase) \in Statuses
    /\ "CALIBRATION_REVIEW" \in Statuses /\ "REVIEW" \in Statuses /\ "DONE" \in Statuses
BY DEF Statuses, Stage

\* Null is none of the things it stands in for.
LEMMA Null ==
    /\ \A r \in Run : r # Nothing
    /\ \A r \in Row : r # Nothing
    /\ \A c \in Categories : c # Nothing
    /\ \A j \in Job : j # Nothing /\ j # Foreign
    /\ \A x \in [version : Nat, category : Categories] : x # Nothing
<1> DEFINE expenses == [version : Nat, category : Categories]
<1>1. Nothing \notin Run \cup Row \cup Categories \cup Job \cup Nat /\ Nothing \notin expenses
      /\ Foreign \notin Job
    BY NullAssumption
<1> QED BY <1>1

\* The expenses of any kind can be counted.
LEMMA Counts == ASSUME NEW S \in SUBSET Expenses PROVE Cardinality(S) \in Nat
<1>1. IsFiniteSet(S)
    BY FS_Subset, ConstantsAssumption
<1> QED BY <1>1, FS_CardinalityType

\* A state's rows, their kinds and their suggestions are expenses.
LEMMA RowSets == /\ Rows \subseteq Expenses /\ Targets \subseteq Expenses
                 /\ SecondTargets \subseteq Expenses /\ Selected \subseteq Expenses
                 /\ \A stage : At(stage) \subseteq Expenses
                 /\ RerunEligible \subseteq Expenses
                 /\ \A h : Guessed(h) \subseteq Expenses
BY DEF Rows, Targets, SecondTargets, Selected, At, RerunEligible, Guessed

-----------------------------------------------------------------------------
(* Typing *)

\* The initial states are well typed.
LEMMA InitTypes == Init => TypeOK
<1>0. General \in Categories /\ MaxEvents \in Nat
    BY ConstantsAssumption
<1>1. Idle \in Work
    BY DEF Idle, Work, NoGuesses, Phases
<1>2. NoCall \in Call /\ NoPage \in Page
    BY DEF NoCall, Call, NoGuesses, Phases, NoPage, Page
<1>3. [version |-> 1, category |-> General] \in [version : Nat, category : Categories]
    BY <1>0
<1> SUFFICES ASSUME Init PROVE TypeOK
    OBVIOUS
<1>4. /\ ledger \in [Expenses -> [version : Nat, category : Categories] \cup {Nothing}]
      /\ run \in Run \cup {Nothing} /\ rows \in [Expenses -> Row \cup {Nothing}]
      /\ job \in Job \cup {Foreign, Nothing}
    BY <1>3 DEF Init
<1>5. /\ work \in [Workers -> Work] /\ call \in [Admins -> Call] /\ page \in Page
  <2>1. /\ work = [w \in Workers |-> Idle] /\ call = [a \in Admins |-> NoCall]
        /\ page = NoPage
    BY DEF Init
  <2> QED BY <1>1, <1>2, <2>1
<1>6. drawn \in Nat /\ events \in 0 .. MaxEvents
    BY <1>0 DEF Init
<1> QED BY <1>4, <1>5, <1>6 DEF TypeOK

\* The table of handlers is well typed after one is put in its place.
LEMMA PutType == ASSUME TypeOK, NEW w \in Workers, NEW h \in Work, Put(w, h)
                 PROVE  work' \in [Workers -> Work]
BY DEF TypeOK, Put

\* So is the table of calls after an answer.
LEMMA AnswerType == ASSUME TypeOK, NEW a \in Admins, Answer(a)
                    PROVE  call' \in [Admins -> Call]
<1>1. NoCall \in Call
    BY DEF NoCall, Call, NoGuesses, Phases
<1> QED BY <1>1 DEF TypeOK, Answer

\* And after a call that is left with a job to send.
LEMMA EnqueuesType ==
    ASSUME TypeOK, NEW a \in Admins, NEW phase \in Phases, NEW n \in Nat, Enqueues(a, phase, n)
    PROVE  call' \in [Admins -> Call]
<1>1. [NoCall EXCEPT !.op = "enqueue", !.phase = phase, !.attempt = n] \in Call
    BY DEF NoCall, Call, NoGuesses, Phases
<1> QED BY <1>1 DEF TypeOK, Enqueues

\* Drawing an id gives a number.
LEMMA DrawType == ASSUME TypeOK, Draw PROVE drawn' \in Nat /\ drawn' = drawn + 1
BY DEF TypeOK, Draw

\* A run that an admin's change bumps is a run.
LEMMA BumpedType == ASSUME TypeOK, run # Nothing PROVE Bumped \in Run
<1>1. run \in Run
    BY DEF TypeOK
<1>2. run.revision + 1 \in Nat
    BY <1>1 DEF Run
<1> QED BY <1>1, <1>2 DEF Bumped, Run

\* And a run that is put back into the queue.
LEMMA RequeuedType ==
    ASSUME NEW phase \in Phases, NEW r \in Run, drawn' \in Nat
    PROVE  Requeued(phase, r) \in Run
BY StatusTypes DEF Requeued, Run

\* The procedures keep every type: first those of a start and of the queue.
LEMMA StartTypes ==
    ASSUME TypeOK, NEW a \in Admins,
           StartRead(a) \/ StartCommit(a) \/ StartFails(a) \/ Enqueue(a)
    PROVE  TypeOK'
<1>0. /\ ledger \in [Expenses -> [version : Nat, category : Categories] \cup {Nothing}]
      /\ run \in Run \cup {Nothing} /\ rows \in [Expenses -> Row \cup {Nothing}]
      /\ job \in Job \cup {Foreign, Nothing} /\ call \in [Admins -> Call] /\ call[a] \in Call
      /\ drawn \in Nat /\ General \in Categories
    BY ConstantsAssumption DEF TypeOK
<1>1. CASE StartRead(a)
  <2> DEFINE id == IF run = Nothing THEN 0 ELSE run.id
             captured == [e \in Expenses |->
                             IF ledger[e] # Nothing /\ ledger[e].category = General
                             THEN ledger[e].version ELSE Nothing]
  <2>1. id \in Nat
    BY <1>0 DEF Run
  <2>2. captured \in [Expenses -> Nat \cup {Nothing}]
    BY <1>0
  <2> HIDE DEF id, captured
  <2>3. [NoCall EXCEPT !.op = "start", !.id = id, !.captured = captured] \in Call
    BY <2>1, <2>2 DEF NoCall, Call, Phases
  <2>4. call' = [call EXCEPT ![a] = [NoCall EXCEPT !.op = "start", !.id = id,
                                                  !.captured = captured]]
    BY <1>1 DEF StartRead, id, captured
  <2>5. call' \in [Admins -> Call]
    BY <1>0, <2>3, <2>4
  <2>6. UNCHANGED <<ledger, run, rows, job, work, page, drawn, events>>
    BY <1>1 DEF StartRead
  <2> QED BY <2>5, <2>6 DEF TypeOK
<1>2. CASE StartCommit(a)
  <2> DEFINE captured == {e \in Expenses : call[a].captured[e] # Nothing}
  <2>1. drawn' \in Nat
    BY <1>2, DrawType DEF StartCommit
  <2>2. \A e \in captured : NewRow(call[a].captured[e]) \in Row
    BY <1>0 DEF Call, NewRow, Row
  <2>3. rows' = [e \in Expenses |-> IF e \in captured THEN NewRow(call[a].captured[e])
                                     ELSE Nothing]
    BY <1>2 DEF StartCommit
  <2>4. rows' \in [Expenses -> Row \cup {Nothing}]
    BY <2>2, <2>3
  <2>5. Least(SampleSize, Cardinality(captured)) \in Nat
    BY Counts, ConstantsAssumption DEF Least
  <2>6. run' \in Run
    <3>1. PICK mode \in {"local", "system-one"} :
              run' = [id |-> drawn', mode |-> mode, revision |-> 0, processed |-> 0,
                      status |-> IF captured = {} THEN "REVIEW" ELSE Queued("calibration"),
                      total |-> Least(SampleSize, Cardinality(captured)),
                      attempt |-> IF captured = {} THEN 0 ELSE drawn', token |-> 0,
                      pass |-> "first", old |-> FALSE]
      BY <1>2 DEF StartCommit
    <3>2. (IF captured = {} THEN "REVIEW" ELSE Queued("calibration")) \in Statuses
      BY StatusTypes DEF Phases
    <3>3. (IF captured = {} THEN 0 ELSE drawn') \in Nat
      BY <2>1
    <3> QED BY <2>1, <2>5, <3>1, <3>2, <3>3 DEF Run
  <2>7. call' \in [Admins -> Call]
    BY <1>2, <2>1, AnswerType, EnqueuesType DEF StartCommit, Phases
  <2>8. UNCHANGED <<ledger, job, work, page, events>>
    BY <1>2 DEF StartCommit
  <2> QED BY <2>1, <2>4, <2>6, <2>7, <2>8 DEF TypeOK
<1>3. CASE StartFails(a)
  <2>1. call' \in [Admins -> Call]
    BY <1>3, AnswerType DEF StartFails
  <2> QED BY <1>3, <2>1 DEF StartFails, TypeOK
<1>4. CASE Enqueue(a)
  <2>1. call' \in [Admins -> Call]
    BY <1>4, AnswerType DEF Enqueue
  <2>2. job' \in Job \cup {Foreign, Nothing}
    <3>1. [phase |-> call[a].phase, attempt |-> call[a].attempt, active |-> FALSE] \in Job
      BY <1>0 DEF Call, Job
    <3> QED BY <1>0, <1>4, <3>1 DEF Enqueue
  <2>3. run' \in Run \cup {Nothing}
    <3>1. \A phase \in Phases : run \in Run =>
              [run EXCEPT !.status = Failed(phase), !.old = FALSE] \in Run
      BY StatusTypes DEF Run
    <3>2. call[a].phase \in Phases
      BY <1>0 DEF Call
    <3> QED BY <1>0, <1>4, <3>1, <3>2 DEF Enqueue
  <2> QED BY <1>4, <2>1, <2>2, <2>3 DEF Enqueue, TypeOK
<1> QED BY <1>1, <1>2, <1>3, <1>4

\* Then those of a review.
LEMMA ReviewTypes ==
    ASSUME TypeOK, NEW a \in Admins,
           EditSuggestion(a) \/ ConfirmRound(a) \/ Rerun(a)
    PROVE  TypeOK'
<1>0. /\ rows \in [Expenses -> Row \cup {Nothing}] /\ page \in Page
      /\ run # Nothing => run \in Run /\ Bumped \in Run
      /\ \A S \in SUBSET Expenses : Cardinality(S) \in Nat
      /\ Rows \subseteq Expenses /\ \A e \in Rows : rows[e] \in Row
    BY BumpedType, Counts DEF TypeOK, Rows
<1>1. CASE EditSuggestion(a)
  <2>0. run # Nothing
    BY <1>1 DEF EditSuggestion, Claims
  <2>1. run' \in Run
    BY <1>0, <1>1, <2>0 DEF EditSuggestion
  <2>2. PICK e \in Rows, c \in Categories :
          /\ rows' = IF rows[e].category = c THEN rows
                     ELSE [rows EXCEPT ![e].category = c, ![e].feedback = FALSE]
          /\ page' = IF Displayed THEN [page EXCEPT !.revision = @ + 1, !.seen[e] = c]
                     ELSE page
    BY <1>1 DEF EditSuggestion
  <2>3. rows' \in [Expenses -> Row \cup {Nothing}]
    <3>1. [rows[e] EXCEPT !.category = c, !.feedback = FALSE] \in Row
      BY <1>0, <2>2 DEF Row
    <3>2. rows' = rows \/ rows' = [rows EXCEPT ![e] = [rows[e] EXCEPT !.category = c, !.feedback = FALSE]]
      BY <1>0, <2>2
    <3> QED BY <1>0, <3>1, <3>2
  <2>4. page' \in Page
    <3>1. [page.seen EXCEPT ![e] = c] \in [Expenses -> Categories \cup {Nothing}]
      BY <1>0, <2>2 DEF Page
    <3>2. page.revision + 1 \in Nat
      BY <1>0 DEF Page
    <3>3. [page EXCEPT !.revision = page.revision + 1, !.seen = [page.seen EXCEPT ![e] = c]] \in Page
      BY <1>0, <3>1, <3>2 DEF Page
    <3> QED BY <1>0, <2>2, <3>3
  <2> QED BY <1>1, <2>1, <2>3, <2>4 DEF EditSuggestion, TypeOK
<1>2. CASE ConfirmRound(a)
  <2>0. run # Nothing /\ drawn' \in Nat
    BY <1>2, DrawType DEF ConfirmRound, Claims
  <2> DEFINE left == Cardinality(Rows \ (At("SAMPLE") \cup At("CONFIRMED")))
  <2>1. left \in Nat
    BY <1>0
  <2> HIDE DEF left
  <2>2. PICK phase \in Phases :
          /\ run' = [Requeued(phase, Bumped) EXCEPT
                        !.processed = 0,
                        !.total = IF phase = "full" THEN left ELSE Least(SampleSize, left)]
          /\ Enqueues(a, phase, drawn')
    BY <1>2 DEF ConfirmRound, left, Phases
  <2>3. (IF phase = "full" THEN left ELSE Least(SampleSize, left)) \in Nat
    BY <2>1, ConstantsAssumption DEF Least
  <2>4. run' \in Run
    <3>1. Requeued(phase, Bumped) \in Run
      BY <1>0, <2>0, RequeuedType
    <3> QED BY <2>2, <2>3, <3>1 DEF Run
  <2>5. rows' \in [Expenses -> Row \cup {Nothing}]
    <3>1. rows' = [e \in Expenses |-> IF e \in At("SAMPLE")
                                       THEN [rows[e] EXCEPT !.stage = "CONFIRMED"] ELSE rows[e]]
      BY <1>2 DEF ConfirmRound
    <3>2. \A e \in At("SAMPLE") : [rows[e] EXCEPT !.stage = "CONFIRMED"] \in Row
      BY <1>0 DEF At, Row
    <3> QED BY <1>0, <3>1, <3>2
  <2>6. call' \in [Admins -> Call]
    BY <2>0, <2>2, EnqueuesType
  <2> QED BY <1>2, <2>0, <2>4, <2>5, <2>6 DEF ConfirmRound, TypeOK
<1>3. CASE Rerun(a)
  <2>0. run # Nothing /\ drawn' \in Nat /\ Enqueues(a, "rerun", drawn')
    BY <1>3, DrawType DEF Rerun, Claims
  <2> DEFINE corrected == {e \in At("SUGGESTED") : Manual(rows[e])}
  <2>1. PICK eligible \in Uncertain(RerunEligible) :
          /\ rows' = [e \in Expenses |->
                          IF e \in corrected THEN [rows[e] EXCEPT !.feedback = TRUE]
                          ELSE IF e \in eligible THEN [rows[e] EXCEPT !.target = TRUE]
                          ELSE rows[e]]
          /\ run' = [Requeued("rerun", Bumped) EXCEPT !.processed = 0,
                                                      !.total = Cardinality(eligible)]
    BY <1>3 DEF Rerun
  <2>2. eligible \subseteq RerunEligible /\ RerunEligible \subseteq At("SUGGESTED")
        /\ At("SUGGESTED") \subseteq Rows
    BY DEF Uncertain, RerunEligible, At
  <2>3. run' \in Run
    <3>1. Requeued("rerun", Bumped) \in Run
      BY <1>0, <2>0, RequeuedType DEF Phases
    <3>2. Cardinality(eligible) \in Nat
      BY <1>0, <2>2
    <3> QED BY <2>1, <3>1, <3>2 DEF Run
  <2>4. rows' \in [Expenses -> Row \cup {Nothing}]
    <3>1. \A e \in Rows : /\ [rows[e] EXCEPT !.feedback = TRUE] \in Row
                          /\ [rows[e] EXCEPT !.target = TRUE] \in Row
      BY <1>0 DEF Row
    <3> QED BY <1>0, <2>1, <2>2, <3>1
  <2>5. call' \in [Admins -> Call]
    BY <2>0, EnqueuesType DEF Phases
  <2> QED BY <1>3, <2>0, <2>3, <2>4, <2>5 DEF Rerun, TypeOK
<1> QED BY <1>1, <1>2, <1>3

\* And those of a save, a retry and a discard.
LEMMA EndTypes ==
    ASSUME TypeOK, Saves, NEW a \in Admins,
           \/ SaveRead(a) \/ SaveWrite(a) \/ SaveRollsBack(a)
           \/ RetryRead(a) \/ RetryCommit(a) \/ RetryRefused(a) \/ Discard(a) \/ ApiCrash(a)
    PROVE  TypeOK'
<1>0. /\ rows \in [Expenses -> Row \cup {Nothing}] /\ call \in [Admins -> Call] /\ call[a] \in Call
      /\ ledger \in [Expenses -> [version : Nat, category : Categories] \cup {Nothing}]
      /\ run # Nothing => run \in Run /\ Bumped \in Run
      /\ Selected \subseteq Expenses /\ Cardinality(Selected) \in Nat
      /\ \A e \in Selected : rows[e] \in Row
    BY BumpedType, Counts, RowSets DEF TypeOK, Selected, Rows
<1>1. CASE SaveRead(a)
  <2> DEFINE skips == {e \in Selected : Conflict(e)}
  <2>1. skips \in SUBSET Expenses
    BY <1>0
  <2>2. call' = [call EXCEPT ![a] = [NoCall EXCEPT !.op = "save", !.skips = skips]]
    BY <1>1 DEF SaveRead
  <2> HIDE DEF skips
  <2>3. [NoCall EXCEPT !.op = "save", !.skips = skips] \in Call
    BY <2>1 DEF NoCall, Call, NoGuesses, Phases
  <2>4. call' \in [Admins -> Call]
    BY <1>0, <2>2, <2>3
  <2> QED BY <1>1, <2>4 DEF SaveRead, TypeOK
<1>2. CASE SaveWrite(a)
  <2> DEFINE apply == Selected \ call[a].skips
  <2>0. /\ run # Nothing
        /\ \A e \in apply : ~Conflict(e)
        /\ ledger' = Categorized(apply)
        /\ run' = [Bumped EXCEPT !.status = "DONE", !.processed = Cardinality(Selected),
                                 !.total = Cardinality(Selected)]
    BY <1>2 DEF SaveWrite, Saves, Displayed
  <2>1. run' \in Run
    BY <1>0, <2>0, StatusTypes DEF Run
  <2>2. \A e \in apply : [version |-> ledger[e].version + 1, category |-> rows[e].category]
                              \in [version : Nat, category : Categories]
    <3> SUFFICES ASSUME NEW e \in apply
                 PROVE  ledger[e].version + 1 \in Nat /\ rows[e].category \in Categories
      OBVIOUS
    <3>1. rows[e].version \in Nat /\ rows[e].category \in Categories
      BY <1>0 DEF Row
    <3>2. ledger[e] = [version |-> rows[e].version, category |-> General]
      BY <2>0 DEF Conflict
    <3>3. ledger[e].version = rows[e].version
      BY <3>2
    <3> QED BY <3>1, <3>3
  <2>3. ledger' \in [Expenses -> [version : Nat, category : Categories] \cup {Nothing}]
    BY <1>0, <2>0, <2>2 DEF Categorized
  <2>4. call' \in [Admins -> Call]
    BY <1>2, AnswerType DEF SaveWrite
  <2> QED BY <1>2, <2>1, <2>3, <2>4 DEF SaveWrite, TypeOK
<1>3. CASE SaveRollsBack(a)
  <2>1. call' \in [Admins -> Call]
    BY <1>3, AnswerType DEF SaveRollsBack
  <2> QED BY <1>3, <2>1 DEF SaveRollsBack, TypeOK
<1>4. CASE RetryRead(a)
  <2>0. run \in Run
    BY <1>0, <1>4 DEF RetryRead
  <2>1. PICK phase \in Phases :
          call' = [call EXCEPT ![a] = [NoCall EXCEPT !.op = "retry", !.id = run.id,
                                              !.revision = run.revision, !.phase = phase]]
    BY <1>4 DEF RetryRead
  <2>2. [NoCall EXCEPT !.op = "retry", !.id = run.id,
                       !.revision = run.revision, !.phase = phase] \in Call
    BY <2>0 DEF NoCall, Call, NoGuesses, Run
  <2>3. call' \in [Admins -> Call]
    BY <1>0, <2>1, <2>2
  <2> QED BY <1>4, <2>3 DEF RetryRead, TypeOK
<1>5. CASE RetryCommit(a)
  <2>0. run # Nothing /\ drawn' \in Nat /\ call[a].phase \in Phases
    BY <1>0, <1>5, DrawType DEF RetryCommit, Unchanged, Call
  <2>1. run' \in Run
    BY <1>0, <1>5, <2>0, RequeuedType DEF RetryCommit
  <2>2. call' \in [Admins -> Call]
    BY <1>5, <2>0, EnqueuesType DEF RetryCommit
  <2> QED BY <1>5, <2>0, <2>1, <2>2 DEF RetryCommit, TypeOK
<1>6. CASE RetryRefused(a)
  <2>1. call' \in [Admins -> Call]
    BY <1>6, AnswerType DEF RetryRefused
  <2> QED BY <1>6, <2>1 DEF RetryRefused, TypeOK
<1>7. CASE Discard(a)
  <2>1. rows' \in [Expenses -> Row \cup {Nothing}]
    BY <1>7 DEF Discard, NoGuesses
  <2>2. run' \in Run \cup {Nothing} /\ UNCHANGED <<ledger, job, work, call, page, drawn, events>>
    BY <1>7 DEF Discard, clients
  <2> QED BY <2>1, <2>2 DEF TypeOK
<1>8. CASE ApiCrash(a)
  <2>1. call' \in [Admins -> Call]
    BY <1>8, AnswerType DEF ApiCrash
  <2>2. events' \in 0 .. MaxEvents
    BY <1>8, ConstantsAssumption DEF ApiCrash, Event, TypeOK
  <2> QED BY <1>8, <2>1, <2>2 DEF ApiCrash, TypeOK
<1> QED BY <1>1, <1>2, <1>3, <1>4, <1>5, <1>6, <1>7, <1>8

\* A handler that goes on, fails or ends is a handler.
LEMMA WorkTypes ==
    /\ Idle \in Work
    /\ \A h \in Work : /\ Ended(h) \in Work
                       /\ [h EXCEPT !.pc = "failing", !.guesses = NoGuesses] \in Work
                       /\ [h EXCEPT !.owns = FALSE] \in Work
                       /\ \A pc \in {"taken", "claimed", "ready", "mark", "second", "finish"} :
                              [h EXCEPT !.pc = pc] \in Work
                       /\ \A n \in Nat :
                              /\ [h EXCEPT !.pc = "claimed", !.token = n] \in Work
                              /\ [h EXCEPT !.pc = "ready", !.pass = "second", !.processed = n]
                                    \in Work
                              /\ [h EXCEPT !.pc = "ready", !.processed = n, !.guesses = NoGuesses]
                                    \in Work
                              /\ \A pass \in {"first", "second", "complete"},
                                    pc \in {"finish", "ready"} :
                                    [h EXCEPT !.processed = n, !.pass = pass, !.pc = pc] \in Work
                       /\ \A guesses \in [Expenses -> Categories \cup {Nothing}],
                            pc \in {"guessed", "finish"} :
                              [h EXCEPT !.guesses = guesses, !.pc = pc] \in Work
<1>1. Idle \in Work
    BY DEF Idle, Work, NoGuesses, Phases
<1>2. ASSUME NEW h \in Work PROVE Ended(h) \in Work
    BY <1>1, <1>2 DEF Ended, Work
<1>3. ASSUME NEW h \in Work
      PROVE  /\ [h EXCEPT !.pc = "failing", !.guesses = NoGuesses] \in Work
             /\ [h EXCEPT !.owns = FALSE] \in Work
    BY <1>3 DEF Work, NoGuesses
<1>4. ASSUME NEW h \in Work, NEW pc \in {"taken", "claimed", "ready", "mark", "second", "finish"}
      PROVE  [h EXCEPT !.pc = pc] \in Work
    BY <1>4 DEF Work
<1>5. ASSUME NEW h \in Work, NEW n \in Nat
      PROVE  /\ [h EXCEPT !.pc = "claimed", !.token = n] \in Work
             /\ [h EXCEPT !.pc = "ready", !.pass = "second", !.processed = n] \in Work
    BY <1>5 DEF Work
<1>6. ASSUME NEW h \in Work, NEW n \in Nat
      PROVE  [h EXCEPT !.pc = "ready", !.processed = n, !.guesses = NoGuesses] \in Work
    BY <1>6 DEF Work, NoGuesses
<1>7. ASSUME NEW h \in Work, NEW n \in Nat, NEW pass \in {"first", "second", "complete"},
             NEW pc \in {"finish", "ready"}
      PROVE  [h EXCEPT !.processed = n, !.pass = pass, !.pc = pc] \in Work
    BY <1>7 DEF Work
<1>8. ASSUME NEW h \in Work, NEW guesses \in [Expenses -> Categories \cup {Nothing}],
             NEW pc \in {"guessed", "finish"}
      PROVE  [h EXCEPT !.guesses = guesses, !.pc = pc] \in Work
    BY <1>8 DEF Work
<1> QED BY <1>1, <1>2, <1>3, <1>4, <1>5, <1>6, <1>7, <1>8

\* The rows after a write of suggestions are rows.
LEMMA WrittenType ==
    ASSUME TypeOK, NEW h \in Work, NEW stage \in {"SAMPLE", "SUGGESTED"}
    PROVE  Written(h, stage) \in [Expenses -> Row \cup {Nothing}]
<1>1. /\ rows \in [Expenses -> Row \cup {Nothing}] /\ \A e \in Rows : rows[e] \in Row
      /\ \A e \in Expenses : h.guesses[e] # Nothing => h.guesses[e] \in Categories
    BY DEF TypeOK, Rows, Work
<1>2. ASSUME NEW e \in Rows, h.guesses[e] # Nothing
      PROVE  Suggested(h, rows[e], h.guesses[e], stage) \in Row
  <2>1. rows[e] \in Row /\ h.guesses[e] \in Categories
    BY <1>1, <1>2 DEF Rows
  <2>2. (rows[e].target /\ h.phase # "rerun") \in BOOLEAN
        /\ (rows[e].second /\ ~(h.phase = "full" /\ h.pass = "second")) \in BOOLEAN
    OBVIOUS
  <2> QED BY <2>1, <2>2 DEF Suggested, Row
<1> QED BY <1>1, <1>2 DEF Written

\* The handlers keep every type: first where they take, read and suggest.
LEMMA TakeTypes ==
    ASSUME TypeOK, NEW w \in Workers,
           Take(w) \/ Claim(w) \/ Obsolete(w) \/ Begin(w) \/ Suggest(w) \/ Exhausted(w)
    PROVE  TypeOK'
<1>0. /\ run \in Run \cup {Nothing} /\ job \in Job \cup {Foreign, Nothing}
      /\ work[w] \in Work /\ Idle \in Work
      /\ \A pc \in {"taken", "claimed", "ready", "mark", "second", "finish"} :
            [work[w] EXCEPT !.pc = pc] \in Work
      /\ Ended(work[w]) \in Work
    BY WorkTypes DEF TypeOK
<1>1. CASE Take(w)
  <2>1. job \in Job
    BY <1>0, <1>1 DEF Take
  <2>2. job' \in Job
    BY <1>1, <2>1 DEF Take, Job
  <2>3. [Idle EXCEPT !.pc = "taken", !.phase = job.phase, !.attempt = job.attempt,
                     !.owns = TRUE] \in Work
    BY <2>1 DEF Idle, Work, NoGuesses, Job
  <2>4. work' \in [Workers -> Work]
    BY <1>1, <2>3, PutType DEF Take
  <2> QED BY <1>1, <2>2, <2>4 DEF Take, WorkOnly, clients, TypeOK
<1>2. CASE Claim(w)
  <2>1. drawn' \in Nat
    BY <1>2 DEF Claim, TypeOK
  <2>2. run \in Run
    BY <1>0, <1>2 DEF Claim, Claimable
  <2>3. Running(work[w].phase) \in Statuses
    BY <1>0, StatusTypes DEF Work
  <2>4. run' \in Run
    BY <1>2, <2>1, <2>2, <2>3 DEF Claim, Run
  <2>5. [work[w] EXCEPT !.pc = "claimed", !.token = drawn'] \in Work
    BY <1>0, <2>1, WorkTypes
  <2>6. work' \in [Workers -> Work]
    BY <1>2, <2>5, PutType DEF Claim
  <2> QED BY <1>2, <2>1, <2>4, <2>6 DEF Claim, clients, TypeOK
<1>3. CASE Obsolete(w)
  <2>1. work' \in [Workers -> Work]
    BY <1>0, <1>3, PutType DEF Obsolete
  <2> QED BY <1>3, <2>1 DEF Obsolete, WorkOnly, clients, TypeOK
<1>4. CASE Begin(w)
  <2>1. run \in Run
    BY <1>0, <1>4 DEF Begin, Present
  <2> DEFINE pc == IF work[w].phase = "calibration" /\ At("SAMPLE") # {}
                   THEN "finish" ELSE "ready"
             h == [work[w] EXCEPT !.processed = run.processed, !.pass = run.pass, !.pc = pc]
  <2>2. pc \in {"finish", "ready"}
    OBVIOUS
  <2> HIDE DEF pc
  <2>3. h \in Work
    BY <1>0, <2>1, <2>2, WorkTypes DEF Run
  <2>4. Put(w, Ended(work[w])) \/ Put(w, h)
    BY <1>4 DEF Begin, pc
  <2>5. work' \in [Workers -> Work]
    BY <1>0, <2>3, <2>4, PutType
  <2> QED BY <1>4, <2>5 DEF Begin, WorkOnly, clients, TypeOK
<1>5. CASE Suggest(w)
  <2>1. PICK guesses \in [Expenses -> Categories \cup {Nothing}] :
          Put(w, [work[w] EXCEPT !.guesses = guesses,
                                 !.pc = IF work[w].phase = "calibration" THEN "finish"
                                        ELSE "guessed"])
    BY <1>5 DEF Suggest
  <2>2. (IF work[w].phase = "calibration" THEN "finish" ELSE "guessed") \in {"finish", "guessed"}
    OBVIOUS
  <2>3. [work[w] EXCEPT !.guesses = guesses,
                        !.pc = IF work[w].phase = "calibration" THEN "finish" ELSE "guessed"]
            \in Work
    BY <1>0, <2>2, WorkTypes
  <2>4. work' \in [Workers -> Work]
    BY <2>1, <2>3, PutType
  <2> QED BY <1>5, <2>4 DEF Suggest, WorkOnly, clients, TypeOK
<1>6. CASE Exhausted(w)
  <2>1. PICK pc \in {"mark", "finish"} : Put(w, [work[w] EXCEPT !.pc = pc])
    BY <1>6 DEF Exhausted
  <2>2. work' \in [Workers -> Work]
    BY <1>0, <2>1, PutType
  <2> QED BY <1>6, <2>2 DEF Exhausted, WorkOnly, clients, TypeOK
<1> QED BY <1>1, <1>2, <1>3, <1>4, <1>5, <1>6

\* Then where they write.
LEMMA WriteTypes ==
    ASSUME TypeOK, NEW w \in Workers,
           \/ Checkpoint(w) \/ Mark(w) \/ SecondPass(w)
           \/ FinishCalibration(w) \/ FinishFull(w) \/ FinishRerun(w)
    PROVE  TypeOK'
<1>0. /\ run \in Run \cup {Nothing} /\ rows \in [Expenses -> Row \cup {Nothing}]
      /\ work[w] \in Work /\ Idle \in Work /\ Ended(work[w]) \in Work
      /\ \A pc \in {"taken", "claimed", "ready", "mark", "second", "finish"} :
            [work[w] EXCEPT !.pc = pc] \in Work
      /\ Written(work[w], "SUGGESTED") \in [Expenses -> Row \cup {Nothing}]
      /\ Written(work[w], "SAMPLE") \in [Expenses -> Row \cup {Nothing}]
      /\ Cardinality(Guessed(work[w])) \in Nat /\ Cardinality(SecondTargets) \in Nat
      /\ Current(w) => run \in Run
    BY WorkTypes, WrittenType, Counts, RowSets DEF TypeOK, Current
<1>1. CASE Checkpoint(w)
  <2> DEFINE done == work[w].processed + Cardinality(Guessed(work[w]))
  <2>1. run \in Run /\ done \in Nat
    BY <1>0, <1>1 DEF Checkpoint, Work
  <2>2. /\ run' = [run EXCEPT !.processed = done, !.old = FALSE]
        /\ Put(w, [work[w] EXCEPT !.pc = "ready", !.processed = done, !.guesses = NoGuesses])
    BY <1>1 DEF Checkpoint
  <2> HIDE DEF done
  <2>3. run' \in Run
    BY <2>1, <2>2 DEF Run
  <2>4. [work[w] EXCEPT !.pc = "ready", !.processed = done, !.guesses = NoGuesses] \in Work
    BY <1>0, <2>1, WorkTypes
  <2>5. work' \in [Workers -> Work]
    BY <2>2, <2>4, PutType
  <2> QED BY <1>0, <1>1, <2>3, <2>5 DEF Checkpoint, WorkOnly, clients, TypeOK
<1>2. CASE Mark(w)
  <2>1. PICK targets \in Uncertain(At("SUGGESTED")) :
          /\ targets # {} => Current(w)
          /\ rows' = [e \in Expenses |-> IF e \in targets THEN [rows[e] EXCEPT !.second = TRUE]
                                          ELSE rows[e]]
          /\ run' = IF targets = {} THEN run
                    ELSE [run EXCEPT !.processed = work[w].processed, !.old = FALSE]
    BY <1>2 DEF Mark
  <2>2. targets \subseteq Rows /\ \A e \in Rows : rows[e] \in Row
    BY <1>0 DEF Uncertain, At, Rows
  <2>3. rows' \in [Expenses -> Row \cup {Nothing}]
    <3>1. \A e \in Rows : [rows[e] EXCEPT !.second = TRUE] \in Row
      BY <2>2 DEF Row
    <3> QED BY <1>0, <2>1, <2>2, <3>1
  <2>4. run' \in Run \cup {Nothing}
    <3>0. \A r \in Run, n \in Nat : [r EXCEPT !.processed = n, !.old = FALSE] \in Run
      BY DEF Run
    <3>1. run \in Run => [run EXCEPT !.processed = work[w].processed, !.old = FALSE] \in Run
      <4>1. work[w].processed \in Nat
        BY <1>0 DEF Work
      <4> QED BY <3>0, <4>1
    <3> QED BY <1>0, <2>1, <3>1
  <2>5. work' \in [Workers -> Work]
    BY <1>0, <1>2, PutType DEF Mark
  <2> QED BY <1>2, <2>3, <2>4, <2>5 DEF Mark, WorkOnly, clients, TypeOK
<1>3. CASE SecondPass(w)
  <2>1. run \in Run
    BY <1>0, <1>3 DEF SecondPass
  <2>2. run' \in Run
    BY <1>0, <1>3, <2>1 DEF SecondPass, Run
  <2>3. [work[w] EXCEPT !.pc = "ready", !.pass = "second", !.processed = 0] \in Work
    BY <1>0, WorkTypes
  <2>4. work' \in [Workers -> Work]
    BY <1>3, <2>3, PutType DEF SecondPass
  <2> QED BY <1>3, <2>2, <2>4 DEF SecondPass, WorkOnly, clients, TypeOK
<1>f. ASSUME NEW phase, NEW r \in Run, FinishPhase(w, phase, r), rows' \in [Expenses -> Row \cup {Nothing}]
      PROVE  TypeOK'
  <2>1. run' \in Run
    BY <1>f DEF FinishPhase, Run
  <2>2. work' \in [Workers -> Work]
    BY <1>0, <1>f, PutType DEF FinishPhase
  <2> QED BY <1>f, <2>1, <2>2 DEF FinishPhase, WorkOnly, clients, TypeOK
<1>4. CASE FinishCalibration(w)
  <2> DEFINE sampled == Cardinality(Guessed(work[w]))
  <2>0. run \in Run /\ sampled \in Nat
    BY <1>0, <1>4 DEF FinishCalibration, FinishPhase
  <2>1. FinishPhase(w, "calibration",
              [run EXCEPT !.status = "CALIBRATION_REVIEW",
                          !.processed = IF sampled = 0 THEN @ ELSE sampled,
                          !.total = IF sampled = 0 THEN @ ELSE sampled])
    BY <1>4 DEF FinishCalibration
  <2> HIDE DEF sampled
  <2>2. [run EXCEPT !.status = "CALIBRATION_REVIEW",
                    !.processed = IF sampled = 0 THEN @ ELSE sampled,
                    !.total = IF sampled = 0 THEN @ ELSE sampled] \in Run
    BY <2>0, StatusTypes DEF Run
  <2> QED BY <1>0, <1>4, <1>f, <2>1, <2>2 DEF FinishCalibration
<1>5. CASE FinishFull(w)
  <2>0. run \in Run
    BY <1>0, <1>5 DEF FinishFull, FinishPhase
  <2>1. [run EXCEPT !.status = "REVIEW", !.pass = "complete"] \in Run
    BY <2>0, StatusTypes DEF Run
  <2> QED BY <1>0, <1>5, <1>f, <2>1 DEF FinishFull
<1>6. CASE FinishRerun(w)
  <2>0. run \in Run
    BY <1>0, <1>6 DEF FinishRerun, FinishPhase
  <2>1. [run EXCEPT !.status = "REVIEW", !.processed = 0] \in Run
    BY <2>0, StatusTypes DEF Run
  <2> QED BY <1>0, <1>6, <1>f, <2>1 DEF FinishRerun
<1> QED BY <1>1, <1>2, <1>3, <1>4, <1>5, <1>6

\* Then where they fail, end and die.
LEMMA FailTypes ==
    ASSUME TypeOK, NEW w \in Workers,
           \/ Superseded(w) \/ Throw(w) \/ FailRun(w) \/ EndJob(w)
           \/ Shutdown(w) \/ WorkerCrash(w)
    PROVE  TypeOK'
<1>0. /\ run \in Run \cup {Nothing} /\ job \in Job \cup {Foreign, Nothing}
      /\ work[w] \in Work /\ Idle \in Work /\ Ended(work[w]) \in Work
      /\ [work[w] EXCEPT !.pc = "failing", !.guesses = NoGuesses] \in Work
      /\ [work[w] EXCEPT !.owns = FALSE] \in Work
    BY WorkTypes DEF TypeOK
<1>e. Event => events' \in 0 .. MaxEvents
    BY ConstantsAssumption DEF Event, TypeOK
<1>1. CASE Superseded(w)
  <2>1. work' \in [Workers -> Work]
    BY <1>0, <1>1, PutType DEF Superseded
  <2> QED BY <1>1, <2>1 DEF Superseded, WorkOnly, clients, TypeOK
<1>2. CASE Throw(w)
  <2>1. work' \in [Workers -> Work]
    BY <1>0, <1>2, PutType DEF Throw
  <2>2. events' \in 0 .. MaxEvents
    BY <1>2, <1>e DEF Throw
  <2> QED BY <1>2, <2>1, <2>2 DEF Throw, clients, TypeOK
<1>3. CASE FailRun(w)
  <2>1. work' \in [Workers -> Work]
    BY <1>0, <1>3, PutType DEF FailRun
  <2>2. run' \in Run \cup {Nothing}
    <3>1. Current(w) => run \in Run
      BY <1>0 DEF Current
    <3>2. Failed(work[w].phase) \in Statuses
      BY <1>0, StatusTypes DEF Work
    <3>3. \A r \in Run, status \in Statuses :
              [r EXCEPT !.status = status, !.token = 0, !.old = FALSE] \in Run
      BY DEF Run
    <3> QED BY <1>0, <1>3, <3>1, <3>2, <3>3 DEF FailRun
  <2> QED BY <1>3, <2>1, <2>2 DEF FailRun, WorkOnly, clients, TypeOK
<1>4. CASE EndJob(w)
  <2>1. work' \in [Workers -> Work]
    BY <1>0, <1>4, PutType DEF EndJob
  <2>2. job' \in Job \cup {Foreign, Nothing}
    BY <1>0, <1>4 DEF EndJob
  <2> QED BY <1>4, <2>1, <2>2 DEF EndJob, WorkOnly, clients, TypeOK
<1>5. CASE Shutdown(w)
  <2>1. work' \in [Workers -> Work]
    BY <1>0, <1>5, PutType DEF Shutdown
  <2>2. events' \in 0 .. MaxEvents
    BY <1>5, <1>e DEF Shutdown
  <2> QED BY <1>5, <2>1, <2>2 DEF Shutdown, clients, TypeOK
<1>6. CASE WorkerCrash(w)
  <2>1. work' \in [Workers -> Work]
    BY <1>0, <1>6, PutType DEF WorkerCrash
  <2>2. events' \in 0 .. MaxEvents
    BY <1>6, <1>e DEF WorkerCrash
  <2> QED BY <1>6, <2>1, <2>2 DEF WorkerCrash, clients, TypeOK
<1> QED BY <1>1, <1>2, <1>3, <1>4, <1>5, <1>6

\* And what happens around the run.
LEMMA AroundTypes ==
    ASSUME TypeOK, Ledger \/ Look \/ Expire \/ Occupy \/ Vacate \/ Age
    PROVE  TypeOK'
<1>0. /\ run \in Run \cup {Nothing} /\ rows \in [Expenses -> Row \cup {Nothing}]
      /\ ledger \in [Expenses -> [version : Nat, category : Categories] \cup {Nothing}]
    BY DEF TypeOK
<1>e. Event => events' \in 0 .. MaxEvents
    BY ConstantsAssumption DEF Event, TypeOK
<1>1. CASE Ledger
  <2>0. PICK e \in Expenses : EditExpense(e) \/ DeleteExpense(e)
    BY <1>1 DEF Ledger
  <2>1. ledger' \in [Expenses -> [version : Nat, category : Categories] \cup {Nothing}]
    <3>1. CASE EditExpense(e)
      <4>1. PICK c \in Categories :
              ledger' = [ledger EXCEPT ![e] = [version |-> ledger[e].version + 1, category |-> c]]
        BY <3>1 DEF EditExpense
      <4>2. ledger[e] \in [version : Nat, category : Categories]
        BY <1>0, <3>1 DEF EditExpense
      <4>3. ledger[e].version + 1 \in Nat
        BY <4>2
      <4>4. [version |-> ledger[e].version + 1, category |-> c] \in [version : Nat, category : Categories]
        BY <4>1, <4>3
      <4> HIDE DEF Ledger
      <4> QED BY <1>0, <4>1, <4>4
    <3>2. CASE DeleteExpense(e)
      BY <1>0, <3>2 DEF DeleteExpense
    <3> QED BY <2>0, <3>1, <3>2
  <2>2. events' \in 0 .. MaxEvents /\ UNCHANGED <<run, rows, job, work, call, page, drawn>>
    BY <1>e, <2>0 DEF EditExpense, DeleteExpense, OthersOnly, clients
  <2> QED BY <2>1, <2>2 DEF TypeOK
<1>2. CASE Look
  <2>1. page' \in Page
    <3>1. run \in Run
      BY <1>0, <1>2 DEF Look
    <3>2. \A e \in Rows : rows[e] \in Row
      BY <1>0 DEF Rows
    <3>3. \A e \in Rows : rows[e].category \in Categories
      BY <3>2 DEF Row
    <3>4. [e \in Expenses |-> IF e \in Rows THEN rows[e].category ELSE Nothing]
              \in [Expenses -> Categories \cup {Nothing}]
      BY <3>3
    <3>5. run.id \in Nat /\ run.revision \in Nat
      BY <3>1 DEF Run
    <3> QED BY <1>2, <3>4, <3>5 DEF Look, Page
  <2> QED BY <1>2, <2>1 DEF Look, TypeOK
<1>3. CASE Expire
  BY <1>3 DEF Expire, WorkOnly, clients, TypeOK
<1>4. CASE Occupy
  BY <1>4, <1>e DEF Occupy, OthersOnly, clients, TypeOK
<1>5. CASE Vacate
  BY <1>5 DEF Vacate, WorkOnly, clients, TypeOK
<1>6. CASE Age
  <2>1. run' \in Run
    <3>1. run \in Run
      BY <1>0, <1>6 DEF Age, Busy
    <3> QED BY <1>6, <3>1 DEF Age, Run
  <2>2. events' \in 0 .. MaxEvents
    BY <1>6, <1>e DEF Age, TypeOK
  <2> QED BY <1>6, <2>1, <2>2 DEF Age, clients, TypeOK
<1> QED BY <1>1, <1>2, <1>3, <1>4, <1>5, <1>6

\* Every step keeps every type.
LEMMA TypesKept == ASSUME TypeOK, Saves, [Next]_vars PROVE TypeOK'
<1>1. CASE UNCHANGED vars
  BY <1>1 DEF vars, clients, TypeOK
<1>2. CASE Next
  <2>1. ASSUME NEW a \in Admins, Procedure(a) PROVE TypeOK'
    BY <2>1, StartTypes, ReviewTypes, EndTypes DEF Procedure
  <2>2. ASSUME NEW w \in Workers, Handle(w) \/ Throw(w) \/ Shutdown(w) \/ WorkerCrash(w)
        PROVE  TypeOK'
    BY <2>2, TakeTypes, WriteTypes, FailTypes DEF Handle
  <2> QED BY <1>2, <2>1, <2>2, AroundTypes DEF Next
<1> QED BY <1>1, <1>2

-----------------------------------------------------------------------------
(* The inductive invariant                                                   *)

\* Ids are drawn in order; a run at work has a worker's token.
Ids ==
    /\ page.id <= drawn
    /\ run # Nothing =>
          /\ 1 <= run.id /\ run.id <= drawn /\ run.attempt <= drawn /\ run.token <= drawn
          /\ \A phase \in Phases : run.status = Running(phase) => run.token # 0

\* No two handlers have one token.
Tokens ==
    \A v, w \in Workers : work[v].token = work[w].token /\ work[w].token # 0 => v = w

\* A pending row has no mark and no correction; a marked row is a suggestion
\* that nobody has corrected.
RowOK(row) ==
    /\ row.stage = "PENDING" => ~row.target /\ ~row.second /\ ~Manual(row)
    /\ row.target \/ row.second => row.stage = "SUGGESTED" /\ ~Manual(row)
RowsOK == \A e \in Rows : RowOK(rows[e])

\* What can be left in the rows while a phase is queued, runs or has failed,
\* and nothing when the run is reviewed.
CalibrationShape ==
    /\ At("SUGGESTED") = {} /\ Targets = {} /\ SecondTargets = {}
    /\ run.pass = "first"
FullShape ==
    /\ At("SAMPLE") = {} /\ Targets = {}
    /\ run.pass # "first" => At("PENDING") = {}
    /\ run.pass = "complete" \/ run.mode # "system-one" => SecondTargets = {}
    /\ run.pass # "complete" => \A e \in At("SUGGESTED") : ~Manual(rows[e])
RerunShape == At("PENDING") = {} /\ At("SAMPLE") = {} /\ SecondTargets = {}
ReviewShape == RerunShape /\ Targets = {}

Shape ==
    run # Nothing =>
        /\ run.status \in Stage("calibration") \cup {"CALIBRATION_REVIEW"} => CalibrationShape
        /\ run.status \in Stage("full") => FullShape
        /\ run.status \in Stage("rerun") => RerunShape
        /\ run.status \in {"REVIEW", "DONE"} => ReviewShape

\* The review that ends a phase.
After(phase) == IF phase = "calibration" THEN "CALIBRATION_REVIEW" ELSE "REVIEW"

\* A start replaces a run that is done; a retry puts back the phase it read, or
\* one that has ended since in its review.
CallOK(c) ==
    /\ c.id <= drawn
    /\ c.op = "start" /\ run # Nothing /\ run.id = c.id => run.status = "DONE"
    /\ c.op = "retry" /\ run # Nothing /\ run.id = c.id =>
          /\ c.revision <= run.revision
          /\ c.revision = run.revision =>
                /\ run.status \in Stage(c.phase) \cup {After(c.phase)}
                /\ c.phase = "full" /\ run.status = "REVIEW" => run.pass = "complete"
Calls == \A a \in Admins : CallOK(call[a])

\* What the holder of the run's token may rely on, from reading to writing.
Holds(h) ==
    /\ run # Nothing /\ run.status = Running(h.phase)
    /\ run.attempt = h.attempt /\ run.token = h.token
Reliable(h) ==
    /\ h.pc = "guessed" => Guessed(h) \subseteq Pending(h)
    /\ h.pc = "finish" /\ h.phase = "calibration" => Guessed(h) \subseteq At("PENDING")
    /\ h.pc = "finish" /\ h.phase = "full" => At("PENDING") = {} /\ SecondTargets = {}
    /\ h.pc = "finish" /\ h.phase = "rerun" => Targets = {}
    /\ h.pc \in {"mark", "second"} =>
          run.pass = "first" /\ At("PENDING") = {} /\ run.mode = "system-one"
    /\ h.phase = "full" /\ h.pc \in {"ready", "guessed", "mark", "second", "finish"} =>
          h.pass = run.pass /\ run.pass # "complete"
HandlerOK(h) ==
    /\ h.token <= drawn
    /\ h.pc \in {"idle", "taken", "ended"} => h.token = 0
    /\ h.pc \in {"taken", "claimed"} => Guessed(h) = {}
    /\ h.phase = "calibration" => h.pc # "guessed"
    /\ h.pc \in {"mark", "second"} => h.phase = "full"
    /\ Holds(h) => Reliable(h)
Handlers == \A w \in Workers : HandlerOK(work[w])

\* A displayed page shows the review as it is.
Pages ==
    run # Nothing /\ page.id = run.id =>
        /\ page.revision <= run.revision
        /\ page.revision = run.revision =>
              /\ run.status = "REVIEW"
              /\ \A e \in Expenses :
                    page.seen[e] = IF e \in Rows THEN rows[e].category ELSE Nothing

Kept == Saves /\ Ids /\ Tokens /\ RowsOK /\ Shape /\ Calls /\ Handlers /\ Pages

IInv == TypeOK /\ Kept

\* The initial states satisfy it.
LEMMA InitInvariant == Init => IInv
<1> SUFFICES ASSUME Init PROVE Kept
    BY InitTypes DEF IInv
<1>0. /\ run = Nothing /\ rows = [e \in Expenses |-> Nothing]
      /\ work = [w \in Workers |-> Idle] /\ call = [a \in Admins |-> NoCall]
      /\ page = NoPage /\ drawn = 0
    BY DEF Init
<1>1. Rows = {}
    BY <1>0 DEF Rows
<1>2. Saves /\ Ids
    BY <1>0 DEF Saves, Ids, NoCall, NoPage
<1>3. Tokens /\ Handlers
  <2>1. Idle.token = 0 /\ Idle.pc = "idle" /\ Idle.phase = "full"
    BY DEF Idle
  <2>2. ~Holds(Idle)
    BY <1>0 DEF Holds
  <2>3. HandlerOK(Idle)
    BY <1>0, <2>1, <2>2 DEF HandlerOK
  <2> QED BY <1>0, <2>1, <2>3 DEF Tokens, Handlers
<1>4. Calls
    BY <1>0 DEF Calls, CallOK, NoCall
<1>5. RowsOK /\ Shape /\ Pages
    BY <1>0, <1>1 DEF RowsOK, Shape, Pages
<1> QED BY <1>2, <1>3, <1>4, <1>5 DEF Kept

-----------------------------------------------------------------------------
(* Steps of one kind *)

\* Where the rows stay, so does everything read off them.
LEMMA SameRows ==
    ASSUME rows' = rows
    PROVE  /\ Rows' = Rows /\ Targets' = Targets /\ SecondTargets' = SecondTargets
           /\ \A stage : At(stage)' = At(stage)
           /\ \A h : Pending(h)' = Pending(h)
           /\ \A e \in Expenses : rows'[e] = rows[e]
BY DEF Rows, Targets, SecondTargets, At, Pending

\* So do the stages and the marks where nothing else of a row changes.
LEMMA SameMarks ==
    ASSUME \A e \in Expenses :
               /\ rows'[e] = Nothing <=> rows[e] = Nothing
               /\ rows[e] # Nothing => /\ rows'[e].stage = rows[e].stage
                                       /\ rows'[e].target = rows[e].target
                                       /\ rows'[e].second = rows[e].second
    PROVE  /\ Rows' = Rows /\ Targets' = Targets /\ SecondTargets' = SecondTargets
           /\ \A stage : At(stage)' = At(stage)
BY DEF Rows, Targets, SecondTargets, At

\* A handler stays as it should be where the run and the rows stay.
LEMMA SameHandler ==
    ASSUME run' = run, rows' = rows, drawn \in Nat, drawn' \in Nat, drawn <= drawn',
           NEW h, h.token \in Nat, HandlerOK(h)
    PROVE  HandlerOK(h)'
<1>1. Holds(h)' = Holds(h)
    BY DEF Holds
<1>2. Reliable(h) => Reliable(h)'
    BY SameRows DEF Reliable
<1> QED BY <1>1, <1>2 DEF HandlerOK

\* And a handler that does not hold the run afterwards stays as it should be.
LEMMA OtherHandler ==
    ASSUME drawn \in Nat, drawn' \in Nat, drawn <= drawn',
           NEW h, h.token \in Nat, HandlerOK(h), ~Holds(h)'
    PROVE  HandlerOK(h)'
BY DEF HandlerOK

\* The shape, and the rows, stay where the run and the rows stay.
LEMMA SameShape ==
    ASSUME run' = run, rows' = rows, Shape, RowsOK PROVE Shape' /\ RowsOK'
<1>1. Shape'
    BY SameRows DEF Shape, CalibrationShape, FullShape, RerunShape, ReviewShape, Rows, At
<1>2. RowsOK'
    BY DEF RowsOK, Rows
<1> QED BY <1>1, <1>2

\* A procedure begins, goes on or ends and leaves the run alone.
LEMMA CallFrame ==
    ASSUME IInv, NEW a \in Admins, NEW c, CallOK(c),
           c.op = "save" => Displayed /\ run.status = "REVIEW" /\ Unlocked,
           call' = [call EXCEPT ![a] = c],
           UNCHANGED <<run, rows, work, page, drawn>>
    PROVE  Kept'
<1>0. drawn \in Nat /\ call \in [Admins -> Call] /\ work \in [Workers -> Work]
    BY DEF IInv, TypeOK
<1>1. Saves'
    BY <1>0 DEF IInv, Kept, Saves, Displayed, Unlocked
<1>2. Ids' /\ Tokens'
    BY DEF IInv, Kept, Ids, Tokens
<1>3. RowsOK' /\ Shape'
    BY SameShape DEF IInv, Kept
<1>4. Calls'
  <2>1. \A b \in Admins : CallOK(call'[b])
    BY <1>0 DEF IInv, Kept, Calls
  <2>2. ASSUME NEW d, CallOK(d) PROVE CallOK(d)'
    BY <2>2 DEF CallOK
  <2> QED BY <2>1, <2>2 DEF Calls
<1>5. Handlers'
  <2> SUFFICES ASSUME NEW v \in Workers PROVE HandlerOK(work[v])'
    BY DEF Handlers
  <2>1. HandlerOK(work[v]) /\ work[v].token \in Nat
    BY <1>0 DEF IInv, Kept, Handlers, Work
  <2> QED BY <1>0, <2>1, SameHandler
<1>6. Pages'
    BY SameRows DEF IInv, Kept, Pages
<1> QED BY <1>1, <1>2, <1>3, <1>4, <1>5, <1>6 DEF Kept

\* A handler goes on and leaves the run alone.
LEMMA WorkFrame ==
    ASSUME IInv, NEW w \in Workers, NEW h \in Work, HandlerOK(h),
           h.token \in {0, work[w].token}, Put(w, h),
           UNCHANGED <<run, rows, call, page, drawn>>
    PROVE  Kept'
<1>0. drawn \in Nat /\ work \in [Workers -> Work] /\ work' = [work EXCEPT ![w] = h]
    BY DEF IInv, TypeOK, Put
<1>1. Saves' /\ Ids'
    BY DEF IInv, Kept, Saves, Displayed, Ids
<1>2. Tokens'
    BY <1>0 DEF IInv, Kept, Tokens
<1>3. RowsOK' /\ Shape'
    BY SameShape DEF IInv, Kept
<1>4. Calls'
    BY DEF IInv, Kept, Calls, CallOK
<1>5. Handlers'
  <2> SUFFICES ASSUME NEW v \in Workers PROVE HandlerOK(work[v])'
    BY DEF Handlers
  <2>1. HandlerOK(work'[v]) /\ work'[v].token \in Nat
    BY <1>0 DEF IInv, Kept, Handlers, Work
  <2> QED BY <1>0, <2>1, SameHandler
<1>6. Pages'
    BY SameRows DEF IInv, Kept, Pages
<1> QED BY <1>1, <1>2, <1>3, <1>4, <1>5, <1>6 DEF Kept

\* An admin changes the run, and its revision: no procedure that has read the
\* run, and no handler, can go on from what it was.
LEMMA Bumps ==
    ASSUME IInv, TypeOK', NEW a \in Admins, NEW c,
           call' = [call EXCEPT ![a] = c], c.id \in Nat, c.id <= drawn', c.op \in {"none", "enqueue"},
           \A b \in Admins : b # a => call[b].op # "save",
           run # Nothing, run' # Nothing, run.status # "DONE",
           run'.id = run.id, run'.revision = run.revision + 1,
           run'.attempt <= drawn', run'.token <= drawn', drawn <= drawn',
           \A phase \in Phases : run'.status # Running(phase),
           work' = work, page'.id = page.id
    PROVE  Saves' /\ Ids' /\ Tokens' /\ Calls' /\ Handlers'
<1>0. /\ drawn \in Nat /\ drawn' \in Nat /\ call \in [Admins -> Call]
      /\ work \in [Workers -> Work] /\ page \in Page /\ run \in Run /\ run' \in Run
    BY DEF IInv, TypeOK
<1>1. Saves'
    BY <1>0 DEF Saves
<1>2. Ids'
  <2>1. run.id \in Nat /\ page.id \in Nat
    BY <1>0 DEF Run, Page
  <2> QED BY <1>0, <2>1 DEF IInv, Kept, Ids
<1>3. Tokens'
    BY DEF IInv, Kept, Tokens
<1>4. Calls'
  <2> SUFFICES ASSUME NEW b \in Admins PROVE CallOK(call[b])'
    BY DEF Calls
  <2>1. CASE b = a
    BY <1>0, <2>1 DEF CallOK
  <2>2. CASE b # a
    <3>1. call'[b] = call[b] /\ CallOK(call[b])
      BY <1>0, <2>2 DEF IInv, Kept, Calls
    <3>2. call[b].id \in Nat /\ call[b].revision \in Nat /\ run.revision \in Nat
      BY <1>0 DEF Call, Run
    <3> QED BY <1>0, <3>1, <3>2 DEF CallOK
  <2> QED BY <2>1, <2>2
<1>5. Handlers'
  <2> SUFFICES ASSUME NEW v \in Workers PROVE HandlerOK(work[v])'
    BY DEF Handlers
  <2>1. HandlerOK(work[v]) /\ work[v].token \in Nat /\ work[v].phase \in Phases
    BY <1>0 DEF IInv, Kept, Handlers, Work
  <2>2. ~Holds(work[v])'
    BY <2>1 DEF Holds
  <2> QED BY <1>0, <2>1, <2>2, OtherHandler
<1> QED BY <1>1, <1>2, <1>3, <1>4, <1>5

\* What is queued or at work in a phase stays in that phase, fails, or is
\* reviewed: no start and no save goes on meanwhile, and no page displays it.
LEMMA Moves ==
    ASSUME IInv, TypeOK', NEW phase \in Phases, run # Nothing, run' # Nothing,
           run'.id = run.id, run'.revision = run.revision,
           run.status \in {Queued(phase), Running(phase)},
           run'.status \in Stage(phase) \cup {After(phase)},
           phase = "full" /\ run'.status = "REVIEW" => run'.pass = "complete",
           \A b \in Admins : call'[b] \in {call[b], NoCall},
           page' = page, drawn <= drawn'
    PROVE  Saves' /\ Calls' /\ Pages'
<1>0. /\ drawn \in Nat /\ drawn' \in Nat /\ call \in [Admins -> Call]
      /\ run \in Run /\ run' \in Run /\ page \in Page
    BY DEF IInv, TypeOK
<1>1. run.status # "REVIEW" /\ run.status # "DONE"
    BY StatusFacts
<1>2. NoCall.op = "none" /\ NoCall.id = 0
    BY DEF NoCall
<1>3. Saves'
    BY <1>1, <1>2 DEF IInv, Kept, Saves
<1>4. Calls'
  <2> SUFFICES ASSUME NEW b \in Admins PROVE CallOK(call[b])'
    BY DEF Calls
  <2>1. CASE call'[b] = NoCall
    BY <1>0, <1>2, <2>1 DEF CallOK
  <2>2. CASE call'[b] = call[b]
    <3>1. CallOK(call[b]) /\ call[b].id \in Nat /\ call[b].phase \in Phases
      BY <1>0 DEF IInv, Kept, Calls, Call
    <3>2. run.status \in Stage(call[b].phase) \cup {After(call[b].phase)} => call[b].phase = phase
      BY <3>1, StatusFacts DEF Stage, After
    <3> QED BY <1>0, <1>1, <2>2, <3>1, <3>2 DEF CallOK
  <2> QED BY <2>1, <2>2
<1>5. Pages'
    BY <1>0, <1>1 DEF IInv, Kept, Pages
<1> QED BY <1>3, <1>4, <1>5

\* While one handler holds the run, no other does, or will once it has written.
LEMMA OneHolds ==
    ASSUME IInv, TypeOK', NEW w \in Workers, NEW v \in Workers, v # w, Current(w),
           work'[v] = work[v],
           run' # Nothing => \/ run'.token = run.token
                             \/ \A phase \in Phases : run'.status # Running(phase)
    PROVE  ~Holds(work[v])'
<1>0. work \in [Workers -> Work] /\ run \in Run
    BY DEF IInv, TypeOK, Current
<1>1. work[w].phase \in Phases /\ work[v].phase \in Phases
    BY <1>0 DEF Work
<1>2. work[w].token # 0
    BY <1>1 DEF IInv, Kept, Ids, Current
<1>3. work[v].token # run.token
    BY <1>2 DEF IInv, Kept, Tokens, Current
<1> QED BY <1>1, <1>3 DEF Holds

\* What may be left in the rows depends on the phase, not on how far it is.
LEMMA StageShape ==
    ASSUME Shape, RowsOK, rows' = rows, run # Nothing,
           run'.pass = run.pass, run'.mode = run.mode,
           NEW phase \in Phases, run.status \in Stage(phase), run'.status \in Stage(phase)
    PROVE  Shape' /\ RowsOK'
<1>1. RowsOK'
    BY DEF RowsOK, Rows
<1>2. Shape'
    BY SameRows, StatusFacts
       DEF Shape, Stage, CalibrationShape, FullShape, RerunShape, ReviewShape, Rows, At
<1> QED BY <1>1, <1>2

-----------------------------------------------------------------------------
(* The procedures *)

\* Answers and reads: what is read is what the run is.
LEMMA ReadsKeep ==
    ASSUME IInv, NEW a \in Admins,
           \/ StartRead(a) \/ StartFails(a) \/ SaveRead(a) \/ SaveRollsBack(a)
           \/ RetryRead(a) \/ RetryRefused(a) \/ ApiCrash(a)
    PROVE  Kept'
<1>0. drawn \in Nat /\ (run # Nothing => run \in Run)
    BY DEF IInv, TypeOK
<1>1. CallOK(NoCall) /\ NoCall.op = "none"
    BY <1>0 DEF CallOK, NoCall
<1>2. ASSUME Answer(a), UNCHANGED <<run, rows, work, page, drawn>> PROVE Kept'
    BY <1>1, <1>2, CallFrame DEF Answer
<1>3. CASE StartRead(a)
  <2> DEFINE captured == [e \in Expenses |->
                             IF ledger[e] # Nothing /\ ledger[e].category = General
                             THEN ledger[e].version ELSE Nothing]
             id == IF run = Nothing THEN 0 ELSE run.id
             c == [NoCall EXCEPT !.op = "start", !.id = id, !.captured = captured]
  <2>0. call' = [call EXCEPT ![a] = c]
    BY <1>3 DEF StartRead
  <2> HIDE DEF captured
  <2>1. c.op = "start" /\ c.id = IF run = Nothing THEN 0 ELSE run.id
    BY DEF NoCall
  <2> HIDE DEF c
  <2>2. CallOK(c)
    <3>1. run # Nothing => run.id \in Nat /\ 1 <= run.id /\ run.id <= drawn /\ run.status = "DONE"
      BY <1>0, <1>3 DEF IInv, Kept, Ids, Run, StartRead
    <3> QED BY <1>0, <2>1, <3>1 DEF CallOK
  <2>3. UNCHANGED <<run, rows, work, page, drawn>>
    BY <1>3 DEF StartRead
  <2> QED BY <2>0, <2>1, <2>2, <2>3, CallFrame
<1>4. CASE StartFails(a)
    BY <1>2, <1>4 DEF StartFails
<1>5. CASE SaveRead(a)
  <2> DEFINE skips == {e \in Selected : Conflict(e)}
             c == [NoCall EXCEPT !.op = "save", !.skips = skips]
  <2>0. call' = [call EXCEPT ![a] = c]
    BY <1>5 DEF SaveRead
  <2> HIDE DEF skips
  <2>1. c.op = "save" /\ c.id = 0
    BY DEF NoCall
  <2> HIDE DEF c
  <2>2. CallOK(c)
    BY <1>0, <2>1 DEF CallOK
  <2>3. Displayed /\ run.status = "REVIEW" /\ Unlocked
    BY <1>5 DEF SaveRead, Claims
  <2>4. UNCHANGED <<run, rows, work, page, drawn>>
    BY <1>5 DEF SaveRead
  <2> QED BY <2>0, <2>1, <2>2, <2>3, <2>4, CallFrame
<1>6. CASE SaveRollsBack(a)
    BY <1>2, <1>6 DEF SaveRollsBack
<1>7. CASE RetryRead(a)
  <2>1. PICK phase \in Phases :
          /\ run.status \in Stage(phase)
          /\ call' = [call EXCEPT ![a] = [NoCall EXCEPT !.op = "retry", !.id = run.id,
                                              !.revision = run.revision, !.phase = phase]]
    BY <1>7 DEF RetryRead, Stage
  <2> DEFINE c == [NoCall EXCEPT !.op = "retry", !.id = run.id,
                                 !.revision = run.revision, !.phase = phase]
  <2>2. c.op = "retry" /\ c.id = run.id /\ c.revision = run.revision /\ c.phase = phase
    BY DEF NoCall
  <2> HIDE DEF c
  <2>3. run # Nothing /\ run \in Run
    BY <1>0, <1>7 DEF RetryRead
  <2>4. CallOK(c)
    <3>1. run.id <= drawn /\ run.revision <= run.revision
      BY <2>3 DEF IInv, Kept, Ids, Run
    <3>2. run.status # "REVIEW"
      BY <2>1, StatusFacts DEF Stage
    <3> QED BY <2>1, <2>2, <3>1, <3>2 DEF CallOK
  <2>5. UNCHANGED <<run, rows, work, page, drawn>>
    BY <1>7 DEF RetryRead
  <2>6. call' = [call EXCEPT ![a] = c]
    BY <2>1 DEF c
  <2> QED BY <2>2, <2>4, <2>5, <2>6, CallFrame
<1>8. CASE RetryRefused(a)
    BY <1>2, <1>8 DEF RetryRefused
<1>9. CASE ApiCrash(a)
    BY <1>2, <1>9 DEF ApiCrash
<1> QED BY <1>3, <1>4, <1>5, <1>6, <1>7, <1>8, <1>9

\* A job is sent, or fails its run if nothing has changed that since.
LEMMA EnqueueKeeps == ASSUME IInv, TypeOK', NEW a \in Admins, Enqueue(a) PROVE Kept'
<1>0. /\ drawn \in Nat /\ (run # Nothing => run \in Run) /\ call \in [Admins -> Call]
      /\ call[a].phase \in Phases /\ work \in [Workers -> Work]
    BY DEF IInv, TypeOK, Call
<1>1. CallOK(NoCall) /\ NoCall.op = "none"
    BY <1>0 DEF CallOK, NoCall
<1>2. call' = [call EXCEPT ![a] = NoCall] /\ UNCHANGED <<rows, work, page, drawn>>
    BY DEF Enqueue, Answer
<1>3. CASE run' = run
    BY <1>1, <1>2, <1>3, CallFrame
<1>4. CASE run' # run
  <2> DEFINE phase == call[a].phase
  <2>1. /\ run # Nothing /\ run.status = Queued(phase)
        /\ run' = [run EXCEPT !.status = Failed(phase), !.old = FALSE]
    BY <1>4 DEF Enqueue
  <2>2. run \in Run
    BY <1>0, <2>1
  <2>3. /\ run'.id = run.id /\ run'.revision = run.revision /\ run'.status = Failed(phase)
        /\ run'.pass = run.pass /\ run'.mode = run.mode
        /\ run'.attempt = run.attempt /\ run'.token = run.token
    BY <2>1, <2>2 DEF Run
  <2> HIDE DEF phase
  <2>4. phase \in Phases /\ run' # Nothing
    <3>1. phase \in Phases
      BY <1>0 DEF phase
    <3>2. run' \in Run
      BY <2>1, <2>2, <3>1, StatusTypes DEF Run
    <3> QED BY <3>1, <3>2, Null
  <2>5. \A p \in Phases : Failed(phase) # Running(p)
    BY <2>4, StatusFacts
  <2>6. Failed(phase) # "REVIEW" /\ Failed(phase) \in Stage(phase) /\ Queued(phase) \in Stage(phase)
    BY <2>4, StatusFacts DEF Stage
  <2>7. \A b \in Admins : call'[b] \in {call[b], NoCall}
    BY <1>0, <1>2
  <2>8. Saves' /\ Calls' /\ Pages'
    BY <1>0, <1>2, <2>1, <2>3, <2>4, <2>6, <2>7, Moves
  <2>9. Ids' /\ Tokens'
    BY <1>2, <2>1, <2>3, <2>5 DEF IInv, Kept, Ids, Tokens
  <2>10. Shape' /\ RowsOK'
    BY <1>2, <2>1, <2>3, <2>4, <2>6, StageShape DEF IInv, Kept
  <2>11. Handlers'
    <3> SUFFICES ASSUME NEW v \in Workers PROVE HandlerOK(work[v])'
      BY DEF Handlers
    <3>1. HandlerOK(work[v]) /\ work[v].token \in Nat /\ work[v].phase \in Phases
      BY <1>0 DEF IInv, Kept, Handlers, Work
    <3>2. ~Holds(work[v])'
      BY <1>2, <2>3, <2>5, <3>1 DEF Holds
    <3> QED BY <1>0, <1>2, <3>1, <3>2, OtherHandler
  <2> QED BY <2>8, <2>9, <2>10, <2>11 DEF Kept
<1> QED BY <1>3, <1>4

\* An answer, or a job to send, is about no run.
LEMMA Sends ==
    ASSUME NEW a \in Admins, NEW phase, NEW n, Answer(a) \/ Enqueues(a, phase, n)
    PROVE  \E c : call' = [call EXCEPT ![a] = c] /\ c.id = 0 /\ c.op \in {"none", "enqueue"}
<1>1. CASE Answer(a)
  <2>1. call' = [call EXCEPT ![a] = NoCall] /\ NoCall.id = 0 /\ NoCall.op = "none"
    BY <1>1 DEF Answer, NoCall
  <2> QED BY <2>1
<1>2. CASE Enqueues(a, phase, n)
  <2> DEFINE c == [NoCall EXCEPT !.op = "enqueue", !.phase = phase, !.attempt = n]
  <2>1. call' = [call EXCEPT ![a] = c] /\ c.id = 0 /\ c.op = "enqueue"
    BY <1>2 DEF Enqueues, NoCall
  <2> HIDE DEF c
  <2> QED BY <2>1
<1> QED BY <1>1, <1>2

\* A start has a run of its own, with rows that are all pending or none at all.
LEMMA StartKeeps == ASSUME IInv, TypeOK', NEW a \in Admins, StartCommit(a) PROVE Kept'
<1> DEFINE captured == {e \in Expenses : call[a].captured[e] # Nothing}
<1>0. /\ drawn \in Nat /\ drawn' = drawn + 1 /\ call \in [Admins -> Call] /\ call[a] \in Call
      /\ work \in [Workers -> Work] /\ page \in Page
    BY DrawType DEF IInv, TypeOK, StartCommit
<1>1. /\ run' # Nothing /\ run'.id = drawn + 1 /\ run'.attempt <= drawn + 1 /\ run'.token = 0
      /\ run'.pass = "first"
      /\ run'.status = IF captured = {} THEN "REVIEW" ELSE "QUEUED_CALIBRATION"
  <2>1. PICK mode \in {"local", "system-one"} :
              run' = [id |-> drawn', mode |-> mode, revision |-> 0, processed |-> 0,
                      status |-> IF captured = {} THEN "REVIEW" ELSE Queued("calibration"),
                      total |-> Least(SampleSize, Cardinality(captured)),
                      attempt |-> IF captured = {} THEN 0 ELSE drawn', token |-> 0,
                      pass |-> "first", old |-> FALSE]
    BY DEF StartCommit
  <2>2. /\ run'.id = drawn + 1 /\ run'.token = 0 /\ run'.pass = "first"
        /\ run'.attempt = IF captured = {} THEN 0 ELSE drawn + 1
        /\ run'.status = IF captured = {} THEN "REVIEW" ELSE "QUEUED_CALIBRATION"
    BY <1>0, <2>1, StatusFacts
  <2>3. run' # Nothing
    <3>1. Least(SampleSize, Cardinality(captured)) \in Nat
      BY Counts, ConstantsAssumption DEF Least
    <3>2. (IF captured = {} THEN "REVIEW" ELSE Queued("calibration")) \in Statuses
      BY StatusTypes DEF Phases
    <3>3. (IF captured = {} THEN 0 ELSE drawn') \in Nat
      BY <1>0
    <3>4. run' \in Run
      BY <1>0, <2>1, <3>1, <3>2, <3>3 DEF Run
    <3> QED BY <3>4, Null
  <2> QED BY <1>0, <2>2, <2>3
<1>2. PICK c : call' = [call EXCEPT ![a] = c] /\ c.id = 0 /\ c.op \in {"none", "enqueue"}
    BY Sends DEF StartCommit
<1>3. UNCHANGED <<work, page>>
    BY DEF StartCommit
<1>4. rows' = [e \in Expenses |-> IF e \in captured THEN NewRow(call[a].captured[e]) ELSE Nothing]
    BY DEF StartCommit
<1>5. /\ Rows' \subseteq captured
      /\ \A e \in Rows' : /\ rows'[e].stage = "PENDING" /\ ~rows'[e].target /\ ~rows'[e].second
                          /\ rows'[e].category = rows'[e].initial
  <2>1. ASSUME NEW e \in Rows'
        PROVE  e \in captured /\ rows'[e] = NewRow(call[a].captured[e])
    BY <1>4, <2>1 DEF Rows
  <2>2. ASSUME NEW v
        PROVE  /\ NewRow(v).stage = "PENDING" /\ ~NewRow(v).target /\ ~NewRow(v).second
               /\ NewRow(v).category = NewRow(v).initial
    BY DEF NewRow
  <2>3. ASSUME NEW e \in Rows'
        PROVE  /\ rows'[e].stage = "PENDING" /\ ~rows'[e].target /\ ~rows'[e].second
               /\ rows'[e].category = rows'[e].initial
    <3>1. rows'[e] = NewRow(call[a].captured[e])
      BY <2>1, <2>3
    <3> QED BY <2>2, <3>1
  <2> QED BY <2>1, <2>3
<1>6. run = Nothing \/ (run # Nothing /\ run.status = "DONE")
    BY DEF StartCommit, IInv, Kept, Calls, CallOK
<1> HIDE DEF captured
<1>7. Saves'
    BY <1>0, <1>2, <1>6 DEF IInv, Kept, Saves, Displayed
<1>8. Ids'
  <2>1. page.id \in Nat /\ page.id <= drawn
    BY <1>0 DEF IInv, Kept, Ids, Page
  <2>2. \A phase \in Phases : run'.status # Running(phase)
    BY <1>1, StatusFacts
  <2> QED BY <1>0, <1>1, <1>3, <2>1, <2>2 DEF Ids
<1>9. Tokens'
    BY <1>3 DEF IInv, Kept, Tokens
<1>10. RowsOK'
    BY <1>5 DEF RowsOK, RowOK, Manual
<1>11. Shape'
  <2>1. /\ At("SUGGESTED")' = {} /\ Targets' = {} /\ SecondTargets' = {} /\ At("SAMPLE")' = {}
        /\ captured = {} => At("PENDING")' = {}
    <3>1. \A e \in Rows' : rows'[e].stage \notin {"SUGGESTED", "SAMPLE"}
      BY <1>5
    <3>2. captured = {} => Rows' = {}
      BY <1>5
    <3> QED BY <1>5, <3>1, <3>2 DEF At, Targets, SecondTargets
  <2>2. CASE captured = {}
    BY <1>1, <2>1, <2>2, StatusFacts DEF Shape, Stage, ReviewShape, RerunShape
  <2>3. CASE captured # {}
    BY <1>1, <2>1, <2>3, StatusFacts DEF Shape, Stage, CalibrationShape
  <2> QED BY <2>2, <2>3
<1>12. Calls'
  <2> SUFFICES ASSUME NEW b \in Admins PROVE CallOK(call[b])'
    BY DEF Calls
  <2>1. CASE b = a
    BY <1>0, <1>2, <2>1 DEF CallOK
  <2>2. CASE b # a
    <3>1. call'[b] = call[b] /\ call[b].id \in Nat /\ call[b].id <= drawn
      BY <1>0, <1>2, <2>2 DEF IInv, Kept, Calls, CallOK, Call
    <3>2. call[b].id # run'.id
      BY <1>0, <1>1, <3>1
    <3> QED BY <1>0, <3>1, <3>2 DEF CallOK
  <2> QED BY <2>1, <2>2
<1>13. Handlers'
  <2> SUFFICES ASSUME NEW v \in Workers PROVE HandlerOK(work[v])'
    BY DEF Handlers
  <2>1. HandlerOK(work[v]) /\ work[v].token \in Nat /\ work[v].phase \in Phases
    BY <1>0 DEF IInv, Kept, Handlers, Work
  <2>2. ~Holds(work[v])'
    BY <1>1, <1>3, <2>1, StatusFacts DEF Holds
  <2>3. drawn' \in Nat /\ drawn <= drawn'
    BY <1>0
  <2> QED BY <1>0, <1>3, <2>1, <2>2, <2>3, OtherHandler
<1>14. Pages'
  <2>1. page.id # run'.id
    BY <1>0, <1>1 DEF IInv, Kept, Ids, Page
  <2> QED BY <1>3, <2>1 DEF Pages
<1> QED BY <1>7, <1>8, <1>9, <1>10, <1>11, <1>12, <1>13, <1>14 DEF Kept

\* A discarded run leaves nothing.
LEMMA DiscardKeeps == ASSUME IInv, TypeOK', NEW a \in Admins, Discard(a) PROVE Kept'
<1>0. /\ drawn \in Nat /\ work \in [Workers -> Work] /\ run' = Nothing /\ rows' = NoGuesses
      /\ UNCHANGED <<work, call, page, drawn>> /\ \A b \in Admins : call[b].op # "save"
    BY DEF IInv, TypeOK, Discard, clients, Claims, Unlocked
<1>1. Saves' /\ Ids' /\ Tokens'
    BY <1>0 DEF IInv, Kept, Saves, Ids, Tokens
<1>2. Shape' /\ Pages' /\ Calls'
    BY <1>0 DEF IInv, Kept, Shape, Pages, Calls, CallOK
<1>3. RowsOK'
    BY <1>0 DEF RowsOK, Rows, NoGuesses
<1>4. Handlers'
  <2> SUFFICES ASSUME NEW v \in Workers PROVE HandlerOK(work[v])'
    BY DEF Handlers
  <2>1. HandlerOK(work[v]) /\ work[v].token \in Nat
    BY <1>0 DEF IInv, Kept, Handlers, Work
  <2>2. ~Holds(work[v])'
    BY <1>0 DEF Holds
  <2> QED BY <1>0, <2>1, <2>2, OtherHandler
<1> QED BY <1>1, <1>2, <1>3, <1>4 DEF Kept

\* What a bump leaves of the run.
LEMMA BumpedFields ==
    ASSUME run \in Run
    PROVE  /\ Bumped.id = run.id /\ Bumped.revision = run.revision + 1
           /\ Bumped.status = run.status /\ Bumped.pass = run.pass /\ Bumped.mode = run.mode
           /\ Bumped.attempt = run.attempt /\ Bumped.token = run.token
BY DEF Bumped, Run

\* And what a new attempt leaves of it.
LEMMA RequeuedFields ==
    ASSUME NEW phase, NEW r \in Run
    PROVE  /\ Requeued(phase, r).id = r.id /\ Requeued(phase, r).revision = r.revision
           /\ Requeued(phase, r).status = Queued(phase)
           /\ Requeued(phase, r).pass = r.pass /\ Requeued(phase, r).mode = r.mode
           /\ Requeued(phase, r).attempt = drawn' /\ Requeued(phase, r).token = 0
BY DEF Requeued, Run

\* A page that has not seen a change shows the run no more.
LEMMA PageBehind ==
    ASSUME IInv, run # Nothing, run'.id = run.id, run'.revision = run.revision + 1, page' = page
    PROVE  Pages'
<1>1. page.revision \in Nat /\ run.revision \in Nat /\ run \in Run
    BY DEF IInv, TypeOK, Page, Run
<1> QED BY <1>1 DEF IInv, Kept, Pages

\* A run that is put back, with the next attempt, is at work for nobody.
LEMMA RequeueKeeps ==
    ASSUME IInv, TypeOK', NEW a \in Admins, NEW phase \in Phases,
           Enqueues(a, phase, drawn'), drawn' = drawn + 1, Unlocked,
           run # Nothing, run' # Nothing, run.status # "DONE",
           run'.id = run.id, run'.revision = run.revision + 1,
           run'.status = Queued(phase), run'.attempt = drawn', run'.token = 0,
           work' = work, page' = page
    PROVE  Saves' /\ Ids' /\ Tokens' /\ Calls' /\ Handlers' /\ Pages'
<1>1. drawn \in Nat /\ drawn' \in Nat
    BY DEF IInv, TypeOK
<1>2. PICK c : call' = [call EXCEPT ![a] = c] /\ c.id = 0 /\ c.op \in {"none", "enqueue"}
    BY Sends
<1>3. \A p \in Phases : run'.status # Running(p)
    BY StatusFacts
<1>4. /\ c.id \in Nat /\ c.id <= drawn' /\ run'.attempt <= drawn' /\ run'.token <= drawn'
      /\ drawn <= drawn' /\ \A b \in Admins : call[b].op # "save"
    BY <1>1, <1>2 DEF Unlocked
<1>5. Saves' /\ Ids' /\ Tokens' /\ Calls' /\ Handlers'
    BY <1>2, <1>3, <1>4, Bumps
<1> QED BY <1>5, PageBehind

\* A correction, and a page that knows of it.
LEMMA EditKeeps == ASSUME IInv, TypeOK', NEW a \in Admins, EditSuggestion(a) PROVE Kept'
<1>0. /\ drawn \in Nat /\ call \in [Admins -> Call] /\ run # Nothing /\ run \in Run /\ page \in Page
      /\ run' = Bumped /\ Unlocked /\ run.status \in {"REVIEW", "CALIBRATION_REVIEW"}
      /\ rows \in [Expenses -> Row \cup {Nothing}]
      /\ UNCHANGED <<work, call, drawn>> /\ call[a].op = "none"
    BY DEF IInv, TypeOK, EditSuggestion, Claims, Free
<1>1. PICK e \in Rows, c \in Categories :
          /\ IF run.status = "REVIEW" THEN rows[e].stage \in {"CONFIRMED", "SUGGESTED"}
             ELSE rows[e].stage = "SAMPLE"
          /\ rows' = IF rows[e].category = c THEN rows
                     ELSE [rows EXCEPT ![e].category = c, ![e].feedback = FALSE]
          /\ page' = IF Displayed THEN [page EXCEPT !.revision = @ + 1, !.seen[e] = c]
                     ELSE page
    BY DEF EditSuggestion
<1>2. /\ run'.id = run.id /\ run'.revision = run.revision + 1 /\ run'.status = run.status
      /\ run'.pass = run.pass /\ run'.mode = run.mode
      /\ run'.attempt = run.attempt /\ run'.token = run.token
    BY <1>0, BumpedFields
<1>3. run' # Nothing
    BY <1>0, BumpedType, Null DEF IInv
<1>4. e \in Expenses /\ Rows \subseteq Expenses /\ rows[e] \in Row /\ rows[e] # Nothing
    BY <1>0, <1>1 DEF Rows
<1>5. /\ \A x \in Expenses : x # e => rows'[x] = rows[x]
      /\ rows'[e].category = c /\ rows'[e].stage = rows[e].stage
      /\ rows'[e].target = rows[e].target /\ rows'[e].second = rows[e].second
      /\ rows'[e] # Nothing
  <2>1. CASE rows' = rows /\ rows[e].category = c
    BY <1>4, <2>1
  <2>2. CASE rows' = [rows EXCEPT ![e].category = c, ![e].feedback = FALSE]
    <3>1. rows'[e] = [rows[e] EXCEPT !.category = c, !.feedback = FALSE]
      BY <1>0, <1>4, <2>2
    <3>2. rows'[e] \in Row
      <4>1. \A r \in Row : [r EXCEPT !.category = c, !.feedback = FALSE] \in Row
        BY DEF Row
      <4> QED BY <1>4, <3>1, <4>1
    <3>3. /\ rows'[e].category = c /\ rows'[e].stage = rows[e].stage
          /\ rows'[e].target = rows[e].target /\ rows'[e].second = rows[e].second
      BY <1>4, <3>1 DEF Row
    <3> QED BY <1>0, <1>4, <2>2, <3>2, <3>3, Null
  <2> QED BY <1>1, <2>1, <2>2
<1>6. /\ Rows' = Rows /\ Targets' = Targets /\ SecondTargets' = SecondTargets
      /\ \A stage : At(stage)' = At(stage)
    BY <1>4, <1>5, SameMarks
<1>7. Saves' /\ Ids' /\ Tokens' /\ Calls' /\ Handlers'
  <2>1. call' = [call EXCEPT ![a] = call[a]]
    BY <1>0
  <2>2. call[a].id \in Nat /\ call[a].id <= drawn' /\ drawn <= drawn'
    BY <1>0 DEF IInv, Kept, Calls, CallOK, Call
  <2>3. \A phase \in Phases : run'.status # Running(phase)
    BY <1>0, <1>2, StatusFacts
  <2>4. run'.attempt <= drawn' /\ run'.token <= drawn'
    BY <1>0, <1>2 DEF IInv, Kept, Ids
  <2>5. page'.id = page.id
    BY <1>0, <1>1 DEF Page
  <2>6. work' = work /\ run.status # "DONE" /\ \A b \in Admins : call[b].op # "save"
    BY <1>0 DEF Unlocked
  <2> QED BY <1>0, <1>2, <1>3, <2>1, <2>2, <2>3, <2>4, <2>5, <2>6, Bumps
<1>8. RowsOK'
  <2>1. ~rows[e].target /\ ~rows[e].second
    <3>1. CASE run.status = "REVIEW"
      BY <1>0, <1>1, <3>1 DEF IInv, Kept, Shape, ReviewShape, RerunShape, Targets, SecondTargets
    <3>2. CASE run.status # "REVIEW"
      BY <1>1, <3>2 DEF IInv, Kept, RowsOK, RowOK
    <3> QED BY <3>1, <3>2
  <2>2. rows[e].stage # "PENDING"
    BY <1>1
  <2>3. \A x \in Rows : RowOK(rows'[x])
    <3> SUFFICES ASSUME NEW x \in Rows PROVE RowOK(rows'[x])
      OBVIOUS
    <3>1. CASE x = e
      BY <1>5, <2>1, <2>2, <3>1 DEF RowOK
    <3>2. CASE x # e
      BY <1>4, <1>5, <3>2 DEF IInv, Kept, RowsOK
    <3> QED BY <3>1, <3>2
  <2> QED BY <1>6, <2>3 DEF RowsOK
<1>9. Shape'
    BY <1>0, <1>2, <1>6, StatusFacts
       DEF IInv, Kept, Shape, Stage, CalibrationShape, RerunShape, ReviewShape
<1>10. Pages'
  <2>1. page.revision \in Nat /\ run.revision \in Nat
    BY <1>0 DEF Page, Run
  <2>2. CASE Displayed
    <3>1. /\ run.status = "REVIEW" /\ page.revision = run.revision
          /\ \A x \in Expenses : page.seen[x] = IF x \in Rows THEN rows[x].category ELSE Nothing
      BY <1>0, <2>1, <2>2 DEF IInv, Kept, Pages, Displayed
    <3>2. /\ page'.revision = page.revision + 1 /\ page'.id = page.id
          /\ page'.seen[e] = c /\ \A x \in Expenses : x # e => page'.seen[x] = page.seen[x]
      BY <1>0, <1>1, <1>4, <2>2 DEF Page
    <3>3. \A x \in Expenses : page'.seen[x] = IF x \in Rows THEN rows'[x].category ELSE Nothing
      BY <1>1, <1>5, <3>1, <3>2
    <3> QED BY <1>2, <1>6, <2>1, <3>1, <3>2, <3>3 DEF Pages
  <2>3. CASE ~Displayed
    BY <1>0, <1>1, <1>2, <2>3, PageBehind
  <2> QED BY <2>2, <2>3
<1> QED BY <1>7, <1>8, <1>9, <1>10 DEF Kept

\* A round confirmed: its sample is no sample any more.
LEMMA ConfirmKeeps == ASSUME IInv, TypeOK', NEW a \in Admins, ConfirmRound(a) PROVE Kept'
<1> DEFINE left == Cardinality(Rows \ (At("SAMPLE") \cup At("CONFIRMED")))
<1>0. /\ drawn \in Nat /\ drawn' = drawn + 1 /\ run # Nothing /\ run \in Run
      /\ run.status = "CALIBRATION_REVIEW" /\ Unlocked
      /\ UNCHANGED <<work, page>> /\ rows \in [Expenses -> Row \cup {Nothing}]
    BY DrawType DEF IInv, TypeOK, ConfirmRound, Claims
<1>1. PICK phase \in {"calibration", "full"} :
          /\ run' = [Requeued(phase, Bumped) EXCEPT
                        !.processed = 0,
                        !.total = IF phase = "full" THEN left ELSE Least(SampleSize, left)]
          /\ Enqueues(a, phase, drawn')
    BY DEF ConfirmRound
<1> HIDE DEF left
<1>2. /\ run'.id = run.id /\ run'.revision = run.revision + 1 /\ run'.status = Queued(phase)
      /\ run'.attempt = drawn' /\ run'.token = 0 /\ run'.pass = run.pass /\ run'.mode = run.mode
  <2>1. drawn' \in Nat /\ phase \in Phases /\ Bumped \in Run
    BY <1>0, <1>1, BumpedType DEF IInv, Phases
  <2>2. Requeued(phase, Bumped) \in Run
    BY <2>1, RequeuedType
  <2>3. \A n : \A r \in Run : /\ [r EXCEPT !.processed = 0, !.total = n].id = r.id
                              /\ [r EXCEPT !.processed = 0, !.total = n].revision = r.revision
                              /\ [r EXCEPT !.processed = 0, !.total = n].status = r.status
                              /\ [r EXCEPT !.processed = 0, !.total = n].attempt = r.attempt
                              /\ [r EXCEPT !.processed = 0, !.total = n].token = r.token
                              /\ [r EXCEPT !.processed = 0, !.total = n].pass = r.pass
                              /\ [r EXCEPT !.processed = 0, !.total = n].mode = r.mode
    BY DEF Run
  <2>4. /\ run'.id = Requeued(phase, Bumped).id /\ run'.revision = Requeued(phase, Bumped).revision
        /\ run'.status = Requeued(phase, Bumped).status
        /\ run'.attempt = Requeued(phase, Bumped).attempt
        /\ run'.token = Requeued(phase, Bumped).token
        /\ run'.pass = Requeued(phase, Bumped).pass /\ run'.mode = Requeued(phase, Bumped).mode
    BY <1>1, <2>2, <2>3
  <2> QED BY <1>0, <2>1, <2>4, RequeuedFields, BumpedFields
<1>3. run' # Nothing /\ phase \in Phases
  <2>1. phase \in Phases
    BY <1>1 DEF Phases
  <2>2. drawn' \in Nat /\ Bumped \in Run
    BY <1>0, BumpedType DEF IInv
  <2>3. Requeued(phase, Bumped) \in Run
    BY <2>1, <2>2, RequeuedType
  <2>4. left \in Nat
    BY Counts, RowSets DEF left
  <2>5. (IF phase = "full" THEN left ELSE Least(SampleSize, left)) \in Nat
    BY <2>4, ConstantsAssumption DEF Least
  <2>6. \A r \in Run, n \in Nat : [r EXCEPT !.processed = 0, !.total = n] \in Run
    BY DEF Run
  <2>7. run' \in Run
    BY <1>1, <2>3, <2>5, <2>6
  <2> QED BY <2>1, <2>7, Null
<1>4. rows' = [e \in Expenses |-> IF e \in At("SAMPLE")
                                   THEN [rows[e] EXCEPT !.stage = "CONFIRMED"] ELSE rows[e]]
    BY DEF ConfirmRound
<1>5. Rows \subseteq Expenses /\ At("SAMPLE") \subseteq Rows /\ \A e \in Rows : rows[e] \in Row
    BY <1>0 DEF Rows, At
<1>6. /\ \A e \in Expenses \ At("SAMPLE") : rows'[e] = rows[e]
      /\ \A e \in At("SAMPLE") : /\ rows'[e] # Nothing /\ rows'[e].stage = "CONFIRMED"
                                 /\ rows'[e].target = rows[e].target
                                 /\ rows'[e].second = rows[e].second
  <2>1. \A e \in At("SAMPLE") : rows'[e] = [rows[e] EXCEPT !.stage = "CONFIRMED"]
    BY <1>4, <1>5
  <2>2. \A r \in Row : LET q == [r EXCEPT !.stage = "CONFIRMED"]
                       IN  /\ q \in Row /\ q.stage = "CONFIRMED"
                           /\ q.target = r.target /\ q.second = r.second
    BY DEF Row
  <2>3. \A e \in Expenses \ At("SAMPLE") : rows'[e] = rows[e]
    BY <1>4
  <2>4. ASSUME NEW e \in At("SAMPLE")
        PROVE  /\ rows'[e] \in Row /\ rows'[e].stage = "CONFIRMED"
               /\ rows'[e].target = rows[e].target /\ rows'[e].second = rows[e].second
    <3>1. rows[e] \in Row /\ rows'[e] = [rows[e] EXCEPT !.stage = "CONFIRMED"]
      BY <1>5, <2>1
    <3> QED BY <2>2, <3>1
  <2> QED BY <2>3, <2>4, Null
<1>7. Saves' /\ Ids' /\ Tokens' /\ Calls' /\ Handlers' /\ Pages'
    BY <1>0, <1>1, <1>2, <1>3, RequeueKeeps
<1>8. Rows' = Rows
    BY <1>5, <1>6 DEF Rows
<1>9. RowsOK'
  <2> SUFFICES ASSUME NEW e \in Rows PROVE RowOK(rows'[e])
    BY <1>8 DEF RowsOK
  <2>1. RowOK(rows[e])
    BY DEF IInv, Kept, RowsOK
  <2>2. CASE e \in At("SAMPLE")
    BY <1>6, <2>1, <2>2 DEF RowOK, At
  <2>3. CASE e \notin At("SAMPLE")
    BY <1>5, <1>6, <2>1, <2>3
  <2> QED BY <2>2, <2>3
<1>10. Shape'
  <2>1. At("SUGGESTED") = {} /\ Targets = {} /\ SecondTargets = {} /\ run.pass = "first"
    BY <1>0 DEF IInv, Kept, Shape, CalibrationShape
  <2>2. /\ At("SUGGESTED")' = {} /\ Targets' = {} /\ SecondTargets' = {} /\ At("SAMPLE")' = {}
    <3>1. \A e \in Rows : /\ rows'[e].stage \notin {"SUGGESTED", "SAMPLE"}
                          /\ ~rows'[e].target /\ ~rows'[e].second
      <4> SUFFICES ASSUME NEW e \in Rows
                   PROVE  /\ rows'[e].stage \notin {"SUGGESTED", "SAMPLE"}
                          /\ ~rows'[e].target /\ ~rows'[e].second
        OBVIOUS
      <4>1. ~rows[e].target /\ ~rows[e].second /\ rows[e].stage # "SUGGESTED"
        BY <2>1 DEF Targets, SecondTargets, At
      <4>2. CASE e \in At("SAMPLE")
        BY <1>6, <4>1, <4>2
      <4>3. CASE e \notin At("SAMPLE")
        BY <1>5, <1>6, <4>1, <4>3 DEF At
      <4> QED BY <4>2, <4>3
    <3>2. Targets' = {} /\ SecondTargets' = {}
      BY <1>8, <3>1 DEF Targets, SecondTargets
    <3>3. At("SUGGESTED")' = {} /\ At("SAMPLE")' = {}
      BY <1>8, <3>1 DEF At
    <3> QED BY <3>2, <3>3
  <2> QED BY <1>1, <1>2, <2>1, <2>2, StatusFacts DEF Shape, Stage, CalibrationShape, FullShape
<1> QED BY <1>7, <1>9, <1>10 DEF Kept

\* A rerun: its targets are suggestions that nobody has corrected.
LEMMA RerunKeeps == ASSUME IInv, TypeOK', NEW a \in Admins, Rerun(a) PROVE Kept'
<1> DEFINE corrected == {e \in At("SUGGESTED") : Manual(rows[e])}
<1>0. /\ drawn \in Nat /\ drawn' = drawn + 1 /\ run # Nothing /\ run \in Run
      /\ run.status = "REVIEW" /\ Unlocked /\ Enqueues(a, "rerun", drawn')
      /\ UNCHANGED <<work, page>> /\ rows \in [Expenses -> Row \cup {Nothing}]
    BY DrawType DEF IInv, TypeOK, Rerun, Claims
<1>1. PICK eligible \in Uncertain(RerunEligible) :
          /\ rows' = [e \in Expenses |->
                          IF e \in corrected THEN [rows[e] EXCEPT !.feedback = TRUE]
                          ELSE IF e \in eligible THEN [rows[e] EXCEPT !.target = TRUE]
                          ELSE rows[e]]
          /\ run' = [Requeued("rerun", Bumped) EXCEPT !.processed = 0,
                                                      !.total = Cardinality(eligible)]
    BY DEF Rerun
<1>2. /\ run'.id = run.id /\ run'.revision = run.revision + 1 /\ run'.status = Queued("rerun")
      /\ run'.attempt = drawn' /\ run'.token = 0 /\ run' # Nothing
  <2>1. drawn' \in Nat /\ Bumped \in Run /\ "rerun" \in Phases
    BY <1>0, BumpedType DEF IInv, Phases
  <2>2. Requeued("rerun", Bumped) \in Run
    BY <2>1, RequeuedType
  <2>3. \A n : \A r \in Run : /\ [r EXCEPT !.processed = 0, !.total = n].id = r.id
                              /\ [r EXCEPT !.processed = 0, !.total = n].revision = r.revision
                              /\ [r EXCEPT !.processed = 0, !.total = n].status = r.status
                              /\ [r EXCEPT !.processed = 0, !.total = n].attempt = r.attempt
                              /\ [r EXCEPT !.processed = 0, !.total = n].token = r.token
    BY DEF Run
  <2>4. /\ run'.id = Requeued("rerun", Bumped).id
        /\ run'.revision = Requeued("rerun", Bumped).revision
        /\ run'.status = Requeued("rerun", Bumped).status
        /\ run'.attempt = Requeued("rerun", Bumped).attempt
        /\ run'.token = Requeued("rerun", Bumped).token
    BY <1>1, <2>2, <2>3
  <2>5. Cardinality(eligible) \in Nat
    BY Counts, RowSets DEF Uncertain
  <2>6. \A r \in Run, n \in Nat : [r EXCEPT !.processed = 0, !.total = n] \in Run
    BY DEF Run
  <2>7. run' # Nothing
    BY <1>1, <2>2, <2>5, <2>6, Null
  <2> QED BY <1>0, <2>1, <2>4, <2>7, RequeuedFields, BumpedFields
<1>3. Saves' /\ Ids' /\ Tokens' /\ Calls' /\ Handlers' /\ Pages'
    BY <1>0, <1>2, RequeueKeeps DEF Phases
<1>4. /\ eligible \subseteq Rows /\ Rows \subseteq Expenses /\ \A e \in Rows : rows[e] \in Row
      /\ \A e \in eligible : rows[e].stage = "SUGGESTED" /\ ~Manual(rows[e])
      /\ corrected \subseteq Rows
    BY <1>0 DEF Uncertain, RerunEligible, At, Rows
<1>5. ASSUME NEW e \in Rows
      PROVE  /\ rows'[e] # Nothing /\ rows'[e].stage = rows[e].stage
             /\ rows'[e].category = rows[e].category /\ rows'[e].initial = rows[e].initial
             /\ rows'[e].second = rows[e].second
             /\ rows'[e].target = rows[e].target \/ e \in eligible
  <2>1. rows'[e] \in {rows[e], [rows[e] EXCEPT !.feedback = TRUE]}
           \/ (e \in eligible /\ rows'[e] = [rows[e] EXCEPT !.target = TRUE])
    BY <1>1, <1>4
  <2>2. \A r \in Row : /\ [r EXCEPT !.feedback = TRUE] \in Row /\ [r EXCEPT !.target = TRUE] \in Row
    BY DEF Row
  <2>3. \A r \in Row : LET q == [r EXCEPT !.feedback = TRUE]
                       IN  /\ q.stage = r.stage /\ q.category = r.category
                           /\ q.initial = r.initial /\ q.second = r.second /\ q.target = r.target
    BY DEF Row
  <2>4. \A r \in Row : LET q == [r EXCEPT !.target = TRUE]
                       IN  /\ q.stage = r.stage /\ q.category = r.category
                           /\ q.initial = r.initial /\ q.second = r.second
    BY DEF Row
  <2>5. rows[e] \in Row
    BY <1>4
  <2> QED BY <2>1, <2>2, <2>3, <2>4, <2>5, Null, ZenonT(60)
<1>6. Rows' = Rows
  <2>1. \A e \in Expenses \ Rows : rows'[e] = rows[e]
    BY <1>1, <1>4
  <2> QED BY <1>4, <1>5, <2>1 DEF Rows
<1>7. RowsOK'
  <2> SUFFICES ASSUME NEW e \in Rows PROVE RowOK(rows'[e])
    BY <1>6 DEF RowsOK
  <2>1. RowOK(rows[e])
    BY DEF IInv, Kept, RowsOK
  <2> QED BY <1>4, <1>5, <2>1 DEF RowOK, Manual
<1>8. Shape'
  <2>1. At("PENDING") = {} /\ At("SAMPLE") = {} /\ SecondTargets = {}
    BY <1>0 DEF IInv, Kept, Shape, ReviewShape, RerunShape
  <2>2. At("PENDING")' = {} /\ At("SAMPLE")' = {} /\ SecondTargets' = {}
    BY <1>5, <1>6, <2>1 DEF At, SecondTargets
  <2> QED BY <1>2, <2>2, StatusFacts DEF Shape, Stage, RerunShape
<1> QED BY <1>3, <1>7, <1>8 DEF Kept

\* A save ends the run as it was reviewed.
LEMMA SaveKeeps == ASSUME IInv, TypeOK', NEW a \in Admins, SaveWrite(a) PROVE Kept'
<1>0. /\ call[a].op = "save" /\ run # Nothing /\ run.status = "REVIEW" /\ run \in Run
      /\ \A b \in Admins : b # a => call[b].op # "save"
      /\ drawn \in Nat /\ UNCHANGED <<rows, work, page, drawn>> /\ Answer(a)
    BY DEF IInv, TypeOK, Kept, Saves, Displayed, SaveWrite
<1>1. run' = [Bumped EXCEPT !.status = "DONE", !.processed = Cardinality(Selected),
                            !.total = Cardinality(Selected)]
    BY DEF SaveWrite
<1>2. /\ run'.id = run.id /\ run'.revision = run.revision + 1 /\ run'.status = "DONE"
      /\ run'.pass = run.pass /\ run'.attempt = run.attempt /\ run'.token = run.token
      /\ run' # Nothing
  <2>1. Bumped \in Run
    BY <1>0, BumpedType DEF IInv
  <2>2. Cardinality(Selected) \in Nat
    BY Counts, RowSets
  <2>3. \A r \in Run, n \in Nat :
           LET q == [r EXCEPT !.status = "DONE", !.processed = n, !.total = n]
           IN  /\ q \in Run /\ q.id = r.id /\ q.revision = r.revision /\ q.status = "DONE"
               /\ q.pass = r.pass /\ q.attempt = r.attempt /\ q.token = r.token
    BY StatusTypes DEF Run
  <2> QED BY <1>0, <1>1, <2>1, <2>2, <2>3, BumpedFields, Null
<1>3. PICK c : call' = [call EXCEPT ![a] = c] /\ c.id = 0 /\ c.op \in {"none", "enqueue"}
    BY <1>0, Sends
<1>4. \A phase \in Phases : run'.status # Running(phase)
    BY <1>2, StatusFacts
<1>5. run'.attempt <= drawn' /\ run'.token <= drawn' /\ drawn <= drawn' /\ c.id \in Nat /\ c.id <= drawn'
    BY <1>0, <1>2, <1>3 DEF IInv, Kept, Ids
<1>6. Saves' /\ Ids' /\ Tokens' /\ Calls' /\ Handlers'
    BY <1>0, <1>2, <1>3, <1>4, <1>5, Bumps
<1>7. Pages'
    BY <1>0, <1>2, PageBehind
<1>8. RowsOK'
    BY <1>0, SameRows DEF IInv, Kept, RowsOK
<1>9. Shape'
    BY <1>0, <1>2, SameRows, StatusFacts DEF IInv, Kept, Shape, Stage, ReviewShape, RerunShape
<1> QED BY <1>6, <1>7, <1>8, <1>9 DEF Kept

\* A retry puts a phase back that has what it needs, even one that has ended.
LEMMA RetryKeeps == ASSUME IInv, TypeOK', NEW a \in Admins, RetryCommit(a) PROVE Kept'
<1> DEFINE phase == call[a].phase
<1>0. /\ run # Nothing /\ run \in Run /\ run.id = call[a].id /\ run.revision = call[a].revision
      /\ drawn \in Nat /\ drawn' = drawn + 1 /\ Unlocked /\ phase \in Phases
      /\ call[a].op = "retry" /\ Enqueues(a, phase, drawn') /\ run' = Requeued(phase, Bumped)
      /\ UNCHANGED <<rows, work, page>>
    BY DrawType DEF IInv, TypeOK, RetryCommit, Unchanged, Call
<1>1. /\ run.status \in Stage(phase) \cup {After(phase)}
      /\ phase = "full" /\ run.status = "REVIEW" => run.pass = "complete"
  <2>1. run.revision \in Nat
    BY <1>0 DEF Run
  <2> QED BY <1>0, <2>1 DEF IInv, Kept, Calls, CallOK
<1> HIDE DEF phase
<1>2. /\ run'.id = run.id /\ run'.revision = run.revision + 1 /\ run'.status = Queued(phase)
      /\ run'.attempt = drawn' /\ run'.token = 0 /\ run'.pass = run.pass /\ run'.mode = run.mode
      /\ run' # Nothing
  <2>1. Bumped \in Run /\ drawn' \in Nat
    BY <1>0, BumpedType DEF IInv
  <2> QED BY <1>0, <2>1, RequeuedType, RequeuedFields, BumpedFields, Null
<1>3. run.status # "DONE"
    BY <1>0, <1>1, StatusFacts DEF Stage, After
<1>4. Saves' /\ Ids' /\ Tokens' /\ Calls' /\ Handlers' /\ Pages'
    BY <1>0, <1>2, <1>3, RequeueKeeps
<1>5. Shape' /\ RowsOK'
  <2>1. CASE run.status \in Stage(phase)
    <3>1. run'.status \in Stage(phase)
      BY <1>2 DEF Stage
    <3> QED BY <1>0, <1>2, <2>1, <3>1, StageShape DEF IInv, Kept
  <2>2. CASE run.status = After(phase)
    <3>1. RowsOK'
      BY <1>0, SameRows DEF IInv, Kept, RowsOK
    <3>2. CASE phase = "calibration"
      <4>1. CalibrationShape /\ run'.status = "QUEUED_CALIBRATION"
        BY <1>0, <1>2, <2>2, <3>2, StatusFacts DEF IInv, Kept, Shape, After
      <4>2. CalibrationShape'
        BY <1>0, <1>2, <4>1, SameRows DEF CalibrationShape
      <4> QED BY <3>1, <4>1, <4>2, StatusFacts DEF Shape, Stage, CalibrationShape
    <3>3. CASE phase = "full"
      <4>1. ReviewShape /\ run.pass = "complete" /\ run'.status = "QUEUED"
        BY <1>0, <1>1, <1>2, <2>2, <3>3, StatusFacts DEF IInv, Kept, Shape, After
      <4>2. FullShape'
        BY <1>0, <1>2, <4>1, SameRows DEF ReviewShape, RerunShape, FullShape
      <4> QED BY <3>1, <4>1, <4>2, StatusFacts DEF Shape, Stage, FullShape
    <3>4. CASE phase = "rerun"
      <4>1. ReviewShape /\ run'.status = "QUEUED_RERUN"
        BY <1>0, <1>2, <2>2, <3>4, StatusFacts DEF IInv, Kept, Shape, After
      <4>2. RerunShape'
        BY <1>0, <4>1, SameRows DEF ReviewShape, RerunShape
      <4> QED BY <3>1, <4>1, <4>2, StatusFacts DEF Shape, Stage, RerunShape
    <3> QED BY <1>0, <3>1, <3>2, <3>3, <3>4 DEF Phases
  <2> QED BY <1>1, <2>1, <2>2
<1> QED BY <1>4, <1>5 DEF Kept

\* Every step of a procedure.
LEMMA ProceduresKeep == ASSUME IInv, TypeOK', NEW a \in Admins, Procedure(a) PROVE Kept'
BY ReadsKeep, EnqueueKeeps, StartKeeps, DiscardKeeps, EditKeeps, ConfirmKeeps, RerunKeeps,
   SaveKeeps, RetryKeeps DEF Procedure

-----------------------------------------------------------------------------
(* The handlers *)

\* A handler that is idle or has ended relies on nothing.
LEMMA EndedOK ==
    ASSUME drawn \in Nat
    PROVE  /\ HandlerOK(Idle) /\ Idle.token = 0
           /\ \A h \in Work : HandlerOK(Ended(h)) /\ Ended(h).token = 0
<1>1. Idle.token = 0 /\ Idle.pc = "idle" /\ Idle.phase = "full"
    BY DEF Idle
<1>2. ASSUME NEW h \in Work
      PROVE  Ended(h).token = 0 /\ Ended(h).pc = "ended" /\ Ended(h).phase = "full"
    BY DEF Ended, Idle
<1> QED BY <1>1, <1>2 DEF HandlerOK, Reliable

\* So is a handler that has failed.
LEMMA FailingOK ==
    ASSUME drawn \in Nat, NEW h \in Work, HandlerOK(h)
    PROVE  LET f == [h EXCEPT !.pc = "failing", !.guesses = NoGuesses]
           IN  HandlerOK(f) /\ f.token = h.token
<1> DEFINE f == [h EXCEPT !.pc = "failing", !.guesses = NoGuesses]
<1>1. f.token = h.token /\ f.pc = "failing" /\ f.phase = h.phase
    BY DEF Work
<1> HIDE DEF f
<1>2. HandlerOK(f)
    BY <1>1 DEF HandlerOK, Reliable
<1> QED BY <1>1, <1>2 DEF f

\* So is a handler that has lost its job and runs on.
LEMMA DisownedOK ==
    ASSUME drawn \in Nat, NEW h \in Work, HandlerOK(h)
    PROVE  LET f == [h EXCEPT !.owns = FALSE] IN HandlerOK(f) /\ f.token = h.token
<1> DEFINE f == [h EXCEPT !.owns = FALSE]
<1>1. /\ f.token = h.token /\ f.pc = h.pc /\ f.phase = h.phase /\ f.attempt = h.attempt
      /\ f.pass = h.pass /\ f.guesses = h.guesses
    BY DEF Work
<1> HIDE DEF f
<1>2. /\ Guessed(f) = Guessed(h) /\ Pending(f) = Pending(h)
      /\ Holds(f) = Holds(h)
    BY <1>1 DEF Guessed, Pending, Holds
<1>3. HandlerOK(f)
    BY <1>1, <1>2 DEF HandlerOK, Reliable
<1> QED BY <1>1, <1>3 DEF f

\* Where a handler takes a job, reads, suggests, is refused, fails or dies.
LEMMA HandlerReadsKeep ==
    ASSUME IInv, NEW w \in Workers,
           \/ Take(w) \/ Obsolete(w) \/ Begin(w) \/ Suggest(w) \/ Exhausted(w)
           \/ Superseded(w) \/ Throw(w) \/ EndJob(w) \/ Shutdown(w) \/ WorkerCrash(w)
    PROVE  Kept'
<1>0. /\ drawn \in Nat /\ work[w] \in Work /\ HandlerOK(work[w]) /\ Idle \in Work
      /\ Ended(work[w]) \in Work /\ job \in Job \cup {Foreign, Nothing}
    BY WorkTypes DEF IInv, Kept, Handlers, TypeOK
<1> DEFINE failing == [work[w] EXCEPT !.pc = "failing", !.guesses = NoGuesses]
<1>f. failing \in Work /\ HandlerOK(failing) /\ failing.token = work[w].token
    BY <1>0, FailingOK, WorkTypes
<1> HIDE DEF failing
<1>u. UNCHANGED <<run, rows, call, page, drawn>>
    BY DEF Take, Obsolete, Begin, Suggest, Exhausted, Superseded, Throw, EndJob, Shutdown,
           WorkerCrash, WorkOnly, clients
<1>e. ASSUME Put(w, Ended(work[w])) \/ Put(w, Idle) \/ Put(w, failing) PROVE Kept'
    BY <1>0, <1>e, <1>f, <1>u, EndedOK, WorkFrame
<1>1. CASE Take(w)
  <2>1. job \in Job
    BY <1>0, <1>1 DEF Take
  <2> DEFINE h == [Idle EXCEPT !.pc = "taken", !.phase = job.phase, !.attempt = job.attempt,
                               !.owns = TRUE]
  <2>2. h \in Work
    BY <2>1 DEF Idle, Work, NoGuesses, Job
  <2>3. h.pc = "taken" /\ h.token = 0 /\ h.guesses = NoGuesses
    BY DEF Idle
  <2>4. Put(w, h)
    BY <1>1 DEF Take
  <2> HIDE DEF h
  <2>5. Guessed(h) = {}
    BY <2>3 DEF Guessed, NoGuesses
  <2>6. HandlerOK(h)
    BY <1>0, <2>3, <2>5 DEF HandlerOK, Reliable
  <2> QED BY <1>u, <2>2, <2>3, <2>4, <2>6, WorkFrame
<1>2. CASE Obsolete(w)
    BY <1>2, <1>e DEF Obsolete
<1>3. CASE Begin(w)
  <2>1. CASE Put(w, Ended(work[w]))
    BY <1>e, <2>1
  <2>2. CASE ~Put(w, Ended(work[w]))
    <3> DEFINE pc == IF work[w].phase = "calibration" /\ At("SAMPLE") # {}
                     THEN "finish" ELSE "ready"
               h == [work[w] EXCEPT !.processed = run.processed, !.pass = run.pass, !.pc = pc]
    <3>0. run \in Run /\ work[w].pc = "claimed"
      BY <1>3 DEF IInv, TypeOK, Begin, Present
    <3>1. Put(w, h) /\ ~(work[w].phase = "full" /\ run.pass = "complete")
      BY <1>3, <2>2 DEF Begin
    <3>2. pc = "ready" \/ (pc = "finish" /\ work[w].phase = "calibration")
      OBVIOUS
    <3> HIDE DEF pc
    <3>3. /\ h.token = work[w].token /\ h.pc = pc /\ h.phase = work[w].phase
          /\ h.pass = run.pass /\ h.guesses = work[w].guesses
      BY <1>0 DEF Work
    <3>4. h \in Work
      <4>1. run.processed \in Nat /\ run.pass \in {"first", "second", "complete"}
        BY <3>0 DEF Run
      <4> QED BY <1>0, <3>2, <4>1, WorkTypes
    <3> HIDE DEF h
    <3>5. Guessed(h) = {}
      BY <1>0, <3>0, <3>3 DEF HandlerOK, Guessed
    <3>6. HandlerOK(h)
      BY <1>0, <3>0, <3>1, <3>2, <3>3, <3>5 DEF HandlerOK, Reliable
    <3> QED BY <1>u, <3>1, <3>3, <3>4, <3>6, WorkFrame
  <2> QED BY <2>1, <2>2
<1>4. CASE Suggest(w)
  <2>1. PICK chunk \in SUBSET Pending(work[w]), guesses \in [Expenses -> Categories \cup {Nothing}] :
          /\ \A e \in Expenses : e \notin chunk => guesses[e] = Nothing
          /\ Put(w, [work[w] EXCEPT !.guesses = guesses,
                                    !.pc = IF work[w].phase = "calibration" THEN "finish"
                                           ELSE "guessed"])
    BY <1>4 DEF Suggest
  <2> DEFINE pc == IF work[w].phase = "calibration" THEN "finish" ELSE "guessed"
             h == [work[w] EXCEPT !.guesses = guesses, !.pc = pc]
  <2>2. Put(w, h)
    BY <2>1
  <2>3. /\ \/ work[w].phase = "calibration" /\ pc = "finish"
           \/ work[w].phase # "calibration" /\ pc = "guessed"
        /\ work[w].pc = "ready"
    <3>1. work[w].pc = "ready"
      BY <1>4 DEF Suggest
    <3> QED BY <3>1
  <2> HIDE DEF pc
  <2>4. /\ h.token = work[w].token /\ h.pc = pc /\ h.phase = work[w].phase
        /\ h.attempt = work[w].attempt /\ h.pass = work[w].pass /\ h.guesses = guesses
    BY <1>0 DEF Work
  <2>5. h \in Work
    BY <1>0, <2>3, WorkTypes
  <2> HIDE DEF h
  <2>6. Guessed(h) \subseteq Pending(h) /\ Pending(h) = Pending(work[w])
    BY <2>1, <2>4 DEF Guessed, Pending
  <2>7. h.phase = "calibration" => Guessed(h) \subseteq At("PENDING")
    BY <2>6 DEF Pending
  <2>8. Holds(h) = Holds(work[w])
    BY <2>4 DEF Holds
  <2>9. HandlerOK(h)
    BY <1>0, <2>3, <2>4, <2>6, <2>7, <2>8 DEF HandlerOK, Reliable
  <2> QED BY <1>u, <2>2, <2>4, <2>5, <2>9, WorkFrame
<1>5. CASE Exhausted(w)
  <2> DEFINE pc == IF work[w].phase = "full" /\ work[w].pass = "first" /\ run.mode = "system-one"
                   THEN "mark" ELSE "finish"
             h == [work[w] EXCEPT !.pc = pc]
  <2>1. /\ Put(w, h) /\ work[w].pc = "ready" /\ work[w].phase # "calibration"
        /\ Pending(work[w]) = {}
    BY <1>5 DEF Exhausted
  <2>2. \/ pc = "mark" /\ work[w].phase = "full" /\ work[w].pass = "first" /\ run.mode = "system-one"
        \/ pc = "finish" /\ ~(work[w].phase = "full" /\ work[w].pass = "first" /\ run.mode = "system-one")
    OBVIOUS
  <2> HIDE DEF pc
  <2>3. /\ h.token = work[w].token /\ h.pc = pc /\ h.phase = work[w].phase
        /\ h.attempt = work[w].attempt /\ h.pass = work[w].pass
    BY <1>0 DEF Work
  <2>4. h \in Work
    BY <1>0, <2>2, WorkTypes
  <2> HIDE DEF h
  <2>5. Holds(h) = Holds(work[w])
    BY <2>3 DEF Holds
  <2>6. ASSUME Holds(h) PROVE Reliable(h)
    <3>1. Reliable(work[w]) /\ run # Nothing /\ run.status = Running(work[w].phase)
      BY <1>0, <2>3, <2>5, <2>6 DEF HandlerOK, Holds
    <3>2. CASE h.phase = "full"
      <4>1. work[w].pass = run.pass /\ run.pass # "complete"
        BY <2>1, <2>3, <3>1, <3>2 DEF Reliable
      <4>2. FullShape
        BY <2>3, <3>1, <3>2 DEF IInv, Kept, Shape, Stage
      <4>3. run \in Run
        BY <3>1 DEF IInv, TypeOK
      <4>4. run.pass \in {"first", "second"}
        BY <4>1, <4>3 DEF Run
      <4>5. At("PENDING") = {}
        BY <2>1, <2>3, <3>2, <4>1, <4>2, <4>4 DEF Pending, FullShape
      <4>6. pc = "finish" => SecondTargets = {}
        <5>1. CASE run.pass = "second"
          BY <2>1, <2>3, <3>2, <4>1, <5>1 DEF Pending
        <5>2. CASE run.pass = "first"
          BY <2>2, <2>3, <3>2, <4>1, <4>2, <5>2 DEF FullShape
        <5> QED BY <4>4, <5>1, <5>2
      <4> QED BY <2>2, <2>3, <3>2, <4>1, <4>5, <4>6 DEF Reliable
    <3>3. CASE h.phase = "rerun"
      <4>1. Targets = {}
        BY <2>1, <2>3, <3>3 DEF Pending
      <4> QED BY <2>2, <2>3, <3>3, <4>1 DEF Reliable
    <3>4. h.phase \in {"full", "rerun"}
      BY <1>0, <2>1, <2>3 DEF Work, Phases
    <3> QED BY <3>2, <3>3, <3>4
  <2>7. HandlerOK(h)
    BY <1>0, <2>1, <2>2, <2>3, <2>6 DEF HandlerOK
  <2> QED BY <1>u, <2>1, <2>3, <2>4, <2>7, WorkFrame
<1>6. CASE Superseded(w)
    BY <1>6, <1>e DEF Superseded, failing
<1>7. CASE Throw(w)
    BY <1>7, <1>e DEF Throw, failing
<1>8. CASE EndJob(w)
    BY <1>8, <1>e DEF EndJob
<1>9. CASE Shutdown(w)
  <2> DEFINE h == [work[w] EXCEPT !.owns = FALSE]
  <2>1. h \in Work /\ HandlerOK(h) /\ h.token = work[w].token
    BY <1>0, DisownedOK, WorkTypes
  <2>2. Put(w, h)
    BY <1>9 DEF Shutdown
  <2> HIDE DEF h
  <2> QED BY <1>u, <2>1, <2>2, WorkFrame
<1>10. CASE WorkerCrash(w)
    BY <1>10, <1>e DEF WorkerCrash
<1> QED BY <1>1, <1>2, <1>3, <1>4, <1>5, <1>6, <1>7, <1>8, <1>9, <1>10

\* The holder of the run writes: nobody else holds it, before or afterwards.
LEMMA WritesKeep ==
    ASSUME IInv, TypeOK', NEW w \in Workers, NEW h \in Work, Put(w, h), Current(w),
           run' # Nothing, run'.id = run.id, run'.revision = run.revision,
           run'.attempt = run.attempt,
           run'.status \in Stage(work[w].phase) \cup {After(work[w].phase)},
           work[w].phase = "full" /\ run'.status = "REVIEW" => run'.pass = "complete",
           \/ run'.token = run.token /\ run'.status = run.status
           \/ run'.token = 0 /\ \A phase \in Phases : run'.status # Running(phase),
           HandlerOK(h)', h.token \in {0, work[w].token},
           call' = call, page' = page, drawn' = drawn
    PROVE  Saves' /\ Ids' /\ Tokens' /\ Calls' /\ Handlers' /\ Pages'
<1>0. /\ drawn \in Nat /\ work \in [Workers -> Work] /\ work' = [work EXCEPT ![w] = h]
      /\ run # Nothing /\ run \in Run /\ run.status = Running(work[w].phase)
      /\ work[w].phase \in Phases
    BY DEF IInv, TypeOK, Put, Current, Work
<1>1. Saves' /\ Calls' /\ Pages'
  <2>1. run.status \in {Queued(work[w].phase), Running(work[w].phase)} /\ drawn <= drawn'
    BY <1>0
  <2> QED BY <1>0, <2>1, Moves
<1>2. Ids'
    BY <1>0 DEF IInv, Kept, Ids
<1>3. Tokens'
    BY <1>0 DEF IInv, Kept, Tokens
<1>4. Handlers'
  <2> SUFFICES ASSUME NEW v \in Workers PROVE HandlerOK(work[v])'
    BY DEF Handlers
  <2>1. CASE v = w
    BY <1>0, <2>1
  <2>2. CASE v # w
    <3>1. work'[v] = work[v] /\ HandlerOK(work[v]) /\ work[v].token \in Nat
      BY <1>0, <2>2 DEF IInv, Kept, Handlers, Work
    <3>2. ~Holds(work[v])'
      BY <2>2, <3>1, OneHolds
    <3>3. HandlerOK(work'[v])
      BY <3>1
    <3>4. work'[v].token \in Nat /\ drawn <= drawn'
      BY <1>0, <3>1
    <3> QED BY <1>0, <3>2, <3>3, <3>4, OtherHandler
  <2> QED BY <2>1, <2>2
<1> QED BY <1>1, <1>2, <1>3, <1>4

\* The rows after suggestions are written: as many, and those suggested are not
\* corrected and have no mark that they had not.
LEMMA WrittenRows ==
    ASSUME TypeOK, NEW h \in Work, NEW stage \in {"SAMPLE", "SUGGESTED"}, rows' = Written(h, stage)
    PROVE  /\ Rows' = Rows
           /\ \A e \in Rows : e \notin Guessed(h) => rows'[e] = rows[e]
           /\ \A e \in Rows : e \in Guessed(h) =>
                 /\ rows'[e].stage = stage /\ ~Manual(rows'[e])
                 /\ rows'[e].target => rows[e].target /\ h.phase # "rerun"
                 /\ rows'[e].second => rows[e].second /\ ~(h.phase = "full" /\ h.pass = "second")
<1>1. /\ rows \in [Expenses -> Row \cup {Nothing}] /\ \A e \in Rows : rows[e] \in Row
      /\ Rows \subseteq Expenses
      /\ rows' \in [Expenses -> Row \cup {Nothing}]
    BY WrittenType DEF TypeOK, Rows
<1>2. \A e \in Expenses \ Rows : rows'[e] = rows[e]
    BY DEF Written
<1>3. \A e \in Rows : e \notin Guessed(h) => rows'[e] = rows[e]
    BY <1>1 DEF Written, Guessed
<1>4. ASSUME NEW e \in Rows, e \in Guessed(h)
      PROVE  /\ rows'[e] \in Row /\ rows'[e].stage = stage /\ rows'[e].category = rows'[e].initial
             /\ rows'[e].target => rows[e].target /\ h.phase # "rerun"
             /\ rows'[e].second => rows[e].second /\ ~(h.phase = "full" /\ h.pass = "second")
  <2>1. h.guesses[e] \in Categories /\ rows[e] \in Row
    BY <1>1, <1>4 DEF Guessed, Work
  <2>2. rows'[e] = Suggested(h, rows[e], h.guesses[e], stage)
    BY <1>1, <1>4 DEF Written, Guessed
  <2> DEFINE t == rows[e].target /\ h.phase # "rerun"
             s == rows[e].second /\ ~(h.phase = "full" /\ h.pass = "second")
  <2>3. rows'[e] = [rows[e] EXCEPT !.stage = stage, !.category = h.guesses[e],
                                   !.initial = h.guesses[e], !.target = t, !.second = s]
    BY <2>1, <2>2 DEF Suggested, Row
  <2>4. /\ t \in BOOLEAN /\ s \in BOOLEAN
        /\ t => rows[e].target /\ h.phase # "rerun"
        /\ s => rows[e].second /\ ~(h.phase = "full" /\ h.pass = "second")
    OBVIOUS
  <2> HIDE DEF t, s
  <2>5. rows'[e] \in Row
    BY <2>1, <2>3, <2>4 DEF Row
  <2>6. /\ rows'[e].stage = stage /\ rows'[e].category = rows'[e].initial
        /\ rows'[e].target = t /\ rows'[e].second = s
    BY <2>1, <2>3 DEF Row
  <2> QED BY <2>4, <2>5, <2>6
<1>5. Rows' = Rows
  <2>1. \A e \in Rows : rows'[e] # Nothing
    BY <1>1, <1>3, <1>4, Null
  <2> QED BY <1>1, <1>2, <2>1 DEF Rows
<1> QED BY <1>3, <1>4, <1>5 DEF Manual

\* A claim: the token is new, so nobody who held the run holds it now.
LEMMA ClaimKeeps == ASSUME IInv, TypeOK', NEW w \in Workers, Claim(w) PROVE Kept'
<1>0. /\ drawn \in Nat /\ drawn' = drawn + 1 /\ work \in [Workers -> Work] /\ work[w] \in Work
      /\ work[w].phase \in Phases /\ HandlerOK(work[w]) /\ work[w].pc = "taken"
      /\ run # Nothing /\ run \in Run
      /\ run.status \in {Queued(work[w].phase), Running(work[w].phase)}
      /\ UNCHANGED <<rows, call, page>>
    BY DEF IInv, TypeOK, Kept, Handlers, Work, Claim, Claimable, clients
<1>1. run' = [run EXCEPT !.status = Running(work[w].phase), !.token = drawn', !.old = FALSE]
    BY DEF Claim
<1>2. /\ run' # Nothing /\ run'.id = run.id /\ run'.revision = run.revision
      /\ run'.status = Running(work[w].phase) /\ run'.token = drawn + 1
      /\ run'.attempt = run.attempt /\ run'.pass = run.pass /\ run'.mode = run.mode
  <2>1. /\ run'.id = run.id /\ run'.revision = run.revision
        /\ run'.status = Running(work[w].phase) /\ run'.token = drawn'
        /\ run'.attempt = run.attempt /\ run'.pass = run.pass /\ run'.mode = run.mode
    BY <1>0, <1>1 DEF Run
  <2>2. drawn' \in Nat /\ Running(work[w].phase) \in Statuses
    BY <1>0, StatusTypes
  <2>3. run' \in Run
    BY <1>0, <1>1, <2>2 DEF Run
  <2>4. run' # Nothing
    BY <2>3, Null
  <2> QED BY <1>0, <2>1, <2>4
<1>3. PICK h \in Work : h = [work[w] EXCEPT !.pc = "claimed", !.token = drawn']
  <2>1. drawn' \in Nat
    BY <1>0
  <2> QED BY <1>0, <2>1, WorkTypes
<1>4. /\ h.pc = "claimed" /\ h.token = drawn + 1 /\ h.phase = work[w].phase
      /\ h.guesses = work[w].guesses
    BY <1>0, <1>3 DEF Work
<1>5. work' = [work EXCEPT ![w] = h]
    BY <1>3 DEF Claim, Put
<1>6. \A v \in Workers : work[v].token \in Nat /\ work[v].token <= drawn
    BY <1>0 DEF IInv, Kept, Handlers, HandlerOK, Work
<1>7. Saves' /\ Calls' /\ Pages'
  <2>1. run'.status \in Stage(work[w].phase) /\ run'.status # "REVIEW"
    BY <1>0, <1>2, StatusFacts DEF Stage
  <2>2. drawn <= drawn'
    BY <1>0
  <2> QED BY <1>0, <1>2, <2>1, <2>2, Moves
<1>8. Ids'
  <2>1. /\ run.id <= drawn /\ run.attempt <= drawn /\ page.id <= drawn /\ 1 <= run.id
        /\ run.id \in Nat /\ run.attempt \in Nat /\ page.id \in Nat
    BY <1>0 DEF IInv, Kept, Ids, TypeOK, Run, Page
  <2> QED BY <1>0, <1>2, <2>1 DEF Ids
<1>9. Tokens'
  <2> SUFFICES ASSUME NEW u \in Workers, NEW v \in Workers,
                      work'[u].token = work'[v].token, work'[v].token # 0
               PROVE  u = v
    BY DEF Tokens
  <2>1. \A x \in Workers : work'[x] = IF x = w THEN h ELSE work[x]
    BY <1>0, <1>5
  <2>2. CASE u # w /\ v # w
    BY <2>1, <2>2 DEF IInv, Kept, Tokens
  <2>3. CASE u = w /\ v # w
    BY <1>0, <1>4, <1>6, <2>1, <2>3
  <2>4. CASE u # w /\ v = w
    BY <1>0, <1>4, <1>6, <2>1, <2>4
  <2> QED BY <2>2, <2>3, <2>4
<1>10. Shape' /\ RowsOK'
  <2>1. run.status \in Stage(work[w].phase) /\ run'.status \in Stage(work[w].phase)
    BY <1>0, <1>2 DEF Stage
  <2> QED BY <1>0, <1>2, <2>1, StageShape DEF IInv, Kept
<1>11. Handlers'
  <2> SUFFICES ASSUME NEW v \in Workers PROVE HandlerOK(work[v])'
    BY DEF Handlers
  <2>1. CASE v = w
    <3>1. Guessed(h) = {}
      BY <1>0, <1>4 DEF HandlerOK, Guessed
    <3>2. work'[v] = h
      BY <1>0, <1>5, <2>1
    <3> QED BY <1>0, <1>4, <3>1, <3>2 DEF HandlerOK, Reliable
  <2>2. CASE v # w
    <3>1. work'[v] = work[v] /\ HandlerOK(work[v]) /\ work[v].token \in Nat
      BY <1>0, <1>5, <2>2 DEF IInv, Kept, Handlers, Work
    <3>2. ~Holds(work[v])'
      BY <1>0, <1>2, <1>6, <3>1 DEF Holds
    <3>3. HandlerOK(work'[v]) /\ work'[v].token \in Nat /\ drawn' \in Nat /\ drawn <= drawn'
      BY <1>0, <3>1
    <3> QED BY <1>0, <3>2, <3>3, OtherHandler
  <2> QED BY <2>1, <2>2
<1> QED BY <1>7, <1>8, <1>9, <1>10, <1>11 DEF Kept

\* A chunk saved: what was suggested for was pending or marked, and is no more.
LEMMA CheckpointKeeps == ASSUME IInv, TypeOK', NEW w \in Workers, Checkpoint(w) PROVE Kept'
<1> DEFINE done == work[w].processed + Cardinality(Guessed(work[w]))
<1>0. /\ work[w] \in Work /\ HandlerOK(work[w]) /\ work[w].pc = "guessed" /\ Current(w)
      /\ run # Nothing /\ run \in Run /\ run.status = Running(work[w].phase)
      /\ Holds(work[w]) /\ UNCHANGED <<call, page, drawn>> /\ drawn \in Nat
      /\ done \in Nat /\ work[w].phase \in Phases
  <2>1. /\ work[w] \in Work /\ HandlerOK(work[w]) /\ work[w].pc = "guessed" /\ Current(w)
        /\ UNCHANGED <<call, page, drawn>> /\ drawn \in Nat
    BY DEF IInv, TypeOK, Kept, Handlers, Checkpoint, WorkOnly, clients
  <2>2. /\ run # Nothing /\ run \in Run /\ run.status = Running(work[w].phase)
        /\ Holds(work[w])
    BY <2>1 DEF IInv, TypeOK, Current, Holds
  <2>3. work[w].processed \in Nat /\ Cardinality(Guessed(work[w])) \in Nat /\ work[w].phase \in Phases
    BY <2>1, Counts, RowSets DEF Work
  <2> QED BY <2>1, <2>2, <2>3
<1>1. /\ run' = [run EXCEPT !.processed = done, !.old = FALSE]
      /\ rows' = Written(work[w], "SUGGESTED")
    BY DEF Checkpoint
<1>2. PICK h \in Work : h = [work[w] EXCEPT !.pc = "ready", !.processed = done,
                                            !.guesses = NoGuesses]
    BY <1>0, WorkTypes
<1>3. Put(w, h)
    BY <1>2 DEF Checkpoint
<1> HIDE DEF done
<1>4. /\ h.pc = "ready" /\ h.token = work[w].token /\ h.phase = work[w].phase
      /\ h.pass = work[w].pass
    BY <1>0, <1>2 DEF Work
<1>5. /\ run'.id = run.id /\ run'.revision = run.revision /\ run'.attempt = run.attempt
      /\ run'.status = run.status /\ run'.token = run.token /\ run'.pass = run.pass
      /\ run'.mode = run.mode
    BY <1>0, <1>1 DEF Run
<1>6. run' # Nothing
  <2>1. run' \in Run
    BY <1>0, <1>1 DEF Run
  <2> QED BY <2>1, Null
<1>7. /\ Guessed(work[w]) \subseteq Pending(work[w]) /\ work[w].phase \in {"full", "rerun"}
      /\ work[w].phase = "full" => work[w].pass = run.pass /\ run.pass # "complete"
    BY <1>0 DEF HandlerOK, Reliable, Phases
<1>8. HandlerOK(h)'
    BY <1>0, <1>4, <1>5, <1>7 DEF HandlerOK, Reliable
<1>9. Saves' /\ Ids' /\ Tokens' /\ Calls' /\ Handlers' /\ Pages'
  <2>1. run'.status \in Stage(work[w].phase) /\ run'.status # "REVIEW"
    BY <1>0, <1>5, StatusFacts DEF Stage
  <2> QED BY <1>0, <1>3, <1>4, <1>5, <1>6, <1>8, <2>1, WritesKeep
<1>10. /\ Rows' = Rows
       /\ \A e \in Rows : e \notin Guessed(work[w]) => rows'[e] = rows[e]
       /\ \A e \in Rows : e \in Guessed(work[w]) =>
             /\ rows'[e].stage = "SUGGESTED" /\ ~Manual(rows'[e])
             /\ rows'[e].target => rows[e].target
             /\ rows'[e].second => rows[e].second
    BY <1>0, <1>1, WrittenRows DEF IInv
<1>11. RowsOK'
  <2> SUFFICES ASSUME NEW e \in Rows PROVE RowOK(rows'[e])
    BY <1>10 DEF RowsOK
  <2>1. CASE e \in Guessed(work[w])
    BY <1>10, <2>1 DEF RowOK
  <2>2. CASE e \notin Guessed(work[w])
    BY <1>10, <2>2 DEF IInv, Kept, RowsOK
  <2> QED BY <2>1, <2>2
<1>12. /\ \A e \in Rows : rows'[e].stage \in {rows[e].stage, "SUGGESTED"}
       /\ \A e \in Rows : rows'[e].target => rows[e].target
       /\ \A e \in Rows : rows'[e].second => rows[e].second
       /\ \A e \in Rows : rows'[e] = rows[e] \/ ~Manual(rows'[e])
    BY <1>10
<1>13. /\ At("PENDING")' \subseteq At("PENDING") /\ At("SAMPLE")' \subseteq At("SAMPLE")
       /\ Targets' \subseteq Targets /\ SecondTargets' \subseteq SecondTargets
    BY <1>10, <1>12 DEF At, Targets, SecondTargets
<1>14. Shape'
  <2>1. CASE work[w].phase = "full"
    <3>1. FullShape
      BY <1>0, <2>1 DEF IInv, Kept, Shape, Stage
    <3>2. \A e \in At("SUGGESTED")' : ~Manual(rows'[e])
      BY <1>7, <1>10, <1>12, <2>1, <3>1 DEF FullShape, At
    <3>3. FullShape'
      BY <1>5, <1>13, <3>1, <3>2 DEF FullShape
    <3>4. run'.status = "PROCESSING"
      BY <1>0, <1>5, <2>1, StatusFacts
    <3> QED BY <3>3, <3>4, StatusFacts DEF Shape, Stage, FullShape
  <2>2. CASE work[w].phase = "rerun"
    <3>1. RerunShape
      BY <1>0, <2>2 DEF IInv, Kept, Shape, Stage
    <3>2. RerunShape'
      BY <1>13, <3>1 DEF RerunShape
    <3>3. run'.status = "RERUNNING"
      BY <1>0, <1>5, <2>2, StatusFacts
    <3> QED BY <3>2, <3>3, StatusFacts DEF Shape, Stage, RerunShape
  <2> QED BY <1>7, <2>1, <2>2
<1> QED BY <1>9, <1>11, <1>14 DEF Kept

\* Rows are marked for the second pass of System One, if any is.
LEMMA MarkKeeps == ASSUME IInv, TypeOK', NEW w \in Workers, Mark(w) PROVE Kept'
<1>0. /\ work[w] \in Work /\ HandlerOK(work[w]) /\ work[w].pc = "mark"
      /\ work[w].phase = "full" /\ UNCHANGED <<call, page, drawn>> /\ drawn \in Nat
      /\ rows \in [Expenses -> Row \cup {Nothing}]
    BY DEF IInv, TypeOK, Kept, Handlers, HandlerOK, Mark, WorkOnly, clients
<1>1. PICK targets \in Uncertain(At("SUGGESTED")) :
        /\ targets # {} => Current(w)
        /\ rows' = [e \in Expenses |-> IF e \in targets THEN [rows[e] EXCEPT !.second = TRUE]
                                        ELSE rows[e]]
        /\ run' = IF targets = {} THEN run
                  ELSE [run EXCEPT !.processed = work[w].processed, !.old = FALSE]
    BY DEF Mark
<1>2. PICK h \in Work : h = [work[w] EXCEPT !.pc = "second"]
    BY <1>0, WorkTypes
<1>3. Put(w, h)
    BY <1>2 DEF Mark
<1>4. /\ h.pc = "second" /\ h.token = work[w].token /\ h.phase = work[w].phase
      /\ h.pass = work[w].pass /\ h.attempt = work[w].attempt
    BY <1>0, <1>2 DEF Work
<1>5. CASE targets = {}
  <2>1. run' = run /\ rows' = rows
    BY <1>0, <1>1, <1>5
  <2>2. Holds(h) = Holds(work[w])
    BY <1>4 DEF Holds
  <2>3. HandlerOK(h)
    BY <1>0, <1>4, <2>2 DEF HandlerOK, Reliable
  <2> QED BY <1>0, <1>3, <1>4, <2>1, <2>3, WorkFrame
<1>6. CASE targets # {}
  <2>0. /\ Current(w) /\ run # Nothing /\ run \in Run /\ run.status = "PROCESSING"
        /\ Holds(work[w])
    BY <1>0, <1>1, <1>6, StatusFacts DEF IInv, TypeOK, Current, Holds
  <2>1. /\ run.pass = "first" /\ At("PENDING") = {} /\ run.mode = "system-one"
        /\ work[w].pass = run.pass
    BY <1>0, <2>0 DEF HandlerOK, Reliable
  <2>2. run' = [run EXCEPT !.processed = work[w].processed, !.old = FALSE]
    BY <1>1, <1>6
  <2>3. /\ run'.id = run.id /\ run'.revision = run.revision /\ run'.attempt = run.attempt
        /\ run'.status = run.status /\ run'.token = run.token /\ run'.pass = run.pass
        /\ run'.mode = run.mode
    BY <2>0, <2>2 DEF Run
  <2>4. run' # Nothing
    <3>1. work[w].processed \in Nat
      BY <1>0 DEF Work
    <3>2. run' \in Run
      BY <2>0, <2>2, <3>1 DEF Run
    <3> QED BY <3>2, Null
  <2>5. /\ targets \subseteq At("SUGGESTED") /\ Rows \subseteq Expenses
        /\ At("SUGGESTED") \subseteq Rows /\ \A e \in Rows : rows[e] \in Row
    BY <1>0 DEF Uncertain, At, Rows
  <2>6. ASSUME NEW e \in Rows
        PROVE  /\ rows'[e] # Nothing /\ rows'[e].stage = rows[e].stage
               /\ rows'[e].category = rows[e].category /\ rows'[e].initial = rows[e].initial
               /\ rows'[e].target = rows[e].target
               /\ rows'[e].second = rows[e].second \/ e \in targets
    <3>1. CASE e \in targets
      <4>1. rows'[e] = [rows[e] EXCEPT !.second = TRUE] /\ rows[e] \in Row
        BY <1>1, <2>5, <3>1
      <4>2. rows'[e] \in Row
        BY <4>1 DEF Row
      <4>3. /\ rows'[e].stage = rows[e].stage
            /\ rows'[e].category = rows[e].category /\ rows'[e].initial = rows[e].initial
            /\ rows'[e].target = rows[e].target
        BY <4>1 DEF Row
      <4> QED BY <3>1, <4>2, <4>3, Null
    <3>2. CASE e \notin targets
      <4>1. rows'[e] = rows[e] /\ rows[e] \in Row
        BY <1>1, <2>5, <3>2
      <4> QED BY <4>1, Null
    <3> QED BY <3>1, <3>2
  <2>7. Rows' = Rows
    <3>1. \A e \in Expenses \ Rows : rows'[e] = rows[e]
      BY <1>1, <2>5
    <3> QED BY <2>5, <2>6, <3>1 DEF Rows
  <2>8. FullShape
    BY <2>0, StatusFacts DEF IInv, Kept, Shape, Stage
  <2>9. RowsOK'
    <3> SUFFICES ASSUME NEW e \in Rows PROVE RowOK(rows'[e])
      BY <2>7 DEF RowsOK
    <3>1. RowOK(rows[e])
      BY DEF IInv, Kept, RowsOK
    <3>2. e \in targets => rows[e].stage = "SUGGESTED" /\ ~Manual(rows[e])
      BY <2>1, <2>5, <2>8 DEF FullShape, At
    <3> QED BY <2>6, <3>1, <3>2 DEF RowOK, Manual
  <2>10. \A stage : At(stage)' = At(stage)
    BY <2>6, <2>7 DEF At
  <2>11. Targets' = Targets
    BY <2>6, <2>7 DEF Targets
  <2>12. \A e \in At("SUGGESTED") : ~Manual(rows'[e])
    BY <2>1, <2>5, <2>6, <2>8 DEF FullShape, Manual
  <2>13. FullShape'
    BY <2>1, <2>3, <2>8, <2>10, <2>11, <2>12 DEF FullShape
  <2>14. Shape'
    BY <2>0, <2>3, <2>13, StatusFacts DEF Shape, Stage, FullShape
  <2>15. HandlerOK(h)'
    BY <1>0, <1>4, <2>1, <2>3, <2>10 DEF HandlerOK, Reliable
  <2>16. Saves' /\ Ids' /\ Tokens' /\ Calls' /\ Handlers' /\ Pages'
    <3>1. run'.status \in Stage(work[w].phase) /\ run'.status # "REVIEW"
      BY <1>0, <2>0, <2>3, StatusFacts DEF Stage
    <3> QED BY <1>0, <1>3, <1>4, <2>0, <2>3, <2>4, <2>15, <3>1, WritesKeep
  <2> QED BY <2>9, <2>14, <2>16 DEF Kept
<1> QED BY <1>5, <1>6

\* The second pass begins with no row pending.
LEMMA SecondPassKeeps == ASSUME IInv, TypeOK', NEW w \in Workers, SecondPass(w) PROVE Kept'
<1>0. /\ work[w] \in Work /\ HandlerOK(work[w]) /\ work[w].pc = "second"
      /\ work[w].phase = "full" /\ UNCHANGED <<rows, call, page, drawn>> /\ drawn \in Nat
      /\ Current(w)
    BY DEF IInv, TypeOK, Kept, Handlers, HandlerOK, SecondPass, WorkOnly, clients
<1>1. /\ run # Nothing /\ run \in Run /\ run.status = "PROCESSING" /\ Holds(work[w])
    BY <1>0, StatusFacts DEF IInv, TypeOK, Current, Holds
<1>2. run.pass = "first" /\ At("PENDING") = {} /\ run.mode = "system-one"
    BY <1>0, <1>1 DEF HandlerOK, Reliable
<1>3. run' = [run EXCEPT !.pass = "second", !.processed = 0, !.old = FALSE,
                         !.total = Cardinality(SecondTargets)]
    BY DEF SecondPass
<1>4. /\ run'.id = run.id /\ run'.revision = run.revision /\ run'.attempt = run.attempt
      /\ run'.status = run.status /\ run'.token = run.token /\ run'.pass = "second"
      /\ run'.mode = run.mode
    BY <1>1, <1>3 DEF Run
<1>5. run' # Nothing
  <2>1. Cardinality(SecondTargets) \in Nat
    BY Counts, RowSets
  <2>2. run' \in Run
    BY <1>1, <1>3, <2>1 DEF Run
  <2> QED BY <2>2, Null
<1>6. PICK h \in Work : h = [work[w] EXCEPT !.pc = "ready", !.pass = "second", !.processed = 0]
    BY <1>0, WorkTypes
<1>7. /\ Put(w, h) /\ h.pc = "ready" /\ h.pass = "second" /\ h.token = work[w].token
      /\ h.phase = work[w].phase
  <2>1. Put(w, h)
    BY <1>6 DEF SecondPass
  <2> QED BY <1>0, <1>6, <2>1 DEF Work
<1>8. HandlerOK(h)'
    BY <1>0, <1>4, <1>7 DEF HandlerOK, Reliable
<1>9. Saves' /\ Ids' /\ Tokens' /\ Calls' /\ Handlers' /\ Pages'
  <2>1. run'.status \in Stage(work[w].phase) /\ run'.status # "REVIEW"
    BY <1>0, <1>1, <1>4, StatusFacts DEF Stage
  <2> QED BY <1>0, <1>1, <1>4, <1>5, <1>7, <1>8, <2>1, WritesKeep
<1>10. FullShape
    BY <1>1, StatusFacts DEF IInv, Kept, Shape, Stage
<1>11. FullShape'
    BY <1>0, <1>2, <1>4, <1>10, SameRows DEF FullShape, At
<1>12. Shape'
    BY <1>1, <1>4, <1>11, StatusFacts DEF Shape, Stage, FullShape
<1>13. RowsOK'
    BY <1>0, SameRows DEF IInv, Kept, RowsOK
<1> QED BY <1>9, <1>12, <1>13 DEF Kept

\* A handler that finishes its phase, or fails its run, leaves it to nobody.
LEMMA LeavesKeep ==
    ASSUME IInv, TypeOK', NEW w \in Workers, Current(w), Put(w, Ended(work[w])),
           run' # Nothing, run'.id = run.id, run'.revision = run.revision,
           run'.attempt = run.attempt, run'.token = 0,
           run'.status \in Stage(work[w].phase) \cup {After(work[w].phase)},
           work[w].phase = "full" /\ run'.status = "REVIEW" => run'.pass = "complete",
           \A phase \in Phases : run'.status # Running(phase),
           call' = call, page' = page, drawn' = drawn
    PROVE  Saves' /\ Ids' /\ Tokens' /\ Calls' /\ Handlers' /\ Pages'
<1>0. drawn \in Nat /\ work[w] \in Work
    BY DEF IInv, TypeOK
<1>1. PICK h \in Work : h = Ended(work[w])
    BY <1>0, WorkTypes
<1>2. HandlerOK(h) /\ h.token = 0 /\ h.phase \in Phases
    BY <1>0, <1>1, EndedOK DEF Work
<1>3. ~Holds(h)'
    BY <1>2 DEF Holds
<1>4. HandlerOK(h)'
    BY <1>0, <1>2, <1>3, OtherHandler
<1> QED BY <1>1, <1>2, <1>4, WritesKeep

\* What a finished phase makes of the run.
LEMMA FinishFields ==
    ASSUME IInv, TypeOK', NEW w \in Workers, NEW phase, NEW r \in Run, FinishPhase(w, phase, r)
    PROVE  /\ work[w].phase = phase /\ Current(w) /\ Put(w, Ended(work[w]))
           /\ run' # Nothing /\ run'.id = r.id /\ run'.revision = r.revision
           /\ run'.attempt = r.attempt /\ run'.status = r.status /\ run'.pass = r.pass
           /\ run'.token = 0 /\ UNCHANGED <<call, page, drawn>>
           /\ work[w] \in Work /\ HandlerOK(work[w]) /\ work[w].pc = "finish"
           /\ run # Nothing /\ run \in Run /\ run.status = Running(phase) /\ Reliable(work[w])
<1>1. /\ work[w].phase = phase /\ Current(w) /\ Put(w, Ended(work[w]))
      /\ UNCHANGED <<call, page, drawn>> /\ work[w] \in Work /\ HandlerOK(work[w])
      /\ work[w].pc = "finish" /\ run' = [r EXCEPT !.token = 0, !.old = FALSE]
    BY DEF IInv, TypeOK, Kept, Handlers, FinishPhase, WorkOnly, clients
<1>2. /\ run'.id = r.id /\ run'.revision = r.revision /\ run'.attempt = r.attempt
      /\ run'.status = r.status /\ run'.pass = r.pass /\ run'.token = 0
    BY <1>1 DEF Run
<1>3. run' # Nothing
  <2>1. run' \in Run
    BY <1>1 DEF Run
  <2> QED BY <2>1, Null
<1>4. run # Nothing /\ run \in Run /\ run.status = Running(phase) /\ Holds(work[w])
    BY <1>1 DEF IInv, TypeOK, Current, Holds
<1>5. Reliable(work[w])
    BY <1>1, <1>4 DEF HandlerOK
<1> QED BY <1>1, <1>2, <1>3, <1>4, <1>5

\* A calibration ends with a sample of rows that were pending.
LEMMA FinishCalibrationKeeps ==
    ASSUME IInv, TypeOK', NEW w \in Workers, FinishCalibration(w) PROVE Kept'
<1> DEFINE sampled == Cardinality(Guessed(work[w]))
           r == [run EXCEPT !.status = "CALIBRATION_REVIEW",
                            !.processed = IF sampled = 0 THEN @ ELSE sampled,
                            !.total = IF sampled = 0 THEN @ ELSE sampled]
<1>0. run \in Run /\ sampled \in Nat
    BY Counts, RowSets DEF IInv, TypeOK, FinishCalibration, FinishPhase, Current
<1>1. FinishPhase(w, "calibration", r) /\ rows' = Written(work[w], "SAMPLE")
    BY DEF FinishCalibration
<1> HIDE DEF sampled
<1>2. r \in Run
    BY <1>0, StatusTypes DEF Run
<1>3. /\ r.id = run.id /\ r.revision = run.revision /\ r.attempt = run.attempt
      /\ r.status = "CALIBRATION_REVIEW" /\ r.pass = run.pass
    BY <1>0 DEF Run
<1> HIDE DEF r
<1>4. /\ work[w].phase = "calibration" /\ Current(w) /\ Put(w, Ended(work[w]))
      /\ run' # Nothing /\ run'.id = run.id /\ run'.revision = run.revision
      /\ run'.attempt = run.attempt /\ run'.status = "CALIBRATION_REVIEW"
      /\ run'.pass = run.pass /\ run'.token = 0 /\ UNCHANGED <<call, page, drawn>>
      /\ work[w] \in Work /\ work[w].pc = "finish" /\ run # Nothing
      /\ run.status = "CALIBRATING" /\ Reliable(work[w])
    BY <1>1, <1>2, <1>3, FinishFields, StatusFacts
<1>5. Saves' /\ Ids' /\ Tokens' /\ Calls' /\ Handlers' /\ Pages'
  <2>1. /\ run'.status \in Stage(work[w].phase) \cup {After(work[w].phase)}
        /\ \A phase \in Phases : run'.status # Running(phase)
    BY <1>4, StatusFacts DEF After
  <2> QED BY <1>4, <2>1, LeavesKeep
<1>6. /\ Rows' = Rows
      /\ \A e \in Rows : e \notin Guessed(work[w]) => rows'[e] = rows[e]
      /\ \A e \in Rows : e \in Guessed(work[w]) =>
            /\ rows'[e].stage = "SAMPLE" /\ rows[e].stage = "PENDING"
            /\ rows'[e].target => rows[e].target
            /\ rows'[e].second => rows[e].second
  <2>1. Guessed(work[w]) \subseteq At("PENDING")
    BY <1>4 DEF Reliable
  <2> QED BY <1>1, <1>4, <2>1, WrittenRows DEF IInv, At
<1>7. RowsOK'
  <2> SUFFICES ASSUME NEW e \in Rows PROVE RowOK(rows'[e])
    BY <1>6 DEF RowsOK
  <2>1. RowOK(rows[e])
    BY DEF IInv, Kept, RowsOK
  <2>2. CASE e \in Guessed(work[w])
    BY <1>6, <2>1, <2>2 DEF RowOK
  <2>3. CASE e \notin Guessed(work[w])
    BY <1>6, <2>1, <2>3
  <2> QED BY <2>2, <2>3
<1>8. CalibrationShape
    BY <1>4, StatusFacts DEF IInv, Kept, Shape, Stage
<1>9. At("SUGGESTED")' = {} /\ Targets' = {} /\ SecondTargets' = {}
  <2>1. \A e \in Rows : rows'[e].stage = "SUGGESTED" => rows[e].stage = "SUGGESTED"
    BY <1>6
  <2>2. \A e \in Rows : (rows'[e].target => rows[e].target) /\ (rows'[e].second => rows[e].second)
    BY <1>6
  <2>3. At("SUGGESTED")' = {}
    BY <1>6, <1>8, <2>1 DEF CalibrationShape, At
  <2>4. Targets' = {} /\ SecondTargets' = {}
    BY <1>6, <1>8, <2>2 DEF CalibrationShape, Targets, SecondTargets
  <2> QED BY <2>3, <2>4
<1>10. Shape'
    BY <1>4, <1>8, <1>9, StatusFacts DEF Shape, Stage, CalibrationShape
<1> QED BY <1>5, <1>7, <1>10 DEF Kept

\* A full pass, or a rerun, ends with nothing left to do.
LEMMA FinishReviewKeeps ==
    ASSUME IInv, TypeOK', NEW w \in Workers, FinishFull(w) \/ FinishRerun(w) PROVE Kept'
<1>0. run \in Run /\ rows' = rows
    BY DEF IInv, TypeOK, FinishFull, FinishRerun, FinishPhase, Current
<1> DEFINE full == [run EXCEPT !.status = "REVIEW", !.pass = "complete"]
           rerun == [run EXCEPT !.status = "REVIEW", !.processed = 0]
<1>1. /\ full \in Run /\ rerun \in Run
      /\ full.id = run.id /\ full.revision = run.revision /\ full.attempt = run.attempt
      /\ full.status = "REVIEW" /\ full.pass = "complete"
      /\ rerun.id = run.id /\ rerun.revision = run.revision /\ rerun.attempt = run.attempt
      /\ rerun.status = "REVIEW"
    BY <1>0, StatusTypes DEF Run
<1>2. FinishPhase(w, "full", full) \/ FinishPhase(w, "rerun", rerun)
    BY DEF FinishFull, FinishRerun
<1> HIDE DEF full, rerun
<1>3. /\ (work[w].phase = "full" /\ run'.pass = "complete") \/ work[w].phase = "rerun"
      /\ Current(w) /\ Put(w, Ended(work[w])) /\ run' # Nothing /\ run'.id = run.id
      /\ run'.revision = run.revision /\ run'.attempt = run.attempt
      /\ run'.status = "REVIEW" /\ run'.token = 0 /\ UNCHANGED <<call, page, drawn>>
      /\ work[w] \in Work /\ work[w].pc = "finish" /\ run # Nothing
      /\ run.status = Running(work[w].phase) /\ Reliable(work[w])
  <2>1. CASE FinishPhase(w, "full", full)
    BY <1>1, <2>1, FinishFields
  <2>2. CASE FinishPhase(w, "rerun", rerun)
    BY <1>1, <2>2, FinishFields
  <2> QED BY <1>2, <2>1, <2>2
<1>4. Saves' /\ Ids' /\ Tokens' /\ Calls' /\ Handlers' /\ Pages'
  <2>1. /\ run'.status \in Stage(work[w].phase) \cup {After(work[w].phase)}
        /\ \A phase \in Phases : run'.status # Running(phase)
    BY <1>3, StatusFacts DEF After
  <2> QED BY <1>3, <2>1, LeavesKeep
<1>5. ReviewShape
  <2>1. CASE work[w].phase = "full"
    <3>1. FullShape
      BY <1>3, <2>1 DEF IInv, Kept, Shape, Stage
    <3>2. At("PENDING") = {} /\ SecondTargets = {}
      BY <1>3, <2>1 DEF Reliable
    <3> QED BY <3>1, <3>2 DEF FullShape, ReviewShape, RerunShape
  <2>2. CASE work[w].phase = "rerun"
    <3>1. RerunShape
      BY <1>3, <2>2 DEF IInv, Kept, Shape, Stage
    <3>2. Targets = {}
      BY <1>3, <2>2 DEF Reliable
    <3> QED BY <3>1, <3>2 DEF ReviewShape
  <2> QED BY <1>3, <2>1, <2>2
<1>6. ReviewShape'
    BY <1>0, <1>5, SameRows DEF ReviewShape, RerunShape
<1>7. Shape'
    BY <1>3, <1>6, StatusFacts DEF Shape, Stage, ReviewShape, RerunShape
<1>8. RowsOK'
    BY <1>0, SameRows DEF IInv, Kept, RowsOK
<1> QED BY <1>4, <1>7, <1>8 DEF Kept

\* A handler fails its run, if it is still its own.
LEMMA FailRunKeeps == ASSUME IInv, TypeOK', NEW w \in Workers, FailRun(w) PROVE Kept'
<1>0. /\ drawn \in Nat /\ work[w] \in Work /\ Put(w, Ended(work[w]))
      /\ UNCHANGED <<rows, call, page, drawn>> /\ work[w].phase \in Phases
    BY DEF IInv, TypeOK, FailRun, WorkOnly, clients, Work
<1>1. CASE ~Current(w)
  <2>1. run' = run
    BY <1>1 DEF FailRun
  <2>2. PICK h \in Work : h = Ended(work[w])
    BY <1>0, WorkTypes
  <2> QED BY <1>0, <2>1, <2>2, EndedOK, WorkFrame
<1>2. CASE Current(w)
  <2>1. /\ run # Nothing /\ run \in Run /\ run.status = Running(work[w].phase)
        /\ run' = [run EXCEPT !.status = Failed(work[w].phase), !.token = 0, !.old = FALSE]
    BY <1>2 DEF IInv, TypeOK, Current, FailRun
  <2>2. /\ run'.id = run.id /\ run'.revision = run.revision /\ run'.attempt = run.attempt
        /\ run'.status = Failed(work[w].phase) /\ run'.token = 0 /\ run'.pass = run.pass
        /\ run'.mode = run.mode
    BY <2>1 DEF Run
  <2>3. run' # Nothing
    <3>1. Failed(work[w].phase) \in Statuses
      BY <1>0, StatusTypes
    <3>2. run' \in Run
      BY <2>1, <3>1 DEF Run
    <3> QED BY <3>2, Null
  <2>4. /\ run'.status \in Stage(work[w].phase) /\ run'.status # "REVIEW"
        /\ \A phase \in Phases : run'.status # Running(phase)
        /\ run.status \in Stage(work[w].phase)
    BY <1>0, <2>1, <2>2, StatusFacts DEF Stage
  <2>5. Saves' /\ Ids' /\ Tokens' /\ Calls' /\ Handlers' /\ Pages'
    BY <1>0, <1>2, <2>2, <2>3, <2>4, LeavesKeep
  <2>6. Shape' /\ RowsOK'
    BY <1>0, <2>1, <2>2, <2>4, StageShape DEF IInv, Kept
  <2> QED BY <2>5, <2>6 DEF Kept
<1> QED BY <1>1, <1>2

\* Every step of a handler.
LEMMA HandlersKeep ==
    ASSUME IInv, TypeOK', NEW w \in Workers,
           Handle(w) \/ Throw(w) \/ Shutdown(w) \/ WorkerCrash(w)
    PROVE  Kept'
BY HandlerReadsKeep, ClaimKeeps, CheckpointKeeps, MarkKeeps, SecondPassKeeps,
   FinishCalibrationKeeps, FinishReviewKeeps, FailRunKeeps DEF Handle

-----------------------------------------------------------------------------
(* What happens around the run *)

\* Nothing that the invariant is about changes.
LEMMA StutterKeeps ==
    ASSUME IInv, UNCHANGED <<run, rows, work, call, page, drawn>> PROVE Kept'
<1>0. drawn \in Nat /\ work \in [Workers -> Work]
    BY DEF IInv, TypeOK
<1>1. Saves' /\ Ids' /\ Tokens'
    BY DEF IInv, Kept, Saves, Displayed, Ids, Tokens
<1>2. RowsOK' /\ Shape'
    BY SameShape DEF IInv, Kept
<1>3. Calls'
    BY DEF IInv, Kept, Calls, CallOK
<1>4. Handlers'
  <2> SUFFICES ASSUME NEW v \in Workers PROVE HandlerOK(work[v])'
    BY DEF Handlers
  <2>1. HandlerOK(work'[v]) /\ work'[v].token \in Nat
    BY <1>0 DEF IInv, Kept, Handlers, Work
  <2> QED BY <1>0, <2>1, SameHandler
<1>5. Pages'
    BY SameRows DEF IInv, Kept, Pages
<1> QED BY <1>1, <1>2, <1>3, <1>4, <1>5 DEF Kept

\* A page displays a review as it is.
LEMMA LookKeeps == ASSUME IInv, Look PROVE Kept'
<1>0. /\ drawn \in Nat /\ work \in [Workers -> Work] /\ run # Nothing /\ run \in Run
      /\ run.status = "REVIEW" /\ UNCHANGED <<run, rows, work, call, drawn>>
    BY DEF IInv, TypeOK, Look
<1>1. page' = [id |-> run.id, revision |-> run.revision,
               seen |-> [e \in Expenses |-> IF e \in Rows THEN rows[e].category ELSE Nothing]]
    BY DEF Look
<1>2. Saves'
  <2>1. Displayed'
    BY <1>0, <1>1 DEF Displayed
  <2> QED BY <1>0, <2>1 DEF IInv, Kept, Saves
<1>3. Ids' /\ Tokens'
    BY <1>0, <1>1 DEF IInv, Kept, Ids, Tokens
<1>4. RowsOK' /\ Shape'
    BY <1>0, SameShape DEF IInv, Kept
<1>5. Calls'
    BY <1>0 DEF IInv, Kept, Calls, CallOK
<1>6. Handlers'
  <2> SUFFICES ASSUME NEW v \in Workers PROVE HandlerOK(work[v])'
    BY DEF Handlers
  <2>1. HandlerOK(work'[v]) /\ work'[v].token \in Nat
    BY <1>0 DEF IInv, Kept, Handlers, Work
  <2> QED BY <1>0, <2>1, SameHandler
<1>7. Pages'
  <2>1. run.revision \in Nat
    BY <1>0 DEF Run
  <2> QED BY <1>0, <1>1, <2>1, SameRows DEF Pages
<1> QED BY <1>2, <1>3, <1>4, <1>5, <1>6, <1>7 DEF Kept

\* Time passes.
LEMMA AgeKeeps == ASSUME IInv, TypeOK', Age PROVE Kept'
<1>0. /\ drawn \in Nat /\ work \in [Workers -> Work] /\ run # Nothing /\ run \in Run
      /\ run' = [run EXCEPT !.old = TRUE] /\ UNCHANGED <<rows, work, call, page, drawn>>
    BY DEF IInv, TypeOK, Age, Busy, clients
<1>1. PICK phase \in Phases : run.status \in {Queued(phase), Running(phase)}
    BY DEF Age, Busy
<1>2. /\ run'.id = run.id /\ run'.revision = run.revision /\ run'.attempt = run.attempt
      /\ run'.status = run.status /\ run'.token = run.token /\ run'.pass = run.pass
      /\ run'.mode = run.mode
    BY <1>0 DEF Run
<1>3. run' # Nothing
  <2>1. run' \in Run
    BY <1>0 DEF Run
  <2> QED BY <2>1, Null
<1>4. Saves' /\ Calls' /\ Pages'
  <2>1. run'.status \in Stage(phase) /\ run'.status # "REVIEW"
    BY <1>1, <1>2, StatusFacts DEF Stage
  <2>2. \A b \in Admins : call'[b] \in {call[b], NoCall}
    BY <1>0
  <2> QED BY <1>0, <1>1, <1>2, <1>3, <2>1, <2>2, Moves
<1>5. Ids' /\ Tokens'
    BY <1>0, <1>2 DEF IInv, Kept, Ids, Tokens
<1>6. Shape' /\ RowsOK'
  <2>1. run.status \in Stage(phase)
    BY <1>1 DEF Stage
  <2> QED BY <1>0, <1>2, <2>1, StageShape DEF IInv, Kept
<1>7. Handlers'
  <2> SUFFICES ASSUME NEW v \in Workers PROVE HandlerOK(work[v])'
    BY DEF Handlers
  <2>1. HandlerOK(work[v])
    BY DEF IInv, Kept, Handlers
  <2>2. Holds(work[v])' = Holds(work[v])
    BY <1>0, <1>2, <1>3 DEF Holds
  <2>3. Reliable(work[v]) => Reliable(work[v])'
    BY <1>0, <1>2, SameRows DEF Reliable, Pending, Guessed
  <2> QED BY <1>0, <2>1, <2>2, <2>3 DEF HandlerOK, Guessed
<1> QED BY <1>4, <1>5, <1>6, <1>7 DEF Kept

\* Every step keeps the invariant.
LEMMA InvariantKept == IInv /\ [Next]_vars => IInv'
<1> SUFFICES ASSUME IInv, [Next]_vars PROVE IInv'
    OBVIOUS
<1>1. TypeOK'
    BY TypesKept DEF IInv, Kept
<1>2. Kept'
  <2>1. CASE UNCHANGED vars
    BY <2>1, StutterKeeps DEF vars, clients
  <2>2. CASE Next
    <3>1. ASSUME NEW a \in Admins, Procedure(a) PROVE Kept'
      BY <1>1, <3>1, ProceduresKeep
    <3>2. ASSUME NEW w \in Workers, Handle(w) \/ Throw(w) \/ Shutdown(w) \/ WorkerCrash(w)
          PROVE  Kept'
      BY <1>1, <3>2, HandlersKeep
    <3>3. ASSUME Ledger \/ Expire \/ Occupy \/ Vacate PROVE Kept'
      <4>1. UNCHANGED <<run, rows, work, call, page, drawn>>
        BY <3>3 DEF Ledger, EditExpense, DeleteExpense, OthersOnly, Expire, Occupy, Vacate,
                    WorkOnly, clients
      <4> QED BY <4>1, StutterKeeps
    <3> QED BY <1>1, <2>2, <3>1, <3>2, <3>3, LookKeeps, AgeKeeps DEF Next
  <2> QED BY <2>1, <2>2
<1> QED BY <1>1, <1>2 DEF IInv

-----------------------------------------------------------------------------
(* Theorems *)

\* The invariant holds, and with it every type.
THEOREM Invariant == Spec => []IInv
BY InitInvariant, InvariantKept, PTL DEF Spec

\* Every variable keeps its type, in every interleaving of the procedures, the
\* handlers, the queue and the others.
THEOREM TypeCorrect == Spec => []TypeOK
<1>1. IInv => TypeOK
    BY DEF IInv
<1> QED BY <1>1, Invariant, PTL

\* A run under review has nothing pending, no unconfirmed sample, no target of
\* a rerun or of a second pass, whichever handler finished the phase.
THEOREM ReviewComplete == Spec => []ReviewIsComplete
<1>1. IInv => ReviewIsComplete
    BY DEF IInv, Kept, Shape, ReviewShape, RerunShape, ReviewIsComplete
<1> QED BY <1>1, Invariant, PTL

\* What an admin has confirmed or corrected: only a handler that holds the run
\* writes suggestions, and for rows that nobody has decided on.
LEMMA DecidedKept ==
    ASSUME IInv, TypeOK', Next, run # Nothing, run' # Nothing, run'.id = run.id,
           NEW e \in Rows, rows[e].stage = "CONFIRMED" \/ Manual(rows[e])
    PROVE  rows'[e].category = rows[e].category \/ run'.revision > run.revision
<1>0. /\ drawn \in Nat /\ run \in Run /\ run.id \in Nat /\ run.revision \in Nat /\ run.id <= drawn
      /\ rows[e] \in Row /\ e \in Expenses /\ rows \in [Expenses -> Row \cup {Nothing}]
      /\ RowOK(rows[e]) /\ Rows \subseteq Expenses
    BY DEF IInv, TypeOK, Kept, Ids, RowsOK, Rows, Run
<1>1. CASE rows' = rows
    BY <1>1
<1>2. ASSUME NEW a \in Admins, Procedure(a)
      PROVE  rows'[e].category = rows[e].category \/ run'.revision > run.revision
  <2>1. CASE StartCommit(a)
    <3>1. run'.id = drawn' /\ drawn' = drawn + 1
      BY <2>1, DrawType DEF IInv, StartCommit
    <3> QED BY <1>0, <3>1
  <2>2. CASE EditSuggestion(a)
    <3>1. run' = Bumped
      BY <2>2 DEF EditSuggestion
    <3> QED BY <1>0, <3>1, BumpedFields
  <2>3. CASE ConfirmRound(a)
    <3>1. rows'[e] = rows[e] \/ rows'[e] = [rows[e] EXCEPT !.stage = "CONFIRMED"]
      BY <1>0, <2>3 DEF ConfirmRound
    <3> QED BY <1>0, <3>1 DEF Row
  <2>4. CASE Rerun(a)
    <3>1. \/ rows'[e] = rows[e] \/ rows'[e] = [rows[e] EXCEPT !.feedback = TRUE]
          \/ rows'[e] = [rows[e] EXCEPT !.target = TRUE]
      BY <1>0, <2>4 DEF Rerun
    <3> QED BY <1>0, <3>1 DEF Row
  <2>5. CASE Discard(a)
    BY <2>5 DEF Discard
  <2>6. ASSUME ~StartCommit(a), ~EditSuggestion(a), ~ConfirmRound(a), ~Rerun(a), ~Discard(a)
        PROVE  rows' = rows
    BY <1>2, <2>6 DEF Procedure, StartRead, StartFails, Enqueue, SaveRead, SaveWrite,
                      SaveRollsBack, RetryRead, RetryCommit, RetryRefused, ApiCrash
  <2> QED BY <1>1, <2>1, <2>2, <2>3, <2>4, <2>5, <2>6
<1>3. ASSUME NEW w \in Workers, Handle(w) \/ Throw(w) \/ Shutdown(w) \/ WorkerCrash(w)
      PROVE  rows'[e].category = rows[e].category \/ run'.revision > run.revision
  <2>0. work[w] \in Work /\ HandlerOK(work[w])
    BY DEF IInv, TypeOK, Kept, Handlers
  <2>1. CASE Checkpoint(w)
    <3>1. /\ rows' = Written(work[w], "SUGGESTED") /\ Holds(work[w]) /\ work[w].pc = "guessed"
      BY <2>1 DEF Checkpoint, Current, Holds
    <3>2. Guessed(work[w]) \subseteq Pending(work[w])
      BY <2>0, <3>1 DEF HandlerOK, Reliable
    <3>3. e \notin Guessed(work[w])
      BY <1>0, <3>2 DEF Pending, At, Targets, SecondTargets, RowOK
    <3> QED BY <2>0, <3>1, <3>3, WrittenRows DEF IInv
  <2>2. CASE FinishCalibration(w)
    <3>1. /\ rows' = Written(work[w], "SAMPLE") /\ Holds(work[w]) /\ work[w].pc = "finish"
          /\ work[w].phase = "calibration"
      BY <2>2 DEF FinishCalibration, FinishPhase, Current, Holds
    <3>2. Guessed(work[w]) \subseteq At("PENDING")
      BY <2>0, <3>1 DEF HandlerOK, Reliable
    <3>3. e \notin Guessed(work[w])
      BY <1>0, <3>2 DEF At, RowOK
    <3> QED BY <2>0, <3>1, <3>3, WrittenRows DEF IInv
  <2>3. CASE Mark(w)
    <3>1. rows'[e] = rows[e] \/ rows'[e] = [rows[e] EXCEPT !.second = TRUE]
      BY <1>0, <2>3 DEF Mark
    <3> QED BY <1>0, <3>1 DEF Row
  <2>4. ASSUME ~Checkpoint(w), ~FinishCalibration(w), ~Mark(w) PROVE rows' = rows
    BY <1>3, <2>4 DEF Handle, Take, Claim, Obsolete, Begin, Suggest, Exhausted, SecondPass,
                      FinishFull, FinishRerun, Superseded, FailRun, EndJob, Throw, Shutdown,
                      WorkerCrash
  <2> QED BY <1>1, <2>1, <2>2, <2>3, <2>4
<1>4. ASSUME Ledger \/ Look \/ Expire \/ Occupy \/ Vacate \/ Age PROVE rows' = rows
    BY <1>4 DEF Ledger, EditExpense, DeleteExpense, OthersOnly, Look, Expire, Occupy, Vacate, Age
<1> QED BY <1>1, <1>2, <1>3, <1>4 DEF Next

\* No worker, late, repeated or rerun, changes what an admin has confirmed or
\* corrected.
THEOREM CorrectionsStay == Spec => CorrectionsKept
<1> DEFINE Decided ==
        \A e \in Rows :
          /\ rows[e].stage = "CONFIRMED" \/ Manual(rows[e])
          /\ rows'[e] # Nothing /\ run # Nothing /\ run' # Nothing /\ run'.id = run.id
          /\ rows'[e].category # rows[e].category
          => run'.revision > run.revision
<1>1. IInv /\ IInv' /\ [Next]_vars => [Decided]_vars
  <2> SUFFICES ASSUME IInv, IInv', Next PROVE Decided
      BY DEF vars
  <2> QED BY DecidedKept DEF IInv
<1> HIDE DEF Decided
<1>2. Spec => [][Decided]_vars
    BY <1>1, Invariant, PTL DEF Spec
<1> QED BY <1>2 DEF CorrectionsKept, Decided

\* A run that is saved is not touched by anyone but the admin who saves it.
LEMMA SaverOnly ==
    ASSUME IInv, Next, NEW a \in Admins, call[a].op = "save", run'.status = "DONE"
    PROVE  SaveWrite(a)
<1>0. /\ run # Nothing /\ run.status = "REVIEW" /\ ~Unlocked
      /\ \A b \in Admins : call[b].op = "save" => b = a
      /\ run.status \notin {"DONE"}
      /\ \A phase \in Phases : run.status \notin {Queued(phase), Running(phase)}
    BY StatusFacts DEF IInv, Kept, Saves, Displayed, Unlocked
<1>1. run' # run
    BY <1>0
<1>2. ASSUME NEW b \in Admins, Procedure(b) PROVE SaveWrite(a)
  <2>0. call[b] \in Call /\ CallOK(call[b]) /\ call[b].phase \in Phases
    BY DEF IInv, TypeOK, Kept, Calls, Call
  <2>1. ~StartCommit(b)
    BY <1>0, <2>0 DEF StartCommit, CallOK
  <2>2. ~Enqueue(b)
    BY <1>0, <1>1, <2>0 DEF Enqueue
  <2>3. ~EditSuggestion(b) /\ ~ConfirmRound(b) /\ ~Rerun(b) /\ ~Discard(b) /\ ~RetryCommit(b)
    BY <1>0 DEF EditSuggestion, ConfirmRound, Rerun, Discard, RetryCommit, Claims
  <2>4. /\ ~StartRead(b) /\ ~StartFails(b) /\ ~SaveRead(b) /\ ~SaveRollsBack(b)
        /\ ~RetryRead(b) /\ ~RetryRefused(b) /\ ~ApiCrash(b)
    BY <1>1 DEF StartRead, StartFails, SaveRead, SaveRollsBack, RetryRead, RetryRefused, ApiCrash
  <2>5. SaveWrite(b)
    BY <1>2, <2>1, <2>2, <2>3, <2>4 DEF Procedure
  <2>6. b = a
    BY <1>0, <2>5 DEF SaveWrite
  <2> QED BY <2>5, <2>6
<1>3. ASSUME NEW w \in Workers, Handle(w) \/ Throw(w) \/ Shutdown(w) \/ WorkerCrash(w)
      PROVE  run' = run
  <2>1. work[w].phase \in Phases
    BY DEF IInv, TypeOK, Work
  <2>2. ~Current(w) /\ ~Claim(w)
    BY <1>0, <2>1 DEF Current, Claim, Claimable
  <2>3. ~Checkpoint(w) /\ ~SecondPass(w) /\ ~FinishCalibration(w) /\ ~FinishFull(w) /\ ~FinishRerun(w)
    BY <2>2 DEF Checkpoint, SecondPass, FinishCalibration, FinishFull, FinishRerun, FinishPhase
  <2>4. Mark(w) => run' = run
    BY <2>2 DEF Mark
  <2>5. FailRun(w) => run' = run
    BY <2>2 DEF FailRun
  <2>6. ASSUME \/ Take(w) \/ Obsolete(w) \/ Begin(w) \/ Suggest(w) \/ Exhausted(w)
               \/ Superseded(w) \/ EndJob(w) \/ Throw(w) \/ Shutdown(w) \/ WorkerCrash(w)
        PROVE  run' = run
    BY <2>6 DEF Take, Obsolete, Begin, Suggest, Exhausted, Superseded, EndJob, Throw, Shutdown,
                WorkerCrash
  <2> QED BY <1>3, <2>2, <2>3, <2>4, <2>5, <2>6 DEF Handle
<1>4. ASSUME Ledger \/ Look \/ Expire \/ Occupy \/ Vacate \/ Age PROVE run' = run
  <2>1. ~Age
    BY <1>0 DEF Age, Busy
  <2> QED BY <1>4, <2>1 DEF Ledger, EditExpense, DeleteExpense, OthersOnly, Look, Expire, Occupy,
                            Vacate
<1> QED BY <1>1, <1>2, <1>3, <1>4 DEF Next

\* A save writes what its admin has seen, all of it but the agreed skips, and
\* only to expenses that are as they were captured.
THEOREM SavesAsSeen == Spec => SavedAsSeen
<1> DEFINE AsSeen ==
        \A a \in Admins :
          call[a].op = "save" /\ run'.status = "DONE" =>
              \A e \in Expenses :
                 \/ /\ ledger'[e] = ledger[e]
                    /\ page.seen[e] \in {General, Nothing} \/ e \in call[a].skips
                 \/ /\ ledger'[e].category = page.seen[e]
                    /\ ledger[e] = [version |-> rows[e].version, category |-> General]
<1>1. IInv /\ [Next]_vars => [AsSeen]_vars
  <2> SUFFICES ASSUME IInv, Next, NEW a \in Admins, call[a].op = "save", run'.status = "DONE",
                      NEW e \in Expenses
               PROVE  \/ /\ ledger'[e] = ledger[e]
                         /\ page.seen[e] \in {General, Nothing} \/ e \in call[a].skips
                      \/ /\ ledger'[e].category = page.seen[e]
                         /\ ledger[e] = [version |-> rows[e].version, category |-> General]
      BY DEF vars
  <2> DEFINE apply == Selected \ call[a].skips
  <2>1. SaveWrite(a)
    BY SaverOnly
  <2>2. ledger' = Categorized(apply) /\ \A x \in apply : ~Conflict(x)
    BY <2>1 DEF SaveWrite
  <2>3. page.seen[e] = IF e \in Rows THEN rows[e].category ELSE Nothing
    <3>1. Displayed
      BY DEF IInv, Kept, Saves
    <3>2. page.revision = run.revision /\ page.id = run.id /\ run # Nothing
      BY <3>1 DEF Displayed
    <3> QED BY <3>2 DEF IInv, Kept, Pages
  <2>4. CASE e \in apply
    <3>1. ledger'[e] = [version |-> ledger[e].version + 1, category |-> rows[e].category]
      BY <2>2, <2>4 DEF Categorized
    <3>2. ledger[e] = [version |-> rows[e].version, category |-> General]
      BY <2>2, <2>4 DEF Conflict
    <3>3. e \in Rows
      BY <2>4 DEF Selected
    <3> QED BY <2>3, <3>1, <3>2, <3>3
  <2>5. CASE e \notin apply
    <3>1. ledger'[e] = ledger[e]
      BY <2>2, <2>5 DEF Categorized
    <3>2. page.seen[e] \in {General, Nothing} \/ e \in call[a].skips
      BY <2>3, <2>5 DEF Selected
    <3> QED BY <3>1, <3>2
  <2> QED BY <2>4, <2>5
<1> HIDE DEF AsSeen
<1>2. Spec => [][AsSeen]_vars
    BY <1>1, Invariant, PTL DEF Spec
<1> QED BY <1>2 DEF SavedAsSeen, AsSeen
=============================================================================
