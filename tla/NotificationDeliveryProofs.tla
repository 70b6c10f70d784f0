--------------------- MODULE NotificationDeliveryProofs ---------------------
(***************************************************************************)
(* Proofs about NotificationDelivery, for any workers, timeouts, retry     *)
(* limit and number of faults.                                             *)
(***************************************************************************)
EXTENDS NotificationDelivery, TLAPS

\* A run that has claimed the row and not yet written its verdict.
Mid(w) == /\ runs[w] # NoRun
          /\ runs[w].pc \in {"claimed", "sending", "sent", "withheld", "permanent",
                            "transient"}

\* The row has a token exactly while it is processing: that of the last claim.
TokenOK == /\ token \in {0, attempts}
           /\ status = "PROCESSING" <=> token # 0

\* Tokens are never reused.
TokensDiffer ==
    /\ \A w \in Workers : Mid(w) => runs[w].token \in 1..attempts
    /\ \A v, w \in Workers : Mid(v) /\ Mid(w) /\ v # w => runs[v].token # runs[w].token

\* While nobody stalls, a claim's lease outlives its call of the provider, so
\* that nobody claims the row before the verdict is in.
LeaseOutlivesCall == ~stalled => \A w \in Workers : Mid(w) =>
    /\ runs[w].token = attempts
    /\ status \in {"PROCESSING", "GONE", "SENT"}
    /\ status = "SENT" => runs[w].pc = "transient"
    /\ status = "PROCESSING" =>
         /\ lease >= 0
         /\ runs[w].pc = "claimed" => lease >= Budget
         /\ runs[w].pc = "sending" => lease >= runs[w].left

\* While nobody stalls, every message accepted was lost track of, recorded, or
\* is about to be recorded.
Undecided(w) == In(w, "claimed") \/ In(w, "sending") \/ In(w, "withheld")
Unrecorded == status \in {"PENDING", "PROCESSING"} \cup Failed
Accounted ==
    /\ \A w \in Workers : In(w, "sent") => accepted > 0
    /\ \A w \in Workers : In(w, "withheld") => userMail /\ withheld
    /\ status = "SENT" => accepted > 0 \/ (userMail /\ withheld)
    /\ ~stalled =>
         /\ accepted <= unsure + 1
         /\ (\E w \in Workers : Undecided(w)) => accepted <= unsure
         /\ Unrecorded /\ (\A w \in Workers : ~In(w, "sent")) => accepted <= unsure

Facts == TokenOK /\ TokensDiffer /\ NewestKeepsRow /\ LeaseOutlivesCall /\ Accounted

IInv == TypeOK /\ Facts
------------------------------------------------------------------------------
(* Typing *)

\* A mark leaves a well-typed row, whoever owns it.
LEMMA MarkTypes ==
    ASSUME TypeOK, NEW w \in Workers,
           NEW st \in {"PENDING"} \cup Terminal, Mark(w, st)
    PROVE  /\ status' \in {"PENDING", "PROCESSING", "GONE"} \cup Terminal
           /\ token' \in Nat /\ lease' \in Int /\ attempts' \in Nat
           /\ young' \in Nat /\ keep' \in Nat /\ wellFormed' \in BOOLEAN
           /\ userMail' \in BOOLEAN
<1>1. Kept(st) \in Nat
    BY ConstantsAssumption DEF Kept, Terminal, Failed
<1> QED BY <1>1 DEF TypeOK, Mark

\* A failed or expired job stays within its retry limit.
LEMMA FailureTypes ==
    ASSUME TypeOK, job # NoJob
    PROVE  AfterFailure \in [st : {"queued", "active"}, tries : 0..RetryLimit, left : Nat]
                            \cup {NoJob}
BY ConstantsAssumption DEF TypeOK, AfterFailure, Retries, Queued

\* Disowning every run leaves well-typed runs.
LEMMA OrphanedTypes ==
    ASSUME TypeOK
    PROVE  Orphaned(runs) \in [Workers -> Run \cup {NoRun}]
BY DEF TypeOK, Orphaned, Run

\* A run that moves on, or ends, stays a run.
LEMMA GotoTypes ==
    ASSUME TypeOK, NEW w \in Workers, runs[w] # NoRun,
           NEW pc \in {"start", "claimed", "sending", "sent", "withheld", "permanent",
                       "transient", "done", "threw"},
           Goto(w, pc)
    PROVE  runs' \in [Workers -> Run \cup {NoRun}]
<1>1. runs[w] \in Run
    BY DEF TypeOK
<1>2. [runs[w] EXCEPT !.pc = pc] \in Run
    BY <1>1 DEF Run
<1>3. runs' = [runs EXCEPT ![w] = [runs[w] EXCEPT !.pc = pc]]
    BY DEF Goto
<1> QED BY <1>2, <1>3 DEF TypeOK

\* The end of a run, with its job completed or failed.
LEMMA EndTypes ==
    ASSUME TypeOK, NEW w \in Workers, NEW after, End(w, after),
           Holds(w) => after \in [st : {"queued", "active"}, tries : 0..RetryLimit,
                                  left : Nat] \cup {NoJob}
    PROVE  /\ runs' \in [Workers -> Run \cup {NoRun}]
           /\ job' \in [st : {"queued", "active"}, tries : 0..RetryLimit, left : Nat]
                      \cup {NoJob}
<1>1. Orphaned(runs) \in [Workers -> Run \cup {NoRun}]
    BY OrphanedTypes
<1> QED BY <1>1 DEF TypeOK, End

\* The type invariant is inductive by itself.
LEMMA Typing == TypeOK /\ [Next]_vars => TypeOK'
<1> SUFFICES ASSUME TypeOK, [Next]_vars PROVE TypeOK'
    OBVIOUS
<1> USE DEF TypeOK, rowVars, jobVars, histVars
<1>1. ASSUME NEW w \in Workers, Start(w) PROVE TypeOK'
    <2>1. [pc |-> "start", token |-> 0, left |-> 0, last |-> ~Retries,
           owns |-> TRUE, aborted |-> FALSE] \in Run
        BY DEF Run, Retries
    <2> QED BY <1>1, <2>1, TimeoutOrdering DEF Start
<1>2. ASSUME NEW w \in Workers, Claim(w) PROVE TypeOK'
    <2>1. runs[w] \in Run
        BY <1>2 DEF Claim, In
    <2> DEFINE r == [runs[w] EXCEPT !.pc = "claimed", !.token = attempts']
    <2>2. r \in Run
        <3>1. attempts' \in Nat
            BY <1>2 DEF Claim
        <3> QED BY <2>1, <3>1 DEF Run
    <2>3. runs' \in [Workers -> Run \cup {NoRun}]
        <3>1. runs' = [runs EXCEPT ![w] = r]
            BY <1>2 DEF Claim
        <3> HIDE DEF r
        <3> QED BY <2>2, <3>1
    <2> QED BY <1>2, <2>3, TimeoutOrdering DEF Claim
<1>3. ASSUME NEW w \in Workers, Refuse(w) PROVE TypeOK'
    BY <1>3, GotoTypes DEF Refuse, In
<1>4. ASSUME NEW w \in Workers,
             RejectSnapshot(w) \/ GiveBack(w) \/ MarkSent(w) \/ MarkPermanent(w)
             \/ MarkTransient(w) \/ MarkExhausted(w)
      PROVE  TypeOK'
    <2>1. runs' \in [Workers -> Run \cup {NoRun}]
        BY <1>4, GotoTypes
        DEF RejectSnapshot, GiveBack, MarkSent, MarkPermanent, MarkTransient,
            MarkExhausted, Returned, In
    <2>2. \E st \in {"PENDING"} \cup Terminal : Mark(w, st)
        BY <1>4 DEF RejectSnapshot, GiveBack, MarkSent, MarkPermanent,
                    MarkTransient, MarkExhausted, Terminal, Failed
    <2> QED
        BY <1>4, <2>1, <2>2, MarkTypes
        DEF RejectSnapshot, GiveBack, MarkSent, MarkPermanent, MarkTransient,
            MarkExhausted, Returned
<1>5. ASSUME NEW w \in Workers, CallProvider(w) PROVE TypeOK'
    <2>1. runs[w] \in Run
        BY <1>5 DEF CallProvider, In
    <2>2. [runs[w] EXCEPT !.pc = "sending", !.left = Budget] \in Run
        BY <2>1, TimeoutOrdering DEF Run
    <2> QED BY <1>5, <2>2 DEF CallProvider
<1>6. ASSUME NEW w \in Workers, Accept(w) \/ Withhold(w) \/ Decline(w) \/ LoseReply(w)
      PROVE  TypeOK'
    <2>1. runs' \in [Workers -> Run \cup {NoRun}]
        BY <1>6, GotoTypes DEF Accept, Withhold, Decline, LoseReply, In
    <2>2. CASE Accept(w)
        BY <2>1, <2>2 DEF Accept
    <2>3. CASE Withhold(w)
        BY <2>1, <2>3 DEF Withhold
    <2>4. CASE Decline(w)
        BY <2>1, <2>4 DEF Decline
    <2>5. CASE LoseReply(w)
        BY <2>1, <2>5 DEF LoseReply, Fault
    <2> QED BY <1>6, <2>2, <2>3, <2>4, <2>5
<1>7. ASSUME NEW w \in Workers, MarkSentFails(w) PROVE TypeOK'
    <2>1. runs' \in [Workers -> Run \cup {NoRun}]
        BY <1>7, GotoTypes DEF MarkSentFails, Returned, In
    <2>2. CASE Mark(w, "SENT")
        <3>1. "SENT" \in {"PENDING"} \cup Terminal
            BY DEF Terminal
        <3> QED BY <1>7, <2>1, <2>2, <3>1, MarkTypes DEF MarkSentFails, Fault
    <2>3. CASE UNCHANGED rowVars
        BY <1>7, <2>1, <2>3 DEF MarkSentFails, Fault
    <2> QED BY <1>7, <2>2, <2>3 DEF MarkSentFails
<1>8. ASSUME NEW w \in Workers, TransactionFails(w) PROVE TypeOK'
    BY <1>8, GotoTypes DEF TransactionFails, In, Fault
<1>9. ASSUME NEW w \in Workers, Acknowledge(w) \/ FailJob(w) PROVE TypeOK'
    <2>1. Holds(w) => AfterFailure \in [st : {"queued", "active"},
                        tries : 0..RetryLimit, left : Nat] \cup {NoJob}
        BY FailureTypes DEF Holds
    <2> QED BY <1>9, <2>1, EndTypes DEF Acknowledge, FailJob
<1>10. ASSUME NEW w \in Workers, Crash(w) PROVE TypeOK'
    BY <1>10 DEF Crash, Fault
<1>11. ASSUME NEW w \in Workers, Shutdown(w) PROVE TypeOK'
    <2>1. AfterFailure \in [st : {"queued", "active"}, tries : 0..RetryLimit,
                            left : Nat] \cup {NoJob}
        BY <1>11, FailureTypes DEF Shutdown, Holds
    <2>2. /\ runs[w] \in Run
          /\ [runs[w] EXCEPT !.aborted = TRUE] \in Run
          /\ [Orphaned(runs)[w] EXCEPT !.aborted = TRUE] \in Run
        BY <1>11 DEF Shutdown, Run, Orphaned
    <2>3. runs' \in [Workers -> Run \cup {NoRun}]
        BY <1>11, <2>2, OrphanedTypes DEF Shutdown
    <2> QED BY <1>11, <2>1, <2>3 DEF Shutdown, Fault
<1>12. CASE Expire
    <2>1. AfterFailure \in [st : {"queued", "active"}, tries : 0..RetryLimit,
                            left : Nat] \cup {NoJob}
        BY <1>12, FailureTypes DEF Expire
    <2>2. \A w \in Workers : runs[w] # NoRun =>
            [runs[w] EXCEPT !.aborted = @ \/ runs[w].owns, !.owns = @ /\ Retries] \in Run
        BY DEF Run, Retries
    <2>3. runs' \in [Workers -> Run \cup {NoRun}]
        BY <1>12, <2>2 DEF Expire
    <2> QED BY <1>12, <2>1, <2>3 DEF Expire
<1>13. CASE Tick
    <2>1. \A w \in Workers : runs[w] # NoRun =>
            [runs[w] EXCEPT !.left = Down(@, 0)] \in Run
        BY DEF Run, Down
    <2>2. runs' \in [Workers -> Run \cup {NoRun}]
        BY <1>13, <2>1 DEF Tick
    <2>3. job' \in [st : {"queued", "active"}, tries : 0..RetryLimit, left : Nat]
                    \cup {NoJob}
        BY <1>13 DEF Tick, Down
    <2>4. lease' \in Int /\ young' \in Nat /\ keep' \in Nat
        BY <1>13 DEF Tick, Down
    <2>5. faults' \in Nat /\ stalled' \in BOOLEAN
        <3>1. (\E w \in Workers : Hesitates(w)) \in BOOLEAN
            OBVIOUS
        <3> QED BY <1>13, <3>1 DEF Tick, Fault
    <2> QED BY <1>13, <2>2, <2>3, <2>4, <2>5 DEF Tick
<1>14. CASE Scan \/ SendScanned
    <2>1. Queued(0) \in [st : {"queued", "active"}, tries : 0..RetryLimit, left : Nat]
        BY ConstantsAssumption DEF Queued
    <2>2. CASE Scan
        BY <2>2 DEF Scan
    <2>3. CASE SendScanned
        BY <2>1, <2>3 DEF SendScanned, Send
    <2> QED BY <1>14, <2>2, <2>3
<1>15. CASE Cleanup \/ Cascade
    BY <1>15 DEF Cleanup, Cascade, Remove
<1>16. CASE UNCHANGED vars
    BY <1>16 DEF vars
<1> QED
    BY <1>1, <1>2, <1>3, <1>4, <1>5, <1>6, <1>7, <1>8, <1>9, <1>10, <1>11, <1>12,
       <1>13, <1>14, <1>15, <1>16
    DEF Next, Handler, Mishap

------------------------------------------------------------------------------
(* Steps that leave the row and its accounts alone *)

\* No run newly claims or sends; a run leaves the provider's call only towards
\* a failure, and the "sent" state only when its message is counted as lost.
Moves(v) ==
    /\ runs'[v].token = runs[v].token
    /\ \/ runs'[v].pc = runs[v].pc /\ runs'[v].left = runs[v].left
       \/ runs'[v].pc = "permanent" /\ runs[v].pc = "sending"
       \/ runs'[v].pc = "transient"

Quiet ==
    /\ UNCHANGED <<status, token, lease, attempts, userMail, accepted, withheld, stalled>>
    /\ unsure' \in {unsure, unsure + 1}
    /\ \A v \in Workers : Mid(v)' => Mid(v) /\ Moves(v)
    /\ unsure' = unsure => \A v \in Workers : In(v, "sent") => In(v, "sent")'

\* Quiet steps keep the invariant.
LEMMA QuietKeeps == TypeOK /\ Facts /\ Quiet => Facts'
<1> SUFFICES ASSUME TypeOK, Facts, Quiet PROVE Facts'
    OBVIOUS
<1>1. TokenOK'
    BY DEF Facts, TokenOK, Quiet
<1>2. TokensDiffer'
    BY DEF Facts, TokensDiffer, Quiet, Moves
<1>3. NewestKeepsRow'
    BY DEF Facts, NewestKeepsRow, Quiet, Moves, Mid
<1>4. LeaseOutlivesCall'
    BY DEF Facts, LeaseOutlivesCall, Quiet, Moves, Mid
<1>5. Accounted'
    <2>1. \A v \in Workers : Undecided(v)' => Undecided(v)
        BY DEF Quiet, Moves, Mid, In, Undecided
    <2>2. \A v \in Workers : In(v, "withheld")' => In(v, "withheld")
        BY DEF Quiet, Moves, Mid, In
    <2>3. \A v \in Workers : In(v, "sent")' => In(v, "sent")
        BY DEF Quiet, Moves, Mid, In
    <2>4. unsure' = unsure => ((\A v \in Workers : ~In(v, "sent")')
                                 => \A v \in Workers : ~In(v, "sent"))
        BY DEF Quiet
    <2>5. /\ status' = status /\ accepted' = accepted /\ stalled' = stalled
          /\ userMail' = userMail /\ withheld' = withheld
          /\ accepted \in Nat /\ unsure \in Nat
          /\ unsure' = unsure \/ unsure' = unsure + 1
        BY DEF Quiet, TypeOK
    <2>6. Unrecorded' = Unrecorded
        BY <2>5 DEF Unrecorded
    <2>7. accepted <= unsure => accepted' <= unsure'
        BY <2>5
    <2>8. CASE unsure' = unsure
        BY <2>1, <2>2, <2>3, <2>4, <2>5, <2>6, <2>7, <2>8 DEF Facts, Accounted
    <2>9. CASE unsure' = unsure + 1
        <3>1. ~stalled => accepted' <= unsure'
            BY <2>5, <2>9 DEF Facts, Accounted
        <3> QED BY <2>2, <2>3, <2>5, <2>9, <3>1 DEF Facts, Accounted
    <2> QED BY <2>5, <2>8, <2>9
<1> QED BY <1>1, <1>2, <1>3, <1>4, <1>5 DEF Facts

------------------------------------------------------------------------------
(* Verdicts *)

\* While nobody stalls at most one run has claimed the row and not yet settled.
LEMMA OneMid ==
    ASSUME Facts, ~stalled, NEW v \in Workers, NEW w \in Workers, Mid(v), Mid(w)
    PROVE  v = w
BY DEF Facts, TokensDiffer, LeaseOutlivesCall

\* Only the newest claim owns the row.
LEMMA OwnerIsNewest ==
    ASSUME TypeOK, Facts, NEW w \in Workers, Mid(w), Owns(w)
    PROVE  runs[w].token = attempts /\ status = "PROCESSING"
BY DEF TypeOK, Facts, TokenOK, TokensDiffer, Owns

\* A run that has claimed writes its verdict and goes on: SENT after the call
\* has returned, anything else when it did not.
LEMMA MarkKeeps ==
    ASSUME TypeOK, Facts, NEW w \in Workers, Mid(w), NEW st, NEW pc,
           st \in {"PENDING"} \cup Terminal,
           st = "SENT" <=> runs[w].pc \in {"sent", "withheld"},
           pc \in {"done", "threw"} \/ (pc = "transient" /\ st = "SENT"),
           Mark(w, st), Goto(w, pc),
           UNCHANGED <<accepted, unsure, withheld, stalled>>
    PROVE  Facts'
<1>1. \A v \in Workers : v # w => runs'[v] = runs[v]
    BY DEF Goto, TypeOK
<1>2. runs'[w].pc = pc /\ runs'[w].token = runs[w].token
    BY DEF Goto, TypeOK, Mid, Run
<1>3. ASSUME NEW v \in Workers, Mid(v)'
      PROVE  /\ Mid(v) /\ runs'[v].token = runs[v].token
             /\ v = w => pc = "transient" /\ st = "SENT"
    BY <1>1, <1>2, <1>3 DEF Mid
<1>4. attempts' = attempts /\ attempts \in Nat
    BY DEF Mark, TypeOK
<1>5. Owns(w) => /\ runs[w].token = attempts /\ status = "PROCESSING"
                 /\ \A v \in Workers : Mid(v) /\ v # w => runs[v].token # attempts
    BY OwnerIsNewest DEF Facts, TokensDiffer
<1>6. TokenOK'
    BY <1>4 DEF Facts, TokenOK, Mark, Terminal, Failed
<1>7. TokensDiffer'
    BY <1>3, <1>4 DEF Facts, TokensDiffer
<1>8. NewestKeepsRow'
    <2> SUFFICES ASSUME NEW v \in Workers, runs'[v] # NoRun,
                        runs'[v].pc \in {"claimed", "sending", "sent", "withheld",
                                      "permanent"},
                        runs'[v].token = attempts'
                 PROVE  status' \in {"PROCESSING", "GONE"}
        BY DEF NewestKeepsRow
    <2>1. v # w
        BY <1>2
    <2>2. Mid(v) /\ runs[v].token = attempts
        BY <1>1, <1>4, <2>1 DEF Mid
    <2>3. ~Owns(w)
        BY <1>5, <2>1, <2>2
    <2>4. status \in {"PROCESSING", "GONE"}
        BY <1>1, <1>4, <2>1 DEF Facts, NewestKeepsRow
    <2> QED BY <2>3, <2>4 DEF Mark
<1>9. LeaseOutlivesCall'
    <2> SUFFICES ASSUME ~stalled, NEW v \in Workers, Mid(v)'
                 PROVE  /\ runs'[v].token = attempts'
                        /\ status' \in {"PROCESSING", "GONE", "SENT"}
                        /\ status' = "SENT" => runs'[v].pc = "transient"
                        /\ status' = "PROCESSING" =>
                             /\ lease' >= 0
                             /\ runs'[v].pc = "claimed" => lease' >= Budget
                             /\ runs'[v].pc = "sending" => lease' >= runs'[v].left
        BY DEF LeaseOutlivesCall
    <2>1. /\ Mid(v) /\ runs'[v].token = runs[v].token
          /\ v = w => pc = "transient" /\ st = "SENT"
        BY <1>3
    <2>2. v = w
        BY <2>1, OneMid
    <2>5. pc = "transient" /\ st = "SENT" /\ runs'[v].token = attempts'
        BY <1>4, <2>1, <2>2 DEF Facts, LeaseOutlivesCall
    <2>3. CASE Owns(w)
        BY <1>2, <2>2, <2>5, <2>3 DEF Mark
    <2>4. CASE ~Owns(w)
        <3>1. status' = status /\ lease' = lease
            BY <2>4 DEF Mark
        <3>2. runs[w].token = attempts /\ status \in {"PROCESSING", "GONE", "SENT"}
              /\ (status = "PROCESSING" => lease >= 0)
            BY DEF Facts, LeaseOutlivesCall
        <3> QED BY <1>2, <2>2, <2>5, <3>1, <3>2
    <2> QED BY <2>3, <2>4
<1>10. Accounted'
    <2>1. \A v \in Workers : (In(v, "sent")' => In(v, "sent"))
                            /\ (In(v, "withheld")' => In(v, "withheld"))
                            /\ (Undecided(v)' => Undecided(v))
        BY <1>1, <1>2 DEF In, Undecided
    <2>2. In(w, "sent") \/ In(w, "withheld") => accepted > 0 \/ (userMail /\ withheld)
        BY DEF Facts, Accounted
    <2>5. userMail' = userMail
        BY DEF Mark
    <2>3. status' = "SENT" => accepted > 0 \/ (userMail /\ withheld)
        <3>1. status = "SENT" => accepted > 0 \/ (userMail /\ withheld)
            BY DEF Facts, Accounted
        <3>2. status' = status \/ status' = st
            BY DEF Mark
        <3> QED BY <2>2, <3>1, <3>2 DEF In, Mid
    <2>4. ASSUME ~stalled, Unrecorded', \A v \in Workers : ~In(v, "sent")'
          PROVE  accepted <= unsure
        <3>1. CASE Owns(w)
            <4>1. status' = st /\ status = "PROCESSING"
                BY <1>5, <3>1 DEF Mark
            <4>2. runs[w].pc # "sent"
                BY <2>4, <4>1 DEF Unrecorded, Failed
            <4>3. \A v \in Workers : ~In(v, "sent")
                BY <2>4, <4>2, OneMid DEF In, Mid
            <4> QED BY <2>4, <4>1, <4>3 DEF Facts, Accounted, Unrecorded
        <3>2. CASE ~Owns(w)
            <4>1. status' = status
                BY <3>2 DEF Mark
            <4>2. runs[w].pc # "sent"
                <5> SUFFICES ASSUME runs[w].pc = "sent" PROVE FALSE
                    OBVIOUS
                <5>1. runs[w].token = attempts /\ status = "PROCESSING"
                    BY <2>4, <4>1
                    DEF Facts, LeaseOutlivesCall, Unrecorded, Failed
                <5>2. token = attempts
                    BY <5>1 DEF Facts, TokenOK
                <5> QED BY <3>2, <5>1, <5>2 DEF Owns
            <4>3. \A v \in Workers : ~In(v, "sent")
                BY <2>4, <4>2, OneMid DEF In, Mid
            <4> QED BY <2>4, <4>1, <4>3 DEF Facts, Accounted, Unrecorded
        <3> QED BY <3>1, <3>2
    <2> QED BY <2>1, <2>3, <2>4, <2>5 DEF Facts, Accounted
<1> QED BY <1>6, <1>7, <1>8, <1>9, <1>10 DEF Facts

------------------------------------------------------------------------------
(* The other steps of a handler *)

\* A claim takes a new token; while nobody stalls no other run is under way.
LEMMA ClaimKeeps ==
    ASSUME TypeOK, Facts, NEW w \in Workers, Claim(w)
    PROVE  Facts'
<1>1. \A v \in Workers : v # w => runs'[v] = runs[v]
    BY DEF Claim, TypeOK
<1>2. /\ runs'[w].pc = "claimed" /\ runs'[w].token = attempts'
      /\ status' = "PROCESSING" /\ attempts' = attempts + 1 /\ token' = attempts'
      /\ lease' = Lease /\ UNCHANGED <<userMail, accepted, unsure, withheld, stalled>>
    <2>1. runs[w] \in Run
        BY DEF Claim, In, TypeOK
    <2>2. [runs[w] EXCEPT !.pc = "claimed", !.token = attempts'].pc = "claimed"
          /\ [runs[w] EXCEPT !.pc = "claimed", !.token = attempts'].token = attempts'
        BY <2>1 DEF Run
    <2> QED BY <2>2 DEF Claim, TypeOK, histVars
<1>3. attempts \in Nat
    BY DEF TypeOK
<1>4. ASSUME NEW v \in Workers, Mid(v)', v # w
      PROVE  Mid(v) /\ runs'[v].token \in 1..attempts
    BY <1>1, <1>4 DEF Mid, Facts, TokensDiffer
<1>5. ~stalled => \A v \in Workers : ~Mid(v)
    BY TimeoutOrdering DEF Facts, LeaseOutlivesCall, Claim, Claimable, TypeOK
<1>6. TokenOK'
    BY <1>2, <1>3 DEF TokenOK
<1>7. TokensDiffer'
    <2>1. \A v \in Workers : Mid(v)' => runs'[v].token \in 1..attempts'
        BY <1>2, <1>3, <1>4
    <2>2. ASSUME NEW u \in Workers, NEW v \in Workers, Mid(u)', Mid(v)', u # v
          PROVE  runs'[u].token # runs'[v].token
        <3>1. CASE u = w
            BY <1>2, <1>3, <1>4, <2>2, <3>1
        <3>2. CASE v = w
            BY <1>2, <1>3, <1>4, <2>2, <3>2
        <3>3. CASE u # w /\ v # w
            BY <1>1, <1>4, <2>2, <3>3 DEF Facts, TokensDiffer
        <3> QED BY <3>1, <3>2, <3>3
    <2> QED BY <2>1, <2>2 DEF TokensDiffer
<1>8. NewestKeepsRow'
    BY <1>2 DEF NewestKeepsRow
<1>9. LeaseOutlivesCall'
    <2>1. ASSUME ~stalled, NEW v \in Workers, Mid(v)' PROVE v = w
        BY <1>4, <1>5, <2>1
    <2> QED BY <1>2, <2>1, TimeoutOrdering DEF LeaseOutlivesCall
<1>10. Accounted'
    <2>1. \A v \in Workers : (In(v, "sent")' => In(v, "sent"))
                            /\ (In(v, "withheld")' => In(v, "withheld"))
        BY <1>1, <1>2 DEF In
    <2>2. ~stalled => accepted <= unsure
        BY <1>5 DEF Facts, Accounted, Unrecorded, Claim, Claimable, In, Mid
    <2> QED BY <1>2, <2>1, <2>2 DEF Facts, Accounted, TypeOK
<1> QED BY <1>6, <1>7, <1>8, <1>9, <1>10 DEF Facts

\* The provider's call starts with the whole budget, inside the lease.
LEMMA CallKeeps ==
    ASSUME TypeOK, Facts, NEW w \in Workers, CallProvider(w)
    PROVE  Facts'
<1>1. \A v \in Workers : v # w => runs'[v] = runs[v]
    BY DEF CallProvider, TypeOK
<1>2. /\ runs'[w].pc = "sending" /\ runs'[w].token = runs[w].token
      /\ runs'[w].left = Budget /\ runs[w].pc = "claimed" /\ Mid(w)
      /\ UNCHANGED <<status, token, lease, attempts, userMail, accepted, unsure,
                     withheld, stalled>>
    <2>1. runs[w] \in Run
        BY DEF CallProvider, In, TypeOK
    <2> QED BY <2>1 DEF CallProvider, TypeOK, histVars, rowVars, In, Mid, Run
<1>3. ASSUME NEW v \in Workers, Mid(v)'
      PROVE  Mid(v) /\ runs'[v].token = runs[v].token
    BY <1>1, <1>2, <1>3 DEF Mid
<1>4. TokenOK'
    BY <1>2 DEF Facts, TokenOK
<1>5. TokensDiffer'
    BY <1>2, <1>3 DEF Facts, TokensDiffer
<1>6. NewestKeepsRow'
    <2> SUFFICES ASSUME NEW v \in Workers, runs'[v] # NoRun,
                        runs'[v].pc \in {"claimed", "sending", "sent", "withheld",
                                      "permanent"},
                        runs'[v].token = attempts'
                 PROVE  status' \in {"PROCESSING", "GONE"}
        BY DEF NewestKeepsRow
    <2> QED BY <1>1, <1>2 DEF Facts, NewestKeepsRow, Mid
<1>7. LeaseOutlivesCall'
    <2> SUFFICES ASSUME ~stalled, NEW v \in Workers, Mid(v)'
                 PROVE  /\ runs'[v].token = attempts'
                        /\ status' \in {"PROCESSING", "GONE", "SENT"}
                        /\ status' = "SENT" => runs'[v].pc = "transient"
                        /\ status' = "PROCESSING" =>
                             /\ lease' >= 0
                             /\ runs'[v].pc = "claimed" => lease' >= Budget
                             /\ runs'[v].pc = "sending" => lease' >= runs'[v].left
        BY <1>2 DEF LeaseOutlivesCall
    <2>1. Mid(v) /\ runs'[v].token = runs[v].token
        BY <1>3
    <2>2. v = w
        BY <1>2, <2>1, OneMid
    <2> QED BY <1>2, <2>1, <2>2 DEF Facts, LeaseOutlivesCall
<1>8. Accounted'
    <2>1. \A v \in Workers : (In(v, "sent")' <=> In(v, "sent"))
                            /\ (In(v, "withheld")' => In(v, "withheld"))
        BY <1>1, <1>2 DEF In, CallProvider, Mid, TypeOK
    <2>2. Undecided(w)
        BY DEF CallProvider, Undecided
    <2> QED BY <1>2, <2>1, <2>2 DEF Facts, Accounted, Unrecorded
<1> QED BY <1>4, <1>5, <1>6, <1>7, <1>8 DEF Facts

\* A mail held back: its caller goes on as if it were sent, the accounts as they were.
LEMMA WithholdKeeps ==
    ASSUME TypeOK, Facts, NEW w \in Workers, Withhold(w)
    PROVE  Facts'
<1>1. \A v \in Workers : v # w => runs'[v] = runs[v]
    BY DEF Withhold, Goto, TypeOK
<1>2. /\ runs'[w].pc = "withheld" /\ runs'[w].token = runs[w].token
      /\ runs[w].pc = "sending" /\ Mid(w) /\ userMail /\ withheld'
      /\ UNCHANGED <<status, token, lease, attempts, userMail, accepted, unsure, stalled>>
    <2>1. runs[w] \in Run
        BY DEF Withhold, In, TypeOK
    <2> QED BY <2>1 DEF Withhold, Goto, TypeOK, rowVars, In, Mid, Run
<1>3. ASSUME NEW v \in Workers, Mid(v)'
      PROVE  Mid(v) /\ runs'[v].token = runs[v].token
    BY <1>1, <1>2, <1>3 DEF Mid
<1>4. TokenOK'
    BY <1>2 DEF Facts, TokenOK
<1>5. TokensDiffer'
    BY <1>2, <1>3 DEF Facts, TokensDiffer
<1>6. NewestKeepsRow'
    <2> SUFFICES ASSUME NEW v \in Workers, runs'[v] # NoRun,
                        runs'[v].pc \in {"claimed", "sending", "sent", "withheld",
                                         "permanent"},
                        runs'[v].token = attempts'
                 PROVE  status' \in {"PROCESSING", "GONE"}
        BY DEF NewestKeepsRow
    <2> QED BY <1>1, <1>2 DEF Facts, NewestKeepsRow, Mid
<1>7. LeaseOutlivesCall'
    <2> SUFFICES ASSUME ~stalled, NEW v \in Workers, Mid(v)'
                 PROVE  /\ runs'[v].token = attempts'
                        /\ status' \in {"PROCESSING", "GONE", "SENT"}
                        /\ status' = "SENT" => runs'[v].pc = "transient"
                        /\ status' = "PROCESSING" =>
                             /\ lease' >= 0
                             /\ runs'[v].pc = "claimed" => lease' >= Budget
                             /\ runs'[v].pc = "sending" => lease' >= runs'[v].left
        BY <1>2 DEF LeaseOutlivesCall
    <2>1. Mid(v) /\ runs'[v].token = runs[v].token
        BY <1>3
    <2>2. v = w
        BY <1>2, <2>1, OneMid
    <2> QED BY <1>2, <2>1, <2>2 DEF Facts, LeaseOutlivesCall
<1>8. Accounted'
    <2>1. \A v \in Workers : In(v, "sent")' <=> In(v, "sent")
        BY <1>1, <1>2 DEF In, Withhold, Goto, Mid, TypeOK
    <2>2. Undecided(w)
        BY DEF Withhold, Undecided
    <2> QED BY <1>2, <2>1, <2>2 DEF Facts, Accounted, Unrecorded
<1> QED BY <1>4, <1>5, <1>6, <1>7, <1>8 DEF Facts

\* The provider accepts the message: the caller is the only one in a call.
LEMMA AcceptKeeps ==
    ASSUME TypeOK, Facts, NEW w \in Workers, Accept(w) \/ LoseReply(w)
    PROVE  Facts'
<1>1. PICK pc : /\ Goto(w, pc) /\ accepted' = accepted + 1
                /\ \/ pc = "sent" /\ unsure' = unsure
                   \/ pc = "transient" /\ unsure' = unsure + 1
    BY DEF Accept, LoseReply
<1>2. /\ \A v \in Workers : v # w => runs'[v] = runs[v]
      /\ runs'[w].pc = pc /\ runs'[w].token = runs[w].token
      /\ runs[w].pc = "sending" /\ In(w, "sending") /\ Mid(w)
    <2>1. runs[w] \in Run
        BY DEF Accept, LoseReply, In, TypeOK
    <2> QED BY <1>1, <2>1 DEF Goto, TypeOK, Accept, LoseReply, In, Mid, Run
<1>3. UNCHANGED <<status, token, lease, attempts, userMail, withheld, stalled>>
    BY DEF Accept, LoseReply, rowVars
<1>4. ASSUME NEW v \in Workers, Mid(v)'
      PROVE  Mid(v) /\ runs'[v].token = runs[v].token
    BY <1>2, <1>4 DEF Mid
<1>5. TokenOK'
    BY <1>3 DEF Facts, TokenOK
<1>6. TokensDiffer'
    BY <1>3, <1>4 DEF Facts, TokensDiffer
<1>7. NewestKeepsRow'
    <2> SUFFICES ASSUME NEW v \in Workers, runs'[v] # NoRun,
                        runs'[v].pc \in {"claimed", "sending", "sent", "withheld",
                                      "permanent"},
                        runs'[v].token = attempts'
                 PROVE  status' \in {"PROCESSING", "GONE"}
        BY DEF NewestKeepsRow
    <2> QED BY <1>2, <1>3 DEF Facts, NewestKeepsRow, Mid
<1>8. LeaseOutlivesCall'
    <2> SUFFICES ASSUME ~stalled, NEW v \in Workers, Mid(v)'
                 PROVE  /\ runs'[v].token = attempts'
                        /\ status' \in {"PROCESSING", "GONE", "SENT"}
                        /\ status' = "SENT" => runs'[v].pc = "transient"
                        /\ status' = "PROCESSING" =>
                             /\ lease' >= 0
                             /\ runs'[v].pc = "claimed" => lease' >= Budget
                             /\ runs'[v].pc = "sending" => lease' >= runs'[v].left
        BY <1>3 DEF LeaseOutlivesCall
    <2>1. Mid(v) /\ runs'[v].token = runs[v].token
        BY <1>4
    <2>2. v = w
        BY <1>2, <2>1, OneMid
    <2> QED BY <1>1, <1>2, <1>3, <2>1, <2>2 DEF Facts, LeaseOutlivesCall
<1>9. Accounted'
    <2>1. accepted \in Nat /\ unsure \in Nat
        BY DEF TypeOK
    <2>2. ~stalled => /\ accepted <= unsure
                      /\ \A v \in Workers : ~Undecided(v)'
        <3>1. ASSUME ~stalled, NEW v \in Workers, Undecided(v)'
              PROVE  FALSE
            <4>1. Mid(v)'
                BY <3>1 DEF In, Mid, Undecided
            <4>2. v = w
                BY <1>2, <1>4, <3>1, <4>1, OneMid
            <4> QED BY <1>1, <1>2, <3>1, <4>2 DEF In, Undecided
        <3>2. Undecided(w)
            BY <1>2 DEF Undecided
        <3> QED BY <3>1, <3>2 DEF Facts, Accounted
    <2>3. pc = "sent" => In(w, "sent")'
        <3>1. [runs[w] EXCEPT !.pc = pc] \in Run \/ pc # "sent"
            BY <1>2 DEF TypeOK, Mid, Run
        <3> QED BY <1>1, <1>2, <3>1, ConstantsAssumption DEF In, Goto, TypeOK
    <2>4. \A v \in Workers : In(v, "withheld")' => userMail' /\ withheld'
        BY <1>1, <1>2, <1>3 DEF In, Facts, Accounted
    <2>5. accepted' > 0
        BY <1>1, <2>1
    <2>6. CASE pc = "sent" /\ unsure' = unsure
        <3>1. ~stalled => accepted' <= unsure' + 1
            BY <1>1, <2>1, <2>2, <2>6
        <3> QED BY <1>3, <2>2, <2>3, <2>4, <2>5, <2>6, <3>1 DEF Accounted
    <2>7. CASE pc = "transient" /\ unsure' = unsure + 1
        <3>1. ~stalled => accepted' <= unsure' /\ accepted' <= unsure' + 1
            BY <1>1, <2>1, <2>2, <2>7
        <3> QED BY <1>3, <2>4, <2>5, <3>1 DEF Accounted
    <2> QED BY <1>1, <2>6, <2>7
<1> QED BY <1>5, <1>6, <1>7, <1>8, <1>9 DEF Facts

\* The decline of the provider is quiet; so is every step about the queue, and
\* every end of a run.
LEMMA DeclineIsQuiet ==
    ASSUME TypeOK, NEW w \in Workers, Decline(w) PROVE Quiet
<1>1. /\ \A v \in Workers : v # w => runs'[v] = runs[v]
      /\ runs'[w].pc \in {"permanent", "transient"} /\ runs'[w].token = runs[w].token
      /\ runs[w].pc = "sending" /\ runs[w] # NoRun
    <2>1. runs[w] \in Run
        BY DEF Decline, In, TypeOK
    <2> QED BY <2>1 DEF Decline, Goto, TypeOK, In, Run
<1> QED BY <1>1 DEF Quiet, Moves, Mid, In, Decline, rowVars, histVars

\* Time: a call's budget and the lease run down together.
LEMMA TickKeeps ==
    ASSUME TypeOK, Facts, Tick
    PROVE  Facts'
<1>1. UNCHANGED <<status, token, attempts, userMail, accepted, unsure, withheld>>
    BY DEF Tick
<1>2. ASSUME NEW v \in Workers
      PROVE  /\ runs[v] = NoRun => runs'[v] = NoRun
             /\ runs[v] # NoRun => /\ runs'[v].pc = runs[v].pc
                                   /\ runs'[v].token = runs[v].token
                                   /\ runs'[v].left = Down(runs[v].left, 0)
    BY DEF Tick, TypeOK, Run
<1>3. ASSUME NEW v \in Workers, NEW pc, In(v, pc)' PROVE In(v, pc)
    BY <1>2, <1>3 DEF In
<1>4. ASSUME NEW v \in Workers, Mid(v)'
      PROVE  Mid(v) /\ runs'[v].token = runs[v].token
    BY <1>2, <1>4 DEF Mid
<1>5. TokenOK'
    BY <1>1 DEF Facts, TokenOK
<1>6. TokensDiffer'
    BY <1>1, <1>4 DEF Facts, TokensDiffer
<1>7. NewestKeepsRow'
    <2> SUFFICES ASSUME NEW v \in Workers, runs'[v] # NoRun,
                        runs'[v].pc \in {"claimed", "sending", "sent", "withheld",
                                      "permanent"},
                        runs'[v].token = attempts'
                 PROVE  status' \in {"PROCESSING", "GONE"}
        BY DEF NewestKeepsRow
    <2> QED BY <1>1, <1>2 DEF Facts, NewestKeepsRow
<1>8. LeaseOutlivesCall'
    <2> SUFFICES ASSUME ~stalled', NEW v \in Workers, Mid(v)'
                 PROVE  /\ runs'[v].token = attempts'
                        /\ status' \in {"PROCESSING", "GONE", "SENT"}
                        /\ status' = "SENT" => runs'[v].pc = "transient"
                        /\ status' = "PROCESSING" =>
                             /\ lease' >= 0
                             /\ runs'[v].pc = "claimed" => lease' >= Budget
                             /\ runs'[v].pc = "sending" => lease' >= runs'[v].left
        BY DEF LeaseOutlivesCall
    <2>1. ~stalled /\ ~Hesitates(v)
        BY DEF Tick
    <2>2. Mid(v) /\ runs[v] \in Run
        BY <1>4 DEF Mid, TypeOK
    <2>3. runs[v].pc = "sending"
        BY <2>1, <2>2 DEF Hesitates, Idle, Mid, Run
    <2>4. runs[v].left > 0 /\ runs[v].left \in Nat /\ runs'[v].left = runs[v].left - 1
        BY <1>2, <2>2, <2>3 DEF Tick, In, Mid, Down, Run
    <2>5. status = "PROCESSING" => lease >= runs[v].left
        BY <2>1, <2>2, <2>3 DEF Facts, LeaseOutlivesCall
    <2>6. status = "PROCESSING" => lease' = lease - 1 /\ lease \in Int
        BY <2>4, <2>5 DEF Tick, Down, TypeOK
    <2>7. runs'[v].pc = "sending" /\ runs'[v].token = attempts'
        BY <1>1, <1>2, <1>4, <2>1, <2>2, <2>3 DEF Facts, LeaseOutlivesCall, Mid
    <2> QED BY <1>1, <2>1, <2>2, <2>3, <2>4, <2>5, <2>6, <2>7
            DEF Facts, LeaseOutlivesCall
<1>9. Accounted'
    <2>1. \A v \in Workers : In(v, "sent")' <=> In(v, "sent")
        <3>1. \A v \in Workers : runs[v] # NoRun => runs'[v] # NoRun
            <4>1. \A v \in Workers : runs[v] # NoRun =>
                    [runs[v] EXCEPT !.left = Down(@, 0)] \in Run
                BY DEF TypeOK, Run, Down
            <4> QED BY <4>1, ConstantsAssumption DEF Tick
        <3> QED BY <1>2, <3>1 DEF In
    <2>2. stalled => stalled'
        BY DEF Tick
    <2>3. \A v \in Workers : (Undecided(v)' => Undecided(v))
                            /\ (In(v, "withheld")' => In(v, "withheld"))
        BY <1>3 DEF Undecided
    <2> QED BY <1>1, <2>1, <2>2, <2>3 DEF Facts, Accounted, Unrecorded
<1> QED BY <1>5, <1>6, <1>7, <1>8, <1>9 DEF Facts

\* The row is removed: nobody owns it any more.
LEMMA RemoveKeeps ==
    ASSUME TypeOK, Facts, Remove
    PROVE  Facts'
<1>1. /\ status' = "GONE" /\ token' = 0
      /\ UNCHANGED <<attempts, userMail, runs, accepted, unsure, withheld, stalled>>
    BY DEF Remove, histVars
<1>2. TokenOK'
    BY <1>1 DEF TokenOK
<1>3. TokensDiffer'
    BY <1>1 DEF Facts, TokensDiffer, Mid
<1>4. NewestKeepsRow'
    BY <1>1 DEF NewestKeepsRow
<1>5. LeaseOutlivesCall'
    BY <1>1 DEF Facts, LeaseOutlivesCall, Mid
<1>6. Accounted'
    BY <1>1 DEF Facts, Accounted, Unrecorded, Undecided, In, Failed
<1> QED BY <1>2, <1>3, <1>4, <1>5, <1>6 DEF Facts

------------------------------------------------------------------------------
(* The invariant *)

Ends(v) == runs'[v] = NoRun \/ runs'[v].pc \in {"start", "done", "threw"}

Stays(v) == /\ runs[v] # NoRun /\ runs'[v] # NoRun
            /\ runs'[v].pc = runs[v].pc /\ runs'[v].left = runs[v].left
            /\ runs'[v].token = runs[v].token

\* A step that leaves the row and the accounts, under which each run ends or
\* stays where it is, is quiet if it counts the message of a run it ends.
LEMMA EndingIsQuiet ==
    ASSUME TypeOK,
           \A v \in Workers : Ends(v) \/ Stays(v),
           \A v \in Workers : In(v, "sent") => Stays(v) \/ unsure' = unsure + 1,
           unsure' \in {unsure, unsure + 1},
           UNCHANGED <<status, token, lease, attempts, userMail, accepted,
                       withheld, stalled>>
    PROVE  Quiet
<1>1. ASSUME NEW v \in Workers, Mid(v)' PROVE Mid(v) /\ Moves(v)
    BY <1>1 DEF Mid, Moves, Ends, Stays
<1>2. ASSUME unsure' = unsure, NEW v \in Workers, In(v, "sent")
      PROVE  In(v, "sent")'
    <2>1. Stays(v)
        BY <1>2 DEF TypeOK
    <2> QED BY <1>2, <2>1 DEF In, Stays
<1> QED BY <1>1, <1>2 DEF Quiet

\* Disowning leaves what a run is doing.
LEMMA OrphanedKeeps ==
    ASSUME TypeOK, NEW v \in Workers
    PROVE  /\ runs[v] = NoRun <=> Orphaned(runs)[v] = NoRun
           /\ runs[v] # NoRun => /\ Orphaned(runs)[v].pc = runs[v].pc
                                 /\ Orphaned(runs)[v].left = runs[v].left
                                 /\ Orphaned(runs)[v].token = runs[v].token
<1>1. runs[v] # NoRun => [runs[v] EXCEPT !.owns = FALSE] \in Run
    BY DEF TypeOK, Run
<1>2. Orphaned(runs)[v] = IF runs[v] = NoRun THEN NoRun
                          ELSE [runs[v] EXCEPT !.owns = FALSE]
    BY DEF Orphaned
<1> QED BY <1>1, <1>2, ConstantsAssumption DEF TypeOK, Run

\* Moving on to an end.
LEMMA GotoEnds ==
    ASSUME TypeOK, NEW w \in Workers, NEW pc \in {"done", "threw"}, Goto(w, pc),
           runs[w] # NoRun
    PROVE  Ends(w) /\ \A v \in Workers : v # w /\ runs[v] # NoRun => Stays(v)
BY DEF TypeOK, Goto, Ends, Stays, Run

\* The steps about queue, processes and reconciliation are quiet.
LEMMA QueueIsQuiet ==
    ASSUME TypeOK, NEW w \in Workers,
           Start(w) \/ Refuse(w) \/ Acknowledge(w) \/ FailJob(w) \/ TransactionFails(w)
           \/ Crash(w) \/ Shutdown(w)
    PROVE  Quiet
<1>1. \A v \in Workers : runs[v] = NoRun /\ runs'[v] = runs[v] => Ends(v)
    BY DEF Ends
<1>2. \A v \in Workers : runs'[v] = runs[v] => Ends(v) \/ Stays(v)
    BY DEF Ends, Stays
<1>3. CASE Start(w)
    <2>1. \A v \in Workers : Ends(v) \/ (runs'[v] = runs[v] /\ runs[v] # NoRun)
        BY <1>3 DEF Start, TypeOK, Ends
    <2>2. \A v \in Workers : In(v, "sent") => runs'[v] = runs[v]
        BY <1>3 DEF Start, TypeOK, In
    <2>3. unsure' = unsure /\ UNCHANGED <<status, token, lease, attempts, userMail, accepted,
                                          withheld, stalled>>
        BY <1>3 DEF Start, rowVars, histVars
    <2> QED BY <2>1, <2>2, <2>3, EndingIsQuiet DEF Stays, In
<1>4. CASE Refuse(w) \/ TransactionFails(w)
    <2>1. PICK pc \in {"done", "threw"} : Goto(w, pc)
        BY <1>4 DEF Refuse, TransactionFails
    <2>2. runs[w] # NoRun /\ ~In(w, "sent")
        BY <1>4 DEF Refuse, TransactionFails, In
    <2>3. \A v \in Workers : v # w => runs'[v] = runs[v]
        BY <2>1 DEF Goto, TypeOK
    <2>4. Ends(w) /\ \A v \in Workers : v # w /\ runs[v] # NoRun => Stays(v)
        BY <2>1, <2>2, GotoEnds
    <2>5. unsure' = unsure /\ UNCHANGED <<status, token, lease, attempts, userMail, accepted,
                                          withheld, stalled>>
        BY <1>4 DEF Refuse, TransactionFails, rowVars, histVars
    <2>6. \A v \in Workers : Ends(v) \/ Stays(v)
        BY <1>2, <2>3, <2>4
    <2>7. \A v \in Workers : In(v, "sent") => Stays(v)
        BY <2>2, <2>4 DEF In
    <2> QED BY <2>5, <2>6, <2>7, EndingIsQuiet
<1>5. CASE Acknowledge(w) \/ FailJob(w)
    <2>1. ~In(w, "sent")
        BY <1>5 DEF Acknowledge, FailJob, In
    <2>2. runs'[w] = NoRun
        BY <1>5 DEF Acknowledge, FailJob, End, TypeOK, Orphaned
    <2>3. \A v \in Workers : v # w =>
            runs'[v] = runs[v] \/ runs'[v] = Orphaned(runs)[v]
        BY <1>5 DEF Acknowledge, FailJob, End, TypeOK, Orphaned
    <2>4. \A v \in Workers : v # w =>
            /\ runs[v] = NoRun => Ends(v)
            /\ runs[v] # NoRun => Stays(v)
        BY <1>1, <2>3, OrphanedKeeps DEF Stays, Ends
    <2>5. unsure' = unsure /\ UNCHANGED <<status, token, lease, attempts, userMail, accepted,
                                          withheld, stalled>>
        BY <1>5 DEF Acknowledge, FailJob, rowVars, histVars
    <2>6. \A v \in Workers : Ends(v) \/ Stays(v)
        BY <2>2, <2>4 DEF Ends
    <2>7. \A v \in Workers : In(v, "sent") => Stays(v)
        BY <2>1, <2>4 DEF In
    <2> QED BY <2>5, <2>6, <2>7, EndingIsQuiet
<1>6. CASE Crash(w)
    <2>1. runs'[w] = NoRun /\ \A v \in Workers : v # w => runs'[v] = runs[v]
        BY <1>6 DEF Crash, TypeOK
    <2>2. In(w, "sent") => unsure' = unsure + 1
        BY <1>6 DEF Crash
    <2>3. unsure' \in {unsure, unsure + 1}
          /\ UNCHANGED <<status, token, lease, attempts, userMail, accepted,
                         withheld, stalled>>
        BY <1>6 DEF Crash, rowVars
    <2>4. \A v \in Workers : Ends(v) \/ Stays(v)
        BY <1>2, <2>1 DEF Ends
    <2>5. \A v \in Workers : In(v, "sent") => Stays(v) \/ unsure' = unsure + 1
        BY <2>1, <2>2 DEF In, Stays
    <2> QED BY <2>3, <2>4, <2>5, EndingIsQuiet
<1>7. CASE Shutdown(w)
    <2>1. \A v \in Workers : v # w =>
            runs'[v] = runs[v] \/ runs'[v] = Orphaned(runs)[v]
        BY <1>7 DEF Shutdown, TypeOK, Orphaned
    <2>2. Stays(w)
        <3>1. runs[w] \in Run
            BY <1>7 DEF Shutdown, TypeOK
        <3>2. [runs[w] EXCEPT !.aborted = TRUE] \in Run
              /\ [[runs[w] EXCEPT !.owns = FALSE] EXCEPT !.aborted = TRUE] \in Run
            BY <3>1 DEF Run
        <3>3. runs'[w] \in {[runs[w] EXCEPT !.aborted = TRUE],
                            [[runs[w] EXCEPT !.owns = FALSE] EXCEPT !.aborted = TRUE]}
            BY <1>7, <3>1, ConstantsAssumption DEF Shutdown, TypeOK, Orphaned
        <3> QED BY <3>1, <3>2, <3>3, ConstantsAssumption DEF Stays, Run
    <2>3. \A v \in Workers : v # w =>
            /\ runs[v] = NoRun => Ends(v)
            /\ runs[v] # NoRun => Stays(v)
        BY <1>1, <2>1, OrphanedKeeps DEF Stays, Ends
    <2>4. unsure' = unsure /\ UNCHANGED <<status, token, lease, attempts, userMail, accepted,
                                          withheld, stalled>>
        BY <1>7 DEF Shutdown, rowVars
    <2>5. \A v \in Workers : Ends(v) \/ Stays(v)
        BY <2>2, <2>3
    <2>6. \A v \in Workers : In(v, "sent") => Stays(v)
        BY <2>2, <2>3 DEF In
    <2> QED BY <2>4, <2>5, <2>6, EndingIsQuiet
<1> QED BY <1>3, <1>4, <1>5, <1>6, <1>7

\* So are expiry, reconciliation and stuttering.
LEMMA CronsAreQuiet ==
    ASSUME TypeOK, Expire \/ Scan \/ SendScanned \/ UNCHANGED vars
    PROVE  Quiet
<1>1. unsure' = unsure /\ UNCHANGED <<status, token, lease, attempts, userMail, accepted,
                                      withheld, stalled>>
    BY DEF Expire, Scan, SendScanned, vars, rowVars, histVars
<1>2. ASSUME NEW v \in Workers
      PROVE  /\ runs[v] = NoRun => Ends(v)
             /\ runs[v] # NoRun => Stays(v)
    <2>1. CASE runs' = runs
        BY <2>1 DEF Ends, Stays
    <2>2. CASE Expire
        <3>1. runs[v] # NoRun =>
                [runs[v] EXCEPT !.aborted = @ \/ runs[v].owns, !.owns = @ /\ Retries] \in Run
            BY DEF TypeOK, Run, Retries
        <3>2. runs'[v] = IF runs[v] = NoRun THEN NoRun
                ELSE [runs[v] EXCEPT !.aborted = @ \/ runs[v].owns, !.owns = @ /\ Retries]
            BY <2>2 DEF Expire
        <3> QED BY <3>1, <3>2, ConstantsAssumption DEF TypeOK, Run, Ends, Stays
    <2> QED BY <2>1, <2>2 DEF Scan, SendScanned, vars
<1>3. \A v \in Workers : In(v, "sent") => Stays(v)
    BY <1>2 DEF In
<1> QED BY <1>1, <1>2, <1>3, EndingIsQuiet

\* markSent fails, after its commit or before it.
LEMMA MarkSentFailsKeeps ==
    ASSUME TypeOK, Facts, NEW w \in Workers, MarkSentFails(w)
    PROVE  Facts'
<1>1. Mid(w) /\ runs[w].pc \in {"sent", "withheld"} /\ Goto(w, "transient")
    BY DEF MarkSentFails, Returned, In, Mid
<1>2. CASE Mark(w, "SENT") /\ unsure' = unsure
    <2>1. UNCHANGED <<accepted, unsure, withheld, stalled>>
        BY <1>2 DEF MarkSentFails
    <2>2. "SENT" \in {"PENDING"} \cup Terminal
        BY DEF Terminal
    <2> QED BY <1>1, <1>2, <2>1, <2>2, MarkKeeps
<1>3. CASE UNCHANGED rowVars /\ unsure' = IF In(w, "sent") THEN unsure + 1 ELSE unsure
    <2>1. /\ \A v \in Workers : v # w => runs'[v] = runs[v]
          /\ runs'[w].pc = "transient" /\ runs'[w].token = runs[w].token
        BY <1>1 DEF Goto, TypeOK, Mid, Run
    <2>2. ASSUME NEW v \in Workers, Mid(v)' PROVE Mid(v) /\ Moves(v)
        BY <1>1, <2>1, <2>2 DEF Mid, Moves
    <2>3. unsure' = unsure => \A v \in Workers : In(v, "sent") => In(v, "sent")'
        <3>1. unsure' = unsure => ~In(w, "sent")
            BY <1>3 DEF TypeOK
        <3> QED BY <2>1, <3>1 DEF In
    <2>4. UNCHANGED <<status, token, lease, attempts, userMail, accepted, withheld, stalled>>
        BY <1>3 DEF MarkSentFails, rowVars
    <2> QED BY <1>3, <2>2, <2>3, <2>4, QuietKeeps DEF Quiet
<1> QED BY <1>2, <1>3 DEF MarkSentFails

\* Every other mark.
LEMMA MarksKeep ==
    ASSUME TypeOK, Facts, NEW w \in Workers,
           RejectSnapshot(w) \/ GiveBack(w) \/ MarkSent(w) \/ MarkPermanent(w)
           \/ MarkTransient(w) \/ MarkExhausted(w)
    PROVE  Facts'
<1>1. PICK st \in {"PENDING"} \cup Terminal, pc \in {"done", "threw"} :
        /\ Mark(w, st) /\ Goto(w, pc) /\ Mid(w)
        /\ st = "SENT" <=> runs[w].pc \in {"sent", "withheld"}
    <2>1. {"SENT", "PERMANENT_FAILURE", "RETRY_EXHAUSTED"} \subseteq Terminal
        BY DEF Terminal, Failed
    <2> QED BY <2>1 DEF RejectSnapshot, GiveBack, MarkSent, MarkPermanent,
                        MarkTransient, MarkExhausted, Returned, In, Mid
<1>2. UNCHANGED <<accepted, unsure, withheld, stalled>>
    BY DEF RejectSnapshot, GiveBack, MarkSent, MarkPermanent, MarkTransient,
           MarkExhausted, histVars
<1> QED BY <1>1, <1>2, MarkKeeps

\* The facts hold at the start and every step keeps them.
THEOREM Inductive == Spec => []IInv
<1>1. Init => IInv
    <2> SUFFICES ASSUME Init PROVE IInv
        OBVIOUS
    <2>1. Queued(0) \in [st : {"queued", "active"}, tries : 0..RetryLimit, left : Nat]
        BY ConstantsAssumption DEF Queued
    <2>2. TypeOK
        <3>1. job \in [st : {"queued", "active"}, tries : 0..RetryLimit, left : Nat]
                     \cup {NoJob}
            BY <2>1 DEF Init
        <3>2. runs \in [Workers -> Run \cup {NoRun}]
            BY DEF Init
        <3>3. status \in {"PENDING", "PROCESSING", "GONE"} \cup Terminal
              /\ token \in Nat /\ lease \in Int /\ attempts \in Nat
              /\ young \in Nat /\ keep \in Nat
              /\ accepted \in Nat /\ unsure \in Nat /\ faults \in Nat
            BY ConstantsAssumption DEF Init
        <3>4. wellFormed \in BOOLEAN /\ userMail \in BOOLEAN /\ scanned \in BOOLEAN
              /\ withheld \in BOOLEAN /\ stalled \in BOOLEAN
            BY DEF Init
        <3> QED BY <3>1, <3>2, <3>3, <3>4 DEF TypeOK
    <2>3. \A w \in Workers : runs[w] = NoRun
        BY DEF Init
    <2>4. TokenOK /\ TokensDiffer /\ NewestKeepsRow /\ LeaseOutlivesCall
        BY <2>3 DEF Init, TokenOK, TokensDiffer, NewestKeepsRow, LeaseOutlivesCall, Mid
    <2>5. Accounted
        BY <2>3 DEF Init, Accounted, Undecided, In
    <2> QED BY <2>2, <2>4, <2>5 DEF IInv, Facts
<1>2. IInv /\ [Next]_vars => IInv'
    <2> SUFFICES ASSUME TypeOK, Facts, [Next]_vars PROVE Facts'
        BY Typing DEF IInv
    <2>1. ASSUME NEW w \in Workers, Handler(w) \/ Mishap(w) \/ Start(w) PROVE Facts'
        <3>1. CASE Claim(w)
            BY <3>1, ClaimKeeps
        <3>2. CASE CallProvider(w) \/ Withhold(w)
            BY <3>2, CallKeeps, WithholdKeeps
        <3>3. CASE Accept(w) \/ LoseReply(w)
            BY <3>3, AcceptKeeps
        <3>4. CASE Decline(w)
            BY <3>4, DeclineIsQuiet, QuietKeeps
        <3>5. CASE RejectSnapshot(w) \/ GiveBack(w) \/ MarkSent(w) \/ MarkPermanent(w)
                   \/ MarkTransient(w) \/ MarkExhausted(w)
            BY <3>5, MarksKeep
        <3>6. CASE MarkSentFails(w)
            BY <3>6, MarkSentFailsKeeps
        <3>7. CASE Start(w) \/ Refuse(w) \/ Acknowledge(w) \/ FailJob(w)
                   \/ TransactionFails(w) \/ Crash(w) \/ Shutdown(w)
            BY <3>7, QueueIsQuiet, QuietKeeps
        <3> QED BY <2>1, <3>1, <3>2, <3>3, <3>4, <3>5, <3>6, <3>7 DEF Handler, Mishap
    <2>2. CASE Expire \/ Scan \/ SendScanned \/ UNCHANGED vars
        BY <2>2, CronsAreQuiet, QuietKeeps
    <2>3. CASE Tick
        BY <2>3, TickKeeps
    <2>4. CASE Cleanup \/ Cascade
        BY <2>4, RemoveKeeps DEF Cleanup, Cascade
    <2> QED BY <2>1, <2>2, <2>3, <2>4 DEF Next
<1> QED BY <1>1, <1>2, PTL DEF Spec

------------------------------------------------------------------------------
(* What follows *)

\* The row, its job and the runs keep their types; a job's tries stay within
\* JOBS_RETRY_LIMIT.
THEOREM Types == Spec => []TypeOK
<1>1. IInv => TypeOK
    BY DEF IInv
<1> QED BY <1>1, Inductive, PTL

\* While no worker stalls around the provider's call, at most one is in it:
\* what the lease of delivery-senders.ts is for.
THEOREM Exclusive == Spec => []OneSender
<1>1. IInv => OneSender
    <2> SUFFICES ASSUME IInv, ~stalled, NEW v \in Workers, NEW w \in Workers,
                        In(v, "sending"), In(w, "sending")
                 PROVE  v = w
        BY DEF OneSender
    <2>1. Mid(v) /\ Mid(w)
        BY DEF In, Mid
    <2> QED BY <2>1, OneMid DEF IInv
<1> QED BY <1>1, Inductive, PTL

\* A late run with an old token never takes the row from the newest claim.
THEOREM NewestKeeps == Spec => []NewestKeepsRow
<1>1. IInv => NewestKeepsRow
    BY DEF IInv, Facts
<1> QED BY <1>1, Inductive, PTL

\* A message is sent again only if the verdict on an earlier copy was lost.
THEOREM Resends == Spec => []ResentOnlyIfLost
<1>1. IInv => ResentOnlyIfLost
    <2> SUFFICES ASSUME IInv, ~stalled PROVE accepted <= 1 + unsure
        BY DEF ResentOnlyIfLost
    <2>1. accepted <= unsure + 1 /\ unsure \in Nat /\ accepted \in Nat
        BY DEF IInv, Facts, Accounted, TypeOK
    <2> QED BY <2>1
<1> QED BY <1>1, Inductive, PTL

\* A SENT row was accepted by the provider, or is a user-caused mail that the
\* limiter of email-delivery-sender.ts held back; a failed one was not accepted,
\* unless an answer was lost.
THEOREM Truth == Spec => []VerdictIsTrue
<1>1. IInv => VerdictIsTrue
    <2> SUFFICES ASSUME IInv PROVE VerdictIsTrue
        OBVIOUS
    <2>1. status = "SENT" => accepted > 0 \/ (userMail /\ withheld)
        BY DEF IInv, Facts, Accounted
    <2>2. ASSUME status \in Failed, unsure = 0, ~stalled PROVE accepted = 0
        <3>1. \A w \in Workers : ~In(w, "sent")
            BY <2>2 DEF IInv, Facts, LeaseOutlivesCall, In, Mid, Failed
        <3> QED BY <2>2, <3>1 DEF IInv, Facts, Accounted, Unrecorded, TypeOK
    <2> QED BY <2>1, <2>2 DEF VerdictIsTrue
<1> QED BY <1>1, Inductive, PTL

\* No later run changes a terminal verdict.
THEOREM Final == Spec => VerdictIsFinal
<1>1. IInv /\ [Next]_vars => [(status \in Terminal) => status' \in {status, "GONE"}]_vars
    <2> SUFFICES ASSUME IInv, Next, status \in Terminal
                 PROVE  status' \in {status, "GONE"}
        BY DEF vars
    <2>1. token = 0 /\ ~Claimable
        BY DEF IInv, Facts, TokenOK, Terminal, Failed, Claimable
    <2>2. \A w \in Workers : Mid(w) => ~Owns(w)
        BY <2>1 DEF IInv, Facts, TokensDiffer, Owns, TypeOK
    <2>3. ASSUME NEW w \in Workers, Handler(w) \/ Mishap(w) \/ Start(w)
          PROVE  status' = status
        <3>1. CASE Claim(w)
            BY <2>1, <3>1 DEF Claim
        <3>2. CASE RejectSnapshot(w) \/ GiveBack(w) \/ MarkSent(w) \/ MarkPermanent(w)
                   \/ MarkTransient(w) \/ MarkExhausted(w) \/ MarkSentFails(w)
            <4>1. ~Owns(w)
                BY <2>2, <3>2
                DEF RejectSnapshot, GiveBack, MarkSent, MarkPermanent, MarkTransient,
                    MarkExhausted, MarkSentFails, Returned, In, Mid
            <4>2. \A st : Mark(w, st) => status' = status
                BY <4>1 DEF Mark
            <4> QED
                BY <3>2, <4>2
                DEF RejectSnapshot, GiveBack, MarkSent, MarkPermanent, MarkTransient,
                    MarkExhausted, MarkSentFails, rowVars
        <3>3. CASE \/ Start(w) \/ Refuse(w) \/ CallProvider(w) \/ Accept(w) \/ Withhold(w)
                   \/ Decline(w) \/ Acknowledge(w) \/ FailJob(w) \/ LoseReply(w)
                   \/ TransactionFails(w) \/ Crash(w) \/ Shutdown(w)
            BY <3>3
            DEF Start, Refuse, CallProvider, Accept, Withhold, Decline, Acknowledge, FailJob,
                LoseReply, TransactionFails, Crash, Shutdown, rowVars
        <3> QED BY <2>3, <3>1, <3>2, <3>3 DEF Handler, Mishap
    <2>4. CASE Tick \/ Expire \/ Scan \/ SendScanned \/ Cleanup \/ Cascade
        BY <2>4 DEF Tick, Expire, Scan, SendScanned, Cleanup, Cascade, Remove, rowVars
    <2> QED BY <2>3, <2>4 DEF Next
<1> QED BY <1>1, Inductive, PTL DEF Spec, VerdictIsFinal
==============================================================================
