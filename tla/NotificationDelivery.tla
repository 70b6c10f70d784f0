------------------------ MODULE NotificationDelivery ------------------------
(***************************************************************************)
(* One NotificationDelivery row, its exclusive notification.deliver job,   *)
(* the workers that run the job, and the crons that repair and remove the  *)
(* row.  The row is the outbox of one message to one target: a worker      *)
(* claims it with a lease in one transaction, calls the mail or push       *)
(* provider outside any transaction, and records the verdict in another.   *)
(*                                                                         *)
(* Time is a set of countdowns that Tick decrements: the lease, the        *)
(* provider's budget, the job's expiry, the ages the crons look at.  A     *)
(* lease of -1 is past leaseExpiresAt, one of 0 is exactly at it.  The     *)
(* lease token, a fresh UUID per claim, is the number of the claim         *)
(* (attemptCount): a run owns the row when its token is the row's.         *)
(***************************************************************************)
EXTENDS Integers

CONSTANTS
    Workers,      \* worker threads of the notification.deliver queue
    Budget,       \* SMTP_OPERATION_BUDGET_MS, in ticks
    Lease,        \* DELIVERY_LEASE_MS, in ticks
    Expiry,       \* expireInSeconds of the job, in ticks
    MinAge,       \* RECONCILE_PENDING_MIN_AGE_MS, in ticks
    SentKept,     \* SENT_RETENTION_MS, in ticks
    FailedKept,   \* TERMINAL_FAILURE_RETENTION_MS, in ticks
    RetryLimit,   \* JOBS_RETRY_LIMIT
    MaxFaults,    \* bound: crashes, shutdowns, database errors, lost replies, stalls
    NoJob, NoRun

\* What a handler in progress knows.
Run == [pc : {"start", "claimed", "sending", "sent", "withheld", "permanent",
              "transient", "done", "threw"},
        token : Nat, left : Nat, last : BOOLEAN, owns : BOOLEAN, aborted : BOOLEAN]

\* assertDeliveryTimeoutOrdering
ASSUME TimeoutOrdering ==
    /\ Budget \in Nat /\ Lease \in Nat /\ Expiry \in Nat
    /\ Budget < Lease /\ Lease < Expiry

ASSUME ConstantsAssumption ==
    /\ MinAge \in Nat /\ SentKept \in Nat /\ FailedKept \in Nat
    /\ RetryLimit \in Nat /\ MaxFaults \in Nat
    /\ NoRun \notin Run

VARIABLES
    status,     \* the row's status, or "GONE"
    token,      \* the row's leaseToken, 0 when null
    lease,      \* ticks until leaseExpiresAt, -1 past it
    attempts,   \* attemptCount
    young,      \* ticks until the pending row is old enough to reconcile
    keep,       \* ticks until a terminal row may be cleaned up
    wellFormed, \* the stored snapshot and channel are ones the worker accepts
    userMail,   \* a mail a user causes: snapshot.kind "invitation" or "friend_added"
    job,        \* the row's job in its exclusive queue
    scanned,    \* a reconciler has read the row, its job not yet sent
    runs,       \* each worker's handler
    accepted,   \* history: messages the provider accepted
    unsure,     \* history: accepted messages whose verdict was lost
    withheld,   \* history: calls the limiter of such mails has held back
    faults,     \* faults so far
    stalled     \* history: a worker stood still between two of its steps

rowVars == <<status, token, lease, attempts, young, keep, wellFormed, userMail>>
jobVars == <<job, scanned>>
histVars == <<accepted, unsure, withheld, faults, stalled>>
vars == <<rowVars, jobVars, runs, histVars>>

Failed == {"PERMANENT_FAILURE", "RETRY_EXHAUSTED"}
Terminal == Failed \cup {"SENT"}

------------------------------------------------------------------------------
(* The exclusive queue: one queued or active job for the row *)

Queued(tries) == [st |-> "queued", tries |-> tries, left |-> 0]
Send(j) == IF j = NoJob THEN Queued(0) ELSE j

\* The job leaves the queue: no run can complete or fail it any more.
Orphaned(rs) == [v \in Workers |->
    IF rs[v] = NoRun THEN NoRun ELSE [rs[v] EXCEPT !.owns = FALSE]]

\* A failed or expired job is retried until its limit, then dead-lettered.
\* Mutant: one retry too many.
RetriesOnceMore == job.tries <= RetryLimit
Retries == job.tries < RetryLimit
AfterFailure == IF Retries THEN Queued(job.tries + 1) ELSE NoJob

Holds(w) == runs[w].owns /\ job # NoJob /\ job.st = "active"

------------------------------------------------------------------------------
(* planDeliveries inserts the row and, when the API has a queue, its job in *)
(* the transaction of the mutation that is announced.                       *)

Init ==
    /\ status = "PENDING" /\ token = 0 /\ lease = -1 /\ attempts = 0
    /\ young = MinAge /\ keep = 0
    /\ wellFormed \in BOOLEAN /\ userMail \in BOOLEAN
    /\ job \in {NoJob, Queued(0)} /\ scanned = FALSE
    /\ runs = [w \in Workers |-> NoRun]
    /\ accepted = 0 /\ unsure = 0 /\ withheld = FALSE /\ faults = 0 /\ stalled = FALSE

------------------------------------------------------------------------------
(* handleNotificationDelivery *)

In(w, pc) == runs[w] # NoRun /\ runs[w].pc = pc
Goto(w, pc) == runs' = [runs EXCEPT ![w].pc = pc]
Fault == faults < MaxFaults /\ faults' = faults + 1

\* pg-boss hands the job to a worker.
Start(w) ==
    /\ runs[w] = NoRun
    /\ job # NoJob /\ job.st = "queued"
    /\ job' = [job EXCEPT !.st = "active", !.left = Expiry]
    /\ runs' = [runs EXCEPT ![w] =
          [pc |-> "start", token |-> 0, left |-> 0, last |-> ~Retries,
           owns |-> TRUE, aborted |-> FALSE]]
    /\ UNCHANGED <<rowVars, scanned, histVars>>

\* Mutant: a claim takes a processing row whatever its lease.
ClaimableAnyway == status \in {"PENDING", "PROCESSING"}
Claimable == status = "PENDING" \/ (status = "PROCESSING" /\ lease < 0)

\* claimDelivery
Claim(w) ==
    /\ In(w, "start") /\ Claimable
    /\ status' = "PROCESSING"
    /\ attempts' = attempts + 1 /\ token' = attempts' /\ lease' = Lease
    /\ runs' = [runs EXCEPT ![w] = [@ EXCEPT !.pc = "claimed", !.token = attempts']]
    /\ UNCHANGED <<young, keep, wellFormed, userMail, jobVars, histVars>>

\* Terminal, leased to another run or missing: the job is acknowledged.
Refuse(w) ==
    /\ In(w, "start") /\ ~Claimable
    /\ Goto(w, "done")
    /\ UNCHANGED <<rowVars, jobVars, histVars>>

\* A verdict is written only by the run whose token the row still has.
\* Mutant: by every run that has a verdict, whatever its token.
OwnsAnyway(w) == status # "GONE"
Owns(w) == status # "GONE" /\ token = runs[w].token

Kept(st) == CASE st = "SENT" -> SentKept
              [] st \in Failed -> FailedKept
              [] OTHER -> 0

\* markSent, markPermanentFailure, markRetryExhausted, markTransientFailure
Mark(w, st) ==
    /\ IF Owns(w)
       THEN status' = st /\ token' = 0 /\ lease' = -1 /\ keep' = Kept(st)
       ELSE UNCHANGED <<status, token, lease, keep>>
    /\ UNCHANGED <<attempts, young, wellFormed, userMail>>

RejectSnapshot(w) ==
    /\ In(w, "claimed") /\ ~wellFormed
    /\ Mark(w, "PERMANENT_FAILURE") /\ Goto(w, "done")
    /\ UNCHANGED <<jobVars, histVars>>

\* The signal fired before the provider was called: give the lease back.
GiveBack(w) ==
    /\ In(w, "claimed") /\ wellFormed /\ runs[w].aborted
    /\ Mark(w, "PENDING") /\ Goto(w, "threw")
    /\ UNCHANGED <<jobVars, histVars>>

CallProvider(w) ==
    /\ In(w, "claimed") /\ wellFormed /\ ~runs[w].aborted
    /\ runs' = [runs EXCEPT ![w] = [@ EXCEPT !.pc = "sending", !.left = Budget]]
    /\ UNCHANGED <<rowVars, jobVars, histVars>>

Accept(w) ==
    /\ In(w, "sending")
    /\ accepted' = accepted + 1 /\ Goto(w, "sent")
    /\ UNCHANGED <<rowVars, jobVars, unsure, withheld, faults, stalled>>

\* The daily quota of its sender or recipient is used up: send returns as if the
\* mail had gone out.  The counters are those of the process and of every such
\* mail it sends, so that any call may be the one too many.
Withhold(w) ==
    /\ In(w, "sending") /\ userMail
    /\ withheld' = TRUE /\ Goto(w, "withheld")
    /\ UNCHANGED <<rowVars, jobVars, accepted, unsure, faults, stalled>>

Decline(w) ==
    /\ In(w, "sending")
    /\ \/ Goto(w, "permanent") \/ Goto(w, "transient")
    /\ UNCHANGED <<rowVars, jobVars, histVars>>

\* The provider accepted the message but its answer never came.
LoseReply(w) ==
    /\ In(w, "sending") /\ Fault
    /\ accepted' = accepted + 1 /\ unsure' = unsure + 1
    /\ Goto(w, "transient")
    /\ UNCHANGED <<rowVars, jobVars, withheld, stalled>>

\* send has returned, whether it called the provider or not.
Returned(w) == In(w, "sent") \/ In(w, "withheld")

MarkSent(w) ==
    /\ Returned(w)
    /\ Mark(w, "SENT") /\ Goto(w, "done")
    /\ UNCHANGED <<jobVars, histVars>>

\* markSent fails inside the try, perhaps after its commit: the catch takes the
\* error for a transient failure of the provider.
MarkSentFails(w) ==
    /\ Returned(w) /\ Fault
    /\ \/ Mark(w, "SENT") /\ UNCHANGED unsure
       \/ UNCHANGED rowVars /\ unsure' = IF In(w, "sent") THEN unsure + 1 ELSE unsure
    /\ Goto(w, "transient")
    /\ UNCHANGED <<jobVars, accepted, withheld, stalled>>

MarkPermanent(w) ==
    /\ In(w, "permanent")
    /\ Mark(w, "PERMANENT_FAILURE") /\ Goto(w, "done")
    /\ UNCHANGED <<jobVars, histVars>>

\* isExhausted tells the two apart; both rethrow.
MarkTransient(w) ==
    /\ In(w, "transient") /\ ~runs[w].last
    /\ Mark(w, "PENDING") /\ Goto(w, "threw")
    /\ UNCHANGED <<jobVars, histVars>>

MarkExhausted(w) ==
    /\ In(w, "transient") /\ runs[w].last
    /\ Mark(w, "RETRY_EXHAUSTED") /\ Goto(w, "threw")
    /\ UNCHANGED <<jobVars, histVars>>

\* Any other transaction of the handler fails: it throws, the row as it was.
TransactionFails(w) ==
    /\ \/ In(w, "start") \/ In(w, "permanent") \/ In(w, "transient")
       \/ In(w, "claimed") /\ (~wellFormed \/ runs[w].aborted)
    /\ Fault /\ Goto(w, "threw")
    /\ UNCHANGED <<rowVars, jobVars, accepted, unsure, withheld, stalled>>

\* pg-boss completes or fails the job the run was started for, if it is active.
End(w, after) ==
    IF Holds(w)
    THEN /\ job' = after
         /\ runs' = [(IF after = NoJob THEN Orphaned(runs) ELSE runs)
                        EXCEPT ![w] = NoRun]
    ELSE /\ runs' = [runs EXCEPT ![w] = NoRun]
         /\ UNCHANGED job

Acknowledge(w) ==
    /\ In(w, "done") /\ End(w, NoJob)
    /\ UNCHANGED <<rowVars, scanned, histVars>>

FailJob(w) ==
    /\ In(w, "threw") /\ End(w, AfterFailure)
    /\ UNCHANGED <<rowVars, scanned, histVars>>

------------------------------------------------------------------------------
(* Time, processes and the queue *)

Down(n, floor) == IF n > floor THEN n - 1 ELSE n

\* A worker that lets time pass outside the provider's call stands still; it
\* has stalled when it stands between its claim and its verdict.
Idle(w) == runs[w] # NoRun /\ runs[w].pc # "sending"
Hesitates(w) == Idle(w) /\ runs[w].pc \notin {"start", "done", "threw"}

\* The provider's timeouts end a call within its budget.
Tick ==
    /\ \A w \in Workers : In(w, "sending") => runs[w].left > 0
    /\ IF \E w \in Workers : Idle(w) THEN Fault ELSE UNCHANGED faults
    /\ stalled' = (stalled \/ \E w \in Workers : Hesitates(w))
    /\ lease' = Down(lease, -1) /\ young' = Down(young, 0) /\ keep' = Down(keep, 0)
    /\ job' = IF job = NoJob THEN NoJob ELSE [job EXCEPT !.left = Down(@, 0)]
    /\ runs' = [w \in Workers |->
         IF runs[w] = NoRun THEN NoRun ELSE [runs[w] EXCEPT !.left = Down(@, 0)]]
    /\ UNCHANGED <<status, token, attempts, wellFormed, userMail, scanned, accepted, unsure,
                   withheld>>

\* The process dies.
Crash(w) ==
    /\ runs[w] # NoRun /\ Fault
    /\ unsure' = IF In(w, "sent") THEN unsure + 1 ELSE unsure
    /\ runs' = [runs EXCEPT ![w] = NoRun]
    /\ UNCHANGED <<rowVars, jobVars, accepted, withheld, stalled>>

\* A graceful stop times out: pg-boss fails the job and fires the signal, and
\* the handler runs on until the process exits.
Shutdown(w) ==
    /\ runs[w] # NoRun /\ ~runs[w].aborted /\ Holds(w) /\ Fault
    /\ job' = AfterFailure
    /\ runs' = [(IF Retries THEN runs ELSE Orphaned(runs)) EXCEPT ![w].aborted = TRUE]
    /\ UNCHANGED <<rowVars, scanned, accepted, unsure, withheld, stalled>>

\* The job outlives expireInSeconds; a handler still running is told so.
Expire ==
    /\ job # NoJob /\ job.st = "active" /\ job.left = 0
    /\ job' = AfterFailure
    /\ runs' = [w \in Workers |->
         IF runs[w] = NoRun THEN NoRun
         ELSE [runs[w] EXCEPT !.aborted = @ \/ runs[w].owns,
                              !.owns = @ /\ Retries]]
    /\ UNCHANGED <<rowVars, scanned, histVars>>

\* reconcileMissingDeliveryJobs reads a page of rows ...
\* Mutant: only pending rows are looked for.
MissingIfPending == status = "PENDING" /\ young = 0
Missing == \/ status = "PENDING" /\ young = 0
           \/ status = "PROCESSING" /\ lease <= 0

Scan ==
    /\ Missing /\ ~scanned /\ scanned' = TRUE
    /\ UNCHANGED <<rowVars, job, runs, histVars>>

\* ... and sends a job for each.
SendScanned ==
    /\ scanned /\ scanned' = FALSE
    /\ job' = Send(job)
    /\ UNCHANGED <<rowVars, runs, histVars>>

Remove ==
    /\ status' = "GONE" /\ token' = 0 /\ lease' = -1 /\ keep' = 0
    /\ UNCHANGED <<attempts, young, wellFormed, userMail, jobVars, runs, histVars>>

\* runNotificationCleanup
Cleanup == status \in Terminal /\ keep = 0 /\ Remove

\* The recipient's account is deleted: the row goes with it.
Cascade == status # "GONE" /\ Remove

------------------------------------------------------------------------------
Handler(w) ==
    \/ Claim(w) \/ Refuse(w) \/ RejectSnapshot(w) \/ GiveBack(w)
    \/ CallProvider(w) \/ Accept(w) \/ Withhold(w) \/ Decline(w)
    \/ MarkSent(w) \/ MarkPermanent(w) \/ MarkTransient(w) \/ MarkExhausted(w)
    \/ Acknowledge(w) \/ FailJob(w)

Mishap(w) == LoseReply(w) \/ MarkSentFails(w) \/ TransactionFails(w)
             \/ Crash(w) \/ Shutdown(w)

Next ==
    \/ \E w \in Workers : Start(w) \/ Handler(w) \/ Mishap(w)
    \/ Tick \/ Expire \/ Scan \/ SendScanned \/ Cleanup \/ Cascade

Spec == Init /\ [][Next]_vars

\* Time passes whatever the workers do (Tick waits for them only because stalls
\* are bounded), the queue hands out and expires jobs, the cron runs, and a
\* handler that does not die goes on.
Fairness ==
    /\ SF_vars(Tick) /\ WF_vars(Expire) /\ WF_vars(Scan) /\ WF_vars(SendScanned)
    /\ \A w \in Workers : WF_vars(Start(w)) /\ WF_vars(Handler(w))

FairSpec == Spec /\ Fairness

------------------------------------------------------------------------------
(* Properties *)

TypeOK ==
    /\ status \in {"PENDING", "PROCESSING", "GONE"} \cup Terminal
    /\ token \in Nat /\ lease \in Int /\ attempts \in Nat
    /\ young \in Nat /\ keep \in Nat /\ wellFormed \in BOOLEAN /\ userMail \in BOOLEAN
    /\ job \in [st : {"queued", "active"}, tries : 0..RetryLimit, left : Nat]
               \cup {NoJob}
    /\ scanned \in BOOLEAN
    /\ runs \in [Workers -> Run \cup {NoRun}]
    /\ accepted \in Nat /\ unsure \in Nat /\ withheld \in BOOLEAN
    /\ faults \in Nat /\ stalled \in BOOLEAN

\* delivery-senders.ts on the lease: while workers do not stall around the
\* provider's call, no two workers are in it for one delivery, even when a
\* shutdown or an expiry hands the job to another worker in mid-call.
OneSender == ~stalled =>
    \A v, w \in Workers : In(v, "sending") /\ In(w, "sending") => v = w

\* The run with the newest token keeps the row until it records its own
\* verdict: no late run with an old token takes the row away from it.
NewestKeepsRow == \A w \in Workers :
    /\ runs[w] # NoRun /\ runs[w].pc \in {"claimed", "sending", "sent", "withheld",
                                          "permanent"}
    /\ runs[w].token = attempts
    => status \in {"PROCESSING", "GONE"}

\* A delivery is sent again only when a verdict was lost: a crash, a database
\* error or a lost reply after the provider accepted.  Retries, redeliveries
\* and reconciliation alone never send twice.
ResentOnlyIfLost == ~stalled => accepted <= 1 + unsure

\* What the row says happened did.  A SENT row was accepted by the provider, or
\* it is an invitation or a friend_added mail that email-delivery-sender.ts held
\* back for its quota: those say SENT too, and no other does without having been
\* accepted, be its verdict late, lost or recorded by another worker.  A row that
\* failed was not accepted, unless the answer was lost.
VerdictIsTrue ==
    /\ status = "SENT" => accepted > 0 \/ (userMail /\ withheld)
    /\ status \in Failed /\ unsure = 0 /\ ~stalled => accepted = 0

\* A terminal verdict is final: later runs, stale or not, leave it alone.
VerdictIsFinal == [][(status \in Terminal) => status' \in {status, "GONE"}]_vars

\* Every delivery ends with a verdict, although retries are acknowledged while
\* a lost lease still runs, jobs are dead-lettered, and an API without a queue
\* plans no job.
Settled == status \in Terminal \cup {"GONE"}
EveryDeliverySettles == <>Settled
==============================================================================
