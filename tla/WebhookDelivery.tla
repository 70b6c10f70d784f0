--------------------------- MODULE WebhookDelivery ---------------------------
(***************************************************************************)
(* One WebhookDelivery row, its exclusive webhook.deliver job, the workers *)
(* that run the job, the reconciliation cron, and what the endpoint's      *)
(* owner does meanwhile: disable, re-enable, change the event filter,      *)
(* resend, delete.                                                         *)
(*                                                                         *)
(* A worker claims the row by status alone: there is no lease token, and a *)
(* verdict is recorded by whoever finds the row PROCESSING.  Each database *)
(* call of the handler is a step of its own.                               *)
(*                                                                         *)
(* Minutes pass in four places: a job expires (60 s), a retry's delay ends *)
(* (300 s and more), a claim grows old (5 min), a settled row is cleaned   *)
(* up (days).  When one of them happens while a handler runs, the handler  *)
(* has stalled: it looked a name up without a timeout, or tried one address*)
(* after another for ten seconds each.                                     *)
(***************************************************************************)
EXTENDS Integers, FiniteSets

CONSTANTS
    Workers,      \* worker threads of the webhook.deliver queue
    RetryLimit,   \* retryLimit of the queue
    MaxOps,       \* bound: operations of the owner
    MaxFaults,    \* bound: crashes, shutdowns, database errors, lost replies, stalls
    NoJob, NoRun

\* What a handler in progress knows: attemptCount as it read it, whether this is
\* the job's last try, whether the job is its own.
Run == [pc : {"start", "cancel", "claim", "claimed", "sending", "accepted",
              "permanent", "refused", "caught", "failed", "done", "threw"},
        seen : Nat, last : BOOLEAN, owns : BOOLEAN]

ASSUME ConstantsAssumption ==
    /\ IsFiniteSet(Workers)
    /\ RetryLimit \in Nat /\ MaxOps \in Nat /\ MaxFaults \in Nat
    /\ NoRun \notin Run
    /\ NoJob \notin [st : {"queued", "active", "delayed"}, tries : Nat]

VARIABLES
    status,     \* the row's status, or "GONE"
    attempts,   \* attemptCount
    attempted,  \* attempt numbers that have a WebhookDeliveryAttempt row
    aged,       \* the last claim was made five minutes ago (lastAttemptAt)
    enabled,    \* the endpoint is enabled
    entitled,   \* its owner is an active member, and involved if that is asked for
    job,        \* the row's job in its exclusive queue
    cron,       \* what the reconciler has read: "idle", "stale" or "pending"
    runs,       \* each worker's handler
    filtering,  \* a filter change has read the row as one to cancel
    asking,     \* a resend was let through, its transaction to come
    ops,        \* operations of the owner so far (bound only)
    requests,   \* history: the delivery and its resends
    accepted,   \* history: 2xx answers the endpoint gave
    before,     \* history: of these, those given before the last resend
    unsure,     \* history: 2xx answers that were lost
    faults,     \* faults so far (bound only)
    stalled,    \* history: minutes passed in the middle of a handler
    crossings   \* history: how often a handler started beside a running one, or the
                \* reconciler put the row back under one

rowVars == <<status, attempts, attempted, aged>>
endpointVars == <<enabled, entitled>>
queueVars == <<job, cron>>
requestVars == <<requests, before>>
ownerVars == <<filtering, asking, ops, requestVars>>
histVars == <<accepted, unsure>>
faultVars == <<faults, stalled, crossings>>
vars == <<rowVars, endpointVars, queueVars, runs, ownerVars, histVars, faultVars>>

Failed == {"PERMANENT_FAILURE", "RETRY_EXHAUSTED"}
Settled == Failed \cup {"SENT", "CANCELED"}
Pending == {"PENDING", "PROCESSING"}

Fault == faults < MaxFaults /\ faults' = faults + 1

Running == \E w \in Workers : runs[w] # NoRun

\* Minutes pass: every handler still running has stalled.
Elapse == /\ IF Running THEN Fault /\ stalled' = TRUE ELSE UNCHANGED <<faults, stalled>>
          /\ UNCHANGED crossings

------------------------------------------------------------------------------
(* The exclusive queue: one waiting or active job for the row *)

Queued == [st |-> "queued", tries |-> 0]
Send(j) == IF j = NoJob THEN Queued ELSE j

\* A failed or expired job waits for its retry until its limit, then it is
\* dead-lettered.  Mutant: one retry too many.
RetriesOnceMore == job.tries <= RetryLimit
Retries == job.tries < RetryLimit
AfterFailure == IF Retries THEN [st |-> "delayed", tries |-> job.tries + 1] ELSE NoJob

Holds(w) == runs[w].owns /\ job # NoJob /\ job.st = "active"

\* The runs, once the job has become j: no run can end a job that has left.
Owning(j) == [v \in Workers |->
    IF runs[v] # NoRun /\ j = NoJob THEN [runs[v] EXCEPT !.owns = FALSE] ELSE runs[v]]

\* The plan inserts row and job in the transaction of the mutation it reports;
\* an API without a queue inserts the row alone.
Init ==
    /\ status = "PENDING" /\ attempts = 0 /\ attempted = {} /\ aged = FALSE
    /\ enabled = TRUE /\ entitled = TRUE
    /\ job \in {NoJob, Queued} /\ cron = "idle"
    /\ runs = [w \in Workers |-> NoRun]
    /\ filtering = FALSE /\ asking = FALSE /\ ops = 0
    /\ requests = 1 /\ before = 0 /\ accepted = 0 /\ unsure = 0
    /\ faults = 0 /\ stalled = FALSE /\ crossings = 0

------------------------------------------------------------------------------
(* handleWebhookDelivery *)

In(w, pc) == runs[w] # NoRun /\ runs[w].pc = pc
Goto(w, pc) == runs' = [runs EXCEPT ![w].pc = pc]

\* pg-boss hands the job to a worker.
Start(w) ==
    /\ runs[w] = NoRun
    /\ job # NoJob /\ job.st = "queued"
    /\ job' = [job EXCEPT !.st = "active"]
    /\ runs' = [runs EXCEPT ![w] = [pc |-> "start", seen |-> 0, last |-> ~Retries,
                                    owns |-> TRUE]]
    /\ crossings' = crossings + (IF Running THEN 1 ELSE 0)
    /\ UNCHANGED <<rowVars, endpointVars, cron, ownerVars, histVars, faults, stalled>>

\* The row and its endpoint are read once, outside any transaction.
Read(w) ==
    /\ In(w, "start")
    /\ \/ status \notin Pending /\ Goto(w, "done")
       \/ status \in Pending /\ ~(enabled /\ entitled) /\ Goto(w, "cancel")
       \/ /\ status \in Pending /\ enabled /\ entitled
          /\ runs' = [runs EXCEPT ![w] = [@ EXCEPT !.pc = "claim", !.seen = attempts]]
    /\ UNCHANGED <<rowVars, endpointVars, queueVars, ownerVars, histVars, faultVars>>

\* ENDPOINT_DISABLED, MEMBERSHIP_ENDED, NOT_INVOLVED: an update without a guard,
\* which throws when the row is gone.
CancelUnfit(w) ==
    /\ In(w, "cancel")
    /\ \/ status = "GONE" /\ Goto(w, "threw") /\ UNCHANGED status
       \/ status # "GONE" /\ Goto(w, "done") /\ status' = "CANCELED"
    /\ UNCHANGED <<attempts, attempted, aged, endpointVars, queueVars, ownerVars,
                   histVars, faultVars>>

Claimable == status = "PENDING"

Claim(w) ==
    /\ In(w, "claim") /\ Claimable
    /\ status' = "PROCESSING" /\ attempts' = attempts + 1 /\ aged' = FALSE
    /\ Goto(w, "claimed")
    /\ UNCHANGED <<attempted, endpointVars, queueVars, ownerVars, histVars, faultVars>>

Refuse(w) ==
    /\ In(w, "claim") /\ ~Claimable /\ Goto(w, "done")
    /\ UNCHANGED <<rowVars, endpointVars, queueVars, ownerVars, histVars, faultVars>>

\* The attempt's number was taken from the first read; another run may have
\* used it since, or the row may be gone: the insert throws.
OpenAttempt(w) == LET n == runs[w].seen + 1 IN
    /\ In(w, "claimed")
    /\ \/ /\ n \notin attempted /\ status # "GONE"
          /\ attempted' = attempted \cup {n} /\ Goto(w, "sending")
       \/ /\ n \in attempted \/ status = "GONE"
          /\ Goto(w, "threw") /\ UNCHANGED attempted
    /\ UNCHANGED <<status, attempts, aged, endpointVars, queueVars, ownerVars,
                   histVars, faultVars>>

Accept(w) ==
    /\ In(w, "sending")
    /\ accepted' = accepted + 1 /\ Goto(w, "accepted")
    /\ UNCHANGED <<rowVars, endpointVars, queueVars, ownerVars, unsure, faultVars>>

\* An answer outside 2xx, a name that does not resolve ("failed"), no answer.
Decline(w) ==
    /\ In(w, "sending")
    /\ \E pc \in {"permanent", "refused", "failed", "caught"} : Goto(w, pc)
    /\ UNCHANGED <<rowVars, endpointVars, queueVars, ownerVars, histVars, faultVars>>

\* The endpoint took the request but its answer came too late or never.
LoseReply(w) ==
    /\ In(w, "sending") /\ Fault
    /\ accepted' = accepted + 1 /\ unsure' = unsure + 1
    /\ Goto(w, "caught")
    /\ UNCHANGED <<rowVars, endpointVars, queueVars, ownerVars, stalled, crossings>>

\* A verdict is written when the row is in flight, whoever put it there.
\* Mutants: the guard is dropped, or names the wrong status.
FlipsAnyway == status # "GONE"
FlipsIfPending == status = "PENDING"
Flips == status = "PROCESSING"
Verdict(st) == /\ status' = IF Flips THEN st ELSE status
               /\ UNCHANGED <<attempts, attempted, aged>>

MarkSent(w) ==
    /\ In(w, "accepted")
    /\ Verdict("SENT") /\ Goto(w, "done")
    /\ UNCHANGED <<endpointVars, queueVars, ownerVars, histVars, faultVars>>

\* One of the three writes after the answer fails: before the verdict or after.
MarkSentFails(w) ==
    /\ In(w, "accepted") /\ Fault
    /\ \/ Verdict("SENT") /\ UNCHANGED unsure
       \/ UNCHANGED rowVars /\ unsure' = unsure + 1
    /\ Goto(w, "caught")
    /\ UNCHANGED <<endpointVars, queueVars, ownerVars, accepted, stalled, crossings>>

Exhaustible(w) == IF runs[w].last THEN "RETRY_EXHAUSTED" ELSE "PENDING"

\* recordFailure and what follows it.  An HTTP failure that is to be retried is
\* thrown inside the try, so its own catch looks at the row again.  A row that
\* is gone makes the update of its attempt throw.
RecordPermanent(w) ==
    /\ In(w, "permanent")
    /\ Verdict("PERMANENT_FAILURE")
    /\ Goto(w, "done") \/ (status = "GONE" /\ Goto(w, "threw"))
    /\ UNCHANGED <<endpointVars, queueVars, ownerVars, histVars, faultVars>>

RecordRefused(w) ==
    /\ In(w, "refused")
    /\ Verdict(Exhaustible(w))
    /\ Goto(w, IF runs[w].last \/ status = "GONE" THEN "done" ELSE "caught")
    /\ UNCHANGED <<endpointVars, queueVars, ownerVars, histVars, faultVars>>

RecordFailed(w) ==
    /\ In(w, "failed")
    /\ Verdict(Exhaustible(w))
    /\ Goto(w, IF runs[w].last /\ status # "GONE" THEN "done" ELSE "threw")
    /\ UNCHANGED <<endpointVars, queueVars, ownerVars, histVars, faultVars>>

\* The catch: only a row in flight gets a failure recorded.
Reread(w) ==
    /\ In(w, "caught")
    /\ Goto(w, CASE status = "PROCESSING" -> "failed"
                 [] status = "PENDING" -> "threw"
                 [] OTHER -> "done")
    /\ UNCHANGED <<rowVars, endpointVars, queueVars, ownerVars, histVars, faultVars>>

\* A database call fails: the handler throws, from inside the try to its catch.
CallFails(w) ==
    /\ Fault
    /\ \/ /\ runs[w] # NoRun
          /\ runs[w].pc \in {"start", "cancel", "claim", "claimed", "permanent",
                             "failed", "caught"}
          /\ Goto(w, "threw")
       \/ (In(w, "permanent") \/ In(w, "refused")) /\ Goto(w, "caught")
    /\ UNCHANGED <<rowVars, endpointVars, queueVars, ownerVars, histVars, stalled, crossings>>

\* pg-boss completes or fails the job the run was started for, if it is active.
End(w, after) ==
    /\ job' = IF Holds(w) THEN after ELSE job
    /\ runs' = [Owning(job') EXCEPT ![w] = NoRun]
    /\ UNCHANGED <<rowVars, endpointVars, cron, ownerVars, histVars, faultVars>>

Acknowledge(w) == In(w, "done") /\ End(w, NoJob)
FailJob(w) == In(w, "threw") /\ End(w, AfterFailure)

\* The failure is recorded, but not the endpoint's lastFailureAt: it throws.
HealthFails(w) ==
    /\ Fault
    /\ \/ In(w, "permanent") /\ Verdict("PERMANENT_FAILURE")
       \/ In(w, "failed") /\ Verdict(Exhaustible(w))
    /\ Goto(w, "threw")
    /\ UNCHANGED <<endpointVars, queueVars, ownerVars, histVars, stalled, crossings>>

------------------------------------------------------------------------------
(* Processes and the queue *)

Crash(w) ==
    /\ runs[w] # NoRun /\ Fault
    /\ unsure' = IF In(w, "accepted") THEN unsure + 1 ELSE unsure
    /\ runs' = [runs EXCEPT ![w] = NoRun]
    /\ UNCHANGED <<rowVars, endpointVars, queueVars, ownerVars, accepted, stalled, crossings>>

\* A graceful stop times out: pg-boss fails the job, the handler, which does not
\* look at the signal, runs on until the process exits.
Shutdown(w) ==
    /\ runs[w] # NoRun /\ Holds(w) /\ Fault
    /\ job' = AfterFailure /\ runs' = Owning(job')
    /\ UNCHANGED <<rowVars, endpointVars, cron, ownerVars, histVars, stalled, crossings>>

Expire ==
    /\ job # NoJob /\ job.st = "active" /\ Elapse
    /\ job' = AfterFailure /\ runs' = Owning(job')
    /\ UNCHANGED <<rowVars, endpointVars, cron, ownerVars, histVars>>

Wake ==
    /\ job # NoJob /\ job.st = "delayed" /\ Elapse
    /\ job' = [job EXCEPT !.st = "queued"]
    /\ UNCHANGED <<rowVars, endpointVars, cron, runs, ownerVars, histVars>>

Age ==
    /\ status = "PROCESSING" /\ ~aged /\ Elapse
    /\ aged' = TRUE
    /\ UNCHANGED <<status, attempts, attempted, endpointVars, queueVars, runs,
                   ownerVars, histVars>>

------------------------------------------------------------------------------
(* reconcileWebhookDeliveries, cleanupWebhookDeliveries *)

\* Mutant: the age of the claim is not looked at.
StaleAnyway == status = "PROCESSING"
Stale == status = "PROCESSING" /\ aged

\* The stale rows are found ...
ScanStale ==
    /\ cron = "idle" /\ Stale /\ cron' = "stale"
    /\ UNCHANGED <<rowVars, endpointVars, job, runs, ownerVars, histVars, faultVars>>

\* ... put back if they are in flight, be it by a claim made since ...
Recover ==
    /\ cron = "stale" /\ cron' = "idle"
    /\ status' = IF status = "PROCESSING" THEN "PENDING" ELSE status
    /\ crossings' = crossings + (IF status = "PROCESSING" /\ Running THEN 1 ELSE 0)
    /\ UNCHANGED <<attempts, attempted, aged, endpointVars, job, runs, ownerVars,
                   histVars, faults, stalled>>

\* ... then the pending rows are found, stale no more or never sent ...
\* Mutant: only rows with an attempt are found.
UnsentAttempted == status = "PENDING" /\ attempts > 0
Unsent == status = "PENDING"

ScanPending ==
    /\ cron = "idle" /\ Unsent /\ cron' = "pending"
    /\ UNCHANGED <<rowVars, endpointVars, job, runs, ownerVars, histVars, faultVars>>

\* ... and a job is sent for each.
SendPending ==
    /\ cron = "pending" /\ cron' = "idle" /\ job' = Send(job)
    /\ UNCHANGED <<rowVars, endpointVars, runs, ownerVars, histVars, faultVars>>

Remove == status' = "GONE" /\ UNCHANGED <<attempts, attempted, aged>>

Cleanup ==
    /\ status \in Settled /\ Elapse /\ Remove
    /\ UNCHANGED <<endpointVars, queueVars, runs, ownerVars, histVars>>

------------------------------------------------------------------------------
(* What the owner of the endpoint does *)

Operate == ops < MaxOps /\ ops' = ops + 1

CancelPending == /\ status' = IF status \in Pending THEN "CANCELED" ELSE status
                 /\ UNCHANGED <<attempts, attempted, aged>>

\* update: disabled, or the URL changed, which disables it too.
Disable ==
    /\ Operate /\ enabled' = FALSE /\ CancelPending
    /\ UNCHANGED <<entitled, queueVars, runs, filtering, asking, requestVars, histVars,
                   faultVars>>

Enable ==
    /\ Operate /\ ~enabled /\ enabled' = TRUE
    /\ UNCHANGED <<rowVars, entitled, queueVars, runs, filtering, asking, requestVars,
                   histVars, faultVars>>

\* update: the event type is unsubscribed.  The rows to cancel are read ...
FilterRead ==
    /\ Operate /\ ~filtering /\ status \in Pending
    /\ filtering' = TRUE
    /\ UNCHANGED <<rowVars, endpointVars, queueVars, runs, asking, requestVars,
                   histVars, faultVars>>

\* ... and canceled by their ids, whatever has become of them.
FilterCancel ==
    /\ filtering /\ filtering' = FALSE
    /\ status' = IF status = "GONE" THEN "GONE" ELSE "CANCELED"
    /\ UNCHANGED <<attempts, attempted, aged, endpointVars, queueVars, runs, asking,
                   ops, requestVars, histVars, faultVars>>

\* The owner leaves the group or joins it again.
Entitle ==
    /\ Operate /\ entitled' = ~entitled
    /\ UNCHANGED <<rowVars, enabled, queueVars, runs, filtering, asking, requestVars,
                   histVars, faultVars>>

\* redeliver: the endpoint is looked at before the transaction ...
AskRedeliver ==
    /\ Operate /\ ~asking /\ enabled /\ status # "GONE"
    /\ asking' = TRUE
    /\ UNCHANGED <<rowVars, endpointVars, queueVars, runs, filtering, requestVars,
                   histVars, faultVars>>

\* ... that puts a settled row back and inserts its job; others are a CONFLICT.
Redeliver ==
    /\ asking /\ asking' = FALSE
    /\ IF status \in Settled
       THEN /\ status' = "PENDING" /\ job' = Send(job)
            /\ requests' = requests + 1 /\ before' = accepted
       ELSE UNCHANGED <<status, job, requestVars>>
    /\ UNCHANGED <<attempts, attempted, aged, endpointVars, cron, runs, filtering, ops,
                   histVars, faultVars>>

\* The endpoint is deleted, its deliveries with it.
Delete ==
    /\ Operate /\ status # "GONE" /\ Remove
    /\ UNCHANGED <<endpointVars, queueVars, runs, filtering, asking, requestVars,
                   histVars, faultVars>>

------------------------------------------------------------------------------
Handler(w) ==
    \/ Read(w) \/ CancelUnfit(w) \/ Claim(w) \/ Refuse(w) \/ OpenAttempt(w)
    \/ Accept(w) \/ Decline(w) \/ MarkSent(w)
    \/ RecordPermanent(w) \/ RecordRefused(w) \/ RecordFailed(w) \/ Reread(w)
    \/ Acknowledge(w) \/ FailJob(w)

Mishap(w) == \/ LoseReply(w) \/ MarkSentFails(w) \/ CallFails(w) \/ HealthFails(w)
             \/ Crash(w) \/ Shutdown(w)

Cron == ScanStale \/ Recover \/ ScanPending \/ SendPending

Owner == Disable \/ Enable \/ FilterRead \/ FilterCancel \/ Entitle
         \/ AskRedeliver \/ Redeliver \/ Delete

Next == \/ \E w \in Workers : Start(w) \/ Handler(w) \/ Mishap(w)
        \/ Expire \/ Wake \/ Age \/ Cron \/ Cleanup \/ Owner

Spec == Init /\ [][Next]_vars

\* Minutes pass again and again, each time no handler runs (a handler that runs
\* ends, or stalls at the price of a fault); queue, cron and handlers go on.
Fairness ==
    /\ SF_vars(Expire) /\ SF_vars(Wake) /\ SF_vars(Age)
    /\ WF_vars(Recover) /\ WF_vars(SendPending)
    /\ SF_vars(ScanStale) /\ SF_vars(ScanPending)
    /\ \A w \in Workers : WF_vars(Start(w)) /\ WF_vars(Handler(w))

FairSpec == Spec /\ Fairness

------------------------------------------------------------------------------
(* Properties *)

TypeOK ==
    /\ status \in Pending \cup Settled \cup {"GONE"}
    /\ attempts \in Nat /\ attempted \subseteq Nat /\ aged \in BOOLEAN
    /\ enabled \in BOOLEAN /\ entitled \in BOOLEAN
    /\ job \in [st : {"queued", "active", "delayed"}, tries : 0..RetryLimit]
               \cup {NoJob}
    /\ cron \in {"idle", "stale", "pending"}
    /\ runs \in [Workers -> Run \cup {NoRun}]
    /\ filtering \in BOOLEAN /\ asking \in BOOLEAN
    /\ ops \in Nat /\ requests \in Nat /\ before \in Nat /\ accepted \in Nat /\ unsure \in Nat
    /\ faults \in Nat /\ stalled \in BOOLEAN /\ crossings \in Nat

\* While no handler stalls and nobody resends, two of them never call the endpoint
\* at once for one delivery, though shutdowns, crashes and the reconciler hand the
\* job to another worker while the first still runs.
OneSender == ~stalled /\ requests = 1 =>
    \A v, w \in Workers : In(v, "sending") /\ In(w, "sending") => v = w

\* The endpoint accepts one message for the plan, one for each resend, and one
\* more for each answer or verdict that was lost and each time handlers cross,
\* whose verdicts may then fall on each other's claims; and one less when the row
\* says that the last of them failed.
OncePerRequest ==
    accepted + (IF status \in Failed THEN 1 ELSE 0) <= requests + unsure + crossings

\* Unless handlers cross, a row says SENT only for a message accepted since the
\* last resend: a late answer to an earlier request does not stand in for it.
SentForThisRequest == crossings = 0 /\ status = "SENT" => accepted > before

\* delivery.ts on cancellation: a late answer, success or failure, never revives
\* a canceled or settled delivery; only a resend does.
NothingRevived == [][(status \in Settled) =>
    \/ status' \in Settled \cup {"GONE"}
    \/ requests' = requests + 1]_vars

\* A delivery the owner leaves alone is settled, although jobs are dropped,
\* acknowledged without effect and dead-lettered.
EveryDeliverySettles == (status \in Pending) ~> (status \notin Pending)
==============================================================================
