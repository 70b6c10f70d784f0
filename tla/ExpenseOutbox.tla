--------------------------- MODULE ExpenseOutbox ----------------------------
(* Creating an expense from the web app, online and offline: the create form *)
(* and its write guard (use-idempotent-create.ts, write-guard.ts), the       *)
(* outbox of expenses queued while offline (pending-expense-queue.ts), the   *)
(* flushes that send it (pending-expense-flush.ts), and the server they call. *)
EXTENDS IdempotentCreate

CONSTANTS Form,         \* the caller that is the create form
          Flushes,      \* the callers that are flushes, one per tab
          FormTab,      \* the flush of the tab that holds the form
          Retries       \* retries of a row in one flush

ASSUME CallersAssumption == /\ Callers = Flushes \cup {Form}
                            /\ Form \notin Flushes
                            /\ FormTab \in Flushes
ASSUME RetriesAssumption == Retries \in Nat

VARIABLES online,       \* the transport, as the write guard and the network see it
          row,          \* outbox rows by request id
            form, flush,
          accepted,     \* request ids whose create was reported saved
          wanted        \* contents submitted under each request id

client == <<online, row, form, flush, accepted, wanted>>
vars == <<server, client>>

NoRow == [status |-> "none", payload |-> NoPayload]
Statuses == {"none", "pending", "failed"}

Item == [key : Keys, payload : Payloads]
NoItem == [key |-> 0, payload |-> NoPayload]

FlushType == [pc : {"idle", "next", "waiting", "marking", "pinning"},
              queue : SUBSET Item, at : Item \cup {NoItem},
              tries : 0 .. Retries, outcome : {"none", "sent", "failed"}]
IdleFlush == [pc |-> "idle", queue |-> {}, at |-> NoItem, tries |-> 0,
              outcome |-> "none"]

FormType == [pc : {"idle", "guarded", "waiting"},
             key : 1 .. MaxKey + 1, payload : Payloads \cup {NoPayload}]

TypeOK ==
    /\ ServerTypeOK
    /\ online \in BOOLEAN
    /\ row \in [Keys -> [status : Statuses, payload : Payloads \cup {NoPayload}]]
    /\ form \in FormType
    /\ flush \in [Flushes -> FlushType]
    /\ accepted \subseteq Keys
    /\ wanted \in [Keys -> SUBSET Payloads]

Init ==
    /\ ServerInit
    /\ online = TRUE
    /\ row = [k \in Keys |-> NoRow]
    /\ form = [pc |-> "idle", key |-> 1, payload |-> NoPayload]
    /\ flush = [f \in Flushes |-> IdleFlush]
    /\ accepted = {}
    /\ wanted = [k \in Keys |-> {}]

-----------------------------------------------------------------------------
(* A request on the wire, in a slot the server is not using. *)
Send(who, k, p) ==
    \E c \in Calls :
        /\ At(c, "free")
        /\ calls' = [calls EXCEPT ![c] = [NoCall EXCEPT !.pc = "sent",
                         !.key = k, !.payload = p, !.caller = who]]

(* The caller gets an answer and the slot is free again. *)
Answered(who, c) == At(c, "answered") /\ calls[c].caller = who
Take(c) == calls' = [calls EXCEPT ![c] = NoCall]

(* The caller hears nothing more: the answer is lost, or it gave up waiting. *)
HangUp(who) ==
    calls' = [c \in Calls |->
                 IF calls[c].caller # who THEN calls[c]
                 ELSE IF At(c, "answered") THEN NoCall
                 ELSE [calls[c] EXCEPT !.caller = Nobody]]

(* One logical create keeps its request id until it is reported saved. *)
FormSaved == /\ form' = [form EXCEPT !.pc = "idle", !.key = @ + 1,
                                     !.payload = NoPayload]
             /\ accepted' = accepted \cup {form.key}
FormFails == /\ form' = [form EXCEPT !.pc = "idle", !.payload = NoPayload]
             /\ UNCHANGED accepted

PutRow(p) == row' = [row EXCEPT ![form.key] =
                         [status |-> "pending", payload |-> p]]

(* The guard's onMutate: offline, the create is put in the outbox first. *)
Submit(p) ==
    /\ form.pc = "idle" /\ form.key <= MaxKey
    /\ wanted' = [wanted EXCEPT ![form.key] = @ \cup {p}]
    /\ form' = [form EXCEPT !.payload = p, !.pc = "guarded"]
    /\ IF online THEN UNCHANGED row ELSE PutRow(p)
    /\ UNCHANGED <<server, online, flush, accepted>>

(* The guard's link looks at the transport again: the request goes out, or   *)
(* the same row is put once more and stands in for an answer.                *)
LinkSends ==
    /\ form.pc = "guarded" /\ online
    /\ Send(Form, form.key, form.payload)
    /\ form' = [form EXCEPT !.pc = "waiting"]
    /\ UNCHANGED <<archived, departed, idem, posted, faults,
                   online, row, flush, accepted, wanted>>

LinkQueues ==
    /\ form.pc = "guarded" /\ ~online
    /\ PutRow(form.payload)
    /\ FormSaved
    /\ UNCHANGED <<server, online, flush, wanted>>

(* Every error leaves the form open with the same request id. *)
FormAnswer(c) ==
    /\ form.pc = "waiting" /\ Answered(Form, c)
    /\ Take(c)
    /\ IF calls[c].answer = "ok" THEN FormSaved ELSE FormFails
    /\ UNCHANGED <<archived, departed, idem, posted, faults,
                   online, row, flush, wanted>>

FormHangsUp ==
    /\ form.pc = "waiting" /\ Fault
    /\ HangUp(Form)
    /\ FormFails
    /\ UNCHANGED <<archived, departed, idem, posted,
                   online, row, flush, wanted>>

-----------------------------------------------------------------------------
SetFlush(f, v) == flush' = [flush EXCEPT ![f] = v]

(* The rows a flush will send are read once. Request ids are drawn in order, *)
(* so the oldest row is the one with the least.                              *)
Listed == {[key |-> k, payload |-> row[k].payload] :
              k \in {j \in Keys : row[j].status = "pending"}}
Oldest(f, r) == /\ r \in flush[f].queue
                /\ \A s \in flush[f].queue : r.key <= s.key

(* On launch, on reconnecting and on a retry by hand, in any tab. *)
StartFlush(f) ==
    /\ flush[f].pc = "idle" /\ online
    /\ Listed # {}
    /\ SetFlush(f, [IdleFlush EXCEPT !.pc = "next", !.queue = Listed])
    /\ UNCHANGED <<server, online, row, form, accepted, wanted>>

EndFlush(f) ==
    /\ flush[f].pc = "next" /\ flush[f].queue = {}
    /\ SetFlush(f, IdleFlush)
    /\ UNCHANGED <<server, online, row, form, accepted, wanted>>

NextRow(f, r) == [flush[f] EXCEPT !.pc = "next", !.at = NoItem, !.tries = 0,
                                  !.outcome = "none",
                                  !.queue = {s \in @ : s.key # r.key}]

\* Mutant: the number of the attempt is looked at one too late.
AfterTransientOnceMore(f, r) ==
    IF flush[f].tries <= Retries
    THEN [flush[f] EXCEPT !.pc = "next", !.at = NoItem, !.tries = @ + 1]
    ELSE NextRow(f, r)

(* A transient failure is tried again a few times, then left for the next    *)
(* flush: the row stays pending.                                             *)
AfterTransient(f, r) ==
    IF flush[f].tries < Retries
    THEN [flush[f] EXCEPT !.pc = "next", !.at = NoItem, !.tries = @ + 1]
    ELSE NextRow(f, r)

FlushSends(f, r) ==
    /\ flush[f].pc = "next" /\ Oldest(f, r) /\ online
    /\ Send(f, r.key, r.payload)
    /\ SetFlush(f, [flush[f] EXCEPT !.pc = "waiting", !.at = r])
    /\ UNCHANGED <<archived, departed, idem, posted, faults,
                   online, row, form, accepted, wanted>>

FlushUnreachable(f, r) ==
    /\ flush[f].pc = "next" /\ Oldest(f, r) /\ ~online
    /\ SetFlush(f, AfterTransient(f, r))
    /\ UNCHANGED <<server, online, row, form, accepted, wanted>>

\* Mutant: any definite answer of the server takes the row out of the outbox.
DispositionAnswered(answer) ==
    IF answer \in {"ok", "forbidden", "badRequest", "different"}
    THEN "sent" ELSE "deferred"

\* Mutant: a rejection may change with the member's rights, so the row waits.
DispositionRights(answer) ==
    CASE answer = "ok" -> "sent"
      [] answer \in {"badRequest", "different"} -> "failed"
      [] OTHER -> "deferred"

(* classifySendError *)
Disposition(answer) ==
    CASE answer = "ok" -> "sent"
      [] answer \in {"forbidden", "badRequest", "different"} -> "failed"
      [] OTHER -> "deferred"

FlushAnswer(f, c) ==
    LET answer == calls[c].answer
    IN  /\ flush[f].pc = "waiting" /\ Answered(f, c)
        /\ Take(c)
        /\ SetFlush(f, CASE Disposition(answer) # "deferred" ->
                              [flush[f] EXCEPT !.pc = "marking",
                                               !.outcome = Disposition(answer)]
                         [] answer = "inflight" -> NextRow(f, flush[f].at)
                         [] OTHER -> AfterTransient(f, flush[f].at))
        /\ UNCHANGED <<archived, departed, idem, posted, faults,
                       online, row, form, accepted, wanted>>

FlushHangsUp(f) ==
    /\ flush[f].pc = "waiting" /\ Fault
    /\ HangUp(f)
    /\ SetFlush(f, AfterTransient(f, flush[f].at))
    /\ UNCHANGED <<archived, departed, idem, posted,
                   online, row, form, accepted, wanted>>

(* resolvePendingExpenseRecord: sent deletes the row. *)
DeleteRow(f) ==
    /\ flush[f].pc = "marking" /\ flush[f].outcome = "sent"
    /\ row' = [row EXCEPT ![flush[f].at.key] = NoRow]
    /\ SetFlush(f, NextRow(f, flush[f].at))
    /\ UNCHANGED <<server, online, form, accepted, wanted>>

(* Failed reads the row, if it is still there, and then puts it back pinned: *)
(* two steps, and no transaction around them.                                *)
ReadRow(f) ==
    LET k == flush[f].at.key
    IN  /\ flush[f].pc = "marking" /\ flush[f].outcome = "failed"
        /\ SetFlush(f, IF row[k].status = "none" THEN NextRow(f, flush[f].at)
                       ELSE [flush[f] EXCEPT !.pc = "pinning",
                                             !.at.payload = row[k].payload])
        /\ UNCHANGED <<server, online, row, form, accepted, wanted>>

PinRow(f) ==
    /\ flush[f].pc = "pinning"
    /\ row' = [row EXCEPT ![flush[f].at.key] =
                   [status |-> "failed", payload |-> flush[f].at.payload]]
    /\ SetFlush(f, NextRow(f, flush[f].at))
    /\ UNCHANGED <<server, online, form, accepted, wanted>>

(* A storage error ends the whole flush. *)
MarkFails(f) ==
    /\ flush[f].pc \in {"marking", "pinning"} /\ Fault
    /\ SetFlush(f, IdleFlush)
    /\ UNCHANGED <<archived, departed, idem, posted, calls,
                   online, row, form, accepted, wanted>>

(* A tab closes: its flush and, in the form's tab, a submission are gone.    *)
(* The outbox is stored; the form reopens with the request id it kept, or    *)
(* with a new one.                                                           *)
TabCloses(f) ==
    /\ Fault
    /\ SetFlush(f, IdleFlush)
    /\ calls' = [c \in Calls |->
                    IF calls[c].caller = f \/ (f = FormTab /\ calls[c].caller = Form)
                    THEN IF At(c, "answered") THEN NoCall
                         ELSE [calls[c] EXCEPT !.caller = Nobody]
                    ELSE calls[c]]
    /\ \/ f # FormTab /\ UNCHANGED form
       \/ f = FormTab /\ FormFails
       \/ f = FormTab /\ form.pc # "idle"
          /\ form' = [form EXCEPT !.pc = "idle", !.key = @ + 1, !.payload = NoPayload]
    /\ UNCHANGED <<archived, departed, idem, posted,
                   online, row, accepted, wanted>>

GoOnline == /\ ~online /\ online' = TRUE
            /\ UNCHANGED <<server, row, form, flush, accepted, wanted>>
GoOffline == /\ online /\ Fault /\ online' = FALSE
             /\ UNCHANGED <<archived, departed, idem, posted, calls,
                            row, form, flush, accepted, wanted>>

-----------------------------------------------------------------------------
ServerStep(c) == Serve(c) /\ UNCHANGED client
FormStep == LinkSends \/ LinkQueues \/ \E c \in Calls : FormAnswer(c)
FlushStep(f) == \/ EndFlush(f) \/ DeleteRow(f) \/ ReadRow(f) \/ PinRow(f)
                \/ \E r \in flush[f].queue : FlushSends(f, r) \/ FlushUnreachable(f, r)
                \/ \E c \in Calls : FlushAnswer(f, c)

Next ==
    \/ \E c \in Calls : ServerStep(c) \/ (Break(c) /\ UNCHANGED client)
    \/ \E b \in BOOLEAN : Archive(b) /\ UNCHANGED client
    \/ \E p \in Payloads : Depart(p) /\ UNCHANGED client
    \/ \E p \in Payloads : Submit(p)
    \/ FormStep \/ FormHangsUp
    \/ \E f \in Flushes : \/ StartFlush(f) \/ FlushStep(f) \/ FlushHangsUp(f)
                          \/ MarkFails(f) \/ TabCloses(f)
    \/ GoOnline \/ GoOffline

Spec == Init /\ [][Next]_vars

(* The server answers, a flush runs on, and the app is launched, reconnects  *)
(* or is told to retry again and again.                                      *)
Fairness == /\ \A c \in Calls : WF_vars(ServerStep(c))
            /\ WF_vars(FormStep)
            /\ \A f \in Flushes : WF_vars(FlushStep(f)) /\ WF_vars(StartFlush(f))
            /\ WF_vars(GoOnline)

FairSpec == Spec /\ Fairness

-----------------------------------------------------------------------------
(* One logical create is posted at most once, with the content the request   *)
(* id was stored with, whatever retries, tabs and lost answers do.           *)
PostedOnce == \A k \in Keys :
    posted[k] = IF Taken(k) THEN <<idem[k].payload>> ELSE <<>>

(* A create the form reported saved is in the ledger or still in the outbox. *)
NothingLost == \A k \in accepted : posted[k] # <<>> \/ row[k].status # "none"

(* replayExisting's "still being processed" is never the answer: a key and   *)
(* its result become visible together.                                       *)
NeverHalfDone == \A c \in Calls : calls[c].answer # "inflight"

(* A queued expense leaves the pending state: it is posted or it is failed,  *)
(* unless it names a participant who has left.                               *)
RowsSettle == \A k \in Keys :
    (row[k].status = "pending")
        ~> (row[k].status # "pending" \/ row[k].payload \in departed)

(* The outbox and the server implement posting once what was asked for. *)
Once == INSTANCE CreateOnce WITH made <- posted
PostsOnceAbstract == Once!AbsSpec
=============================================================================
