-------------------------- MODULE IdempotentCreate --------------------------
(* runIdempotentCreate (apps/api/src/lib/api/idempotency.ts) as the expense  *)
(* create procedure calls it: several requests for one request id, retries   *)
(* of each other or not, running at once against one table of request ids.   *)
(* A request is the server's side of a call: it goes on after its caller has *)
(* given up on it.                                                           *)
EXTENDS Naturals, Sequences

CONSTANTS MaxKey,       \* request ids are 1..MaxKey, in the order they are drawn
          Payloads,     \* contents of an expense
          NoPayload,
          Calls,        \* requests the server can be serving
          Callers,      \* clients that wait for an answer
          Nobody,
          MaxFaults     \* budget of lost answers, failed transactions, crashes

ASSUME KeysAssumption == MaxKey \in Nat
ASSUME NoneAssumption == NoPayload \notin Payloads /\ Nobody \notin Callers
ASSUME FaultAssumption == MaxFaults \in Nat

Keys == 1 .. MaxKey

VARIABLES archived,     \* the group is archived
          departed,     \* contents that name a participant who has left
          idem,         \* IdempotencyRequest rows: [payload, done] by request id
          posted,       \* the expenses each request id has put in the ledger
          calls,
          faults

server == <<archived, departed, idem, posted, calls, faults>>

NoKey == [payload |-> NoPayload, done |-> FALSE]
NoCall == [pc |-> "free", key |-> 1, payload |-> NoPayload, caller |-> Nobody,
           answer |-> "none"]

Pcs == {"free", "sent", "authorized", "missed", "prepared", "open", "raced",
        "answered"}
Answers == {"none", "ok", "different", "inflight", "forbidden", "badRequest",
            "internal"}

CallType == [pc : Pcs, key : Nat, payload : Payloads \cup {NoPayload},
             caller : Callers \cup {Nobody},
             answer : Answers]

ServerTypeOK ==
    /\ archived \in BOOLEAN
    /\ departed \subseteq Payloads
    /\ idem \in [Keys -> [payload : Payloads \cup {NoPayload}, done : BOOLEAN]]
    /\ posted \in [Keys -> Seq(Payloads)]
    /\ calls \in [Calls -> CallType]
    /\ faults \in 0 .. MaxFaults

ServerInit ==
    /\ archived = FALSE
    /\ departed = {}
    /\ idem = [k \in Keys |-> NoKey]
    /\ posted = [k \in Keys |-> <<>>]
    /\ calls = [c \in Calls |-> NoCall]
    /\ faults = 0

-----------------------------------------------------------------------------
At(c, pc) == calls[c].pc = pc
Move(c, pc) == calls' = [calls EXCEPT ![c].pc = pc]

(* An answer nobody waits for any more is dropped with the request. *)
Reply(c, answer) ==
    calls' = [calls EXCEPT ![c] =
        IF @.caller = Nobody THEN NoCall
        ELSE [@ EXCEPT !.pc = "answered", !.answer = answer]]

Fault == faults < MaxFaults /\ faults' = faults + 1

(* replayExisting: same content, the stored result; other content, or no     *)
(* result yet, a conflict.                                                   *)
Replay(c) == LET found == idem[calls[c].key]
             IN  IF found.payload # calls[c].payload THEN "different"
                 ELSE IF ~found.done THEN "inflight" ELSE "ok"

Taken(k) == idem[k] # NoKey

(* A key whose insert another transaction has not committed makes an insert  *)
(* of the same key wait.                                                     *)
Held(k, c) == \E d \in Calls \ {c} : At(d, "open") /\ calls[d].key = k

(* loadGroupMutationContext and the archived check come before the lookup,   *)
(* for a replay as for a first request.                                      *)
Authorize(c) ==
    /\ At(c, "sent")
    /\ IF archived THEN Reply(c, "forbidden") ELSE Move(c, "authorized")
    /\ UNCHANGED <<archived, departed, idem, posted, faults>>

Find(c) ==
    /\ At(c, "authorized")
    /\ IF Taken(calls[c].key) THEN Reply(c, Replay(c))
       ELSE Move(c, "missed")
    /\ UNCHANGED <<archived, departed, idem, posted, faults>>

(* Rates, documents and queue handles are taken before the transaction.      *)
Prepare(c) ==
    /\ At(c, "missed")
    /\ Move(c, "prepared")
    /\ UNCHANGED <<archived, departed, idem, posted, faults>>

(* No rate for the currency, or no provider: nothing is prepared.            *)
PrepareFails(c) ==
    /\ At(c, "missed") /\ Fault
    /\ \E answer \in {"badRequest", "internal"} : Reply(c, answer)
    /\ UNCHANGED <<archived, departed, idem, posted>>

\* Mutant: without the unique index a second insert of a key goes through.
BeginAnyway(c) ==
    /\ At(c, "prepared")
    /\ Move(c, "open")
    /\ UNCHANGED <<archived, departed, idem, posted, faults>>

(* The key is inserted inside the transaction that creates: it is visible    *)
(* to others only with the result.                                           *)
Begin(c) ==
    /\ At(c, "prepared")
    /\ ~Held(calls[c].key, c)
    /\ Move(c, IF Taken(calls[c].key) THEN "raced" ELSE "open")
    /\ UNCHANGED <<archived, departed, idem, posted, faults>>

(* createExpense under the group's lock, the stored result, the commit; or   *)
(* the plain errors it throws, which undo the key as well.                   *)
Execute(c) ==
    LET k == calls[c].key  p == calls[c].payload
    IN  /\ At(c, "open")
        /\ IF archived \/ p \in departed
           THEN Reply(c, "internal") /\ UNCHANGED <<idem, posted>>
           ELSE /\ idem' = [idem EXCEPT ![k] = [payload |-> p, done |-> TRUE]]
                /\ posted' = [posted EXCEPT ![k] = Append(@, p)]
                /\ Reply(c, "ok")
        /\ UNCHANGED <<archived, departed, faults>>

(* The database fails the transaction: an internal error. *)
Abort(c) ==
    /\ At(c, "open") /\ Fault
    /\ Reply(c, "internal")
    /\ UNCHANGED <<archived, departed, idem, posted>>

(* The unique violation: read again, replay what won. *)
Reread(c) ==
    /\ At(c, "raced")
    /\ Reply(c, IF Taken(calls[c].key) THEN Replay(c) ELSE "internal")
    /\ UNCHANGED <<archived, departed, idem, posted, faults>>

(* The API process dies: an open transaction is rolled back, the caller sees *)
(* a lost connection.                                                        *)
ServerDies(c) ==
    /\ calls[c].pc \notin {"free", "answered"} /\ Fault
    /\ Reply(c, "internal")
    /\ UNCHANGED <<archived, departed, idem, posted>>

Serve(c) == \/ Authorize(c) \/ Find(c) \/ Prepare(c) \/ Begin(c) \/ Execute(c)
            \/ Reread(c)
Break(c) == PrepareFails(c) \/ Abort(c) \/ ServerDies(c)

(* Other members archive and reopen the group, and leave it. *)
Archive(b) ==
    /\ archived # b /\ Fault
    /\ archived' = b
    /\ UNCHANGED <<departed, idem, posted, calls>>

Depart(p) ==
    /\ p \notin departed /\ Fault
    /\ departed' = departed \cup {p}
    /\ UNCHANGED <<archived, idem, posted, calls>>
=============================================================================
