------------------------ MODULE ExpenseOutboxProofs -------------------------
(* Proofs about ExpenseOutbox, for any number of request ids, requests, tabs *)
(* and faults.                                                               *)
EXTENDS ExpenseOutbox, TLAPS

\* A stored request id always has its result.
KeysDone == \A k \in Keys : Taken(k) => idem[k].done

\* One request at a time holds a key, and only while it is not taken.
Locks == /\ \A c \in Calls : At(c, "open") => ~Taken(calls[c].key)
         /\ \A c, d \in Calls : At(c, "open") /\ At(d, "open")
                                /\ calls[c].key = calls[d].key => c = d

\* What is sent was asked for, and a success means the key is taken.
Requests == \A c \in Calls : ~At(c, "free") =>
    /\ calls[c].key \in Keys
    /\ calls[c].payload \in wanted[calls[c].key]
    /\ calls[c].answer = "ok" => Taken(calls[c].key)

\* A request that has a caller is the only one its caller waits for.
Waits == \A c \in Calls :
    /\ \A d \in Calls : calls[c].caller # Nobody /\ calls[d].caller = calls[c].caller
                         => c = d
    /\ calls[c].caller = Form => form.pc = "waiting" /\ calls[c].key = form.key
    /\ \A f \in Flushes : calls[c].caller = f =>
          flush[f].pc = "waiting" /\ calls[c].key = flush[f].at.key

\* What the form submits and the outbox holds was asked for.
Asked == /\ form.pc # "idle" => form.key \in Keys /\ form.payload \in wanted[form.key]
         /\ \A k \in Keys : row[k].status # "none" => row[k].payload \in wanted[k]

\* What a flush has read was asked for, and what it is about to delete is posted.
Flushed == \A f \in Flushes :
    /\ \A r \in flush[f].queue : r.payload \in wanted[r.key]
    /\ flush[f].pc \in {"waiting", "marking", "pinning"} =>
          /\ flush[f].at \in Item
          /\ flush[f].at.payload \in wanted[flush[f].at.key]
    /\ flush[f].pc = "marking" /\ flush[f].outcome = "sent" =>
          Taken(flush[f].at.key)

IInv == /\ TypeOK /\ KeysDone /\ Locks /\ Requests /\ Waits /\ Asked /\ Flushed
        /\ PostedOnce /\ NothingLost /\ NeverHalfDone
-----------------------------------------------------------------------------
(* Typing *)

\* A request slot that moves, answers or is freed stays well typed.
LEMMA CallTypes ==
    ASSUME TypeOK, NEW c \in Calls
    PROVE  /\ \A pc \in Pcs : Move(c, pc) => calls' \in [Calls -> CallType]
           /\ \A a \in Answers : Reply(c, a) => calls' \in [Calls -> CallType]
           /\ Take(c) => calls' \in [Calls -> CallType]
<1> USE NoneAssumption DEF TypeOK, ServerTypeOK
<1>1. NoCall \in CallType
    BY DEF NoCall, CallType, Pcs, Answers
<1>2. \A pc \in Pcs : [calls[c] EXCEPT !.pc = pc] \in CallType
    BY DEF CallType
<1>3. \A a \in Answers :
         [calls[c] EXCEPT !.pc = "answered", !.answer = a] \in CallType
    BY ZenonT(60) DEF CallType, Pcs
<1>4. ASSUME NEW a \in Answers, Reply(c, a) PROVE calls' \in [Calls -> CallType]
    BY <1>1, <1>3, <1>4 DEF Reply
<1>5. ASSUME NEW pc \in Pcs, Move(c, pc) PROVE calls' \in [Calls -> CallType]
    BY <1>2, <1>5 DEF Move
<1> QED BY <1>1, <1>4, <1>5 DEF Take

\* A caller that stops waiting leaves well-typed requests behind.
LEMMA HangUpTypes ==
    ASSUME TypeOK, NEW D \in SUBSET Calls, NEW d,
           d = [c \in Calls |-> IF c \notin D THEN calls[c]
                                ELSE IF At(c, "answered") THEN NoCall
                                ELSE [calls[c] EXCEPT !.caller = Nobody]]
    PROVE  d \in [Calls -> CallType]
<1>1. NoCall \in CallType
    BY DEF NoCall, CallType, Pcs, Answers
<1>2. \A c \in Calls : [calls[c] EXCEPT !.caller = Nobody] \in CallType
    BY DEF TypeOK, ServerTypeOK, CallType
<1> QED BY <1>1, <1>2 DEF TypeOK, ServerTypeOK

\* A request that is sent is well typed.
LEMMA SendTypes ==
    ASSUME TypeOK, NEW who \in Callers, NEW k \in Keys, NEW p \in Payloads,
           Send(who, k, p)
    PROVE  calls' \in [Calls -> CallType]
<1>1. k \in Nat
    BY KeysAssumption DEF Keys
<1>2. NoCall \in CallType
    BY DEF NoCall, CallType, Pcs, Answers
<1>3. [NoCall EXCEPT !.pc = "sent", !.key = k, !.payload = p, !.caller = who]
         \in CallType
    BY <1>1, <1>2 DEF CallType, Pcs
<1> QED BY <1>3 DEF Send, TypeOK, ServerTypeOK

\* The states a flush can be given are well typed.
LEMMA FlushTypes ==
    ASSUME TypeOK, NEW f \in Flushes
    PROVE  /\ IdleFlush \in FlushType
           /\ \A r \in Item \cup {NoItem} : /\ NextRow(f, r) \in FlushType
                                          /\ AfterTransient(f, r) \in FlushType
<1> USE RetriesAssumption DEF TypeOK, FlushType
<1>1. IdleFlush \in FlushType
    BY DEF IdleFlush
<1>2. ASSUME NEW r PROVE NextRow(f, r) \in FlushType
    <2>1. {s \in flush[f].queue : s.key # r.key} \in SUBSET Item
        OBVIOUS
    <2>2. flush[f] \in FlushType /\ 0 \in 0 .. Retries
        OBVIOUS
    <2> QED BY <2>1, <2>2 DEF NextRow
<1>3. ASSUME NEW r PROVE AfterTransient(f, r) \in FlushType
    <2>1. flush[f].tries \in 0 .. Retries
        OBVIOUS
    <2>2. flush[f].tries < Retries => flush[f].tries + 1 \in 0 .. Retries
        BY <2>1
    <2>3. flush[f] \in FlushType
        OBVIOUS
    <2> QED BY <1>2, <2>2, <2>3 DEF AfterTransient
<1> QED BY <1>1, <1>2, <1>3

\* The type invariant, with the facts about requests and flushes it needs.
LEMMA Typing == IInv /\ [Next]_vars => TypeOK'
<1> SUFFICES ASSUME IInv, [Next]_vars PROVE TypeOK'
    OBVIOUS
<1> USE DEF server, client
<1>0. TypeOK
    BY DEF IInv
<1>s. ASSUME NEW c \in Calls, ServerStep(c) PROVE TypeOK'
    <2>1. calls' \in [Calls -> CallType]
        BY <1>0, <1>s, CallTypes DEF ServerStep, Serve, Authorize, Find, Prepare,
           Begin, Execute, Reread, Replay, Pcs, Answers
    <2>2. \/ UNCHANGED <<idem, posted>>
          \/ Execute(c)
        BY <1>s DEF ServerStep, Serve, Authorize, Find, Prepare, Begin, Reread
    <2>3. At(c, "open") => calls[c].key \in Keys /\ calls[c].payload \in Payloads
        BY DEF IInv, TypeOK, Requests, At
    <2>4. idem' \in [Keys -> [payload : Payloads \cup {NoPayload}, done : BOOLEAN]]
        <3>1. CASE UNCHANGED idem
            BY <1>0, <3>1 DEF TypeOK, ServerTypeOK
        <3>2. CASE Execute(c) /\ ~UNCHANGED idem
            <4>1. idem' = [idem EXCEPT ![calls[c].key] =
                              [payload |-> calls[c].payload, done |-> TRUE]]
                  /\ At(c, "open")
                BY <3>2 DEF Execute
            <4>2. idem \in [Keys -> [payload : Payloads \cup {NoPayload},
                                     done : BOOLEAN]]
                BY <1>0 DEF TypeOK, ServerTypeOK
            <4> QED BY <2>3, <4>1, <4>2
        <3> QED BY <2>2, <3>1, <3>2
    <2>5. posted' \in [Keys -> Seq(Payloads)]
        <3>1. CASE UNCHANGED posted
            BY <1>0, <3>1 DEF TypeOK, ServerTypeOK
        <3>2. CASE Execute(c) /\ ~UNCHANGED posted
            <4>1. posted' = [posted EXCEPT ![calls[c].key] =
                                Append(@, calls[c].payload)] /\ At(c, "open")
                BY <3>2 DEF Execute
            <4>2. posted \in [Keys -> Seq(Payloads)]
                BY <1>0 DEF TypeOK, ServerTypeOK
            <4> QED BY <2>3, <4>1, <4>2
        <3> QED BY <2>2, <3>1, <3>2
    <2>6. UNCHANGED <<archived, departed, faults, client>>
        BY <1>s DEF ServerStep, Serve, Authorize, Find, Prepare, Begin, Execute, Reread
    <2> QED BY <1>0, <2>1, <2>4, <2>5, <2>6 DEF TypeOK, ServerTypeOK
<1>b. ASSUME NEW c \in Calls, Break(c), UNCHANGED client PROVE TypeOK'
    <2>1. calls' \in [Calls -> CallType]
        BY <1>0, <1>b, CallTypes DEF Break, PrepareFails, Abort, ServerDies, Answers
    <2>2. faults' \in 0 .. MaxFaults
        BY <1>0, <1>b, FaultAssumption DEF Break, PrepareFails, Abort, ServerDies,
           Fault, TypeOK, ServerTypeOK
    <2> QED BY <1>0, <1>b, <2>1, <2>2 DEF TypeOK, ServerTypeOK, Break, PrepareFails,
            Abort, ServerDies
<1>t. Fault => faults' \in 0 .. MaxFaults
    BY <1>0, FaultAssumption DEF Fault, TypeOK, ServerTypeOK
<1>a. ASSUME NEW b \in BOOLEAN, Archive(b), UNCHANGED client PROVE TypeOK'
    BY <1>0, <1>a, <1>t DEF TypeOK, ServerTypeOK, Archive
<1>d. ASSUME NEW p \in Payloads, Depart(p), UNCHANGED client PROVE TypeOK'
    BY <1>0, <1>d, <1>t DEF TypeOK, ServerTypeOK, Depart
<1>o. ASSUME GoOnline \/ GoOffline PROVE TypeOK'
    BY <1>0, <1>o, <1>t DEF TypeOK, ServerTypeOK, GoOnline, GoOffline
<1>k. \A p \in Payloads, k \in Keys :
          [row EXCEPT ![k] = [status |-> "pending", payload |-> p]]
             \in [Keys -> [status : Statuses, payload : Payloads \cup {NoPayload}]]
    BY <1>0 DEF TypeOK, Statuses
<1>n. /\ \A p \in Payloads : \A pc \in {"guarded", "waiting"} :
             [form EXCEPT !.payload = p, !.pc = pc] \in FormType
      /\ [form EXCEPT !.pc = "idle", !.payload = NoPayload] \in FormType
    BY <1>0 DEF TypeOK, FormType
<1>i. form.key \in Keys =>
          [form EXCEPT !.pc = "idle", !.key = @ + 1, !.payload = NoPayload] \in FormType
    <2>1. form.key \in Keys => form.key + 1 \in 1 .. MaxKey + 1
        BY KeysAssumption DEF Keys
    <2> QED BY <1>0, <2>1 DEF TypeOK, FormType
<1>f. ASSUME NEW p \in Payloads, Submit(p) PROVE TypeOK'
    <2>1. form.key \in Keys
        BY <1>0, <1>f, KeysAssumption DEF Submit, TypeOK, FormType, Keys
    <2>2. row' \in [Keys -> [status : Statuses, payload : Payloads \cup {NoPayload}]]
        BY <1>0, <1>f, <1>k, <2>1 DEF Submit, PutRow, TypeOK
    <2>3. form' \in FormType /\ wanted' \in [Keys -> SUBSET Payloads]
        BY <1>0, <1>f, <1>n, <2>1 DEF Submit, TypeOK
    <2> QED BY <1>0, <1>f, <2>2, <2>3 DEF Submit, TypeOK, ServerTypeOK
<1>q. ASSUME LinkQueues PROVE TypeOK'
    <2>1. form.key \in Keys /\ form.payload \in Payloads
        BY <1>q DEF IInv, Asked, TypeOK, LinkQueues
    <2>2. row' \in [Keys -> [status : Statuses, payload : Payloads \cup {NoPayload}]]
        BY <1>q, <1>k, <2>1 DEF LinkQueues, PutRow
    <2> QED BY <1>0, <1>q, <1>i, <2>1, <2>2 DEF LinkQueues, FormSaved, TypeOK,
            ServerTypeOK
<1>l. ASSUME LinkSends PROVE TypeOK'
    <2>1. form.key \in Keys /\ form.payload \in Payloads
        BY <1>l DEF IInv, Asked, TypeOK, LinkSends
    <2>2. calls' \in [Calls -> CallType]
        BY <1>0, <1>l, <2>1, SendTypes, CallersAssumption DEF LinkSends
    <2> QED BY <1>0, <1>l, <2>2 DEF TypeOK, ServerTypeOK, LinkSends, FormType
<1>m. ASSUME NEW c \in Calls, FormAnswer(c) PROVE TypeOK'
    <2>1. form.key \in Keys /\ form.payload \in Payloads
        BY <1>m DEF IInv, Asked, TypeOK, FormAnswer
    <2>2. calls' \in [Calls -> CallType]
        BY <1>0, <1>m, CallTypes DEF FormAnswer
    <2>3. form' \in FormType /\ accepted' \subseteq Keys
        BY <1>0, <1>m, <1>n, <1>i, <2>1 DEF FormAnswer, FormSaved, FormFails, TypeOK
    <2> QED BY <1>0, <1>m, <2>2, <2>3 DEF TypeOK, ServerTypeOK, FormAnswer
<1>h. ASSUME FormHangsUp PROVE TypeOK'
    <2>1. calls' = [c \in Calls |-> IF c \notin {d \in Calls : calls[d].caller = Form}
                                   THEN calls[c]
                                   ELSE IF At(c, "answered") THEN NoCall
                                   ELSE [calls[c] EXCEPT !.caller = Nobody]]
        BY <1>h DEF FormHangsUp, HangUp
    <2>2. calls' \in [Calls -> CallType]
        BY <1>0, <2>1, HangUpTypes
    <2> QED BY <1>0, <1>h, <1>n, <1>t, <2>2 DEF TypeOK, ServerTypeOK, FormHangsUp,
            FormFails
<1>g. ASSUME NEW f \in Flushes,
             \/ StartFlush(f) \/ EndFlush(f) \/ DeleteRow(f) \/ ReadRow(f)
             \/ PinRow(f) \/ MarkFails(f)
             \/ \E r \in flush[f].queue : FlushUnreachable(f, r)
      PROVE  TypeOK'
    <2>1. flush[f].at \in Item \cup {NoItem} /\ flush[f].queue \subseteq Item
        BY <1>0 DEF TypeOK, FlushType
    <2>2. flush[f].pc \in {"waiting", "marking", "pinning"} => flush[f].at \in Item
        BY DEF IInv, Flushed
    <2>3. \A k \in Keys : row[k].status # "none" => row[k].payload \in Payloads
        BY <1>0 DEF IInv, Asked, TypeOK
    <2>4. CASE StartFlush(f)
        <3>1. Listed \in SUBSET Item
            BY <1>0, <2>3 DEF Listed, Item, TypeOK
        <3>2. [IdleFlush EXCEPT !.pc = "next", !.queue = Listed] \in FlushType
            BY <1>0, <3>1, FlushTypes DEF FlushType
        <3> QED BY <1>0, <2>4, <3>2 DEF StartFlush, SetFlush, TypeOK, ServerTypeOK
    <2>5. CASE EndFlush(f) \/ MarkFails(f)
        BY <1>0, <1>t, <2>5, FlushTypes DEF EndFlush, MarkFails, SetFlush, TypeOK,
           ServerTypeOK
    <2>6. CASE DeleteRow(f)
        BY <1>0, <2>1, <2>6, FlushTypes DEF DeleteRow, SetFlush, TypeOK, ServerTypeOK,
           NoRow, Statuses
    <2>7. CASE ReadRow(f)
        <3>1. flush[f].at \in Item
            BY <2>2, <2>7 DEF ReadRow
        <3>2. row[flush[f].at.key].status # "none" =>
                [flush[f] EXCEPT !.pc = "pinning",
                                 !.at.payload = row[flush[f].at.key].payload]
                    \in FlushType
            BY <1>0, <2>3, <3>1 DEF TypeOK, FlushType, Item
        <3> QED BY <1>0, <2>1, <2>7, <3>2, FlushTypes DEF ReadRow, SetFlush, TypeOK,
                ServerTypeOK
    <2>8. CASE PinRow(f)
        <3>1. flush[f].at \in Item
            BY <2>2, <2>8 DEF PinRow
        <3> QED BY <1>0, <2>1, <2>8, <3>1, FlushTypes DEF PinRow, SetFlush, TypeOK,
                ServerTypeOK, Statuses, Item
    <2>9. CASE \E r \in flush[f].queue : FlushUnreachable(f, r)
        BY <1>0, <2>1, <2>9, FlushTypes DEF FlushUnreachable, SetFlush, TypeOK,
           ServerTypeOK
    <2> QED BY <1>g, <2>4, <2>5, <2>6, <2>7, <2>8, <2>9
<1>w. ASSUME NEW f \in Flushes, NEW r \in flush[f].queue, FlushSends(f, r)
      PROVE  TypeOK'
    <2>1. r \in Item /\ f \in Callers
        BY <1>0, CallersAssumption DEF TypeOK, FlushType
    <2>2. calls' \in [Calls -> CallType]
        BY <1>0, <1>w, <2>1, SendTypes DEF FlushSends, Item
    <2>3. [flush[f] EXCEPT !.pc = "waiting", !.at = r] \in FlushType
        BY <1>0, <2>1 DEF TypeOK, FlushType
    <2> QED BY <1>0, <1>w, <2>2, <2>3 DEF FlushSends, SetFlush, TypeOK, ServerTypeOK
<1>x. ASSUME NEW f \in Flushes, NEW c \in Calls, FlushAnswer(f, c) PROVE TypeOK'
    <2>1. flush[f].at \in Item
        BY <1>x DEF IInv, Flushed, FlushAnswer
    <2>2. calls' \in [Calls -> CallType]
        BY <1>0, <1>x, CallTypes DEF FlushAnswer
    <2>3. Disposition(calls[c].answer) # "deferred" =>
            [flush[f] EXCEPT !.pc = "marking",
                             !.outcome = Disposition(calls[c].answer)] \in FlushType
        BY <1>0 DEF TypeOK, FlushType, Disposition
    <2>4. flush' \in [Flushes -> FlushType]
        BY <1>0, <1>x, <2>1, <2>3, FlushTypes DEF FlushAnswer, SetFlush, TypeOK
    <2> QED BY <1>0, <1>x, <2>2, <2>4 DEF FlushAnswer, TypeOK, ServerTypeOK
<1>y. ASSUME NEW f \in Flushes, FlushHangsUp(f) PROVE TypeOK'
    <2>1. calls' = [c \in Calls |-> IF c \notin {d \in Calls : calls[d].caller = f}
                                   THEN calls[c]
                                   ELSE IF At(c, "answered") THEN NoCall
                                   ELSE [calls[c] EXCEPT !.caller = Nobody]]
        BY <1>y DEF FlushHangsUp, HangUp
    <2>2. calls' \in [Calls -> CallType]
        BY <1>0, <2>1, HangUpTypes
    <2>3. flush[f].at \in Item \cup {NoItem}
        BY <1>0 DEF TypeOK, FlushType
    <2> QED BY <1>0, <1>t, <1>y, <2>2, <2>3, FlushTypes DEF TypeOK, ServerTypeOK,
            FlushHangsUp, SetFlush
<1>z. ASSUME NEW f \in Flushes, TabCloses(f) PROVE TypeOK'
    <2>1. calls' = [c \in Calls |->
              IF c \notin {d \in Calls : calls[d].caller = f
                              \/ (f = FormTab /\ calls[d].caller = Form)}
              THEN calls[c]
              ELSE IF At(c, "answered") THEN NoCall
              ELSE [calls[c] EXCEPT !.caller = Nobody]]
        BY <1>z DEF TabCloses
    <2>2. calls' \in [Calls -> CallType]
        BY <1>0, <2>1, HangUpTypes
    <2>3. form.pc # "idle" => form.key \in Keys
        BY DEF IInv, Asked
    <2>4. form' \in FormType
        BY <1>0, <1>z, <1>n, <1>i, <2>3 DEF TabCloses, FormFails, TypeOK
    <2> QED BY <1>0, <1>t, <1>z, <2>2, <2>4, FlushTypes DEF TypeOK, ServerTypeOK,
            TabCloses, FormFails, SetFlush
<1>u. CASE UNCHANGED vars
    BY <1>0, <1>u DEF TypeOK, ServerTypeOK, vars
<1> QED BY <1>s, <1>b, <1>a, <1>d, <1>o, <1>f, <1>q, <1>l, <1>m, <1>h, <1>g, <1>w,
           <1>x, <1>y, <1>z, <1>u
    DEF Next, FormStep, FlushStep
-----------------------------------------------------------------------------
(* The server's steps *)

\* What a step of a request leaves of the requests: the others as they were,
\* and it with the same content and caller, or gone.
Kept(c) == /\ \A d \in Calls \ {c} : calls'[d] = calls[d]
           /\ \/ calls'[c] = NoCall
              \/ /\ calls'[c].key = calls[c].key
                 /\ calls'[c].payload = calls[c].payload
                 /\ calls'[c].caller = calls[c].caller

\* An answer ends a request; a move leaves its answer alone.
LEMMA StepFacts ==
    ASSUME TypeOK, NEW c \in Calls
    PROVE  /\ \A a \in Answers : Reply(c, a) =>
                 Kept(c) /\ calls'[c].pc \in {"free", "answered"}
                 /\ calls'[c].answer \in {"none", a}
           /\ \A pc \in Pcs : Move(c, pc) =>
                 Kept(c) /\ calls'[c].pc = pc /\ calls'[c].answer = calls[c].answer
<1>1. calls \in [Calls -> CallType]
    BY DEF TypeOK, ServerTypeOK
<1>2. ASSUME NEW a \in Answers, Reply(c, a)
      PROVE  Kept(c) /\ calls'[c].pc \in {"free", "answered"}
             /\ calls'[c].answer \in {"none", a}
    <2>1. CASE calls[c].caller = Nobody
        BY <1>1, <1>2, <2>1 DEF Reply, Kept, NoCall
    <2>2. CASE calls[c].caller # Nobody
        BY <1>1, <1>2, <2>2 DEF Reply, Kept, CallType
    <2> QED BY <2>1, <2>2
<1>3. ASSUME NEW pc \in Pcs, Move(c, pc)
      PROVE  Kept(c) /\ calls'[c].pc = pc /\ calls'[c].answer = calls[c].answer
    BY <1>1, <1>3 DEF Move, Kept, CallType
<1> QED BY <1>2, <1>3

\* The stored result of a taken key answers a success only to its own content,
\* and never that it is being processed.
LEMMA ReplayFacts ==
    ASSUME IInv, NEW c \in Calls, ~At(c, "free"), Taken(calls[c].key)
    PROVE  Replay(c) \in {"ok", "different"}
BY DEF IInv, KeysDone, Replay, Requests

\* What a request's step does, other than to take a key.
LEMMA ServeFacts ==
    ASSUME IInv, NEW c \in Calls,
           ServerStep(c) \/ (Break(c) /\ UNCHANGED client), ~Execute(c)
    PROVE  /\ UNCHANGED <<idem, posted, client>>
           /\ ~At(c, "free") /\ Kept(c)
           /\ calls'[c].answer # "inflight"
           /\ calls'[c].answer = "ok" => Taken(calls[c].key)
           /\ calls'[c].pc = "open" =>
                 /\ ~Taken(calls[c].key)
                 /\ \A d \in Calls \ {c} :
                       ~(At(d, "open") /\ calls[d].key = calls[c].key)
<1>0. TypeOK /\ calls[c].answer # "inflight"
    BY DEF IInv, NeverHalfDone
<1>1. ~At(c, "free") /\ UNCHANGED <<idem, posted, client>>
    BY DEF ServerStep, Serve, Break, Authorize, Find, Prepare, Begin, Reread,
       PrepareFails, Abort, ServerDies, At
<1>2. calls[c].answer = "ok" => Taken(calls[c].key)
    BY <1>1 DEF IInv, Requests
<1>3. ASSUME NEW a \in Answers, Reply(c, a), a # "inflight",
             a = "ok" => Taken(calls[c].key)
      PROVE  /\ Kept(c) /\ calls'[c].answer # "inflight" /\ calls'[c].pc # "open"
             /\ calls'[c].answer = "ok" => Taken(calls[c].key)
    BY <1>0, <1>3, StepFacts
<1>4. ASSUME NEW pc \in Pcs, Move(c, pc)
      PROVE  /\ Kept(c) /\ calls'[c].answer # "inflight" /\ calls'[c].pc = pc
             /\ calls'[c].answer = "ok" => Taken(calls[c].key)
    BY <1>0, <1>2, <1>4, StepFacts
<1>5. CASE Authorize(c)
    BY <1>1, <1>3, <1>4, <1>5 DEF Authorize, Answers, Pcs
<1>6. CASE Find(c)
    BY <1>1, <1>3, <1>4, <1>6, ReplayFacts DEF Find, Answers, Pcs
<1>7. CASE Prepare(c)
    BY <1>1, <1>4, <1>7 DEF Prepare, Pcs
<1>8. CASE Begin(c)
    BY <1>1, <1>4, <1>8 DEF Begin, Pcs, Held
<1>9. CASE Reread(c)
    BY <1>1, <1>3, <1>9, ReplayFacts DEF Reread, Answers
<1>10. CASE Break(c)
    BY <1>1, <1>3, <1>10 DEF Break, PrepareFails, Abort, ServerDies, Answers
<1> QED BY <1>1, <1>5, <1>6, <1>7, <1>8, <1>9, <1>10 DEF ServerStep, Serve

\* A request's step, other than to take a key, preserves the invariant.
LEMMA ServePreserves ==
    ASSUME IInv, TypeOK', NEW c \in Calls,
           ServerStep(c) \/ (Break(c) /\ UNCHANGED client), ~Execute(c)
    PROVE  IInv'
<1> USE ServeFacts DEF IInv
<1>1. \A k \in Keys : Taken(k)' = Taken(k)
    BY DEF Taken
<1>2. KeysDone' /\ PostedOnce'
    BY <1>1 DEF KeysDone, PostedOnce
<1>3. Asked' /\ Flushed' /\ NothingLost'
    BY <1>1 DEF client, Asked, Flushed, NothingLost, Item, Taken
<1>4. Locks'
    <2>1. \A d \in Calls : At(d, "open")' => ~At(d, "free")
        BY DEF Kept, At
    <2>2. \A d \in Calls : At(d, "open")' => calls'[d].key = calls[d].key
        BY DEF Kept, At, NoCall
    <2> QED BY <1>1, <2>1, <2>2 DEF Locks, Kept, At, Requests, Taken
<1>5. Requests'
    <2>1. \A d \in Calls : ~At(d, "free")' =>
             calls'[d].key = calls[d].key /\ calls'[d].payload = calls[d].payload
        BY DEF Kept, At, NoCall
    <2> QED BY <1>1, <2>1 DEF Requests, Kept, At, client, Taken
<1>6. Waits'
    <2>1. \A d \in Calls : calls'[d].caller # Nobody =>
             calls'[d].caller = calls[d].caller /\ calls'[d].key = calls[d].key
        BY DEF Kept, NoCall
    <2> QED BY <2>1, NoneAssumption, CallersAssumption DEF Waits, client
<1>7. NeverHalfDone'
    BY DEF NeverHalfDone, Kept
<1> QED BY <1>2, <1>3, <1>4, <1>5, <1>6, <1>7

\* The one step that posts: the transaction that holds the key.
LEMMA ExecutePreserves ==
    ASSUME IInv, TypeOK', NEW c \in Calls, ServerStep(c), Execute(c),
           NEW k, k = calls[c].key
    PROVE  IInv'
<1>0. /\ UNCHANGED client /\ At(c, "open") /\ k \in Keys /\ ~Taken(k)
      /\ calls[c].payload \in Payloads /\ TypeOK
    BY DEF IInv, ServerStep, Execute, Locks, Requests, At, TypeOK
<1>1. CASE UNCHANGED <<idem, posted>>
    <2>1. Reply(c, "internal")
        BY <1>0, <1>1 DEF Execute, Taken, NoKey, TypeOK, ServerTypeOK
    <2>2. /\ Kept(c) /\ calls'[c].answer \in {"none", "internal"}
          /\ calls'[c].pc \in {"free", "answered"}
        BY <1>0, <2>1, StepFacts DEF Answers
    <2>3. \A j \in Keys : Taken(j)' = Taken(j)
        BY <1>1 DEF Taken
    <2>4. \A d \in Calls :
              /\ ~At(d, "free")' => /\ ~At(d, "free")
                                    /\ calls'[d].key = calls[d].key
                                    /\ calls'[d].payload = calls[d].payload
              /\ At(d, "open")' => At(d, "open")
              /\ calls'[d].answer = "ok" => calls[d].answer = "ok"
              /\ calls'[d].answer = "inflight" => calls[d].answer = "inflight"
              /\ calls'[d].caller # Nobody =>
                     calls'[d].caller = calls[d].caller /\ calls'[d].key = calls[d].key
        BY <1>0, <2>2 DEF Kept, At, NoCall
    <2>5. KeysDone' /\ PostedOnce' /\ Asked' /\ Flushed' /\ NothingLost' /\ NeverHalfDone'
        BY <1>0, <1>1, <2>3, <2>4 DEF IInv, client, KeysDone, PostedOnce, Asked, Flushed,
           NothingLost, NeverHalfDone, Taken, Item
    <2>6. Locks' /\ Requests'
        BY <1>0, <1>1, <2>3, <2>4 DEF IInv, client, Locks, Requests, Taken, At
    <2>7. Waits'
        BY <1>0, <2>4, NoneAssumption, CallersAssumption DEF IInv, client, Waits
    <2> QED BY <2>5, <2>6, <2>7 DEF IInv
<1>2. CASE ~UNCHANGED <<idem, posted>>
    <2>1. /\ idem' = [idem EXCEPT ![k] = [payload |-> calls[c].payload, done |-> TRUE]]
          /\ posted' = [posted EXCEPT ![k] = Append(@, calls[c].payload)]
          /\ Reply(c, "ok")
        BY <1>2 DEF Execute
    <2>2. /\ Kept(c) /\ calls'[c].answer \in {"none", "ok"}
          /\ calls'[c].pc \in {"free", "answered"}
        BY <1>0, <2>1, StepFacts DEF Answers
    <2>3. /\ idem'[k] = [payload |-> calls[c].payload, done |-> TRUE]
          /\ \A j \in Keys \ {k} : idem'[j] = idem[j] /\ posted'[j] = posted[j]
        BY <1>0, <2>1 DEF TypeOK, ServerTypeOK
    <2>4. /\ Taken(k)' /\ idem'[k].done /\ idem'[k].payload = calls[c].payload
          /\ \A j \in Keys \ {k} : Taken(j)' = Taken(j)
        BY <1>0, <2>3, NoneAssumption DEF Taken, NoKey
    <2>5. posted'[k] = <<calls[c].payload>>
        <3>1. posted[k] = <<>>
            BY <1>0 DEF IInv, PostedOnce
        <3> QED BY <1>0, <2>1, <3>1 DEF TypeOK, ServerTypeOK
    <2>6. \A d \in Calls :
              /\ ~At(d, "free")' => /\ ~At(d, "free")
                                    /\ calls'[d].key = calls[d].key
                                    /\ calls'[d].payload = calls[d].payload
              /\ At(d, "open")' => d # c /\ At(d, "open")
              /\ calls'[d].answer = "ok" => d = c \/ calls[d].answer = "ok"
              /\ calls'[d].answer = "inflight" => calls[d].answer = "inflight"
              /\ calls'[d].caller # Nobody =>
                     calls'[d].caller = calls[d].caller /\ calls'[d].key = calls[d].key
        BY <1>0, <2>2 DEF Kept, At, NoCall
    <2>7. KeysDone' /\ PostedOnce'
        BY <2>3, <2>4, <2>5 DEF IInv, KeysDone, PostedOnce, Taken
    <2>8. Asked' /\ Flushed'
        BY <1>0, <2>4 DEF IInv, client, Asked, Flushed, Item
    <2>9. NothingLost'
        <3>1. \A j \in accepted : posted'[j] = posted[j] \/ posted'[j] # <<>>
            <4>1. posted'[k] # <<>>
                BY <2>5
            <4> QED BY <1>0, <2>3, <4>1 DEF TypeOK
        <3> QED BY <1>0, <3>1 DEF IInv, client, NothingLost
    <2>10. NeverHalfDone'
        BY <2>6 DEF IInv, NeverHalfDone
    <2>11. Locks'
        <3>1. \A d \in Calls : At(d, "open") /\ d # c => calls[d].key # k
            BY <1>0 DEF IInv, Locks
        <3>2. \A d \in Calls : At(d, "open") => calls[d].key \in Keys
            BY DEF IInv, Requests, At
        <3>3. \A d \in Calls : At(d, "open")' => ~Taken(calls[d].key)'
            BY <2>3, <2>6, <3>1, <3>2 DEF IInv, Locks, Taken, At
        <3>4. \A d, e \in Calls : At(d, "open")' /\ At(e, "open")'
                                  /\ calls'[d].key = calls'[e].key => d = e
            BY <2>6 DEF IInv, Locks, At
        <3> QED BY <3>3, <3>4 DEF Locks, At
    <2>12. Requests'
        BY <1>0, <2>4, <2>6 DEF IInv, client, Requests, At
    <2>13. Waits'
        BY <1>0, <2>6, NoneAssumption, CallersAssumption DEF IInv, client, Waits
    <2> QED BY <2>7, <2>8, <2>9, <2>10, <2>11, <2>12, <2>13 DEF IInv
<1> QED BY <1>1, <1>2
-----------------------------------------------------------------------------
(* The clients' steps *)

\* What the clients do to the table and the ledger: nothing.
ServerKept == UNCHANGED <<idem, posted>>

\* Requests that are freed, or lose their caller, and nothing else.
Dropped == \A c \in Calls :
    \/ calls'[c] = calls[c]
    \/ calls'[c] = NoCall
    \/ calls'[c] = [calls[c] EXCEPT !.caller = Nobody]

\* A request of the caller who is sent for the key k and content p.
Sent(who, k, p) == \E c \in Calls :
    /\ \A d \in Calls \ {c} : calls'[d] = calls[d]
    /\ At(c, "free")
    /\ calls'[c] = [NoCall EXCEPT !.pc = "sent", !.key = k, !.payload = p,
                                  !.caller = who]

\* Freed requests and new ones leave what is known of the server's side.
LEMMA ClientKeepsServer ==
    ASSUME IInv, ServerKept, \A k \in Keys : wanted[k] \subseteq wanted'[k],
           \/ Dropped
           \/ \E who \in Callers, k \in Keys, p \in Payloads :
                 Sent(who, k, p) /\ p \in wanted'[k]
    PROVE  KeysDone' /\ Locks' /\ Requests' /\ PostedOnce' /\ NeverHalfDone'
<1> USE DEF ServerKept
<1>0. calls \in [Calls -> CallType]
    BY DEF IInv, TypeOK, ServerTypeOK
<1>1. \A k \in Keys : Taken(k)' = Taken(k)
    BY DEF Taken
<1>2. KeysDone' /\ PostedOnce'
    BY <1>1 DEF IInv, KeysDone, PostedOnce
<1>3. CASE Dropped
    <2>1. \A d \in Calls :
              /\ ~At(d, "free")' => /\ ~At(d, "free")
                                    /\ calls'[d].key = calls[d].key
                                    /\ calls'[d].payload = calls[d].payload
              /\ At(d, "open")' => At(d, "open")
              /\ calls'[d].answer = "ok" => calls[d].answer = "ok"
              /\ calls'[d].answer = "inflight" => calls[d].answer = "inflight"
        <3> TAKE d \in Calls
        <3>1. CASE calls'[d] = calls[d]
            BY <3>1 DEF At
        <3>2. CASE calls'[d] = NoCall
            BY <3>2 DEF At, NoCall
        <3>3. CASE calls'[d] = [calls[d] EXCEPT !.caller = Nobody]
            BY <1>0, <3>3 DEF At, CallType
        <3> QED BY <1>3, <3>1, <3>2, <3>3 DEF Dropped
    <2> QED BY <1>1, <1>2, <2>1 DEF IInv, Locks, Requests, NeverHalfDone, Taken, At
<1>4. ASSUME NEW who \in Callers, NEW k \in Keys, NEW p \in Payloads,
             Sent(who, k, p), p \in wanted'[k]
      PROVE  Locks' /\ Requests' /\ NeverHalfDone'
    <2>1. PICK c \in Calls :
              /\ \A d \in Calls \ {c} : calls'[d] = calls[d]
              /\ calls'[c] = [NoCall EXCEPT !.pc = "sent", !.key = k, !.payload = p,
                                            !.caller = who]
        BY <1>4 DEF Sent
    <2>2. /\ calls'[c].pc = "sent" /\ calls'[c].key = k /\ calls'[c].payload = p
          /\ calls'[c].answer = "none"
        BY <2>1 DEF NoCall
    <2>3. \A d \in Calls \ {c} : calls'[d] = calls[d]
        BY <2>1
    <2>4. Locks'
        BY <2>2, <2>3 DEF IInv, Locks, Taken, At
    <2>5. Requests'
        BY <1>1, <1>4, <2>2, <2>3 DEF IInv, Requests, Taken, At
    <2>6. NeverHalfDone'
        BY <2>2, <2>3 DEF IInv, NeverHalfDone
    <2> QED BY <2>4, <2>5, <2>6
<1> QED BY <1>2, <1>3, <1>4

\* Waiting ends for the callers in W, and no request keeps one of them.
LEMMA WaitsDropped ==
    ASSUME IInv, Dropped, NEW W \in SUBSET Callers,
           \A c \in Calls : calls'[c].caller \notin W,
           Form \notin W => form' = form,
           \A f \in Flushes \ W : flush'[f] = flush[f]
    PROVE  Waits'
<1>1. calls \in [Calls -> CallType]
    BY DEF IInv, TypeOK, ServerTypeOK
<1>2. \A c \in Calls : calls'[c].caller # Nobody =>
         calls'[c].caller = calls[c].caller /\ calls'[c].key = calls[c].key
    <2> TAKE c \in Calls
    <2>1. CASE calls'[c] = calls[c]
        BY <2>1
    <2>2. CASE calls'[c] = NoCall
        BY <2>2 DEF NoCall
    <2>3. CASE calls'[c] = [calls[c] EXCEPT !.caller = Nobody]
        BY <1>1, <2>3 DEF CallType
    <2> QED BY <2>1, <2>2, <2>3 DEF Dropped
<1> QED BY <1>2, NoneAssumption, CallersAssumption DEF IInv, Waits

\* A caller that was not waiting sends a request and waits for it.
LEMMA WaitsSent ==
    ASSUME IInv, NEW who \in Callers, NEW k \in Keys, NEW p, Sent(who, k, p),
           \/ /\ who = Form /\ form.pc # "waiting" /\ flush' = flush
              /\ form'.pc = "waiting" /\ form'.key = k
           \/ /\ who \in Flushes /\ flush[who].pc # "waiting" /\ form' = form
              /\ flush'[who].pc = "waiting" /\ flush'[who].at.key = k
              /\ \A f \in Flushes \ {who} : flush'[f] = flush[f]
    PROVE  Waits'
<1>1. PICK c \in Calls :
          /\ \A d \in Calls \ {c} : calls'[d] = calls[d]
          /\ calls'[c] = [NoCall EXCEPT !.pc = "sent", !.key = k, !.payload = p,
                                        !.caller = who]
    BY DEF Sent
<1>2. calls'[c].caller = who /\ calls'[c].key = k
    BY <1>1 DEF NoCall
<1>3. \A d \in Calls : calls[d].caller # who
    BY CallersAssumption DEF IInv, Waits
<1>4. ASSUME NEW d \in Calls, NEW e \in Calls, calls'[d].caller # Nobody,
             calls'[e].caller = calls'[d].caller
      PROVE  d = e
    <2>1. CASE d # c /\ e # c
        <3>1. calls'[d] = calls[d] /\ calls'[e] = calls[e]
            BY <1>1, <2>1
        <3> QED BY <1>4, <3>1 DEF IInv, Waits
    <2>2. CASE d = c /\ e # c
        BY <1>1, <1>2, <1>3, <1>4, <2>2
    <2>3. CASE d # c /\ e = c
        BY <1>1, <1>2, <1>3, <1>4, <2>3
    <2> QED BY <2>1, <2>2, <2>3
<1>5. ASSUME NEW d \in Calls, calls'[d].caller = Form
      PROVE  form'.pc = "waiting" /\ calls'[d].key = form'.key
    <2>1. CASE d = c
        BY <1>2, <1>5, <2>1, CallersAssumption
    <2>2. CASE d # c
        BY <1>1, <1>3, <1>5, <2>2 DEF IInv, Waits
    <2> QED BY <2>1, <2>2
<1>6. ASSUME NEW d \in Calls, NEW f \in Flushes, calls'[d].caller = f
      PROVE  flush'[f].pc = "waiting" /\ calls'[d].key = flush'[f].at.key
    <2>1. CASE d = c
        BY <1>2, <1>6, <2>1, CallersAssumption
    <2>2. CASE d # c
        BY <1>1, <1>3, <1>6, <2>2 DEF IInv, Waits
    <2> QED BY <2>1, <2>2
<1> QED BY <1>4, <1>5, <1>6 DEF Waits

\* The sends and the releases of the actions, in those terms.
LEMMA CallFacts ==
    ASSUME IInv
    PROVE  /\ \A c \in Calls : Take(c) =>
                 /\ Dropped
                 /\ \A d \in Calls : calls[c].caller # Nobody
                                      => calls'[d].caller # calls[c].caller
           /\ \A who \in Callers : HangUp(who) =>
                 Dropped /\ \A d \in Calls : calls'[d].caller # who
           /\ \A who \in Callers, k \in Keys, p \in Payloads :
                 Send(who, k, p) => Sent(who, k, p)
<1>1. calls \in [Calls -> CallType]
    BY DEF IInv, TypeOK, ServerTypeOK
<1>2. ASSUME NEW c \in Calls, Take(c)
      PROVE  /\ Dropped
             /\ \A d \in Calls : calls[c].caller # Nobody
                                  => calls'[d].caller # calls[c].caller
    <2>1. calls'[c] = NoCall /\ \A d \in Calls \ {c} : calls'[d] = calls[d]
        BY <1>1, <1>2 DEF Take
    <2>2. NoCall.caller = Nobody
        BY DEF NoCall
    <2> QED BY <2>1, <2>2 DEF Dropped, IInv, Waits
<1>3. ASSUME NEW who \in Callers, HangUp(who)
      PROVE  Dropped /\ \A d \in Calls : calls'[d].caller # who
    <2> SUFFICES ASSUME NEW d \in Calls
                 PROVE  /\ calls'[d].caller # who
                        /\ \/ calls'[d] = calls[d]
                           \/ calls'[d] = NoCall
                           \/ calls'[d] = [calls[d] EXCEPT !.caller = Nobody]
        BY DEF Dropped
    <2>1. CASE calls'[d] = calls[d] /\ calls[d].caller # who
        BY <2>1
    <2>2. CASE calls'[d] = NoCall
        BY <2>2, NoneAssumption DEF NoCall
    <2>3. CASE calls'[d] = [calls[d] EXCEPT !.caller = Nobody]
        BY <1>1, <2>3, NoneAssumption DEF CallType
    <2> QED BY <1>3, <2>1, <2>2, <2>3 DEF HangUp
<1>4. ASSUME NEW who \in Callers, NEW k \in Keys, NEW p \in Payloads, Send(who, k, p)
      PROVE  Sent(who, k, p)
    BY <1>1, <1>4 DEF Send, Sent
<1> QED BY <1>2, <1>3, <1>4

\* What is asked for is never withdrawn, and what is taken stays taken.
LEMMA FlushedKept ==
    ASSUME IInv, ServerKept, NEW f \in Flushes, flush'[f] = flush[f],
           \A k \in Keys : wanted[k] \subseteq wanted'[k]
    PROVE  /\ \A r \in flush'[f].queue : r.payload \in wanted'[r.key]
           /\ flush'[f].pc \in {"waiting", "marking", "pinning"} =>
                 /\ flush'[f].at \in Item
                 /\ flush'[f].at.payload \in wanted'[flush'[f].at.key]
           /\ flush'[f].pc = "marking" /\ flush'[f].outcome = "sent" =>
                 Taken(flush'[f].at.key)
<1>1. flush[f].queue \subseteq Item
    BY DEF IInv, TypeOK, FlushType
<1> QED BY <1>1 DEF IInv, Flushed, Item

\* The form's steps preserve the invariant.
LEMMA FormPreserves ==
    ASSUME IInv, TypeOK',
           (\E p \in Payloads : Submit(p)) \/ FormStep \/ FormHangsUp
    PROVE  IInv'
<1>0. /\ ServerKept /\ flush' = flush /\ online' = online
      /\ \A k \in Keys : wanted[k] \subseteq wanted'[k]
    <2>1. ASSUME NEW p \in Payloads, Submit(p)
          PROVE  \A k \in Keys : wanted[k] \subseteq wanted'[k]
        BY <2>1 DEF Submit, IInv, TypeOK
    <2>2. FormStep \/ FormHangsUp => wanted' = wanted
        BY DEF FormStep, LinkSends, LinkQueues, FormAnswer, FormHangsUp
    <2>3. ServerKept /\ flush' = flush /\ online' = online
        BY DEF FormStep, Submit, LinkSends, LinkQueues, FormAnswer, FormHangsUp, server,
           ServerKept
    <2> QED BY <2>1, <2>2, <2>3
<1>1. \A k \in Keys : Taken(k)' = Taken(k)
    BY <1>0 DEF ServerKept, Taken
<1>2. Flushed'
    BY <1>0, <1>1, FlushedKept DEF Flushed, ServerKept, Taken
<1>3. ASSUME NEW p \in Payloads, Submit(p) PROVE IInv'
    <2>1. Dropped /\ UNCHANGED <<calls, accepted>>
        BY <1>3 DEF Submit, server, Dropped
    <2>2. KeysDone' /\ Locks' /\ Requests' /\ PostedOnce' /\ NeverHalfDone'
        BY <1>0, <2>1, ClientKeepsServer
    <2>3. /\ form.key \in Keys /\ form' = [form EXCEPT !.payload = p, !.pc = "guarded"]
          /\ wanted' = [wanted EXCEPT ![form.key] = @ \cup {p}]
        <3>1. form.key \in 1 .. MaxKey + 1 /\ form.key <= MaxKey
            BY <1>3 DEF Submit, IInv, TypeOK, FormType
        <3>2. form.key \in Keys
            BY <3>1, KeysAssumption DEF Keys
        <3> QED BY <1>3, <3>2 DEF Submit
    <2>4. form'.pc = "guarded" /\ form'.key = form.key /\ form'.payload = p
          /\ p \in wanted'[form.key]
        BY <2>3 DEF IInv, TypeOK, FormType
    <2>5. row' = row \/ row' = [row EXCEPT ![form.key] =
                                  [status |-> "pending", payload |-> p]]
        BY <1>3 DEF Submit, PutRow
    <2>6. Asked'
        BY <1>0, <2>3, <2>4, <2>5 DEF IInv, Asked, TypeOK
    <2>7. Waits'
        BY <1>0, <1>3, <2>1 DEF IInv, Waits, Submit
    <2>8. NothingLost'
        BY <1>0, <2>1, <2>3, <2>5 DEF IInv, NothingLost, TypeOK, ServerKept
    <2> QED BY <1>2, <2>2, <2>6, <2>7, <2>8 DEF IInv
<1>4. CASE LinkSends
    <2>1. /\ Send(Form, form.key, form.payload) /\ form.key \in Keys
          /\ form.payload \in Payloads /\ form.payload \in wanted'[form.key]
          /\ UNCHANGED <<row, accepted, wanted>>
          /\ form.pc = "guarded" /\ form' = [form EXCEPT !.pc = "waiting"]
        BY <1>4 DEF LinkSends, IInv, Asked, TypeOK
    <2>2. Sent(Form, form.key, form.payload)
        BY <2>1, CallFacts, CallersAssumption
    <2>3. KeysDone' /\ Locks' /\ Requests' /\ PostedOnce' /\ NeverHalfDone'
        BY <1>0, <2>1, <2>2, ClientKeepsServer, CallersAssumption
    <2>4. form'.pc = "waiting" /\ form'.key = form.key /\ form'.payload = form.payload
        BY <2>1 DEF IInv, TypeOK, FormType
    <2>5. Waits'
        BY <1>0, <2>1, <2>2, <2>4, WaitsSent, CallersAssumption
    <2>6. Asked' /\ NothingLost'
        BY <1>0, <2>1, <2>4 DEF IInv, Asked, NothingLost, ServerKept
    <2> QED BY <1>2, <2>3, <2>5, <2>6 DEF IInv
<1>5. CASE LinkQueues
    <2>1. /\ form.key \in Keys /\ form.payload \in wanted[form.key]
          /\ row' = [row EXCEPT ![form.key] =
                        [status |-> "pending", payload |-> form.payload]]
          /\ form'.pc = "idle" /\ accepted' = accepted \cup {form.key}
          /\ UNCHANGED <<calls, wanted>> /\ Dropped /\ form.pc = "guarded"
        BY <1>5 DEF LinkQueues, PutRow, FormSaved, IInv, Asked, TypeOK, FormType, server,
           Dropped
    <2>2. KeysDone' /\ Locks' /\ Requests' /\ PostedOnce' /\ NeverHalfDone'
        BY <1>0, <2>1, ClientKeepsServer
    <2>3. Asked'
        BY <2>1 DEF IInv, Asked, TypeOK
    <2>4. Waits'
        BY <1>0, <2>1 DEF IInv, Waits
    <2>5. NothingLost'
        BY <1>0, <2>1 DEF IInv, NothingLost, TypeOK, ServerKept
    <2> QED BY <1>2, <2>2, <2>3, <2>4, <2>5 DEF IInv
<1>6. ASSUME NEW c \in Calls, FormAnswer(c) PROVE IInv'
    <2>1. /\ Take(c) /\ calls[c].caller = Form /\ UNCHANGED <<row, wanted>>
          /\ form.pc = "waiting" /\ form'.pc = "idle"
          /\ accepted' = accepted \/ (calls[c].answer = "ok"
                                      /\ accepted' = accepted \cup {form.key})
        BY <1>6 DEF FormAnswer, Answered, FormSaved, FormFails, IInv, TypeOK, FormType
    <2>2. Dropped /\ \A d \in Calls : calls'[d].caller # Form
        BY <2>1, CallFacts, NoneAssumption, CallersAssumption
    <2>3. KeysDone' /\ Locks' /\ Requests' /\ PostedOnce' /\ NeverHalfDone'
        BY <1>0, <2>2, ClientKeepsServer
    <2>4. Waits'
        <3>1. {Form} \in SUBSET Callers
            BY CallersAssumption
        <3> QED BY <1>0, <2>2, <3>1, WaitsDropped
    <2>5. Asked'
        BY <2>1 DEF IInv, Asked
    <2>6. calls[c].answer = "ok" => posted[form.key] # <<>>
        <3>1. form.key \in Keys /\ calls[c].key = form.key
            BY <2>1 DEF IInv, Asked, Waits
        <3>2. calls[c].answer = "ok" => Taken(form.key)
            BY <1>6, <3>1 DEF IInv, Requests, FormAnswer, Answered, At
        <3>3. Taken(form.key) => posted[form.key] = <<idem[form.key].payload>>
            BY <3>1 DEF IInv, PostedOnce
        <3>4. <<idem[form.key].payload>> # <<>>
            OBVIOUS
        <3> QED BY <3>2, <3>3, <3>4
    <2>7. NothingLost'
        BY <1>0, <2>1, <2>6 DEF IInv, NothingLost, ServerKept
    <2> QED BY <1>2, <2>3, <2>4, <2>5, <2>7 DEF IInv
<1>7. CASE FormHangsUp
    <2>1. HangUp(Form) /\ UNCHANGED <<row, wanted, accepted>> /\ form'.pc = "idle"
        BY <1>7 DEF FormHangsUp, FormFails, IInv, TypeOK, FormType
    <2>2. Dropped /\ \A d \in Calls : calls'[d].caller # Form
        BY <2>1, CallFacts, CallersAssumption
    <2>3. KeysDone' /\ Locks' /\ Requests' /\ PostedOnce' /\ NeverHalfDone'
        BY <1>0, <2>2, ClientKeepsServer
    <2>4. Waits'
        <3>1. {Form} \in SUBSET Callers
            BY CallersAssumption
        <3> QED BY <1>0, <2>2, <3>1, WaitsDropped
    <2>5. Asked' /\ NothingLost'
        BY <1>0, <2>1 DEF IInv, Asked, NothingLost, ServerKept
    <2> QED BY <1>2, <2>3, <2>4, <2>5 DEF IInv
<1> QED BY <1>3, <1>4, <1>5, <1>6, <1>7 DEF FormStep

\* Flushes other than f, and f itself when it does not wait or mark, keep what
\* is known of them.
LEMMA FlushedStep ==
    ASSUME IInv, TypeOK', ServerKept, UNCHANGED wanted, NEW f \in Flushes,
           \A g \in Flushes \ {f} : flush'[g] = flush[g],
           flush'[f].queue \subseteq flush[f].queue
             \/ \A r \in flush'[f].queue : r.payload \in wanted[r.key],
           flush'[f].pc \in {"waiting", "marking", "pinning"} =>
             flush'[f].at \in Item /\ flush'[f].at.payload \in wanted[flush'[f].at.key],
           flush'[f].pc = "marking" /\ flush'[f].outcome = "sent" =>
             Taken(flush'[f].at.key)
    PROVE  Flushed'
<1>1. ASSUME NEW g \in Flushes \ {f}
      PROVE  /\ \A r \in flush'[g].queue : r.payload \in wanted'[r.key]
             /\ flush'[g].pc \in {"waiting", "marking", "pinning"} =>
                   /\ flush'[g].at \in Item
                   /\ flush'[g].at.payload \in wanted'[flush'[g].at.key]
             /\ flush'[g].pc = "marking" /\ flush'[g].outcome = "sent" =>
                   Taken(flush'[g].at.key)
    BY <1>1, FlushedKept
<1>2. \A r \in flush'[f].queue : r.payload \in wanted'[r.key]
    BY DEF IInv, Flushed
<1>3. \A k : Taken(k)' = Taken(k)
    BY DEF ServerKept, Taken
<1>4. Item' = Item
    BY DEF Item
<1> QED BY <1>1, <1>2, <1>3, <1>4 DEF Flushed, ServerKept, Taken

\* The states a flush moves to.
LEMMA FlushStates ==
    ASSUME IInv, NEW f \in Flushes, NEW r
    PROVE  /\ NextRow(f, r).pc = "next" /\ NextRow(f, r).queue \subseteq flush[f].queue
           /\ AfterTransient(f, r).pc = "next"
           /\ AfterTransient(f, r).queue \subseteq flush[f].queue
           /\ IdleFlush.pc = "idle" /\ IdleFlush.queue \subseteq flush[f].queue
<1>1. flush[f] \in FlushType
    BY DEF IInv, TypeOK
<1>2. NextRow(f, r).pc = "next" /\ NextRow(f, r).queue \subseteq flush[f].queue
    BY <1>1 DEF NextRow, FlushType
<1>3. /\ AfterTransient(f, r).pc = "next"
      /\ AfterTransient(f, r).queue \subseteq flush[f].queue
    BY <1>1, <1>2 DEF AfterTransient, FlushType
<1> QED BY <1>2, <1>3 DEF IdleFlush

\* A step of a flush that leaves the form and the outbox alone.
LEMMA FlushOnlyPreserves ==
    ASSUME IInv, TypeOK', Flushed', Waits', ServerKept, Dropped,
           UNCHANGED <<row, form, accepted, wanted>>
    PROVE  IInv'
<1>1. KeysDone' /\ Locks' /\ Requests' /\ PostedOnce' /\ NeverHalfDone'
    BY ClientKeepsServer
<1>2. Asked' /\ NothingLost'
    BY DEF IInv, Asked, NothingLost, ServerKept
<1> QED BY <1>1, <1>2 DEF IInv

\* The steps of a flush preserve the invariant.
LEMMA FlushPreserves ==
    ASSUME IInv, TypeOK', NEW f \in Flushes,
           \/ StartFlush(f) \/ FlushStep(f) \/ FlushHangsUp(f)
           \/ MarkFails(f) \/ TabCloses(f)
    PROVE  IInv'
<1>0. /\ TypeOK /\ flush[f] \in FlushType /\ f \in Callers /\ {f} \in SUBSET Callers
      /\ f # Form /\ f # Nobody
    BY NoneAssumption, CallersAssumption DEF IInv, TypeOK
<1>s. \A v : SetFlush(f, v) =>
          flush'[f] = v /\ \A g \in Flushes \ {f} : flush'[g] = flush[g]
    BY <1>0 DEF SetFlush, TypeOK
<1>w. ASSUME UNCHANGED <<calls, form>>, \A g \in Flushes \ {f} : flush'[g] = flush[g],
             flush[f].pc # "waiting"
      PROVE  Dropped /\ Waits'
    <2>1. \A c \in Calls : calls[c].caller # f
        BY <1>w DEF IInv, Waits
    <2>2. Dropped
        BY <1>w DEF Dropped
    <2> QED BY <1>0, <1>w, <2>1, <2>2, WaitsDropped
<1>1. CASE StartFlush(f)
    <2>1. /\ SetFlush(f, [IdleFlush EXCEPT !.pc = "next", !.queue = Listed])
          /\ UNCHANGED <<calls, row, form, accepted, wanted>> /\ ServerKept
          /\ flush[f].pc = "idle"
        BY <1>1 DEF StartFlush, server, ServerKept
    <2>2. flush'[f].pc = "next" /\ flush'[f].queue = Listed
        <3>1. flush'[f] = [IdleFlush EXCEPT !.pc = "next", !.queue = Listed]
            BY <1>s, <2>1
        <3> QED BY <3>1 DEF IdleFlush
    <2>3. \A r \in Listed : r.payload \in wanted[r.key]
        BY DEF Listed, IInv, Asked
    <2>4. Flushed'
        BY <1>s, <2>1, <2>2, <2>3, FlushedStep
    <2> QED BY <1>s, <1>w, <2>1, <2>4, FlushOnlyPreserves
<1>2. CASE EndFlush(f) \/ MarkFails(f)
    <2>1. /\ SetFlush(f, IdleFlush)
          /\ UNCHANGED <<calls, row, form, accepted, wanted>> /\ ServerKept
          /\ flush[f].pc # "waiting"
        BY <1>2 DEF EndFlush, MarkFails, server, ServerKept
    <2>2. Flushed'
        BY <1>s, <2>1, FlushedStep, FlushStates
    <2> QED BY <1>s, <1>w, <2>1, <2>2, FlushOnlyPreserves
<1>3. ASSUME NEW r \in flush[f].queue, FlushUnreachable(f, r) PROVE IInv'
    <2>1. /\ SetFlush(f, AfterTransient(f, r))
          /\ UNCHANGED <<calls, row, form, accepted, wanted>> /\ ServerKept
          /\ flush[f].pc # "waiting"
        BY <1>3 DEF FlushUnreachable, server, ServerKept
    <2>2. Flushed'
        BY <1>s, <2>1, FlushedStep, FlushStates
    <2> QED BY <1>s, <1>w, <2>1, <2>2, FlushOnlyPreserves
<1>4. ASSUME NEW r \in flush[f].queue, FlushSends(f, r) PROVE IInv'
    <2>1. /\ r \in Item /\ r.key \in Keys /\ r.payload \in Payloads
          /\ r.payload \in wanted[r.key]
        BY <1>0 DEF FlushType, Item, IInv, Flushed
    <2>2. /\ SetFlush(f, [flush[f] EXCEPT !.pc = "waiting", !.at = r])
          /\ Send(f, r.key, r.payload)
          /\ UNCHANGED <<row, form, accepted, wanted>> /\ ServerKept
          /\ flush[f].pc = "next"
        BY <1>4 DEF FlushSends, ServerKept
    <2>3. /\ flush'[f].pc = "waiting" /\ flush'[f].at = r
          /\ flush'[f].queue = flush[f].queue
        <3>1. flush'[f] = [flush[f] EXCEPT !.pc = "waiting", !.at = r]
            BY <1>s, <2>2
        <3> QED BY <1>0, <3>1 DEF FlushType
    <2>4. Sent(f, r.key, r.payload)
        BY <1>0, <2>1, <2>2, CallFacts
    <2>5. KeysDone' /\ Locks' /\ Requests' /\ PostedOnce' /\ NeverHalfDone'
        BY <1>0, <2>1, <2>2, <2>4, ClientKeepsServer
    <2>6. Waits'
        BY <1>0, <1>s, <2>1, <2>2, <2>3, <2>4, WaitsSent
    <2>7. Flushed'
        BY <1>s, <2>1, <2>2, <2>3, FlushedStep
    <2>8. Asked' /\ NothingLost'
        BY <2>2 DEF IInv, Asked, NothingLost, ServerKept
    <2> QED BY <2>5, <2>6, <2>7, <2>8 DEF IInv
<1>5. ASSUME NEW c \in Calls, FlushAnswer(f, c) PROVE IInv'
    <2>1. /\ Take(c) /\ calls[c].caller = f /\ At(c, "answered") /\ ServerKept
          /\ UNCHANGED <<row, form, accepted, wanted>> /\ flush[f].pc = "waiting"
        BY <1>5 DEF FlushAnswer, Answered, ServerKept
    <2>2. Dropped /\ \A d \in Calls : calls'[d].caller # f
        BY <1>0, <2>1, CallFacts
    <2>3. /\ flush[f].at \in Item /\ flush[f].at.payload \in wanted[flush[f].at.key]
          /\ calls[c].key = flush[f].at.key
        BY <2>1 DEF IInv, Flushed, Waits
    <2>4. calls[c].answer = "ok" => Taken(flush[f].at.key)
        BY <2>1, <2>3 DEF IInv, Requests, At
    <2>5. Flushed'
        <3>1. CASE flush'[f] = NextRow(f, flush[f].at)
                   \/ flush'[f] = AfterTransient(f, flush[f].at)
            BY <1>5, <1>s, <2>1, <3>1, FlushedStep, FlushStates DEF FlushAnswer
        <3>2. CASE flush'[f] = [flush[f] EXCEPT !.pc = "marking",
                                   !.outcome = Disposition(calls[c].answer)]
            <4>1. /\ flush'[f].queue = flush[f].queue /\ flush'[f].at = flush[f].at
                  /\ flush'[f].outcome = Disposition(calls[c].answer)
                BY <1>0, <3>2 DEF FlushType
            <4>2. Disposition(calls[c].answer) = "sent" => calls[c].answer = "ok"
                BY DEF Disposition
            <4> QED BY <1>5, <1>s, <2>1, <2>3, <2>4, <4>1, <4>2, FlushedStep
                DEF FlushAnswer
        <3> QED BY <1>5, <1>s, <3>1, <3>2 DEF FlushAnswer
    <2>6. Waits'
        BY <1>0, <1>5, <1>s, <2>1, <2>2, WaitsDropped DEF FlushAnswer
    <2> QED BY <2>1, <2>2, <2>5, <2>6, FlushOnlyPreserves
<1>6. CASE FlushHangsUp(f)
    <2>1. /\ SetFlush(f, AfterTransient(f, flush[f].at)) /\ HangUp(f)
          /\ UNCHANGED <<row, form, accepted, wanted>> /\ ServerKept
        BY <1>6 DEF FlushHangsUp, ServerKept
    <2>2. Dropped /\ \A d \in Calls : calls'[d].caller # f
        BY <1>0, <2>1, CallFacts
    <2>3. Waits'
        BY <1>0, <1>s, <2>1, <2>2, WaitsDropped
    <2>4. Flushed'
        BY <1>s, <2>1, FlushedStep, FlushStates
    <2> QED BY <2>1, <2>2, <2>3, <2>4, FlushOnlyPreserves
<1>7. CASE DeleteRow(f)
    <2>1. /\ SetFlush(f, NextRow(f, flush[f].at)) /\ flush[f].pc = "marking"
          /\ row' = [row EXCEPT ![flush[f].at.key] = NoRow] /\ flush[f].outcome = "sent"
          /\ UNCHANGED <<calls, form, accepted, wanted>> /\ ServerKept
        BY <1>7 DEF DeleteRow, server, ServerKept
    <2>2. flush[f].at.key \in Keys /\ Taken(flush[f].at.key)
        BY <2>1 DEF IInv, Flushed, Item
    <2>3. posted[flush[f].at.key] # <<>>
        <3>1. posted[flush[f].at.key] = <<idem[flush[f].at.key].payload>>
            BY <2>2 DEF IInv, PostedOnce
        <3>2. <<idem[flush[f].at.key].payload>> # <<>>
            OBVIOUS
        <3> QED BY <3>1, <3>2
    <2>4. Dropped /\ Waits'
        BY <1>s, <1>w, <2>1
    <2>5. KeysDone' /\ Locks' /\ Requests' /\ PostedOnce' /\ NeverHalfDone'
        BY <2>1, <2>4, ClientKeepsServer
    <2>6. Flushed'
        BY <1>s, <2>1, FlushedStep, FlushStates
    <2>7. Asked'
        BY <1>0, <2>1, <2>2 DEF IInv, Asked, TypeOK, NoRow
    <2>8. NothingLost'
        BY <1>0, <2>1, <2>2, <2>3 DEF IInv, NothingLost, TypeOK, ServerKept
    <2> QED BY <2>4, <2>5, <2>6, <2>7, <2>8 DEF IInv
<1>8. CASE ReadRow(f)
    <2>1. /\ flush[f].pc = "marking"
          /\ UNCHANGED <<calls, row, form, accepted, wanted>> /\ ServerKept
        BY <1>8 DEF ReadRow, server, ServerKept
    <2>2. flush[f].at \in Item /\ flush[f].at.key \in Keys
        BY <2>1 DEF IInv, Flushed, Item
    <2>3. CASE SetFlush(f, NextRow(f, flush[f].at))
        <3>1. Flushed'
            BY <1>s, <2>1, <2>3, FlushedStep, FlushStates
        <3> QED BY <1>s, <1>w, <2>1, <2>3, <3>1, FlushOnlyPreserves
    <2>4. CASE /\ SetFlush(f, [flush[f] EXCEPT !.pc = "pinning",
                              !.at.payload = row[flush[f].at.key].payload])
               /\ row[flush[f].at.key].status # "none"
        <3>1. /\ flush'[f].pc = "pinning" /\ flush'[f].queue = flush[f].queue
              /\ flush'[f].at = [flush[f].at EXCEPT !.payload =
                                    row[flush[f].at.key].payload]
            <4>1. flush'[f] = [flush[f] EXCEPT !.pc = "pinning",
                                  !.at.payload = row[flush[f].at.key].payload]
                BY <1>s, <2>4
            <4> QED BY <1>0, <4>1 DEF FlushType
        <3>2. /\ flush'[f].at.key = flush[f].at.key
              /\ flush'[f].at.payload = row[flush[f].at.key].payload
            BY <2>2, <3>1 DEF Item
        <3>3. row[flush[f].at.key].payload \in wanted[flush[f].at.key]
            BY <2>2, <2>4 DEF IInv, Asked
        <3>4. flush'[f].at \in Item
            BY <1>0, <2>2, <3>1, <3>3 DEF Item, TypeOK
        <3>5. Flushed'
            BY <1>s, <2>1, <2>4, <3>1, <3>2, <3>3, <3>4, FlushedStep
        <3> QED BY <1>s, <1>w, <2>1, <2>4, <3>5, FlushOnlyPreserves
    <2> QED BY <1>8, <2>3, <2>4 DEF ReadRow
<1>9. CASE PinRow(f)
    <2>1. /\ SetFlush(f, NextRow(f, flush[f].at)) /\ flush[f].pc = "pinning"
          /\ row' = [row EXCEPT ![flush[f].at.key] =
                        [status |-> "failed", payload |-> flush[f].at.payload]]
          /\ UNCHANGED <<calls, form, accepted, wanted>> /\ ServerKept
        BY <1>9 DEF PinRow, server, ServerKept
    <2>2. /\ flush[f].at.key \in Keys
          /\ flush[f].at.payload \in wanted[flush[f].at.key]
        BY <2>1 DEF IInv, Flushed, Item
    <2>4. Dropped /\ Waits'
        BY <1>s, <1>w, <2>1
    <2>5. KeysDone' /\ Locks' /\ Requests' /\ PostedOnce' /\ NeverHalfDone'
        BY <2>1, <2>4, ClientKeepsServer
    <2>6. Flushed'
        BY <1>s, <2>1, FlushedStep, FlushStates
    <2>7. Asked'
        BY <1>0, <2>1, <2>2 DEF IInv, Asked, TypeOK
    <2>8. NothingLost'
        BY <1>0, <2>1, <2>2 DEF IInv, NothingLost, TypeOK, ServerKept
    <2> QED BY <2>4, <2>5, <2>6, <2>7, <2>8 DEF IInv
<1>10. CASE TabCloses(f)
    <2>1. /\ SetFlush(f, IdleFlush) /\ ServerKept
          /\ UNCHANGED <<row, accepted, wanted>>
          /\ form' = form \/ (f = FormTab /\ form'.pc = "idle")
        BY <1>10 DEF TabCloses, FormFails, ServerKept, IInv, TypeOK, FormType
    <2>2. /\ Dropped
          /\ \A d \in Calls : calls'[d].caller # f
                               /\ (f = FormTab => calls'[d].caller # Form)
        <3> SUFFICES ASSUME NEW d \in Calls
                     PROVE  /\ \/ calls'[d] = calls[d]
                               \/ calls'[d] = NoCall
                               \/ calls'[d] = [calls[d] EXCEPT !.caller = Nobody]
                            /\ calls'[d].caller # f
                            /\ f = FormTab => calls'[d].caller # Form
            BY DEF Dropped
        <3>1. Nobody # f /\ Nobody # Form
            BY <1>0, NoneAssumption, CallersAssumption
        <3>2. NoCall.caller = Nobody /\ [calls[d] EXCEPT !.caller = Nobody].caller = Nobody
            BY <1>0 DEF NoCall, TypeOK, ServerTypeOK, CallType
        <3>3. CASE calls[d].caller = f \/ (f = FormTab /\ calls[d].caller = Form)
            <4>1. calls'[d] \in {NoCall, [calls[d] EXCEPT !.caller = Nobody]}
                BY <1>10, <3>3 DEF TabCloses
            <4> QED BY <3>1, <3>2, <4>1
        <3>4. CASE ~(calls[d].caller = f \/ (f = FormTab /\ calls[d].caller = Form))
            <4>1. calls'[d] = calls[d]
                BY <1>10, <3>4 DEF TabCloses
            <4> QED BY <3>4, <4>1
        <3> QED BY <3>3, <3>4
    <2>3. Waits'
        <3>1. CASE form' = form
            BY <1>0, <1>s, <2>1, <2>2, <3>1, WaitsDropped
        <3>2. CASE f = FormTab
            <4>1. {f, Form} \in SUBSET Callers
                BY <1>0, CallersAssumption
            <4> QED BY <1>s, <2>1, <2>2, <3>2, <4>1, WaitsDropped
        <3> QED BY <2>1, <3>1, <3>2
    <2>4. Flushed'
        BY <1>s, <2>1, FlushedStep, FlushStates
    <2>5. KeysDone' /\ Locks' /\ Requests' /\ PostedOnce' /\ NeverHalfDone'
        BY <2>1, <2>2, ClientKeepsServer
    <2>6. Asked' /\ NothingLost'
        BY <2>1 DEF IInv, Asked, NothingLost, ServerKept
    <2> QED BY <2>3, <2>4, <2>5, <2>6 DEF IInv
<1> QED BY <1>1, <1>2, <1>3, <1>4, <1>5, <1>6, <1>7, <1>8, <1>9, <1>10 DEF FlushStep
-----------------------------------------------------------------------------
(* The theorems *)

\* The initial state satisfies the invariant.
LEMMA Initially == Init => IInv
<1> SUFFICES ASSUME Init PROVE IInv
    OBVIOUS
<1> USE NoneAssumption, FaultAssumption DEF Init, ServerInit
<1>1. NoCall \in CallType /\ IdleFlush \in FlushType
    BY RetriesAssumption DEF NoCall, CallType, Pcs, Answers, IdleFlush, FlushType
<1>2. TypeOK
    <2>1. idem \in [Keys -> [payload : Payloads \cup {NoPayload}, done : BOOLEAN]]
        BY DEF NoKey
    <2>2. row \in [Keys -> [status : Statuses, payload : Payloads \cup {NoPayload}]]
        BY DEF NoRow, Statuses
    <2>3. /\ posted \in [Keys -> Seq(Payloads)] /\ wanted \in [Keys -> SUBSET Payloads]
          /\ calls \in [Calls -> CallType] /\ flush \in [Flushes -> FlushType]
        BY <1>1
    <2>4. form \in FormType
        BY KeysAssumption DEF FormType
    <2>5. /\ archived \in BOOLEAN /\ departed \subseteq Payloads
          /\ faults \in 0 .. MaxFaults
          /\ online \in BOOLEAN /\ accepted \subseteq Keys
        <3>1. archived \in BOOLEAN /\ online \in BOOLEAN
            BY Zenon
        <3>2. departed \subseteq Payloads /\ accepted \subseteq Keys
            BY Zenon
        <3>3. faults \in 0 .. MaxFaults
            BY FaultAssumption, SMT
        <3> QED BY <3>1, <3>2, <3>3
    <2>6. ServerTypeOK
        BY ONLY <2>1, <2>3, <2>5 DEF ServerTypeOK
    <2> QED BY ONLY <2>2, <2>3, <2>4, <2>5, <2>6 DEF TypeOK
<1>3. KeysDone /\ PostedOnce
    BY DEF KeysDone, PostedOnce, Taken
<1>4. Locks /\ Requests /\ Waits /\ NeverHalfDone
    <2>1. \A c \in Calls : /\ calls[c].pc = "free" /\ calls[c].caller = Nobody
                           /\ calls[c].answer = "none"
        BY DEF NoCall
    <2> QED BY <2>1, CallersAssumption DEF Locks, Requests, Waits, NeverHalfDone, At
<1>5. Asked /\ Flushed /\ NothingLost
    BY DEF Asked, Flushed, NothingLost, NoRow, IdleFlush
<1> QED BY <1>2, <1>3, <1>4, <1>5 DEF IInv

\* Other members and the network.
LEMMA OthersPreserve ==
    ASSUME IInv, TypeOK',
           \/ (\E b \in BOOLEAN : Archive(b)) /\ UNCHANGED client
           \/ (\E p \in Payloads : Depart(p)) /\ UNCHANGED client
           \/ GoOnline \/ GoOffline \/ UNCHANGED vars
    PROVE  IInv'
<1>1. UNCHANGED <<idem, posted, calls, row, form, flush, accepted, wanted>>
    BY DEF Archive, Depart, GoOnline, GoOffline, client, server, vars
<1>2. /\ \A k : Taken(k)' = Taken(k)
      /\ \A c, pc : At(c, pc)' = At(c, pc)
    BY <1>1 DEF Taken, At
<1>3. KeysDone' /\ Locks' /\ Requests' /\ PostedOnce' /\ NeverHalfDone' /\ Waits'
    BY <1>1, <1>2 DEF IInv, KeysDone, Locks, Requests, PostedOnce, NeverHalfDone, Waits,
       Taken
<1>4. Asked' /\ Flushed' /\ NothingLost'
    BY <1>1, <1>2 DEF IInv, Asked, Flushed, NothingLost, Item, Taken
<1> QED BY <1>3, <1>4 DEF IInv

\* The invariant is inductive.
LEMMA Inductive == IInv /\ [Next]_vars => IInv'
<1> SUFFICES ASSUME IInv, [Next]_vars PROVE IInv'
    OBVIOUS
<1>0. TypeOK'
    BY Typing
<1>1. ASSUME NEW c \in Calls, ServerStep(c) \/ (Break(c) /\ UNCHANGED client)
      PROVE  IInv'
    <2>1. CASE ~Execute(c)
        BY <1>0, <1>1, <2>1, ServePreserves
    <2>2. CASE Execute(c)
        <3>1. ServerStep(c)
            BY <1>1, <2>2 DEF Execute, Break, PrepareFails, Abort, ServerDies, Fault, At,
               Serve, ServerStep
        <3> QED BY <1>0, <2>2, <3>1, ExecutePreserves
    <2> QED BY <2>1, <2>2
<1>2. ASSUME NEW f \in Flushes,
             \/ StartFlush(f) \/ FlushStep(f) \/ FlushHangsUp(f)
             \/ MarkFails(f) \/ TabCloses(f)
      PROVE  IInv'
    BY <1>0, <1>2, FlushPreserves
<1>3. CASE (\E p \in Payloads : Submit(p)) \/ FormStep \/ FormHangsUp
    BY <1>0, <1>3, FormPreserves
<1>4. CASE \/ (\E b \in BOOLEAN : Archive(b)) /\ UNCHANGED client
           \/ (\E p \in Payloads : Depart(p)) /\ UNCHANGED client
           \/ GoOnline \/ GoOffline \/ UNCHANGED vars
    BY <1>0, <1>4, OthersPreserve
<1> QED BY <1>1, <1>2, <1>3, <1>4 DEF Next

\* The inductive invariant holds in every reachable state.
THEOREM Invariance == Spec => []IInv
BY Initially, Inductive, PTL DEF Spec

\* The table, the outbox, the form and the flushes stay well typed.
THEOREM TypeCorrect == Spec => []TypeOK
<1>1. IInv => TypeOK
    BY DEF IInv
<1> QED BY <1>1, Invariance, PTL

\* One request id puts at most one expense in the ledger, the one its stored
\* result is for, whatever retries, flushes in several tabs and lost answers do.
THEOREM PostsOnce == Spec => []PostedOnce
<1>1. IInv => PostedOnce
    BY DEF IInv
<1> QED BY <1>1, Invariance, PTL

\* A create the form reported saved is in the ledger or still in the outbox.
THEOREM LosesNothing == Spec => []NothingLost
<1>1. IInv => NothingLost
    BY DEF IInv
<1> QED BY <1>1, Invariance, PTL

\* The answer that a create is still being processed is never given.
THEOREM NeverProcessing == Spec => []NeverHalfDone
<1>1. IInv => NeverHalfDone
    BY DEF IInv
<1> QED BY <1>1, Invariance, PTL

\* What a step does to the ledger and to what was asked for.
LEMMA StepsPostOnce == IInv /\ [Next]_vars => [Once!AbsNext]_(Once!avars)
<1> SUFFICES ASSUME IInv, [Next]_vars, ~UNCHANGED Once!avars PROVE Once!AbsNext
    OBVIOUS
<1>0. TypeOK /\ ~UNCHANGED <<wanted, posted>>
    BY DEF IInv, Once!avars
<1>1. ASSUME NEW c \in Calls, ServerStep(c) \/ (Break(c) /\ UNCHANGED client)
      PROVE  Once!AbsNext
    <2>1. UNCHANGED wanted /\ ~UNCHANGED posted
        BY <1>0, <1>1 DEF ServerStep, client
    <2>2. Execute(c)
        BY <1>1, <2>1 DEF ServerStep, Serve, Break, Authorize, Find, Prepare, Begin, Reread,
           PrepareFails, Abort, ServerDies
    <2> DEFINE k == calls[c].key  p == calls[c].payload
    <2>3. /\ k \in Keys /\ p \in Payloads /\ p \in wanted[k] /\ posted[k] = <<>>
        <3>1. At(c, "open") /\ ~Taken(k) /\ k \in Keys /\ p \in wanted[k]
            BY <2>2 DEF IInv, Execute, Requests, Locks, At
        <3>2. p \in Payloads
            BY <1>0, <3>1 DEF TypeOK
        <3>3. posted[k] = <<>>
            BY <3>1 DEF IInv, PostedOnce
        <3> QED BY <3>1, <3>2, <3>3
    <2>4. posted' = [posted EXCEPT ![k] = Append(@, p)]
        BY <2>1, <2>2 DEF Execute
    <2>5. Append(<<>>, p) = <<p>>
        OBVIOUS
    <2>6. posted' = [posted EXCEPT ![k] = <<p>>]
        BY <1>0, <2>3, <2>4, <2>5 DEF TypeOK, ServerTypeOK
    <2>7. Once!Make(k, p)
        BY <2>1, <2>3, <2>6 DEF Once!Make
    <2> QED BY <2>3, <2>7 DEF Once!AbsNext
<1>2. ASSUME NEW p \in Payloads, Submit(p) PROVE Once!AbsNext
    <2>1. /\ form.key \in Keys /\ UNCHANGED posted
          /\ wanted' = [wanted EXCEPT ![form.key] = @ \cup {p}]
        BY <1>0, <1>2, KeysAssumption DEF Submit, server, TypeOK, FormType, Keys
    <2>2. Once!Want(form.key, p)
        BY <2>1 DEF Once!Want
    <2> QED BY <2>1, <2>2 DEF Once!AbsNext
<1>3. CASE \/ (\E b \in BOOLEAN : Archive(b)) /\ UNCHANGED client
           \/ (\E p \in Payloads : Depart(p)) /\ UNCHANGED client
           \/ GoOnline \/ GoOffline \/ FormStep \/ FormHangsUp \/ UNCHANGED vars
    BY <1>0, <1>3 DEF Archive, Depart, GoOnline, GoOffline, FormStep, FormHangsUp, LinkSends,
       LinkQueues, FormAnswer, client, server, vars
<1>4. ASSUME NEW f \in Flushes,
             \/ StartFlush(f) \/ FlushStep(f) \/ FlushHangsUp(f)
             \/ MarkFails(f) \/ TabCloses(f)
      PROVE  Once!AbsNext
    BY <1>0, <1>4 DEF StartFlush, FlushStep, FlushHangsUp, MarkFails, TabCloses, EndFlush,
       FlushSends, FlushUnreachable, FlushAnswer, DeleteRow, ReadRow, PinRow, server
<1> QED BY <1>1, <1>2, <1>3, <1>4 DEF Next

\* The form, the outbox, the flushes and the server together implement posting,
\* once, one of the contents the member asked for.
THEOREM Implements == Spec => PostsOnceAbstract
<1>1. Init => Once!AbsInit
    BY DEF Init, ServerInit, Once!AbsInit
<1> QED BY <1>1, StepsPostOnce, Invariance, PTL DEF Spec, PostsOnceAbstract, Once!AbsSpec
=============================================================================
