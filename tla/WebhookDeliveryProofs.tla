----------------------- MODULE WebhookDeliveryProofs -----------------------
(***************************************************************************)
(* Proofs about WebhookDelivery, for any workers, retry limit and bounds.  *)
(***************************************************************************)
EXTENDS WebhookDelivery, FiniteSetTheorems, TLAPS

\* Where a worker's handler is.
At(w) == IF runs[w] = NoRun THEN "none" ELSE runs[w].pc

\* How many handlers are at one of these places.
Count(P) == Cardinality({w \in Workers : At(w) \in P})

\* A handler in these places may still change the row, or have it send once more.
Live == {"start", "cancel", "claim", "claimed", "sending", "accepted", "permanent",
         "refused", "caught", "failed"}

\* A message may still be accepted for it, or two verdicts be passed.
Due == {"claimed", "sending", "refused"}

Heard == Count({"accepted"}) > 0

\* Messages the endpoint may still accept before OncePerRequest is violated.
Balance == requests + unsure + crossings - accepted

\* What a row may still call for, whoever passes the next verdict: a message for each
\* due handler, and one for the row itself when it waits or says that it failed, or
\* is in flight and no handler is left that could stand for it.
Owed ==
    Count(Due) + (IF \/ status \in Failed \cup {"PENDING"}
                     \/ status = "PROCESSING" /\ ~Heard /\ Count(Due) = 0
                  THEN 1 ELSE 0)

\* Every live handler but one came by a crossing, and may pass a verdict on a claim
\* that is not its own.
Spare == IF Count(Live) = 0 THEN 0 ELSE Count(Live) - 1

Covered == Balance >= Owed + Spare

\* Unless handlers cross, at most one runs.
LoneRun == crossings = 0 =>
    \A v, w \in Workers : At(v) # "none" /\ At(w) # "none" => v = w

\* Unless handlers cross, the message to be recorded, or recorded, was accepted
\* after the last resend.
Answered ==
    /\ before <= accepted
    /\ crossings = 0
       /\ (status = "SENT" \/ (status = "PROCESSING" /\ \E w \in Workers : At(w) = "accepted"))
       => accepted > before

Facts == LoneRun /\ Covered /\ Answered

IInv == TypeOK /\ Facts
------------------------------------------------------------------------------
(* Typing *)

Job == [st : {"queued", "active", "delayed"}, tries : 0..RetryLimit] \cup {NoJob}

\* A failed or expired job stays within its retry limit; a sent one starts at zero.
LEMMA JobTypes ==
    ASSUME TypeOK
    PROVE  /\ job # NoJob => AfterFailure \in Job
           /\ Send(job) \in Job
<1>1. RetryLimit \in Nat
    BY ConstantsAssumption
<1> QED BY <1>1 DEF TypeOK, Job, AfterFailure, Retries, Send, Queued

\* A run that moves on stays a run.
LEMMA GotoTypes ==
    ASSUME TypeOK, NEW w \in Workers, runs[w] # NoRun,
           NEW pc \in {"start", "cancel", "claim", "claimed", "sending", "accepted",
                       "permanent", "refused", "caught", "failed", "done", "threw"},
           Goto(w, pc)
    PROVE  runs' \in [Workers -> Run \cup {NoRun}]
<1>1. runs[w] \in Run
    BY DEF TypeOK
<1>2. [runs[w] EXCEPT !.pc = pc] \in Run
    BY <1>1 DEF Run
<1>3. runs' = [runs EXCEPT ![w] = [runs[w] EXCEPT !.pc = pc]]
    BY DEF Goto
<1> QED BY <1>2, <1>3 DEF TypeOK

\* Runs that lose their job stay runs.
LEMMA OwningTypes ==
    ASSUME TypeOK, NEW j
    PROVE  Owning(j) \in [Workers -> Run \cup {NoRun}]
<1>1. ASSUME NEW v \in Workers, runs[v] # NoRun
      PROVE  [runs[v] EXCEPT !.owns = FALSE] \in Run
    BY <1>1 DEF TypeOK, Run
<1> QED BY <1>1 DEF TypeOK, Owning

\* The end of a run, with its job completed or failed.
LEMMA EndTypes ==
    ASSUME TypeOK, NEW w \in Workers, NEW after, End(w, after),
           Holds(w) => after \in Job
    PROVE  job' \in Job /\ runs' \in [Workers -> Run \cup {NoRun}]
<1>1. Owning(job') \in [Workers -> Run \cup {NoRun}]
    BY OwningTypes
<1> QED BY <1>1 DEF TypeOK, End, Job

\* A verdict leaves a well-typed row.
LEMMA VerdictTypes ==
    ASSUME TypeOK, NEW st \in Pending \cup Settled, Verdict(st)
    PROVE  status' \in Pending \cup Settled \cup {"GONE"}
BY DEF TypeOK, Verdict

\* The type invariant is inductive by itself.
LEMMA Typing == TypeOK /\ [Next]_vars => TypeOK'
<1> SUFFICES ASSUME TypeOK, [Next]_vars PROVE TypeOK'
    OBVIOUS
<1> USE DEF TypeOK, rowVars, endpointVars, queueVars, requestVars, ownerVars,
            histVars, faultVars
<1>1. ASSUME NEW w \in Workers, Start(w) PROVE TypeOK'
    <2>1. [pc |-> "start", seen |-> 0, last |-> ~Retries,
           owns |-> TRUE] \in Run
        BY DEF Run, Retries
    <2>2. crossings' \in Nat
        BY <1>1 DEF Start, Running
    <2>3. runs' \in [Workers -> Run \cup {NoRun}]
        BY <1>1, <2>1 DEF Start
    <2>4. job' \in Job
        BY <1>1 DEF Start, Job
    <2> QED BY <1>1, <2>2, <2>3, <2>4 DEF Start, Job
<1>2. ASSUME NEW w \in Workers, Read(w) PROVE TypeOK'
    <2>1. runs[w] \in Run
        BY <1>2 DEF Read, In
    <2> DEFINE r == [runs[w] EXCEPT !.pc = "claim", !.seen = attempts]
    <2>2. r \in Run
        BY <2>1 DEF Run
    <2>3. CASE runs' = [runs EXCEPT ![w] = r]
        <3> HIDE DEF r
        <3> QED BY <1>2, <2>2, <2>3 DEF Read
    <2>4. CASE Goto(w, "done") \/ Goto(w, "cancel")
        BY <1>2, <2>4, GotoTypes DEF Read, In
    <2> QED BY <1>2, <2>3, <2>4 DEF Read
<1>3. ASSUME NEW w \in Workers, Claim(w) PROVE TypeOK'
    <2>1. runs' \in [Workers -> Run \cup {NoRun}]
        BY <1>3, GotoTypes DEF Claim, In
    <2>2. status' \in Pending /\ attempts' \in Nat
        BY <1>3 DEF Claim, Pending
    <2> QED BY <1>3, <2>1, <2>2 DEF Claim
<1>4. ASSUME NEW w \in Workers,
             CancelUnfit(w) \/ Refuse(w) \/ OpenAttempt(w) \/ Accept(w) \/ Decline(w)
             \/ LoseReply(w) \/ Reread(w) \/ CallFails(w)
      PROVE  TypeOK'
    <2>1. PICK pc \in {"sending", "accepted", "permanent", "refused", "caught",
                       "failed", "done", "threw"} : Goto(w, pc)
        BY <1>4 DEF CancelUnfit, Refuse, OpenAttempt, Accept, Decline, LoseReply,
                    Reread, CallFails
    <2>2. runs[w] # NoRun
        BY <1>4 DEF CancelUnfit, Refuse, OpenAttempt, Accept, Decline, LoseReply,
                    Reread, CallFails, In
    <2>3. runs' \in [Workers -> Run \cup {NoRun}]
        BY <2>1, <2>2, GotoTypes
    <2>4. status' \in Pending \cup Settled \cup {"GONE"}
        BY <1>4 DEF CancelUnfit, Refuse, OpenAttempt, Accept, Decline, LoseReply,
                    Reread, CallFails, Settled
    <2>5. attempted' \subseteq Nat
        <3>1. CASE OpenAttempt(w)
            <4>1. runs[w].seen + 1 \in Nat
                BY <2>2 DEF Run
            <4> QED BY <3>1, <4>1 DEF OpenAttempt
        <3> QED BY <1>4, <3>1 DEF CancelUnfit, Refuse, Accept, Decline, LoseReply,
                                  Reread, CallFails
    <2>6. accepted' \in Nat /\ unsure' \in Nat /\ faults' \in Nat
        BY <1>4 DEF CancelUnfit, Refuse, OpenAttempt, Accept, Decline, LoseReply,
                    Reread, CallFails, Fault
    <2> QED
        BY <1>4, <2>3, <2>4, <2>5, <2>6
        DEF CancelUnfit, Refuse, OpenAttempt, Accept, Decline, LoseReply, Reread,
            CallFails
<1>5. ASSUME NEW w \in Workers,
             MarkSent(w) \/ MarkSentFails(w) \/ RecordPermanent(w) \/ RecordRefused(w)
             \/ RecordFailed(w) \/ HealthFails(w)
      PROVE  TypeOK'
    <2>1. PICK pc \in {"caught", "done", "threw"} : Goto(w, pc)
        BY <1>5 DEF MarkSent, MarkSentFails, RecordPermanent, RecordRefused,
                    RecordFailed, HealthFails
    <2>2. runs[w] # NoRun
        BY <1>5 DEF MarkSent, MarkSentFails, RecordPermanent, RecordRefused,
                    RecordFailed, HealthFails, In
    <2>3. runs' \in [Workers -> Run \cup {NoRun}]
        BY <2>1, <2>2, GotoTypes
    <2>4. \/ UNCHANGED rowVars
          \/ \E st \in Pending \cup Settled : Verdict(st)
        BY <1>5 DEF MarkSent, MarkSentFails, RecordPermanent, RecordRefused,
                    RecordFailed, HealthFails, Exhaustible, Pending, Settled, Failed
    <2>5. /\ status' \in Pending \cup Settled \cup {"GONE"}
          /\ attempts' \in Nat /\ attempted' \subseteq Nat /\ aged' \in BOOLEAN
        BY <2>4, VerdictTypes DEF Verdict
    <2>6. unsure' \in Nat /\ accepted' \in Nat /\ faults' \in Nat
        BY <1>5 DEF MarkSent, MarkSentFails, RecordPermanent, RecordRefused,
                    RecordFailed, HealthFails, Fault
    <2> QED
        BY <1>5, <2>3, <2>5, <2>6
        DEF MarkSent, MarkSentFails, RecordPermanent, RecordRefused, RecordFailed,
            HealthFails
<1>6. ASSUME NEW w \in Workers, Acknowledge(w) \/ FailJob(w) PROVE TypeOK'
    <2>1. Holds(w) => AfterFailure \in Job
        BY JobTypes DEF Holds
    <2>2. NoJob \in Job
        BY DEF Job
    <2>3. job' \in Job /\ runs' \in [Workers -> Run \cup {NoRun}]
        BY <1>6, <2>1, <2>2, EndTypes DEF Acknowledge, FailJob
    <2> QED BY <1>6, <2>3 DEF Acknowledge, FailJob, End, Job
<1>7. ASSUME NEW w \in Workers, Crash(w) PROVE TypeOK'
    BY <1>7 DEF Crash, Fault
<1>8. ASSUME NEW w \in Workers, Shutdown(w) PROVE TypeOK'
    <2>1. job' \in Job
        BY <1>8, JobTypes DEF Shutdown, Holds
    <2>2. runs' \in [Workers -> Run \cup {NoRun}]
        BY <1>8, OwningTypes DEF Shutdown
    <2> QED BY <1>8, <2>1, <2>2 DEF Shutdown, Fault, Job
<1>9. ASSUME Elapse PROVE faults' \in Nat /\ stalled' \in BOOLEAN /\ crossings' \in Nat
    <2>1. CASE Running
        BY <1>9, <2>1 DEF Elapse, Fault
    <2>2. CASE ~Running
        BY <1>9, <2>2 DEF Elapse
    <2> QED BY <2>1, <2>2
<1>10. CASE Expire \/ Wake
    <2>1. job' \in Job
        BY <1>10, JobTypes DEF Expire, Wake, Job
    <2>2. runs' \in [Workers -> Run \cup {NoRun}]
        BY <1>10, OwningTypes DEF Expire, Wake
    <2> QED BY <1>9, <1>10, <2>1, <2>2 DEF Expire, Wake, Job
<1>11. CASE Age \/ Cleanup
    BY <1>9, <1>11 DEF Age, Cleanup, Remove
<1>12. CASE ScanStale \/ ScanPending
    BY <1>12 DEF ScanStale, ScanPending
<1>13. CASE Recover
    <2>1. status' \in Pending \cup Settled \cup {"GONE"}
        BY <1>13 DEF Recover, Pending
    <2>2. crossings' \in Nat
        BY <1>13 DEF Recover, Running
    <2> QED BY <1>13, <2>1, <2>2 DEF Recover
<1>14. CASE SendPending
    <2>1. job' \in Job
        BY <1>14, JobTypes DEF SendPending
    <2> QED BY <1>14, <2>1 DEF SendPending, Job
<1>15. CASE Owner
    <2>1. ops' \in Nat
        BY <1>15 DEF Owner, Disable, Enable, FilterRead, FilterCancel, Entitle,
                     AskRedeliver, Redeliver, Delete, Operate
    <2>2. CASE Redeliver
        <3>1. CASE status \in Settled
            <4>1. job' \in Job
                BY <2>2, <3>1, JobTypes DEF Redeliver
            <4>2. status' \in Pending
                BY <2>2, <3>1 DEF Redeliver, Pending
            <4>3. requests' = requests + 1 /\ before' = accepted
                BY <2>2, <3>1, Zenon DEF Redeliver
            <4>4. asking' \in BOOLEAN
                BY <2>2, Zenon DEF Redeliver
            <4>5. requests' \in Nat /\ before' \in Nat
                BY <4>3
            <4>6. UNCHANGED <<attempts, attempted, aged, enabled, entitled, cron, runs,
                              filtering, accepted, unsure, faults, stalled,
                              crossings>>
                BY <2>2 DEF Redeliver
            <4> QED BY <2>1, <4>1, <4>2, <4>4, <4>5, <4>6 DEF Job
        <3>2. CASE status \notin Settled
            BY <2>1, <2>2, <3>2 DEF Redeliver
        <3> QED BY <3>1, <3>2
    <2>3. CASE Disable \/ FilterCancel \/ Delete
        <3>1. status' \in Pending \cup Settled \cup {"GONE"}
            BY <2>3 DEF Disable, FilterCancel, Delete, CancelPending, Remove, Settled
        <3>2. UNCHANGED <<attempts, attempted, aged, entitled, queueVars, runs, asking,
                          requestVars, histVars, faultVars>>
            BY <2>3 DEF Disable, FilterCancel, Delete, CancelPending, Remove
        <3>3. enabled' \in BOOLEAN /\ filtering' \in BOOLEAN
            BY <2>3 DEF Disable, FilterCancel, Delete
        <3> QED BY <2>1, <3>1, <3>2, <3>3
    <2>4. CASE Enable \/ FilterRead \/ Entitle \/ AskRedeliver
        <3>1. UNCHANGED <<rowVars, queueVars, runs, requestVars, histVars, faultVars>>
            BY <2>4 DEF Enable, FilterRead, Entitle, AskRedeliver
        <3>2. /\ enabled' \in BOOLEAN /\ entitled' \in BOOLEAN
              /\ filtering' \in BOOLEAN /\ asking' \in BOOLEAN
            BY <2>4 DEF Enable, FilterRead, Entitle, AskRedeliver
        <3> QED BY <2>1, <3>1, <3>2
    <2> QED BY <1>15, <2>2, <2>3, <2>4 DEF Owner
<1>16. CASE UNCHANGED vars
    BY <1>16 DEF vars
<1> QED
    BY <1>1, <1>2, <1>3, <1>4, <1>5, <1>6, <1>7, <1>8, <1>10, <1>11, <1>12, <1>13,
       <1>14, <1>15, <1>16
    DEF Next, Handler, Mishap, Cron
------------------------------------------------------------------------------
(* Where handlers are *)

\* Only w's handler moves, or ends.
Moves(w, to) == /\ At(w)' = to
                /\ \A v \in Workers : v # w => At(v)' = At(v)

Still == \A v \in Workers : At(v)' = At(v)

\* A step of the handler.
LEMMA GotoMoves ==
    ASSUME TypeOK, NEW w \in Workers, At(w) # "none",
           NEW pc \in {"start", "cancel", "claim", "claimed", "sending", "accepted",
                       "permanent", "refused", "caught", "failed", "done", "threw"},
           Goto(w, pc)
    PROVE  Moves(w, pc)
<1>1. runs[w] \in Run
    BY DEF At, TypeOK
<1>2. [runs[w] EXCEPT !.pc = pc] \in Run
    BY <1>1 DEF Run
<1>3. runs' = [runs EXCEPT ![w] = [runs[w] EXCEPT !.pc = pc]]
    BY DEF Goto
<1>4. runs'[w].pc = pc /\ runs'[w] # NoRun
    BY <1>1, <1>2, <1>3, ConstantsAssumption DEF TypeOK, Run
<1>5. \A v \in Workers : v # w => runs'[v] = runs[v]
    BY <1>3 DEF TypeOK
<1> QED BY <1>4, <1>5 DEF Moves, At

\* The first read moves the handler and notes the attempt it has seen.
LEMMA ReadMoves ==
    ASSUME TypeOK, NEW w \in Workers, Read(w)
    PROVE  Moves(w, "done") \/ Moves(w, "cancel") \/ Moves(w, "claim")
<1>1. runs[w] \in Run /\ At(w) # "none"
    BY DEF Read, In, TypeOK, At, Run
<1> DEFINE r == [runs[w] EXCEPT !.pc = "claim", !.seen = attempts]
<1>2. r \in Run /\ r.pc = "claim"
    BY <1>1 DEF Run, TypeOK
<1>3. CASE runs' = [runs EXCEPT ![w] = r]
    <2> HIDE DEF r
    <2>1. runs'[w] = r /\ \A v \in Workers : v # w => runs'[v] = runs[v]
        BY <1>3 DEF TypeOK
    <2> QED BY <1>2, <2>1, ConstantsAssumption DEF Moves, At
<1>4. CASE Goto(w, "done") \/ Goto(w, "cancel")
    BY <1>1, <1>4, GotoMoves
<1> QED BY <1>3, <1>4 DEF Read

\* Losing a job moves no handler.
LEMMA OwningIsStill ==
    ASSUME TypeOK, NEW j, NEW v \in Workers
    PROVE  (IF Owning(j)[v] = NoRun THEN "none" ELSE Owning(j)[v].pc) = At(v)
<1>1. CASE runs[v] # NoRun /\ j = NoJob
    <2>1. runs[v] \in Run
        BY <1>1 DEF TypeOK
    <2>2. [runs[v] EXCEPT !.owns = FALSE] \in Run
          /\ [runs[v] EXCEPT !.owns = FALSE].pc = runs[v].pc
        BY <2>1 DEF Run
    <2>3. Owning(j)[v] = [runs[v] EXCEPT !.owns = FALSE]
        BY <1>1 DEF Owning
    <2> QED BY <1>1, <2>2, <2>3, ConstantsAssumption DEF At
<1>2. CASE ~(runs[v] # NoRun /\ j = NoJob)
    <2>1. Owning(j)[v] = runs[v]
        BY <1>2 DEF Owning
    <2> QED BY <2>1 DEF At
<1> QED BY <1>1, <1>2

\* A handler that ends.
LEMMA EndMoves ==
    ASSUME TypeOK, NEW w \in Workers, NEW after, End(w, after)
    PROVE  Moves(w, "none")
<1>1. runs' = [Owning(job') EXCEPT ![w] = NoRun]
    BY DEF End
<1>2. Owning(job') \in [Workers -> Run \cup {NoRun}]
    BY OwningTypes
<1>3. runs'[w] = NoRun /\ \A v \in Workers : v # w => runs'[v] = Owning(job')[v]
    BY <1>1, <1>2
<1>4. \A v \in Workers : v # w => At(v)' = At(v)
    BY <1>3, OwningIsStill DEF At
<1> QED BY <1>3, <1>4 DEF Moves, At

\* Handlers are finite in number, and the one that moves is counted once.
LEMMA CountMoves ==
    ASSUME NEW w \in Workers, NEW to, Moves(w, to), NEW P
    PROVE  /\ Count(P) \in Nat /\ Count(P)' \in Nat
           /\ Count(P)' = Count(P) - (IF At(w) \in P THEN 1 ELSE 0)
                                   + (IF to \in P THEN 1 ELSE 0)
<1> DEFINE S == {v \in Workers : At(v) \in P}
           T == {v \in Workers : At(v)' \in P}
<1>1. IsFiniteSet(S) /\ IsFiniteSet(T)
    BY ConstantsAssumption, FS_Subset
<1>2. S \ {w} = T \ {w}
    BY DEF Moves
<1>3. (w \in S <=> At(w) \in P) /\ (w \in T <=> to \in P)
    BY DEF Moves
<1>4. Count(P) = Cardinality(S) /\ Count(P)' = Cardinality(T)
    BY DEF Count
<1> HIDE DEF S, T
<1>5. Cardinality(S) \in Nat /\ Cardinality(T) \in Nat
    BY <1>1, FS_CardinalityType
<1>6. Cardinality(S \ {w}) = IF w \in S THEN Cardinality(S) - 1 ELSE Cardinality(S)
    BY <1>1, FS_RemoveElement
<1>7. Cardinality(T \ {w}) = IF w \in T THEN Cardinality(T) - 1 ELSE Cardinality(T)
    BY <1>1, FS_RemoveElement
<1> QED BY <1>2, <1>3, <1>4, <1>5, <1>6, <1>7

\* Nobody moves, nobody is counted anew.
LEMMA CountStill ==
    ASSUME Still, NEW P
    PROVE  Count(P) \in Nat /\ Count(P)' = Count(P)
<1>1. {v \in Workers : At(v) \in P} = {v \in Workers : At(v)' \in P}
    BY DEF Still
<1>2. IsFiniteSet({v \in Workers : At(v) \in P})
    BY ConstantsAssumption, FS_Subset
<1> QED BY <1>1, <1>2, FS_CardinalityType DEF Count

\* Where no handler runs none is counted; one that is counted is counted.
LEMMA CountNone ==
    ASSUME NEW P, \A w \in Workers : At(w) \notin P
    PROVE  Count(P) = 0
<1>1. {v \in Workers : At(v) \in P} = {}
    OBVIOUS
<1> QED BY <1>1, FS_EmptySet DEF Count

LEMMA CountSome ==
    ASSUME NEW w \in Workers, NEW P, At(w) \in P
    PROVE  Count(P) >= 1
<1> DEFINE S == {v \in Workers : At(v) \in P}
<1>1. IsFiniteSet(S) /\ S # {}
    BY ConstantsAssumption, FS_Subset
<1> HIDE DEF S
<1>2. Cardinality(S) \in Nat /\ Cardinality(S) # 0
    BY <1>1, FS_CardinalityType, FS_EmptySet
<1> QED BY <1>2 DEF Count, S

\* A live handler that is not due and has heard nothing is live beside all that are,
\* or have.
LEMMA CountBeside ==
    ASSUME NEW w \in Workers, At(w) \in Live, At(w) \notin Due, At(w) # "accepted"
    PROVE  Count(Live) >= Count(Due) + Count({"accepted"}) + 1
<1> DEFINE D == {v \in Workers : At(v) \in Due}
           H == {v \in Workers : At(v) \in {"accepted"}}
           L == {v \in Workers : At(v) \in Live}
<1>1. IsFiniteSet(D) /\ IsFiniteSet(H) /\ IsFiniteSet(L)
    BY ConstantsAssumption, FS_Subset
<1>2. D \cap H = {} /\ w \notin D \cup H
    BY DEF Due
<1>3. (D \cup H) \cup {w} \in SUBSET L
    BY DEF Due, Live
<1>4. Count(Due) = Cardinality(D) /\ Count({"accepted"}) = Cardinality(H)
      /\ Count(Live) = Cardinality(L)
    BY DEF Count
<1> HIDE DEF D, H, L
<1>5. /\ IsFiniteSet(D \cup H)
      /\ Cardinality(D \cup H) = Cardinality(D) + Cardinality(H) - Cardinality(D \cap H)
    BY <1>1, FS_Union
<1>6. Cardinality(D \cap H) = 0
    BY <1>2, FS_EmptySet
<1>7. Cardinality((D \cup H) \cup {w}) = Cardinality(D \cup H) + 1
    BY <1>2, <1>5, FS_AddElement
<1>8. Cardinality((D \cup H) \cup {w}) <= Cardinality(L)
    BY <1>1, <1>3, FS_Subset
<1>9. Cardinality(D) \in Nat /\ Cardinality(H) \in Nat /\ Cardinality(L) \in Nat
    BY <1>1, FS_CardinalityType
<1>10. Cardinality(D \cup H) = Cardinality(D) + Cardinality(H)
    BY <1>5, <1>6, <1>9
<1>11. Cardinality(D) + Cardinality(H) + 1 <= Cardinality(L)
    BY <1>7, <1>8, <1>10
<1> QED BY <1>4, <1>9, <1>11

\* A handler that moves is no second one.
LEMMA LoneMoves ==
    ASSUME LoneRun, NEW w \in Workers, NEW to, Moves(w, to), At(w) # "none",
           crossings' = crossings
    PROVE  LoneRun'
BY DEF LoneRun, Moves
------------------------------------------------------------------------------
(* Steps and the account of messages *)

\* A handler moves and nothing is claimed, accepted or recorded; one that has
\* heard from the endpoint leaves its message unsure, or without a claim.
LEMMA MoveKeeps ==
    ASSUME TypeOK, Facts, NEW w \in Workers, At(w) # "none",
           NEW to, Moves(w, to), to \notin {"claimed", "accepted"},
           to = "sending" => At(w) = "claimed", to = "refused" => At(w) = "sending",
           to \in Live => At(w) \in Live,
           UNCHANGED <<status, requests, accepted, before, crossings>>,
           unsure' \in {unsure, unsure + 1},
           At(w) = "accepted" /\ status = "PROCESSING" => unsure' = unsure + 1
    PROVE  Facts'
<1>1. LoneRun'
    BY LoneMoves DEF Facts
<1>2. Answered'
    <2>1. \A v \in Workers : At(v)' = "accepted" => At(v) = "accepted"
        BY DEF Moves
    <2> QED BY <2>1 DEF Facts, Answered
<1>3. Covered'
    <2>1. /\ Balance \in Int /\ Balance' \in {Balance, Balance + 1}
          /\ unsure' = unsure + 1 => Balance' = Balance + 1
        <3>1. Balance \in Int
            BY DEF TypeOK, Balance
        <3>2. unsure' = unsure => Balance' = Balance
            BY DEF Balance
        <3>3. unsure' = unsure + 1 => Balance' = Balance + 1
            BY DEF TypeOK, Balance
        <3> QED BY <3>1, <3>2, <3>3
    <2>2. /\ Count(Due) \in Nat /\ Count(Due)' \in Nat
          /\ Count(Due)' = Count(Due) \/ (At(w) \in Due /\ Count(Due)' = Count(Due) - 1)
        <3>1. to \in Due => At(w) \in Due
            BY DEF Due
        <3> QED BY <3>1, CountMoves
    <2>3. /\ Count({"accepted"}) \in Nat /\ Count({"accepted"})' \in Nat
          /\ At(w) # "accepted" => Count({"accepted"})' = Count({"accepted"})
        BY CountMoves
    <2>4. Count(Live) \in Nat /\ Count(Live)' \in Nat /\ Count(Live)' <= Count(Live)
        BY CountMoves
    <2>5. Spare' <= Spare /\ Spare \in Int /\ Spare' \in Int
        BY <2>4 DEF Spare
    <2>6. Balance >= Owed + Spare
        BY DEF Facts, Covered
    <2>7. CASE At(w) # "accepted"
        BY <2>1, <2>2, <2>3, <2>5, <2>6, <2>7 DEF Covered, Owed, Heard
    <2>8. CASE At(w) = "accepted"
        <3>1. Count(Due)' = Count(Due)
            BY <2>2, <2>8 DEF Due
        <3> QED BY <2>1, <2>2, <2>3, <2>5, <2>6, <2>8, <3>1 DEF Covered, Owed, Heard
    <2> QED BY <2>7, <2>8
<1> QED BY <1>1, <1>2, <1>3 DEF Facts

\* Nothing about handlers or messages changes.
LEMMA StillKeeps ==
    ASSUME Facts, Still,
           UNCHANGED <<status, requests, accepted, before, unsure, crossings>>
    PROVE  Facts'
<1>1. LoneRun' /\ Answered'
    BY DEF Facts, LoneRun, Answered, Still
<1>2. Balance' = Balance
    BY DEF Balance
<1>3. Owed' = Owed /\ Spare' = Spare
    BY CountStill DEF Owed, Spare, Heard
<1> QED BY <1>1, <1>2, <1>3 DEF Facts, Covered

\* A verdict on a row in flight: the row may call for one more message, but the
\* handler that passed it no longer does, or is no longer there to cross another.
LEMMA VerdictKeeps ==
    ASSUME TypeOK, Facts, NEW w \in Workers,
           At(w) \in {"accepted", "permanent", "refused", "failed"},
           NEW to \in {"done", "threw", "caught"}, Moves(w, to),
           to = "caught" => At(w) \in {"accepted", "refused"},
           NEW st, Verdict(st),
           st = "SENT" <=> At(w) = "accepted", st \in Failed \cup {"PENDING", "SENT"},
           UNCHANGED <<requests, accepted, before, unsure, crossings>>
    PROVE  Facts'
<1>1. CASE status # "PROCESSING"
    <2>1. status' = status
        BY <1>1 DEF Verdict, Flips
    <2> QED BY <1>1, <2>1, MoveKeeps DEF Live
<1>2. CASE status = "PROCESSING"
    <2>1. status' = st /\ st # "PROCESSING"
        BY <1>2 DEF Verdict, Flips, Failed
    <2>2. LoneRun'
        BY LoneMoves DEF Facts
    <2>3. Answered'
        BY <1>2, <2>1 DEF Facts, Answered
    <2>4. Balance' = Balance /\ Balance \in Int /\ Balance >= Owed + Spare
        BY DEF Balance, TypeOK, Facts, Covered
    <2>5. /\ Count(Due) \in Nat /\ Count({"accepted"}) \in Nat
          /\ Count(Due)' = Count(Due) - (IF At(w) = "refused" THEN 1 ELSE 0)
        BY CountMoves DEF Due
    <2>6. /\ Count(Live) \in Nat
          /\ Count(Live)' = Count(Live) - (IF to = "caught" THEN 0 ELSE 1)
        BY CountMoves DEF Live
    <2>7. Count(Live) >= 1
        BY CountSome DEF Live
    <2>8. /\ Owed \in {Count(Due), Count(Due) + 1}
          /\ Count(Due) = 0 /\ Count({"accepted"}) = 0 => Owed = 1
        BY <1>2, <2>5 DEF Owed, Heard
    <2>9. Owed' = Count(Due)' + (IF st = "SENT" THEN 0 ELSE 1)
        BY <2>1 DEF Owed, Failed
    <2>10. Covered'
        <3>1. CASE At(w) = "accepted"
            BY <2>4, <2>5, <2>6, <2>7, <2>8, <2>9, <3>1 DEF Covered, Spare
        <3>2. CASE At(w) = "refused"
            <4>1. Count(Due) >= 1
                BY <3>2, CountSome DEF Due
            <4> QED BY <2>4, <2>5, <2>6, <2>7, <2>8, <2>9, <3>2, <4>1 DEF Covered, Spare
        <3>3. CASE At(w) \in {"permanent", "failed"}
            <4>1. Count(Live) >= Count(Due) + Count({"accepted"}) + 1
                BY <3>3, CountBeside DEF Live, Due
            <4> QED BY <2>4, <2>5, <2>6, <2>7, <2>8, <2>9, <3>3, <4>1 DEF Covered, Spare
        <3> QED BY <3>1, <3>2, <3>3
    <2> QED BY <2>2, <2>3, <2>10 DEF Facts
<1> QED BY <1>1, <1>2

\* A cancellation or a removal, while handlers stay where they are or one that
\* has not claimed ends.
LEMMA CancelKeeps ==
    ASSUME TypeOK, Facts,
           Still \/ \E w \in Workers : At(w) = "cancel" /\ Moves(w, "done"),
           status' \in {"CANCELED", "GONE"},
           UNCHANGED <<requests, accepted, before, unsure, crossings>>
    PROVE  Facts'
<1>1. LoneRun'
    BY LoneMoves DEF Still, Facts, LoneRun
<1>2. Answered'
    BY DEF Facts, Answered
<1>3. Balance' = Balance /\ Balance \in Int /\ Balance >= Owed + Spare
    BY DEF Balance, TypeOK, Facts, Covered
<1>4. Count(Due) \in Nat /\ Count(Due)' = Count(Due)
    BY CountStill, CountMoves DEF Due
<1>5. Count(Live) \in Nat /\ Count(Live)' \in Nat /\ Count(Live)' <= Count(Live)
    BY CountStill, CountMoves DEF Live
<1>6. Owed' = Count(Due)' /\ Owed >= Count(Due) /\ Owed \in Int
    BY <1>4 DEF Owed, Failed
<1>7. Spare' <= Spare /\ Spare' \in Int /\ Spare \in Int
    BY <1>5 DEF Spare
<1>8. Balance >= Owed' + Spare'
    BY <1>3, <1>4, <1>6, <1>7
<1>9. Covered'
    BY <1>3, <1>8 DEF Covered
<1> QED BY <1>1, <1>2, <1>9 DEF Facts

\* A worker starts: alone, or the handlers cross.
LEMMA StartKeeps ==
    ASSUME TypeOK, Facts, NEW w \in Workers, Start(w)
    PROVE  Facts'
<1>1. /\ UNCHANGED <<status, requests, accepted, before, unsure>>
      /\ crossings' = crossings + (IF Running THEN 1 ELSE 0)
    BY DEF Start, rowVars, requestVars, ownerVars, histVars
<1>2. Moves(w, "start") /\ At(w) = "none"
    <2> DEFINE r == [pc |-> "start", seen |-> 0, last |-> ~Retries, owns |-> TRUE]
    <2>1. r \in Run /\ r.pc = "start"
        BY DEF Run, Retries
    <2>2. runs' = [runs EXCEPT ![w] = r]
        BY DEF Start
    <2> HIDE DEF r
    <2>3. runs'[w] = r /\ \A v \in Workers : v # w => runs'[v] = runs[v]
        BY <2>2 DEF TypeOK
    <2>4. r # NoRun /\ runs[w] = NoRun
        BY <2>1, ConstantsAssumption DEF Start
    <2>5. At(w)' = "start" /\ At(w) = "none"
        BY <2>1, <2>3, <2>4 DEF At
    <2>6. \A v \in Workers : v # w => At(v)' = At(v)
        BY <2>3 DEF At
    <2> QED BY <2>5, <2>6 DEF Moves
<1>3. Count(Due) \in Nat /\ Count(Due)' = Count(Due)
    BY <1>2, CountMoves DEF Due
<1>4. Count({"accepted"})' = Count({"accepted"})
    BY <1>2, CountMoves
<1>5. Count(Live) \in Nat /\ Count(Live)' = Count(Live) + 1
    BY <1>2, CountMoves DEF Live
<1>6. Balance >= Owed + Spare /\ Balance \in Int
    BY DEF Balance, TypeOK, Facts, Covered
<1>7. Owed' = Owed /\ Owed \in Int
    BY <1>1, <1>3, <1>4 DEF Owed, Heard
<1>8. CASE Running
    <2>1. crossings' = crossings + 1 /\ crossings' # 0
        BY <1>1, <1>8 DEF TypeOK
    <2>2. Balance' = Balance + 1
        BY <1>1, <2>1 DEF Balance, TypeOK
    <2>3. Covered'
        BY <1>5, <1>6, <1>7, <2>2 DEF Covered, Spare
    <2> QED BY <1>1, <2>1, <2>3 DEF Facts, LoneRun, Answered
<1>9. CASE ~Running
    <2>1. \A v \in Workers : At(v) = "none"
        BY <1>9 DEF Running, At
    <2>2. crossings' = crossings
        BY <1>1, <1>9 DEF TypeOK
    <2>3. Balance' = Balance
        BY <1>1, <2>2 DEF Balance
    <2>4. Count(Live) = 0
        BY <2>1, CountNone DEF Live
    <2>5. Covered'
        BY <1>5, <1>6, <1>7, <2>3, <2>4 DEF Covered, Spare
    <2>6. LoneRun'
        BY <1>2, <2>1 DEF LoneRun, Moves
    <2>7. Answered'
        BY <1>1, <1>2, <2>1, <2>2 DEF Facts, Answered, Moves
    <2> QED BY <2>5, <2>6, <2>7 DEF Facts
<1> QED BY <1>8, <1>9

\* The row is claimed: what it called for while it waited, the handler is due.
LEMMA ClaimKeeps ==
    ASSUME TypeOK, Facts, NEW w \in Workers, Claim(w)
    PROVE  Facts'
<1>1. UNCHANGED <<requests, accepted, before, unsure, crossings>>
    BY DEF Claim, requestVars, ownerVars, histVars, faultVars
<1>2. status = "PENDING" /\ status' = "PROCESSING"
    BY DEF Claim, Claimable
<1>3. At(w) = "claim" /\ Moves(w, "claimed")
    BY GotoMoves DEF Claim, In, At
<1>4. LoneRun'
    BY <1>1, <1>3, LoneMoves DEF Facts
<1>5. Answered'
    <2>1. CASE crossings = 0
        <3>1. \A v \in Workers : At(v)' # "accepted"
            BY <1>3, <2>1 DEF Facts, LoneRun, Moves
        <3> QED BY <1>1, <1>2, <3>1 DEF Facts, Answered
    <2>2. CASE crossings # 0
        BY <1>1, <2>2 DEF Facts, Answered
    <2> QED BY <2>1, <2>2
<1>6. Count(Due) \in Nat /\ Count(Due)' = Count(Due) + 1
    BY <1>3, CountMoves DEF Due
<1>7. Count(Live)' = Count(Live) /\ Count(Live) \in Nat
    BY <1>3, CountMoves DEF Live
<1>8. Balance >= Owed + Spare /\ Balance \in Int /\ Balance' = Balance
    BY <1>1 DEF Balance, TypeOK, Facts, Covered
<1>9. Owed' = Owed
    BY <1>2, <1>6 DEF Owed, Failed
<1>10. Covered'
    BY <1>7, <1>8, <1>9 DEF Covered, Spare
<1> QED BY <1>4, <1>5, <1>10 DEF Facts

\* The endpoint accepts a message, and its answer arrives or is lost.
LEMMA AcceptKeeps ==
    ASSUME TypeOK, Facts, NEW w \in Workers, Accept(w) \/ LoseReply(w)
    PROVE  Facts'
<1>1. /\ UNCHANGED <<status, requests, before, crossings>>
      /\ accepted' = accepted + 1
    BY DEF Accept, LoseReply, rowVars, requestVars, ownerVars, faultVars
<1>2. At(w) = "sending"
    BY DEF Accept, LoseReply, In, At
<1>3. PICK to \in {"accepted", "caught"} : Moves(w, to) /\ (to = "accepted" <=> Accept(w))
    BY <1>2, GotoMoves DEF Accept, LoseReply, Goto, Moves
<1>4. LoneRun'
    BY <1>1, <1>2, <1>3, LoneMoves DEF Facts
<1>5. Answered'
    BY <1>1 DEF Facts, Answered, TypeOK
<1>6. Count(Due) \in Nat /\ Count(Due)' \in Nat /\ Count(Due)' = Count(Due) - 1
    BY <1>2, <1>3, CountMoves DEF Due
<1>7. Count({"accepted"}) \in Nat
      /\ Count({"accepted"})' = Count({"accepted"}) + (IF to = "accepted" THEN 1 ELSE 0)
    BY <1>2, <1>3, CountMoves
<1>8. Count(Live)' = Count(Live) /\ Count(Live) \in Nat
    BY <1>2, <1>3, CountMoves DEF Live
<1>9. Spare' = Spare /\ Spare \in Int
    BY <1>8 DEF Spare
<1>10. Balance >= Owed + Spare /\ Balance \in Int
    BY DEF Balance, TypeOK, Facts, Covered
<1>11. CASE Accept(w)
    <2>1. Balance' = Balance - 1
        BY <1>1, <1>11 DEF Accept, histVars, Balance, TypeOK
    <2>2. Owed' = Owed - 1
        BY <1>1, <1>3, <1>6, <1>7, <1>11 DEF Owed, Heard
    <2>3. Covered'
        BY <1>9, <1>10, <2>1, <2>2, <1>6 DEF Covered, Owed
    <2> QED BY <1>4, <1>5, <2>3 DEF Facts
<1>12. CASE LoseReply(w)
    <2>1. Balance' = Balance
        BY <1>1, <1>12 DEF LoseReply, Balance, TypeOK
    <2>2. (Owed' = Owed \/ Owed' = Owed - 1) /\ Owed \in Int
        BY <1>1, <1>3, <1>6, <1>7, <1>12 DEF Owed, Heard
    <2>3. Balance' \in Int /\ Balance' >= Owed + Spare
        BY <1>10, <2>1
    <2>4. Owed' = Owed => Covered'
        BY <1>9, <2>3 DEF Covered
    <2>5. Owed' = Owed - 1 => Covered'
        BY <1>9, <2>2, <2>3 DEF Covered
    <2> QED BY <1>4, <1>5, <2>2, <2>4, <2>5 DEF Facts
<1> QED BY <1>11, <1>12

\* A resend: one more request, one more message owed.
LEMMA RedeliverKeeps ==
    ASSUME TypeOK, Facts, Redeliver, status \in Settled
    PROVE  Facts'
<1>1. /\ status' = "PENDING" /\ requests' = requests + 1 /\ before' = accepted
      /\ UNCHANGED <<accepted, unsure, crossings, runs>>
    BY DEF Redeliver, histVars, faultVars
<1>2. Still
    BY <1>1 DEF Still, At
<1>3. LoneRun'
    BY <1>1, <1>2 DEF Facts, LoneRun, Still
<1>4. Answered'
    BY <1>1 DEF Answered, TypeOK
<1>5. Balance >= Owed + Spare /\ Balance \in Int /\ Balance' = Balance + 1
    BY <1>1 DEF Balance, TypeOK, Facts, Covered
<1>6. Count(Due) \in Nat /\ Count(Due)' = Count(Due)
    BY <1>2, CountStill
<1>7. Spare' = Spare /\ Spare \in Int
    BY <1>2, CountStill DEF Spare
<1>8. Owed' = Count(Due) + 1 /\ Owed >= Count(Due) /\ Owed \in Int
    BY <1>1, <1>6 DEF Owed
<1>9. Covered'
    BY <1>5, <1>6, <1>7, <1>8 DEF Covered
<1> QED BY <1>3, <1>4, <1>9 DEF Facts

\* A stale row is put back: no handler runs, or they cross.
LEMMA RecoverKeeps ==
    ASSUME TypeOK, Facts, Recover
    PROVE  Facts'
<1>1. UNCHANGED <<requests, accepted, before, unsure, runs>>
    BY DEF Recover, requestVars, ownerVars, histVars
<1>2. Still
    BY <1>1 DEF Still, At
<1>3. CASE status # "PROCESSING"
    <2>1. status' = status /\ crossings' = crossings
        BY <1>3 DEF Recover, TypeOK
    <2> QED BY <1>1, <1>2, <2>1, StillKeeps
<1>4. CASE status = "PROCESSING"
    <2>1. /\ status' = "PENDING"
          /\ crossings' = crossings + (IF Running THEN 1 ELSE 0)
        BY <1>4 DEF Recover
    <2>2. crossings' = 0 => crossings = 0
        BY <2>1 DEF TypeOK
    <2>3. LoneRun' /\ Answered'
        BY <1>1, <1>2, <2>1, <2>2 DEF Facts, LoneRun, Answered, Still
    <2>4. Balance >= Owed + Spare /\ Balance \in Int
          /\ Balance' = Balance + (IF Running THEN 1 ELSE 0)
        BY <1>1, <2>1 DEF Balance, TypeOK, Facts, Covered
    <2>5. Count(Due) \in Nat /\ Count(Due)' = Count(Due)
        BY <1>2, CountStill
    <2>6. Spare' = Spare /\ Spare \in Int
        BY <1>2, CountStill DEF Spare
    <2>7. Owed' = Count(Due) + 1 /\ Owed >= Count(Due) /\ Owed \in Int
        BY <2>1, <2>5 DEF Owed
    <2>8. ~Running => Owed = Count(Due) + 1
        <3>1. SUFFICES ASSUME ~Running PROVE Owed = Count(Due) + 1
            OBVIOUS
        <3>2. \A v \in Workers : At(v) = "none"
            BY <3>1 DEF Running, At
        <3>3. Count(Due) = 0 /\ Count({"accepted"}) = 0
            BY <3>2, CountNone DEF Due
        <3> QED BY <1>4, <3>3 DEF Owed, Heard
    <2>9. Covered'
        BY <2>4, <2>5, <2>6, <2>7, <2>8 DEF Covered
    <2> QED BY <2>3, <2>9 DEF Facts
<1> QED BY <1>3, <1>4
------------------------------------------------------------------------------
(* The invariant *)

\* The verdicts.
LEMMA VerdictsKeep ==
    ASSUME TypeOK, Facts, NEW w \in Workers,
           MarkSent(w) \/ MarkSentFails(w) \/ RecordPermanent(w) \/ RecordRefused(w)
           \/ RecordFailed(w) \/ HealthFails(w)
    PROVE  Facts'
<1>1. /\ At(w) # "none"
      /\ MarkSent(w) \/ MarkSentFails(w) => At(w) = "accepted"
      /\ RecordPermanent(w) => At(w) = "permanent"
      /\ RecordRefused(w) => At(w) = "refused"
      /\ RecordFailed(w) => At(w) = "failed"
      /\ HealthFails(w) => At(w) \in {"permanent", "failed"}
    BY DEF MarkSent, MarkSentFails, RecordPermanent, RecordRefused, RecordFailed,
           HealthFails, In, At
<1>2. PICK to \in {"done", "threw", "caught"} :
        Goto(w, to) /\ (to = "caught" => MarkSentFails(w) \/ RecordRefused(w))
    BY DEF MarkSent, MarkSentFails, RecordPermanent, RecordRefused, RecordFailed,
           HealthFails
<1>3. Moves(w, to)
    BY <1>1, <1>2, GotoMoves
<1>4. UNCHANGED <<requests, accepted, before, crossings>>
    BY DEF MarkSent, MarkSentFails, RecordPermanent, RecordRefused, RecordFailed,
           HealthFails, requestVars, ownerVars, histVars, faultVars
<1>5. CASE MarkSentFails(w) /\ UNCHANGED rowVars /\ unsure' = unsure + 1
    BY <1>1, <1>3, <1>4, <1>5, MoveKeeps DEF rowVars, Live
<1>6. CASE ~(MarkSentFails(w) /\ UNCHANGED rowVars /\ unsure' = unsure + 1)
    <2>1. unsure' = unsure
        BY <1>6 DEF MarkSent, MarkSentFails, RecordPermanent, RecordRefused,
                    RecordFailed, HealthFails, histVars
    <2>2. PICK st \in Failed \cup {"PENDING", "SENT"} :
            Verdict(st) /\ (st = "SENT" <=> At(w) = "accepted")
        BY <1>6 DEF MarkSent, MarkSentFails, RecordPermanent, RecordRefused,
                    RecordFailed, HealthFails, Exhaustible, Failed, In, At
    <2> QED BY <1>1, <1>2, <1>3, <1>4, <2>1, <2>2, VerdictKeeps
<1> QED BY <1>5, <1>6

\* The steps that move one handler and record nothing.
LEMMA MovesKeep ==
    ASSUME TypeOK, Facts, NEW w \in Workers,
           Read(w) \/ Refuse(w) \/ OpenAttempt(w) \/ Decline(w) \/ Reread(w)
           \/ CallFails(w) \/ Acknowledge(w) \/ FailJob(w) \/ Crash(w)
    PROVE  Facts'
<1>1. /\ UNCHANGED <<status, requests, accepted, before, crossings>>
      /\ At(w) # "none"
    BY DEF Read, Refuse, OpenAttempt, Decline, Reread, CallFails, Acknowledge, FailJob,
           Crash, End, rowVars, requestVars, ownerVars, histVars, faultVars, In, At,
           TypeOK, Run
<1>2. CASE Crash(w)
    <2>1. Moves(w, "none")
        BY <1>2 DEF Crash, Moves, At, TypeOK
    <2>2. unsure' = IF At(w) = "accepted" THEN unsure + 1 ELSE unsure
        BY <1>1, <1>2 DEF Crash, In, At
    <2> QED BY <1>1, <2>1, <2>2, MoveKeeps DEF Live
<1>3. CASE ~Crash(w)
    <2>1. PICK to \in {"none", "done", "cancel", "claim", "sending", "threw",
                       "permanent", "refused", "failed", "caught"} :
            /\ Moves(w, to)
            /\ to = "sending" => At(w) = "claimed"
            /\ to = "refused" => At(w) = "sending"
            /\ to \in Live => At(w) \in Live
        <3>1. CASE Read(w)
            BY <3>1, ReadMoves DEF Read, In, At, Live
        <3>2. CASE Acknowledge(w) \/ FailJob(w)
            BY <3>2, EndMoves DEF Acknowledge, FailJob, Live
        <3>3. CASE OpenAttempt(w)
            BY <1>1, <3>3, GotoMoves DEF OpenAttempt, In, At, Live
        <3>4. CASE Refuse(w) \/ Decline(w) \/ Reread(w) \/ CallFails(w)
            BY <1>1, <3>4, GotoMoves DEF Refuse, Decline, Reread, CallFails, In, At, Live
        <3> QED BY <1>3, <3>1, <3>2, <3>3, <3>4
    <2>2. unsure' = unsure /\ At(w) # "accepted"
        BY <1>3 DEF Read, Refuse, OpenAttempt, Decline, Reread, CallFails, Acknowledge,
                    FailJob, End, histVars, In, At
    <2> QED BY <1>1, <2>1, <2>2, MoveKeeps
<1> QED BY <1>2, <1>3

\* The steps of queue, clock, cron and owner that cancel nothing.
LEMMA OthersKeep ==
    ASSUME TypeOK, Facts,
           \/ (\E w \in Workers : Shutdown(w)) \/ Expire \/ Wake \/ Age
           \/ ScanStale \/ ScanPending \/ SendPending
           \/ Enable \/ FilterRead \/ Entitle \/ AskRedeliver
           \/ (Redeliver /\ status \notin Settled) \/ UNCHANGED vars
    PROVE  Facts'
<1>1. UNCHANGED <<status, requests, accepted, before, unsure, crossings>>
    BY DEF Shutdown, Expire, Wake, Age, ScanStale, ScanPending, SendPending, Enable,
           FilterRead, Entitle, AskRedeliver, Redeliver, vars, rowVars, requestVars,
           ownerVars, histVars, faultVars, Elapse
<1>2. Still
    <2>1. CASE UNCHANGED runs
        BY <2>1 DEF Still, At
    <2>2. CASE \E j : runs' = Owning(j)
        BY <2>2, OwningIsStill DEF Still, At
    <2>3. UNCHANGED runs \/ \E j : runs' = Owning(j)
        BY DEF Shutdown, Expire, Wake, Age, ScanStale, ScanPending, SendPending, Enable,
               FilterRead, Entitle, AskRedeliver, Redeliver, vars
    <2> QED BY <2>1, <2>2, <2>3
<1> QED BY <1>1, <1>2, StillKeeps

\* Cancellations and removals; a cancellation may find nothing to cancel.
LEMMA CancelsKeep ==
    ASSUME TypeOK, Facts,
           \/ Disable \/ FilterCancel \/ Delete \/ Cleanup
           \/ \E w \in Workers : CancelUnfit(w)
    PROVE  Facts'
<1>1. UNCHANGED <<requests, accepted, before, unsure, crossings>>
    BY DEF Disable, FilterCancel, Delete, Cleanup, CancelUnfit, Elapse, requestVars,
           ownerVars, histVars, faultVars
<1>2. CASE Disable \/ FilterCancel \/ Delete \/ Cleanup
    <2>1. Still
        BY <1>2 DEF Disable, FilterCancel, Delete, Cleanup, Still, At
    <2>2. status' \in {status, "CANCELED", "GONE"}
        BY <1>2 DEF Disable, FilterCancel, Delete, Cleanup, CancelPending, Remove
    <2> QED BY <1>1, <2>1, <2>2, StillKeeps, CancelKeeps
<1>3. ASSUME NEW w \in Workers, CancelUnfit(w) PROVE Facts'
    <2>1. At(w) = "cancel"
        BY <1>3 DEF CancelUnfit, In, At
    <2>2. CASE Goto(w, "threw") /\ UNCHANGED status
        <3>1. Moves(w, "threw")
            BY <2>1, <2>2, GotoMoves
        <3> QED BY <1>1, <2>1, <2>2, <3>1, MoveKeeps DEF Live
    <2>3. CASE Goto(w, "done") /\ status' = "CANCELED"
        <3>1. Moves(w, "done")
            BY <2>1, <2>3, GotoMoves
        <3> QED BY <1>1, <2>1, <2>3, <3>1, CancelKeeps
    <2> QED BY <1>3, <2>2, <2>3 DEF CancelUnfit
<1> QED BY <1>2, <1>3

\* The facts hold at the start and every step keeps them.
THEOREM Inductive == Spec => []IInv
<1>1. Init => IInv
    <2> SUFFICES ASSUME Init PROVE IInv
        OBVIOUS
    <2>1. RetryLimit \in Nat
        BY ConstantsAssumption
    <2>2. job \in [st : {"queued", "active", "delayed"}, tries : 0..RetryLimit]
                  \cup {NoJob}
        BY <2>1 DEF Init, Queued
    <2>3. runs \in [Workers -> Run \cup {NoRun}]
        BY DEF Init
    <2>4. status \in Pending \cup Settled \cup {"GONE"}
        BY DEF Init, Pending
    <2>5. TypeOK
        <3>1. /\ aged \in BOOLEAN /\ enabled \in BOOLEAN /\ entitled \in BOOLEAN
              /\ filtering \in BOOLEAN /\ asking \in BOOLEAN
              /\ stalled \in BOOLEAN
            BY DEF Init
        <3>2. /\ attempts \in Nat /\ attempted \subseteq Nat
              /\ cron \in {"idle", "stale", "pending"}
              /\ ops \in Nat /\ requests \in Nat /\ before \in Nat
              /\ accepted \in Nat /\ unsure \in Nat /\ faults \in Nat
              /\ crossings \in Nat
            BY DEF Init
        <3> QED BY <2>2, <2>3, <2>4, <3>1, <3>2 DEF TypeOK
    <2>6. \A w \in Workers : At(w) = "none"
        BY DEF Init, At
    <2>7. Count(Due) = 0 /\ Count(Live) = 0
        BY <2>6, CountNone DEF Due, Live
    <2>8. Facts
        BY <2>6, <2>7 DEF Init, Facts, LoneRun, Covered, Answered, Balance, Owed, Spare
    <2> QED BY <2>5, <2>8 DEF IInv
<1>2. IInv /\ [Next]_vars => IInv'
    <2> SUFFICES ASSUME TypeOK, Facts, [Next]_vars PROVE Facts'
        BY Typing DEF IInv
    <2>1. ASSUME NEW w \in Workers, Start(w) \/ Handler(w) \/ Mishap(w) PROVE Facts'
        <3>1. CASE Start(w)
            BY <3>1, StartKeeps
        <3>2. CASE Claim(w)
            BY <3>2, ClaimKeeps
        <3>3. CASE Accept(w) \/ LoseReply(w)
            BY <3>3, AcceptKeeps
        <3>4. CASE MarkSent(w) \/ MarkSentFails(w) \/ RecordPermanent(w)
                   \/ RecordRefused(w) \/ RecordFailed(w) \/ HealthFails(w)
            BY <3>4, VerdictsKeep
        <3>5. CASE Read(w) \/ Refuse(w) \/ OpenAttempt(w) \/ Decline(w) \/ Reread(w)
                   \/ CallFails(w) \/ Acknowledge(w) \/ FailJob(w) \/ Crash(w)
            BY <3>5, MovesKeep
        <3>6. CASE CancelUnfit(w)
            BY <3>6, CancelsKeep
        <3>7. CASE Shutdown(w)
            BY <3>7, OthersKeep
        <3> QED BY <2>1, <3>1, <3>2, <3>3, <3>4, <3>5, <3>6, <3>7 DEF Handler, Mishap
    <2>2. CASE Expire \/ Wake \/ Age \/ UNCHANGED vars
        BY <2>2, OthersKeep
    <2>3. CASE Cron
        BY <2>3, OthersKeep, RecoverKeeps DEF Cron
    <2>4. CASE Cleanup
        BY <2>4, CancelsKeep
    <2>5. CASE Owner
        BY <2>5, OthersKeep, CancelsKeep, RedeliverKeeps DEF Owner
    <2> QED BY <2>1, <2>2, <2>3, <2>4, <2>5 DEF Next
<1> QED BY <1>1, <1>2, PTL DEF Spec

------------------------------------------------------------------------------
(* What follows *)

\* Row, job and handlers keep their types; a job's tries stay within the limit.
THEOREM Types == Spec => []TypeOK
<1>1. IInv => TypeOK
    BY DEF IInv
<1> QED BY <1>1, Inductive, PTL

\* The endpoint accepts one message for the delivery and for each resend, and one
\* more for each verdict that was lost and each time handlers cross.
THEOREM Requests == Spec => []OncePerRequest
<1>1. IInv => OncePerRequest
    <2> SUFFICES ASSUME IInv PROVE OncePerRequest
        OBVIOUS
    <2>1. /\ accepted \in Nat /\ requests \in Nat /\ unsure \in Nat /\ crossings \in Nat
        BY DEF IInv, TypeOK
    <2>2. Count(Due) \in Nat /\ Count(Live) \in Nat
        BY ConstantsAssumption, FS_Subset, FS_CardinalityType DEF Count
    <2>3. Spare >= 0 /\ Owed >= (IF status \in Failed THEN 1 ELSE 0)
          /\ Spare \in Int /\ Owed \in Int
        BY <2>2 DEF Spare, Owed
    <2>4. Balance >= Owed + Spare
        BY DEF IInv, Facts, Covered
    <2> QED BY <2>1, <2>3, <2>4 DEF Balance, OncePerRequest
<1> QED BY <1>1, Inductive, PTL

\* A row says SENT for a message accepted since the last resend.
THEOREM Sent == Spec => []SentForThisRequest
<1>1. IInv => SentForThisRequest
    BY DEF IInv, Facts, Answered, SentForThisRequest
<1> QED BY <1>1, Inductive, PTL

\* No late answer revives a settled delivery.
THEOREM Revives == Spec => NothingRevived
<1>1. [Next]_vars =>
        [(status \in Settled) => \/ status' \in Settled \cup {"GONE"}
                                 \/ requests' = requests + 1]_vars
    <2> SUFFICES ASSUME Next, status \in Settled
                 PROVE  status' \in Settled \cup {"GONE"} \/ requests' = requests + 1
        OBVIOUS
    <2>1. ~Flips /\ ~Claimable /\ status # "PROCESSING" /\ status # "GONE"
        BY DEF Flips, Claimable, Settled, Failed
    <2>2. \A st : Verdict(st) => status' = status
        BY <2>1 DEF Verdict
    <2>3. ASSUME NEW w \in Workers, Start(w) \/ Handler(w) \/ Mishap(w)
          PROVE  status' \in {status, "CANCELED"}
        BY <2>1, <2>2, <2>3
        DEF Start, Handler, Mishap, Read, CancelUnfit, Claim, Refuse, OpenAttempt,
            Accept, Decline, MarkSent, RecordPermanent, RecordRefused, RecordFailed,
            Reread, Acknowledge, FailJob, End, LoseReply, MarkSentFails, CallFails,
            HealthFails, Crash, Shutdown, rowVars
    <2>4. CASE Expire \/ Wake \/ Age \/ Cron \/ Cleanup
        BY <2>1, <2>4 DEF Expire, Wake, Age, Cron, ScanStale, Recover, ScanPending,
                          SendPending, Cleanup, Remove, rowVars
    <2>5. CASE Owner
        BY <2>5 DEF Owner, Disable, Enable, FilterRead, FilterCancel, Entitle,
                    AskRedeliver, Redeliver, Delete, CancelPending, Remove, rowVars,
                    Settled
    <2> QED BY <2>3, <2>4, <2>5 DEF Next, Settled
<1> QED BY <1>1, PTL DEF Spec, NothingRevived

------------------------------------------------------------------------------
(* One sender at a time *)

\* What OneSender speaks of: no handler has stalled, nobody has resent.
Calm == ~stalled /\ requests = 1

\* The handler has claimed the row and not yet come to an end.
PastClaim == {"claimed", "sending", "accepted", "permanent", "refused", "caught", "failed"}
Past(w) == At(w) \in PastClaim

JobTaken == job # NoJob /\ job.st \in {"active", "delayed"}

\* A handler that still owns the job is on its last try when the job has none
\* left; one that lost it lost it for good.
JobOfRun(w) ==
    /\ runs[w].owns => /\ JobTaken
                       /\ runs[w].last <=> (job.st = "active" /\ ~Retries)
    /\ ~runs[w].owns => runs[w].last
    /\ ~runs[w].last => RetryLimit > 0

\* Of two handlers at most one owns the job, and if jobs are retried at all, the
\* other's was dead-lettered under it.
OneOther == \A v, w \in Workers : At(v) # "none" /\ At(w) # "none" /\ v # w =>
    /\ ~(runs[v].owns /\ runs[w].owns)
    /\ RetryLimit > 0 => ~runs[v].last \/ ~runs[w].last

\* A job that waits while a handler runs is a new one.
FreshJob == Running /\ job # NoJob /\ job.st = "queued" => job.tries = 0

Jobs == /\ \A w \in Workers : At(w) # "none" => JobOfRun(w)
        /\ OneOther /\ FreshJob

\* The handler put the row back or will: its answer was a failure to retry.
Late(v) == ~runs[v].last /\ At(v) \in {"caught", "failed"}

\* Two handlers are past their claims only when the later one claimed what the
\* earlier one had put back.
Claims == \A v, w \in Workers : Past(v) /\ Past(w) /\ v # w =>
    \/ Late(v) /\ runs[w].last
    \/ Late(w) /\ runs[v].last

\* The row was put back under w by a handler that is about to end, and no other
\* can start: the job waits for the retry of that one.
Abandoned(w) ==
    /\ ~runs[w].owns /\ JobTaken
    /\ \A v \in Workers : v # w /\ At(v) # "none" =>
         At(v) = "threw" /\ runs[v].owns /\ ~runs[v].last

\* A row back in the queue has no handler past its claim but one that has put it
\* back itself, or one it was put back under.
PutBack == \A w \in Workers : Past(w) /\ status = "PENDING" =>
    IF runs[w].last THEN Abandoned(w) ELSE At(w) = "caught"

\* A claim grows old only when its handler is gone, and the reconciler holds
\* nothing else.
Aging ==
    /\ status = "PROCESSING" /\ aged => \A w \in Workers : ~Past(w)
    /\ cron = "stale" => \/ status = "PROCESSING" /\ aged
                         \/ status \in Settled \cup {"GONE"}

CalmFacts == Jobs /\ Claims /\ PutBack /\ Aging

SInv == requests >= 1 /\ (Calm => CalmFacts)

\* The handler's job and its last try, which its steps do not change.
Same(v) == At(v) # "none" => /\ runs'[v].owns = runs[v].owns
                             /\ runs'[v].last = runs[v].last

\* A handler's step changes neither.
LEMMA GotoSame ==
    ASSUME TypeOK, NEW w \in Workers, At(w) # "none",
           NEW pc \in {"start", "cancel", "claim", "claimed", "sending", "accepted",
                       "permanent", "refused", "caught", "failed", "done", "threw"},
           Goto(w, pc)
    PROVE  \A v \in Workers : Same(v)
<1>1. runs[w] \in Run
    BY DEF At, TypeOK
<1>2. /\ [runs[w] EXCEPT !.pc = pc].owns = runs[w].owns
      /\ [runs[w] EXCEPT !.pc = pc].last = runs[w].last
    BY <1>1 DEF Run
<1>3. runs' = [runs EXCEPT ![w] = [runs[w] EXCEPT !.pc = pc]]
    BY DEF Goto
<1> QED BY <1>2, <1>3 DEF TypeOK, Same

LEMMA ReadSame ==
    ASSUME TypeOK, NEW w \in Workers, Read(w)
    PROVE  \A v \in Workers : Same(v)
<1>1. runs[w] \in Run /\ At(w) # "none"
    BY DEF Read, In, TypeOK, At, Run
<1> DEFINE r == [runs[w] EXCEPT !.pc = "claim", !.seen = attempts]
<1>2. r.owns = runs[w].owns /\ r.last = runs[w].last
    BY <1>1 DEF Run
<1>3. CASE runs' = [runs EXCEPT ![w] = r]
    <2> HIDE DEF r
    <2> QED BY <1>2, <1>3 DEF TypeOK, Same
<1> QED BY <1>1, <1>3, GotoSame DEF Read

\* Jobs and handlers agree while one handler moves.
LEMMA JobsMove ==
    ASSUME TypeOK, Jobs, NEW w \in Workers, At(w) # "none",
           NEW to, to # "none", Moves(w, to), job' = job, \A v \in Workers : Same(v)
    PROVE  Jobs'
<1>1. \A v \in Workers : At(v)' # "none" <=> At(v) # "none"
    BY DEF Moves
<1>2. \A v \in Workers : At(v) # "none" => JobOfRun(v)'
    BY DEF Jobs, JobOfRun, JobTaken, Retries, Same
<1>3. OneOther'
    BY <1>1 DEF Jobs, OneOther, Same
<1>4. Running' => Running
    BY <1>1 DEF Running, At, TypeOK, Run
<1>5. FreshJob'
    BY <1>4 DEF Jobs, FreshJob
<1> QED BY <1>1, <1>2, <1>3, <1>5 DEF Jobs

\* A handler moves on with its claim, or gives it up, and the row stays.
LEMMA CalmMove ==
    ASSUME TypeOK, CalmFacts, NEW w \in Workers, At(w) \notin {"none", "threw"},
           NEW to, to # "none", Moves(w, to), \A v \in Workers : Same(v),
           UNCHANGED <<status, aged, cron, job>>,
           to \in PastClaim => Past(w),
           to \in PastClaim /\ At(w) \in {"caught", "failed"} => to \in {"caught", "failed"},
           At(w) = "caught" /\ status = "PENDING" => to \notin PastClaim
    PROVE  CalmFacts'
<1>1. Jobs'
    BY JobsMove DEF CalmFacts
<1>2. \A v \in Workers : Past(v)' => Past(v) /\ runs'[v].last = runs[v].last
    BY DEF Moves, Past, Same, PastClaim
<1>3. \A v \in Workers : Late(v) /\ Past(v)' => Late(v)'
    BY DEF Moves, Past, Late, Same
<1>4. Claims'
    BY <1>2, <1>3 DEF CalmFacts, Claims
<1>5. ASSUME NEW v \in Workers, Past(v)', status' = "PENDING"
      PROVE  IF runs'[v].last THEN Abandoned(v)' ELSE At(v)' = "caught"
    <2>1. Past(v) /\ status = "PENDING" /\ runs'[v].last = runs[v].last
        BY <1>2, <1>5
    <2>2. IF runs[v].last THEN Abandoned(v) ELSE At(v) = "caught"
        BY <2>1 DEF CalmFacts, PutBack
    <2>3. CASE ~runs[v].last
        BY <1>5, <2>1, <2>2, <2>3 DEF Moves, Past
    <2>4. CASE runs[v].last
        <3>1. Abandoned(v) /\ v = w
            BY <2>2, <2>4 DEF Abandoned
        <3>2. Abandoned(v)'
            BY <3>1 DEF Abandoned, Moves, Same, JobTaken
        <3> QED BY <2>1, <2>4, <3>2
    <2> QED BY <2>3, <2>4
<1>6. Aging'
    BY <1>2 DEF CalmFacts, Aging
<1> QED BY <1>1, <1>4, <1>5, <1>6 DEF CalmFacts, PutBack

\* Two past their claims stay as they were while one handler moves.
LEMMA ClaimsMove ==
    ASSUME Claims, NEW w \in Workers, NEW to, Moves(w, to), \A v \in Workers : Same(v),
           to \in PastClaim => Past(w),
           to \in PastClaim /\ At(w) \in {"caught", "failed"} => to \in {"caught", "failed"}
    PROVE  Claims'
<1>1. \A v \in Workers : Past(v)' => Past(v) /\ runs'[v].last = runs[v].last
    BY DEF Moves, Past, Same, PastClaim
<1>2. \A v \in Workers : Late(v) /\ Past(v)' => Late(v)'
    BY DEF Moves, Past, Late, Same
<1> QED BY <1>1, <1>2 DEF Claims

\* Nothing is asked of a row that is settled or gone.
LEMMA SettledCalm ==
    ASSUME Jobs', Claims', status' \in Settled \cup {"GONE"}
    PROVE  CalmFacts'
BY DEF CalmFacts, PutBack, Aging, Settled, Failed

\* A handler's steps that leave the row as it is.
LEMMA StepsCalm ==
    ASSUME TypeOK, CalmFacts, NEW w \in Workers, UNCHANGED <<status, aged>>,
           \/ Read(w) \/ Refuse(w) \/ OpenAttempt(w) \/ Accept(w) \/ Decline(w)
           \/ LoseReply(w) \/ Reread(w) \/ CallFails(w) \/ CancelUnfit(w)
           \/ MarkSent(w) \/ MarkSentFails(w) \/ RecordPermanent(w)
           \/ RecordRefused(w) \/ RecordFailed(w) \/ HealthFails(w)
    PROVE  CalmFacts'
<1>1. UNCHANGED <<status, aged, cron, job>>
    BY DEF Read, Refuse, OpenAttempt, Accept, Decline, LoseReply, Reread, CallFails,
           CancelUnfit, MarkSent, MarkSentFails, RecordPermanent, RecordRefused,
           RecordFailed, HealthFails, queueVars
<1>2. CASE Read(w)
    <2>1. At(w) = "start"
        BY <1>2 DEF Read, In, At
    <2> QED BY <1>1, <1>2, <2>1, ReadMoves, ReadSame, CalmMove DEF PastClaim
<1> DEFINE On(to) == /\ to \in PastClaim => Past(w)
                     /\ to \in PastClaim /\ At(w) \in {"caught", "failed"}
                        => to \in {"caught", "failed"}
                     /\ At(w) = "caught" /\ status = "PENDING" => to \notin PastClaim
           Ends == {"sending", "accepted", "permanent", "refused", "caught", "failed",
                    "done", "threw"}
<1>3. ASSUME NEW to \in Ends, Goto(w, to), At(w) \notin {"none", "threw"}, On(to)
      PROVE  CalmFacts'
    <2>1. Moves(w, to)
        BY <1>3, GotoMoves
    <2>2. \A v \in Workers : Same(v)
        BY <1>3, GotoSame
    <2> QED BY <1>1, <1>3, <2>1, <2>2, CalmMove
<1>4. CASE Refuse(w) \/ CancelUnfit(w)
    <2>1. At(w) \in {"claim", "cancel"} /\ \E to \in {"done", "threw"} : Goto(w, to)
        BY <1>4 DEF Refuse, CancelUnfit, In, At
    <2> QED BY <1>3, <2>1 DEF PastClaim
<1>5. CASE OpenAttempt(w) \/ Accept(w) \/ Decline(w) \/ LoseReply(w)
    <2>1. /\ At(w) \in {"claimed", "sending"}
          /\ \E to \in Ends : Goto(w, to)
        BY <1>5 DEF OpenAttempt, Accept, Decline, LoseReply, In, At
    <2> QED BY <1>3, <2>1 DEF PastClaim, Past
<1>6. CASE Reread(w)
    <2>1. /\ At(w) = "caught"
          /\ \E to \in {"failed", "threw", "done"} :
                Goto(w, to) /\ (status = "PENDING" => to = "threw")
        BY <1>6 DEF Reread, In, At
    <2> QED BY <1>3, <2>1 DEF PastClaim, Past
<1>7. CASE CallFails(w)
    <2>1. \/ At(w) \notin {"none", "threw"} /\ Goto(w, "threw")
          \/ At(w) \in {"permanent", "refused"} /\ Goto(w, "caught")
        BY <1>7 DEF CallFails, In, At
    <2> QED BY <1>3, <2>1 DEF PastClaim, Past
<1>8. CASE MarkSent(w) \/ MarkSentFails(w) \/ RecordPermanent(w) \/ RecordRefused(w)
           \/ RecordFailed(w) \/ HealthFails(w)
    <2>1. \/ /\ At(w) \in {"accepted", "permanent", "refused", "failed"}
             /\ \E to \in {"done", "threw"} : Goto(w, to)
          \/ At(w) \in {"accepted", "refused"} /\ Goto(w, "caught")
        BY <1>8 DEF MarkSent, MarkSentFails, RecordPermanent, RecordRefused, RecordFailed,
                    HealthFails, In, At
    <2> QED BY <1>3, <2>1 DEF PastClaim, Past
<1> QED BY <1>2, <1>4, <1>5, <1>6, <1>7, <1>8

\* A handler that moves to its end as it settles or cancels the row.
LEMMA SettlingCalm ==
    ASSUME TypeOK, CalmFacts, NEW w \in Workers, At(w) # "none", job' = job,
           NEW to \in {"done", "threw", "caught"}, Goto(w, to), to = "caught" => Past(w),
           status' \in Settled \cup {"GONE"}
    PROVE  CalmFacts'
<1>1. Moves(w, to) /\ \A v \in Workers : Same(v)
    BY GotoMoves, GotoSame
<1>2. Jobs'
    BY <1>1, JobsMove DEF CalmFacts
<1>3. Claims'
    BY <1>1, ClaimsMove DEF CalmFacts, PastClaim
<1> QED BY <1>2, <1>3, SettledCalm

\* A failure to retry puts the row back; the handler of an HTTP failure looks at
\* it again, the other's ends, and leaves behind at most one that was dead-lettered.
LEMMA RetryCalm ==
    ASSUME TypeOK, CalmFacts, NEW w \in Workers, UNCHANGED <<aged, cron, job>>,
           status = "PROCESSING", status' = "PENDING", ~runs[w].last,
           \/ At(w) = "refused" /\ Goto(w, "caught")
           \/ At(w) = "failed" /\ Goto(w, "threw")
    PROVE  CalmFacts'
<1>1. PICK to \in {"caught", "threw"} :
        Goto(w, to) /\ At(w) = (IF to = "caught" THEN "refused" ELSE "failed")
    OBVIOUS
<1>2. Moves(w, to) /\ \A v \in Workers : Same(v)
    BY <1>1, GotoMoves, GotoSame
<1>3. Jobs'
    BY <1>1, <1>2, JobsMove DEF CalmFacts
<1>4. Claims'
    BY <1>1, <1>2, ClaimsMove DEF CalmFacts, PastClaim, Past
<1>5. Past(w) /\ cron # "stale"
    BY <1>1 DEF CalmFacts, Aging, Past, PastClaim, Settled, Failed
<1>6. Aging'
    BY <1>5 DEF Aging
<1>7. runs[w].owns /\ JobTaken /\ RetryLimit > 0
    BY <1>1 DEF CalmFacts, Jobs, JobOfRun
<1>8. ASSUME NEW v \in Workers, Past(v)'
      PROVE  IF runs'[v].last THEN Abandoned(v)' ELSE At(v)' = "caught"
    <2>1. CASE v = w
        BY <1>1, <1>2, <1>8, <2>1 DEF Moves, Past, PastClaim, Same
    <2>2. CASE v # w
        <3>1. Past(v) /\ Late(w) /\ runs[v].last
            BY <1>2, <1>5, <1>8, <2>2 DEF Moves, Past, CalmFacts, Claims, Late
        <3>2. to = "threw"
            BY <1>1, <3>1 DEF Late
        <3>3. At(v) # "none" /\ At(w) # "none"
            BY <1>1, <3>1 DEF Past, PastClaim
        <3>4. ~runs[v].owns
            BY <1>7, <2>2, <3>3 DEF CalmFacts, Jobs, OneOther
        <3>5. ASSUME NEW u \in Workers, u # v, At(u) # "none" PROVE u = w
            <4>1. ~runs[u].last
                BY <1>7, <3>1, <3>3, <3>5 DEF CalmFacts, Jobs, OneOther
            <4>2. runs[u].owns
                BY <3>5, <4>1 DEF CalmFacts, Jobs, JobOfRun
            <4> QED BY <1>7, <3>3, <3>5, <4>2 DEF CalmFacts, Jobs, OneOther
        <3>6. Abandoned(v)'
            BY <1>2, <1>7, <2>2, <3>2, <3>3, <3>4, <3>5
            DEF Abandoned, Moves, Same, JobTaken
        <3> QED BY <1>2, <3>1, <3>3, <3>6 DEF Same
    <2> QED BY <2>1, <2>2
<1> QED BY <1>3, <1>4, <1>6, <1>8 DEF CalmFacts, PutBack

\* A verdict on a row in flight settles it or puts it back.
LEMMA VerdictsCalm ==
    ASSUME TypeOK, CalmFacts, NEW w \in Workers, status = "PROCESSING",
           \/ MarkSent(w) \/ MarkSentFails(w) \/ RecordPermanent(w)
           \/ RecordRefused(w) \/ RecordFailed(w) \/ HealthFails(w)
    PROVE  CalmFacts'
<1>1. UNCHANGED <<cron, job>>
    BY DEF MarkSent, MarkSentFails, RecordPermanent, RecordRefused, RecordFailed,
           HealthFails, queueVars
<1>2. \A st : Verdict(st) => status' = st /\ aged' = aged
    BY DEF Verdict, Flips
<1>3. CASE MarkSent(w) \/ MarkSentFails(w)
    <2>1. /\ At(w) = "accepted" /\ \E to \in {"done", "caught"} : Goto(w, to)
          /\ status' = "SENT" \/ UNCHANGED <<status, aged>>
        BY <1>2, <1>3 DEF MarkSent, MarkSentFails, In, At, rowVars
    <2> QED BY <1>1, <1>3, <2>1, SettlingCalm, StepsCalm DEF Past, PastClaim, Settled
<1>4. CASE RecordPermanent(w) \/ (HealthFails(w) /\ At(w) = "permanent")
    <2>1. /\ At(w) = "permanent" /\ \E to \in {"done", "threw"} : Goto(w, to)
          /\ status' = "PERMANENT_FAILURE"
        BY <1>2, <1>4 DEF RecordPermanent, HealthFails, In, At
    <2> QED BY <1>1, <2>1, SettlingCalm DEF Settled, Failed
<1>5. CASE RecordRefused(w) \/ RecordFailed(w) \/ (HealthFails(w) /\ At(w) = "failed")
    <2>1. /\ At(w) = (IF RecordRefused(w) THEN "refused" ELSE "failed")
          /\ status' = Exhaustible(w) /\ aged' = aged
        BY <1>2, <1>5 DEF RecordRefused, RecordFailed, HealthFails, In, At
    <2>2. CASE runs[w].last
        <3>1. \E to \in {"done", "threw"} : Goto(w, to)
            BY <1>5, <2>2 DEF RecordRefused, RecordFailed, HealthFails
        <3> QED BY <1>1, <2>1, <2>2, <3>1, SettlingCalm
                DEF Exhaustible, Settled, Failed
    <2>3. CASE ~runs[w].last
        <3>1. \/ At(w) = "refused" /\ Goto(w, "caught")
              \/ At(w) = "failed" /\ Goto(w, "threw")
            BY <1>5, <2>3 DEF RecordRefused, RecordFailed, HealthFails, In, At
        <3> QED BY <1>1, <2>1, <2>3, <3>1, RetryCalm DEF Exhaustible
    <2> QED BY <2>2, <2>3
<1>6. HealthFails(w) => At(w) \in {"permanent", "failed"}
    BY DEF HealthFails, In, At
<1> QED BY <1>3, <1>4, <1>5, <1>6

\* A row is claimed past another handler only if that one has put it back.
LEMMA ClaimCalm ==
    ASSUME TypeOK, CalmFacts, NEW w \in Workers, Claim(w)
    PROVE  CalmFacts'
<1>1. /\ At(w) = "claim" /\ status = "PENDING" /\ status' = "PROCESSING"
      /\ aged' = FALSE /\ job' = job /\ cron' = cron
    BY DEF Claim, Claimable, In, At, queueVars
<1>2. Moves(w, "claimed") /\ \A v \in Workers : Same(v)
    BY <1>1, GotoMoves, GotoSame DEF Claim
<1>3. Jobs'
    BY <1>1, <1>2, JobsMove DEF CalmFacts
<1>4. ASSUME NEW v \in Workers, Past(v) PROVE Late(v) /\ runs[w].last /\ v # w
    <2>1. v # w /\ At(v) # "none" /\ At(w) # "none" /\ At(w) # "threw"
        BY <1>1, <1>4 DEF Past, PastClaim
    <2>2. ~runs[v].last /\ At(v) = "caught"
        BY <1>1, <1>4, <2>1 DEF CalmFacts, PutBack, Abandoned
    <2>3. runs[v].owns
        BY <2>1, <2>2 DEF CalmFacts, Jobs, JobOfRun
    <2>4. ~runs[w].owns
        BY <2>1, <2>3 DEF CalmFacts, Jobs, OneOther
    <2>5. runs[w].last
        BY <2>1, <2>4 DEF CalmFacts, Jobs, JobOfRun
    <2> QED BY <2>1, <2>2, <2>5 DEF Late
<1>5. Claims'
    <2> SUFFICES ASSUME NEW u \in Workers, NEW v \in Workers, Past(u)', Past(v)', u # v
                 PROVE  \/ Late(u)' /\ runs'[v].last
                        \/ Late(v)' /\ runs'[u].last
        BY DEF Claims
    <2>1. \A x \in Workers : x # w /\ Past(x)' => /\ Past(x) /\ At(x) # "none"
                                                  /\ Late(x) => Late(x)'
        BY <1>2 DEF Moves, Same, Past, PastClaim, Late
    <2>2. CASE u = w \/ v = w
        BY <1>1, <1>2, <1>4, <2>1, <2>2 DEF Same
    <2>3. CASE u # w /\ v # w
        BY <1>2, <2>1, <2>3 DEF CalmFacts, Claims, Same
    <2> QED BY <2>2, <2>3
<1>6. Aging'
    BY <1>1 DEF CalmFacts, Aging, Settled, Failed
<1> QED BY <1>1, <1>3, <1>5, <1>6 DEF CalmFacts, PutBack

\* A worker takes the queued job while older handlers run that have lost theirs.
LEMMA StartCalm ==
    ASSUME TypeOK, CalmFacts, NEW w \in Workers, Start(w)
    PROVE  CalmFacts'
<1> DEFINE r == [pc |-> "start", seen |-> 0, last |-> ~Retries, owns |-> TRUE]
<1>1. r \in Run /\ r.pc = "start" /\ r.owns = TRUE /\ r.last = ~Retries
    BY DEF Run, Retries
<1>2. runs' = [runs EXCEPT ![w] = r]
    BY DEF Start
<1> HIDE DEF r
<1>3. /\ At(w)' = "start" /\ runs'[w].owns /\ runs'[w].last = ~Retries
      /\ \A v \in Workers : v # w => runs'[v] = runs[v] /\ At(v)' = At(v)
    BY <1>1, <1>2, ConstantsAssumption DEF TypeOK, At
<1>4. /\ job \in [st : {"queued", "active", "delayed"}, tries : 0..RetryLimit]
      /\ job.st = "queued" /\ job' = [job EXCEPT !.st = "active"] /\ At(w) = "none"
      /\ RetryLimit \in Nat
    BY ConstantsAssumption DEF Start, TypeOK, At
<1>5. job' # NoJob /\ job'.st = "active" /\ job'.tries = job.tries /\ Retries' = Retries
    <2>1. job' \in Job /\ job'.st = "active" /\ job'.tries = job.tries
        BY <1>4 DEF Job
    <2>2. job' # NoJob
        BY <2>1, <1>4, ConstantsAssumption DEF Start
    <2> QED BY <2>1, <2>2 DEF Retries
<1>6. \A v \in Workers : At(v) # "none" => ~runs[v].owns /\ runs[v].last /\ v # w
    BY <1>4 DEF CalmFacts, Jobs, JobOfRun, JobTaken
<1>7. ASSUME NEW v \in Workers, At(v) # "none", RetryLimit > 0 PROVE Retries
    <2>1. runs[v] # NoRun
        BY <1>7 DEF At
    <2>2. job.tries = 0
        BY <1>4, <2>1 DEF CalmFacts, Jobs, FreshJob, Running, Start
    <2> QED BY <1>4, <1>7, <2>2 DEF Retries
<1>8. Jobs'
    <2>1. JobOfRun(w)'
        <3>1. ~runs'[w].last => RetryLimit > 0
            <4>1. Retries => RetryLimit > 0
                BY <1>4 DEF Retries
            <4> QED BY <1>3, <4>1, Zenon
        <3>2. runs'[w].last <=> ~Retries'
            BY <1>3, <1>5, Zenon DEF Retries
        <3> QED BY <1>3, <1>5, <3>1, <3>2 DEF JobOfRun, JobTaken
    <2>2. \A v \in Workers : v # w /\ At(v) # "none" => JobOfRun(v)'
        BY <1>3, <1>6 DEF JobOfRun
    <2>3. OneOther'
        BY <1>3, <1>6, <1>7 DEF CalmFacts, Jobs, OneOther
    <2>4. FreshJob'
        BY <1>5 DEF FreshJob
    <2> QED BY <1>3, <2>1, <2>2, <2>3, <2>4 DEF Jobs
<1>9. \A v \in Workers : Past(v)' => v # w /\ Past(v)
    BY <1>3 DEF Past, PastClaim
<1>10. Claims'
    BY <1>3, <1>9 DEF CalmFacts, Claims, Late
<1>11. UNCHANGED <<status, aged, cron>>
    BY DEF Start, rowVars
<1>12. ASSUME NEW v \in Workers, Past(v) PROVE status # "PENDING"
    BY <1>4, <1>6, <1>12 DEF CalmFacts, PutBack, Abandoned, JobTaken, Past, PastClaim
<1>13. PutBack' /\ Aging'
    BY <1>9, <1>11, <1>12 DEF CalmFacts, PutBack, Aging
<1> QED BY <1>8, <1>10, <1>13 DEF CalmFacts

\* When a handler ends, the others keep what they have: the job it ends was its own.
LEMMA EndCalm ==
    ASSUME TypeOK, CalmFacts, NEW w \in Workers,
           Acknowledge(w) \/ FailJob(w) \/ Crash(w)
    PROVE  CalmFacts'
<1>1. At(w) # "none" /\ Moves(w, "none") /\ UNCHANGED <<status, aged, cron>>
    <2>1. CASE Acknowledge(w) \/ FailJob(w)
        <3>1. \E after : End(w, after)
            BY <2>1 DEF Acknowledge, FailJob
        <3> QED BY <2>1, <3>1, EndMoves DEF Acknowledge, FailJob, End, In, At, rowVars
    <2>2. CASE Crash(w)
        <3>1. runs[w] # NoRun /\ runs' = [runs EXCEPT ![w] = NoRun]
            BY <2>2 DEF Crash
        <3>2. At(w) # "none"
            BY <3>1 DEF At, TypeOK, Run
        <3> QED BY <2>2, <3>1, <3>2 DEF Crash, Moves, At, TypeOK, rowVars, queueVars
    <2> QED BY <2>1, <2>2
<1>2. /\ job' = job \/ (Holds(w) /\ job' \in {NoJob, AfterFailure})
      /\ job' = job \/ FailJob(w) \/ Acknowledge(w)
      /\ FailJob(w) /\ job' # job => job' = AfterFailure
    BY DEF Acknowledge, FailJob, Crash, End, queueVars
<1>3. ASSUME NEW v \in Workers, v # w, At(v) # "none", job' = NoJob \/ job' # job
      PROVE  ~runs[v].owns
    <2>1. CASE Holds(w)
        BY <1>1, <1>3, <2>1 DEF Holds, CalmFacts, Jobs, OneOther
    <2>2. CASE ~Holds(w)
        BY <1>2, <1>3, <2>2 DEF CalmFacts, Jobs, JobOfRun, JobTaken
    <2> QED BY <2>1, <2>2
<1>4. ASSUME NEW v \in Workers, v # w, At(v) # "none"
      PROVE  runs'[v].owns = runs[v].owns /\ runs'[v].last = runs[v].last
    <2>1. runs[v] \in Run
        BY <1>4 DEF At, TypeOK
    <2>2. runs'[v] = runs[v] \/ (job' = NoJob /\ runs'[v] = [runs[v] EXCEPT !.owns = FALSE])
        <3>1. CASE Crash(w)
            BY <1>4, <3>1 DEF Crash
        <3>2. CASE Acknowledge(w) \/ FailJob(w)
            <4>1. runs'[v] = Owning(job')[v]
                BY <1>4, <3>2 DEF Acknowledge, FailJob, End, Owning
            <4> QED BY <1>4, <4>1 DEF Owning, At
        <3> QED BY <3>1, <3>2
    <2>3. job' = NoJob => ~runs[v].owns
        BY <1>3, <1>4
    <2>4. /\ [runs[v] EXCEPT !.owns = FALSE].owns = FALSE
          /\ [runs[v] EXCEPT !.owns = FALSE].last = runs[v].last
          /\ runs[v].owns \in BOOLEAN
        BY <2>1 DEF Run
    <2> QED BY <2>2, <2>3, <2>4
<1>5. \A v \in Workers : At(v)' # "none" => v # w /\ At(v) # "none" /\ At(v)' = At(v)
    BY <1>1 DEF Moves
<1>6. AfterFailure # NoJob => AfterFailure.st = "delayed"
    BY DEF AfterFailure
<1>7. Jobs'
    <2>1. ASSUME NEW v \in Workers, At(v)' # "none" PROVE JobOfRun(v)'
        <3>1. /\ v # w /\ At(v) # "none" /\ JobOfRun(v)
              /\ runs'[v].owns = runs[v].owns /\ runs'[v].last = runs[v].last
            BY <1>4, <1>5, <2>1 DEF CalmFacts, Jobs
        <3>2. CASE job' = job
            BY <3>1, <3>2 DEF JobOfRun, JobTaken, Retries
        <3>3. CASE job' # job
            BY <1>3, <3>1, <3>3 DEF JobOfRun
        <3> QED BY <3>2, <3>3
    <2>2. OneOther'
        BY <1>4, <1>5 DEF CalmFacts, Jobs, OneOther
    <2>3. Running' => Running
        BY <1>1, <1>5 DEF Running, At, TypeOK, Run
    <2>4. FreshJob'
        BY <1>2, <1>6, <2>3 DEF CalmFacts, Jobs, FreshJob
    <2> QED BY <2>1, <2>2, <2>4 DEF Jobs
<1>8. \A v \in Workers : Past(v)' => /\ v # w /\ At(v) # "none" /\ At(v)' = At(v) /\ Past(v)
                                     /\ runs'[v].last = runs[v].last
    BY <1>4, <1>5 DEF Past, PastClaim
<1>9. Claims'
    BY <1>8 DEF CalmFacts, Claims, Late
<1>10. Aging'
    BY <1>1, <1>8 DEF CalmFacts, Aging
<1>11. ASSUME NEW v \in Workers, Past(v)', status = "PENDING", runs[v].last
       PROVE  Abandoned(v)'
    <2>1. Abandoned(v) /\ v # w
        BY <1>8, <1>11 DEF CalmFacts, PutBack
    <2>2. At(w) = "threw" /\ runs[w].owns /\ ~runs[w].last /\ JobTaken
        BY <1>1, <2>1 DEF Abandoned
    <2>3. JobTaken'
        <3>1. CASE job' = job
            BY <2>2, <3>1 DEF JobTaken
        <3>2. CASE job' # job
            <4>1. FailJob(w) /\ Holds(w) /\ job' = AfterFailure
                BY <1>2, <2>2, <3>2 DEF Acknowledge, In, At
            <4>2. Retries
                BY <1>1, <2>2, <4>1 DEF CalmFacts, Jobs, JobOfRun, Holds
            <4>3. job' = [st |-> "delayed", tries |-> job.tries + 1]
                BY <4>1, <4>2 DEF AfterFailure
            <4>4. job.tries + 1 \in Nat
                BY <4>1 DEF Holds, TypeOK
            <4> QED BY <4>3, <4>4, ConstantsAssumption DEF JobTaken
        <3> QED BY <3>1, <3>2
    <2> QED BY <1>4, <1>5, <1>8, <1>11, <2>1, <2>3 DEF Abandoned
<1>12. PutBack'
    BY <1>1, <1>8, <1>11 DEF CalmFacts, PutBack
<1> QED BY <1>7, <1>9, <1>10, <1>12 DEF CalmFacts

\* A stop fails the job under its handler: a retry comes, unless it was the last.
LEMMA ShutdownCalm ==
    ASSUME TypeOK, CalmFacts, NEW w \in Workers, Shutdown(w)
    PROVE  CalmFacts'
<1>1. /\ At(w) # "none" /\ runs[w].owns /\ job # NoJob /\ job.st = "active"
      /\ job' = AfterFailure /\ UNCHANGED <<status, aged, cron>>
    BY DEF Shutdown, Holds, At, TypeOK, Run, rowVars
<1>2. \A v \in Workers : At(v)' = At(v)
    BY OwningIsStill DEF Shutdown, At
<1>3. ASSUME NEW v \in Workers, At(v) # "none"
      PROVE  /\ runs'[v].last = runs[v].last
             /\ runs'[v].owns = (runs[v].owns /\ job' # NoJob)
    <2>1. runs[v] \in Run /\ runs[v] # NoRun
        BY <1>3 DEF At, TypeOK
    <2>2. runs'[v] = IF job' = NoJob THEN [runs[v] EXCEPT !.owns = FALSE] ELSE runs[v]
        BY <2>1 DEF Shutdown, Owning
    <2>3. /\ [runs[v] EXCEPT !.owns = FALSE].owns = FALSE
          /\ [runs[v] EXCEPT !.owns = FALSE].last = runs[v].last
          /\ runs[v].owns \in BOOLEAN
        BY <2>1 DEF Run
    <2>4. CASE job' = NoJob
        BY <2>2, <2>3, <2>4
    <2>5. CASE job' # NoJob
        BY <2>2, <2>3, <2>5
    <2> QED BY <2>4, <2>5
<1>4. runs[w].last <=> ~Retries
    BY <1>1 DEF CalmFacts, Jobs, JobOfRun
<1>5. IF Retries THEN job' # NoJob /\ job'.st = "delayed" ELSE job' = NoJob
    <2>1. job.tries + 1 \in Nat
        BY <1>1 DEF TypeOK
    <2> QED BY <1>1, <2>1, ConstantsAssumption DEF AfterFailure
<1>6. \A v \in Workers : At(v) # "none" /\ v # w => ~runs[v].owns
    BY <1>1 DEF CalmFacts, Jobs, OneOther
<1>7. Jobs'
    <2>1. ASSUME NEW v \in Workers, At(v) # "none" PROVE JobOfRun(v)'
        <3>1. JobOfRun(v) /\ (v # w => ~runs[v].owns)
            BY <1>6, <2>1 DEF CalmFacts, Jobs
        <3> QED BY <1>3, <1>4, <1>5, <2>1, <3>1 DEF JobOfRun, JobTaken
    <2>2. OneOther'
        BY <1>2, <1>3 DEF CalmFacts, Jobs, OneOther
    <2>3. FreshJob'
        BY <1>5 DEF FreshJob
    <2> QED BY <1>2, <2>1, <2>2, <2>3 DEF Jobs
<1>8. \A v \in Workers : Past(v)' => Past(v) /\ At(v) # "none" /\ runs'[v].last = runs[v].last
    BY <1>2, <1>3 DEF Past, PastClaim
<1>9. Claims' /\ Aging'
    BY <1>1, <1>2, <1>8 DEF CalmFacts, Claims, Late, Aging
<1>10. ASSUME NEW v \in Workers, Abandoned(v) PROVE Abandoned(v)'
    <2>1. v # w
        BY <1>1, <1>10 DEF Abandoned
    <2>2. Retries
        BY <1>1, <1>4, <1>10, <2>1 DEF Abandoned
    <2>3. ~runs'[v].owns
        BY <1>3, <1>10, <2>1 DEF Abandoned, Shutdown, Owning
    <2> QED BY <1>2, <1>3, <1>5, <1>10, <2>2, <2>3 DEF Abandoned, JobTaken
<1>11. PutBack'
    BY <1>1, <1>2, <1>8, <1>10 DEF CalmFacts, PutBack
<1> QED BY <1>7, <1>9, <1>11 DEF CalmFacts

\* Minutes that pass while no handler has stalled pass while none runs.
LEMMA MinutesCalm ==
    ASSUME TypeOK, CalmFacts, ~Running, Expire \/ Wake \/ Age \/ Cleanup
    PROVE  CalmFacts'
<1>1. \A v \in Workers : At(v) = "none"
    BY DEF Running, At
<1>2. \A v \in Workers : At(v)' = "none"
    <2>1. runs' = runs \/ runs' = Owning(job')
        BY DEF Expire, Wake, Age, Cleanup
    <2>2. CASE runs' = runs
        BY <1>1, <2>2 DEF At
    <2>3. CASE runs' = Owning(job')
        BY <1>1, <2>3, OwningIsStill DEF At
    <2> QED BY <2>1, <2>2, <2>3
<1>3. ~Running'
    <2>1. runs' \in [Workers -> Run \cup {NoRun}]
        BY OwningTypes DEF Expire, Wake, Age, Cleanup, TypeOK
    <2> QED BY <1>2, <2>1 DEF Running, At, Run
<1>4. cron' = "stale" => \/ status' = "PROCESSING" /\ aged'
                         \/ status' \in Settled \cup {"GONE"}
    BY DEF CalmFacts, Aging, Expire, Wake, Age, Cleanup, Remove, rowVars, queueVars
<1> QED BY <1>2, <1>3, <1>4
        DEF CalmFacts, Jobs, OneOther, FreshJob, Claims, PutBack, Aging, Past, PastClaim

\* The reconciler puts back only a row whose handler is gone, and sends a job only
\* where none waits.
LEMMA CronCalm ==
    ASSUME TypeOK, CalmFacts, Cron
    PROVE  CalmFacts'
<1>1. runs' = runs /\ aged' = aged
    BY DEF Cron, ScanStale, Recover, ScanPending, SendPending, rowVars
<1>2. job' = job \/ (job = NoJob /\ job' = Queued)
    BY DEF Cron, ScanStale, Recover, ScanPending, SendPending, Send, queueVars
<1>3. Jobs'
    <2>1. CASE job' = job
        BY <1>1, <2>1 DEF CalmFacts, Jobs, JobOfRun, JobTaken, Retries, OneOther,
                          FreshJob, Running, At
    <2>2. CASE job = NoJob /\ job' = Queued
        <3>1. \A v \in Workers : At(v) # "none" => ~runs[v].owns
            BY <2>2 DEF CalmFacts, Jobs, JobOfRun, JobTaken
        <3>2. job'.tries = 0
            BY <2>2 DEF Queued
        <3> QED BY <1>1, <3>1, <3>2 DEF CalmFacts, Jobs, JobOfRun, OneOther, FreshJob, At
    <2> QED BY <1>2, <2>1, <2>2
<1>4. Claims'
    BY <1>1 DEF CalmFacts, Claims, Past, Late, At
<1>5. \A v \in Workers : Abandoned(v) => Abandoned(v)'
    BY <1>1, <1>2 DEF Abandoned, JobTaken, At
<1>6. CASE Recover /\ status = "PROCESSING"
    <2>1. aged /\ cron' = "idle" /\ status' = "PENDING"
        BY <1>6 DEF Recover, CalmFacts, Aging, Settled, Failed
    <2>2. \A v \in Workers : ~Past(v)'
        BY <1>1, <1>6, <2>1 DEF CalmFacts, Aging, Past, At
    <2>3. PutBack' /\ Aging'
        BY <2>1, <2>2 DEF PutBack, Aging
    <2> QED BY <1>3, <1>4, <2>3 DEF CalmFacts
<1>7. CASE ~(Recover /\ status = "PROCESSING")
    <2>1. status' = status /\ (cron' = "stale" => status = "PROCESSING" /\ aged)
        BY <1>7 DEF Cron, ScanStale, Recover, ScanPending, SendPending, Stale, rowVars
    <2>2. PutBack' /\ Aging'
        BY <1>1, <1>5, <2>1 DEF CalmFacts, PutBack, Aging, Past, At
    <2> QED BY <1>3, <1>4, <2>2 DEF CalmFacts
<1> QED BY <1>6, <1>7

\* Of what the owner does, only a resend makes a row wait again.
LEMMA OwnerCalm ==
    ASSUME TypeOK, CalmFacts, Owner \/ UNCHANGED vars, requests' = requests
    PROVE  CalmFacts'
<1>1. UNCHANGED <<runs, job, cron, aged>> /\ status' \in {status, "CANCELED", "GONE"}
    <2>1. CASE Redeliver
        BY <2>1 DEF Redeliver, TypeOK
    <2>2. CASE ~Redeliver
        BY <2>2 DEF Owner, Disable, Enable, FilterRead, FilterCancel, Entitle,
                    AskRedeliver, Delete, CancelPending, Remove, vars, rowVars, queueVars
    <2> QED BY <2>1, <2>2
<1>2. Jobs' /\ Claims'
    BY <1>1 DEF CalmFacts, Jobs, JobOfRun, JobTaken, Retries, OneOther, FreshJob, Running,
                At, Claims, Past, Late
<1>3. CASE status' = status
    BY <1>1, <1>2, <1>3 DEF CalmFacts, PutBack, Aging, Abandoned, JobTaken, Past, At
<1>4. CASE status' \in {"CANCELED", "GONE"}
    BY <1>2, <1>4, SettledCalm DEF Settled
<1> QED BY <1>1, <1>3, <1>4

\* A quiet step changes neither the resends nor what has stalled, or ends the calm.
LEMMA CalmBefore ==
    ASSUME TypeOK, [Next]_vars, requests >= 1
    PROVE  /\ requests' >= 1
           /\ Calm' => /\ Calm /\ requests' = requests
                       /\ Expire \/ Wake \/ Age \/ Cleanup => ~Running
<1>1. requests' = requests \/ requests' = requests + 1
    BY DEF Next, Start, Handler, Mishap, Read, CancelUnfit, Claim, Refuse, OpenAttempt,
           Accept, Decline, MarkSent, RecordPermanent, RecordRefused, RecordFailed, Reread,
           Acknowledge, FailJob, End, LoseReply, MarkSentFails, CallFails, HealthFails,
           Crash, Shutdown, Expire, Wake, Age, Cron, ScanStale, Recover, ScanPending,
           SendPending, Cleanup, Owner, Disable, Enable, FilterRead, FilterCancel, Entitle,
           AskRedeliver, Redeliver, Delete, vars, ownerVars, requestVars
<1>2. ASSUME Elapse, Running PROVE stalled'
    BY <1>2, Zenon DEF Elapse
<1>3. stalled => stalled'
    <2>1. CASE Expire \/ Wake \/ Age \/ Cleanup
        <3>1. Elapse
            BY <2>1 DEF Expire, Wake, Age, Cleanup
        <3> QED BY <3>1 DEF Elapse
    <2>2. CASE ~(Expire \/ Wake \/ Age \/ Cleanup)
        BY <2>2
        DEF Next, Start, Handler, Mishap, Read, CancelUnfit, Claim, Refuse, OpenAttempt,
           Accept, Decline, MarkSent, RecordPermanent, RecordRefused, RecordFailed, Reread,
           Acknowledge, FailJob, End, LoseReply, MarkSentFails, CallFails, HealthFails,
           Crash, Shutdown, Cron, ScanStale, Recover, ScanPending,
           SendPending, Owner, Disable, Enable, FilterRead, FilterCancel, Entitle,
           AskRedeliver, Redeliver, Delete, vars, faultVars
    <2> QED BY <2>1, <2>2
<1>4. Expire \/ Wake \/ Age \/ Cleanup => Elapse
    BY DEF Expire, Wake, Age, Cleanup
<1>5. requests \in Nat
    BY DEF TypeOK
<1> QED BY <1>1, <1>2, <1>3, <1>4, <1>5 DEF Calm

\* While no handler stalls and nobody resends, no two handlers call the endpoint at
\* once, whatever the workers, the retry limit and the faults.
THEOREM Senders == Spec => []OneSender
<1>1. Init => SInv
    <2> SUFFICES ASSUME Init PROVE SInv
        OBVIOUS
    <2>1. (\A w \in Workers : At(w) = "none") /\ ~Running
        BY DEF Init, At, Running
    <2> QED BY <2>1 DEF Init, SInv, CalmFacts, Jobs, OneOther, FreshJob, Claims, PutBack,
                        Aging, Past, PastClaim
<1>2. TypeOK /\ SInv /\ [Next]_vars => SInv'
    <2> SUFFICES ASSUME TypeOK, SInv, [Next]_vars, Calm' PROVE CalmFacts'
        BY CalmBefore DEF SInv
    <2>1. /\ CalmFacts /\ requests' = requests
          /\ Expire \/ Wake \/ Age \/ Cleanup => ~Running
        BY CalmBefore DEF SInv
    <2>2. ASSUME NEW w \in Workers, Start(w) \/ Handler(w) \/ Mishap(w) PROVE CalmFacts'
        <3>1. CASE Start(w)
            BY <2>1, <3>1, StartCalm
        <3>2. CASE Claim(w)
            BY <2>1, <3>2, ClaimCalm
        <3>3. CASE Acknowledge(w) \/ FailJob(w) \/ Crash(w)
            BY <2>1, <3>3, EndCalm
        <3>4. CASE Shutdown(w)
            BY <2>1, <3>4, ShutdownCalm
        <3>5. CASE Read(w) \/ Refuse(w) \/ OpenAttempt(w) \/ Accept(w) \/ Decline(w)
                   \/ LoseReply(w) \/ Reread(w) \/ CallFails(w)
            <4>1. UNCHANGED <<status, aged>>
                BY <3>5 DEF Read, Refuse, OpenAttempt, Accept, Decline, LoseReply, Reread,
                            CallFails, rowVars
            <4> QED BY <2>1, <3>5, <4>1, StepsCalm
        <3>6. CASE CancelUnfit(w)
            <4>1. CASE status' = status
                BY <2>1, <3>6, <4>1, StepsCalm DEF CancelUnfit
            <4>2. CASE status' # status
                <5>1. /\ At(w) # "none" /\ job' = job /\ Goto(w, "done")
                      /\ status' \in Settled
                    BY <3>6, <4>2 DEF CancelUnfit, In, At, queueVars, Settled
                <5> QED BY <2>1, <5>1, SettlingCalm
            <4> QED BY <4>1, <4>2
        <3>7. CASE MarkSent(w) \/ MarkSentFails(w) \/ RecordPermanent(w)
                   \/ RecordRefused(w) \/ RecordFailed(w) \/ HealthFails(w)
            <4>1. CASE status = "PROCESSING"
                BY <2>1, <3>7, <4>1, VerdictsCalm
            <4>2. CASE status # "PROCESSING"
                <5>1. UNCHANGED <<status, aged>>
                    BY <3>7, <4>2 DEF MarkSent, MarkSentFails, RecordPermanent,
                        RecordRefused, RecordFailed, HealthFails, Verdict, Flips, rowVars
                <5> QED BY <2>1, <3>7, <5>1, StepsCalm
            <4> QED BY <4>1, <4>2
        <3> QED BY <2>2, <3>1, <3>2, <3>3, <3>4, <3>5, <3>6, <3>7 DEF Handler, Mishap
    <2>3. CASE Expire \/ Wake \/ Age \/ Cleanup
        BY <2>1, <2>3, MinutesCalm
    <2>4. CASE Cron
        BY <2>1, <2>4, CronCalm
    <2>5. CASE Owner \/ UNCHANGED vars
        BY <2>1, <2>5, OwnerCalm
    <2> QED BY <2>2, <2>3, <2>4, <2>5 DEF Next
<1>3. SInv => OneSender
    <2> SUFFICES ASSUME SInv, Calm, NEW v \in Workers, NEW w \in Workers,
                        In(v, "sending"), In(w, "sending")
                 PROVE  v = w
        BY DEF OneSender, Calm
    <2>1. At(v) = "sending" /\ At(w) = "sending"
        BY DEF In, At
    <2> QED BY <2>1 DEF SInv, CalmFacts, Claims, Past, PastClaim, Late
<1> QED BY <1>1, <1>2, <1>3, Types, PTL DEF Spec
==============================================================================
