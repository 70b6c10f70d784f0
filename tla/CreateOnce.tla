----------------------------- MODULE CreateOnce -----------------------------
(* What the offline outbox and the idempotency table together promise: of    *)
(* the contents a member asks for under one request id, at most one is ever  *)
(* posted, and it is posted at most once.                                    *)
EXTENDS Sequences

CONSTANTS Keys, Payloads

VARIABLES wanted, made

avars == <<wanted, made>>

AbsInit == /\ wanted = [k \in Keys |-> {}]
           /\ made = [k \in Keys |-> <<>>]

(* The member submits content p under request id k, the first time or again. *)
Want(k, p) == /\ wanted' = [wanted EXCEPT ![k] = @ \cup {p}]
              /\ UNCHANGED made

(* The ledger gets one of the contents asked for, once. *)
Make(k, p) == /\ made[k] = <<>>
              /\ p \in wanted[k]
              /\ made' = [made EXCEPT ![k] = <<p>>]
              /\ UNCHANGED wanted

AbsNext == \E k \in Keys, p \in Payloads : Want(k, p) \/ Make(k, p)

AbsSpec == AbsInit /\ [][AbsNext]_avars
=============================================================================
