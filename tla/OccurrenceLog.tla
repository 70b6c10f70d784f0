---------------------------- MODULE OccurrenceLog ----------------------------
(***************************************************************************)
(* What a recurring expense promises its group, with the queue, the worker *)
(* and the schedule left out: occurrences are numbered, each number is     *)
(* written to the ledger at most once and in order, nothing is written     *)
(* while the series is paused, and a closed series stays closed.           *)
(* RecurringSeries implements it.                                          *)
(***************************************************************************)
EXTENDS Naturals

VARIABLES
    high,   \* the highest occurrence number ever written
    log,    \* the occurrence numbers the ledger still holds
    phase   \* "live", "paused" or "closed"

logVars == <<high, log, phase>>

LogTypeOK ==
    /\ high \in Nat \ {0}
    /\ log \subseteq 1..high
    /\ phase \in {"live", "paused", "closed"}

\* The first occurrence is the expense the user saved.
LogInit == high = 1 /\ log = {1} /\ phase \in {"live", "closed"}

Write ==
    /\ phase = "live"
    /\ high' = high + 1
    /\ log' = log \cup {high'}
    /\ phase' \in {"live", "closed"}

\* The series is stopped, deleted from or edited: numbers may leave the log.
Trim ==
    /\ log' \subseteq log
    /\ UNCHANGED high
    /\ phase' \in IF phase = "closed" THEN {"closed"}
                                      ELSE {"live", "paused", "closed"}

LogNext == Write \/ Trim

LogSpec == LogInit /\ [][LogNext]_logVars
==============================================================================
