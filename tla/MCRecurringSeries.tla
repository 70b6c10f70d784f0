-------------------------- MODULE MCRecurringSeries --------------------------
EXTENDS RecurringSeries, TLC

\* A daily and an every-other-day schedule, ended by count, by date or never.
MCEnds == {[type |-> "INDEFINITE", n |-> 0], [type |-> "COUNT", n |-> 3],
           [type |-> "DATE", n |-> 3]}
MCShortEnds == {[type |-> "INDEFINITE", n |-> 0], [type |-> "COUNT", n |-> 2],
                [type |-> "DATE", n |-> 1]}
MCFewEnds == {[type |-> "INDEFINITE", n |-> 0], [type |-> "COUNT", n |-> 2]}
Daily == {1}
EveryOneOrTwo == {1, 2}
Today0 == {0}
Symmetric == Permutations(Workers)
==============================================================================
