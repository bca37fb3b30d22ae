---------------------------- MODULE MCTaskLedger ----------------------------
(* Model checking of TaskLedger: all of stopping and continuing one task,    *)
(* and its replacement by another.                                           *)
EXTENDS TaskLedger, TLC

Interchangeable == Permutations(Tasks)

\* Either one task alone, stopped and continued as often as the bounds allow; or a second
\* one that replaces it, with one stop and one continuation.  The replacement's own PM, of
\* which nothing in the life of the first depends, is not followed.
Alone     == Cardinality({t \in Tasks : row[t].status # "absent"}) <= 1
Replacing ==
    /\ Cardinality({t \in Tasks : row[t].status # "absent"
                                    /\ \A s \in Tasks : replacement[s] # t}) <= 1
    /\ \A s, r \in Tasks : replacement[s] = r => started[r] = "no"
    /\ requests <= 2 /\ \A t \in Tasks : disk[t] # None => disk[t].revision <= 3
Bounded   == Alone \/ Replacing
=============================================================================
