---------------------------- MODULE MCPMDispatch ----------------------------
(* Model checking of PMDispatch on a plan of two subtasks, b after a.       *)
EXTENDS PMDispatch, TLC

CONSTANTS a, b

Chain == a :> {} @@ b :> {a}

\* In one round: b on top of the first attempt at a, with all the attempts at b there can be; or
\* all the attempts at a.  With a continuation: three attempts over both rounds.  Once b has been
\* attempted a pause stands for any reason to stop, since only a pause is looked at later.
Effort ==
    /\ attempt[a].number + attempt[b].number <= IF continues > 0 THEN 3 ELSE 5
    /\ attempt[b] # NoAttempt => attempt[a].number = 1 /\ stop # "stopped"

Interchangeable == Permutations(Stations)
=============================================================================
