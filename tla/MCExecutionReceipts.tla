------------------------ MODULE MCExecutionReceipts ------------------------
(* Model checking of the execution receipts: model values for the numbers, *)
(* requests and processes, which are interchangeable among themselves.     *)
(* The file belongs to a station, with one asynchronous process at a time, *)
(* or to a worker, with two synchronous ones.                              *)
EXTENDS ExecutionReceipts, TLC

VARIABLE kind

Worker == INSTANCE ExecutionReceipts WITH Synchronous <- TRUE, MaxAlive <- 2

MCInit == Init /\ kind \in {"station", "worker"}

MCNext ==
    /\ UNCHANGED kind
    /\ \/ kind = "station" /\ Next
       \/ kind = "worker" /\ Worker!Next

MCSpec == MCInit /\ [][MCNext]_<<vars, kind>>

Interchangeable ==
    Permutations(Ids) \cup Permutations(Fingerprints) \cup Permutations(Owners)
=============================================================================
