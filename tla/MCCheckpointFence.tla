-------------------------- MODULE MCCheckpointFence --------------------------
(* Model checking of CheckpointFence: processes are interchangeable. *)
EXTENDS CheckpointFence, TLC

Interchangeable == Permutations(Processes)
=============================================================================
