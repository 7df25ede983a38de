---------------------------- MODULE MCTaskQueue ----------------------------
(* TaskQueue on a small instance for TLC. *)
EXTENDS TaskQueue, TLC
QueueSymmetry == Permutations(Models) \cup Permutations(Workers) \cup Permutations(Tokens)
============================================================================
