---------------------------- MODULE MCScheduler ----------------------------
(* The scheduler with interchangeable clients, for the safety runs. *)
EXTENDS Scheduler, TLC

ClientSymmetry == Permutations(Clients)
=============================================================================
