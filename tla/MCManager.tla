----------------------------- MODULE MCManager ------------------------------
(* Manager for the model checker: symmetry, for the runs without liveness. *)
(* The instances are not alike: only some of them are polled in time.      *)
EXTENDS Manager, TLC

Symmetry == Permutations(Callers) \cup Permutations(Models)
=============================================================================
