-------------------------- MODULE MCApplyPipeline --------------------------
(* Model values and symmetry for the runs of ApplyPipeline. *)
EXTENDS ApplyPipeline, TLC

Symmetry == Permutations(Jobs) \cup Permutations(Apps) \cup Permutations(Clients)
              \cup Permutations(Workers)
=============================================================================
