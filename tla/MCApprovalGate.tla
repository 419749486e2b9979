--------------------------- MODULE MCApprovalGate ---------------------------
(* Symmetry for the runs of ApprovalGate. *)
EXTENDS ApprovalGate, TLC

Symmetry == Permutations(Jobs) \cup Permutations(Approvals) \cup Permutations(Workers)
              \cup Permutations(Clients)
=============================================================================
