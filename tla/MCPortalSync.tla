---------------------------- MODULE MCPortalSync ----------------------------
(* Healths to start from and symmetry for the runs of PortalSync. *)
EXTENDS PortalSync, TLC

\* The health of a new portal after n failures in a row.
AfterFailures(n) == [score |-> MaxScore - n * DecayOnFail, fails |-> n,
                     paused |-> n >= AutoPauseThreshold]

Healthy == {NewHealth}
Ailing  == {AfterFailures(4)}
Mixed   == {AfterFailures(4), AfterFailures(5)}

Symmetry == Permutations(Portals) \cup Permutations(Clients) \cup Permutations(Workers)
=============================================================================
