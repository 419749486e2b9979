---------------------------- MODULE PortalHealth ----------------------------
(***************************************************************************)
(* PortalHealthService: the health of a portal connector, a score with a   *)
(* count of consecutive failures, and the pause both lead to.  The three   *)
(* operations change the copy of the document that the caller holds; the   *)
(* save that each ends with is a step of the caller.                       *)
(***************************************************************************)
EXTENDS Integers

CONSTANTS
  AutoPauseThreshold, \* AUTO_PAUSE_THRESHOLD: consecutive failures that pause
  DecayOnFail,        \* HEALTH_DECAY_ON_FAIL
  GainOnSuccess,      \* HEALTH_GAIN_ON_SUCCESS
  PauseScore,         \* a score this low pauses
  ResumeScore,        \* a success at this score ends a pause
  ReauthScore,        \* the least score after re-authentication
  MaxScore            \* a new portal's score, and the greatest

ASSUME HealthAssumption ==
  /\ AutoPauseThreshold \in Nat \ {0}
  /\ DecayOnFail \in Nat /\ GainOnSuccess \in Nat
  /\ PauseScore \in Nat /\ ResumeScore \in Nat /\ ReauthScore \in Nat /\ MaxScore \in Nat
  /\ PauseScore < ReauthScore
  /\ PauseScore < ResumeScore
  /\ ReauthScore <= MaxScore

Health == [score : 0..MaxScore, fails : Nat, paused : BOOLEAN]

NewHealth == [score |-> MaxScore, fails |-> 0, paused |-> FALSE]

AtLeast(a, b) == IF a < b THEN b ELSE a
AtMost(a, b)  == IF a < b THEN a ELSE b

\* record_success: a pause ends only if the score has recovered.
RecordSuccess(h) ==
  LET score == AtMost(MaxScore, h.score + GainOnSuccess)
  IN  [score |-> score, fails |-> 0, paused |-> h.paused /\ score < ResumeScore]

\* Mutant: one more consecutive failure is tolerated.
RecordFailureLate(h) ==
  LET score == AtLeast(h.score - DecayOnFail, 0)
      fails == h.fails + 1
  IN  [score |-> score, fails |-> fails,
       paused |-> h.paused \/ fails > AutoPauseThreshold \/ score <= PauseScore]

\* record_failure: too many in a row, or too low a score, pauses the portal.
RecordFailure(h) ==
  LET score == AtLeast(h.score - DecayOnFail, 0)
      fails == h.fails + 1
  IN  [score |-> score, fails |-> fails,
       paused |-> h.paused \/ fails >= AutoPauseThreshold \/ score <= PauseScore]

\* PortalService.reauth.
Cured(h) == [score |-> AtLeast(h.score, ReauthScore), fails |-> 0, paused |-> FALSE]

\* What a pause is: exactly one of the two conditions that lead to it.
MustPause(h)     == h.fails >= AutoPauseThreshold \/ h.score <= PauseScore
PausedRightly(h) == h.paused <=> MustPause(h)
=============================================================================
