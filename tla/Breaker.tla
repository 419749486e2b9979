------------------------------- MODULE Breaker -------------------------------
(***************************************************************************)
(* CircuitBreaker: calls pass, run for a while and report a success or a   *)
(* failure, late and in any order; the breaker counts failures, opens at a *)
(* threshold and lets calls through again after a recovery time.           *)
(***************************************************************************)
EXTENDS Integers

CONSTANTS Caller, Threshold, Recovery,
          MaxFailures, MaxBeats  \* bounds: failures counted, the clock

ASSUME BreakerAssumption == /\ Threshold \in Nat \ {0} /\ Recovery \in Nat
                            /\ MaxFailures \in Nat /\ MaxBeats \in Nat

VARIABLES circuit,   \* "closed", "open" or "half_open"
          failures,  \* failures since the last success
          openedAt,  \* when it was opened last
          beat,      \* the monotonic clock
          running,   \* the callers whose call runs
          failedAt   \* history: when a call failed last

breakerVars == <<circuit, failures, openedAt, beat, running, failedAt>>

Recovered == beat - openedAt >= Recovery

(* _can_pass(): the first call after the recovery time half-opens it, and a *)
(* half-open breaker lets everybody through                                 *)
Passes(c) ==
    /\ c \notin running
    /\ \/ circuit # "open" /\ UNCHANGED circuit
       \/ circuit = "open" /\ Recovered /\ circuit' = "half_open"
    /\ running' = running \union {c}
    /\ UNCHANGED <<failures, openedAt, beat, failedAt>>

(* CircuitOpenError *)
Refuses(c) ==
    /\ c \notin running /\ circuit = "open" /\ ~Recovered
    /\ UNCHANGED breakerVars

RecordSuccess(c) ==
    /\ c \in running
    /\ failures' = 0 /\ circuit' = "closed"
    /\ running' = running \ {c}
    /\ UNCHANGED <<openedAt, beat, failedAt>>

(* mutant: opened when the threshold is reached, not above it *)
RecordFailureOnce(c) ==
    /\ c \in running /\ failures < MaxFailures
    /\ failures' = failures + 1 /\ failedAt' = beat
    /\ IF failures + 1 = Threshold THEN circuit' = "open" /\ openedAt' = beat
       ELSE UNCHANGED <<circuit, openedAt>>
    /\ running' = running \ {c}
    /\ UNCHANGED beat

RecordFailure(c) ==
    /\ c \in running /\ failures < MaxFailures
    /\ failures' = failures + 1 /\ failedAt' = beat
    /\ IF failures + 1 >= Threshold THEN circuit' = "open" /\ openedAt' = beat
       ELSE UNCHANGED <<circuit, openedAt>>
    /\ running' = running \ {c}
    /\ UNCHANGED beat

(* the call is cancelled: neither a success nor a failure is recorded *)
CallCancelled(c) ==
    /\ c \in running
    /\ running' = running \ {c}
    /\ UNCHANGED <<circuit, failures, openedAt, beat, failedAt>>

Beat == beat < MaxBeats /\ beat' = beat + 1 /\ UNCHANGED <<circuit, failures, openedAt, running, failedAt>>

BreakerInit == /\ circuit = "closed" /\ failures = 0 /\ openedAt = 0 /\ beat = 0
               /\ running = {} /\ failedAt = 0

BreakerNext ==
    \/ Beat
    \/ \E c \in Caller: Passes(c) \/ Refuses(c) \/ RecordSuccess(c) \/ RecordFailure(c)
                     \/ CallCancelled(c)

BreakerSpec == BreakerInit /\ [][BreakerNext]_breakerVars

(***************************************************************************)
(* Properties.                                                             *)
(***************************************************************************)
BreakerTypes ==
    /\ circuit \in {"closed", "open", "half_open"} /\ running \subseteq Caller
    /\ failures \in Nat /\ openedAt \in Nat /\ failedAt \in Nat /\ beat \in Nat

(* What the breaker rests on: it is closed exactly while the failures are   *)
(* under the threshold, so that one failure of a half-open one opens it     *)
(* again; it was opened by the last failure; and it is half-open only when  *)
(* the recovery time has passed.                                            *)
BreakerInv ==
    /\ circuit = "closed" <=> failures < Threshold
    /\ failures >= Threshold => openedAt = failedAt
    /\ circuit = "half_open" => Recovered

(* A call starts only when fewer than Threshold failures came since the     *)
(* last success, or Recovery has passed since the last failure, however     *)
(* late and in whatever order the answers of earlier calls came.            *)
NoCallTooSoon ==
    [][\A c \in Caller: c \in running' \ running =>
          failures < Threshold \/ beat - failedAt >= Recovery]_breakerVars
=============================================================================
