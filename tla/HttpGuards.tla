----------------------------- MODULE HttpGuards -----------------------------
(***************************************************************************)
(* What a request passes before its handler: the idempotency key of a      *)
(* write, looked up and recorded in Redis, and inside of it the sliding    *)
(* window of the rate limiter, one Lua script whose time the API process   *)
(* takes before it calls it.  Redis may fail at each of the calls.         *)
(***************************************************************************)
EXTENDS Integers, Sequences, FiniteSets

CONSTANTS GuardedRequest, IdemKey, NoKey,
          RateLimit, RateWindow,  \* rate_limit_requests, rate_limit_window_seconds
          MaxLag,                 \* bound: age of a time when its script runs
          MaxTicks                \* bound: the clock

ASSUME GuardAssumption == /\ {RateLimit, RateWindow, MaxLag, MaxTicks} \subseteq Nat
                          /\ IsFiniteSet(GuardedRequest) /\ NoKey \notin IdemKey

VARIABLES recorded,  \* the keys whose response is in Redis
          scores,    \* the sorted set of the bucket: its members with their scores
          admitted,  \* history: when the script let each member through
          clock,     \* the time
          guarded,   \* the requests: where each stands, its key and its time
          executed,  \* history: successful executions of each key, until it lapses
          lapsed     \* history: keys whose record was lost, or could not be read or written

guardVars == <<recorded, scores, admitted, clock, guarded, executed, lapsed>>

Ticks == 0..MaxTicks
Outside == [pc |-> "idle", key |-> NoKey, time |-> 0]

(* the members a script that was given the time t leaves *)
Kept(t) == {m \in scores: m.score > t - RateWindow}

GuardAt(p, pc) == guarded[p].pc = pc
GuardGoes(p, pc) == guarded' = [guarded EXCEPT ![p].pc = pc]
GuardEnds(p) == guarded' = [guarded EXCEPT ![p] = Outside]
Lapse(p) == lapsed' = lapsed \union ({guarded[p].key} \ {NoKey})

(***************************************************************************)
(* IdempotencyMiddleware                                                   *)
(***************************************************************************)
Arrive(p) ==
    /\ GuardAt(p, "idle")
    /\ \E k \in IdemKey \union {NoKey}:
         guarded' = [guarded EXCEPT ![p] = [pc |-> IF k = NoKey THEN "limit" ELSE "lookup",
                                            key |-> k, time |-> 0]]
    /\ UNCHANGED <<recorded, scores, admitted, clock, executed, lapsed>>

(* mutant: the key of the look-up is not the key of the record *)
LookUpOtherKey(p) ==
    /\ GuardAt(p, "lookup")
    /\ GuardGoes(p, "limit")
    /\ UNCHANGED <<recorded, scores, admitted, clock, executed, lapsed>>

(* a recorded response is returned, before the limiter is asked *)
LookUpKey(p) ==
    /\ GuardAt(p, "lookup")
    /\ IF guarded[p].key \in recorded THEN GuardEnds(p) ELSE GuardGoes(p, "limit")
    /\ UNCHANGED <<recorded, scores, admitted, clock, executed, lapsed>>

(* Redis raises: the request goes on as if it had no key *)
LookUpFails(p) ==
    /\ GuardAt(p, "lookup")
    /\ guarded' = [guarded EXCEPT ![p].pc = "limit", ![p].key = NoKey]
    /\ Lapse(p)
    /\ UNCHANGED <<recorded, scores, admitted, clock, executed>>

(***************************************************************************)
(* RateLimitMiddleware                                                     *)
(***************************************************************************)
TakeTime(p) ==
    /\ GuardAt(p, "limit")
    /\ guarded' = [guarded EXCEPT ![p].pc = "script", ![p].time = clock]
    /\ UNCHANGED <<recorded, scores, admitted, clock, executed, lapsed>>

(* mutant: off by one at the limit *)
RunScriptOver(p) ==
    /\ GuardAt(p, "script")
    /\ LET t == guarded[p].time
       IN  IF Cardinality(Kept(t)) > RateLimit
           THEN /\ scores' = Kept(t) /\ GuardEnds(p) /\ UNCHANGED admitted
           ELSE /\ scores' = Kept(t) \union {[member |-> Len(admitted) + 1, score |-> t]}
                /\ admitted' = Append(admitted, clock)
                /\ GuardGoes(p, "handle")
    /\ UNCHANGED <<recorded, clock, executed, lapsed>>

RunScript(p) ==
    /\ GuardAt(p, "script")
    /\ LET t == guarded[p].time
       IN  IF Cardinality(Kept(t)) >= RateLimit
           THEN /\ scores' = Kept(t) /\ GuardEnds(p) /\ UNCHANGED admitted
           ELSE /\ scores' = Kept(t) \union {[member |-> Len(admitted) + 1, score |-> t]}
                /\ admitted' = Append(admitted, clock)
                /\ GuardGoes(p, "handle")
    /\ UNCHANGED <<recorded, clock, executed, lapsed>>

(* Redis raises: the request is let through, and nothing is counted *)
ScriptFails(p) ==
    /\ GuardAt(p, "script")
    /\ GuardGoes(p, "handle")
    /\ UNCHANGED <<recorded, scores, admitted, clock, executed, lapsed>>

(***************************************************************************)
(* The handler, and the recording of its response.                         *)
(***************************************************************************)
HandlerSucceeds(p) ==
    /\ GuardAt(p, "handle")
    /\ IF guarded[p].key = NoKey THEN GuardEnds(p) /\ UNCHANGED executed
       ELSE /\ GuardGoes(p, "record")
            /\ executed' = IF guarded[p].key \in lapsed THEN executed
                           ELSE [executed EXCEPT ![guarded[p].key] = @ + 1]
    /\ UNCHANGED <<recorded, scores, admitted, clock, lapsed>>

(* a response that is no success is not recorded *)
HandlerRefuses(p) ==
    /\ GuardAt(p, "handle")
    /\ GuardEnds(p)
    /\ UNCHANGED <<recorded, scores, admitted, clock, executed, lapsed>>

RecordResponse(p) ==
    /\ GuardAt(p, "record")
    /\ recorded' = recorded \union {guarded[p].key}
    /\ GuardEnds(p)
    /\ UNCHANGED <<scores, admitted, clock, executed, lapsed>>

(* Redis raises, or the process dies with the response not recorded *)
RecordFails(p) ==
    /\ GuardAt(p, "record")
    /\ GuardEnds(p) /\ Lapse(p)
    /\ UNCHANGED <<recorded, scores, admitted, clock, executed>>

RecordExpires(k) ==
    /\ k \in recorded
    /\ recorded' = recorded \ {k} /\ lapsed' = lapsed \union {k}
    /\ UNCHANGED <<scores, admitted, clock, guarded, executed>>

(* the bucket's key expires with the window after its last member *)
GuardTick ==
    /\ clock < MaxTicks
    /\ \A p \in GuardedRequest: GuardAt(p, "script") => clock - guarded[p].time < MaxLag
    /\ clock' = clock + 1
    /\ scores' = IF \A i \in DOMAIN admitted: admitted[i] <= clock + 1 - RateWindow
                  THEN {} ELSE scores
    /\ UNCHANGED <<recorded, admitted, guarded, executed, lapsed>>

GuardInit ==
    /\ recorded = {} /\ scores = {} /\ admitted = <<>> /\ clock = 0
    /\ guarded = [p \in GuardedRequest |-> Outside]
    /\ executed = [k \in IdemKey |-> 0] /\ lapsed = {}

GuardNext ==
    \/ GuardTick
    \/ \E k \in IdemKey: RecordExpires(k)
    \/ \E p \in GuardedRequest:
         \/ Arrive(p) \/ LookUpKey(p) \/ LookUpFails(p)
         \/ TakeTime(p) \/ RunScript(p) \/ ScriptFails(p)
         \/ HandlerSucceeds(p) \/ HandlerRefuses(p) \/ RecordResponse(p) \/ RecordFails(p)

GuardSpec == GuardInit /\ [][GuardNext]_guardVars

(***************************************************************************)
(* Properties.                                                             *)
(***************************************************************************)
GuardTypes ==
    /\ recorded \subseteq IdemKey /\ lapsed \subseteq IdemKey /\ clock \in Ticks
    /\ scores \subseteq [member: DOMAIN admitted, score: Ticks] /\ admitted \in Seq(Ticks)
    /\ executed \in [IdemKey -> Nat]
    /\ guarded \in [GuardedRequest -> [pc: {"idle", "lookup", "limit", "script", "handle", "record"},
                                       key: IdemKey \union {NoKey}, time: Ticks]]

(* A keyed request succeeds at most as often as requests with the key       *)
(* overlap, as long as its record can be read and written and has not       *)
(* expired: sent again after the answer, it is answered from the record.    *)
ExecutedOnce ==
    \A k \in IdemKey \ lapsed:
      executed[k] + Cardinality({p \in GuardedRequest: guarded[p].key = k
                                                       /\ guarded[p].pc \in {"limit", "script", "handle"}})
        <= Cardinality(GuardedRequest)

(* The script lets through at most RateLimit requests in any stretch of     *)
(* time shorter than the window by the largest lag of a request's time: a   *)
(* request that waited leaves the window earlier than it should.            *)
WindowHolds ==
    \A t \in Ticks:
      Cardinality({i \in DOMAIN admitted: /\ t - (RateWindow - MaxLag) < admitted[i]
                                          /\ admitted[i] <= t}) <= RateLimit
=============================================================================
