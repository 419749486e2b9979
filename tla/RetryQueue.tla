----------------------------- MODULE RetryQueue -----------------------------
(***************************************************************************)
(* What a worker topic promises its publishers, whatever the worker does   *)
(* with a message: messages are taken oldest first, one at a time by each  *)
(* worker; a message whose handling fails is queued again behind the       *)
(* others until it has been handled MaxHandleAttempts times, and only then *)
(* is it buried; a worker may die, and its message comes back or is gone.  *)
(* A message is represented by the number of times it has been handled     *)
(* without success.                                                        *)
(***************************************************************************)
EXTENDS Naturals, Sequences

CONSTANTS
  Workers,           \* processes that take messages
  MaxHandleAttempts, \* times a message is handled before it is buried
  MayDie             \* whether a worker may die with a message in hand

VARIABLES
  waiting,  \* failures so far of the messages waiting, oldest first
  running,  \* per worker <<failures so far>> of its message, <<>> when idle
  buried    \* failures of the messages buried, oldest first

vars == <<waiting, running, buried>>

Init ==
  /\ waiting = <<>>
  /\ running = [w \in Workers |-> <<>>]
  /\ buried = <<>>

Submit == waiting' = Append(waiting, 0) /\ UNCHANGED <<running, buried>>

Take(w) ==
  /\ running[w] = <<>>
  /\ waiting # <<>>
  /\ running' = [running EXCEPT ![w] = <<Head(waiting)>>]
  /\ waiting' = Tail(waiting)
  /\ UNCHANGED buried

Finish(w) ==
  /\ running[w] # <<>>
  /\ running' = [running EXCEPT ![w] = <<>>]
  /\ UNCHANGED <<waiting, buried>>

Retry(w) ==
  /\ running[w] # <<>>
  /\ running[w][1] + 1 < MaxHandleAttempts
  /\ waiting' = Append(waiting, running[w][1] + 1)
  /\ running' = [running EXCEPT ![w] = <<>>]
  /\ UNCHANGED buried

Bury(w) ==
  /\ running[w] # <<>>
  /\ running[w][1] + 1 = MaxHandleAttempts
  /\ buried' = Append(buried, running[w][1] + 1)
  /\ running' = [running EXCEPT ![w] = <<>>]
  /\ UNCHANGED waiting

\* A worker that dies leaves its message as it was, to be taken next.
Redeliver(w) ==
  /\ MayDie
  /\ running[w] # <<>>
  /\ waiting' = running[w] \o waiting
  /\ running' = [running EXCEPT ![w] = <<>>]
  /\ UNCHANGED buried

Next == Submit \/ \E w \in Workers :
                   Take(w) \/ Finish(w) \/ Retry(w) \/ Bury(w) \/ Redeliver(w)

Spec == Init /\ [][Next]_vars
=============================================================================
