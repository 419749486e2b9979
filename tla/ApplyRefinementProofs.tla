------------------------ MODULE ApplyRefinementProofs ------------------------
(***************************************************************************)
(* With Kafka the apply pipeline implements the worker topic of RetryQueue *)
(* for every value of the constants: whatever ApplyWorker.handle does with *)
(* the documents, its effect on job.apply and job.dlq is one of the steps  *)
(* of the promise, or none.                                                *)
(***************************************************************************)
EXTENDS ApplyPipelineProofs

\* The refinement mapping: messages by the number of times they have failed.
Failures(s) == [i \in DOMAIN s |-> s[i].attempts]
Busy == [w \in Workers |-> IF wpc[w] = "idle" THEN <<>> ELSE <<wmsg[w].attempts>>]

-----------------------------------------------------------------------------
(* The mapping of queues.                                                  *)

\* No message, no failures.
LEMMA NoFailures == Failures(<<>>) = <<>>
BY DEF Failures

\* A message put behind the others is mapped behind the others.
LEMMA FailuresAppend ==
  ASSUME NEW s \in Seq(Message), NEW m \in Message
  PROVE  Failures(Append(s, m)) = Append(Failures(s), m.attempts)
BY DEF Failures

\* A message put before the others is mapped before the others.
LEMMA FailuresPrepend ==
  ASSUME NEW s \in Seq(Message), NEW m \in Message
  PROVE  Failures(<<m>> \o s) = <<m.attempts>> \o Failures(s)
BY DEF Failures

\* Taking the oldest message takes the oldest one of the mapped queue.
LEMMA FailuresTail ==
  ASSUME NEW s \in Seq(Message), s # <<>>
  PROVE  /\ Failures(s) # <<>>
         /\ Failures(Tail(s)) = Tail(Failures(s))
         /\ Head(Failures(s)) = Head(s).attempts
BY DEF Failures

-----------------------------------------------------------------------------
(* The mapping of workers.                                                 *)

\* A worker whose handle() is over is idle again.
LEMMA BusyFreed ==
  ASSUME TypeOK, NEW w \in Workers, Return(w)
  PROVE  Busy' = [Busy EXCEPT ![w] = <<>>]
BY DEF TypeOK, WorkersOK, Return, Busy

\* A worker that gets on with its message stays with it.
LEMMA BusyKept ==
  ASSUME TypeOK, NEW w \in Workers, wpc[w] # "idle", NEW pc, pc # "idle",
         WGoto(w, pc), wmsg' = wmsg
  PROVE  Busy' = Busy
BY DEF TypeOK, WorkersOK, WGoto, Busy

-----------------------------------------------------------------------------
(* Steps.                                                                  *)

\* Steps that touch neither a topic nor what a worker has in hand.
Apart == Failures(topic)' = Failures(topic) /\ Failures(dlq)' = Failures(dlq) /\ Busy' = Busy

\* Seen from the topic such a step is none.
LEMMA ApartStutters ==
  ASSUME Apart
  PROVE  UNCHANGED Topic!vars
BY DEF Apart, Topic!vars, Failures, Busy

\* A request publishes one new message or none.
LEMMA RequestsSubmit ==
  ASSUME TypeInv, NEW c \in Clients,
         Ask(c) \/ Serve(c) \/ PublishFails(c) \/ RequestBreaks(c)
  PROVE  Apart \/ Topic!Submit
<1>1. wpc' = wpc /\ wmsg' = wmsg /\ dlq' = dlq
  BY DEF Ask, Serve, PublishFails, RequestBreaks, QueueReuse, QueueFresh, Decide, Retry, Cancel,
     AnswerAndResume, SubmitOtp, CreateApp, JobApplying, RequeuePending, ResaveActive, SaveCopy,
     ReadReleased, ReleaseJob, RecordDecision, PublishJobApply, busVars, workerVars
<1>2. topic' = topic \/ topic' = Append(topic, Request(c))
  BY DEF Ask, Serve, PublishFails, RequestBreaks, QueueReuse, QueueFresh, Decide, Retry, Cancel,
     AnswerAndResume, SubmitOtp, CreateApp, JobApplying, RequeuePending, ResaveActive, SaveCopy,
     ReadReleased, ReleaseJob, RecordDecision, PublishJobApply, busVars
<1>3. Busy' = Busy /\ Failures(dlq)' = Failures(dlq)
  BY <1>1 DEF Busy, Failures
<1>4. CASE topic' = topic
  BY <1>3, <1>4 DEF Apart, Failures
<1>5. CASE topic' = Append(topic, Request(c))
  <2>1. Request(c) \in Message /\ Request(c).attempts = 0 /\ topic \in Seq(Message)
    BY RequestType DEF TypeInv, TypeOK, BusOK
  <2>2. Failures(topic)' = Append(Failures(topic), 0)
    BY <1>5, <2>1, FailuresAppend
  <2> QED BY <1>3, <2>2 DEF Topic!Submit, Failures, Busy
<1> QED BY <1>2, <1>4, <1>5

\* Receive takes the oldest message.
LEMMA ReceiveTakes ==
  ASSUME TypeInv, NEW w \in Workers, Receive(w)
  PROVE  Topic!Take(w)
<1>1. topic \in Seq(Message) /\ topic # <<>> /\ Head(topic) \in Message
  BY DEF TypeInv, TypeOK, BusOK, Receive
<1>2. /\ Failures(topic) # <<>>
      /\ Failures(topic)' = Tail(Failures(topic))
      /\ Head(Failures(topic)) = Head(topic).attempts
  BY <1>1, FailuresTail DEF Receive
<1>3. Busy[w] = <<>> /\ Busy' = [Busy EXCEPT ![w] = <<Head(topic).attempts>>]
  BY DEF Receive, WGoto, Busy, TypeInv, TypeOK, WorkersOK
<1>4. Failures(dlq)' = Failures(dlq)
  BY DEF Receive
<1>5. Busy' = [Busy EXCEPT ![w] = <<Head(Failures(topic))>>]
  BY <1>2, <1>3
<1> QED BY <1>2, <1>3, <1>4, <1>5 DEF Topic!Take, Failures, Busy

\* DeferApp and Notify end the handling of a message.
LEMMA ReturnFinishes ==
  ASSUME TypeInv, NEW w \in Workers, wpc[w] # "idle", Return(w), UNCHANGED busVars
  PROVE  Topic!Finish(w)
<1>1. Busy[w] # <<>> /\ Busy' = [Busy EXCEPT ![w] = <<>>]
  BY BusyFreed DEF Busy, TypeInv
<1>2. Failures(topic)' = Failures(topic) /\ Failures(dlq)' = Failures(dlq)
  BY DEF busVars
<1> QED BY <1>1, <1>2 DEF Topic!Finish, Failures, Busy

\* A handler that raises has its message retried or buried.
LEMMA RaiseRoutes ==
  ASSUME TypeInv, Delivery = "kafka", NEW w \in Workers, HandleRaises(w)
  PROVE  Topic!Retry(w) \/ Topic!Bury(w)
<1> DEFINE m == wmsg[w]
<1>1. Busy[w] # <<>> /\ Busy[w][1] = m.attempts /\ Busy' = [Busy EXCEPT ![w] = <<>>]
  <2>1. wpc[w] # "idle" /\ Return(w)
    BY DEF HandleRaises
  <2>2. Busy' = [Busy EXCEPT ![w] = <<>>]
    BY <2>1, BusyFreed DEF TypeInv
  <2>3. Busy[w] = <<wmsg[w].attempts>>
    BY <2>1 DEF Busy
  <2> QED BY <2>2, <2>3
<1>2. /\ m \in Message /\ topic \in Seq(Message) /\ dlq \in Seq(Message)
      /\ m.attempts < MaxHandleAttempts
  BY DEF TypeInv, TypeOK, BusOK, WorkersOK, AttemptsLeft
<1>3. Counted(m) \in Message /\ Counted(m).attempts = m.attempts + 1 /\ m.attempts \in Nat
  BY <1>2, MessageFields
<1>4. RouteFailure(wmsg[w])
  BY DEF HandleRaises
<1>5. CASE /\ m.attempts + 1 >= MaxHandleAttempts
           /\ dlq' = Append(dlq, Counted(m)) /\ topic' = topic
  <2>1. m.attempts + 1 = MaxHandleAttempts
    <3>1. m.attempts \in Nat /\ m.attempts < MaxHandleAttempts /\ m.attempts + 1 >= MaxHandleAttempts
      BY <1>2, <1>3, <1>5
    <3> HIDE DEF m
    <3> QED BY <3>1, PipelineAssumption
  <2>2. Failures(dlq)' = Append(Failures(dlq), m.attempts + 1)
    BY <1>2, <1>3, <1>5, FailuresAppend
  <2>3. Failures(topic)' = Failures(topic)
    BY <1>5
  <2>4. Failures(dlq)' = Append(Failures(dlq), Busy[w][1] + 1)
    BY <1>1, <2>2
  <2> QED BY <1>1, <2>1, <2>3, <2>4 DEF Topic!Bury, Failures, Busy
<1>6. CASE /\ m.attempts + 1 < MaxHandleAttempts
           /\ topic' = Append(topic, Counted(m)) /\ dlq' = dlq
  <2>1. Failures(topic)' = Append(Failures(topic), m.attempts + 1)
    BY <1>2, <1>3, <1>6, FailuresAppend
  <2>2. Failures(dlq)' = Failures(dlq)
    BY <1>6
  <2>3. Failures(topic)' = Append(Failures(topic), Busy[w][1] + 1)
    BY <1>1, <2>1
  <2> QED BY <1>1, <1>6, <2>2, <2>3 DEF Topic!Retry, Failures, Busy
<1> QED BY <1>4, <1>5, <1>6 DEF RouteFailure

\* A worker that dies loses its message or leaves it to be taken next.
LEMMA CrashLosesOrRedelivers ==
  ASSUME TypeInv, Delivery = "kafka", NEW w \in Workers, Crash(w)
  PROVE  Topic!Finish(w) \/ Topic!Redeliver(w)
<1>1. "crash" \in Faults /\ wpc[w] # "idle" /\ Return(w)
  BY DEF Crash
<1>2. CASE UNCHANGED busVars
  BY <1>1, <1>2, ReturnFinishes
<1>3. CASE topic' = <<wmsg[w]>> \o topic /\ dlq' = dlq
  <2>1. wmsg[w] \in Message /\ topic \in Seq(Message)
    BY DEF TypeInv, TypeOK, BusOK, WorkersOK
  <2>2. /\ Busy[w] # <<>> /\ Busy[w] = <<wmsg[w].attempts>>
        /\ Busy' = [Busy EXCEPT ![w] = <<>>]
    BY <1>1, BusyFreed DEF Busy, TypeInv
  <2>3. Failures(topic)' = <<wmsg[w].attempts>> \o Failures(topic)
    BY <1>3, <2>1, FailuresPrepend
  <2>4. Failures(topic)' = Busy[w] \o Failures(topic)
    BY <2>2, <2>3
  <2>5. Failures(dlq)' = Failures(dlq)
    BY <1>3
  <2> QED BY <1>1, <2>2, <2>4, <2>5 DEF Topic!Redeliver, Failures, Busy
<1> QED BY <1>2, <1>3 DEF Crash

\* Every other step of a worker keeps to itself.
LEMMA WorkKeepsTopic ==
  ASSUME TypeInv, NEW w \in Workers,
         \/ FindNone(w) \/ CheckLimit(w) \/ StartApp(w) \/ FailEarly(w) \/ AttachAdapter(w)
         \/ \E a \in Apps : Load(w, a) \/ InsertApp(w, a)
         \/ \E status \in AppStatus : Finish(w, status)
         \/ SaveApp(w) \/ SaveJob(w) \/ ScheduleFollowUp(w)
  PROVE  Apart
<1>1. wmsg' = wmsg /\ topic' = topic /\ dlq' = dlq /\ wpc[w] # "idle"
  BY DEF FindNone, CheckLimit, StartApp, FailEarly, AttachAdapter, Load, InsertApp, Finish,
     SaveApp, SaveJob, ScheduleFollowUp, busVars
<1>2. PICK pc : pc # "idle" /\ WGoto(w, pc)
  BY DEF FindNone, CheckLimit, StartApp, FailEarly, AttachAdapter, Load, InsertApp, Finish,
     SaveApp, SaveJob, ScheduleFollowUp
<1>3. Busy' = Busy
  BY <1>1, <1>2, BusyKept DEF TypeInv
<1> QED BY <1>1, <1>3 DEF Apart

-----------------------------------------------------------------------------
(* The theorems.                                                           *)

\* The empty pipeline is the empty topic.
THEOREM TopicInit == Init => Topic!Init
<1> SUFFICES ASSUME Init PROVE Topic!Init OBVIOUS
<1>1. Failures(topic) = <<>> /\ Failures(dlq) = <<>>
  BY NoFailures DEF Init
<1>2. Busy = [w \in Workers |-> <<>>]
  BY DEF Init, Busy
<1> QED BY <1>1, <1>2 DEF Topic!Init, Failures, Busy

\* Every step of the pipeline is a step of the topic, or none.
THEOREM TopicStep ==
  Delivery = "kafka" /\ TypeInv /\ [Next]_vars => [Topic!Next]_(Topic!vars)
<1> SUFFICES ASSUME Delivery = "kafka", TypeInv, [Next]_vars
             PROVE  Topic!Next \/ UNCHANGED Topic!vars
  OBVIOUS
<1>1. ASSUME NEW c \in Clients, Ask(c) \/ Serve(c) \/ PublishFails(c) \/ RequestBreaks(c)
      PROVE  Topic!Next \/ UNCHANGED Topic!vars
  BY <1>1, RequestsSubmit, ApartStutters DEF Topic!Next
<1>2. ASSUME NEW w \in Workers, Work(w) \/ SessionProgress(w) \/ HandleRaises(w) \/ Crash(w)
      PROVE  Topic!Next \/ UNCHANGED Topic!vars
  <2>1. CASE Receive(w)
    BY <2>1, ReceiveTakes DEF Topic!Next
  <2>2. CASE DeferApp(w) \/ Notify(w)
    <3>1. wpc[w] # "idle" /\ Return(w) /\ UNCHANGED busVars
      BY <2>2 DEF DeferApp, Notify
    <3> QED BY <3>1, ReturnFinishes DEF Topic!Next
  <2>3. CASE HandleRaises(w)
    BY <2>3, RaiseRoutes DEF Topic!Next
  <2>4. CASE Crash(w)
    BY <2>4, CrashLosesOrRedelivers DEF Topic!Next
  <2>5. CASE SessionProgress(w)
    <3>1. Apart
      BY <2>5 DEF SessionProgress, workerVars, busVars, Apart, Busy
    <3> QED BY <3>1, ApartStutters
  <2>6. CASE Work(w) /\ ~Receive(w) /\ ~DeferApp(w) /\ ~Notify(w)
    BY <2>6, WorkKeepsTopic, ApartStutters DEF Work
  <2> QED BY <1>2, <2>1, <2>2, <2>3, <2>4, <2>5, <2>6
<1>3. CASE CooldownOver \/ NewDay \/ UNCHANGED vars
  <2>1. wpc' = wpc /\ wmsg' = wmsg /\ topic' = topic /\ dlq' = dlq
    BY <1>3 DEF CooldownOver, NewDay, vars, workerVars, busVars
  <2>2. Apart
    BY <2>1 DEF Apart, Busy
  <2> QED BY <2>2, ApartStutters
<1> QED BY <1>1, <1>2, <1>3 DEF Next

\* With Kafka, messages are handled in order, a failed one is retried behind the
\* others and dead-lettered exactly when it has failed max_handle_attempts times,
\* for every number of workers, requests and applications.
THEOREM KafkaImplementsRetryQueue == Delivery = "kafka" => (Spec => RetriesAreBounded)
<1> SUFFICES ASSUME Delivery = "kafka" PROVE Spec => RetriesAreBounded OBVIOUS
<1>1. TypeInv /\ [Next]_vars => [Topic!Next]_(Topic!vars)
  BY TopicStep
<1> QED BY <1>1, TypeInit, TypeStep, TopicInit, PTL DEF Spec, RetriesAreBounded, Topic!Spec
=============================================================================
