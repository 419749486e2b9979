------------------------ MODULE ApplyPipelineProofs ------------------------
(***************************************************************************)
(* Proofs about the apply pipeline, for any number of jobs, applications,  *)
(* workers and requests, every kind of delivery and every choice of faults. *)
(***************************************************************************)
EXTENDS ApplyPipeline, FiniteSetTheorems, TLAPS

-----------------------------------------------------------------------------
(* Types.                                                                  *)

\* TypeOK is not inductive: a message may be handled once more as long as it has
\* failed fewer than MaxHandleAttempts times, and only the rule of
\* BaseWorker._route_failure keeps it so.
AttemptsLeft == Delivery = "kafka" =>
  /\ \A i \in DOMAIN topic : topic[i].attempts < MaxHandleAttempts
  /\ \A w \in Workers : wmsg[w].attempts < MaxHandleAttempts

TypeInv == TypeOK /\ AttemptsLeft

\* The values that new documents and freed locals take are of their types.
LEMMA DocTypes ==
  /\ Blank \in AppDoc
  /\ NoMsg \in Message /\ NoMsg.attempts = 0
  /\ \A j \in Jobs \cup {NoJob}, s \in AppStatus : NewDoc(j, s) \in AppDoc
<1>1. Blank \in AppDoc
  BY PipelineAssumption DEF Blank, AppDoc
<1>2. NoMsg \in Message /\ NoMsg.attempts = 0
  BY PipelineAssumption DEF NoMsg, Message
<1>3. \A j \in Jobs \cup {NoJob}, s \in AppStatus : NewDoc(j, s) \in AppDoc
  BY <1>1 DEF NewDoc, AppDoc
<1> QED BY <1>1, <1>2, <1>3

\* What the changes of a copy leave alone and set.
LEMMA DocFields ==
  ASSUME NEW d \in AppDoc
  PROVE  /\ d.job \in Jobs \cup {NoJob}
         /\ d.status \in AppStatus \cup {"absent"}
         /\ d.today \in BOOLEAN
         /\ d.otp \in 0..MaxCodes
BY DEF AppDoc

\* Every way a handler changes its copy leaves a document of the right type.
LEMMA DocUpdates ==
  ASSUME NEW d \in AppDoc
  PROVE  /\ \A s \in AppStatus : Moved(d, s) \in AppDoc /\ Settled(d, s) \in AppDoc
         /\ Deferred(d) \in AppDoc
         /\ Submitted(d) \in AppDoc
         /\ \A n \in 0..MaxCodes : WithOtp(d, n) \in AppDoc
         /\ Stale(d) \in AppDoc
<1>1. ASSUME NEW s \in AppStatus PROVE Moved(d, s) \in AppDoc /\ Settled(d, s) \in AppDoc
  BY DEF Moved, Settled, AppDoc
<1>2. Deferred(d) \in AppDoc
  BY DEF Deferred, AppDoc, AppStatus, Active
<1>3. Submitted(d) \in AppDoc
  BY DEF Submitted, AppDoc, AppStatus
<1>4. ASSUME NEW n \in 0..MaxCodes PROVE WithOtp(d, n) \in AppDoc
  BY DEF WithOtp, AppDoc
<1>5. Stale(d) \in AppDoc
  BY DEF Stale, AppDoc
<1> QED BY <1>1, <1>2, <1>3, <1>4, <1>5

\* A message is well formed, and counting a failure keeps it so within the bound.
LEMMA MessageFields ==
  ASSUME NEW m \in Message
  PROVE  /\ m.job \in Jobs \cup {NoJob}
         /\ m.otp \in 0..MaxCodes
         /\ m.attempts \in Nat
         /\ Counted(m).attempts = m.attempts + 1
         /\ m.attempts < MaxHandleAttempts => Counted(m) \in Message
<1>1. m.job \in Jobs \cup {NoJob} /\ m.otp \in 0..MaxCodes /\ m.attempts \in Nat
  BY PipelineAssumption DEF Message
<1>2. Counted(m).attempts = m.attempts + 1
  BY DEF Counted, Message
<1>3. ASSUME m.attempts < MaxHandleAttempts PROVE Counted(m) \in Message
  BY <1>3, PipelineAssumption DEF Counted, Message
<1> QED BY <1>1, <1>2, <1>3

\* The empty system is well typed and owes no attempt.
THEOREM TypeInit == Init => TypeInv
<1> SUFFICES ASSUME Init PROVE TypeInv OBVIOUS
<1>1. DatabaseOK
  BY DocTypes DEF Init, DatabaseOK, JobStatus
<1>2. BusOK
  BY DEF Init, BusOK
<1>3. WorkersOK
  BY DocTypes DEF Init, WorkersOK
<1>4. ClientsOK
  BY DocTypes, PipelineAssumption DEF Init, ClientsOK
<1>5. CountersOK
  BY PipelineAssumption DEF Init, CountersOK
<1>6. AttemptsLeft
  BY DocTypes, PipelineAssumption DEF Init, AttemptsLeft
<1> QED BY <1>1, <1>2, <1>3, <1>4, <1>5, <1>6 DEF TypeInv, TypeOK

\* What a request publishes is a message that was never handled.
LEMMA RequestType ==
  ASSUME TypeOK, NEW c \in Clients
  PROVE  Request(c) \in Message /\ Request(c).attempts = 0
<1>1. cdoc[c].otp \in 0..MaxCodes
  BY DocFields DEF TypeOK, ClientsOK
<1> QED BY <1>1, PipelineAssumption DEF Request, Message, TypeOK, ClientsOK

\* A failed container job comes back once, with its failure counted.
LEMMA RerunType ==
  ASSUME TypeInv, NEW w \in Workers, Delivery = "azure", Rerun(wmsg[w])
  PROVE  BusOK'
<1>1. wmsg[w] \in Message
  BY DEF TypeInv, TypeOK, WorkersOK
<1>2. CASE wmsg[w].attempts < RetryLimit
  BY <1>1, <1>2, MessageFields, PipelineAssumption
     DEF RetryLimit, Rerun, TypeInv, TypeOK, BusOK
<1>3. CASE ~(wmsg[w].attempts < RetryLimit)
  BY <1>3 DEF Rerun, TypeInv, TypeOK, BusOK
<1> QED BY <1>2, <1>3

\* BaseWorker._route_failure keeps the attempts of every queued message below
\* max_handle_attempts.
LEMMA RouteFailureType ==
  ASSUME TypeInv, NEW w \in Workers, Delivery = "kafka", RouteFailure(wmsg[w])
  PROVE  /\ BusOK'
         /\ \A i \in DOMAIN topic' : topic'[i].attempts < MaxHandleAttempts
<1> USE DEF TypeInv, TypeOK, BusOK, AttemptsLeft
<1>1. wmsg[w] \in Message /\ wmsg[w].attempts < MaxHandleAttempts
  BY DEF WorkersOK
<1>2. Counted(wmsg[w]) \in Message /\ Counted(wmsg[w]).attempts = wmsg[w].attempts + 1
  BY <1>1, MessageFields
<1>3. CASE topic' = topic /\ dlq' = Append(dlq, Counted(wmsg[w]))
  BY <1>2, <1>3
<1>4. CASE /\ wmsg[w].attempts + 1 < MaxHandleAttempts
           /\ topic' = Append(topic, Counted(wmsg[w])) /\ dlq' = dlq
  BY <1>2, <1>4
<1> QED BY <1>3, <1>4 DEF RouteFailure

\* No step of the pipeline leaves the types.
THEOREM TypeStep == TypeInv /\ [Next]_vars => TypeInv'
<1> SUFFICES ASSUME TypeInv, [Next]_vars PROVE TypeInv' OBVIOUS
<1> USE DEF TypeInv, TypeOK, DatabaseOK, BusOK, WorkersOK, ClientsOK, CountersOK,
            AttemptsLeft, dbVars, busVars, workerVars, clientVars
<1>1. ASSUME NEW c \in Clients, NEW j \in Jobs, NEW a \in Apps, QueueReuse(c, j, a)
      PROVE  TypeInv'
  BY <1>1, PipelineAssumption DEF QueueReuse, Hold
<1>2. ASSUME NEW c \in Clients, NEW j \in Jobs, QueueFresh(c, j) PROVE TypeInv'
  BY <1>2, DocTypes, PipelineAssumption DEF QueueFresh, Hold
<1>3. ASSUME NEW c \in Clients, NEW j \in Jobs, NEW approve \in BOOLEAN, Decide(c, j, approve)
      PROVE  TypeInv'
  BY <1>3, DocTypes, PipelineAssumption DEF Decide, Hold
<1>4. ASSUME NEW c \in Clients, NEW a \in Apps, Retry(c, a) PROVE TypeInv'
  <2>1. app[a].job \in Jobs \cup {NoJob} /\ Moved(app[a], "retrying") \in AppDoc
    BY <1>4, DocFields, DocUpdates DEF AppStatus, Active
  <2> QED BY <1>4, <2>1, PipelineAssumption DEF Retry, Hold
<1>5. ASSUME NEW c \in Clients, NEW a \in Apps, Cancel(c, a) PROVE TypeInv'
  <2>1. app[a].job \in Jobs \cup {NoJob} /\ Settled(app[a], "cancelled") \in AppDoc
    BY <1>5, DocFields, DocUpdates DEF AppStatus, Active
  <2> QED BY <1>5, <2>1, PipelineAssumption DEF Cancel, Hold
<1>6. ASSUME NEW c \in Clients, NEW a \in Apps, AnswerAndResume(c, a) PROVE TypeInv'
  <2>1. app[a].job \in Jobs \cup {NoJob} /\ Settled(app[a], "pending") \in AppDoc
    BY <1>6, DocFields, DocUpdates DEF AppStatus, Active
  <2> QED BY <1>6, <2>1, PipelineAssumption DEF AnswerAndResume, Hold
<1>7. ASSUME NEW c \in Clients, NEW a \in Apps, SubmitOtp(c, a) PROVE TypeInv'
  <2>1. codes + 1 \in 0..MaxCodes
    BY <1>7, PipelineAssumption DEF SubmitOtp
  <2>2. app[a].job \in Jobs \cup {NoJob} /\ Settled(app[a], "pending") \in AppDoc
    BY <1>7, DocFields, DocUpdates DEF AppStatus, Active
  <2>3. WithOtp(Settled(app[a], "pending"), codes + 1) \in AppDoc
    BY <1>7, <2>1, <2>2, DocUpdates
  <2>4. ClientsOK'
    BY <1>7, <2>2, <2>3, PipelineAssumption DEF SubmitOtp, Hold
  <2> QED BY <1>7, <2>1, <2>4 DEF SubmitOtp
<1>8. ASSUME NEW c \in Clients, NEW a \in Apps, CreateApp(c, a) PROVE TypeInv'
  BY <1>8, DocTypes DEF CreateApp, Goto, Touch, Active, AppStatus
<1>9. ASSUME NEW c \in Clients, JobApplying(c) PROVE TypeInv'
  BY <1>9 DEF JobApplying, Goto, KeepHold, JobStatus
<1>10. ASSUME NEW c \in Clients, RequeuePending(c) PROVE TypeInv'
  BY <1>10 DEF RequeuePending, Goto, KeepHold, Touch
<1>11. ASSUME NEW c \in Clients, ResaveActive(c) PROVE TypeInv'
  BY <1>11, DocTypes DEF ResaveActive, Reply, WriteBack, NoTouch, Unused
<1>12. ASSUME NEW c \in Clients, SaveCopy(c) PROVE TypeInv'
  BY <1>12 DEF SaveCopy, Goto, KeepHold, Touch, WriteBack, NoTouch, Unused
<1>13. ASSUME NEW c \in Clients, ReleaseJob(c) PROVE TypeInv'
  BY <1>13, DocTypes DEF ReleaseJob, Reply, JobStatus
<1>14. ASSUME NEW c \in Clients, RecordDecision(c) PROVE TypeInv'
  <2>1. undecided' \subseteq Jobs /\ job' \in [Jobs -> JobStatus]
    BY <1>14 DEF RecordDecision, JobStatus
  <2>2. ClientsOK'
    <3>1. CASE Goto(c, "publish") /\ KeepHold
      BY <3>1 DEF Goto, KeepHold
    <3>2. CASE Reply(c)
      BY <3>2, DocTypes DEF Reply
    <3> QED BY <1>14, <3>1, <3>2 DEF RecordDecision
  <2> QED BY <1>14, <2>1, <2>2 DEF RecordDecision
<1>15. ASSUME NEW c \in Clients, PublishJobApply(c) PROVE TypeInv'
  <2>1. Request(c) \in Message /\ Request(c).attempts = 0
    BY <1>15, RequestType
  <2>2. BusOK' /\ AttemptsLeft'
    BY <1>15, <2>1, PipelineAssumption DEF PublishJobApply
  <2>3. ClientsOK'
    BY <1>15, DocTypes DEF PublishJobApply, Reply
  <2> QED BY <1>15, <2>2, <2>3 DEF PublishJobApply
<1>16. ASSUME NEW c \in Clients, PublishFails(c) PROVE TypeInv'
  <2>1. Request(c) \in Message /\ Request(c).attempts = 0
    BY <1>16, RequestType
  <2>2. BusOK' /\ AttemptsLeft'
    <3>1. CASE topic' = topic
      BY <1>16, <3>1 DEF PublishFails
    <3>2. CASE topic' = Append(topic, Request(c))
      BY <1>16, <2>1, <3>2, PipelineAssumption DEF PublishFails
    <3> QED BY <1>16, <3>1, <3>2 DEF PublishFails
  <2>3. ClientsOK'
    BY <1>16, DocTypes DEF PublishFails, Reply
  <2> QED BY <1>16, <2>2, <2>3 DEF PublishFails
<1>17. ASSUME NEW w \in Workers, Receive(w) PROVE TypeInv'
  BY <1>17 DEF Receive, WGoto
<1>18. ASSUME NEW w \in Workers, FindNone(w) PROVE TypeInv'
  BY <1>18 DEF FindNone, WGoto
<1>19. ASSUME NEW w \in Workers, CheckLimit(w) PROVE TypeInv'
  BY <1>19 DEF CheckLimit, WGoto
<1>20. ASSUME NEW w \in Workers, DeferApp(w) PROVE TypeInv'
  <2>1. Deferred(wdoc[w]) \in AppDoc
    BY <1>20, DocUpdates
  <2>2. DatabaseOK'
    BY <1>20, <2>1 DEF DeferApp, Touch
  <2>3. WorkersOK' /\ wmsg' = [wmsg EXCEPT ![w] = NoMsg]
    BY <1>20, DocTypes DEF DeferApp, Return
  <2>4. AttemptsLeft'
    BY <1>20, <2>3, DocTypes, PipelineAssumption DEF DeferApp
  <2> QED BY <1>20, <2>2, <2>3, <2>4 DEF DeferApp
<1>21. ASSUME NEW w \in Workers, StartApp(w) PROVE TypeInv'
  <2>1. Moved(wdoc[w], "in_progress") \in AppDoc
    BY <1>21, DocFields, DocUpdates DEF AppStatus, Active
  <2> QED BY <1>21, <2>1 DEF StartApp, WGoto, Touch
<1>22. ASSUME NEW w \in Workers, NEW a \in Apps, Load(w, a) PROVE TypeInv'
  BY <1>22 DEF Load, WGoto
<1>23. ASSUME NEW w \in Workers, NEW a \in Apps, InsertApp(w, a) PROVE TypeInv'
  <2>1. NewDoc(wmsg[w].job, "in_progress") \in AppDoc
    BY <1>23, DocTypes, MessageFields DEF AppStatus, Active
  <2> QED BY <1>23, <2>1 DEF InsertApp, WGoto, Touch
<1>24. ASSUME NEW w \in Workers, FailEarly(w) PROVE TypeInv'
  <2>1. wdoc[w] \in AppDoc /\ "failed" \in AppStatus
    BY <1>24 DEF AppStatus
  <2>2. Settled(wdoc[w], "failed") \in AppDoc
    BY <1>24, <2>1, DocUpdates
  <2> QED BY <1>24, <2>2 DEF FailEarly, WGoto
<1>25. ASSUME NEW w \in Workers, AttachAdapter(w) PROVE TypeInv'
  <2>1. OtpCode(w) \in 0..MaxCodes /\ WithOtp(wdoc[w], 0) \in AppDoc
    <3>1. wmsg[w] \in Message /\ wdoc[w] \in AppDoc
      OBVIOUS
    <3>2. 0 \in 0..MaxCodes
      BY <1>25, PipelineAssumption
    <3> HIDE DEF TypeInv
    <3> QED BY <1>25, <3>1, <3>2, DocFields, DocUpdates, MessageFields DEF OtpCode
  <2>2. CountersOK'
    <3>1. CASE given' = given
      BY <1>25, <3>1 DEF AttachAdapter
    <3>2. CASE OtpCode(w) # 0
      <4>1. OtpCode(w) \in 1..MaxCodes
        BY <1>25, <2>1, <3>2, PipelineAssumption
      <4>2. given[OtpCode(w)] \in 0..2
        BY <1>25, <4>1
      <4> QED BY <1>25, <4>1, <4>2, <3>2 DEF AttachAdapter
    <3> QED BY <1>25, <3>1, <3>2 DEF AttachAdapter
  <2>3. WorkersOK'
    BY <1>25, <2>1 DEF AttachAdapter, WGoto
  <2> QED BY <1>25, <2>2, <2>3 DEF AttachAdapter
<1>26. ASSUME NEW w \in Workers, NEW status \in AppStatus, Finish(w, status) PROVE TypeInv'
  <2>1. Submitted(wdoc[w]) \in AppDoc /\ Settled(wdoc[w], status) \in AppDoc
    BY <1>26, DocUpdates
  <2> QED BY <1>26, <2>1 DEF Finish, WGoto
<1>27. ASSUME NEW w \in Workers, SaveApp(w) PROVE TypeInv'
  BY <1>27 DEF SaveApp, WGoto, Touch
<1>28. ASSUME NEW w \in Workers, SaveJob(w) PROVE TypeInv'
  BY <1>28 DEF SaveJob, WGoto, JobStatus
<1>29. ASSUME NEW w \in Workers, ScheduleFollowUp(w) PROVE TypeInv'
  <2>1. Moved(wdoc[w], "follow_up") \in AppDoc
    BY <1>29, DocUpdates DEF AppStatus
  <2>2. DatabaseOK'
    BY <1>29, <2>1 DEF ScheduleFollowUp, WriteBack, NoTouch, Unused
  <2>3. WorkersOK'
    BY <1>29, <2>1 DEF ScheduleFollowUp, WGoto
  <2>4. BusOK' /\ ClientsOK' /\ CountersOK' /\ AttemptsLeft'
    BY <1>29 DEF ScheduleFollowUp
  <2> QED BY <1>29, <2>2, <2>3, <2>4
<1>30. ASSUME NEW w \in Workers, Notify(w) PROVE TypeInv'
  <2>1. WorkersOK' /\ wmsg' = [wmsg EXCEPT ![w] = NoMsg]
    BY <1>30, DocTypes DEF Notify, Return
  <2>2. AttemptsLeft'
    BY <1>30, <2>1, DocTypes, PipelineAssumption DEF Notify
  <2> QED BY <1>30, <2>1, <2>2 DEF Notify
<1>31. ASSUME NEW w \in Workers, SessionProgress(w) PROVE TypeInv'
  BY <1>31 DEF SessionProgress, Touch
<1>32. ASSUME NEW w \in Workers, HandleRaises(w) PROVE TypeInv'
  <2>1. BusOK' /\ (Delivery = "kafka" =>
                     \A i \in DOMAIN topic' : topic'[i].attempts < MaxHandleAttempts)
    BY <1>32, RouteFailureType, RerunType DEF HandleRaises
  <2>2. WorkersOK' /\ wmsg' = [wmsg EXCEPT ![w] = NoMsg]
    BY <1>32, DocTypes DEF HandleRaises, Return
  <2>3. AttemptsLeft'
    BY <1>32, <2>1, <2>2, DocTypes, PipelineAssumption
  <2> QED BY <1>32, <2>1, <2>2, <2>3 DEF HandleRaises
<1>33. ASSUME NEW w \in Workers, Crash(w) PROVE TypeInv'
  <2>1. BusOK' /\ (Delivery = "kafka" =>
                     \A i \in DOMAIN topic' : topic'[i].attempts < MaxHandleAttempts)
    <3>1. CASE topic' = topic /\ dlq' = dlq
      BY <1>33, <3>1
    <3>2. CASE topic' = <<wmsg[w]>> \o topic /\ dlq' = dlq
      BY <1>33, <3>2
    <3>3. CASE Delivery = "azure" /\ Rerun(wmsg[w])
      BY <1>33, <3>3, RerunType
    <3> QED BY <1>33, <3>1, <3>2, <3>3 DEF Crash
  <2>2. WorkersOK' /\ wmsg' = [wmsg EXCEPT ![w] = NoMsg]
    BY <1>33, DocTypes DEF Crash, Return
  <2>3. AttemptsLeft'
    BY <1>33, <2>1, <2>2, DocTypes, PipelineAssumption
  <2> QED BY <1>33, <2>1, <2>2, <2>3 DEF Crash
<1>34. ASSUME CooldownOver PROVE TypeInv'
  BY <1>34 DEF CooldownOver
<1>35. ASSUME NewDay PROVE TypeInv'
  <2>1. \A d \in AppDoc : Stale(d) \in AppDoc
    BY <1>35, DocUpdates
  <2> QED BY <1>35, <2>1, PipelineAssumption DEF NewDay
<1>36. CASE UNCHANGED vars
  BY <1>36 DEF vars
<1>37. ASSUME NEW c \in Clients, ReadReleased(c) PROVE TypeInv'
  <2>1. ClientsOK'
    <3>1. CASE Goto(c, "giveBack") /\ KeepHold
      BY <3>1 DEF Goto, KeepHold
    <3>2. CASE Reply(c)
      BY <3>2, DocTypes DEF Reply
    <3> QED BY <1>37, <3>1, <3>2 DEF ReadReleased
  <2> QED BY <1>37, <2>1 DEF ReadReleased
<1>38. ASSUME NEW c \in Clients, RequestBreaks(c) PROVE TypeInv'
  BY <1>38, DocTypes DEF RequestBreaks, Reply
<1> QED BY <1>1, <1>2, <1>3, <1>4, <1>5, <1>6, <1>7, <1>8, <1>9, <1>10, <1>11, <1>12,
       <1>13, <1>14, <1>15, <1>16, <1>17, <1>18, <1>19, <1>20, <1>21, <1>22, <1>23,
       <1>24, <1>25, <1>26, <1>27, <1>28, <1>29, <1>30, <1>31, <1>32, <1>33, <1>34,
       <1>35, <1>36, <1>37, <1>38
  DEF Next, Ask, Serve, Work

\* Everything stored, sent and held is of its type, for every value of the
\* constants; no message counts more than MaxHandleAttempts failures.
THEOREM TypeCorrect == Spec => []TypeOK
<1>1. TypeInv => TypeOK
  BY DEF TypeInv
<1> QED BY <1>1, TypeInit, TypeStep, PTL DEF Spec

-----------------------------------------------------------------------------
(***************************************************************************)
(* The daily cap: the check of ApplyRateLimiter and the submission it      *)
(* allows are several steps apart, and yet workers can overshoot           *)
(* max_applications_per_day only by one application for each worker but    *)
(* one.                                                                    *)
(*                                                                         *)
(* The cap itself is not inductive: nothing in the database tells that a   *)
(* worker has passed the check and is going to submit.  The applications   *)
(* already submitted together with those of the workers past the check are *)
(* what no step but the check makes grow; and the check bounds them anew.  *)
(***************************************************************************)

\* Workers that were allowed to apply and have not yet finished doing so.
PastCheck == {w \in Workers : wpc[w] \in {"start", "prepare", "run", "saveApp",
                                          "saveJob", "followUp"}}

Spent == SubmittedToday \cup {wapp[w] : w \in PastCheck}

Unsubmitted(doc) == doc.status \notin {"success", "follow_up"}

\* A request never saves a copy that shows a submission.
CopiesUnsubmitted ==
  \A c \in Clients : cpc[c] \in {"reuse", "resave", "save"} => Unsubmitted(cdoc[c])

CapInv ==
  /\ Cardinality(Spent) < DailyCap + Cardinality(Workers)
  /\ CopiesUnsubmitted

-----------------------------------------------------------------------------
(* Cardinalities.                                                          *)

\* The sets that are counted are finite: they are sets of applications.
LEMMA SpentFinite ==
  ASSUME TypeInv
  PROVE  /\ IsFiniteSet(Spent) /\ Cardinality(Spent) \in Nat
         /\ IsFiniteSet(SubmittedToday) /\ Cardinality(SubmittedToday) \in Nat
         /\ Cardinality(Workers) \in Nat
<1>1. Spent \in SUBSET (Apps \cup {NoApp}) /\ SubmittedToday \in SUBSET (Apps \cup {NoApp})
  BY DEF TypeInv, TypeOK, WorkersOK, Spent, SubmittedToday, PastCheck
<1>2. IsFiniteSet(Apps \cup {NoApp})
  BY FS_AddElement, PipelineAssumption
<1>3. IsFiniteSet(Spent) /\ IsFiniteSet(SubmittedToday) /\ IsFiniteSet(Workers)
  BY <1>1, <1>2, FS_Subset, PipelineAssumption
<1> QED BY <1>3, FS_CardinalityType

\* Some workers hold no more applications than there are workers.
LEMMA HeldAtMostWorkers ==
  ASSUME NEW W \in SUBSET Workers, NEW f
  PROVE  /\ IsFiniteSet({f[w] : w \in W})
         /\ Cardinality({f[w] : w \in W}) <= Cardinality(Workers)
<1> DEFINE held == {f[w] : w \in W}
           g == [w \in W |-> f[w]]
<1>1. IsFiniteSet(W) /\ Cardinality(W) <= Cardinality(Workers)
  BY FS_Subset, PipelineAssumption
<1>2. g \in Surjection(W, held)
  BY DEF Surjection
<1>3. IsFiniteSet(held) /\ Cardinality(held) <= Cardinality(W)
  BY <1>1, <1>2, FS_Surjection
<1>4. Cardinality(held) \in Nat /\ Cardinality(W) \in Nat /\ Cardinality(Workers) \in Nat
  BY <1>1, <1>3, FS_CardinalityType, PipelineAssumption
<1> QED BY <1>1, <1>3, <1>4

\* A step that adds nothing to Spent keeps the bound.
LEMMA SmallerSpent ==
  ASSUME TypeInv, TypeInv', CapInv, Spent' \subseteq Spent, CopiesUnsubmitted'
  PROVE  CapInv'
<1>1. IsFiniteSet(Spent) /\ Cardinality(Spent) \in Nat /\ Cardinality(Workers) \in Nat
  BY SpentFinite
<1>2. Cardinality(Spent') <= Cardinality(Spent) /\ IsFiniteSet(Spent')
  BY <1>1, FS_Subset
<1>3. Cardinality(Spent') \in Nat
  BY <1>2, FS_CardinalityType
<1>4. Cardinality(Spent') < DailyCap + Cardinality(Workers)
  BY <1>1, <1>2, <1>3, PipelineAssumption DEF CapInv
<1> QED BY <1>4 DEF CapInv
-----------------------------------------------------------------------------
(* Steps.                                                                  *)

\* The status each change of a copy leaves it with.
LEMMA DocStatus ==
  ASSUME NEW d \in AppDoc, NEW s
  PROVE  /\ Moved(d, s).status = s
         /\ Settled(d, s).status = s
         /\ Deferred(d).status = "pending"
         /\ \A n : WithOtp(d, n).status = d.status
         /\ Stale(d).status = d.status /\ Stale(d).today = FALSE
         /\ \A j : NewDoc(j, s).status = s
BY DEF AppDoc, Moved, Settled, Deferred, WithOtp, Stale, NewDoc, Blank

\* The copies that retry, cancel, answer-and-resume and submit_otp save.
LEMMA RequestCopies ==
  ASSUME NEW d \in AppDoc, NEW n
  PROVE  /\ Unsubmitted(Moved(d, "retrying"))
         /\ Unsubmitted(Settled(d, "cancelled"))
         /\ Unsubmitted(Settled(d, "pending"))
         /\ Unsubmitted(WithOtp(Settled(d, "pending"), n))
BY DEF AppDoc, Moved, Settled, WithOtp, Unsubmitted

\* A save of an unsubmitted copy submits nothing, and a save by a worker past the
\* check nothing that was not counted already.
LEMMA UnsubmittedWrite ==
  ASSUME TypeInv, NEW x, NEW d, Unsubmitted(d), app' = [app EXCEPT ![x] = d]
  PROVE  SubmittedToday' \subseteq Spent
BY DEF TypeInv, TypeOK, DatabaseOK, SubmittedToday, Unsubmitted, Spent

\* A worker past the check saves only the application it holds.
LEMMA HeldWrite ==
  ASSUME TypeInv, NEW w \in PastCheck, NEW d, app' = [app EXCEPT ![wapp[w]] = d]
  PROVE  SubmittedToday' \subseteq Spent
BY DEF TypeInv, TypeOK, DatabaseOK, SubmittedToday, Spent

\* Without a save nothing is submitted.
LEMMA NoWrite ==
  ASSUME app' = app
  PROVE  SubmittedToday' \subseteq Spent
BY DEF SubmittedToday, Spent

\* Nothing grows when no worker passes the check.
LEMMA NobodyPasses ==
  ASSUME SubmittedToday' \subseteq Spent,
         \A v \in PastCheck' : v \in PastCheck /\ wapp'[v] = wapp[v]
  PROVE  Spent' \subseteq Spent
BY DEF Spent

\* The check: fewer than max_applications_per_day were submitted, and whoever is
\* past the check now is one of the workers.
LEMMA CheckBounds ==
  ASSUME TypeInv, TypeInv', NEW w \in Workers, CheckLimit(w), Allowed
  PROVE  Cardinality(Spent') < DailyCap + Cardinality(Workers)
<1> DEFINE held == {wapp[v] : v \in PastCheck}
<1>1. SubmittedToday' = SubmittedToday
  BY DEF CheckLimit, dbVars, SubmittedToday
<1>2. Cardinality(SubmittedToday) < DailyCap
  <2>1. SubmittedToday = AppliedToday
    BY DEF SubmittedToday, AppliedToday
  <2> QED BY <2>1 DEF Allowed
<1>3. IsFiniteSet(held') /\ Cardinality(held') <= Cardinality(Workers)
  BY HeldAtMostWorkers DEF PastCheck
<1>4. /\ IsFiniteSet(SubmittedToday) /\ Cardinality(SubmittedToday) \in Nat
      /\ Cardinality(Workers) \in Nat
  BY SpentFinite
<1>5. Spent' = SubmittedToday \cup held'
  BY <1>1 DEF Spent
<1>6. /\ IsFiniteSet(SubmittedToday \cap held')
      /\ Cardinality(Spent') = Cardinality(SubmittedToday) + Cardinality(held')
                                 - Cardinality(SubmittedToday \cap held')
  BY <1>3, <1>4, <1>5, FS_Union, FS_Subset
<1>7. Cardinality(held') \in Nat /\ Cardinality(SubmittedToday \cap held') \in Nat
  BY <1>3, <1>6, FS_CardinalityType
<1> QED BY <1>2, <1>3, <1>4, <1>6, <1>7, PipelineAssumption

\* A request's copies stay unsubmitted, and a request never submits.
LEMMA RequestsSubmitNothing ==
  ASSUME TypeInv, CopiesUnsubmitted, NEW c \in Clients,
         Ask(c) \/ Serve(c) \/ PublishFails(c) \/ RequestBreaks(c)
  PROVE  SubmittedToday' \subseteq Spent /\ CopiesUnsubmitted' /\ UNCHANGED <<wpc, wapp>>
<1> DEFINE Harmless == /\ SubmittedToday' \subseteq Spent
                       /\ CopiesUnsubmitted' /\ UNCHANGED <<wpc, wapp>>
<1> USE DEF TypeInv, TypeOK, ClientsOK, dbVars, workerVars

<1>1. ASSUME NEW j \in Jobs, NEW a \in Apps, QueueReuse(c, j, a) PROVE Harmless
  <2>1. Unsubmitted(app[a])
    BY <1>1 DEF QueueReuse, ActiveFor, Active, Paused, Unsubmitted
  <2>2. CopiesUnsubmitted'
    BY <1>1, <2>1 DEF QueueReuse, Hold, CopiesUnsubmitted
  <2> QED BY <1>1, <2>2, NoWrite DEF QueueReuse

<1>2. ASSUME NEW j \in Jobs, QueueFresh(c, j) PROVE Harmless
  <2>1. CopiesUnsubmitted'
    BY <1>2 DEF QueueFresh, Hold, CopiesUnsubmitted
  <2> QED BY <1>2, <2>1, NoWrite DEF QueueFresh

<1>3. ASSUME NEW j \in Jobs, NEW approve \in BOOLEAN, Decide(c, j, approve) PROVE Harmless
  <2>1. CopiesUnsubmitted'
    BY <1>3 DEF Decide, Hold, CopiesUnsubmitted
  <2> QED BY <1>3, <2>1, NoWrite DEF Decide

<1>4. ASSUME NEW a \in Apps, Retry(c, a) PROVE Harmless
  <2>1. Unsubmitted(Moved(app[a], "retrying"))
    <3>1. app[a] \in AppDoc
      BY DEF DatabaseOK
    <3> QED BY <3>1, RequestCopies
  <2>2. CopiesUnsubmitted'
    BY <1>4, <2>1 DEF Retry, Hold, CopiesUnsubmitted
  <2> QED BY <1>4, <2>2, NoWrite DEF Retry

<1>5. ASSUME NEW a \in Apps, Cancel(c, a) PROVE Harmless
  <2>1. Unsubmitted(Settled(app[a], "cancelled"))
    <3>1. app[a] \in AppDoc
      BY DEF DatabaseOK
    <3> QED BY <3>1, RequestCopies
  <2>2. CopiesUnsubmitted'
    BY <1>5, <2>1 DEF Cancel, Hold, CopiesUnsubmitted
  <2> QED BY <1>5, <2>2, NoWrite DEF Cancel

<1>6. ASSUME NEW a \in Apps, AnswerAndResume(c, a) PROVE Harmless
  <2>1. Unsubmitted(Settled(app[a], "pending"))
    <3>1. app[a] \in AppDoc
      BY DEF DatabaseOK
    <3> QED BY <3>1, RequestCopies
  <2>2. CopiesUnsubmitted'
    BY <1>6, <2>1 DEF AnswerAndResume, Hold, CopiesUnsubmitted
  <2> QED BY <1>6, <2>2, NoWrite DEF AnswerAndResume

<1>7. ASSUME NEW a \in Apps, SubmitOtp(c, a) PROVE Harmless
  <2> DEFINE doc == WithOtp(Settled(app[a], "pending"), codes + 1)
  <2>1. Unsubmitted(doc)
    <3>1. app[a] \in AppDoc
      BY DEF DatabaseOK
    <3> QED BY <3>1, RequestCopies
  <2>2. CopiesUnsubmitted'
    BY <1>7, <2>1 DEF SubmitOtp, Hold, CopiesUnsubmitted
  <2> QED BY <1>7, <2>2, NoWrite DEF SubmitOtp

<1>8. ASSUME NEW a \in Apps, CreateApp(c, a) PROVE Harmless
  <2>1. Unsubmitted(NewDoc(cjob[c], "pending"))
    BY DocTypes, DocStatus DEF Unsubmitted
  <2>2. CopiesUnsubmitted'
    BY <1>8 DEF CreateApp, Goto, CopiesUnsubmitted
  <2> QED BY <1>8, <2>1, <2>2, UnsubmittedWrite DEF CreateApp

<1>9. ASSUME JobApplying(c) PROVE Harmless
  <2>1. CopiesUnsubmitted'
    BY <1>9 DEF JobApplying, Goto, KeepHold, CopiesUnsubmitted
  <2> QED BY <1>9, <2>1, NoWrite DEF JobApplying

<1>10. ASSUME ReleaseJob(c) PROVE Harmless
  <2>1. CopiesUnsubmitted'
    BY <1>10 DEF ReleaseJob, Reply, CopiesUnsubmitted
  <2> QED BY <1>10, <2>1, NoWrite DEF ReleaseJob

<1>11. ASSUME RecordDecision(c) PROVE Harmless
  <2>1. CopiesUnsubmitted'
    BY <1>11 DEF RecordDecision, Goto, KeepHold, Reply, CopiesUnsubmitted
  <2> QED BY <1>11, <2>1, NoWrite DEF RecordDecision

<1>12. ASSUME PublishJobApply(c) PROVE Harmless
  <2>1. CopiesUnsubmitted'
    BY <1>12 DEF PublishJobApply, Reply, CopiesUnsubmitted
  <2> QED BY <1>12, <2>1, NoWrite DEF PublishJobApply

<1>13. ASSUME PublishFails(c) PROVE Harmless
  <2>1. CopiesUnsubmitted'
    BY <1>13 DEF PublishFails, Reply, CopiesUnsubmitted
  <2> QED BY <1>13, <2>1, NoWrite DEF PublishFails

<1>14. ASSUME RequeuePending(c) PROVE Harmless
  <2>1. Unsubmitted(cdoc[c])
    BY <1>14 DEF RequeuePending, CopiesUnsubmitted
  <2>2. CopiesUnsubmitted'
    BY <1>14 DEF RequeuePending, Goto, KeepHold, CopiesUnsubmitted
  <2> QED BY <1>14, <2>1, <2>2, UnsubmittedWrite DEF RequeuePending

<1>15. ASSUME ResaveActive(c) PROVE Harmless
  <2>1. Unsubmitted(cdoc[c])
    BY <1>15 DEF ResaveActive, CopiesUnsubmitted
  <2>2. CopiesUnsubmitted'
    BY <1>15 DEF ResaveActive, Reply, CopiesUnsubmitted
  <2> QED BY <1>15, <2>1, <2>2, UnsubmittedWrite DEF ResaveActive

<1>16. ASSUME SaveCopy(c) PROVE Harmless
  <2>1. Unsubmitted(cdoc[c])
    BY <1>16 DEF SaveCopy, CopiesUnsubmitted
  <2>2. CopiesUnsubmitted'
    BY <1>16 DEF SaveCopy, Goto, KeepHold, CopiesUnsubmitted
  <2> QED BY <1>16, <2>1, <2>2, UnsubmittedWrite DEF SaveCopy

<1>17. ASSUME ReadReleased(c) PROVE Harmless
  <2>1. CopiesUnsubmitted'
    BY <1>17 DEF ReadReleased, Goto, KeepHold, Reply, CopiesUnsubmitted
  <2> QED BY <1>17, <2>1, NoWrite DEF ReadReleased

<1>18. ASSUME RequestBreaks(c) PROVE Harmless
  <2>1. CopiesUnsubmitted'
    BY <1>18 DEF RequestBreaks, Reply, CopiesUnsubmitted
  <2> QED BY <1>18, <2>1, NoWrite DEF RequestBreaks

<1> QED BY <1>1, <1>2, <1>3, <1>4, <1>5, <1>6, <1>7, <1>8, <1>9, <1>10, <1>11, <1>12,
       <1>13, <1>14, <1>15, <1>16, <1>17, <1>18
    DEF Ask, Serve

\* A worker submits only what was counted when it passed the check.
LEMMA WorkersSubmitCounted ==
  ASSUME TypeInv, NEW w \in Workers,
         Work(w) \/ SessionProgress(w) \/ HandleRaises(w) \/ Crash(w),
         ~(CheckLimit(w) /\ Allowed)
  PROVE  Spent' \subseteq Spent
<1> USE DEF TypeInv, TypeOK, WorkersOK, dbVars, PastCheck
<1> DEFINE Kept == \A v \in PastCheck' : v \in PastCheck /\ wapp'[v] = wapp[v]

<1>1. ASSUME Receive(w) PROVE Spent' \subseteq Spent
  <2>1. Kept
    BY <1>1 DEF Receive, WGoto
  <2> QED BY <1>1, <2>1, NoWrite, NobodyPasses DEF Receive

<1>2. ASSUME FindNone(w) PROVE Spent' \subseteq Spent
  <2>1. Kept
    BY <1>2 DEF FindNone, WGoto
  <2> QED BY <1>2, <2>1, NoWrite, NobodyPasses DEF FindNone

<1>3. ASSUME CheckLimit(w) PROVE Spent' \subseteq Spent
  <2>1. wpc' = [wpc EXCEPT ![w] = "defer"]
    BY <1>3 DEF CheckLimit, WGoto
  <2>2. Kept
    BY <1>3, <2>1 DEF CheckLimit
  <2> QED BY <1>3, <2>2, NoWrite, NobodyPasses DEF CheckLimit

<1>4. ASSUME DeferApp(w) PROVE Spent' \subseteq Spent
  <2>1. Kept
    BY <1>4 DEF DeferApp, Return
  <2>2. Unsubmitted(Deferred(wdoc[w]))
    BY DocStatus DEF Unsubmitted
  <2> QED BY <1>4, <2>1, <2>2, UnsubmittedWrite, NobodyPasses DEF DeferApp

<1>5. ASSUME StartApp(w) PROVE Spent' \subseteq Spent
  <2>1. Kept
    BY <1>5 DEF StartApp, WGoto
  <2>2. w \in PastCheck /\ app' = [app EXCEPT ![wapp[w]] = Moved(wdoc[w], "in_progress")]
    BY <1>5 DEF StartApp
  <2> QED BY <2>1, <2>2, HeldWrite, NobodyPasses

<1>6. ASSUME NEW a \in Apps, Load(w, a) PROVE Spent' \subseteq Spent
  <2>1. Kept
    BY <1>6 DEF Load, WGoto
  <2> QED BY <1>6, <2>1, NoWrite, NobodyPasses DEF Load

<1>7. ASSUME NEW a \in Apps, InsertApp(w, a) PROVE Spent' \subseteq Spent
  <2>1. Kept
    BY <1>7 DEF InsertApp, WGoto
  <2>2. Unsubmitted(NewDoc(wmsg[w].job, "in_progress"))
    BY DocTypes, DocStatus DEF Unsubmitted
  <2> QED BY <1>7, <2>1, <2>2, UnsubmittedWrite, NobodyPasses DEF InsertApp

<1>8. ASSUME FailEarly(w) PROVE Spent' \subseteq Spent
  <2>1. Kept
    BY <1>8 DEF FailEarly, WGoto
  <2> QED BY <1>8, <2>1, NoWrite, NobodyPasses DEF FailEarly

<1>9. ASSUME AttachAdapter(w) PROVE Spent' \subseteq Spent
  <2>1. Kept
    BY <1>9 DEF AttachAdapter, WGoto
  <2> QED BY <1>9, <2>1, NoWrite, NobodyPasses DEF AttachAdapter

<1>10. ASSUME NEW status \in AppStatus, Finish(w, status) PROVE Spent' \subseteq Spent
  <2>1. Kept
    BY <1>10 DEF Finish, WGoto
  <2> QED BY <1>10, <2>1, NoWrite, NobodyPasses DEF Finish

<1>11. ASSUME SaveApp(w) PROVE Spent' \subseteq Spent
  <2>1. Kept
    BY <1>11 DEF SaveApp, WGoto
  <2>2. w \in PastCheck /\ app' = [app EXCEPT ![wapp[w]] = wdoc[w]]
    BY <1>11 DEF SaveApp
  <2> QED BY <2>1, <2>2, HeldWrite, NobodyPasses

<1>12. ASSUME SaveJob(w) PROVE Spent' \subseteq Spent
  <2>1. Kept
    BY <1>12 DEF SaveJob, WGoto
  <2> QED BY <1>12, <2>1, NoWrite, NobodyPasses DEF SaveJob

<1>13. ASSUME ScheduleFollowUp(w) PROVE Spent' \subseteq Spent
  <2>1. Kept
    BY <1>13 DEF ScheduleFollowUp, WGoto
  <2>2. w \in PastCheck /\ app' = [app EXCEPT ![wapp[w]] = Moved(wdoc[w], "follow_up")]
    BY <1>13 DEF ScheduleFollowUp
  <2> QED BY <2>1, <2>2, HeldWrite, NobodyPasses

<1>14. ASSUME Notify(w) PROVE Spent' \subseteq Spent
  <2>1. Kept
    BY <1>14 DEF Notify, Return
  <2> QED BY <1>14, <2>1, NoWrite, NobodyPasses DEF Notify

<1>15. ASSUME SessionProgress(w) PROVE Spent' \subseteq Spent
  <2>1. Kept
    BY <1>15 DEF SessionProgress, workerVars
  <2>2. w \in PastCheck /\ app' = [app EXCEPT ![wapp[w]] = wdoc[w]]
    BY <1>15 DEF SessionProgress
  <2> QED BY <2>1, <2>2, HeldWrite, NobodyPasses

<1>16. ASSUME HandleRaises(w) PROVE Spent' \subseteq Spent
  <2>1. Kept
    BY <1>16 DEF HandleRaises, Return
  <2> QED BY <1>16, <2>1, NoWrite, NobodyPasses DEF HandleRaises

<1>17. ASSUME Crash(w) PROVE Spent' \subseteq Spent
  <2>1. Kept
    BY <1>17 DEF Crash, Return
  <2> QED BY <1>17, <2>1, NoWrite, NobodyPasses DEF Crash

<1> QED BY <1>1, <1>2, <1>3, <1>4, <1>5, <1>6, <1>7, <1>8, <1>9, <1>10, <1>11, <1>12,
       <1>13, <1>14, <1>15, <1>16, <1>17
    DEF Work

-----------------------------------------------------------------------------
(* The theorems.                                                           *)

\* At the start nothing is submitted and no worker is past the check.
THEOREM CapInit == Init => CapInv
<1> SUFFICES ASSUME Init PROVE CapInv OBVIOUS
<1>1. Spent = {}
  BY DEF Init, Spent, SubmittedToday, PastCheck, Blank
<1>2. Cardinality(Spent) = 0 /\ Cardinality(Workers) \in Nat
  BY <1>1, FS_EmptySet, FS_CardinalityType, PipelineAssumption
<1>3. CopiesUnsubmitted
  BY DEF Init, CopiesUnsubmitted
<1> QED BY <1>2, <1>3, PipelineAssumption DEF CapInv

\* Every step keeps the bound: only a worker that passes the check adds to Spent,
\* and the check counts what is submitted first.
THEOREM CapStep == TypeInv /\ TypeInv' /\ CapInv /\ [Next]_vars => CapInv'
<1> SUFFICES ASSUME TypeInv, TypeInv', CapInv, [Next]_vars PROVE CapInv' OBVIOUS
<1>1. CopiesUnsubmitted
  BY DEF CapInv
<1>2. ASSUME NEW c \in Clients, Ask(c) \/ Serve(c) \/ PublishFails(c) \/ RequestBreaks(c)
      PROVE  CapInv'
  <2>1. SubmittedToday' \subseteq Spent /\ CopiesUnsubmitted' /\ UNCHANGED <<wpc, wapp>>
    BY <1>1, <1>2, RequestsSubmitNothing
  <2>2. Spent' \subseteq Spent
    BY <2>1, NobodyPasses DEF PastCheck
  <2> QED BY <2>1, <2>2, SmallerSpent
<1>3. ASSUME NEW w \in Workers, Work(w) \/ SessionProgress(w) \/ HandleRaises(w) \/ Crash(w)
      PROVE  CapInv'
  <2>1. UNCHANGED clientVars
    BY <1>3 DEF Work, SessionProgress, HandleRaises, Crash, Receive, FindNone, CheckLimit,
       DeferApp, StartApp, Load, InsertApp, FailEarly, AttachAdapter, Finish, SaveApp, SaveJob,
       ScheduleFollowUp, Notify
  <2>2. CopiesUnsubmitted'
    BY <1>1, <2>1 DEF CopiesUnsubmitted, clientVars
  <2>3. CASE CheckLimit(w) /\ Allowed
    BY <2>2, <2>3, CheckBounds DEF CapInv
  <2>4. CASE ~(CheckLimit(w) /\ Allowed)
    BY <1>3, <2>2, <2>4, WorkersSubmitCounted, SmallerSpent
  <2> QED BY <2>3, <2>4
<1>4. CASE CooldownOver
  <2>1. UNCHANGED <<app, wpc, wapp, cpc, cdoc>>
    BY <1>4 DEF CooldownOver, workerVars, clientVars
  <2>2. Spent' \subseteq Spent /\ CopiesUnsubmitted'
    BY <1>1, <2>1, NoWrite, NobodyPasses DEF PastCheck, CopiesUnsubmitted
  <2> QED BY <2>2, SmallerSpent
<1>5. CASE NewDay
  <2>1. SubmittedToday' = {}
    <3>1. \A a \in Apps : Stale(app[a]).today = FALSE
      BY DocStatus DEF TypeInv, TypeOK, DatabaseOK
    <3>2. \A a \in Apps : app'[a] = Stale(app[a])
      BY <1>5 DEF NewDay
    <3> QED BY <3>1, <3>2 DEF SubmittedToday
  <2>2. Spent' \subseteq Spent
    BY <1>5, <2>1, NobodyPasses DEF NewDay, PastCheck
  <2>3. CopiesUnsubmitted'
    <3>1. \A d \in Clients : Stale(cdoc[d]).status = cdoc[d].status
      BY DocStatus DEF TypeInv, TypeOK, ClientsOK
    <3>2. \A d \in Clients : cdoc'[d] = Stale(cdoc[d]) /\ cpc'[d] = cpc[d]
      BY <1>5 DEF NewDay
    <3> QED BY <1>1, <3>1, <3>2 DEF CopiesUnsubmitted, Unsubmitted
  <2> QED BY <2>2, <2>3, SmallerSpent
<1>6. CASE UNCHANGED vars
  <2>1. UNCHANGED <<app, wpc, wapp, cpc, cdoc>>
    BY <1>6 DEF vars
  <2>2. Spent' \subseteq Spent /\ CopiesUnsubmitted'
    BY <1>1, <2>1, NoWrite, NobodyPasses DEF PastCheck, CopiesUnsubmitted
  <2> QED BY <2>2, SmallerSpent
<1> QED BY <1>2, <1>3, <1>4, <1>5, <1>6 DEF Next

\* What the inductive invariant says about the database alone.
LEMMA CapImplies == TypeInv /\ CapInv => DailyCapOvershoot
<1> SUFFICES ASSUME TypeInv, CapInv PROVE DailyCapOvershoot OBVIOUS
<1>1. SubmittedToday \subseteq Spent
  BY DEF Spent
<1>2. /\ IsFiniteSet(Spent) /\ Cardinality(Spent) \in Nat
      /\ Cardinality(SubmittedToday) \in Nat /\ Cardinality(Workers) \in Nat
  BY SpentFinite
<1>3. Cardinality(SubmittedToday) <= Cardinality(Spent)
  BY <1>1, <1>2, FS_Subset
<1> QED BY <1>2, <1>3, PipelineAssumption DEF CapInv, DailyCapOvershoot

\* Workers overshoot max_applications_per_day by at most one application for each
\* worker but one, whatever the requests, the faults and the kind of delivery; one
\* worker never overshoots it.
THEOREM DailyCapHolds == Spec => []DailyCapOvershoot
<1>1. Init => TypeInv /\ CapInv
  BY TypeInit, CapInit
<1>2. TypeInv /\ CapInv /\ [Next]_vars => TypeInv' /\ CapInv'
  BY TypeStep, CapStep
<1> QED BY <1>1, <1>2, CapImplies, PTL DEF Spec

-----------------------------------------------------------------------------
(* Nobody loses an application.                                            *)

\* An application that exists keeps its job: what a message, a copy or a request
\* says of it stays true until it is acted on.
Exists(a) == a \in Apps /\ app[a].status # "absent"

MessageFollows(m) == m.app # NoApp => Exists(m.app) /\ app[m.app].job = m.job

\* A worker past its look-up has an application that its message leads back to,
\* and a copy of it that keeps its job; what it saves at the end is settled.
WorkerFollows(w) ==
  /\ MessageFollows(wmsg[w])
  /\ IF wpc[w] \in {"idle", "load", "insert"} THEN wapp[w] = NoApp
     ELSE /\ Exists(wapp[w]) /\ Names(wmsg[w], wapp[w])
          /\ wdoc[w].status # "absent" /\ wdoc[w].job = app[wapp[w]].job
  /\ wpc[w] = "insert" => wmsg[w].app = NoApp
  /\ wpc[w] = "saveApp" => wdoc[w].status \in Paused \cup {"success", "failed"}

\* A request that names an application names its job as well, and a copy that it
\* has yet to save is of that application; that of cancel() is cancelled.
ClientFollows(c) ==
  /\ capp[c] # NoApp => Exists(capp[c]) /\ app[capp[c]].job = cjob[c]
  /\ cpc[c] \in {"idle", "create", "approve", "reject"} => capp[c] = NoApp
  /\ cpc[c] \in {"reuse", "resave", "save"} =>
       /\ capp[c] # NoApp /\ cdoc[c].status # "absent" /\ cdoc[c].job = cjob[c]
       /\ cop[c] = "cancel" => cdoc[c].status = "cancelled"

FollowInv ==
  /\ \A i \in DOMAIN topic : MessageFollows(topic[i])
  /\ \A w \in Workers : WorkerFollows(w)
  /\ \A c \in Clients : ClientFollows(c)

\* A step after which every application is still there, with the job it had.
Fixed == \A a \in Apps : Exists(a) => app'[a].status # "absent" /\ app'[a].job = app[a].job

\* A save of a copy that keeps the job is such a step.
LEMMA SaveFixes ==
  ASSUME TypeInv, NEW a \in Apps, NEW d, d.status # "absent", Exists(a) => d.job = app[a].job,
         app' = [app EXCEPT ![a] = d]
  PROVE  Fixed
BY DEF Fixed, Exists, TypeInv, TypeOK, DatabaseOK

\* What a message says stays true.
LEMMA MessageStays ==
  ASSUME Fixed, NEW m, MessageFollows(m)
  PROVE  m.app # NoApp => /\ m.app \in Apps /\ app'[m.app].status # "absent"
                          /\ app'[m.app].job = m.job
BY DEF Fixed, Exists, MessageFollows

LEMMA TopicStays ==
  ASSUME FollowInv, Fixed, topic' = topic
  PROVE  (\A i \in DOMAIN topic : MessageFollows(topic[i]))'
BY MessageStays DEF FollowInv, MessageFollows, Exists

LEMMA WorkerStays ==
  ASSUME FollowInv, Fixed, NEW w \in Workers,
         wpc'[w] = wpc[w], wmsg'[w] = wmsg[w], wapp'[w] = wapp[w], wdoc'[w] = wdoc[w]
  PROVE  WorkerFollows(w)'
<1>1. WorkerFollows(w)
  BY DEF FollowInv
<1>2. MessageFollows(wmsg[w])'
  BY <1>1, MessageStays DEF WorkerFollows, MessageFollows, Exists
<1> QED BY <1>1, <1>2 DEF WorkerFollows, Fixed, Exists, Names

LEMMA ClientStays ==
  ASSUME FollowInv, Fixed, NEW c \in Clients,
         cpc'[c] = cpc[c], cop'[c] = cop[c], cjob'[c] = cjob[c], capp'[c] = capp[c],
         cdoc'[c] = cdoc[c]
  PROVE  ClientFollows(c)'
BY DEF FollowInv, ClientFollows, Fixed, Exists

\* The step of a request leaves the workers and the other requests alone.
LEMMA RequestFollows ==
  ASSUME TypeInv, FollowInv, Fixed, NEW c \in Clients, UNCHANGED workerVars,
         \A d \in Clients \ {c} : /\ cpc'[d] = cpc[d] /\ cop'[d] = cop[d] /\ cjob'[d] = cjob[d]
                                  /\ capp'[d] = capp[d] /\ cdoc'[d] = cdoc[d],
         \/ topic' = topic
         \/ topic' = Append(topic, Request(c)),
         ClientFollows(c)'
  PROVE  FollowInv'
<1>1. (\A i \in DOMAIN topic : MessageFollows(topic[i]))'
  <2>1. CASE topic' = topic
    BY <2>1, TopicStays
  <2>2. CASE topic' = Append(topic, Request(c))
    <3>1. topic \in Seq(Message)
      BY DEF TypeInv, TypeOK, BusOK
    <3>2. MessageFollows(Request(c))
      BY DEF FollowInv, ClientFollows, Request, MessageFollows
    <3>3. ASSUME NEW i \in DOMAIN topic' PROVE MessageFollows(topic'[i])
      <4>1. CASE i \in DOMAIN topic
        <5>1. topic'[i] = topic[i]
          BY <2>2, <3>1, <4>1
        <5> QED BY <4>1, <5>1 DEF FollowInv
      <4>2. CASE i = Len(topic) + 1
        <5>1. topic'[i] = Request(c)
          BY <2>2, <3>1, <4>2
        <5> QED BY <3>2, <5>1
      <4> QED BY <2>2, <3>1, <3>3, <4>1, <4>2
    <3> QED BY <3>3, MessageStays DEF MessageFollows, Exists
  <2> QED BY <2>1, <2>2
<1>2. ASSUME NEW w \in Workers PROVE WorkerFollows(w)'
  BY <1>2, WorkerStays DEF workerVars
<1>3. ASSUME NEW d \in Clients PROVE ClientFollows(d)'
  BY <1>3, ClientStays
<1> QED BY <1>1, <1>2, <1>3 DEF FollowInv

\* The step of a worker leaves the requests and the other workers alone.
LEMMA HandlerFollows ==
  ASSUME TypeInv, FollowInv, Fixed, NEW w \in Workers, UNCHANGED clientVars,
         \A v \in Workers \ {w} : /\ wpc'[v] = wpc[v] /\ wmsg'[v] = wmsg[v]
                                  /\ wapp'[v] = wapp[v] /\ wdoc'[v] = wdoc[v],
         (\A i \in DOMAIN topic : MessageFollows(topic[i]))',
         WorkerFollows(w)'
  PROVE  FollowInv'
<1>1. ASSUME NEW v \in Workers PROVE WorkerFollows(v)'
  BY <1>1, WorkerStays
<1>2. ASSUME NEW d \in Clients PROVE ClientFollows(d)'
  BY <1>2, ClientStays DEF clientVars
<1> QED BY <1>1, <1>2 DEF FollowInv

\* Nothing has been said yet of any application.
LEMMA FollowInit == Init => FollowInv
<1> SUFFICES ASSUME Init PROVE FollowInv OBVIOUS
<1>1. topic = <<>> /\ NoMsg.app = NoApp
  BY DEF Init, NoMsg
<1>2. ASSUME NEW w \in Workers PROVE WorkerFollows(w)
  BY <1>1, <1>2 DEF Init, WorkerFollows, MessageFollows
<1>3. ASSUME NEW c \in Clients PROVE ClientFollows(c)
  BY <1>3 DEF Init, ClientFollows
<1> QED BY <1>1, <1>2, <1>3 DEF FollowInv

\* A request that begins without an application, or with one and a changed copy of it.
LEMMA HoldFollows ==
  ASSUME TypeInv, FollowInv, NEW c \in Clients, NEW op, NEW pc, NEW j, NEW a, NEW d,
         Hold(c, op, pc, j, a, d), UNCHANGED <<app, topic>>, UNCHANGED workerVars,
         \/ a = NoApp /\ pc \in {"create", "approve", "reject"}
         \/ /\ Exists(a) /\ j = app[a].job /\ pc \in {"resave", "reuse", "save"}
            /\ d.status # "absent" /\ d.job = j
            /\ op = "cancel" => d.status = "cancelled"
  PROVE  FollowInv'
<1>1. /\ cpc'[c] = pc /\ cop'[c] = op /\ cjob'[c] = j /\ capp'[c] = a /\ cdoc'[c] = d
      /\ \A e \in Clients \ {c} : /\ cpc'[e] = cpc[e] /\ cop'[e] = cop[e] /\ cjob'[e] = cjob[e]
                                  /\ capp'[e] = capp[e] /\ cdoc'[e] = cdoc[e]
  BY DEF Hold, TypeInv, TypeOK, ClientsOK
<1>2. Fixed
  BY DEF Fixed, Exists
<1>3. ClientFollows(c)'
  <2>1. NoApp \notin Apps
    BY PipelineAssumption
  <2> QED BY <1>1, <2>1 DEF ClientFollows, Exists
<1> QED BY <1>1, <1>2, <1>3, RequestFollows

\* A request that begins takes what it says from the document it read.
LEMMA AskFollows == ASSUME TypeInv, FollowInv, NEW c \in Clients, Ask(c) PROVE FollowInv'
<1>1. UNCHANGED <<app, topic>> /\ UNCHANGED workerVars
  BY DEF Ask, QueueReuse, QueueFresh, Decide, Retry, Cancel, AnswerAndResume, SubmitOtp,
         dbVars, busVars
<1>2. app \in [Apps -> AppDoc]
  BY DEF TypeInv, TypeOK, DatabaseOK
<1>3. ASSUME NEW j \in Jobs, NEW a \in Apps, QueueReuse(c, j, a) PROVE FollowInv'
  <2>1. Exists(a) /\ app[a].job = j
    BY <1>3 DEF QueueReuse, ActiveFor, Exists, Active, Paused
  <2> QED BY <1>1, <1>3, <2>1, HoldFollows DEF QueueReuse, Exists
<1>4. ASSUME NEW j \in Jobs, QueueFresh(c, j) PROVE FollowInv'
  BY <1>1, <1>4, HoldFollows DEF QueueFresh
<1>5. ASSUME NEW j \in Jobs, NEW approve \in BOOLEAN, Decide(c, j, approve) PROVE FollowInv'
  BY <1>1, <1>5, HoldFollows DEF Decide
<1>6. ASSUME NEW a \in Apps, Retry(c, a) PROVE FollowInv'
  <2>1. Exists(a) /\ Moved(app[a], "retrying").status = "retrying"
                  /\ Moved(app[a], "retrying").job = app[a].job
    BY <1>2, <1>6 DEF Retry, Exists, Moved, AppDoc
  <2> QED BY <1>1, <1>6, <2>1, HoldFollows DEF Retry
<1>7. ASSUME NEW a \in Apps, Cancel(c, a) PROVE FollowInv'
  <2>1. Exists(a) /\ Settled(app[a], "cancelled").status = "cancelled"
                  /\ Settled(app[a], "cancelled").job = app[a].job
    BY <1>2, <1>7 DEF Cancel, Exists, Settled, AppDoc, Active, Paused
  <2> QED BY <1>1, <1>7, <2>1, HoldFollows DEF Cancel
<1>8. ASSUME NEW a \in Apps, AnswerAndResume(c, a) PROVE FollowInv'
  <2>1. Exists(a) /\ Settled(app[a], "pending").status = "pending"
                  /\ Settled(app[a], "pending").job = app[a].job
    BY <1>2, <1>8 DEF AnswerAndResume, Exists, Settled, AppDoc
  <2> QED BY <1>1, <1>8, <2>1, HoldFollows DEF AnswerAndResume
<1>9. ASSUME NEW a \in Apps, SubmitOtp(c, a) PROVE FollowInv'
  <2> DEFINE d == WithOtp(Settled(app[a], "pending"), codes + 1)
  <2>1. Exists(a) /\ d.status = "pending" /\ d.job = app[a].job
    BY <1>2, <1>9 DEF SubmitOtp, Exists, Settled, WithOtp, AppDoc
  <2> HIDE DEF d
  <2>2. Hold(c, "otp", "save", app[a].job, a, d)
    BY <1>9 DEF SubmitOtp, d
  <2> QED BY <1>1, <2>1, <2>2, HoldFollows
<1> QED BY <1>3, <1>4, <1>5, <1>6, <1>7, <1>8, <1>9 DEF Ask

\* A request that gets on saves the copy it has and sends what it says.
LEMMA ServeFollows ==
  ASSUME TypeInv, FollowInv, NEW c \in Clients, Serve(c) \/ PublishFails(c) \/ RequestBreaks(c)
  PROVE  FollowInv'
<1>1. UNCHANGED workerVars
  BY DEF Serve, CreateApp, JobApplying, RequeuePending, ResaveActive, SaveCopy, ReadReleased,
         ReleaseJob, RecordDecision, PublishJobApply, PublishFails, RequestBreaks
<1>2. \A d \in Clients \ {c} : /\ cpc'[d] = cpc[d] /\ cop'[d] = cop[d] /\ cjob'[d] = cjob[d]
                               /\ capp'[d] = capp[d] /\ cdoc'[d] = cdoc[d]
  BY DEF Serve, CreateApp, JobApplying, RequeuePending, ResaveActive, SaveCopy, ReadReleased,
         ReleaseJob, RecordDecision, PublishJobApply, PublishFails, RequestBreaks, Goto, KeepHold, Reply,
         TypeInv, TypeOK, ClientsOK
<1>3. \/ topic' = topic
      \/ topic' = Append(topic, Request(c))
  BY DEF Serve, CreateApp, JobApplying, RequeuePending, ResaveActive, SaveCopy, ReadReleased,
         ReleaseJob, RecordDecision, PublishJobApply, PublishFails, RequestBreaks, busVars
<1>4. ClientFollows(c) /\ NoApp \notin Apps
  BY PipelineAssumption DEF FollowInv
<1>5. /\ app \in [Apps -> AppDoc] /\ cdoc[c] \in AppDoc /\ cjob[c] \in Jobs \cup {NoJob}
  BY DEF TypeInv, TypeOK, DatabaseOK, ClientsOK
<1>6. ASSUME Reply(c) PROVE cpc'[c] = "idle" /\ capp'[c] = NoApp
  BY <1>6 DEF Reply, TypeInv, TypeOK, ClientsOK
<1>7. ASSUME NEW pc, Goto(c, pc), KeepHold
      PROVE  /\ cpc'[c] = pc /\ cop'[c] = cop[c] /\ cjob'[c] = cjob[c]
             /\ capp'[c] = capp[c] /\ cdoc'[c] = cdoc[c]
  BY <1>7 DEF Goto, KeepHold, TypeInv, TypeOK, ClientsOK
<1>8. ASSUME NEW a \in Apps, CreateApp(c, a) PROVE FollowInv'
  <2>1. ~Exists(a) /\ NewDoc(cjob[c], "pending").status = "pending"
                   /\ NewDoc(cjob[c], "pending").job = cjob[c]
    BY <1>8 DEF CreateApp, Unused, Exists, NewDoc, Blank
  <2>2. Fixed
    BY <1>8, <2>1, SaveFixes DEF CreateApp
  <2>3. cpc'[c] = "created" /\ capp'[c] = a /\ cjob'[c] = cjob[c]
    BY <1>8 DEF CreateApp, Goto, TypeInv, TypeOK, ClientsOK
  <2>4. app'[a] = NewDoc(cjob[c], "pending")
    BY <1>5, <1>8 DEF CreateApp
  <2>5. ClientFollows(c)'
    BY <2>1, <2>3, <2>4 DEF ClientFollows, Exists
  <2> QED BY <1>1, <1>2, <1>3, <2>2, <2>5, RequestFollows
<1>9. ASSUME JobApplying(c) PROVE FollowInv'
  <2>1. Fixed
    BY <1>9 DEF JobApplying, Fixed, Exists
  <2>2. /\ capp'[c] = capp[c] /\ cjob'[c] = cjob[c] /\ cdoc'[c] = cdoc[c] /\ cop'[c] = cop[c]
        /\ cpc'[c] = IF cpc[c] = "created" THEN "publish" ELSE "resave"
        /\ cpc[c] \in {"created", "reuse"} /\ app' = app
    BY <1>7, <1>9 DEF JobApplying
  <2>3. ClientFollows(c)'
    BY <1>4, <2>2 DEF ClientFollows, Exists
  <2> QED BY <1>1, <1>2, <1>3, <2>1, <2>3, RequestFollows
<1>10. ASSUME app' = [app EXCEPT ![capp[c]] = cdoc[c]], cpc[c] \in {"resave", "save"}
       PROVE  Fixed /\ capp[c] \in Apps
  <2>1. capp[c] \in Apps /\ cdoc[c].status # "absent" /\ cdoc[c].job = app[capp[c]].job
    BY <1>4, <1>10 DEF ClientFollows, Exists
  <2> QED BY <1>10, <2>1, SaveFixes
<1>11. ASSUME RequeuePending(c) PROVE FollowInv'
  <2>1. Fixed
    BY <1>10, <1>11 DEF RequeuePending
  <2>2. cpc'[c] = "publish" /\ capp'[c] = capp[c] /\ cjob'[c] = cjob[c]
    BY <1>7, <1>11 DEF RequeuePending
  <2>3. ClientFollows(c)'
    BY <1>4, <2>1, <2>2 DEF ClientFollows, Fixed, Exists
  <2> QED BY <1>1, <1>2, <1>3, <2>1, <2>3, RequestFollows
<1>12. ASSUME ResaveActive(c) PROVE FollowInv'
  <2>1. Fixed
    BY <1>10, <1>12 DEF ResaveActive
  <2>2. ClientFollows(c)'
    BY <1>6, <1>12 DEF ResaveActive, ClientFollows
  <2> QED BY <1>1, <1>2, <1>3, <2>1, <2>2, RequestFollows
<1>13. ASSUME SaveCopy(c) PROVE FollowInv'
  <2>1. Fixed
    BY <1>10, <1>13 DEF SaveCopy
  <2>2. cpc'[c] \in {"release", "publish"} /\ capp'[c] = capp[c] /\ cjob'[c] = cjob[c]
    BY <1>7, <1>13 DEF SaveCopy
  <2>3. ClientFollows(c)'
    BY <1>4, <2>1, <2>2 DEF ClientFollows, Fixed, Exists
  <2> QED BY <1>1, <1>2, <1>3, <2>1, <2>3, RequestFollows
<1>14. ASSUME app' = app, Reply(c) PROVE FollowInv'
  <2>1. Fixed
    BY <1>14 DEF Fixed, Exists
  <2>2. ClientFollows(c)'
    BY <1>6, <1>14 DEF ClientFollows
  <2> QED BY <1>1, <1>2, <1>3, <2>1, <2>2, RequestFollows
<1>15. ASSUME RecordDecision(c) PROVE FollowInv'
  <2>1. CASE Goto(c, "publish") /\ KeepHold
    <3>1. Fixed
      BY <1>15 DEF RecordDecision, Fixed, Exists
    <3>2. cpc'[c] = "publish" /\ capp'[c] = capp[c] /\ cpc[c] \in {"approve", "reject"}
      BY <1>7, <1>15, <2>1 DEF RecordDecision
    <3>3. ClientFollows(c)'
      BY <1>4, <3>2 DEF ClientFollows
    <3> QED BY <1>1, <1>2, <1>3, <3>1, <3>3, RequestFollows
  <2>2. CASE Reply(c)
    BY <1>14, <1>15, <2>2 DEF RecordDecision
  <2> QED BY <1>15, <2>1, <2>2 DEF RecordDecision
<1>16. ASSUME ReleaseJob(c) \/ PublishJobApply(c) \/ PublishFails(c) \/ RequestBreaks(c)
       PROVE  FollowInv'
  BY <1>14, <1>16 DEF ReleaseJob, PublishJobApply, PublishFails, RequestBreaks, dbVars
<1>17. ASSUME ReadReleased(c) PROVE FollowInv'
  <2>1. CASE Goto(c, "giveBack") /\ KeepHold
    <3>1. Fixed
      BY <1>17 DEF ReadReleased, dbVars, Fixed, Exists
    <3>2. /\ app' = app /\ cpc[c] = "release"
          /\ cpc'[c] = "giveBack" /\ capp'[c] = capp[c] /\ cjob'[c] = cjob[c]
      BY <1>7, <1>17, <2>1 DEF ReadReleased, dbVars
    <3>3. ClientFollows(c)'
      BY <1>4, <3>2 DEF ClientFollows, Exists
    <3> QED BY <1>1, <1>2, <1>3, <3>1, <3>3, RequestFollows
  <2>2. CASE Reply(c)
    BY <1>14, <1>17, <2>2 DEF ReadReleased, dbVars
  <2> QED BY <1>17, <2>1, <2>2 DEF ReadReleased
<1> QED BY <1>8, <1>9, <1>11, <1>12, <1>13, <1>15, <1>16, <1>17 DEF Serve

\* A message that goes back, counted or not, says what it said.
LEMMA RouteFollows ==
  ASSUME TypeInv, FollowInv, Fixed, NEW w \in Workers,
         HandleRaises(w) \/ Crash(w)
  PROVE  (\A i \in DOMAIN topic : MessageFollows(topic[i]))'
<1> DEFINE m == wmsg[w]
<1>1. topic \in Seq(Message) /\ m \in Message
  BY DEF TypeInv, TypeOK, BusOK, WorkersOK
<1>2. Counted(m).app = m.app /\ Counted(m).job = m.job
  BY <1>1 DEF Counted, Message
<1>3. MessageFollows(m) /\ MessageFollows(Counted(m))
  BY <1>2 DEF FollowInv, WorkerFollows, MessageFollows
<1>4. \A i \in DOMAIN topic : MessageFollows(topic[i])
  BY DEF FollowInv
<1>5. \/ topic' = topic
      \/ topic' = Append(topic, Counted(m))
      \/ topic' = <<m>> \o topic
  BY DEF HandleRaises, Crash, RouteFailure, Rerun, busVars
<1> HIDE DEF m
<1>6. ASSUME NEW i \in DOMAIN topic'
      PROVE  topic'[i] = m \/ topic'[i] = Counted(m) \/ \E k \in DOMAIN topic : topic'[i] = topic[k]
  <2>1. CASE topic' = topic
    BY <1>6, <2>1
  <2>2. CASE topic' = Append(topic, Counted(m))
    BY <1>1, <1>6, <2>2
  <2>3. CASE topic' = <<m>> \o topic
    <3>1. DOMAIN topic' = 1..(Len(topic) + 1) /\ topic'[1] = m
      BY <1>1, <2>3
    <3>2. ASSUME i # 1 PROVE i - 1 \in DOMAIN topic /\ topic'[i] = topic[i - 1]
      BY <1>1, <1>6, <2>3, <3>1, <3>2
    <3> QED BY <3>1, <3>2
  <2> QED BY <1>5, <2>1, <2>2, <2>3
<1>7. ASSUME NEW i \in DOMAIN topic' PROVE MessageFollows(topic'[i])
  BY <1>3, <1>4, <1>6, <1>7
<1> QED BY <1>7, MessageStays DEF MessageFollows, Exists

\* A worker takes the application its message leads to, and keeps it to the end.
LEMMA WorkFollows ==
  ASSUME TypeInv, FollowInv, NEW w \in Workers,
         Work(w) \/ SessionProgress(w) \/ HandleRaises(w) \/ Crash(w)
  PROVE  FollowInv'
<1>1. UNCHANGED clientVars
  BY DEF Work, Receive, FindNone, CheckLimit, DeferApp, StartApp, Load, InsertApp, FailEarly,
         AttachAdapter, Finish, SaveApp, SaveJob, ScheduleFollowUp, Notify, SessionProgress,
         HandleRaises, Crash
<1>2. \A v \in Workers \ {w} : /\ wpc'[v] = wpc[v] /\ wmsg'[v] = wmsg[v]
                               /\ wapp'[v] = wapp[v] /\ wdoc'[v] = wdoc[v]
  BY DEF Work, Receive, FindNone, CheckLimit, DeferApp, StartApp, Load, InsertApp, FailEarly,
         AttachAdapter, Finish, SaveApp, SaveJob, ScheduleFollowUp, Notify, SessionProgress,
         HandleRaises, Crash, WGoto, Return, workerVars, TypeInv, TypeOK, WorkersOK
<1>3. WorkerFollows(w) /\ NoApp \notin Apps
  BY PipelineAssumption DEF FollowInv
<1>4. /\ app \in [Apps -> AppDoc] /\ wdoc[w] \in AppDoc /\ wmsg[w] \in Message
  BY DEF TypeInv, TypeOK, DatabaseOK, WorkersOK
<1>5. ASSUME Return(w)
      PROVE  wpc'[w] = "idle" /\ wapp'[w] = NoApp /\ wmsg'[w].app = NoApp
  BY <1>5 DEF Return, NoMsg, TypeInv, TypeOK, WorkersOK
<1>6. ASSUME NEW pc, WGoto(w, pc) PROVE wpc'[w] = pc
  BY <1>6 DEF WGoto, TypeInv, TypeOK, WorkersOK
<1>7. ASSUME Fixed, topic' = topic, WorkerFollows(w)' PROVE FollowInv'
  BY <1>1, <1>2, <1>7, TopicStays, HandlerFollows
<1>8. ASSUME app' = app PROVE Fixed
  BY <1>8 DEF Fixed, Exists
<1>9. ASSUME Return(w) PROVE WorkerFollows(w)'
  BY <1>5, <1>9 DEF WorkerFollows, MessageFollows
<1>10. ASSUME Receive(w) PROVE FollowInv'
  <2>1. topic \in Seq(Message) /\ topic # <<>> /\ wmsg'[w] = Head(topic) /\ topic' = Tail(topic)
    BY <1>10 DEF Receive, TypeInv, TypeOK, BusOK, WorkersOK
  <2>2. Fixed /\ app' = app
    BY <1>8, <1>10 DEF Receive, dbVars
  <2>3. MessageFollows(Head(topic))
    <3>1. 1 \in DOMAIN topic /\ Head(topic) = topic[1]
      BY <2>1
    <3> QED BY <3>1 DEF FollowInv
  <2>4. wpc'[w] = "load" /\ wapp'[w] = NoApp
    BY <1>3, <1>6, <1>10 DEF Receive, WorkerFollows
  <2>5. WorkerFollows(w)'
    BY <2>1, <2>2, <2>3, <2>4 DEF WorkerFollows, MessageFollows, Exists
  <2>6. ASSUME NEW i \in DOMAIN topic' PROVE MessageFollows(topic'[i])
    <3>1. i + 1 \in DOMAIN topic /\ topic'[i] = topic[i + 1]
      BY <2>1, <2>6
    <3> QED BY <3>1 DEF FollowInv
  <2>7. (\A i \in DOMAIN topic : MessageFollows(topic[i]))'
    BY <2>2, <2>6 DEF MessageFollows, Exists
  <2> QED BY <1>1, <1>2, <2>2, <2>5, <2>7, HandlerFollows
<1>11. ASSUME NEW a \in Apps, Load(w, a) PROVE FollowInv'
  <2>1. app' = app /\ topic' = topic /\ wmsg'[w] = wmsg[w]
    BY <1>11 DEF Load, dbVars, busVars
  <2>2. Exists(a) /\ Names(wmsg[w], a)
    <3>1. CASE wmsg[w].app = NoApp
      BY <1>11, <3>1 DEF Load, ActiveFor, Exists, Names, Active, Paused
    <3>2. CASE wmsg[w].app # NoApp
      BY <1>3, <1>11, <3>2 DEF Load, WorkerFollows, MessageFollows, Names
    <3> QED BY <3>1, <3>2
  <2>3. wpc'[w] = "limit" /\ wapp'[w] = a /\ wdoc'[w] = app[a]
    BY <1>6, <1>11 DEF Load, TypeInv, TypeOK, WorkersOK
  <2>4. WorkerFollows(w)'
    BY <1>3, <2>1, <2>2, <2>3 DEF WorkerFollows, MessageFollows, Exists, Names
  <2> QED BY <1>7, <1>8, <2>1, <2>4
<1>12. ASSUME FindNone(w) PROVE FollowInv'
  <2>1. /\ app' = app /\ topic' = topic /\ wmsg'[w] = wmsg[w] /\ wapp'[w] = wapp[w]
        /\ wpc[w] = "load" /\ wpc'[w] = "insert" /\ wmsg[w].app = NoApp
    BY <1>6, <1>12 DEF FindNone, dbVars, busVars
  <2>2. WorkerFollows(w)'
    BY <1>3, <2>1 DEF WorkerFollows, MessageFollows, Exists
  <2> QED BY <1>7, <1>8, <2>1, <2>2
<1>13. ASSUME NEW a \in Apps, InsertApp(w, a) PROVE FollowInv'
  <2> DEFINE d == NewDoc(wmsg[w].job, "in_progress")
  <2>1. ~Exists(a) /\ d.status = "in_progress" /\ d.job = wmsg[w].job
    BY <1>13 DEF InsertApp, Unused, Exists, NewDoc, Blank
  <2>2. app' = [app EXCEPT ![a] = d] /\ topic' = topic /\ wmsg'[w] = wmsg[w] /\ wpc[w] = "insert"
    BY <1>13 DEF InsertApp, busVars
  <2>3. wpc'[w] = "limit" /\ wapp'[w] = a /\ wdoc'[w] = d
    BY <1>6, <1>13 DEF InsertApp, TypeInv, TypeOK, WorkersOK
  <2> HIDE DEF d
  <2>4. Fixed
    BY <2>1, <2>2, SaveFixes
  <2>5. app'[a] = d
    BY <1>4, <2>2
  <2>6. wmsg[w].app = NoApp
    BY <1>3, <2>2 DEF WorkerFollows
  <2>7. WorkerFollows(w)'
    BY <1>3, <2>1, <2>2, <2>3, <2>4, <2>5, <2>6 DEF WorkerFollows, MessageFollows, Exists, Names, Fixed
  <2> QED BY <1>7, <2>2, <2>4, <2>7
<1>14. ASSUME CheckLimit(w) PROVE FollowInv'
  <2>1. /\ app' = app /\ topic' = topic /\ wmsg'[w] = wmsg[w] /\ wapp'[w] = wapp[w]
        /\ wdoc'[w] = wdoc[w] /\ wpc[w] = "limit" /\ wpc'[w] \in {"start", "defer"}
    BY <1>6, <1>14 DEF CheckLimit, dbVars, busVars
  <2>2. WorkerFollows(w)'
    BY <1>3, <2>1 DEF WorkerFollows, MessageFollows, Exists, Names
  <2> QED BY <1>7, <1>8, <2>1, <2>2
<1>15. ASSUME NEW d, app' = [app EXCEPT ![wapp[w]] = d], d.status # "absent", d.job = wdoc[w].job,
              wpc[w] \notin {"idle", "load", "insert"}
       PROVE  Fixed
  <2>1. wapp[w] \in Apps /\ wdoc[w].job = app[wapp[w]].job
    BY <1>3, <1>15 DEF WorkerFollows, Exists
  <2> QED BY <1>15, <2>1, SaveFixes
<1>16. ASSUME DeferApp(w) PROVE FollowInv'
  <2>1. Deferred(wdoc[w]).status = "pending" /\ Deferred(wdoc[w]).job = wdoc[w].job
    BY <1>4 DEF Deferred, AppDoc
  <2>2. Fixed /\ topic' = topic
    BY <1>15, <1>16, <2>1 DEF DeferApp, busVars
  <2> QED BY <1>7, <1>9, <1>16, <2>2 DEF DeferApp
<1>17. ASSUME StartApp(w) PROVE FollowInv'
  <2> DEFINE d == Moved(wdoc[w], "in_progress")
  <2>1. d.status = "in_progress" /\ d.job = wdoc[w].job
    BY <1>4 DEF Moved, AppDoc
  <2>2. /\ topic' = topic /\ wmsg'[w] = wmsg[w] /\ wapp'[w] = wapp[w] /\ wdoc'[w] = d
        /\ app' = [app EXCEPT ![wapp[w]] = d] /\ wpc[w] = "start" /\ wpc'[w] = "prepare"
    BY <1>6, <1>17 DEF StartApp, busVars, TypeInv, TypeOK, WorkersOK
  <2> HIDE DEF d
  <2>3. Fixed
    BY <1>15, <2>1, <2>2
  <2>4. WorkerFollows(w)'
    BY <1>3, <2>1, <2>2, <2>3 DEF WorkerFollows, MessageFollows, Exists, Names, Fixed
  <2> QED BY <1>7, <2>2, <2>3, <2>4
<1>18. ASSUME app' = app, topic' = topic, wmsg'[w] = wmsg[w], wapp'[w] = wapp[w],
              wdoc'[w].job = wdoc[w].job, wdoc'[w].status # "absent",
              wpc[w] \in {"prepare", "run"}, wpc'[w] \in {"run", "saveApp"},
              wpc'[w] = "saveApp" => wdoc'[w].status \in Paused \cup {"success", "failed"}
       PROVE  FollowInv'
  <2>1. WorkerFollows(w)'
    BY <1>3, <1>18 DEF WorkerFollows, MessageFollows, Exists, Names
  <2> QED BY <1>7, <1>8, <1>18, <2>1
<1>19. ASSUME FailEarly(w) PROVE FollowInv'
  <2>1. Settled(wdoc[w], "failed").status = "failed" /\ Settled(wdoc[w], "failed").job = wdoc[w].job
    BY <1>4 DEF Settled, AppDoc
  <2>2. wdoc'[w] = Settled(wdoc[w], "failed")
    BY <1>19 DEF FailEarly, TypeInv, TypeOK, WorkersOK
  <2> QED BY <1>6, <1>18, <1>19, <2>1, <2>2 DEF FailEarly, dbVars, busVars
<1>20. ASSUME AttachAdapter(w) PROVE FollowInv'
  <2>1. /\ WithOtp(wdoc[w], 0).status = wdoc[w].status
        /\ WithOtp(wdoc[w], 0).job = wdoc[w].job
    BY <1>4 DEF WithOtp, AppDoc
  <2>2. wdoc'[w] = wdoc[w] \/ wdoc'[w] = WithOtp(wdoc[w], 0)
    BY <1>20 DEF AttachAdapter, TypeInv, TypeOK, WorkersOK
  <2>3. wdoc[w].status # "absent" /\ wpc[w] = "prepare" /\ wpc'[w] = "run"
    BY <1>3, <1>6, <1>20 DEF AttachAdapter, WorkerFollows
  <2> QED BY <1>18, <1>20, <2>1, <2>2, <2>3 DEF AttachAdapter, dbVars, busVars
<1>21. ASSUME NEW status \in AppStatus, Finish(w, status) PROVE FollowInv'
  <2>1. /\ Submitted(wdoc[w]).status = "success" /\ Submitted(wdoc[w]).job = wdoc[w].job
        /\ Settled(wdoc[w], status).status = status /\ Settled(wdoc[w], status).job = wdoc[w].job
    BY <1>4 DEF Submitted, Settled, AppDoc
  <2>2. wdoc'[w] = Submitted(wdoc[w]) \/ wdoc'[w] = Settled(wdoc[w], status)
    BY <1>21 DEF Finish, TypeInv, TypeOK, WorkersOK
  <2>3. /\ status \in Paused \cup {"success", "failed"} /\ wpc[w] = "run" /\ wpc'[w] = "saveApp"
        /\ "absent" \notin Paused
    BY <1>6, <1>21 DEF Finish, Paused
  <2> QED BY <1>18, <1>21, <2>1, <2>2, <2>3 DEF Finish, dbVars, busVars
<1>22. ASSUME SessionProgress(w) PROVE FollowInv'
  <2>1. /\ wpc[w] = "run" /\ wdoc[w].status # "absent" /\ topic' = topic
        /\ wmsg'[w] = wmsg[w] /\ wapp'[w] = wapp[w] /\ wdoc'[w] = wdoc[w] /\ wpc'[w] = wpc[w]
    BY <1>3, <1>22 DEF SessionProgress, WorkerFollows, busVars, workerVars
  <2>2. Fixed
    BY <1>15, <1>22, <2>1 DEF SessionProgress
  <2> QED BY <1>7, <2>1, <2>2, WorkerStays
<1>23. ASSUME SaveApp(w) PROVE FollowInv'
  <2>1. /\ wpc[w] = "saveApp" /\ wdoc[w].status # "absent" /\ topic' = topic
        /\ wmsg'[w] = wmsg[w] /\ wapp'[w] = wapp[w] /\ wdoc'[w] = wdoc[w] /\ wpc'[w] = "saveJob"
    BY <1>3, <1>6, <1>23 DEF SaveApp, WorkerFollows, busVars
  <2>2. Fixed
    BY <1>15, <1>23, <2>1 DEF SaveApp
  <2>3. WorkerFollows(w)'
    BY <1>3, <2>1, <2>2 DEF WorkerFollows, MessageFollows, Exists, Names, Fixed
  <2> QED BY <1>7, <2>1, <2>2, <2>3
<1>24. ASSUME SaveJob(w) PROVE FollowInv'
  <2>1. /\ app' = app /\ topic' = topic /\ wmsg'[w] = wmsg[w] /\ wapp'[w] = wapp[w]
        /\ wdoc'[w] = wdoc[w] /\ wpc[w] = "saveJob" /\ wpc'[w] \in {"followUp", "notify"}
    BY <1>6, <1>24 DEF SaveJob, dbVars, busVars
  <2>2. WorkerFollows(w)'
    BY <1>3, <2>1 DEF WorkerFollows, MessageFollows, Exists, Names
  <2> QED BY <1>7, <1>8, <2>1, <2>2
<1>25. ASSUME ScheduleFollowUp(w) PROVE FollowInv'
  <2> DEFINE d == Moved(wdoc[w], "follow_up")
  <2>1. d.status = "follow_up" /\ d.job = wdoc[w].job
    BY <1>4 DEF Moved, AppDoc
  <2>2. /\ topic' = topic /\ wmsg'[w] = wmsg[w] /\ wapp'[w] = wapp[w] /\ wdoc'[w] = d
        /\ app' = [app EXCEPT ![wapp[w]] = d] /\ wpc[w] = "followUp" /\ wpc'[w] = "notify"
    BY <1>6, <1>25 DEF ScheduleFollowUp, busVars, TypeInv, TypeOK, WorkersOK
  <2> HIDE DEF d
  <2>3. Fixed
    BY <1>15, <2>1, <2>2
  <2>4. WorkerFollows(w)'
    BY <1>3, <2>1, <2>2, <2>3 DEF WorkerFollows, MessageFollows, Exists, Names, Fixed
  <2> QED BY <1>7, <2>2, <2>3, <2>4
<1>26. ASSUME Notify(w) PROVE FollowInv'
  BY <1>7, <1>8, <1>9, <1>26 DEF Notify, dbVars, busVars
<1>27. ASSUME HandleRaises(w) \/ Crash(w) PROVE FollowInv'
  <2>1. Fixed /\ Return(w)
    BY <1>8, <1>27 DEF HandleRaises, Crash, dbVars
  <2>2. (\A i \in DOMAIN topic : MessageFollows(topic[i]))'
    BY <1>27, <2>1, RouteFollows
  <2> QED BY <1>1, <1>2, <1>9, <2>1, <2>2, HandlerFollows
<1> QED BY <1>10, <1>11, <1>12, <1>13, <1>14, <1>16, <1>17, <1>19, <1>20, <1>21, <1>22, <1>23,
           <1>24, <1>25, <1>26, <1>27 DEF Work

\* Midnight and the cooldown change nothing that is followed.
LEMMA TimeFollows == ASSUME TypeInv, FollowInv, CooldownOver \/ NewDay PROVE FollowInv'
<1>1. /\ app \in [Apps -> AppDoc] /\ wdoc \in [Workers -> AppDoc] /\ cdoc \in [Clients -> AppDoc]
  BY DEF TypeInv, TypeOK, DatabaseOK, WorkersOK, ClientsOK
<1>2. UNCHANGED <<topic, wpc, wmsg, wapp, cpc, cop, cjob, capp>>
  BY DEF CooldownOver, NewDay, busVars, workerVars, clientVars
<1>3. /\ \A a \in Apps : app'[a].status = app[a].status /\ app'[a].job = app[a].job
      /\ \A w \in Workers : wdoc'[w].status = wdoc[w].status /\ wdoc'[w].job = wdoc[w].job
      /\ \A c \in Clients : cdoc'[c].status = cdoc[c].status /\ cdoc'[c].job = cdoc[c].job
  <2>1. \A d \in AppDoc : Stale(d).status = d.status /\ Stale(d).job = d.job
    BY DEF Stale, AppDoc
  <2> QED BY <1>1, <2>1 DEF CooldownOver, NewDay, workerVars, clientVars
<1>4. Fixed
  BY <1>3 DEF Fixed, Exists
<1>5. ASSUME NEW w \in Workers PROVE WorkerFollows(w)'
  BY <1>2, <1>3, <1>5 DEF FollowInv, WorkerFollows, MessageFollows, Exists, Names
<1>6. ASSUME NEW c \in Clients PROVE ClientFollows(c)'
  BY <1>2, <1>3, <1>6 DEF FollowInv, ClientFollows, Exists
<1> QED BY <1>2, <1>4, <1>5, <1>6, TopicStays DEF FollowInv

LEMMA FollowStep == TypeInv /\ FollowInv /\ [Next]_vars => FollowInv'
<1>1. CASE UNCHANGED vars
  BY <1>1 DEF vars, FollowInv, WorkerFollows, ClientFollows, MessageFollows, Exists, Names
<1> QED BY <1>1, AskFollows, ServeFollows, WorkFollows, TimeFollows DEF Next

\* The four ways in which an application is attended.
InTopic(a) == \E i \in DOMAIN topic : Names(topic[i], a)
InDead(a) == \E i \in DOMAIN dlq : Names(dlq[i], a)
ByWorker(w, a) == WillSave(w, a) \/ (wpc[w] = "load" /\ Names(wmsg[w], a))
ByClient(c, a) == capp[c] = a /\ cpc[c] \notin {"release", "giveBack"}

LEMMA AttendedParts ==
  ASSUME NEW a \in Apps
  PROVE  /\ Attended(a) <=> \/ InTopic(a) \/ InDead(a)
                            \/ \E w \in Workers : ByWorker(w, a)
                            \/ \E c \in Clients : ByClient(c, a)
         /\ Attended(a)' <=> \/ InTopic(a)' \/ InDead(a)'
                             \/ \E w \in Workers : ByWorker(w, a)'
                             \/ \E c \in Clients : ByClient(c, a)'
BY DEF Attended, InTopic, InDead, ByWorker, ByClient

\* A request cannot take an application from those that attend to it, but itself.
LEMMA RequestKeeps ==
  ASSUME NEW a \in Apps, NEW c \in Clients, app'[a].job = app[a].job, Attended(a),
         UNCHANGED <<dlq, wpc, wmsg, wapp, wdoc>>, InTopic(a) => InTopic(a)',
         \A d \in Clients \ {c} : cpc'[d] = cpc[d] /\ capp'[d] = capp[d],
         ByClient(c, a) => ByClient(c, a)' \/ InTopic(a)'
  PROVE  Attended(a)'
<1>1. InDead(a) => InDead(a)'
  BY DEF InDead, Names
<1>2. ASSUME NEW w \in Workers, ByWorker(w, a) PROVE ByWorker(w, a)'
  BY <1>2 DEF ByWorker, WillSave, Names
<1>3. ASSUME NEW d \in Clients, ByClient(d, a) PROVE ByClient(d, a)' \/ InTopic(a)'
  <2>1. CASE d = c
    BY <1>3, <2>1
  <2>2. CASE d # c
    BY <1>3, <2>2 DEF ByClient
  <2> QED BY <2>1, <2>2
<1> QED BY <1>1, <1>2, <1>3, AttendedParts

\* Nor can a worker.
LEMMA HandlerKeeps ==
  ASSUME NEW a \in Apps, NEW w \in Workers, app'[a].job = app[a].job, Attended(a),
         UNCHANGED <<cpc, capp>>,
         \A v \in Workers \ {w} : /\ wpc'[v] = wpc[v] /\ wmsg'[v] = wmsg[v]
                                  /\ wapp'[v] = wapp[v] /\ wdoc'[v] = wdoc[v],
         InTopic(a) => InTopic(a)' \/ ByWorker(w, a)',
         InDead(a) => InDead(a)',
         ByWorker(w, a) => ByWorker(w, a)' \/ InTopic(a)' \/ InDead(a)'
  PROVE  Attended(a)'
<1>1. ASSUME NEW v \in Workers, ByWorker(v, a)
      PROVE  ByWorker(v, a)' \/ InTopic(a)' \/ InDead(a)'
  <2>1. CASE v = w
    BY <1>1, <2>1
  <2>2. CASE v # w
    BY <1>1, <2>2 DEF ByWorker, WillSave, Names
  <2> QED BY <2>1, <2>2
<1>2. ASSUME NEW c \in Clients, ByClient(c, a) PROVE ByClient(c, a)'
  BY <1>2 DEF ByClient
<1> QED BY <1>1, <1>2, AttendedParts

\* A request that is made, or gets on, leaves no application behind.
LEMMA AskKeeps ==
  ASSUME TypeInv, FollowInv, NEW c \in Clients, Ask(c), NEW a \in Apps,
         Underway(a)', ~Orphan(a)
  PROVE  Attended(a)'
<1>1. /\ UNCHANGED <<app, topic, dlq, wpc, wmsg, wapp, wdoc>> /\ cpc[c] = "idle"
      /\ \A d \in Clients \ {c} : cpc'[d] = cpc[d] /\ capp'[d] = capp[d]
  BY DEF Ask, QueueReuse, QueueFresh, Decide, Retry, Cancel, AnswerAndResume, SubmitOtp, Hold,
         TypeInv, TypeOK, ClientsOK, dbVars, busVars, workerVars
<1>2. Attended(a)
  BY <1>1 DEF Underway, Orphan
<1>3. ~ByClient(c, a)
  BY <1>1, PipelineAssumption DEF FollowInv, ClientFollows, ByClient
<1>4. InTopic(a) => InTopic(a)'
  BY <1>1 DEF InTopic, Names
<1> QED BY <1>1, <1>2, <1>3, <1>4, RequestKeeps

LEMMA ServeKeeps ==
  ASSUME TypeInv, FollowInv, NEW c \in Clients, Serve(c), NEW a \in Apps,
         Underway(a)', ~Orphan(a), ~Resaved(a)
  PROVE  Attended(a)'
<1>1. /\ UNCHANGED <<dlq, wpc, wmsg, wapp, wdoc>>
      /\ topic' = topic \/ topic' = Append(topic, Request(c))
      /\ \A d \in Clients \ {c} : cpc'[d] = cpc[d] /\ capp'[d] = capp[d]
  BY DEF Serve, CreateApp, JobApplying, RequeuePending, ResaveActive, SaveCopy, ReadReleased,
         ReleaseJob, RecordDecision, PublishJobApply, Goto, KeepHold, Reply,
         TypeInv, TypeOK, ClientsOK, busVars, workerVars
<1>2. /\ app \in [Apps -> AppDoc] /\ topic \in Seq(Message) /\ Request(c) \in Message
      /\ ClientFollows(c) /\ NoApp \notin Apps
  BY RequestType, PipelineAssumption DEF TypeInv, TypeOK, DatabaseOK, BusOK, FollowInv
<1>3. ASSUME app'[a].job = app[a].job, InTopic(a) PROVE InTopic(a)'
  <2>1. PICK i \in DOMAIN topic : Names(topic[i], a)
    BY <1>3 DEF InTopic
  <2>2. i \in DOMAIN topic' /\ topic'[i] = topic[i]
    BY <1>1, <1>2, <2>1
  <2> QED BY <1>3, <2>1, <2>2 DEF InTopic, Names
<1>4. ASSUME app'[a] = app[a], ByClient(c, a) => ByClient(c, a)' \/ InTopic(a)'
      PROVE  Attended(a)'
  <2>1. Attended(a)
    BY <1>4 DEF Underway, Orphan
  <2> QED BY <1>1, <1>3, <1>4, <2>1, RequestKeeps
<1>5. ASSUME ByClient(c, a)' PROVE Attended(a)'
  BY <1>5, AttendedParts
<1>6. ASSUME NEW pc, Goto(c, pc) PROVE cpc'[c] = pc
  BY <1>6 DEF Goto, TypeInv, TypeOK, ClientsOK
<1>7. ASSUME NEW b \in Apps, CreateApp(c, b) PROVE Attended(a)'
  <2>1. cpc'[c] = "created" /\ capp'[c] = b /\ capp[c] = NoApp
    BY <1>2, <1>6, <1>7 DEF CreateApp, ClientFollows, TypeInv, TypeOK, ClientsOK
  <2>2. CASE a = b
    BY <1>5, <2>1, <2>2 DEF ByClient
  <2>3. CASE a # b
    <3>1. app'[a] = app[a]
      BY <1>7, <2>3 DEF CreateApp
    <3> QED BY <1>2, <1>4, <2>1, <3>1 DEF ByClient
  <2> QED BY <2>2, <2>3
<1>8. ASSUME JobApplying(c) PROVE Attended(a)'
  <2>1. app' = app /\ capp' = capp /\ cpc'[c] \in {"publish", "resave"}
    BY <1>6, <1>8 DEF JobApplying, KeepHold
  <2> QED BY <1>4, <2>1 DEF ByClient
<1>9. ASSUME RequeuePending(c) PROVE Attended(a)'
  <2>1. app' = [app EXCEPT ![capp[c]] = cdoc[c]] /\ capp' = capp /\ cpc'[c] = "publish"
    BY <1>6, <1>9 DEF RequeuePending, KeepHold
  <2>2. CASE a = capp[c]
    BY <1>5, <2>1, <2>2 DEF ByClient
  <2>3. CASE a # capp[c]
    BY <1>2, <1>4, <2>1, <2>3 DEF ByClient
  <2> QED BY <2>2, <2>3
<1>10. ASSUME ResaveActive(c) PROVE Attended(a)'
  <2>1. a # capp[c]
    BY <1>10 DEF ResaveActive, Resaved
  <2>2. app'[a] = app[a]
    BY <1>10, <2>1 DEF ResaveActive
  <2> QED BY <1>4, <2>1, <2>2 DEF ByClient
<1>11. ASSUME SaveCopy(c) PROVE Attended(a)'
  <2>1. /\ app' = [app EXCEPT ![capp[c]] = cdoc[c]] /\ capp' = capp /\ cpc[c] = "save"
        /\ cpc'[c] = IF cop[c] = "cancel" THEN "release" ELSE "publish"
    BY <1>6, <1>11 DEF SaveCopy, KeepHold
  <2>2. CASE a # capp[c]
    BY <1>2, <1>4, <2>1, <2>2 DEF ByClient
  <2>3. CASE a = capp[c] /\ cop[c] = "cancel"
    <3>1. app'[a].status = "cancelled"
      BY <1>2, <2>1, <2>3 DEF ClientFollows
    <3> QED BY <3>1 DEF Underway
  <2>4. CASE a = capp[c] /\ cop[c] # "cancel"
    BY <1>5, <2>1, <2>4 DEF ByClient
  <2> QED BY <2>2, <2>3, <2>4
<1>12. ASSUME ReadReleased(c) \/ ReleaseJob(c) PROVE Attended(a)'
  <2>1. app' = app /\ cpc[c] \in {"release", "giveBack"}
    BY <1>12 DEF ReadReleased, ReleaseJob, dbVars
  <2> QED BY <1>4, <2>1 DEF ByClient
<1>13. ASSUME RecordDecision(c) PROVE Attended(a)'
  <2>1. app' = app /\ capp[c] = NoApp
    BY <1>2, <1>13 DEF RecordDecision, ClientFollows
  <2> QED BY <1>2, <1>4, <2>1 DEF ByClient
<1>14. ASSUME PublishJobApply(c) PROVE Attended(a)'
  <2>1. app' = app /\ topic' = Append(topic, Request(c))
    BY <1>14 DEF PublishJobApply, dbVars
  <2>2. ASSUME ByClient(c, a) PROVE InTopic(a)'
    <3>1. Request(c).app = a
      BY <2>2 DEF ByClient, Request
    <3>2. Len(topic) + 1 \in DOMAIN topic' /\ topic'[Len(topic) + 1] = Request(c)
      BY <1>2, <2>1
    <3> QED BY <3>1, <3>2 DEF InTopic, Names
  <2> QED BY <1>4, <2>1, <2>2
<1> QED BY <1>7, <1>8, <1>9, <1>10, <1>11, <1>12, <1>13, <1>14 DEF Serve

\* A worker brings its application to an end before it lets go of it.
LEMMA WorkKeeps ==
  ASSUME TypeInv, FollowInv, NEW w \in Workers, Work(w) \/ SessionProgress(w), NEW a \in Apps,
         Underway(a)', ~Orphan(a), ~PassedOver(a)
  PROVE  Attended(a)'
<1>1. /\ UNCHANGED <<dlq, cpc, capp>>
      /\ \A v \in Workers \ {w} : /\ wpc'[v] = wpc[v] /\ wmsg'[v] = wmsg[v]
                                  /\ wapp'[v] = wapp[v] /\ wdoc'[v] = wdoc[v]
  BY DEF Work, Receive, FindNone, CheckLimit, DeferApp, StartApp, Load, InsertApp, FailEarly,
         AttachAdapter, Finish, SaveApp, SaveJob, ScheduleFollowUp, Notify, SessionProgress,
         WGoto, Return, busVars, workerVars, clientVars, TypeInv, TypeOK, WorkersOK
<1>2. /\ app \in [Apps -> AppDoc] /\ topic \in Seq(Message) /\ WorkerFollows(w) /\ NoApp \notin Apps
      /\ wdoc[w] \in AppDoc /\ wapp[w] \in Apps \cup {NoApp} /\ wmsg[w] \in Message
  BY PipelineAssumption DEF TypeInv, TypeOK, DatabaseOK, BusOK, WorkersOK, FollowInv
<1>3. InDead(a) /\ app'[a].job = app[a].job => InDead(a)'
  BY <1>1 DEF InDead, Names
<1>4. ASSUME app'[a] = app[a], topic' = topic, ByWorker(w, a) => ByWorker(w, a)'
      PROVE  Attended(a)'
  <2>1. Attended(a)
    BY <1>4 DEF Underway, Orphan
  <2>2. InTopic(a) => InTopic(a)'
    BY <1>4 DEF InTopic, Names
  <2> QED BY <1>1, <1>3, <1>4, <2>1, <2>2, HandlerKeeps
<1>5. ASSUME ByWorker(w, a)' PROVE Attended(a)'
  BY <1>5, AttendedParts
<1>6. ASSUME NEW pc, WGoto(w, pc) PROVE wpc'[w] = pc
  BY <1>6 DEF WGoto, TypeInv, TypeOK, WorkersOK
<1>7. ASSUME Receive(w) PROVE Attended(a)'
  <2>1. /\ topic # <<>> /\ wmsg'[w] = Head(topic) /\ topic' = Tail(topic) /\ app' = app
        /\ wpc[w] = "idle" /\ wpc'[w] = "load"
    BY <1>6, <1>7 DEF Receive, dbVars, TypeInv, TypeOK, WorkersOK
  <2>2. Attended(a) /\ ~ByWorker(w, a)
    BY <1>2, <2>1 DEF Underway, Orphan, ByWorker, WillSave, WorkerFollows
  <2>3. ASSUME InTopic(a) PROVE InTopic(a)' \/ ByWorker(w, a)'
    <3>1. PICK i \in DOMAIN topic : Names(topic[i], a)
      BY <2>3 DEF InTopic
    <3>2. CASE i = 1
      <4>1. Head(topic) = topic[1]
        BY <1>2, <2>1
      <4> QED BY <2>1, <3>1, <3>2, <4>1 DEF ByWorker, Names
    <3>3. CASE i # 1
      <4>1. i - 1 \in DOMAIN topic' /\ topic'[i - 1] = topic[i]
        BY <1>2, <2>1, <3>1, <3>3
      <4> QED BY <2>1, <3>1, <4>1 DEF InTopic, Names
    <3> QED BY <3>2, <3>3
  <2> QED BY <1>1, <1>3, <2>1, <2>2, <2>3, HandlerKeeps
<1>8. ASSUME NEW b \in Apps, Load(w, b) PROVE Attended(a)'
  <2>1. /\ app' = app /\ topic' = topic /\ wpc[w] = "load" /\ wapp'[w] = b /\ wpc'[w] = "limit"
        /\ wapp[w] = NoApp
    BY <1>2, <1>6, <1>8 DEF Load, dbVars, busVars, WorkerFollows, TypeInv, TypeOK, WorkersOK
  <2>2. ASSUME ByWorker(w, a) PROVE ByWorker(w, a)'
    <3>1. Names(wmsg[w], a)
      BY <1>2, <2>1, <2>2 DEF ByWorker, WillSave
    <3>2. b = a
      BY <1>2, <2>1, <3>1 DEF PassedOver
    <3> QED BY <2>1, <3>2 DEF ByWorker, WillSave
  <2> QED BY <1>4, <2>1, <2>2
<1>9. ASSUME FindNone(w) PROVE Attended(a)'
  <2>1. /\ app' = app /\ topic' = topic /\ wpc[w] = "load" /\ wmsg[w].app = NoApp
        /\ a \notin ActiveFor(wmsg[w].job) /\ wapp[w] = NoApp
    BY <1>2, <1>9 DEF FindNone, dbVars, busVars, WorkerFollows
  <2>2. app[a].status \in Active
    BY <2>1 DEF Underway, Active
  <2>3. ~ByWorker(w, a)
    BY <1>2, <2>1, <2>2 DEF ByWorker, WillSave, Names, ActiveFor
  <2> QED BY <1>4, <2>1, <2>3
<1>10. ASSUME NEW b \in Apps, InsertApp(w, b) PROVE Attended(a)'
  <2>1. /\ wapp'[w] = b /\ wpc'[w] = "limit" /\ wapp[w] = NoApp /\ wpc[w] = "insert"
        /\ topic' = topic
    BY <1>2, <1>6, <1>10 DEF InsertApp, WorkerFollows, busVars, TypeInv, TypeOK, WorkersOK
  <2>2. CASE a = b
    BY <1>5, <2>1, <2>2 DEF ByWorker, WillSave
  <2>3. CASE a # b
    <3>1. app'[a] = app[a]
      BY <1>10, <2>3 DEF InsertApp
    <3> QED BY <1>2, <1>4, <2>1, <3>1 DEF ByWorker, WillSave
  <2> QED BY <2>2, <2>3
<1>11. ASSUME NEW d, app' = [app EXCEPT ![wapp[w]] = d], topic' = topic,
              wpc[w] \notin {"idle", "load", "insert"},
              a = wapp[w] => d.status \in AppStatus \ {"in_progress", "retrying"},
              a = wapp[w] /\ d.status = "pending" => d.deferred
       PROVE  Attended(a)'
  <2>1. a # wapp[w]
    BY <1>2, <1>11 DEF Underway
  <2>2. app'[a] = app[a] /\ ~ByWorker(w, a)
    BY <1>11, <2>1 DEF ByWorker, WillSave
  <2> QED BY <1>4, <1>11, <2>2
<1>12. ASSUME DeferApp(w) PROVE Attended(a)'
  <2>1. Deferred(wdoc[w]).status = "pending" /\ Deferred(wdoc[w]).deferred
    BY <1>2 DEF Deferred, AppDoc
  <2> QED BY <1>11, <1>12, <2>1 DEF DeferApp, busVars, AppStatus, Active
<1>13. ASSUME ScheduleFollowUp(w) PROVE Attended(a)'
  <2>1. Moved(wdoc[w], "follow_up").status = "follow_up"
    BY <1>2 DEF Moved, AppDoc
  <2> QED BY <1>11, <1>13, <2>1 DEF ScheduleFollowUp, busVars, AppStatus
<1>14. ASSUME SaveApp(w) PROVE Attended(a)'
  <2>1. wdoc[w].status \in Paused \cup {"success", "failed"} /\ wpc[w] = "saveApp"
    BY <1>2, <1>14 DEF SaveApp, WorkerFollows
  <2> QED BY <1>11, <1>14, <2>1 DEF SaveApp, busVars, AppStatus, Active, Paused
<1>15. ASSUME topic' = topic, wapp'[w] = wapp[w], wpc[w] \notin {"idle", "load", "insert", "notify"},
              wpc'[w] \notin {"notify", "saveJob"},
              app' = app \/ \E d : app' = [app EXCEPT ![wapp[w]] = d]
       PROVE  Attended(a)'
  <2>1. CASE a = wapp[w]
    BY <1>5, <1>15, <2>1 DEF ByWorker, WillSave
  <2>2. CASE a # wapp[w]
    <3>1. app'[a] = app[a]
      <4>1. ASSUME NEW d, app' = [app EXCEPT ![wapp[w]] = d] PROVE app'[a] = app[a]
        BY <1>2, <2>2, <4>1
      <4> QED BY <1>15, <4>1
    <3>2. ~ByWorker(w, a)
      BY <1>15, <2>2 DEF ByWorker, WillSave
    <3> QED BY <1>4, <1>15, <3>1, <3>2
  <2> QED BY <2>1, <2>2
<1>16. ASSUME CheckLimit(w) PROVE Attended(a)'
  BY <1>6, <1>15, <1>16 DEF CheckLimit, dbVars, busVars
<1>17. ASSUME StartApp(w) PROVE Attended(a)'
  BY <1>6, <1>15, <1>17 DEF StartApp, busVars
<1>18. ASSUME FailEarly(w) PROVE Attended(a)'
  BY <1>6, <1>15, <1>18 DEF FailEarly, dbVars, busVars
<1>19. ASSUME AttachAdapter(w) PROVE Attended(a)'
  BY <1>6, <1>15, <1>19 DEF AttachAdapter, dbVars, busVars
<1>20. ASSUME NEW status \in AppStatus, Finish(w, status) PROVE Attended(a)'
  BY <1>6, <1>15, <1>20 DEF Finish, dbVars, busVars
<1>21. ASSUME SessionProgress(w) PROVE Attended(a)'
  BY <1>15, <1>21 DEF SessionProgress, busVars, workerVars
<1>22. ASSUME SaveJob(w) PROVE Attended(a)'
  <2>1. /\ app' = app /\ topic' = topic /\ wapp' = wapp /\ wdoc' = wdoc /\ wpc[w] = "saveJob"
        /\ wdoc[w].status = "success" => wpc'[w] = "followUp"
    BY <1>6, <1>22 DEF SaveJob, dbVars, busVars
  <2> QED BY <1>4, <2>1 DEF ByWorker, WillSave
<1>23. ASSUME Notify(w) PROVE Attended(a)'
  BY <1>4, <1>23 DEF Notify, dbVars, busVars, ByWorker, WillSave
<1> QED BY <1>7, <1>8, <1>9, <1>10, <1>12, <1>13, <1>14, <1>16, <1>17, <1>18, <1>19, <1>20, <1>21,
           <1>22, <1>23 DEF Work

\* With Kafka a handler that raises gives its message back, or to the dead letters,
\* and the message leads to the application the worker had.
LEMMA RaiseKeeps ==
  ASSUME TypeInv, FollowInv, NEW w \in Workers, HandleRaises(w), Delivery = "kafka",
         NEW a \in Apps, Underway(a)', ~Orphan(a)
  PROVE  Attended(a)'
<1> DEFINE m == wmsg[w]
<1>1. /\ UNCHANGED <<app, cpc, capp>>
      /\ \A v \in Workers \ {w} : /\ wpc'[v] = wpc[v] /\ wmsg'[v] = wmsg[v]
                                  /\ wapp'[v] = wapp[v] /\ wdoc'[v] = wdoc[v]
  BY DEF HandleRaises, Return, dbVars, clientVars, TypeInv, TypeOK, WorkersOK
<1>2. topic \in Seq(Message) /\ dlq \in Seq(Message) /\ m \in Message /\ WorkerFollows(w)
      /\ NoApp \notin Apps
  BY PipelineAssumption DEF TypeInv, TypeOK, BusOK, WorkersOK, FollowInv
<1>3. Counted(m).app = m.app /\ Counted(m).job = m.job
  BY <1>2 DEF Counted, Message
<1>4. Attended(a)
  BY <1>1 DEF Underway, Orphan
<1>5. ByWorker(w, a) => Names(Counted(m), a)
  BY <1>2, <1>3 DEF ByWorker, WillSave, WorkerFollows, Names
<1>6. \/ topic' = topic /\ dlq' = Append(dlq, Counted(m))
      \/ dlq' = dlq /\ topic' = Append(topic, Counted(m))
  BY DEF HandleRaises, RouteFailure
<1> HIDE DEF m
<1>7. ASSUME NEW s, NEW t, s \in Seq(Message), t = Append(s, Counted(m))
      PROVE  /\ Len(s) + 1 \in DOMAIN t /\ t[Len(s) + 1] = Counted(m)
             /\ \A i \in DOMAIN s : i \in DOMAIN t /\ t[i] = s[i]
  BY <1>7
<1>8. InTopic(a) => InTopic(a)'
  BY <1>1, <1>2, <1>6, <1>7 DEF InTopic, Names
<1>9. InDead(a) => InDead(a)'
  BY <1>1, <1>2, <1>6, <1>7 DEF InDead, Names
<1>10. ByWorker(w, a) => InTopic(a)' \/ InDead(a)'
  BY <1>1, <1>2, <1>5, <1>6, <1>7 DEF InTopic, InDead, Names
<1> QED BY <1>1, <1>4, <1>8, <1>9, <1>10, HandlerKeeps

\* Midnight and the cooldown leave everybody at work.
LEMMA TimeKeeps ==
  ASSUME TypeInv, CooldownOver \/ NewDay, NEW a \in Apps, Underway(a)', ~Orphan(a)
  PROVE  Attended(a)'
<1>1. app \in [Apps -> AppDoc] /\ wdoc \in [Workers -> AppDoc]
  BY DEF TypeInv, TypeOK, DatabaseOK, WorkersOK
<1>2. \A d \in AppDoc : Stale(d).status = d.status /\ Stale(d).job = d.job
                                                   /\ Stale(d).deferred = d.deferred
  BY DEF Stale, AppDoc
<1>3. /\ app'[a].status = app[a].status /\ app'[a].job = app[a].job
      /\ app'[a].deferred = app[a].deferred
      /\ \A w \in Workers : wdoc'[w].status = wdoc[w].status
      /\ UNCHANGED <<topic, dlq, wpc, wmsg, wapp, cpc, capp>>
  BY <1>1, <1>2 DEF CooldownOver, NewDay, busVars, workerVars, clientVars
<1>4. Attended(a)
  BY <1>3 DEF Underway, Orphan
<1> QED BY <1>3, <1>4 DEF Attended, WillSave, Names

\* An application shown as queued, retrying or in progress has somebody who will move
\* it, for any number of jobs, applications, workers and requests, in every deployment;
\* the exceptions are those that NoSilentOrphan names.
THEOREM NobodyIsOrphaned == Spec => NoSilentOrphan
<1> DEFINE Noticed == \A a \in Apps : Orphan(a)' => \/ Orphan(a) \/ Resaved(a) \/ PassedOver(a)
                                                    \/ Unrecovered
<1>1. TypeInv /\ FollowInv /\ [Next]_vars => [Noticed]_vars
  <2> SUFFICES ASSUME TypeInv, FollowInv, Next, NEW a \in Apps, Orphan(a)', ~Orphan(a),
                      ~Resaved(a), ~PassedOver(a), ~Unrecovered
               PROVE  FALSE
    OBVIOUS
  <2>1. Underway(a)' /\ ~Attended(a)'
    BY DEF Orphan
  <2>2. ASSUME NEW c \in Clients, Ask(c) \/ Serve(c) \/ PublishFails(c) \/ RequestBreaks(c)
        PROVE  FALSE
    BY <2>1, <2>2, AskKeeps, ServeKeeps DEF Unrecovered
  <2>3. ASSUME NEW w \in Workers, Work(w) \/ SessionProgress(w) \/ HandleRaises(w) \/ Crash(w)
        PROVE  FALSE
    BY <2>1, <2>3, WorkKeeps, RaiseKeeps DEF Unrecovered
  <2> QED BY <2>1, <2>2, <2>3, TimeKeeps DEF Next
<1>2. Init => TypeInv /\ FollowInv
  BY TypeInit, FollowInit
<1>3. TypeInv /\ FollowInv /\ [Next]_vars => TypeInv' /\ FollowInv'
  BY TypeStep, FollowStep
<1> QED BY <1>1, <1>2, <1>3, PTL DEF Spec, NoSilentOrphan
=============================================================================
