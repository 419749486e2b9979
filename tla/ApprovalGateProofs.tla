------------------------- MODULE ApprovalGateProofs -------------------------
(***************************************************************************)
(* Proofs about the approval gate, for any number of jobs, approvals,      *)
(* match workers and requests, whatever the settings, the deployment and   *)
(* the faults.                                                             *)
(*                                                                         *)
(* Asking and deciding are both a look and a later write.  What bounds how *)
(* often the write happens is the same for both: while an approval is such *)
(* that a look lets through, nothing has been written yet; and those that  *)
(* are between the look and the write are as many as can be there at all.  *)
(***************************************************************************)
EXTENDS ApprovalGate, FiniteSetTheorems, TLAPS

DocsGood ==
  /\ job \in [Jobs -> Job] /\ approval \in [Approvals -> Approval]
  /\ applies \in [Jobs -> Nat] /\ sent \in [Approvals -> Nat]
  /\ spent \in 0..DailyCap /\ cooling \in BOOLEAN

\* A message that is queued or in hand may be handled once more.
Open(m) == m.attempts < MaxHandleAttempts

BusGood ==
  /\ topic \in Seq(Message) /\ dlq \in Seq(Message)
  /\ \A i \in DOMAIN topic : Open(topic[i])

WorkersGood == GateWorkersOK /\ \A w \in Workers : Open(wmsg[w])

Deciding == {"limit", "save", "job", "publish"}

\* A batch goes on only below the cap, so the next decision does not exceed it.
RequestsGood ==
  /\ DecisionsOK
  /\ \A c \in Clients :
       /\ cpc[c] = "idle" => cdone[c] = 0
       /\ cpc[c] # "idle" => cverdict[c] \in Verdicts
       /\ cpc[c] \in Deciding => cdone[c] < DailyCap /\ cappr[c] \in Approvals

GateInv == DocsGood /\ BusGood /\ WorkersGood /\ RequestsGood

LEMMA InvTypes == ASSUME GateInv PROVE TypeOK
BY DEF GateInv, DocsGood, BusGood, WorkersGood, RequestsGood, TypeOK

-----------------------------------------------------------------------------
(* Types.                                                                  *)

\* Messages are counted up and down.
LEMMA CountUp ==
  ASSUME NEW S, NEW f \in [S -> Nat], NEW x
  PROVE  [f EXCEPT ![x] = @ + 1] \in [S -> Nat]
<1>1. CASE x \in S
  <2>1. f[x] + 1 \in Nat
    BY <1>1
  <2> QED BY <2>1
<1>2. CASE x \notin S
  BY <1>2
<1> QED BY <1>1, <1>2

LEMMA CountDown ==
  ASSUME NEW S, NEW f \in [S -> Nat], NEW x \in S, f[x] > 0
  PROVE  [f EXCEPT ![x] = @ - 1] \in [S -> Nat]
<1>1. f[x] - 1 \in Nat
  OBVIOUS
<1> QED BY <1>1

LEMMA SpentUp ==
  ASSUME NEW n \in 0..DailyCap
  PROVE  n < DailyCap => n + 1 \in 0..DailyCap
BY GateAssumption

LEMMA RequestsUp ==
  ASSUME NEW n \in 0..MaxRequests
  PROVE  n < MaxRequests => n + 1 \in 0..MaxRequests
BY GateAssumption

\* job.save() of the worker and of decide().
LEMMA SavedStatus ==
  ASSUME job \in [Jobs -> Job], NEW j, NEW s \in JobStatus, SaveStatus(j, s)
  PROVE  job' \in [Jobs -> Job]
BY DEF SaveStatus, Job

LEMMA NoMsgGood == NoMsg \in Message /\ Open(NoMsg)
BY GateAssumption DEF NoMsg, Message, Open

LEMMA MatchGood ==
  ASSUME NEW j \in Jobs \cup {NoJob}, NEW b \in BOOLEAN
  PROVE  MatchOf(j, b) \in Message /\ Open(MatchOf(j, b))
BY GateAssumption DEF MatchOf, Message, Open

\* A message is added to the topic, taken from it, and put back before the others.
LEMMA Sent ==
  ASSUME BusGood, NEW m \in Message, Open(m), topic' = Append(topic, m), UNCHANGED dlq
  PROVE  BusGood'
BY DEF BusGood

LEMMA PutBack ==
  ASSUME BusGood, NEW m \in Message, Open(m), topic' = <<m>> \o topic, UNCHANGED dlq
  PROVE  BusGood'
<1>1. topic' \in Seq(Message) /\ DOMAIN topic' = 1..(Len(topic) + 1)
  BY DEF BusGood
<1>2. \A i \in DOMAIN topic' : topic'[i] = IF i = 1 THEN m ELSE topic[i - 1]
  BY DEF BusGood
<1> QED BY <1>1, <1>2 DEF BusGood

LEMMA Routed ==
  ASSUME BusGood, NEW m \in Message, Open(m), RouteFailure(m)
  PROVE  BusGood'
<1>1. m.attempts \in 0..MaxHandleAttempts /\ m.attempts + 1 \in 0..MaxHandleAttempts
  BY GateAssumption DEF Message, Open
<1>2. Counted(m) \in Message /\ Counted(m).attempts = m.attempts + 1
  BY <1>1 DEF Counted, Message
<1>3. CASE dlq' = Append(dlq, Counted(m)) /\ UNCHANGED topic
  BY <1>2, <1>3 DEF BusGood
<1>4. CASE m.attempts + 1 < MaxHandleAttempts /\ topic' = Append(topic, Counted(m)) /\ UNCHANGED dlq
  BY <1>2, <1>4, Sent DEF Open
<1> QED BY <1>3, <1>4 DEF RouteFailure

\* A handler starts, is done with a job, or has raised.
LEMMA StartGood ==
  ASSUME WorkersGood, NEW w \in Workers, NEW j \in Jobs \cup {NoJob}, NEW todo \in SUBSET Jobs,
         StartInline(w, j, todo)
  PROVE  WorkersGood'
BY MatchGood DEF WorkersGood, GateWorkersOK, StartInline

LEMMA DoneGood ==
  ASSUME WorkersGood, NEW w \in Workers, Done(w)
  PROVE  WorkersGood'
BY NoMsgGood DEF WorkersGood, GateWorkersOK, Done, JobStatus

LEMMA DropGood ==
  ASSUME WorkersGood, NEW w \in Workers, Drop(w)
  PROVE  WorkersGood'
BY NoMsgGood DEF WorkersGood, GateWorkersOK, Drop, JobStatus

\* A request ends, or goes on with its batch.
LEMMA ReplyGood ==
  ASSUME RequestsGood, NEW c \in Clients, Reply(c)
  PROVE  RequestsGood'
BY GateAssumption DEF RequestsGood, DecisionsOK, Reply, CGoto, Deciding

LEMMA DecidedGood ==
  ASSUME RequestsGood, NEW c \in Clients, NEW n \in {0, 1}, Decided(c, n), cpc[c] \in Deciding
  PROVE  RequestsGood'
<1>1. CASE ctodo[c] = {}
  BY <1>1, ReplyGood DEF Decided
<1>2. CASE ctodo[c] # {}
  <2>1. cdone[c] + n \in 0..DailyCap
    BY GateAssumption DEF RequestsGood, DecisionsOK
  <2> QED BY <1>2, <2>1 DEF RequestsGood, DecisionsOK, Decided, CGoto, Deciding
<1> QED BY <1>1, <1>2

\* How a match is asked for.
LEMMA PublishedMatch ==
  ASSUME BusGood, WorkersGood, NEW j \in Jobs, PublishJobMatch(j)
  PROVE  BusGood' /\ WorkersGood'
<1>1. CASE topic' = Append(topic, MatchOf(j, FALSE)) /\ UNCHANGED <<dlq, workerVars>>
  BY <1>1, MatchGood, Sent DEF WorkersGood, GateWorkersOK, workerVars
<1>2. CASE (\E w \in Workers : StartInline(w, j, {})) /\ UNCHANGED busVars
  BY <1>2, StartGood DEF BusGood, busVars
<1> QED BY <1>1, <1>2 DEF PublishJobMatch

\* Every step keeps the types, a message to spare, and the batches below the cap.
LEMMA StepGood ==
  ASSUME GateInv, [Next]_vars
  PROVE  GateInv'
<1> USE DEF GateInv
<1>1. ASSUME NEW j \in Jobs, Found(j) PROVE GateInv'
  <2>1. DocsGood'
    BY <1>1 DEF Found, DocsGood, Job, JobStatus, limitVars
  <2>2. BusGood' /\ WorkersGood'
    BY <1>1, PublishedMatch DEF Found, BusGood, busVars, WorkersGood, GateWorkersOK, workerVars
  <2>3. RequestsGood'
    BY <1>1 DEF Found, RequestsGood, DecisionsOK, clientVars
  <2> QED BY <2>1, <2>2, <2>3
<1>2. ASSUME RunMatch PROVE GateInv'
  <2>1. DocsGood' /\ RequestsGood'
    BY <1>2, GateAssumption DEF RunMatch, DocsGood, limitVars, RequestsGood, DecisionsOK
  <2>2. CASE topic' = Append(topic, MatchOf(NoJob, FALSE)) /\ UNCHANGED <<dlq, workerVars>>
    BY <2>1, <2>2, MatchGood, Sent DEF WorkersGood, GateWorkersOK, workerVars
  <2>3. CASE (\E w \in Workers : StartInline(w, NoJob, NewJobs)) /\ UNCHANGED busVars
    BY <2>1, <2>3, StartGood DEF BusGood, busVars, NewJobs
  <2> QED BY <1>2, <2>2, <2>3 DEF RunMatch
<1>3. ASSUME NEW w \in Workers, Match(w) PROVE GateInv'
  <2>0. wmsg[w] \in Message /\ Open(wmsg[w])
    BY DEF WorkersGood, GateWorkersOK
  <2>1. CASE Receive(w)
    <3>1. topic # <<>> /\ Head(topic) \in Message /\ Open(Head(topic)) /\ BusGood'
      BY <2>1 DEF Receive, BusGood
    <3>2. WorkersGood'
      BY <2>1, <3>1 DEF Receive, WorkersGood, GateWorkersOK, WGoto, Message
    <3> QED
      BY <2>1, <3>1, <3>2 DEF Receive, DocsGood, limitVars, RequestsGood, DecisionsOK, clientVars
  <2>2. CASE \E j \in Jobs : NextNew(w, j)
    <3>1. WorkersGood'
      BY <2>2 DEF NextNew, WorkersGood, GateWorkersOK, WGoto
    <3> QED
      BY <2>2, <3>1 DEF NextNew, DocsGood, limitVars, BusGood, busVars, RequestsGood, DecisionsOK,
                        clientVars
  <2>3. CASE Load(w)
    <3>1. WorkersGood'
      BY <2>3 DEF Load, WorkersGood, GateWorkersOK, WGoto, DocsGood, Job
    <3> QED
      BY <2>3, <3>1 DEF Load, DocsGood, limitVars, BusGood, busVars, RequestsGood, DecisionsOK,
                        clientVars
  <2>4. ASSUME NEW good \in BOOLEAN, SaveScore(w, good) PROVE GateInv'
    <3> DEFINE s == IF good THEN "matched" ELSE wcopy[w]
    <3>1. s \in JobStatus
      BY DEF WorkersGood, GateWorkersOK, JobStatus
    <3>2. WorkersGood'
      BY <2>4, <3>1 DEF SaveScore, WorkersGood, GateWorkersOK, WGoto
    <3>3. DocsGood'
      BY <2>4, <3>1, SavedStatus DEF SaveScore, DocsGood, limitVars
    <3> QED
      BY <2>4, <3>2, <3>3 DEF SaveScore, BusGood, busVars, RequestsGood, DecisionsOK, clientVars
  <2>5. CASE BelowThreshold(w) \/ Notify(w)
    <3>1. WorkersGood'
      BY <2>5, DoneGood DEF BelowThreshold, Notify
    <3> QED
      BY <2>5, <3>1 DEF BelowThreshold, Notify, DocsGood, limitVars, BusGood, busVars,
                        RequestsGood, DecisionsOK, clientVars
  <2>6. CASE FindPending(w)
    <3>1. WorkersGood'
      BY <2>6, DoneGood DEF FindPending, WorkersGood, GateWorkersOK, WGoto
    <3> QED
      BY <2>6, <3>1 DEF FindPending, DocsGood, limitVars, BusGood, busVars, RequestsGood,
                        DecisionsOK, clientVars
  <2>7. ASSUME NEW a \in Approvals, Insert(w, a) PROVE GateInv'
    <3>1. WorkersGood'
      BY <2>7 DEF Insert, WorkersGood, GateWorkersOK, WGoto
    <3>2. DocsGood'
      BY <2>7 DEF Insert, DocsGood, limitVars, WorkersGood, GateWorkersOK, Approval
    <3> QED
      BY <2>7, <3>1, <3>2 DEF Insert, BusGood, busVars, RequestsGood, DecisionsOK, clientVars
  <2>8. CASE MarkAwaiting(w) \/ MarkApplying(w)
    <3>1. WorkersGood'
      BY <2>8 DEF MarkAwaiting, MarkApplying, WorkersGood, GateWorkersOK, WGoto
    <3>2. DocsGood'
      BY <2>8, SavedStatus DEF MarkAwaiting, MarkApplying, DocsGood, limitVars, JobStatus
    <3> QED
      BY <2>8, <3>1, <3>2 DEF MarkAwaiting, MarkApplying, BusGood, busVars, RequestsGood,
                              DecisionsOK, clientVars
  <2>9. CASE SendApply(w)
    <3>1. WorkersGood'
      BY <2>9, DoneGood DEF SendApply
    <3>2. DocsGood'
      <4>1. applies' \in [Jobs -> Nat]
        BY <2>9, CountUp DEF SendApply, DocsGood
      <4> QED BY <2>9, <4>1 DEF SendApply, DocsGood, limitVars
    <3> QED
      BY <2>9, <3>1, <3>2 DEF SendApply, BusGood, busVars, RequestsGood, DecisionsOK, clientVars
  <2>10. CASE HandleRaises(w)
    <3>1. WorkersGood'
      BY <2>10, DropGood DEF HandleRaises
    <3>2. BusGood'
      BY <2>0, <2>10, Routed DEF HandleRaises, BusGood, busVars
    <3>3. DocsGood'
      BY <2>10 DEF HandleRaises, DocsGood, limitVars
    <3> QED
      BY <2>10, <3>1, <3>2, <3>3 DEF HandleRaises, RequestsGood, DecisionsOK, clientVars
  <2>11. CASE Crash(w)
    <3>1. WorkersGood'
      BY <2>11, DropGood DEF Crash
    <3>2. BusGood'
      BY <2>0, <2>11, PutBack DEF Crash, BusGood, busVars
    <3> QED
      BY <2>11, <3>1, <3>2 DEF Crash, DocsGood, limitVars, RequestsGood, DecisionsOK, clientVars
  <2> QED
    BY <1>3, <2>1, <2>2, <2>3, <2>4, <2>5, <2>6, <2>7, <2>8, <2>9, <2>10, <2>11 DEF Match
<1>4. ASSUME NEW c \in Clients, Serve(c) PROVE GateInv'
  <2>1. ASSUME NEW a \in Approvals, NEW v \in Verdicts, Decide(c, a, v) PROVE GateInv'
    <3>1. RequestsGood'
      BY <2>1, GateAssumption DEF Decide, Begin, AfterLook, CGoto, RequestsGood, DecisionsOK,
                                  Deciding, Verdicts
    <3> QED
      BY <2>1, <3>1 DEF Decide, DocsGood, limitVars, BusGood, busVars, WorkersGood,
                        GateWorkersOK, workerVars
  <2>2. ASSUME NEW as \in SUBSET Approvals, NEW v \in Verdicts, Batch(c, as, v) PROVE GateInv'
    <3>1. RequestsGood'
      <4>1. /\ cpc' = [cpc EXCEPT ![c] = "batch"] /\ cverdict' = [cverdict EXCEPT ![c] = v]
            /\ ctodo' = [ctodo EXCEPT ![c] = as] /\ UNCHANGED <<cappr, cdone>>
            /\ requests' = requests + 1 /\ requests < MaxRequests
        BY <2>2 DEF Batch, Begin, CGoto
      <4>2. DecisionsOK'
        BY <4>1, RequestsUp DEF RequestsGood, DecisionsOK
      <4>3. ASSUME NEW d \in Clients
            PROVE  /\ cpc'[d] = "idle" => cdone'[d] = 0
                   /\ cpc'[d] # "idle" => cverdict'[d] \in Verdicts
                   /\ cpc'[d] \in Deciding => cdone'[d] < DailyCap /\ cappr'[d] \in Approvals
        <5>1. CASE d = c
          BY <4>1, <5>1 DEF RequestsGood, DecisionsOK, Deciding
        <5>2. CASE d # c
          BY <4>1, <5>2 DEF RequestsGood, DecisionsOK
        <5> QED BY <5>1, <5>2
      <4> QED BY <4>2, <4>3 DEF RequestsGood
    <3> QED
      BY <2>2, <3>1 DEF Batch, DocsGood, limitVars, BusGood, busVars, WorkersGood,
                        GateWorkersOK, workerVars
  <2>3. ASSUME NEW a \in Approvals, BatchNext(c, a) PROVE GateInv'
    <3>1. RequestsGood'
      BY <2>3, GateAssumption DEF BatchNext, AfterLook, CGoto, RequestsGood, DecisionsOK, Deciding
    <3> QED
      BY <2>3, <3>1 DEF BatchNext, DocsGood, limitVars, BusGood, busVars, WorkersGood,
                        GateWorkersOK, workerVars
  <2>4. CASE BatchEnds(c)
    <3>1. RequestsGood'
      BY <2>4, ReplyGood DEF BatchEnds
    <3> QED
      BY <2>4, <3>1 DEF BatchEnds, DocsGood, limitVars, BusGood, busVars, WorkersGood,
                        GateWorkersOK, workerVars
  <2>5. CASE CheckLimit(c)
    <3>1. RequestsGood'
      BY <2>5, ReplyGood DEF CheckLimit, CGoto, RequestsGood, DecisionsOK, Deciding
    <3> QED
      BY <2>5, <3>1 DEF CheckLimit, DocsGood, limitVars, BusGood, busVars, WorkersGood,
                        GateWorkersOK, workerVars
  <2>6. CASE SaveDecision(c)
    <3>1. RequestsGood'
      BY <2>6 DEF SaveDecision, CGoto, RequestsGood, DecisionsOK, Deciding
    <3>2. DocsGood'
      BY <2>6 DEF SaveDecision, DocsGood, limitVars, RequestsGood, DecisionsOK, Approval
    <3> QED
      BY <2>6, <3>1, <3>2 DEF SaveDecision, BusGood, busVars, WorkersGood, GateWorkersOK,
                              workerVars
  <2>7. CASE SaveJob(c)
    <3>1. RequestsGood'
      BY <2>7, DecidedGood DEF SaveJob, CGoto, RequestsGood, DecisionsOK, Deciding
    <3>2. cverdict[c] \in JobStatus
      BY <2>7 DEF SaveJob, RequestsGood, Verdicts, JobStatus
    <3>3. DocsGood'
      BY <2>7, <3>2, SavedStatus DEF SaveJob, DocsGood, limitVars
    <3> QED
      BY <2>7, <3>1, <3>3 DEF SaveJob, BusGood, busVars, WorkersGood, GateWorkersOK, workerVars
  <2>8. CASE PublishJobApply(c) \/ PublishFails(c) \/ DecideBreaks(c)
    <3>1. RequestsGood'
      BY <2>8, DecidedGood DEF PublishJobApply, PublishFails, DecideBreaks, Deciding
    <3>2. DocsGood'
      BY <2>8 DEF PublishJobApply, PublishFails, DecideBreaks, DocsGood, limitVars
    <3> QED
      BY <2>8, <3>1, <3>2 DEF PublishJobApply, PublishFails, DecideBreaks, BusGood, busVars,
                              WorkersGood, GateWorkersOK, workerVars
  <2> QED BY <1>4, <2>1, <2>2, <2>3, <2>4, <2>5, <2>6, <2>7, <2>8 DEF Serve
<1>5. ASSUME Apply PROVE GateInv'
  <2>1. PICK j \in Jobs, o \in {"applied", "failed", "applying", "put off"} : Applied(j, o)
    BY <1>5 DEF Apply
  <2>2. job' \in [Jobs -> Job]
    BY <2>1, SavedStatus DEF Applied, DocsGood, JobStatus
  <2>3. applies' \in [Jobs -> Nat]
    BY <2>1, CountDown DEF Applied, DocsGood
  <2>4. spent' \in 0..DailyCap /\ cooling' \in BOOLEAN
    <3>1. CASE spent < DailyCap /\ spent' = spent + 1 /\ cooling' = TRUE
      BY <3>1, SpentUp DEF DocsGood
    <3>2. CASE UNCHANGED limitVars
      BY <3>2 DEF DocsGood, limitVars
    <3> QED BY <2>1, <3>1, <3>2 DEF Applied
  <2>5. DocsGood'
    BY <2>1, <2>2, <2>3, <2>4 DEF Applied, DocsGood
  <2> QED
    BY <2>1, <2>5 DEF Applied, BusGood, busVars, WorkersGood, GateWorkersOK, workerVars,
                      RequestsGood, DecisionsOK, clientVars
<1>6. CASE CooldownEnds \/ UNCHANGED vars
  BY <1>6 DEF CooldownEnds, vars, DocsGood, BusGood, busVars, WorkersGood, GateWorkersOK,
              workerVars, RequestsGood, DecisionsOK, clientVars
<1> QED BY <1>1, <1>2, <1>3, <1>4, <1>5, <1>6 DEF Next

LEMMA InitGood == ASSUME Init PROVE GateInv
<1>1. DocsGood
  <2>1. job \in [Jobs -> Job] /\ approval \in [Approvals -> Approval]
    BY DEF Init, Job, JobStatus, NoRecord, Approval
  <2>2. spent \in 0..DailyCap
    BY GateAssumption DEF Init
  <2>3. cooling \in BOOLEAN
    BY Zenon DEF Init
  <2>4. applies \in [Jobs -> Nat] /\ sent \in [Approvals -> Nat]
    BY DEF Init
  <2> QED BY <2>1, <2>2, <2>3, <2>4 DEF DocsGood
<1>2. BusGood
  BY DEF Init, BusGood
<1>3. WorkersGood
  BY NoMsgGood DEF Init, WorkersGood, GateWorkersOK, JobStatus
<1>4. RequestsGood
  BY GateAssumption DEF Init, RequestsGood, DecisionsOK, Deciding
<1> QED BY <1>1, <1>2, <1>3, <1>4 DEF GateInv

\* Every document, message and local is of its type, in particular no message fails
\* more than MaxHandleAttempts times and no batch decides more than max_batch.
THEOREM GateTypes == Spec => []TypeOK
<1>1. Init => GateInv
  BY InitGood
<1>2. GateInv /\ [Next]_vars => GateInv'
  BY StepGood
<1>3. GateInv => TypeOK
  BY InvTypes
<1> QED BY <1>1, <1>2, <1>3, PTL DEF Spec

-----------------------------------------------------------------------------
(* Approvals that are asked for.                                           *)

\* Workers that have found no pending approval for the job and are to insert one.
Inserting(j) == {w \in Workers : wpc[w] = "insert" /\ wjob[w] = j}

AskBound(j) == Cardinality(PendingOf(j)) + Cardinality(Inserting(j)) <= Cardinality(Workers)

AskInv == \A j \in Jobs : AskBound(j)

LEMMA AskFinite ==
  ASSUME NEW j
  PROVE  /\ IsFiniteSet(PendingOf(j)) /\ Cardinality(PendingOf(j)) \in Nat
         /\ IsFiniteSet(Inserting(j)) /\ Cardinality(Inserting(j)) \in Nat
         /\ Cardinality(Inserting(j)) <= Cardinality(Workers)
         /\ Cardinality(Workers) \in Nat
<1>1. PendingOf(j) \subseteq Approvals /\ Inserting(j) \subseteq Workers
  BY DEF PendingOf, Inserting
<1>2. IsFiniteSet(PendingOf(j)) /\ IsFiniteSet(Inserting(j)) /\ IsFiniteSet(Workers)
  BY <1>1, FS_Subset, GateAssumption
<1>3. Cardinality(Inserting(j)) <= Cardinality(Workers)
  BY <1>1, FS_Subset, GateAssumption
<1> QED BY <1>2, <1>3, FS_CardinalityType

LEMMA AskFinitePrimed ==
  ASSUME NEW j
  PROVE  /\ IsFiniteSet(PendingOf(j)') /\ Cardinality(PendingOf(j)') \in Nat
         /\ IsFiniteSet(Inserting(j)') /\ Cardinality(Inserting(j)') \in Nat
         /\ Cardinality(Inserting(j)') <= Cardinality(Workers)
<1>1. PendingOf(j)' \subseteq Approvals /\ Inserting(j)' \subseteq Workers
  BY DEF PendingOf, Inserting
<1>2. IsFiniteSet(PendingOf(j)') /\ IsFiniteSet(Inserting(j)')
  BY <1>1, FS_Subset, GateAssumption
<1>3. Cardinality(Inserting(j)') <= Cardinality(Workers)
  BY <1>1, FS_Subset, GateAssumption
<1> QED BY <1>2, <1>3, FS_CardinalityType

\* Nothing is added to either set.
LEMMA AskLess ==
  ASSUME NEW j, AskBound(j), PendingOf(j)' \subseteq PendingOf(j),
         Inserting(j)' \subseteq Inserting(j)
  PROVE  AskBound(j)'
<1>1. /\ Cardinality(PendingOf(j)') <= Cardinality(PendingOf(j))
      /\ Cardinality(Inserting(j)') <= Cardinality(Inserting(j))
  BY AskFinite, FS_Subset
<1> QED BY <1>1, AskFinite, AskFinitePrimed DEF AskBound

\* The look of enqueue(): it lets a worker through only when nothing is pending.
LEMMA AskLook ==
  ASSUME NEW j, PendingOf(j)' = {}
  PROVE  AskBound(j)'
<1>1. Cardinality(PendingOf(j)') = 0
  BY FS_EmptySet
<1> QED BY <1>1, AskFinite, AskFinitePrimed DEF AskBound

\* The write: an approval more is pending, a worker less is to insert one.
LEMMA AskWrite ==
  ASSUME NEW j, NEW a, NEW w \in Inserting(j), AskBound(j),
         PendingOf(j)' \subseteq PendingOf(j) \cup {a},
         Inserting(j)' \subseteq Inserting(j) \ {w}
  PROVE  AskBound(j)'
<1>1. Cardinality(Inserting(j) \ {w}) = Cardinality(Inserting(j)) - 1
      /\ IsFiniteSet(Inserting(j) \ {w})
  BY AskFinite, FS_RemoveElement
<1>2. Cardinality(Inserting(j)') <= Cardinality(Inserting(j)) - 1
  BY <1>1, FS_Subset
<1>3. /\ IsFiniteSet(PendingOf(j) \cup {a})
      /\ Cardinality(PendingOf(j) \cup {a}) <= Cardinality(PendingOf(j)) + 1
  <2>1. Cardinality(PendingOf(j) \cup {a})
          = IF a \in PendingOf(j) THEN Cardinality(PendingOf(j)) ELSE Cardinality(PendingOf(j)) + 1
    BY AskFinite, FS_AddElement
  <2> QED BY <2>1, AskFinite, FS_AddElement
<1>4. Cardinality(PendingOf(j)') <= Cardinality(PendingOf(j)) + 1
  <2>1. Cardinality(PendingOf(j)') <= Cardinality(PendingOf(j) \cup {a})
    BY <1>3, FS_Subset
  <2>2. Cardinality(PendingOf(j) \cup {a}) \in Nat
    BY <1>3, FS_CardinalityType
  <2> QED BY <1>3, <2>1, <2>2, AskFinite, AskFinitePrimed
<1> QED BY <1>2, <1>4, AskFinite, AskFinitePrimed DEF AskBound

LEMMA AskStep ==
  ASSUME GateInv, AskInv, [Next]_vars
  PROVE  AskInv'
<1> SUFFICES ASSUME NEW j \in Jobs PROVE AskBound(j)'
  BY DEF AskInv
<1>0. AskBound(j)
  BY DEF AskInv
<1>1. ASSUME NEW w \in Workers, FindPending(w) PROVE AskBound(j)'
  <2>1. PendingOf(j)' = PendingOf(j)
    BY <1>1 DEF FindPending, PendingOf
  <2>2. CASE PendingOf(wjob[w]) # {}
    <3>1. Inserting(j)' \subseteq Inserting(j)
      BY <1>1, <2>2 DEF FindPending, Done, Inserting, GateInv, WorkersGood, GateWorkersOK
    <3> QED BY <1>0, <2>1, <3>1, AskLess
  <2>3. CASE PendingOf(wjob[w]) = {} /\ j = wjob[w]
    BY <2>1, <2>3, AskLook
  <2>4. CASE PendingOf(wjob[w]) = {} /\ j # wjob[w]
    <3>1. Inserting(j)' \subseteq Inserting(j)
      BY <1>1, <2>4 DEF FindPending, WGoto, Inserting, GateInv, WorkersGood, GateWorkersOK
    <3> QED BY <1>0, <2>1, <3>1, AskLess
  <2> QED BY <2>2, <2>3, <2>4
<1>2. ASSUME NEW w \in Workers, NEW a \in Approvals, Insert(w, a) PROVE AskBound(j)'
  <2>1. Inserting(j)' \subseteq Inserting(j) \ {w}
    BY <1>2 DEF Insert, WGoto, Inserting, GateInv, WorkersGood, GateWorkersOK
  <2>2. CASE j = wjob[w]
    <3>1. w \in Inserting(j)
      BY <1>2, <2>2 DEF Insert, Inserting
    <3>2. PendingOf(j)' \subseteq PendingOf(j) \cup {a}
      BY <1>2 DEF Insert, PendingOf, GateInv, DocsGood
    <3> QED BY <1>0, <2>1, <3>1, <3>2, AskWrite
  <2>3. CASE j # wjob[w]
    <3>1. PendingOf(j)' \subseteq PendingOf(j)
      BY <1>2, <2>3 DEF Insert, PendingOf, GateInv, DocsGood
    <3> QED BY <1>0, <2>1, <3>1, AskLess
  <2> QED BY <2>2, <2>3
<1>3. ASSUME NEW w \in Workers, Match(w), approval' = approval,
             wpc'[w] # "insert", \A v \in Workers \ {w} : wpc'[v] = wpc[v] /\ wjob'[v] = wjob[v]
      PROVE  AskBound(j)'
  <2>1. PendingOf(j)' \subseteq PendingOf(j) /\ Inserting(j)' \subseteq Inserting(j)
    BY <1>3 DEF PendingOf, Inserting
  <2> QED BY <1>0, <2>1, AskLess
<1>4. ASSUME NEW w \in Workers, Match(w), ~FindPending(w), \A a \in Approvals : ~Insert(w, a)
      PROVE  AskBound(j)'
  <2>1. approval' = approval
    BY <1>4 DEF Match, Receive, NextNew, Load, SaveScore, BelowThreshold, MarkAwaiting, Notify,
                MarkApplying, SendApply, HandleRaises, Crash
  <2>2. wpc'[w] # "insert" /\ \A v \in Workers \ {w} : wpc'[v] = wpc[v] /\ wjob'[v] = wjob[v]
    BY <1>4 DEF Match, Receive, NextNew, Load, SaveScore, BelowThreshold, MarkAwaiting, Notify,
                MarkApplying, SendApply, HandleRaises, Crash, WGoto, Done, Drop,
                GateInv, WorkersGood, GateWorkersOK
  <2> QED BY <1>3, <1>4, <2>1, <2>2
<1>5. ASSUME NEW c \in Clients, SaveDecision(c) PROVE AskBound(j)'
  <2>1. cverdict[c] # "pending"
    BY <1>5 DEF SaveDecision, GateInv, RequestsGood, Verdicts
  <2>2. PendingOf(j)' \subseteq PendingOf(j)
    BY <1>5, <2>1 DEF SaveDecision, PendingOf, GateInv, DocsGood, Approval
  <2>3. Inserting(j)' \subseteq Inserting(j)
    BY <1>5 DEF SaveDecision, Inserting, workerVars
  <2> QED BY <1>0, <2>2, <2>3, AskLess
<1>6. ASSUME UNCHANGED <<approval, wpc, wjob>> PROVE AskBound(j)'
  <2>1. PendingOf(j)' \subseteq PendingOf(j) /\ Inserting(j)' \subseteq Inserting(j)
    BY <1>6 DEF PendingOf, Inserting
  <2> QED BY <1>0, <2>1, AskLess
<1>7. ASSUME NEW w \in Workers, NEW i, NEW todo, StartInline(w, i, todo), approval' = approval
      PROVE  AskBound(j)'
  <2>1. PendingOf(j)' \subseteq PendingOf(j) /\ Inserting(j)' \subseteq Inserting(j)
    BY <1>7 DEF PendingOf, Inserting, StartInline, GateInv, WorkersGood, GateWorkersOK
  <2> QED BY <1>0, <2>1, AskLess
<1>8. ASSUME NEW i \in Jobs, Found(i) PROVE AskBound(j)'
  BY <1>6, <1>7, <1>8 DEF Found, PublishJobMatch, workerVars
<1>9. CASE RunMatch
  BY <1>6, <1>7, <1>9 DEF RunMatch, workerVars
<1>10. ASSUME NEW c \in Clients, Serve(c), ~SaveDecision(c) PROVE AskBound(j)'
  BY <1>6, <1>10 DEF Serve, Decide, Batch, BatchNext, BatchEnds, CheckLimit, SaveJob,
                     PublishJobApply, PublishFails, DecideBreaks, workerVars
<1>11. CASE Apply \/ CooldownEnds \/ UNCHANGED vars
  BY <1>6, <1>11 DEF Apply, Applied, CooldownEnds, vars, workerVars
<1> QED BY <1>1, <1>2, <1>4, <1>5, <1>8, <1>9, <1>10, <1>11 DEF Next

LEMMA AskInit == ASSUME Init PROVE AskInv
<1> SUFFICES ASSUME NEW j \in Jobs PROVE AskBound(j)
  BY DEF AskInv
<1>1. PendingOf(j) = {} /\ Inserting(j) = {}
  BY DEF Init, NoRecord, PendingOf, Inserting
<1> QED BY <1>1, AskFinite, FS_EmptySet DEF AskBound

\* A job has at most as many pending approvals as there are match workers, however
\* often its match message is handled again: with one worker, at most one.
THEOREM AskedOnceHolds == Spec => []AskedOnce
<1>1. Init => GateInv /\ AskInv
  BY InitGood, AskInit
<1>2. (GateInv /\ AskInv) /\ [Next]_vars => (GateInv /\ AskInv)'
  BY StepGood, AskStep
<1>3. AskInv => AskedOnce
  <2> SUFFICES ASSUME AskInv, NEW j \in Jobs
               PROVE  Cardinality(PendingOf(j)) <= Cardinality(Workers)
    BY DEF AskedOnce
  <2>1. AskBound(j)
    BY DEF AskInv
  <2> QED BY <2>1, AskFinite DEF AskBound
<1> QED BY <1>1, <1>2, <1>3, PTL DEF Spec

-----------------------------------------------------------------------------
(* Approvals that are acted on.                                            *)

\* Requests that have found approval a pending and are not done with it.
DecidingOn(a) == {c \in Clients : cpc[c] \in Deciding /\ cappr[c] = a}

ActBound(a) == sent[a] + Cardinality(DecidingOn(a)) <= Cardinality(Clients)

\* As long as an approval is not decided nothing has been sent for it, and no request
\* has come further than to save its decision.
Untouched(a) ==
  /\ sent[a] = 0
  /\ \A c \in DecidingOn(a) : cpc[c] \in {"limit", "save"}

ActGood(a) ==
  /\ ActBound(a)
  /\ approval[a].status \notin Verdicts => Untouched(a)
  /\ approval[a].status = "none" => DecidingOn(a) = {}

ActInv == \A a \in Approvals : ActGood(a)

LEMMA ActFinite ==
  ASSUME NEW a
  PROVE  /\ IsFiniteSet(DecidingOn(a)) /\ Cardinality(DecidingOn(a)) \in Nat
         /\ Cardinality(DecidingOn(a)) <= Cardinality(Clients)
         /\ Cardinality(Clients) \in Nat
<1>1. DecidingOn(a) \subseteq Clients
  BY DEF DecidingOn
<1>2. IsFiniteSet(DecidingOn(a)) /\ Cardinality(DecidingOn(a)) <= Cardinality(Clients)
  BY <1>1, FS_Subset, GateAssumption
<1> QED BY <1>2, FS_CardinalityType, GateAssumption

LEMMA ActFinitePrimed ==
  ASSUME NEW a
  PROVE  /\ Cardinality(DecidingOn(a)') \in Nat
         /\ Cardinality(DecidingOn(a)') <= Cardinality(Clients)
<1>1. DecidingOn(a)' \subseteq Clients
  BY DEF DecidingOn
<1>2. IsFiniteSet(DecidingOn(a)') /\ Cardinality(DecidingOn(a)') <= Cardinality(Clients)
  BY <1>1, FS_Subset, GateAssumption
<1> QED BY <1>2, FS_CardinalityType

\* No request begins to decide, nothing is sent.
LEMMA ActLess ==
  ASSUME NEW a \in Approvals, GateInv, ActBound(a), sent'[a] = sent[a],
         DecidingOn(a)' \subseteq DecidingOn(a)
  PROVE  ActBound(a)'
<1>1. Cardinality(DecidingOn(a)') <= Cardinality(DecidingOn(a))
  BY ActFinite, FS_Subset
<1>2. sent[a] \in Nat
  BY DEF GateInv, DocsGood
<1> QED BY <1>1, <1>2, ActFinite, ActFinitePrimed DEF ActBound

\* The look of decide(): it lets a request through only when nothing has been sent.
LEMMA ActLook ==
  ASSUME NEW a, sent'[a] = 0
  PROVE  ActBound(a)'
BY ActFinite, ActFinitePrimed DEF ActBound

\* The write: a message more is sent, a request less is deciding.
LEMMA ActWrite ==
  ASSUME NEW a \in Approvals, NEW c \in DecidingOn(a), GateInv, ActBound(a),
         sent'[a] \in {sent[a], sent[a] + 1}, DecidingOn(a)' \subseteq DecidingOn(a) \ {c}
  PROVE  ActBound(a)'
<1>1. Cardinality(DecidingOn(a) \ {c}) = Cardinality(DecidingOn(a)) - 1
      /\ IsFiniteSet(DecidingOn(a) \ {c})
  BY ActFinite, FS_RemoveElement
<1>2. Cardinality(DecidingOn(a)') <= Cardinality(DecidingOn(a)) - 1
  BY <1>1, FS_Subset
<1>3. sent[a] \in Nat
  BY DEF GateInv, DocsGood
<1> QED BY <1>2, <1>3, ActFinite, ActFinitePrimed DEF ActBound

\* Steps that neither decide nor send leave an approval as good as it was.
LEMMA ActQuiet ==
  ASSUME NEW a \in Approvals, GateInv, ActGood(a),
         sent'[a] = sent[a], approval'[a].status \in {approval[a].status, "pending"},
         approval[a].status \in {"none", approval'[a].status},
         \A c \in DecidingOn(a)' : c \in DecidingOn(a) /\ cpc'[c] \in {cpc[c], "save"}
  PROVE  ActGood(a)'
<1>1. ActBound(a)'
  BY ActLess DEF ActGood
<1>2. approval'[a].status \notin Verdicts => Untouched(a)'
  BY DEF ActGood, Untouched, Verdicts
<1>3. approval'[a].status = "none" => DecidingOn(a)' = {}
  BY DEF ActGood
<1> QED BY <1>1, <1>2, <1>3 DEF ActGood
\* After the look: a request more may decide an approval that nobody has touched.
LEMMA ActBegin ==
  ASSUME NEW a \in Approvals, NEW c \in Clients, ActGood(a),
         approval[a].status = "pending", UNCHANGED <<approval, sent>>,
         cpc'[c] \in {"limit", "save"},
         \A d \in Clients \ {c} : cpc'[d] = cpc[d] /\ cappr'[d] = cappr[d]
  PROVE  ActGood(a)'
<1>1. Untouched(a)
  BY DEF ActGood, Verdicts
<1>2. ActBound(a)'
  BY <1>1, ActLook DEF Untouched
<1>3. \A d \in DecidingOn(a)' : d = c \/ (d \in DecidingOn(a) /\ cpc'[d] = cpc[d])
  BY DEF DecidingOn
<1>4. Untouched(a)'
  BY <1>1, <1>3 DEF Untouched
<1> QED BY <1>2, <1>4 DEF ActGood

\* After the write, or when it fails: the approval is decided, and a request has left it.
LEMMA ActEnd ==
  ASSUME NEW a \in Approvals, NEW c \in DecidingOn(a), GateInv, ActGood(a),
         cpc[c] \in {"job", "publish"}, approval' = approval,
         sent'[a] \in {sent[a], sent[a] + 1}, DecidingOn(a)' \subseteq DecidingOn(a) \ {c}
  PROVE  ActGood(a)'
<1>1. approval[a].status \in Verdicts
  BY DEF ActGood, Untouched
<1>2. ActBound(a)'
  BY ActWrite DEF ActGood
<1> QED BY <1>1, <1>2 DEF ActGood, Verdicts

\* What a request leaves when it replies or goes on with its batch.
LEMMA DecidedLeaves ==
  ASSUME GateInv, NEW c \in Clients, NEW n, Decided(c, n), NEW a
  PROVE  /\ DecidingOn(a)' \subseteq DecidingOn(a) \ {c}
         /\ \A d \in DecidingOn(a)' : cpc'[d] = cpc[d]
BY DEF Decided, Reply, CGoto, DecidingOn, Deciding, GateInv, RequestsGood, DecisionsOK

LEMMA ActStep ==
  ASSUME GateInv, ActInv, [Next]_vars
  PROVE  ActInv'
<1> SUFFICES ASSUME NEW a \in Approvals PROVE ActGood(a)'
  BY DEF ActInv
<1>0. ActGood(a)
  BY DEF ActInv
<1>1. ASSUME UNCHANGED <<approval, sent, cpc, cappr>> PROVE ActGood(a)'
  <2>1. DecidingOn(a)' = DecidingOn(a)
    BY <1>1 DEF DecidingOn
  <2> QED BY <1>0, <1>1, <2>1, ActQuiet
<1>2. ASSUME NEW w \in Workers, NEW b \in Approvals, Insert(w, b) PROVE ActGood(a)'
  <2>1. UNCHANGED <<sent, cpc, cappr>> /\ DecidingOn(a)' = DecidingOn(a)
    BY <1>2 DEF Insert, clientVars, DecidingOn
  <2>2. \/ approval'[a].status = approval[a].status
        \/ approval[a].status = "none" /\ approval'[a].status = "pending"
    BY <1>2 DEF Insert, GateInv, DocsGood
  <2> QED BY <1>0, <2>1, <2>2, ActQuiet
<1>3. ASSUME NEW w \in Workers, Match(w), \A b \in Approvals : ~Insert(w, b) PROVE ActGood(a)'
  BY <1>1, <1>3 DEF Match, Receive, NextNew, Load, SaveScore, BelowThreshold, FindPending,
                    MarkAwaiting, Notify, MarkApplying, SendApply, HandleRaises, Crash, clientVars
<1>4. ASSUME NEW j \in Jobs, Found(j) PROVE ActGood(a)'
  BY <1>1, <1>4 DEF Found, clientVars
<1>5. CASE RunMatch \/ Apply \/ CooldownEnds \/ UNCHANGED vars
  BY <1>1, <1>5 DEF RunMatch, Apply, Applied, CooldownEnds, vars, clientVars
<1>6. ASSUME NEW c \in Clients, Serve(c) PROVE ActGood(a)'
  <2>0. cpc \in [Clients -> {"idle", "batch", "limit", "save", "job", "publish"}]
        /\ cappr \in [Clients -> Approvals \cup {NoApproval}]
        /\ sent \in [Approvals -> Nat] /\ approval \in [Approvals -> Approval]
    BY DEF GateInv, RequestsGood, DecisionsOK, DocsGood
  <2>1. ASSUME NEW b \in Approvals, approval[b].status = "pending", UNCHANGED <<approval, sent>>,
               NEW v \in {"limit", "save"}, cpc' = [cpc EXCEPT ![c] = v],
               cappr' = [cappr EXCEPT ![c] = b], cpc[c] \in {"idle", "batch"}
        PROVE  ActGood(a)'
    <3>1. CASE a = b
      BY <1>0, <2>0, <2>1, <3>1, ActBegin
    <3>2. CASE a # b
      <4>1. \A d \in DecidingOn(a)' : d \in DecidingOn(a) /\ cpc'[d] = cpc[d]
        BY <2>0, <2>1, <3>2 DEF DecidingOn
      <4> QED BY <1>0, <2>1, <4>1, ActQuiet
    <3> QED BY <3>1, <3>2
  <2>2. ASSUME UNCHANGED <<approval, sent>>,
               \A d \in DecidingOn(a)' : d \in DecidingOn(a) /\ cpc'[d] \in {cpc[d], "save"}
        PROVE  ActGood(a)'
    BY <1>0, <2>2, ActQuiet
  <2>3. ASSUME NEW b \in Approvals, NEW v \in Verdicts, Decide(c, b, v) PROVE ActGood(a)'
    BY <2>1, <2>3 DEF Decide, Begin, CGoto, AfterLook
  <2>4. ASSUME NEW as \in SUBSET Approvals, NEW v \in Verdicts, Batch(c, as, v) PROVE ActGood(a)'
    BY <2>0, <2>2, <2>4 DEF Batch, Begin, CGoto, DecidingOn, Deciding
  <2>5. ASSUME NEW b \in Approvals, BatchNext(c, b) PROVE ActGood(a)'
    <3>1. CASE approval[b].status = "pending"
      BY <2>1, <2>5, <3>1 DEF BatchNext, CGoto, AfterLook
    <3>2. CASE approval[b].status # "pending"
      BY <1>1, <2>5, <3>2 DEF BatchNext
    <3> QED BY <3>1, <3>2
  <2>6. CASE BatchEnds(c)
    BY <2>0, <2>2, <2>6 DEF BatchEnds, Reply, CGoto, DecidingOn, Deciding
  <2>7. CASE CheckLimit(c)
    BY <2>0, <2>2, <2>7 DEF CheckLimit, Reply, CGoto, DecidingOn, Deciding
  <2>8. CASE SaveDecision(c)
    <3>1. /\ cpc[c] = "save" /\ cpc' = [cpc EXCEPT ![c] = "job"] /\ UNCHANGED <<cappr, sent>>
          /\ approval' = [approval EXCEPT ![cappr[c]].status = cverdict[c]]
          /\ cverdict[c] \in Verdicts
      BY <2>8 DEF SaveDecision, CGoto, GateInv, RequestsGood
    <3>2. DecidingOn(a)' = DecidingOn(a)
      BY <2>0, <3>1 DEF DecidingOn, Deciding
    <3>3. CASE a = cappr[c]
      <4>1. approval'[a].status \in Verdicts
        BY <2>0, <3>1, <3>3 DEF Approval
      <4>2. ActBound(a)'
        BY <1>0, <3>1, <3>2, ActLess DEF ActGood
      <4> QED BY <4>1, <4>2 DEF ActGood, Verdicts
    <3>4. CASE a # cappr[c]
      <4>1. \A d \in DecidingOn(a)' : d \in DecidingOn(a) /\ cpc'[d] = cpc[d]
        BY <2>0, <3>1, <3>2, <3>4 DEF DecidingOn
      <4>2. approval'[a] = approval[a]
        BY <2>0, <3>1, <3>4
      <4> QED BY <1>0, <3>1, <4>1, <4>2, ActQuiet
    <3> QED BY <3>3, <3>4
  <2>9. CASE SaveJob(c) /\ cverdict[c] = "approved"
    <3>1. /\ cpc[c] = "job" /\ cpc' = [cpc EXCEPT ![c] = "publish"]
          /\ UNCHANGED <<approval, sent, cappr>>
      BY <2>9 DEF SaveJob, CGoto
    <3>2. DecidingOn(a)' = DecidingOn(a)
      BY <2>0, <3>1 DEF DecidingOn, Deciding
    <3>3. ActBound(a)'
      BY <1>0, <3>1, <3>2, ActLess DEF ActGood
    <3>4. Untouched(a) => Untouched(a)'
      BY <2>0, <3>1, <3>2 DEF Untouched, DecidingOn
    <3> QED BY <1>0, <3>1, <3>2, <3>3, <3>4 DEF ActGood
  <2>10. ASSUME NEW n, Decided(c, n), cpc[c] \in {"job", "publish"}, approval' = approval,
                \/ sent' = sent
                \/ cpc[c] = "publish" /\ sent' = [sent EXCEPT ![cappr[c]] = @ + 1]
         PROVE  ActGood(a)'
    <3>1. /\ DecidingOn(a)' \subseteq DecidingOn(a) \ {c}
          /\ \A d \in DecidingOn(a)' : cpc'[d] = cpc[d]
      BY <2>10, DecidedLeaves
    <3>2. CASE a = cappr[c]
      <4>1. c \in DecidingOn(a)
        BY <2>10, <3>2 DEF DecidingOn, Deciding
      <4>2. sent'[a] \in {sent[a], sent[a] + 1}
        BY <2>0, <2>10
      <4> QED BY <1>0, <2>10, <3>1, <4>1, <4>2, ActEnd
    <3>3. CASE a # cappr[c]
      <4>1. sent'[a] = sent[a]
        BY <2>0, <2>10, <3>3
      <4> QED BY <1>0, <2>10, <3>1, <4>1, ActQuiet
    <3> QED BY <3>2, <3>3
  <2>11. CASE SaveJob(c) /\ cverdict[c] # "approved"
    BY <2>10, <2>11 DEF SaveJob
  <2>12. CASE PublishJobApply(c)
    BY <2>10, <2>12 DEF PublishJobApply
  <2>13. CASE PublishFails(c) \/ DecideBreaks(c)
    BY <2>10, <2>13 DEF PublishFails, DecideBreaks
  <2> QED
    BY <1>6, <2>3, <2>4, <2>5, <2>6, <2>7, <2>8, <2>9, <2>11, <2>12, <2>13 DEF Serve
<1> QED BY <1>2, <1>3, <1>4, <1>5, <1>6 DEF Next

LEMMA ActInit == ASSUME Init PROVE ActInv
<1> SUFFICES ASSUME NEW a \in Approvals PROVE ActGood(a)
  BY DEF ActInv
<1>1. DecidingOn(a) = {} /\ sent[a] = 0
  BY DEF Init, DecidingOn, Deciding
<1>2. ActBound(a)
  BY <1>1, ActFinite, FS_EmptySet DEF ActBound
<1> QED BY <1>1, <1>2 DEF ActGood, Untouched

\* An approval leads to at most as many messages to the apply worker as there are
\* requests in progress at a time, alone or in batches, and whether publishes fail or
\* only seem to: with one request at a time, to at most one.
THEOREM ActedOnOnceHolds == Spec => []ActedOnOnce
<1>1. Init => GateInv /\ ActInv
  BY InitGood, ActInit
<1>2. (GateInv /\ ActInv) /\ [Next]_vars => (GateInv /\ ActInv)'
  BY StepGood, ActStep
<1>3. (GateInv /\ ActInv) => ActedOnOnce
  <2> SUFFICES ASSUME GateInv, ActInv, NEW a \in Approvals
               PROVE  sent[a] <= Cardinality(Clients)
    BY DEF ActedOnOnce
  <2>1. ActBound(a) /\ sent[a] \in Nat
    BY DEF ActInv, ActGood, GateInv, DocsGood
  <2> QED BY <2>1, ActFinite DEF ActBound
<1> QED BY <1>1, <1>2, <1>3, PTL DEF Spec

-----------------------------------------------------------------------------
(* Without tasks of its own, job.match implements RetryQueue: a message is *)
(* the number of its failures.                                             *)

Failures(s) == [i \in DOMAIN s |-> s[i].attempts]
Busy == [w \in Workers |-> IF wpc[w] = "idle" THEN <<>> ELSE <<wmsg[w].attempts>>]

\* Every message came through Kafka and is about one job, or about none.
FromTopic ==
  /\ \A i \in DOMAIN topic : ~topic[i].inline
  /\ \A w \in Workers : ~wmsg[w].inline /\ wtodo[w] = {}

MatchInv == GateInv /\ FromTopic

\* Queues map to queues, message by message.
LEMMA FailuresOf ==
  /\ Failures(<<>>) = <<>>
  /\ \A s \in Seq(Message), m \in Message :
       /\ Failures(Append(s, m)) = Append(Failures(s), m.attempts)
       /\ Failures(<<m>> \o s) = <<m.attempts>> \o Failures(s)
  /\ \A s \in Seq(Message) : s # <<>> =>
       /\ Failures(s) # <<>>
       /\ Failures(Tail(s)) = Tail(Failures(s))
       /\ Head(Failures(s)) = Head(s).attempts
<1>1. Failures(<<>>) = <<>>
  BY DEF Failures
<1>2. ASSUME NEW s \in Seq(Message), NEW m \in Message
      PROVE  /\ Failures(Append(s, m)) = Append(Failures(s), m.attempts)
             /\ Failures(<<m>> \o s) = <<m.attempts>> \o Failures(s)
  <2>1. Failures(Append(s, m)) = Append(Failures(s), m.attempts)
    BY DEF Failures
  <2>2. Failures(<<m>> \o s) = <<m.attempts>> \o Failures(s)
    BY DEF Failures
  <2> QED BY <2>1, <2>2
<1>3. ASSUME NEW s \in Seq(Message), s # <<>>
      PROVE  /\ Failures(s) # <<>>
             /\ Failures(Tail(s)) = Tail(Failures(s))
             /\ Head(Failures(s)) = Head(s).attempts
  BY <1>3 DEF Failures
<1> QED BY <1>1, <1>2, <1>3

LEMMA InvTopic ==
  ASSUME GateInv
  PROVE  /\ topic \in Seq(Message) /\ dlq \in Seq(Message)
         /\ \A w \in Workers : wmsg[w] \in Message /\ Open(wmsg[w])
         /\ wpc \in [Workers -> {"idle", "next", "load", "rank", "gate", "insert", "mark",
                                 "notify", "send"}]
         /\ wmsg \in [Workers -> Message]
BY DEF GateInv, BusGood, WorkersGood, GateWorkersOK

\* Steps the topic does not see.
Apart == Failures(topic)' = Failures(topic) /\ Failures(dlq)' = Failures(dlq) /\ Busy' = Busy

LEMMA ApartStutters ==
  ASSUME Apart
  PROVE  UNCHANGED Topic!vars
BY DEF Apart, Topic!vars, Failures, Busy

\* Where a worker that moves is seen to stand.
LEMMA BusyMoves ==
  ASSUME MatchInv, NEW w \in Workers
  PROVE  /\ Done(w) \/ Drop(w) => Busy' = [Busy EXCEPT ![w] = <<>>]
         /\ \A pc : pc # "idle" /\ wpc[w] # "idle" /\ WGoto(w, pc) /\ wmsg' = wmsg => Busy' = Busy
         /\ wpc[w] # "idle" => Busy[w] = <<wmsg[w].attempts>> /\ Busy[w] # <<>>
         /\ wpc[w] = "idle" => Busy[w] = <<>>
<1>1. /\ wpc \in [Workers -> {"idle", "next", "load", "rank", "gate", "insert", "mark",
                              "notify", "send"}]
      /\ wmsg \in [Workers -> Message] /\ wtodo[w] = {}
  BY InvTopic DEF MatchInv, FromTopic
<1>2. Done(w) \/ Drop(w) => wpc' = [wpc EXCEPT ![w] = "idle"] /\ wmsg' = [wmsg EXCEPT ![w] = NoMsg]
  BY <1>1 DEF Done, Drop
<1>3. Done(w) \/ Drop(w) => Busy' = [Busy EXCEPT ![w] = <<>>]
  BY <1>1, <1>2 DEF Busy
<1>4. \A pc : pc # "idle" /\ wpc[w] # "idle" /\ WGoto(w, pc) /\ wmsg' = wmsg => Busy' = Busy
  BY <1>1 DEF WGoto, Busy
<1>5. /\ wpc[w] # "idle" => Busy[w] = <<wmsg[w].attempts>> /\ Busy[w] # <<>>
      /\ wpc[w] = "idle" => Busy[w] = <<>>
  BY DEF Busy
<1> QED BY <1>3, <1>4, <1>5

\* Finding a job and "Run match" submit a message, or the broker is out.
LEMMA FoundSubmits ==
  ASSUME MatchInv, "inline" \notin Deliveries, (\E j \in Jobs : Found(j)) \/ RunMatch
  PROVE  /\ Apart \/ Topic!Submit
         /\ FromTopic'
<1>1. /\ wpc' = wpc /\ wmsg' = wmsg /\ wtodo' = wtodo /\ dlq' = dlq
      /\ \/ topic' = topic
         \/ \E j \in Jobs \cup {NoJob} : topic' = Append(topic, MatchOf(j, FALSE))
  BY DEF Found, RunMatch, PublishJobMatch, busVars, workerVars
<1>2. Busy' = Busy /\ Failures(dlq)' = Failures(dlq)
  BY <1>1 DEF Busy, Failures
<1>3. CASE topic' = topic
  BY <1>1, <1>2, <1>3 DEF Apart, Failures, FromTopic, MatchInv
<1>4. ASSUME NEW j \in Jobs \cup {NoJob}, topic' = Append(topic, MatchOf(j, FALSE))
      PROVE  Topic!Submit /\ FromTopic'
  <2>1. /\ MatchOf(j, FALSE) \in Message /\ MatchOf(j, FALSE).attempts = 0
        /\ ~MatchOf(j, FALSE).inline /\ topic \in Seq(Message)
    BY MatchGood, InvTopic DEF MatchInv, MatchOf
  <2>2. Failures(topic)' = Append(Failures(topic), 0)
    BY <1>4, <2>1, FailuresOf
  <2>3. Topic!Submit
    BY <1>2, <2>2 DEF Topic!Submit, Failures, Busy
  <2>4. \A i \in DOMAIN topic' : ~topic'[i].inline
    <3>1. \A i \in DOMAIN topic : ~topic[i].inline
      BY DEF FromTopic, MatchInv
    <3> DEFINE m == MatchOf(j, FALSE)
    <3>2. m \in Message /\ ~m.inline /\ topic' = Append(topic, m)
      BY <1>4, <2>1
    <3> HIDE DEF m
    <3>3. DOMAIN topic' = 1..(Len(topic) + 1)
      BY <2>1, <3>2
    <3>4. \A i \in DOMAIN topic' : topic'[i] = IF i \in DOMAIN topic THEN topic[i] ELSE m
      BY <2>1, <3>2
    <3> QED BY <3>1, <3>2, <3>4
  <2>5. FromTopic'
    BY <1>1, <2>4 DEF FromTopic, MatchInv
  <2> QED BY <2>3, <2>5
<1> QED BY <1>1, <1>3, <1>4

\* Receive takes the oldest message.
LEMMA ReceiveTakes ==
  ASSUME MatchInv, NEW w \in Workers, Receive(w)
  PROVE  Topic!Take(w) /\ FromTopic'
<1>1. topic \in Seq(Message) /\ topic # <<>> /\ Head(topic) \in Message /\ topic' = Tail(topic)
  BY InvTopic DEF MatchInv, Receive
<1>2. /\ Failures(topic) # <<>> /\ Failures(topic)' = Tail(Failures(topic))
      /\ Head(Failures(topic)) = Head(topic).attempts
  BY <1>1, FailuresOf
<1>3. Busy[w] = <<>> /\ Busy' = [Busy EXCEPT ![w] = <<Head(topic).attempts>>]
  BY InvTopic DEF Receive, WGoto, Busy, MatchInv
<1>4. Failures(dlq)' = Failures(dlq) /\ Busy' = [Busy EXCEPT ![w] = <<Head(Failures(topic))>>]
  BY <1>2, <1>3 DEF Receive
<1>5. Topic!Take(w)
  BY <1>2, <1>3, <1>4 DEF Topic!Take, Failures, Busy
<1>6. FromTopic'
  BY <1>1, InvTopic DEF FromTopic, MatchInv, Receive
<1> QED BY <1>5, <1>6

\* A handler that raised has its message retried, or buried at its last attempt.
LEMMA FailureRoutes ==
  ASSUME MatchInv, NEW w \in Workers, HandleRaises(w)
  PROVE  /\ Topic!Retry(w) \/ Topic!Bury(w)
         /\ FromTopic'
<1> DEFINE m == wmsg[w]
           n == m.attempts
<1>1. wpc[w] # "idle" /\ RouteFailure(m) /\ Drop(w)
  BY DEF HandleRaises, CanRaise, MatchInv, FromTopic
<1>2. /\ m \in Message /\ topic \in Seq(Message) /\ dlq \in Seq(Message)
      /\ n \in Nat /\ n < MaxHandleAttempts
  BY InvTopic, GateAssumption DEF MatchInv, Message, Open
<1>3. Counted(m) \in Message /\ Counted(m).attempts = n + 1 /\ ~Counted(m).inline
  <2>1. ~m.inline
    BY DEF MatchInv, FromTopic
  <2>2. n + 1 \in 0..MaxHandleAttempts
    BY <1>2, GateAssumption
  <2> HIDE DEF m
  <2> QED BY <1>2, <2>1, <2>2 DEF Counted, Message
<1>4. /\ Busy[w] = <<n>> /\ Busy[w] # <<>> /\ Busy[w][1] = n
      /\ Busy' = [Busy EXCEPT ![w] = <<>>]
  BY <1>1, BusyMoves
<1>5. \A v \in Workers : ~wmsg'[v].inline /\ wtodo'[v] = {}
  BY <1>1, InvTopic DEF Drop, MatchInv, FromTopic, NoMsg, GateInv, WorkersGood, GateWorkersOK
<1> HIDE DEF m, n
<1>6. CASE /\ n + 1 >= MaxHandleAttempts
           /\ dlq' = Append(dlq, Counted(m)) /\ topic' = topic
  <2>1. n + 1 = MaxHandleAttempts
    BY <1>2, <1>6, GateAssumption
  <2>2. Failures(dlq)' = Append(Failures(dlq), Busy[w][1] + 1) /\ Failures(topic)' = Failures(topic)
    BY <1>2, <1>3, <1>4, <1>6, FailuresOf
  <2>3. Topic!Bury(w)
    BY <1>4, <2>1, <2>2 DEF Topic!Bury, Failures, Busy
  <2> QED BY <1>5, <1>6, <2>3 DEF FromTopic, MatchInv
<1>7. CASE /\ n + 1 < MaxHandleAttempts
           /\ topic' = Append(topic, Counted(m)) /\ dlq' = dlq
  <2>1. Failures(topic)' = Append(Failures(topic), Busy[w][1] + 1) /\ Failures(dlq)' = Failures(dlq)
    BY <1>2, <1>3, <1>4, <1>7, FailuresOf
  <2>2. Topic!Retry(w)
    BY <1>4, <1>7, <2>1 DEF Topic!Retry, Failures, Busy
  <2> QED BY <1>2, <1>3, <1>5, <1>7, <2>2 DEF FromTopic, MatchInv
<1> QED BY <1>1, <1>6, <1>7 DEF RouteFailure, m, n

\* A worker that dies loses its message or leaves it to be taken next.
LEMMA CrashLosesOrRedelivers ==
  ASSUME MatchInv, NEW w \in Workers, Crash(w)
  PROVE  /\ Topic!Finish(w) \/ Topic!Redeliver(w)
         /\ FromTopic'
<1>1. /\ "crash" \in Faults /\ Busy[w] = <<wmsg[w].attempts>> /\ Busy[w] # <<>>
      /\ Busy' = [Busy EXCEPT ![w] = <<>>]
  BY BusyMoves DEF Crash
<1>2. \A v \in Workers : ~wmsg'[v].inline /\ wtodo'[v] = {}
  BY InvTopic DEF Crash, Drop, MatchInv, FromTopic, NoMsg, GateInv, WorkersGood, GateWorkersOK
<1>3. CASE UNCHANGED busVars
  <2>1. Failures(topic)' = Failures(topic) /\ Failures(dlq)' = Failures(dlq)
    BY <1>3 DEF busVars
  <2>2. Topic!Finish(w)
    BY <1>1, <2>1 DEF Topic!Finish, Failures, Busy
  <2> QED BY <1>2, <1>3, <2>2 DEF FromTopic, MatchInv, busVars
<1>4. CASE topic' = <<wmsg[w]>> \o topic /\ dlq' = dlq
  <2>1. wmsg[w] \in Message /\ topic \in Seq(Message) /\ ~wmsg[w].inline
    BY InvTopic DEF MatchInv, FromTopic
  <2>2. Failures(topic)' = Busy[w] \o Failures(topic) /\ Failures(dlq)' = Failures(dlq)
    BY <1>1, <1>4, <2>1, FailuresOf
  <2>3. Topic!Redeliver(w)
    BY <1>1, <2>2 DEF Topic!Redeliver, Failures, Busy
  <2>4. \A i \in DOMAIN topic' : ~topic'[i].inline
    <3>1. DOMAIN topic' = 1..(Len(topic) + 1)
      BY <1>4, <2>1
    <3>2. \A i \in DOMAIN topic' : topic'[i] = IF i = 1 THEN wmsg[w] ELSE topic[i - 1]
      BY <1>4, <2>1
    <3> QED BY <2>1, <3>1, <3>2 DEF FromTopic, MatchInv
  <2> QED BY <1>2, <2>3, <2>4 DEF FromTopic
<1> QED BY <1>3, <1>4 DEF Crash

\* A worker that is done with a job is done with its message.
LEMMA DoneFinishes ==
  ASSUME MatchInv, NEW w \in Workers, wpc[w] # "idle", Done(w), UNCHANGED busVars
  PROVE  Topic!Finish(w) /\ FromTopic'
<1>1. /\ Busy[w] # <<>> /\ Busy' = [Busy EXCEPT ![w] = <<>>]
      /\ Failures(topic)' = Failures(topic) /\ Failures(dlq)' = Failures(dlq)
  BY BusyMoves DEF busVars
<1>2. Topic!Finish(w)
  BY <1>1 DEF Topic!Finish, Failures, Busy
<1>3. FromTopic'
  BY InvTopic DEF Done, MatchInv, FromTopic, NoMsg, busVars
<1> QED BY <1>2, <1>3

\* Every other step of a worker keeps to itself.
LEMMA WorkKeepsTopic ==
  ASSUME MatchInv, NEW w \in Workers,
         \/ \E j \in Jobs : NextNew(w, j)
         \/ Load(w) \/ \E good \in BOOLEAN : SaveScore(w, good)
         \/ (FindPending(w) /\ ~Done(w)) \/ \E a \in Approvals : Insert(w, a)
         \/ MarkAwaiting(w) \/ MarkApplying(w)
  PROVE  Apart /\ FromTopic'
<1>1. /\ wmsg' = wmsg /\ wtodo' = wtodo /\ topic' = topic /\ dlq' = dlq /\ wpc[w] # "idle"
      /\ \E pc : pc # "idle" /\ WGoto(w, pc)
  <2>1. ~\E j \in Jobs : NextNew(w, j)
    BY DEF NextNew, MatchInv, FromTopic
  <2> QED BY <2>1 DEF Load, SaveScore, FindPending, Insert, MarkAwaiting, MarkApplying, busVars
<1>2. Busy' = Busy
  BY <1>1, BusyMoves
<1> QED BY <1>1, <1>2 DEF Apart, FromTopic, MatchInv

LEMMA TopicStep ==
  ASSUME "inline" \notin Deliveries, MatchInv, [Next]_vars
  PROVE  [Topic!Next]_(Topic!vars) /\ FromTopic'
<1>1. CASE (\E j \in Jobs : Found(j)) \/ RunMatch
  BY <1>1, FoundSubmits, ApartStutters DEF Topic!Next
<1>2. ASSUME NEW w \in Workers, Match(w)
      PROVE  [Topic!Next]_(Topic!vars) /\ FromTopic'
  <2>1. CASE Receive(w)
    BY <2>1, ReceiveTakes DEF Topic!Next
  <2>2. CASE HandleRaises(w)
    BY <2>2, FailureRoutes DEF Topic!Next
  <2>3. CASE Crash(w)
    BY <2>3, CrashLosesOrRedelivers DEF Topic!Next
  <2>4. CASE BelowThreshold(w) \/ Notify(w) \/ SendApply(w) \/ (FindPending(w) /\ Done(w))
    <3>1. wpc[w] # "idle" /\ Done(w) /\ UNCHANGED busVars
      BY <2>4 DEF BelowThreshold, Notify, SendApply, FindPending
    <3> QED BY <3>1, DoneFinishes DEF Topic!Next
  <2>5. CASE \/ \E j \in Jobs : NextNew(w, j)
             \/ Load(w) \/ \E good \in BOOLEAN : SaveScore(w, good)
             \/ (FindPending(w) /\ ~Done(w)) \/ \E a \in Approvals : Insert(w, a)
             \/ MarkAwaiting(w) \/ MarkApplying(w)
    BY <2>5, WorkKeepsTopic, ApartStutters
  <2>6. \/ Receive(w) \/ HandleRaises(w) \/ Crash(w)
        \/ BelowThreshold(w) \/ Notify(w) \/ SendApply(w) \/ FindPending(w)
        \/ \E j \in Jobs : NextNew(w, j)
        \/ Load(w) \/ \E good \in BOOLEAN : SaveScore(w, good)
        \/ \E a \in Approvals : Insert(w, a)
        \/ MarkAwaiting(w) \/ MarkApplying(w)
    BY <1>2 DEF Match
  <2> QED BY <2>1, <2>2, <2>3, <2>4, <2>5, <2>6
<1>3. ASSUME \/ \E c \in Clients : Serve(c)
             \/ Apply \/ CooldownEnds \/ UNCHANGED vars
      PROVE  [Topic!Next]_(Topic!vars) /\ FromTopic'
  <2>1. wpc' = wpc /\ wmsg' = wmsg /\ wtodo' = wtodo /\ topic' = topic /\ dlq' = dlq
    BY <1>3 DEF Serve, Decide, Batch, BatchNext, BatchEnds, CheckLimit, SaveDecision, SaveJob,
                PublishJobApply, PublishFails, DecideBreaks, Apply, Applied, CooldownEnds, vars,
                workerVars, busVars
  <2>2. Apart /\ FromTopic'
    BY <2>1 DEF Apart, Busy, FromTopic, MatchInv
  <2> QED BY <2>2, ApartStutters
<1> QED BY <1>1, <1>2, <1>3 DEF Next

\* Where every match goes through Kafka, the match worker's messages are handled in
\* order, a failed one is retried behind the others and dead-lettered exactly at its
\* last attempt, for every number of workers, requests, jobs and approvals.
THEOREM MatchesImplementRetryQueue ==
  "inline" \notin Deliveries => (Spec => MatchRetriesAreBounded)
<1> SUFFICES ASSUME "inline" \notin Deliveries PROVE Spec => MatchRetriesAreBounded
  OBVIOUS
<1>1. Init => Topic!Init /\ MatchInv
  <2> SUFFICES ASSUME Init PROVE Topic!Init /\ MatchInv OBVIOUS
  <2>1. /\ Failures(topic) = <<>> /\ Failures(dlq) = <<>>
        /\ Busy = [w \in Workers |-> <<>>]
    BY FailuresOf DEF Init, Busy
  <2>2. Topic!Init
    BY <2>1 DEF Topic!Init, Failures, Busy
  <2>3. FromTopic
    BY DEF Init, FromTopic, NoMsg
  <2>4. MatchInv
    BY <2>3, InitGood DEF MatchInv
  <2> QED BY <2>2, <2>4
<1>2. MatchInv /\ [Next]_vars => MatchInv' /\ [Topic!Next]_(Topic!vars)
  BY TopicStep, StepGood DEF MatchInv
<1> QED BY <1>1, <1>2, PTL DEF Spec, MatchRetriesAreBounded, Topic!Spec

-----------------------------------------------------------------------------
(* Who brings a job further.                                               *)

\* The approval that is about to be shown was added, and is for the job at hand; a
\* message of the topic is about the job at hand and about no other; and the approval
\* that is being decided was added.
Marking(w) ==
  wpc[w] = "mark" => /\ wappr[w] \in Approvals /\ approval[wappr[w]].status # "none"
                     /\ approval[wappr[w]].job = wjob[w]

OneJob(w) ==
  /\ ~wmsg[w].inline => wtodo[w] = {} /\ (wpc[w] # "idle" => wjob[w] = wmsg[w].job)
  /\ wpc[w] = "idle" => ~wmsg[w].inline

DecidesAdded(c) == cpc[c] \in Deciding => approval[cappr[c]].status # "none"

WorkersFollow == \A w \in Workers : Marking(w) /\ OneJob(w)

FollowInv ==
  /\ WorkersFollow
  /\ \A c \in Clients : DecidesAdded(c)

LEMMA FollowInit == ASSUME Init PROVE FollowInv
BY DEF Init, FollowInv, WorkersFollow, Marking, OneJob, DecidesAdded, NoMsg, Deciding

\* A task of its own is marked as one.
LEMMA StartFollows ==
  ASSUME GateInv, FollowInv, NEW w \in Workers, NEW j, NEW todo, StartInline(w, j, todo),
         UNCHANGED approval
  PROVE  WorkersFollow'
BY DEF StartInline, FollowInv, WorkersFollow, Marking, OneJob, MatchOf, GateInv, WorkersGood, GateWorkersOK

LEMMA FoundFollows ==
  ASSUME GateInv, FollowInv, (\E j \in Jobs : Found(j)) \/ RunMatch
  PROVE  FollowInv'
<1>1. UNCHANGED <<approval, cpc, cappr>>
  BY DEF Found, RunMatch, clientVars
<1>2. \/ UNCHANGED workerVars
      \/ \E w \in Workers, j \in Jobs \cup {NoJob}, todo \in SUBSET Jobs : StartInline(w, j, todo)
  BY DEF Found, RunMatch, PublishJobMatch, NewJobs
<1>3. \A c \in Clients : DecidesAdded(c)'
  BY <1>1 DEF FollowInv, DecidesAdded
<1>4. WorkersFollow'
  <2>1. CASE UNCHANGED workerVars
    BY <1>1, <2>1 DEF FollowInv, WorkersFollow, Marking, OneJob, workerVars
  <2> QED BY <1>1, <1>2, <2>1, StartFollows
<1> QED BY <1>3, <1>4 DEF FollowInv

\* One worker moves.
LEMMA MoveFollows ==
  ASSUME FollowInv, NEW w \in Workers, UNCHANGED approval, Marking(w)', OneJob(w)',
         \A v \in Workers : v # w => /\ wpc'[v] = wpc[v] /\ wmsg'[v] = wmsg[v]
                                     /\ wtodo'[v] = wtodo[v] /\ wjob'[v] = wjob[v]
                                     /\ wappr'[v] = wappr[v]
  PROVE  WorkersFollow'
<1>1. ASSUME NEW v \in Workers, v # w PROVE Marking(v)' /\ OneJob(v)'
  <2>1. Marking(v) /\ OneJob(v)
    BY DEF FollowInv, WorkersFollow
  <2> QED BY <1>1, <2>1 DEF Marking, OneJob
<1> QED BY <1>1 DEF WorkersFollow

\* A step of the match worker keeps to its own locals.
LEMMA OthersStay ==
  ASSUME GateInv, NEW w \in Workers, Match(w), NEW v \in Workers, v # w
  PROVE  /\ wpc'[v] = wpc[v] /\ wmsg'[v] = wmsg[v] /\ wtodo'[v] = wtodo[v] /\ wjob'[v] = wjob[v]
         /\ wappr'[v] = wappr[v] /\ wcopy'[v] = wcopy[v]
BY DEF Match, Receive, NextNew, Load, SaveScore, BelowThreshold, FindPending, Insert, MarkAwaiting,
       Notify, MarkApplying, SendApply, HandleRaises, Crash, Done, Drop, WGoto, GateInv, WorkersGood,
       GateWorkersOK

LEMMA MatchFollows ==
  ASSUME GateInv, FollowInv, NEW w \in Workers, Match(w)
  PROVE  FollowInv'
<1>0. /\ wpc \in [Workers -> {"idle", "next", "load", "rank", "gate", "insert", "mark", "notify",
                              "send"}]
      /\ wmsg \in [Workers -> Message] /\ wtodo \in [Workers -> SUBSET Jobs]
      /\ wjob \in [Workers -> Jobs \cup {NoJob}]
      /\ wappr \in [Workers -> Approvals \cup {NoApproval}]
      /\ approval \in [Approvals -> Approval]
      /\ Marking(w) /\ OneJob(w)
  BY DEF GateInv, WorkersGood, GateWorkersOK, DocsGood, FollowInv, WorkersFollow
<1>1. \A c \in Clients : DecidesAdded(c)'
  <2>1. UNCHANGED <<cpc, cappr>>
    BY DEF Match, Receive, NextNew, Load, SaveScore, BelowThreshold, FindPending, Insert, MarkAwaiting,
           Notify, MarkApplying, SendApply, HandleRaises, Crash, clientVars
  <2>2. ASSUME NEW c \in Clients, cpc[c] \in Deciding
        PROVE  approval'[cappr[c]] = approval[cappr[c]]
    <3>1. CASE UNCHANGED approval
      BY <3>1
    <3>2. CASE \E a \in Approvals : Insert(w, a)
      BY <2>2, <3>2 DEF Insert, FollowInv, DecidesAdded, DocsGood, GateInv
    <3> QED
      BY <3>1, <3>2 DEF Match, Receive, NextNew, Load, SaveScore, BelowThreshold, FindPending,
                        MarkAwaiting, Notify, MarkApplying, SendApply, HandleRaises, Crash
  <2> QED BY <2>1, <2>2 DEF FollowInv, DecidesAdded
<1>2. ASSUME Done(w) \/ Drop(w), UNCHANGED approval PROVE WorkersFollow'
  <2>1. Marking(w)' /\ OneJob(w)'
    BY <1>0, <1>2 DEF Done, Drop, Marking, OneJob, NoMsg
  <2> QED BY <1>2, <2>1, MoveFollows, OthersStay
<1>3. ASSUME \/ Receive(w) \/ \E j \in Jobs : NextNew(w, j)
             \/ Load(w) \/ MarkAwaiting(w) \/ MarkApplying(w)
             \/ \E good \in BOOLEAN : SaveScore(w, good)
      PROVE  WorkersFollow'
  <2>1. wpc'[w] \in {"load", "rank", "gate", "notify", "send"} /\ UNCHANGED approval
    BY <1>0, <1>3 DEF Receive, NextNew, Load, MarkAwaiting, MarkApplying, SaveScore, WGoto
  <2>2. OneJob(w)'
    <3>1. CASE Receive(w)
      BY <1>0, <3>1 DEF Receive, WGoto, OneJob
    <3>2. CASE \E j \in Jobs : NextNew(w, j)
      BY <1>0, <3>2 DEF NextNew, WGoto, OneJob
    <3>3. CASE \/ Load(w) \/ MarkAwaiting(w) \/ MarkApplying(w)
               \/ \E good \in BOOLEAN : SaveScore(w, good)
      BY <1>0, <3>3 DEF Load, MarkAwaiting, MarkApplying, SaveScore, WGoto, OneJob
    <3> QED BY <1>3, <3>1, <3>2, <3>3
  <2>3. Marking(w)'
    BY <2>1 DEF Marking
  <2> QED BY <2>1, <2>2, <2>3, MoveFollows, OthersStay
<1>4. ASSUME FindPending(w) PROVE WorkersFollow'
  <2>1. ASSUME WGoto(w, "insert"), UNCHANGED <<approval, wmsg, wtodo, wjob, wcopy, wappr>>
        PROVE  WorkersFollow'
    <3>1. wpc'[w] = "insert" /\ wpc[w] = "gate"
      BY <1>0, <1>4, <2>1 DEF WGoto, FindPending
    <3>2. Marking(w)' /\ OneJob(w)'
      BY <1>0, <2>1, <3>1 DEF Marking, OneJob
    <3> QED BY <2>1, <3>2, MoveFollows, OthersStay
  <2> QED BY <1>2, <1>4, <2>1 DEF FindPending
<1>5. ASSUME NEW a \in Approvals, Insert(w, a) PROVE WorkersFollow'
  <2>1. approval' = [approval EXCEPT ![a] = [job |-> wjob[w], status |-> "pending"]]
        /\ approval[a].status = "none"
    BY <1>5 DEF Insert
  <2>2. ASSUME NEW v \in Workers PROVE Marking(v)'
    <3>1. CASE v = w
      BY <1>0, <1>5, <2>1, <3>1 DEF Insert, WGoto, Marking
    <3>2. CASE v # w
      <4>1. Marking(v)
        BY DEF FollowInv, WorkersFollow
      <4> QED BY <1>0, <1>5, <2>1, <3>2, <4>1 DEF Insert, WGoto, Marking
    <3> QED BY <3>1, <3>2
  <2>3. ASSUME NEW v \in Workers PROVE OneJob(v)'
    <3>1. OneJob(v)
      BY DEF FollowInv, WorkersFollow
    <3> QED BY <1>0, <1>5, <3>1 DEF Insert, WGoto, OneJob
  <2> QED BY <2>2, <2>3 DEF WorkersFollow
<1>6. ASSUME BelowThreshold(w) \/ Notify(w) \/ SendApply(w) \/ HandleRaises(w) \/ Crash(w)
      PROVE  WorkersFollow'
  <2>1. (Done(w) \/ Drop(w)) /\ UNCHANGED approval
    BY <1>6 DEF BelowThreshold, Notify, SendApply, HandleRaises, Crash
  <2> QED BY <1>2, <2>1
<1>7. WorkersFollow'
  BY <1>3, <1>4, <1>5, <1>6 DEF Match
<1> QED BY <1>1, <1>7 DEF FollowInv

LEMMA ServeFollows ==
  ASSUME GateInv, FollowInv, NEW c \in Clients, Serve(c)
  PROVE  FollowInv'
<1> USE DEF GateInv, RequestsGood, DecisionsOK
<1>1. UNCHANGED workerVars
  BY DEF Serve, Decide, Batch, BatchNext, BatchEnds, CheckLimit, SaveDecision, SaveJob,
         PublishJobApply, PublishFails, DecideBreaks
<1>2. /\ approval \in [Approvals -> Approval] /\ "none" \notin Verdicts
      /\ \A a \in Approvals : /\ approval'[a].job = approval[a].job
                              /\ approval[a].status # "none" => approval'[a].status # "none"
  <2>1. approval \in [Approvals -> Approval] /\ "none" \notin Verdicts
    BY DEF DocsGood, Verdicts
  <2>2. CASE UNCHANGED approval
    BY <2>1, <2>2
  <2>3. CASE SaveDecision(c)
    <3>1. cverdict[c] # "none" /\ approval' = [approval EXCEPT ![cappr[c]].status = cverdict[c]]
      BY <2>1, <2>3 DEF SaveDecision
    <3> QED BY <2>1, <3>1 DEF Approval
  <2> QED
    BY <2>1, <2>2, <2>3 DEF Serve, Decide, Batch, BatchNext, BatchEnds, CheckLimit, SaveJob,
                            PublishJobApply, PublishFails, DecideBreaks
<1>3. WorkersFollow'
  BY <1>1, <1>2 DEF FollowInv, WorkersFollow, Marking, OneJob, workerVars
<1>4. \A d \in Clients : d # c => DecidesAdded(d)'
  <2>1. \A d \in Clients : d # c => cpc'[d] = cpc[d] /\ cappr'[d] = cappr[d]
    BY DEF Serve, Decide, Batch, Begin, BatchNext, BatchEnds, CheckLimit, SaveDecision, SaveJob,
           PublishJobApply, PublishFails, DecideBreaks, Decided, Reply, CGoto
  <2> QED BY <1>2, <2>1 DEF FollowInv, DecidesAdded
<1>5. DecidesAdded(c)'
  <2>1. CASE /\ cpc[c] \in Deciding /\ cappr' = cappr
    BY <1>2, <2>1 DEF FollowInv, DecidesAdded
  <2>2. CASE cpc'[c] \notin Deciding
    BY <2>2 DEF DecidesAdded
  <2>3. ASSUME NEW a \in Approvals, approval[a].status = "pending", cappr'[c] = a
        PROVE  DecidesAdded(c)'
    BY <1>2, <2>3 DEF DecidesAdded
  <2>4. CASE \E a \in Approvals, v \in Verdicts : Decide(c, a, v)
    BY <2>3, <2>4 DEF Decide
  <2>5. CASE \E as \in SUBSET Approvals, v \in Verdicts : Batch(c, as, v)
    BY <2>2, <2>5 DEF Batch, CGoto, Deciding
  <2>6. ASSUME NEW a \in Approvals, BatchNext(c, a) PROVE DecidesAdded(c)'
    <3>1. CASE approval[a].status = "pending"
      BY <2>3, <2>6, <3>1 DEF BatchNext
    <3>2. CASE approval[a].status # "pending"
      BY <2>2, <2>6, <3>2 DEF BatchNext, Deciding
    <3> QED BY <3>1, <3>2
  <2>7. ASSUME Reply(c) PROVE DecidesAdded(c)'
    BY <2>2, <2>7 DEF Reply, CGoto, Deciding
  <2>8. ASSUME NEW n, Decided(c, n) PROVE DecidesAdded(c)'
    BY <2>2, <2>7, <2>8 DEF Decided, CGoto, Deciding
  <2>9. CASE BatchEnds(c) \/ CheckLimit(c)
    BY <2>1, <2>7, <2>9 DEF BatchEnds, CheckLimit, Deciding
  <2>10. CASE SaveDecision(c) \/ SaveJob(c)
    BY <2>1, <2>8, <2>10 DEF SaveDecision, SaveJob, Deciding
  <2>11. CASE PublishJobApply(c) \/ PublishFails(c) \/ DecideBreaks(c)
    BY <2>8, <2>11 DEF PublishJobApply, PublishFails, DecideBreaks
  <2> QED BY <2>4, <2>5, <2>6, <2>9, <2>10, <2>11 DEF Serve
<1> QED BY <1>3, <1>4, <1>5 DEF FollowInv

LEMMA FollowStep ==
  ASSUME GateInv, FollowInv, [Next]_vars
  PROVE  FollowInv'
<1>1. CASE Apply \/ CooldownEnds \/ UNCHANGED vars
  <2>1. UNCHANGED <<approval, workerVars, cpc, cappr>>
    BY <1>1 DEF Apply, Applied, CooldownEnds, vars, workerVars, clientVars
  <2> QED BY <2>1 DEF FollowInv, WorkersFollow, Marking, OneJob, DecidesAdded, workerVars
<1> QED BY <1>1, FoundFollows, MatchFollows, ServeFollows DEF Next

\* Job j is shown as awaiting a decision, approved or being applied for.
Live(j) == job[j].status \in {"awaiting", "approved", "applying"}

\* Somebody other than the match worker brings it further.
Asked(j) ==
  \/ PendingOf(j) # {}
  \/ \E c \in Clients : DecidedBy(c, j)
  \/ applies[j] > 0

\* Its message waits, or is shown in the dead letters.
Queued(j) == \/ \E i \in DOMAIN topic : topic[i].job = j
             \/ \E i \in DOMAIN dlq : dlq[i].job = j

LEMMA AttendedParts ==
  ASSUME NEW j
  PROVE  /\ Attended(j) <=> \/ Asked(j)
                            \/ /\ job[j].status = "applying"
                               /\ Queued(j) \/ \E w \in Workers : HandledBy(w, j)
         /\ Attended(j)' <=> \/ Asked(j)'
                             \/ /\ job'[j].status = "applying"
                                /\ Queued(j)' \/ \E w \in Workers : HandledBy(w, j)'
<1>1. Attended(j) <=> \/ Asked(j)
                      \/ /\ job[j].status = "applying"
                         /\ Queued(j) \/ \E w \in Workers : HandledBy(w, j)
  BY Zenon DEF Attended, Asked, Queued
<1>2. Attended(j)' <=> \/ Asked(j)'
                       \/ /\ job'[j].status = "applying"
                          /\ Queued(j)' \/ \E w \in Workers : HandledBy(w, j)'
  BY Zenon DEF Attended, Asked, Queued
<1> QED BY <1>1, <1>2

\* A message that is added can be found, and so can those before it.
LEMMA AddedIsQueued ==
  ASSUME NEW s \in Seq(Message), NEW m \in Message
  PROVE  /\ \A i \in DOMAIN s : i \in DOMAIN Append(s, m) /\ Append(s, m)[i] = s[i]
         /\ Len(s) + 1 \in DOMAIN Append(s, m) /\ Append(s, m)[Len(s) + 1] = m
OBVIOUS

LEMMA QueuedStays ==
  ASSUME GateInv, NEW j, Queued(j),
         \/ topic' = topic
         \/ \E m \in Message : topic' = Append(topic, m),
         \/ dlq' = dlq
         \/ \E m \in Message : dlq' = Append(dlq, m)
  PROVE  Queued(j)'
<1>1. topic \in Seq(Message) /\ dlq \in Seq(Message)
  BY InvTopic
<1>2. \A i \in DOMAIN topic : i \in DOMAIN topic' /\ topic'[i] = topic[i]
  BY <1>1, AddedIsQueued
<1>3. \A i \in DOMAIN dlq : i \in DOMAIN dlq' /\ dlq'[i] = dlq[i]
  BY <1>1, AddedIsQueued
<1> QED BY <1>2, <1>3 DEF Queued

\* Jobs that are found, and "Run match", add to what is under way.
LEMMA FoundAttends ==
  ASSUME GateInv, (\E k \in Jobs : Found(k)) \/ RunMatch,
         NEW j \in Jobs, Live(j)', Live(j) => Attended(j)
  PROVE  Attended(j)'
<1>1. UNCHANGED <<approval, cpc, cappr, applies, dlq>>
  BY DEF Found, RunMatch, PublishJobMatch, clientVars, busVars
<1>2. job'[j] = job[j]
  <2>1. ASSUME NEW k \in Jobs, Found(k) PROVE job'[j] = job[j]
    <3>1. job \in [Jobs -> Job] /\ job' = [job EXCEPT ![k] = [status |-> "new", scored |-> FALSE]]
      BY <2>1 DEF Found, GateInv, DocsGood
    <3>2. k # j
      BY <3>1 DEF Live
    <3> QED BY <3>1, <3>2
  <2> QED BY <2>1 DEF RunMatch
<1>3. Attended(j)
  BY <1>2 DEF Live
<1>4. Asked(j) => Asked(j)'
  BY <1>1 DEF Asked, PendingOf, DecidedBy, JobOf
<1>5. Queued(j) => Queued(j)'
  <2>1. topic' = topic \/ \E m \in Message : topic' = Append(topic, m)
    BY MatchGood DEF Found, RunMatch, PublishJobMatch, busVars
  <2> QED BY <1>1, <2>1, QueuedStays
<1>6. \A w \in Workers : HandledBy(w, j) => HandledBy(w, j)'
  <2>1. UNCHANGED workerVars \/ \E v \in Workers : \E k, todo : StartInline(v, k, todo)
    BY DEF Found, RunMatch, PublishJobMatch
  <2>2. CASE UNCHANGED workerVars
    BY <2>2 DEF HandledBy, workerVars
  <2>3. CASE \E v \in Workers : \E k, todo : StartInline(v, k, todo)
    BY <2>3 DEF HandledBy, StartInline, GateInv, WorkersGood, GateWorkersOK
  <2> QED BY <2>1, <2>2, <2>3
<1> QED BY <1>2, <1>3, <1>4, <1>5, <1>6, AttendedParts

\* The match worker takes away no approval, decision or application.
LEMMA MatchKeepsAsked ==
  ASSUME GateInv, FollowInv, NEW w \in Workers, Match(w), NEW j \in Jobs, Asked(j)
  PROVE  Asked(j)'
<1>1. UNCHANGED <<cpc, cappr>>
  BY DEF Match, Receive, NextNew, Load, SaveScore, BelowThreshold, FindPending, Insert, MarkAwaiting,
         Notify, MarkApplying, SendApply, HandleRaises, Crash, clientVars
<1>2. \A a \in Approvals : approval[a].status # "none" => approval'[a] = approval[a]
  <2>1. ASSUME NEW a \in Approvals, Insert(w, a)
        PROVE  \A b \in Approvals : approval[b].status # "none" => approval'[b] = approval[b]
    BY <2>1 DEF Insert, GateInv, DocsGood
  <2> QED
    BY <2>1 DEF Match, Receive, NextNew, Load, SaveScore, BelowThreshold, FindPending, MarkAwaiting,
                Notify, MarkApplying, SendApply, HandleRaises, Crash
<1>3. CASE PendingOf(j) # {}
  BY <1>2, <1>3 DEF Asked, PendingOf
<1>4. ASSUME NEW c \in Clients, DecidedBy(c, j) PROVE Asked(j)'
  <2>1. cappr[c] \in Approvals /\ approval[cappr[c]].status # "none"
    BY <1>4 DEF DecidedBy, GateInv, RequestsGood, FollowInv, DecidesAdded, Deciding
  <2> QED BY <1>1, <1>2, <1>4, <2>1 DEF Asked, DecidedBy, JobOf
<1>5. CASE applies[j] > 0
  <2>1. applies' = applies \/ applies' = [applies EXCEPT ![wjob[w]] = @ + 1]
    BY DEF Match, Receive, NextNew, Load, SaveScore, BelowThreshold, FindPending, Insert, MarkAwaiting,
           Notify, MarkApplying, SendApply, HandleRaises, Crash
  <2>2. applies'[j] > 0
    BY <1>5, <2>1 DEF GateInv, DocsGood
  <2> QED BY <2>2 DEF Asked
<1> QED BY <1>3, <1>4, <1>5 DEF Asked

\* A handler that raises leaves its message where it is found.
LEMMA RaisedIsQueued ==
  ASSUME GateInv, FollowInv, NEW w \in Workers, HandleRaises(w), ~wmsg[w].inline, NEW j
  PROVE  /\ Queued(j) => Queued(j)'
         /\ wjob[w] = j => Queued(j)'
<1> DEFINE m == wmsg[w]
<1>1. /\ m \in Message /\ m.attempts + 1 \in 0..MaxHandleAttempts
      /\ topic \in Seq(Message) /\ dlq \in Seq(Message) /\ wjob[w] = m.job
  BY InvTopic, GateAssumption DEF Message, Open, HandleRaises, CanRaise, FollowInv, WorkersFollow, OneJob
<1>2. \/ dlq' = Append(dlq, Counted(m)) /\ topic' = topic
      \/ topic' = Append(topic, Counted(m)) /\ dlq' = dlq
  BY DEF HandleRaises, RouteFailure
<1> HIDE DEF m
<1>3. Counted(m) \in Message /\ Counted(m).job = m.job
  BY <1>1 DEF Counted, Message
<1>4. Queued(j) => Queued(j)'
  BY <1>2, <1>3, QueuedStays
<1>5. wjob[w] = j => Queued(j)'
  BY <1>1, <1>2, <1>3, AddedIsQueued DEF Queued
<1> QED BY <1>4, <1>5

\* The match worker goes on with the jobs it has in hand.
LEMMA MatchAttends ==
  ASSUME GateInv, FollowInv, NEW w \in Workers, Match(w),
         NEW j \in Jobs, Live(j)', Live(j) => Attended(j), ~GivenUp(j)
  PROVE  Attended(j)'
<1>1. /\ job \in [Jobs -> Job] /\ applies \in [Jobs -> Nat] /\ approval \in [Approvals -> Approval]
      /\ wpc \in [Workers -> {"idle", "next", "load", "rank", "gate", "insert", "mark", "notify",
                              "send"}]
      /\ wcopy \in [Workers -> JobStatus] /\ wjob \in [Workers -> Jobs \cup {NoJob}]
      /\ wmsg \in [Workers -> Message] /\ topic \in Seq(Message) /\ dlq \in Seq(Message)
  BY InvTopic DEF GateInv, DocsGood, WorkersGood, GateWorkersOK
<1>2. /\ ~Crash(w) /\ ~Overtaken(w) /\ ~(wmsg[w].inline /\ HandleRaises(w))
      /\ ~(BelowThreshold(w) /\ wjob[w] = j /\ wcopy[w] = "applying")
  BY DEF GivenUp
<1>3. CASE job'[j].status # job[j].status
  <2>1. \/ \E good \in BOOLEAN : SaveScore(w, good)
        \/ MarkAwaiting(w) \/ MarkApplying(w)
    BY <1>3 DEF Match, Receive, NextNew, Load, BelowThreshold, FindPending, Insert, Notify, SendApply,
                HandleRaises, Crash
  <2>2. ~\E good \in BOOLEAN : SaveScore(w, good)
    BY <1>1, <1>2, <1>3 DEF SaveScore, SaveStatus, WGoto, Overtaken, Live
  <2>3. CASE MarkAwaiting(w)
    <3>1. wjob[w] = j /\ wpc[w] = "mark" /\ wpc'[w] = "notify" /\ UNCHANGED approval
      BY <1>1, <1>3, <2>3 DEF MarkAwaiting, SaveStatus, WGoto
    <3>2. /\ wappr[w] \in Approvals /\ approval[wappr[w]].status = "pending"
          /\ approval[wappr[w]].job = j
      BY <1>2, <3>1 DEF Overtaken, FollowInv, WorkersFollow, Marking
    <3>3. approval'[wappr[w]] = [job |-> j, status |-> "pending"]
      BY <1>1, <3>1, <3>2 DEF Approval
    <3>4. Asked(j)'
      BY <3>2, <3>3 DEF Asked, PendingOf
    <3> QED BY <3>4, AttendedParts
  <2>4. CASE MarkApplying(w)
    <3>1. wjob[w] = j /\ wjob' = wjob /\ wpc'[w] = "send" /\ job'[j].status = "applying"
      BY <1>1, <1>3, <2>4 DEF MarkApplying, SaveStatus, WGoto
    <3>2. HandledBy(w, j)'
      BY <3>1 DEF HandledBy
    <3> QED BY <3>1, <3>2, AttendedParts
  <2> QED BY <2>1, <2>2, <2>3, <2>4
<1>4. CASE Asked(j)
  BY <1>4, MatchKeepsAsked, AttendedParts
<1>5. CASE job'[j].status = job[j].status /\ ~Asked(j)
  <2>1. /\ job[j].status = "applying" /\ job'[j].status = "applying"
        /\ Queued(j) \/ \E v \in Workers : HandledBy(v, j)
    BY <1>5, AttendedParts DEF Live
  <2>2. CASE HandleRaises(w)
    <3>1. ASSUME NEW v \in Workers, v # w, HandledBy(v, j) PROVE HandledBy(v, j)'
      BY <3>1, OthersStay DEF HandledBy
    <3>2. HandledBy(w, j) => wjob[w] = j
      BY DEF HandledBy
    <3> QED BY <1>2, <2>1, <2>2, <3>1, <3>2, RaisedIsQueued, AttendedParts
  <2>3. ASSUME ~HandleRaises(w), Queued(j) PROVE Attended(j)'
    <3>1. CASE Receive(w)
      <4>1. topic # <<>> /\ topic' = Tail(topic) /\ dlq' = dlq
        BY <3>1 DEF Receive
      <4>2. CASE \E i \in DOMAIN dlq : dlq[i].job = j
        <5>1. Queued(j)'
          BY <4>1, <4>2 DEF Queued
        <5> QED BY <2>1, <5>1, AttendedParts
      <4>3. ASSUME NEW i \in DOMAIN topic, topic[i].job = j, i = 1 PROVE Attended(j)'
        <5>1. wpc'[w] = "load" /\ wjob'[w] = j
          BY <1>1, <3>1, <4>1, <4>3 DEF Receive, WGoto
        <5>2. HandledBy(w, j)'
          BY <5>1 DEF HandledBy
        <5> QED BY <2>1, <5>2, AttendedParts
      <4>4. ASSUME NEW i \in DOMAIN topic, topic[i].job = j, i # 1 PROVE Attended(j)'
        <5>1. i - 1 \in DOMAIN topic' /\ topic'[i - 1] = topic[i]
          BY <1>1, <4>1, <4>4
        <5>2. Queued(j)'
          BY <4>4, <5>1 DEF Queued
        <5> QED BY <2>1, <5>2, AttendedParts
      <4> QED BY <2>3, <4>2, <4>3, <4>4 DEF Queued
    <3>2. CASE ~Receive(w)
      <4>1. UNCHANGED <<topic, dlq>>
        BY <1>2, <2>3, <3>2 DEF Match, NextNew, Load, SaveScore, BelowThreshold, FindPending, Insert,
                                MarkAwaiting, Notify, MarkApplying, SendApply, busVars
      <4>2. Queued(j)'
        BY <2>3, <4>1 DEF Queued
      <4> QED BY <2>1, <4>2, AttendedParts
    <3> QED BY <3>1, <3>2
  <2>4. ASSUME NEW v \in Workers, v # w, HandledBy(v, j) PROVE Attended(j)'
    <3>1. HandledBy(v, j)'
      BY <2>4, OthersStay DEF HandledBy
    <3> QED BY <2>1, <3>1, AttendedParts
  <2>5. ASSUME ~HandleRaises(w), HandledBy(w, j) PROVE Attended(j)'
    <3>1. wjob[w] = j
      BY <2>5 DEF HandledBy
    <3>2. CASE Load(w)
      <4>1. wpc'[w] = "rank" /\ wcopy'[w] = "applying" /\ wjob'[w] = j
        BY <1>1, <2>1, <3>1, <3>2 DEF Load, WGoto
      <4>2. HandledBy(w, j)'
        BY <4>1 DEF HandledBy
      <4> QED BY <2>1, <4>2, AttendedParts
    <3>3. ASSUME NEW good \in BOOLEAN, SaveScore(w, good) PROVE Attended(j)'
      <4>1. wcopy[w] = "applying" /\ ~good
        BY <1>1, <2>1, <2>5, <3>1, <3>3 DEF HandledBy, SaveScore, SaveStatus
      <4>2. wpc'[w] = "gate" /\ wcopy'[w] = "applying" /\ wjob'[w] = j
        BY <1>1, <3>1, <3>3, <4>1 DEF SaveScore, WGoto
      <4>3. HandledBy(w, j)'
        BY <4>2 DEF HandledBy
      <4> QED BY <2>1, <4>3, AttendedParts
    <3>4. CASE FindPending(w)
      <4>1. PendingOf(j) = {} /\ wcopy[w] = "applying"
        BY <1>5, <2>5, <3>4 DEF Asked, HandledBy, FindPending
      <4>2. wpc'[w] = "insert" /\ wcopy'[w] = "applying" /\ wjob'[w] = j
        BY <1>1, <3>1, <3>4, <4>1 DEF FindPending, WGoto
      <4>3. HandledBy(w, j)'
        BY <4>2 DEF HandledBy
      <4> QED BY <2>1, <4>3, AttendedParts
    <3>5. ASSUME NEW a \in Approvals, Insert(w, a) PROVE Attended(j)'
      <4>1. approval'[a] = [job |-> j, status |-> "pending"]
        BY <1>1, <3>1, <3>5 DEF Insert
      <4>2. Asked(j)'
        BY <4>1 DEF Asked, PendingOf
      <4> QED BY <4>2, AttendedParts
    <3>6. CASE MarkApplying(w)
      <4>1. wpc'[w] = "send" /\ wjob'[w] = j
        BY <1>1, <3>1, <3>6 DEF MarkApplying, WGoto
      <4>2. HandledBy(w, j)'
        BY <4>1 DEF HandledBy
      <4> QED BY <2>1, <4>2, AttendedParts
    <3>7. CASE SendApply(w)
      <4>1. applies'[j] > 0
        BY <1>1, <3>1, <3>7 DEF SendApply
      <4>2. Asked(j)'
        BY <4>1 DEF Asked
      <4> QED BY <4>2, AttendedParts
    <3>8. /\ ~Receive(w) /\ ~MarkAwaiting(w) /\ ~Notify(w) /\ ~BelowThreshold(w)
          /\ ~\E k \in Jobs : NextNew(w, k)
      BY <1>2, <2>5, <3>1 DEF HandledBy, Receive, MarkAwaiting, Notify, BelowThreshold, NextNew
    <3> QED BY <1>2, <2>5, <3>2, <3>3, <3>4, <3>5, <3>6, <3>7, <3>8 DEF Match
  <2> QED BY <2>1, <2>2, <2>3, <2>4, <2>5
<1> QED BY <1>3, <1>4, <1>5

\* A request that decides goes on to the application.
LEMMA ServeAttends ==
  ASSUME GateInv, FollowInv, NEW c \in Clients, Serve(c),
         NEW j \in Jobs, Live(j)', Live(j) => Attended(j), ~GivenUp(j)
  PROVE  Attended(j)'
<1>1. /\ job \in [Jobs -> Job] /\ applies \in [Jobs -> Nat] /\ approval \in [Approvals -> Approval]
      /\ cpc \in [Clients -> {"idle", "batch", "limit", "save", "job", "publish"}]
      /\ cappr \in [Clients -> Approvals \cup {NoApproval}]
      /\ cpc[c] \in Deciding => cappr[c] \in Approvals
  BY DEF GateInv, DocsGood, RequestsGood, DecisionsOK
<1>2. ~PublishFails(c) /\ ~DecideBreaks(c)
  BY DEF GivenUp
<1>3. /\ UNCHANGED <<topic, dlq, workerVars>>
      /\ \A a \in Approvals : approval'[a].job = approval[a].job
      /\ ~SaveDecision(c) => approval' = approval
      /\ applies' = applies \/ applies' = [applies EXCEPT ![JobOf(c)] = @ + 1]
      /\ \A d \in Clients : d # c => cpc'[d] = cpc[d] /\ cappr'[d] = cappr[d]
  <2>1. UNCHANGED <<topic, dlq, workerVars>>
    BY DEF Serve, Decide, Batch, BatchNext, BatchEnds, CheckLimit, SaveDecision, SaveJob,
           PublishJobApply, PublishFails, DecideBreaks, busVars
  <2>2. ~SaveDecision(c) => approval' = approval
    BY DEF Serve, Decide, Batch, BatchNext, BatchEnds, CheckLimit, SaveJob, PublishJobApply,
           PublishFails, DecideBreaks
  <2>3. \A a \in Approvals : approval'[a].job = approval[a].job
    BY <1>1, <2>2 DEF SaveDecision, Approval
  <2>4. applies' = applies \/ applies' = [applies EXCEPT ![JobOf(c)] = @ + 1]
    BY DEF Serve, Decide, Batch, BatchNext, BatchEnds, CheckLimit, SaveDecision, SaveJob,
           PublishJobApply, PublishFails, DecideBreaks
  <2>5. \A d \in Clients : d # c => cpc'[d] = cpc[d] /\ cappr'[d] = cappr[d]
    BY <1>1 DEF Serve, Decide, Batch, Begin, BatchNext, BatchEnds, CheckLimit, SaveDecision, SaveJob,
           PublishJobApply, PublishFails, DecideBreaks, Decided, Reply, CGoto
  <2> QED BY <2>1, <2>2, <2>3, <2>4, <2>5
<1>4. CASE SaveJob(c) /\ JobOf(c) = j
  <2>1. cpc[c] = "job" /\ job'[j].status = cverdict[c] /\ cappr[c] \in Approvals
    BY <1>1, <1>4 DEF SaveJob, SaveStatus, Deciding
  <2>2. cverdict[c] = "approved"
    BY <2>1 DEF Live, GateInv, RequestsGood, DecisionsOK, Verdicts
  <2>3. cpc'[c] = "publish" /\ cappr' = cappr /\ approval'[cappr[c]].job = j
    BY <1>1, <1>3, <1>4, <2>1, <2>2 DEF SaveJob, CGoto, JobOf
  <2>4. Asked(j)'
    BY <2>3 DEF Asked, DecidedBy, JobOf
  <2> QED BY <2>4, AttendedParts
<1>5. CASE ~(SaveJob(c) /\ JobOf(c) = j)
  <2>1. job'[j] = job[j]
    BY <1>1, <1>5 DEF Serve, Decide, Batch, BatchNext, BatchEnds, CheckLimit, SaveDecision, SaveJob,
           PublishJobApply, PublishFails, DecideBreaks, SaveStatus
  <2>2. Attended(j)
    BY <2>1 DEF Live
  <2>3. CASE /\ job[j].status = "applying"
             /\ Queued(j) \/ \E w \in Workers : HandledBy(w, j)
    <3>1. Queued(j)' \/ \E w \in Workers : HandledBy(w, j)'
      BY <1>3, <2>3 DEF Queued, HandledBy, workerVars
    <3> QED BY <2>1, <2>3, <3>1, AttendedParts
  <2>4. ASSUME NEW b \in PendingOf(j) PROVE Attended(j)'
    <3>1. CASE SaveDecision(c) /\ b = cappr[c]
      <4>1. cpc'[c] = "job" /\ cappr'[c] = b /\ approval'[b].job = j
        BY <1>1, <1>3, <3>1 DEF SaveDecision, CGoto, PendingOf
      <4>2. Asked(j)'
        BY <4>1 DEF Asked, DecidedBy, JobOf
      <4> QED BY <4>2, AttendedParts
    <3>2. CASE ~(SaveDecision(c) /\ b = cappr[c])
      <4>1. b \in Approvals /\ approval'[b] = approval[b]
        BY <1>1, <1>3, <3>2 DEF SaveDecision, PendingOf
      <4>2. Asked(j)'
        BY <4>1 DEF Asked, PendingOf
      <4> QED BY <4>2, AttendedParts
    <3> QED BY <3>1, <3>2
  <2>5. CASE applies[j] > 0
    <3>1. applies'[j] > 0
      BY <1>1, <1>3, <2>5
    <3> QED BY <3>1, AttendedParts DEF Asked
  <2>6. ASSUME NEW d \in Clients, DecidedBy(d, j) PROVE Attended(j)'
    <3>1. cappr[d] \in Approvals /\ cpc[d] \in {"job", "publish"} /\ approval[cappr[d]].job = j
      BY <2>6 DEF DecidedBy, JobOf, Deciding, GateInv, RequestsGood
    <3>2. CASE d # c
      <4>1. cpc'[d] = cpc[d] /\ cappr'[d] = cappr[d] /\ approval'[cappr[d]].job = j
        BY <1>3, <3>1, <3>2
      <4>2. Asked(j)'
        BY <3>1, <4>1 DEF Asked, DecidedBy, JobOf
      <4> QED BY <4>2, AttendedParts
    <3>3. CASE d = c
      <4>1. PublishJobApply(c)
        BY <1>2, <1>5, <3>1, <3>3 DEF JobOf, Serve, Decide, Batch, Begin, BatchNext, BatchEnds, CheckLimit,
                                      SaveDecision, SaveJob
      <4>2. applies'[j] > 0
        BY <1>1, <3>1, <3>3, <4>1 DEF PublishJobApply, JobOf
      <4> QED BY <4>2, AttendedParts DEF Asked
    <3> QED BY <3>2, <3>3
  <2>7. \/ PendingOf(j) # {}
        \/ \E d \in Clients : DecidedBy(d, j)
        \/ applies[j] > 0
        \/ /\ job[j].status = "applying"
           /\ Queued(j) \/ \E w \in Workers : HandledBy(w, j)
    BY <2>2, AttendedParts DEF Asked
  <2> QED BY <2>3, <2>4, <2>5, <2>6, <2>7
<1> QED BY <1>4, <1>5

\* The apply worker leaves the other jobs alone.
LEMMA ApplyAttends ==
  ASSUME GateInv, Apply \/ CooldownEnds,
         NEW j \in Jobs, Live(j)', Live(j) => Attended(j), ~GivenUp(j)
  PROVE  Attended(j)'
<1>1. UNCHANGED <<approval, topic, dlq, workerVars, cpc, cappr>>
  BY DEF Apply, Applied, CooldownEnds, busVars, clientVars
<1>2. applies'[j] = applies[j] /\ job'[j] = job[j]
  <2>1. ASSUME NEW k \in Jobs, NEW o, Applied(k, o)
        PROVE  applies'[j] = applies[j] /\ job'[j] = job[j]
    <3>1. k # j
      <4>1. SUFFICES ASSUME k = j PROVE FALSE
        OBVIOUS
      <4>2. applies[j] \in Nat /\ applies'[j] = applies[j] - 1
        BY <2>1, <4>1 DEF Applied, GateInv, DocsGood
      <4>3. applies'[j] < applies[j]
        BY <4>2
      <4> QED BY <4>3 DEF GivenUp
    <3> QED BY <2>1, <3>1 DEF Applied, SaveStatus, GateInv, DocsGood
  <2> QED BY <2>1 DEF Apply, CooldownEnds
<1>3. Attended(j)
  BY <1>2 DEF Live
<1> QED
  BY <1>1, <1>2, <1>3 DEF Attended, PendingOf, DecidedBy, JobOf, HandledBy, workerVars

\* A job shown as awaiting a decision, approved or being applied for has somebody who
\* brings it further, for any number of jobs, approvals, workers and requests, and
\* whatever the settings, the deployment and the faults; the exceptions are those
\* that NoForgottenJob names.
THEOREM NoJobIsForgotten == Spec => NoForgottenJob
<1> DEFINE Noticed == \A j \in Jobs : Forgotten(j)' => Forgotten(j) \/ GivenUp(j)
<1>1. GateInv /\ FollowInv /\ [Next]_vars => [Noticed]_vars
  <2> SUFFICES ASSUME GateInv, FollowInv, Next, NEW j \in Jobs, Forgotten(j)', ~Forgotten(j),
                      ~GivenUp(j)
               PROVE  FALSE
    OBVIOUS
  <2>1. Live(j)' /\ ~Attended(j)' /\ (Live(j) => Attended(j))
    BY DEF Forgotten, Live
  <2> QED BY <2>1, FoundAttends, MatchAttends, ServeAttends, ApplyAttends DEF Next
<1>2. Init => GateInv /\ FollowInv
  BY InitGood, FollowInit
<1>3. GateInv /\ FollowInv /\ [Next]_vars => GateInv' /\ FollowInv'
  BY StepGood, FollowStep
<1> QED BY <1>1, <1>2, <1>3, PTL DEF Spec, NoForgottenJob

=============================================================================
