---------------------------- MODULE ApprovalGate ----------------------------
(***************************************************************************)
(* From a job that was found to the decision to apply for it, for one      *)
(* user: the match worker, which scores a job and asks for approval        *)
(* (MatchWorker, ApprovalService.enqueue), the job.match topic with its    *)
(* retry rule, "Run match" (AutomationService.run), and the requests that  *)
(* decide, one approval or a batch (ApprovalService.decide, batch_decide). *)
(*                                                                         *)
(* A job and its approval are two documents, saved one after the other and *)
(* whole.  The worker holds its copy of the job while it is scored.  What  *)
(* the apply worker does with a published job is one step here and has its *)
(* own module, ApplyPipeline.                                              *)
(***************************************************************************)
EXTENDS Integers, Sequences, FiniteSets

CONSTANTS
  Jobs,               \* jobs that may be found
  Approvals,          \* ids of approvals
  Workers,            \* processes and tasks that run MatchWorker.handle
  Clients,            \* API requests that may be in progress at a time
  NoJob, NoApproval,  \* absent references
  Modes,              \* what the settings may say: "gate" asks, "auto" applies at once
  Deliveries,         \* what a publish may do: "kafka" sends, "inline" starts a task
  Faults,             \* which of "raise", "crash", "outage" may happen
  MaxHandleAttempts,  \* BaseWorker.max_handle_attempts
  DailyCap,           \* max_applications_per_day, also the size of a batch
  MaxRequests         \* bound: requests made

ASSUME GateAssumption ==
  /\ NoJob \notin Jobs /\ NoApproval \notin Approvals
  /\ IsFiniteSet(Approvals) /\ IsFiniteSet(Workers) /\ IsFiniteSet(Clients)
  /\ MaxHandleAttempts \in Nat \ {0}
  /\ DailyCap \in Nat \ {0}
  /\ MaxRequests \in Nat

VARIABLES
  job,        \* jobs collection: status, and whether the job has been scored
  approval,   \* approvals collection: the job it is for, and its status
  topic, dlq, \* messages of job.match waiting, oldest first; dead letters
  applies,    \* per job, messages of job.apply not yet handled
  sent,       \* per approval, messages of job.apply published with its id
  spent, cooling,  \* applications submitted today; whether the cooldown runs
  wpc, wmsg, wtodo, wjob, wcopy, wappr,  \* per match worker: position, message, jobs
              \* still to do, the one at hand, its status in the copy, the new approval
  cpc, cverdict, cappr, ctodo, cdone, requests  \* per request: position, verdict, approval
              \* at hand, those still to do, those decided; requests made

busVars    == <<topic, dlq>>
limitVars  == <<spent, cooling>>
workerVars == <<wpc, wmsg, wtodo, wjob, wcopy, wappr>>
clientVars == <<cpc, cverdict, cappr, ctodo, cdone, requests>>
vars == <<job, approval, topic, dlq, applies, sent, spent, cooling,
          wpc, wmsg, wtodo, wjob, wcopy, wappr, cpc, cverdict, cappr, ctodo, cdone, requests>>

-----------------------------------------------------------------------------
(* Documents and messages.                                                 *)

\* "none": not found yet.
JobStatus == {"none", "new", "matched", "awaiting", "approved", "applying", "applied",
              "failed", "rejected"}
Job       == [status : JobStatus, scored : BOOLEAN]

Verdicts == {"approved", "rejected"}
Approval == [job : Jobs \cup {NoJob}, status : {"none", "pending"} \cup Verdicts]
NoRecord == [job |-> NoJob, status |-> "none"]

\* inline: a task of the API or of the fetch worker, nobody will retry it.
Message == [job : Jobs \cup {NoJob}, inline : BOOLEAN, attempts : 0..MaxHandleAttempts]
NoMsg   == [job |-> NoJob, inline |-> FALSE, attempts |-> 0]
MatchOf(j, inline) == [job |-> j, inline |-> inline, attempts |-> 0]

PendingOf(j) == {a \in Approvals : approval[a] = [job |-> j, status |-> "pending"]}
NewJobs      == {j \in Jobs : job[j].status = "new"}
JobOf(c)     == approval[cappr[c]].job

\* job.save() of a copy that was scored.
SaveStatus(j, status) == job' = [job EXCEPT ![j] = [status |-> status, scored |-> TRUE]]

-----------------------------------------------------------------------------
(* Matches are asked for.                                                  *)

\* asyncio.create_task or await of the handler, on the jobs of todo.
StartInline(w, j, todo) ==
  /\ wpc[w] = "idle"
  /\ wmsg' = [wmsg EXCEPT ![w] = MatchOf(j, TRUE)]
  /\ wjob' = [wjob EXCEPT ![w] = j]
  /\ wtodo' = [wtodo EXCEPT ![w] = todo]
  /\ wpc' = [wpc EXCEPT ![w] = IF j = NoJob THEN "next" ELSE "load"]
  /\ UNCHANGED <<wcopy, wappr>>

\* publish_job_match.
PublishJobMatch(j) ==
  \/ /\ "kafka" \in Deliveries
     /\ topic' = Append(topic, MatchOf(j, FALSE))
     /\ UNCHANGED <<dlq, workerVars>>
  \/ /\ "inline" \in Deliveries
     /\ \E w \in Workers : StartInline(w, j, {})
     /\ UNCHANGED busVars

\* The fetch worker or the extension inserts a job.  A failing publish is logged, or
\* shown by the extension; the job stays.
Found(j) ==
  /\ job[j].status = "none"
  /\ job' = [job EXCEPT ![j] = [status |-> "new", scored |-> FALSE]]
  /\ \/ PublishJobMatch(j)
     \/ "outage" \in Faults /\ UNCHANGED <<busVars, workerVars>>
  /\ UNCHANGED <<approval, applies, sent, limitVars, clientVars>>

\* "Run match": the message names no job; a task is given the jobs that are new.
RunMatch ==
  /\ requests < MaxRequests
  /\ requests' = requests + 1
  /\ \/ /\ "kafka" \in Deliveries
        /\ topic' = Append(topic, MatchOf(NoJob, FALSE))
        /\ UNCHANGED <<dlq, workerVars>>
     \/ /\ "inline" \in Deliveries
        /\ NewJobs # {}
        /\ \E w \in Workers : StartInline(w, NoJob, NewJobs)
        /\ UNCHANGED busVars
  /\ UNCHANGED <<job, approval, applies, sent, limitVars, cpc, cverdict, cappr, ctodo, cdone>>

-----------------------------------------------------------------------------
(* MatchWorker.handle.                                                     *)

WGoto(w, pc) == wpc' = [wpc EXCEPT ![w] = pc]

\* The job is done with; a task for all new jobs goes on with the next.
Done(w) ==
  /\ wpc' = [wpc EXCEPT ![w] = IF wtodo[w] = {} THEN "idle" ELSE "next"]
  /\ wmsg' = [wmsg EXCEPT ![w] = IF wtodo[w] = {} THEN NoMsg ELSE @]
  /\ wjob' = [wjob EXCEPT ![w] = NoJob]
  /\ wappr' = [wappr EXCEPT ![w] = NoApproval]
  /\ wcopy' = [wcopy EXCEPT ![w] = "none"]
  /\ UNCHANGED wtodo

\* The handler has raised: what is left to do is not done.
Drop(w) ==
  /\ wpc' = [wpc EXCEPT ![w] = "idle"]
  /\ wmsg' = [wmsg EXCEPT ![w] = NoMsg]
  /\ wjob' = [wjob EXCEPT ![w] = NoJob]
  /\ wappr' = [wappr EXCEPT ![w] = NoApproval]
  /\ wcopy' = [wcopy EXCEPT ![w] = "none"]
  /\ wtodo' = [wtodo EXCEPT ![w] = {}]

Receive(w) ==
  /\ wpc[w] = "idle"
  /\ topic # <<>>
  /\ topic' = Tail(topic)
  /\ wmsg' = [wmsg EXCEPT ![w] = Head(topic)]
  /\ wjob' = [wjob EXCEPT ![w] = Head(topic).job]
  /\ WGoto(w, "load")
  /\ UNCHANGED <<job, approval, dlq, applies, sent, limitVars, wtodo, wcopy, wappr, clientVars>>

NextNew(w, j) ==
  /\ wpc[w] = "next"
  /\ j \in wtodo[w]
  /\ wtodo' = [wtodo EXCEPT ![w] = @ \ {j}]
  /\ wjob' = [wjob EXCEPT ![w] = j]
  /\ WGoto(w, "load")
  /\ UNCHANGED <<job, approval, busVars, applies, sent, limitVars, wmsg, wcopy, wappr, clientVars>>

Load(w) ==
  /\ wpc[w] = "load"
  /\ wjob[w] # NoJob
  /\ wcopy' = [wcopy EXCEPT ![w] = job[wjob[w]].status]
  /\ WGoto(w, "rank")
  /\ UNCHANGED <<job, approval, busVars, applies, sent, limitVars, wmsg, wtodo, wjob, wappr,
                 clientVars>>

\* match_job: a good score shows as matched, another leaves the status of the copy.
SaveScore(w, good) ==
  LET status == IF good THEN "matched" ELSE wcopy[w]
  IN  /\ wpc[w] = "rank"
      /\ SaveStatus(wjob[w], status)
      /\ wcopy' = [wcopy EXCEPT ![w] = status]
      /\ WGoto(w, "gate")
      /\ UNCHANGED <<approval, busVars, applies, sent, limitVars, wmsg, wtodo, wjob, wappr,
                     clientVars>>

BelowThreshold(w) ==
  /\ wpc[w] = "gate"
  /\ Done(w)
  /\ UNCHANGED <<job, approval, busVars, applies, sent, limitVars, clientVars>>

\* Mutant: an approval is added whether one is pending or not.
FindNoPending(w) ==
  /\ wpc[w] = "gate" /\ "gate" \in Modes
  /\ WGoto(w, "insert")
  /\ UNCHANGED <<job, approval, busVars, applies, sent, limitVars, wmsg, wtodo, wjob, wcopy,
                 wappr, clientVars>>

\* enqueue() looks for a pending approval ...
FindPending(w) ==
  /\ wpc[w] = "gate" /\ "gate" \in Modes
  /\ IF PendingOf(wjob[w]) # {}
     THEN Done(w)
     ELSE /\ WGoto(w, "insert")
          /\ UNCHANGED <<wmsg, wtodo, wjob, wcopy, wappr>>
  /\ UNCHANGED <<job, approval, busVars, applies, sent, limitVars, clientVars>>

\* Mutant: the job is shown as awaiting approval before the approval is there.
InsertLate(w, a) ==
  /\ wpc[w] = "insert"
  /\ approval[a].status = "none"
  /\ wappr' = [wappr EXCEPT ![w] = a]
  /\ SaveStatus(wjob[w], "awaiting")
  /\ WGoto(w, "mark")
  /\ UNCHANGED <<approval, busVars, applies, sent, limitVars, wmsg, wtodo, wjob, wcopy,
                 clientVars>>

\* ... and inserts one.
Insert(w, a) ==
  /\ wpc[w] = "insert"
  /\ approval[a].status = "none"
  /\ approval' = [approval EXCEPT ![a] = [job |-> wjob[w], status |-> "pending"]]
  /\ wappr' = [wappr EXCEPT ![w] = a]
  /\ WGoto(w, "mark")
  /\ UNCHANGED <<job, busVars, applies, sent, limitVars, wmsg, wtodo, wjob, wcopy, clientVars>>

MarkAwaiting(w) ==
  /\ wpc[w] = "mark"
  /\ SaveStatus(wjob[w], "awaiting")
  /\ WGoto(w, "notify")
  /\ UNCHANGED <<approval, busVars, applies, sent, limitVars, wmsg, wtodo, wjob, wcopy, wappr,
                 clientVars>>

\* The notification goes through Kafka: without it, dispatch() raises.
Notify(w) ==
  /\ wpc[w] = "notify" /\ "kafka" \in Deliveries
  /\ Done(w)
  /\ UNCHANGED <<job, approval, busVars, applies, sent, limitVars, clientVars>>

\* auto_apply without require_approval.
MarkApplying(w) ==
  /\ wpc[w] = "gate" /\ "auto" \in Modes
  /\ SaveStatus(wjob[w], "applying")
  /\ WGoto(w, "send")
  /\ UNCHANGED <<approval, busVars, applies, sent, limitVars, wmsg, wtodo, wjob, wcopy, wappr,
                 clientVars>>

SendApply(w) ==
  /\ wpc[w] = "send"
  /\ applies' = [applies EXCEPT ![wjob[w]] = @ + 1]
  /\ Done(w)
  /\ UNCHANGED <<job, approval, busVars, sent, limitVars, clientVars>>

\* An await raises: always without a job, and without Kafka at the notification.
CanRaise(w) ==
  \/ wpc[w] = "load" /\ wjob[w] = NoJob
  \/ wpc[w] = "notify" /\ "inline" \in Deliveries
  \/ wpc[w] = "send" /\ "outage" \in Faults
  \/ wpc[w] \notin {"idle", "next"} /\ "raise" \in Faults

Counted(m) == [m EXCEPT !.attempts = @ + 1]

\* Mutant: one more attempt than max_handle_attempts.
RouteFailureLate(m) ==
  \/ m.attempts + 1 > MaxHandleAttempts /\ dlq' = Append(dlq, Counted(m)) /\ UNCHANGED topic
  \/ m.attempts + 1 <= MaxHandleAttempts /\ topic' = Append(topic, Counted(m)) /\ UNCHANGED dlq

\* BaseWorker._route_failure.
RouteFailure(m) ==
  \/ m.attempts + 1 >= MaxHandleAttempts /\ dlq' = Append(dlq, Counted(m)) /\ UNCHANGED topic
  \/ m.attempts + 1 < MaxHandleAttempts /\ topic' = Append(topic, Counted(m)) /\ UNCHANGED dlq

\* A send that only timed out may yet reach the broker.
TimedOut == "outage" \in Faults /\ "kafka" \in Deliveries

HandleRaises(w) ==
  /\ CanRaise(w)
  /\ \/ UNCHANGED applies
     \/ TimedOut /\ wpc[w] = "send" /\ applies' = [applies EXCEPT ![wjob[w]] = @ + 1]
  /\ IF wmsg[w].inline THEN UNCHANGED busVars ELSE RouteFailure(wmsg[w])
  /\ Drop(w)
  /\ UNCHANGED <<job, approval, sent, limitVars, clientVars>>

\* The process dies; its message is lost or, with Kafka, delivered again.
Crash(w) ==
  /\ "crash" \in Faults
  /\ wpc[w] # "idle"
  /\ Drop(w)
  /\ \/ UNCHANGED busVars
     \/ ~wmsg[w].inline /\ topic' = <<wmsg[w]>> \o topic /\ UNCHANGED dlq
  /\ UNCHANGED <<job, approval, applies, sent, limitVars, clientVars>>

-----------------------------------------------------------------------------
(* ApprovalService.decide and batch_decide.                                *)

CGoto(c, pc) == cpc' = [cpc EXCEPT ![c] = pc]

Reply(c) ==
  /\ CGoto(c, "idle")
  /\ cverdict' = [cverdict EXCEPT ![c] = "none"]
  /\ cappr' = [cappr EXCEPT ![c] = NoApproval]
  /\ ctodo' = [ctodo EXCEPT ![c] = {}]
  /\ cdone' = [cdone EXCEPT ![c] = 0]
  /\ UNCHANGED requests

\* decide() is over: a batch that has approvals left goes on, counting this one.
Decided(c, n) ==
  IF ctodo[c] = {}
  THEN Reply(c)
  ELSE /\ CGoto(c, "batch")
       /\ cappr' = [cappr EXCEPT ![c] = NoApproval]
       /\ cdone' = [cdone EXCEPT ![c] = @ + n]
       /\ UNCHANGED <<cverdict, ctodo, requests>>

Begin(c, verdict) ==
  /\ cpc[c] = "idle"
  /\ requests < MaxRequests
  /\ requests' = requests + 1
  /\ cverdict' = [cverdict EXCEPT ![c] = verdict]

\* The limiter is asked only for an approval.
AfterLook(verdict) == IF verdict = "approved" THEN "limit" ELSE "save"

\* Mutant: an approval that was decided may be decided again.
DecideAgain(c, a, verdict) ==
  /\ approval[a].status # "none"
  /\ Begin(c, verdict)
  /\ CGoto(c, AfterLook(verdict))
  /\ cappr' = [cappr EXCEPT ![c] = a]
  /\ UNCHANGED <<job, approval, busVars, applies, sent, limitVars, workerVars, ctodo, cdone>>

\* An approval already decided is refused.
Decide(c, a, verdict) ==
  /\ approval[a].status = "pending"
  /\ Begin(c, verdict)
  /\ CGoto(c, AfterLook(verdict))
  /\ cappr' = [cappr EXCEPT ![c] = a]
  /\ UNCHANGED <<job, approval, busVars, applies, sent, limitVars, workerVars, ctodo, cdone>>

\* The pending approvals are listed once; ids, score and portal select among them.
Batch(c, as, verdict) ==
  /\ as # {} /\ \A a \in as : approval[a].status = "pending"
  /\ Begin(c, verdict)
  /\ CGoto(c, "batch")
  /\ ctodo' = [ctodo EXCEPT ![c] = as]
  /\ UNCHANGED <<job, approval, busVars, applies, sent, limitVars, workerVars, cappr, cdone>>

\* The next of the list, read again by decide(); one decided meanwhile is skipped.
BatchNext(c, a) ==
  /\ cpc[c] = "batch" /\ a \in ctodo[c]
  /\ cdone[c] < DailyCap
  /\ ctodo' = [ctodo EXCEPT ![c] = @ \ {a}]
  /\ IF approval[a].status = "pending"
     THEN CGoto(c, AfterLook(cverdict[c])) /\ cappr' = [cappr EXCEPT ![c] = a]
     ELSE UNCHANGED <<cpc, cappr>>
  /\ UNCHANGED <<job, approval, busVars, applies, sent, limitVars, workerVars, cverdict, cdone,
                 requests>>

BatchEnds(c) ==
  /\ cpc[c] = "batch"
  /\ ctodo[c] = {} \/ cdone[c] >= DailyCap
  /\ Reply(c)
  /\ UNCHANGED <<job, approval, busVars, applies, sent, limitVars, workerVars>>

\* ApplyRateLimiter.check.  RateLimitError ends a batch, too.
CheckLimit(c) ==
  /\ cpc[c] = "limit"
  /\ IF spent < DailyCap /\ ~cooling
     THEN CGoto(c, "save") /\ UNCHANGED <<cverdict, cappr, ctodo, cdone, requests>>
     ELSE Reply(c)
  /\ UNCHANGED <<job, approval, busVars, applies, sent, limitVars, workerVars>>

SaveDecision(c) ==
  /\ cpc[c] = "save"
  /\ approval' = [approval EXCEPT ![cappr[c]].status = cverdict[c]]
  /\ CGoto(c, "job")
  /\ UNCHANGED <<job, busVars, applies, sent, limitVars, workerVars, cverdict, cappr, ctodo,
                 cdone, requests>>

SaveJob(c) ==
  /\ cpc[c] = "job"
  /\ SaveStatus(JobOf(c), cverdict[c])
  /\ IF cverdict[c] = "approved"
     THEN CGoto(c, "publish") /\ UNCHANGED <<cverdict, cappr, ctodo, cdone, requests>>
     ELSE Decided(c, 1)
  /\ UNCHANGED <<approval, busVars, applies, sent, limitVars, workerVars>>

PublishJobApply(c) ==
  /\ cpc[c] = "publish"
  /\ applies' = [applies EXCEPT ![JobOf(c)] = @ + 1]
  /\ sent' = [sent EXCEPT ![cappr[c]] = @ + 1]
  /\ Decided(c, 1)
  /\ UNCHANGED <<job, approval, busVars, limitVars, workerVars>>

\* No broker, no browser: the request fails and everything saved stays.  A batch
\* skips the approval.
PublishFails(c) ==
  /\ "outage" \in Faults
  /\ cpc[c] = "publish"
  /\ \/ UNCHANGED <<applies, sent>>
     \/ /\ TimedOut
        /\ applies' = [applies EXCEPT ![JobOf(c)] = @ + 1]
        /\ sent' = [sent EXCEPT ![cappr[c]] = @ + 1]
  /\ Decided(c, 0)
  /\ UNCHANGED <<job, approval, busVars, limitVars, workerVars>>

\* The job cannot be saved: the approval is decided and the job is not.
DecideBreaks(c) ==
  /\ "raise" \in Faults
  /\ cpc[c] = "job"
  /\ Decided(c, 0)
  /\ UNCHANGED <<job, approval, busVars, applies, sent, limitVars, workerVars>>

-----------------------------------------------------------------------------
(* ApplyWorker.handle, in one step, and the clock.                         *)

\* Submitted or failed; paused for an answer; or put off by the limiter, which leaves
\* the job as it is.
Applied(j, outcome) ==
  /\ applies[j] > 0
  /\ applies' = [applies EXCEPT ![j] = @ - 1]
  /\ \/ /\ outcome = "applied" /\ spent < DailyCap /\ ~cooling
        /\ spent' = spent + 1 /\ cooling' = TRUE
        /\ SaveStatus(j, outcome)
     \/ /\ outcome \in {"applying", "failed"}
        /\ SaveStatus(j, outcome)
        /\ UNCHANGED limitVars
     \/ /\ outcome = "put off"
        /\ UNCHANGED <<job, limitVars>>
  /\ UNCHANGED <<approval, busVars, sent, workerVars, clientVars>>

CooldownEnds ==
  /\ cooling
  /\ cooling' = FALSE
  /\ UNCHANGED <<job, approval, busVars, applies, sent, spent, workerVars, clientVars>>

-----------------------------------------------------------------------------

Init ==
  /\ job = [j \in Jobs |-> [status |-> "none", scored |-> FALSE]]
  /\ approval = [a \in Approvals |-> NoRecord]
  /\ topic = <<>> /\ dlq = <<>>
  /\ applies = [j \in Jobs |-> 0] /\ sent = [a \in Approvals |-> 0]
  /\ spent = 0 /\ cooling = FALSE
  /\ wpc = [w \in Workers |-> "idle"]
  /\ wmsg = [w \in Workers |-> NoMsg]
  /\ wtodo = [w \in Workers |-> {}]
  /\ wjob = [w \in Workers |-> NoJob]
  /\ wcopy = [w \in Workers |-> "none"]
  /\ wappr = [w \in Workers |-> NoApproval]
  /\ cpc = [c \in Clients |-> "idle"]
  /\ cverdict = [c \in Clients |-> "none"]
  /\ cappr = [c \in Clients |-> NoApproval]
  /\ ctodo = [c \in Clients |-> {}]
  /\ cdone = [c \in Clients |-> 0]
  /\ requests = 0

Match(w) ==
  \/ Receive(w)
  \/ \E j \in Jobs : NextNew(w, j)
  \/ Load(w) \/ \E good \in BOOLEAN : SaveScore(w, good)
  \/ BelowThreshold(w) \/ FindPending(w) \/ \E a \in Approvals : Insert(w, a)
  \/ MarkAwaiting(w) \/ Notify(w) \/ MarkApplying(w) \/ SendApply(w)
  \/ HandleRaises(w) \/ Crash(w)

Serve(c) ==
  \/ \E v \in Verdicts : \/ \E a \in Approvals : Decide(c, a, v)
                         \/ \E as \in SUBSET Approvals : Batch(c, as, v)
  \/ \E a \in Approvals : BatchNext(c, a)
  \/ BatchEnds(c) \/ CheckLimit(c) \/ SaveDecision(c) \/ SaveJob(c)
  \/ PublishJobApply(c) \/ PublishFails(c) \/ DecideBreaks(c)

Apply == \E j \in Jobs, o \in {"applied", "failed", "applying", "put off"} : Applied(j, o)

Next ==
  \/ \E j \in Jobs : Found(j)
  \/ RunMatch
  \/ \E w \in Workers : Match(w)
  \/ \E c \in Clients : Serve(c)
  \/ Apply
  \/ CooldownEnds

Spec == Init /\ [][Next]_vars

-----------------------------------------------------------------------------
(* Properties.                                                             *)

GateWorkersOK ==
  /\ wpc \in [Workers -> {"idle", "next", "load", "rank", "gate", "insert", "mark", "notify",
                          "send"}]
  /\ wmsg \in [Workers -> Message]
  /\ wtodo \in [Workers -> SUBSET Jobs]
  /\ wjob \in [Workers -> Jobs \cup {NoJob}]
  /\ wcopy \in [Workers -> JobStatus]
  /\ wappr \in [Workers -> Approvals \cup {NoApproval}]

DecisionsOK ==
  /\ cpc \in [Clients -> {"idle", "batch", "limit", "save", "job", "publish"}]
  /\ cverdict \in [Clients -> Verdicts \cup {"none"}]
  /\ cappr \in [Clients -> Approvals \cup {NoApproval}]
  /\ ctodo \in [Clients -> SUBSET Approvals]
  /\ cdone \in [Clients -> 0..DailyCap]
  /\ requests \in 0..MaxRequests

\* Every document, message and local is of its type: no message has failed more than
\* MaxHandleAttempts times and no batch decides more than it may.
TypeOK ==
  /\ job \in [Jobs -> Job] /\ approval \in [Approvals -> Approval]
  /\ topic \in Seq(Message) /\ dlq \in Seq(Message)
  /\ applies \in [Jobs -> Nat] /\ sent \in [Approvals -> Nat]
  /\ spent \in 0..DailyCap /\ cooling \in BOOLEAN
  /\ GateWorkersOK /\ DecisionsOK

\* The user is not asked about a job twice: it has at most one pending approval, or,
\* when workers handle messages about it at the same time, one for each of them.
\* enqueue() looks and inserts in two steps.
AskedOnce == \A j \in Jobs : Cardinality(PendingOf(j)) <= Cardinality(Workers)

\* An approval leads to one application: one message to the apply worker, or, when
\* requests that have all found it pending overlap, one for each of them.
ActedOnOnce == \A a \in Approvals : sent[a] <= Cardinality(Clients)

\* Somebody is going to bring job j further: an approval can be given, a request is
\* deciding, the apply worker has a message; a job applied for without approval is at
\* hand, will be handled again, or is shown in the dead letters.
DecidedBy(c, j) == cpc[c] \in {"job", "publish"} /\ JobOf(c) = j

HandledBy(w, j) ==
  /\ wjob[w] = j
  /\ \/ wpc[w] \in {"load", "send"}
     \/ wpc[w] \in {"rank", "gate", "insert"} /\ wcopy[w] = "applying"

Attended(j) ==
  \/ PendingOf(j) # {}
  \/ \E c \in Clients : DecidedBy(c, j)
  \/ applies[j] > 0
  \/ job[j].status = "applying" /\ \/ \E w \in Workers : HandledBy(w, j)
                                   \/ \E i \in DOMAIN topic : topic[i].job = j
                                   \/ \E i \in DOMAIN dlq : dlq[i].job = j

Forgotten(j) == job[j].status \in {"awaiting", "approved", "applying"} /\ ~Attended(j)

\* A status saved by the match worker that the user's decision has overtaken.
Overtaken(w) ==
  \/ wpc[w] = "rank" /\ job[wjob[w]].status # wcopy[w] /\ wpc'[w] = "gate"
  \/ wpc[w] = "mark" /\ approval[wappr[w]].status # "pending" /\ wpc'[w] = "notify"

GivenUp(j) ==
  \/ \E c \in Clients : PublishFails(c) \/ DecideBreaks(c)
  \/ \E w \in Workers : \/ Crash(w) \/ Overtaken(w)
                        \/ wmsg[w].inline /\ HandleRaises(w)
                        \/ BelowThreshold(w) /\ wjob[w] = j /\ wcopy[w] = "applying"
  \/ applies'[j] < applies[j]

\* A job shown as awaiting approval, approved or being applied for is not forgotten.
\* It is so only when the broker or the database fails between the saves of decide(),
\* a process or an inline task dies with its message, a second scoring lets a job drop
\* that was being applied for, the match worker saves a status that a decision has
\* overtaken, or the apply worker puts the application off or pauses it, which it shows.
NoForgottenJob == [][\A j \in Jobs : Forgotten(j)' => Forgotten(j) \/ GivenUp(j)]_vars

\* With Kafka only, job.match keeps the promise of a worker topic.
Topic == INSTANCE RetryQueue WITH
  waiting <- [i \in DOMAIN topic |-> topic[i].attempts],
  running <- [w \in Workers |-> IF wpc[w] = "idle" THEN <<>> ELSE <<wmsg[w].attempts>>],
  buried <- [i \in DOMAIN dlq |-> dlq[i].attempts],
  MayDie <- "crash" \in Faults

MatchRetriesAreBounded == Topic!Spec

\* "Manual "Run match" without a job_id: score all NEW jobs for the user."  When it
\* ends, the jobs it found new have been scored.
RunMatchScoresAll ==
  [][\A w \in Workers : (wpc[w] # "idle" /\ wpc'[w] = "idle")
       => \A j \in wtodo[w] : job[j].scored]_vars
=============================================================================
