--------------------------- MODULE ApplyPipeline ---------------------------
(***************************************************************************)
(* The apply pipeline of one user: the API handlers that queue, retry,     *)
(* cancel and resume applications (ApplicationService, the OTP and         *)
(* answer-and-resume endpoints, ApprovalService.decide), the job.apply     *)
(* topic with its retry and dead-letter rule (BaseWorker), the apply       *)
(* workers (ApplyWorker) and the rate limiter both sides consult           *)
(* (ApplyRateLimiter).                                                     *)
(*                                                                         *)
(* Every handler is cut at the awaits that read or write the database or   *)
(* the topic.  A document is read into memory once and saved whole later,  *)
(* so each process carries its own copy (wdoc, cdoc) and a save replaces   *)
(* what the database holds, whoever wrote it in between.                   *)
(*                                                                         *)
(* The topic is keyed by user id, so one user's messages are in one        *)
(* partition, in order.  With one worker this is the Kafka deployment.     *)
(* Several workers are the deployments without Kafka, where every publish  *)
(* starts a task in the API process ("inline") or a container job of its   *)
(* own ("azure"); topic then holds what was started and does not run yet.  *)
(***************************************************************************)
EXTENDS Naturals, Sequences, FiniteSets

CONSTANTS
  Jobs,               \* jobs of the user
  Apps,               \* application ids that may be allocated
  Workers,            \* processes that run ApplyWorker.handle
  Clients,            \* API requests that may be in progress at a time
  NoJob, NoApp,       \* absent references
  DailyCap,           \* settings.max_applications_per_day
  MaxHandleAttempts,  \* BaseWorker.max_handle_attempts
  Delivery,           \* "kafka", "inline" or "azure": what publish_job_apply starts
  Faults,             \* which of "raise", "crash", "outage" may happen
  MaxRequests,        \* bound: API requests made
  MaxCodes,           \* bound: one-time codes typed in by the user
  MaxDays             \* bound: midnights that pass

ASSUME PipelineAssumption ==
  /\ NoJob \notin Jobs
  /\ NoApp \notin Apps
  /\ IsFiniteSet(Workers) /\ Workers # {}
  /\ IsFiniteSet(Apps)
  /\ DailyCap \in Nat \ {0}
  /\ MaxHandleAttempts \in Nat \ {0}
  /\ Delivery \in {"kafka", "inline", "azure"}
  /\ Faults \subseteq {"raise", "crash", "outage"}
  /\ MaxRequests \in Nat /\ MaxCodes \in Nat /\ MaxDays \in Nat

VARIABLES
  app,        \* applications collection: id -> document
  job,        \* status of each job
  undecided,  \* jobs whose approval is pending
  latest,     \* the application with the greatest updated_at
  cooling,    \* the latest update is younger than apply_cooldown_seconds
  topic,      \* messages of job.apply not yet taken, oldest first
  dlq,        \* messages sent to job.dlq, oldest first
  wpc, wmsg, wapp, wdoc,         \* per worker: position, message, application, copy
  cpc, cop, cjob, capp, cdoc,    \* per request: position, operation, targets, copy
  requests, days, codes,         \* counters of the bounds
  given       \* history: how often a one-time code went to an adapter; 2 is "again"

dbVars     == <<app, job, undecided, latest, cooling>>
busVars    == <<topic, dlq>>
workerVars == <<wpc, wmsg, wapp, wdoc>>
clientVars == <<cpc, cop, cjob, capp, cdoc, requests>>
vars == <<app, job, undecided, latest, cooling, topic, dlq, wpc, wmsg, wapp, wdoc,
          cpc, cop, cjob, capp, cdoc, requests, days, codes, given>>

-----------------------------------------------------------------------------
(* Documents and messages.                                                 *)

Paused   == {"needs_input", "needs_otp", "needs_account"}
Active   == {"pending", "in_progress", "retrying"} \cup Paused
AppStatus == Active \cup {"success", "failed", "follow_up", "cancelled"}
JobStatus == {"awaiting_approval", "approved", "rejected", "applying", "applied", "failed"}

\* today: applied_at is not before the last midnight.  deferred: error_message
\* holds the rate limiter's reason.  otp: the code in the newest otp_provided
\* session step, 0 when there is none.
AppDoc == [job : Jobs \cup {NoJob}, status : AppStatus \cup {"absent"},
           today : BOOLEAN, deferred : BOOLEAN, otp : 0..MaxCodes]
Blank  == [job |-> NoJob, status |-> "absent", today |-> FALSE,
           deferred |-> FALSE, otp |-> 0]
NewDoc(j, s) == [Blank EXCEPT !.job = j, !.status = s]

\* The ways a copy is changed: the status alone, or error_message with it.
Moved(doc, s)   == [doc EXCEPT !.status = s]
Settled(doc, s) == [doc EXCEPT !.status = s, !.deferred = FALSE]
Deferred(doc)   == [doc EXCEPT !.status = "pending", !.deferred = TRUE]
Submitted(doc)  == [doc EXCEPT !.status = "success", !.deferred = FALSE, !.today = TRUE]
WithOtp(doc, n) == [doc EXCEPT !.otp = n]

Message == [job : Jobs \cup {NoJob}, app : Apps \cup {NoApp}, otp : 0..MaxCodes,
            attempts : 0..MaxHandleAttempts]
NoMsg   == [job |-> NoJob, app |-> NoApp, otp |-> 0, attempts |-> 0]

Unused == {a \in Apps : app[a].status = "absent"}

\* Mutant: the lookup forgets the applications a worker has started.
ActiveForUnstarted(j) ==
  {a \in Apps : app[a].job = j /\ app[a].status \in Active \ {"in_progress"}}

\* ApplicationRepository.find_active_for_job: any one of these is found.
ActiveFor(j) == {a \in Apps : app[a].job = j /\ app[a].status \in Active}

\* A save that sets updated_at makes the document the newest one.
Touch(a) == latest' = a /\ cooling' = TRUE
NoTouch  == UNCHANGED <<latest, cooling>>

\* A save that does not set updated_at writes back the one of the copy.  If the
\* document is the newest one it may be so no more: any other can be the newest
\* then, and an older time may be beyond the cooldown.
WriteBack(a) == IF latest = a
                THEN latest' \in Apps \ Unused /\ cooling' \in {cooling, FALSE}
                ELSE NoTouch

-----------------------------------------------------------------------------
(* ApplyRateLimiter.check.                                                 *)

\* Mutant: an application that is followed up no longer counts.
AppliedTodaySuccessOnly == {a \in Apps : app[a].status = "success" /\ app[a].today}

AppliedToday == {a \in Apps : app[a].status \in {"success", "follow_up"} /\ app[a].today}

\* Only the most recently updated application is looked at: it stops the next
\* one while it is in_progress or success and younger than the cooldown.
CoolingDown == latest # NoApp /\ cooling /\ app[latest].status \in {"in_progress", "success"}

Allowed == Cardinality(AppliedToday) < DailyCap /\ ~CoolingDown

-----------------------------------------------------------------------------
(* API requests.  Read steps hold a copy; later steps save and publish it. *)

Hold(c, op, pc, j, a, doc) ==
  /\ cpc[c] = "idle"
  /\ requests < MaxRequests
  /\ requests' = requests + 1
  /\ cpc'  = [cpc EXCEPT ![c] = pc]
  /\ cop'  = [cop EXCEPT ![c] = op]
  /\ cjob' = [cjob EXCEPT ![c] = j]
  /\ capp' = [capp EXCEPT ![c] = a]
  /\ cdoc' = [cdoc EXCEPT ![c] = doc]

Goto(c, pc) == cpc' = [cpc EXCEPT ![c] = pc]
KeepHold    == UNCHANGED <<cop, cjob, capp, cdoc, requests>>

\* The request returns and its locals are gone.
Reply(c) ==
  /\ cpc'  = [cpc EXCEPT ![c] = "idle"]
  /\ cop'  = [cop EXCEPT ![c] = "none"]
  /\ cjob' = [cjob EXCEPT ![c] = NoJob]
  /\ capp' = [capp EXCEPT ![c] = NoApp]
  /\ cdoc' = [cdoc EXCEPT ![c] = Blank]
  /\ UNCHANGED requests

\* queue(): an active application is reused, otherwise one will be created.
QueueReuse(c, j, a) ==
  /\ a \in ActiveFor(j)
  /\ Hold(c, "queue", IF job[j] = "applying" THEN "resave" ELSE "reuse", j, a, app[a])
  /\ UNCHANGED <<dbVars, busVars, workerVars, days, codes, given>>

QueueFresh(c, j) ==
  /\ ActiveFor(j) = {}
  /\ Hold(c, "queue", "create", j, NoApp, Blank)
  /\ UNCHANGED <<dbVars, busVars, workerVars, days, codes, given>>

\* retry() looks at no status at all.
Retry(c, a) ==
  /\ app[a].status # "absent"
  /\ Hold(c, "retry", "save", app[a].job, a, Moved(app[a], "retrying"))
  /\ UNCHANGED <<dbVars, busVars, workerVars, days, codes, given>>

Cancel(c, a) ==
  /\ app[a].status \in Active
  /\ Hold(c, "cancel", "save", app[a].job, a, Settled(app[a], "cancelled"))
  /\ UNCHANGED <<dbVars, busVars, workerVars, days, codes, given>>

AnswerAndResume(c, a) ==
  /\ app[a].status \in {"needs_input", "needs_otp", "failed", "pending", "retrying"}
  /\ Hold(c, "answer", "save", app[a].job, a, Settled(app[a], "pending"))
  /\ UNCHANGED <<dbVars, busVars, workerVars, days, codes, given>>

SubmitOtp(c, a) ==
  /\ app[a].status = "needs_otp"
  /\ codes < MaxCodes
  /\ codes' = codes + 1
  /\ Hold(c, "otp", "save", app[a].job, a,
          WithOtp(Settled(app[a], "pending"), codes + 1))
  /\ UNCHANGED <<dbVars, busVars, workerVars, days, given>>

\* decide(): the pending approval and, to approve, the rate limit are checked first.
Decide(c, j, approve) ==
  /\ j \in undecided
  /\ approve => Allowed
  /\ Hold(c, "decide", IF approve THEN "approve" ELSE "reject", j, NoApp, Blank)
  /\ UNCHANGED <<dbVars, busVars, workerVars, days, codes, given>>

CreateApp(c, a) ==
  /\ cpc[c] = "create"
  /\ a \in Unused
  /\ app' = [app EXCEPT ![a] = NewDoc(cjob[c], "pending")]
  /\ capp' = [capp EXCEPT ![c] = a]
  /\ Touch(a)
  /\ Goto(c, "created")
  /\ UNCHANGED <<job, undecided, busVars, workerVars, cop, cjob, cdoc, requests,
                 days, codes, given>>

\* queue() sets the job to applying before it publishes or re-saves.
JobApplying(c) ==
  /\ cpc[c] \in {"created", "reuse"}
  /\ job' = [job EXCEPT ![cjob[c]] = "applying"]
  /\ Goto(c, IF cpc[c] = "created" THEN "publish" ELSE "resave")
  /\ KeepHold
  /\ UNCHANGED <<app, undecided, latest, cooling, busVars, workerVars, days, codes, given>>

\* queue() on an application that was pending when read: saved and published again.
RequeuePending(c) ==
  /\ cpc[c] = "resave" /\ cdoc[c].status = "pending"
  /\ app' = [app EXCEPT ![capp[c]] = cdoc[c]]
  /\ Touch(capp[c])
  /\ Goto(c, "publish")
  /\ KeepHold
  /\ UNCHANGED <<job, undecided, busVars, workerVars, days, codes, given>>

\* queue() on any other active application: the copy is saved and nothing is sent.
ResaveActive(c) ==
  /\ cpc[c] = "resave" /\ cdoc[c].status # "pending"
  /\ app' = [app EXCEPT ![capp[c]] = cdoc[c]]
  /\ WriteBack(capp[c])
  /\ Reply(c)
  /\ UNCHANGED <<job, undecided, busVars, workerVars, days, codes, given>>

\* The save of retry, cancel, answer-and-resume (no updated_at) and submit_otp.
SaveCopy(c) ==
  /\ cpc[c] = "save"
  /\ app' = [app EXCEPT ![capp[c]] = cdoc[c]]
  /\ IF cop[c] = "answer" THEN WriteBack(capp[c]) ELSE Touch(capp[c])
  /\ Goto(c, IF cop[c] = "cancel" THEN "release" ELSE "publish")
  /\ KeepHold
  /\ UNCHANGED <<job, undecided, busVars, workerVars, days, codes, given>>

\* cancel(): the job is read after the save; if applying, it goes back to approved.
ReadReleased(c) ==
  /\ cpc[c] = "release"
  /\ IF job[cjob[c]] = "applying" THEN Goto(c, "giveBack") /\ KeepHold ELSE Reply(c)
  /\ UNCHANGED <<dbVars, busVars, workerVars, days, codes, given>>

ReleaseJob(c) ==
  /\ cpc[c] = "giveBack"
  /\ job' = [job EXCEPT ![cjob[c]] = "approved"]
  /\ Reply(c)
  /\ UNCHANGED <<app, undecided, latest, cooling, busVars, workerVars, days, codes, given>>

\* decide(): approval saved, then the job; an approval goes on to publish.
RecordDecision(c) ==
  /\ cpc[c] \in {"approve", "reject"}
  /\ undecided' = undecided \ {cjob[c]}
  /\ job' = [job EXCEPT ![cjob[c]] = IF cpc[c] = "approve" THEN "approved" ELSE "rejected"]
  /\ IF cpc[c] = "approve" THEN Goto(c, "publish") /\ KeepHold ELSE Reply(c)
  /\ UNCHANGED <<app, latest, cooling, busVars, workerVars, days, codes, given>>

\* The message publish_job_apply sends.  decide() names no application; submit_otp
\* adds the code, which a container job is not given.
Request(c) == [job |-> cjob[c], app |-> capp[c], attempts |-> 0,
               otp |-> IF cop[c] = "otp" /\ Delivery # "azure" THEN cdoc[c].otp ELSE 0]

PublishJobApply(c) ==
  /\ cpc[c] = "publish"
  /\ topic' = Append(topic, Request(c))
  /\ Reply(c)
  /\ UNCHANGED <<dbVars, dlq, workerVars, days, codes, given>>

\* The broker or the job API is down: the request fails with 503 and what it saved
\* stays.  A send that only timed out may yet reach the broker.
PublishFails(c) ==
  /\ "outage" \in Faults
  /\ cpc[c] = "publish"
  /\ \/ UNCHANGED topic
     \/ Delivery = "kafka" /\ topic' = Append(topic, Request(c))
  /\ Reply(c)
  /\ UNCHANGED <<dbVars, dlq, workerVars, days, codes, given>>

\* The API process dies, or a database call of the request raises: what the
\* request saved stays, and it publishes nothing.
RequestBreaks(c) ==
  /\ "crash" \in Faults
  /\ cpc[c] # "idle"
  /\ Reply(c)
  /\ UNCHANGED <<dbVars, busVars, workerVars, days, codes, given>>

-----------------------------------------------------------------------------
(* ApplyWorker.handle.                                                     *)

WGoto(w, pc) == wpc' = [wpc EXCEPT ![w] = pc]

\* handle() is over and its locals are gone.
Return(w) ==
  /\ wpc'  = [wpc EXCEPT ![w] = "idle"]
  /\ wmsg' = [wmsg EXCEPT ![w] = NoMsg]
  /\ wapp' = [wapp EXCEPT ![w] = NoApp]
  /\ wdoc' = [wdoc EXCEPT ![w] = Blank]

\* The loop hands the next message of the partition to handle().
Receive(w) ==
  /\ wpc[w] = "idle"
  /\ topic # <<>>
  /\ wmsg' = [wmsg EXCEPT ![w] = Head(topic)]
  /\ topic' = Tail(topic)
  /\ WGoto(w, "load")
  /\ UNCHANGED <<dbVars, dlq, wapp, wdoc, clientVars, days, codes, given>>

\* The application is the one the message names, whatever its status, or else
\* any active one of the job.
Load(w, a) ==
  /\ wpc[w] = "load"
  /\ IF wmsg[w].app = NoApp THEN a \in ActiveFor(wmsg[w].job) ELSE a = wmsg[w].app
  /\ wapp' = [wapp EXCEPT ![w] = a]
  /\ wdoc' = [wdoc EXCEPT ![w] = app[a]]
  /\ WGoto(w, "limit")
  /\ UNCHANGED <<dbVars, busVars, wmsg, clientVars, days, codes, given>>

FindNone(w) ==
  /\ wpc[w] = "load"
  /\ wmsg[w].app = NoApp
  /\ ActiveFor(wmsg[w].job) = {}
  /\ WGoto(w, "insert")
  /\ UNCHANGED <<dbVars, busVars, wmsg, wapp, wdoc, clientVars, days, codes, given>>

\* No active application: one is inserted, already in_progress and updated now.
InsertApp(w, a) ==
  /\ wpc[w] = "insert"
  /\ a \in Unused
  /\ app' = [app EXCEPT ![a] = NewDoc(wmsg[w].job, "in_progress")]
  /\ Touch(a)
  /\ wapp' = [wapp EXCEPT ![w] = a]
  /\ wdoc' = [wdoc EXCEPT ![w] = NewDoc(wmsg[w].job, "in_progress")]
  /\ WGoto(w, "limit")
  /\ UNCHANGED <<job, undecided, busVars, wmsg, clientVars, days, codes, given>>

CheckLimit(w) ==
  /\ wpc[w] = "limit"
  /\ WGoto(w, IF Allowed THEN "start" ELSE "defer")
  /\ UNCHANGED <<dbVars, busVars, wmsg, wapp, wdoc, clientVars, days, codes, given>>

\* Not allowed: parked as pending with a next_retry_at, and the message is done.
DeferApp(w) ==
  /\ wpc[w] = "defer"
  /\ app' = [app EXCEPT ![wapp[w]] = Deferred(wdoc[w])]
  /\ Touch(wapp[w])
  /\ Return(w)
  /\ UNCHANGED <<job, undecided, busVars, clientVars, days, codes, given>>

StartApp(w) ==
  /\ wpc[w] = "start"
  /\ wdoc' = [wdoc EXCEPT ![w] = Moved(@, "in_progress")]
  /\ app' = [app EXCEPT ![wapp[w]] = Moved(wdoc[w], "in_progress")]
  /\ Touch(wapp[w])
  /\ WGoto(w, "prepare")
  /\ UNCHANGED <<job, undecided, busVars, wmsg, wapp, clientVars, days, codes, given>>

\* No resume, or the portal is auto-paused.
FailEarly(w) ==
  /\ wpc[w] = "prepare"
  /\ wdoc' = [wdoc EXCEPT ![w] = Settled(@, "failed")]
  /\ WGoto(w, "saveApp")
  /\ UNCHANGED <<dbVars, busVars, wmsg, wapp, clientVars, days, codes, given>>

\* _otp_code_from_payload: the payload's code first, otherwise the newest
\* otp_provided step's, which only then is removed from the step.
OtpCode(w) == IF wmsg[w].otp # 0 THEN wmsg[w].otp ELSE wdoc[w].otp

AttachAdapter(w) ==
  /\ wpc[w] = "prepare"
  /\ wdoc' = IF wmsg[w].otp # 0 THEN wdoc ELSE [wdoc EXCEPT ![w] = WithOtp(@, 0)]
  /\ given' = IF OtpCode(w) = 0 THEN given
              ELSE [given EXCEPT ![OtpCode(w)] = IF @ < 2 THEN @ + 1 ELSE 2]
  /\ WGoto(w, "run")
  /\ UNCHANGED <<dbVars, busVars, wmsg, wapp, clientVars, days, codes>>

\* _publish_session_progress saves the whole copy with the new step list.
SessionProgress(w) ==
  /\ wpc[w] = "run"
  /\ app' = [app EXCEPT ![wapp[w]] = wdoc[w]]
  /\ Touch(wapp[w])
  /\ UNCHANGED <<job, undecided, busVars, workerVars, clientVars, days, codes, given>>

\* The adapter's result, or "failed" for a failed, crashed or timed-out run.
Finish(w, status) ==
  /\ wpc[w] = "run"
  /\ status \in Paused \cup {"success", "failed"}
  /\ wdoc' = [wdoc EXCEPT ![w] = IF status = "success" THEN Submitted(@)
                                                       ELSE Settled(@, status)]
  /\ WGoto(w, "saveApp")
  /\ UNCHANGED <<dbVars, busVars, wmsg, wapp, clientVars, days, codes, given>>

SaveApp(w) ==
  /\ wpc[w] = "saveApp"
  /\ app' = [app EXCEPT ![wapp[w]] = wdoc[w]]
  /\ Touch(wapp[w])
  /\ WGoto(w, "saveJob")
  /\ UNCHANGED <<job, undecided, busVars, wmsg, wapp, wdoc, clientVars, days, codes, given>>

SaveJob(w) ==
  /\ wpc[w] = "saveJob"
  /\ job' = [job EXCEPT ![wmsg[w].job] =
               CASE wdoc[w].status = "success" -> "applied"
                 [] wdoc[w].status = "failed"  -> "failed"
                 [] OTHER                      -> "applying"]
  /\ WGoto(w, IF wdoc[w].status = "success" THEN "followUp" ELSE "notify")
  /\ UNCHANGED <<app, undecided, latest, cooling, busVars, wmsg, wapp, wdoc, clientVars,
                 days, codes, given>>

\* ReminderService.schedule_follow_up saves the same copy as follow_up.
ScheduleFollowUp(w) ==
  /\ wpc[w] = "followUp"
  /\ wdoc' = [wdoc EXCEPT ![w] = Moved(@, "follow_up")]
  /\ app' = [app EXCEPT ![wapp[w]] = Moved(wdoc[w], "follow_up")]
  /\ WriteBack(wapp[w])
  /\ WGoto(w, "notify")
  /\ UNCHANGED <<job, undecided, busVars, wmsg, wapp, clientVars, days, codes, given>>

\* Notification, result event and audit record go out; handle() returns.
Notify(w) ==
  /\ wpc[w] = "notify"
  /\ Return(w)
  /\ UNCHANGED <<dbVars, busVars, clientVars, days, codes, given>>

Counted(m) == [m EXCEPT !.attempts = @ + 1]

\* Mutant: one more attempt than max_handle_attempts.
RouteFailureLate(m) ==
  \/ m.attempts + 1 > MaxHandleAttempts /\ dlq' = Append(dlq, Counted(m)) /\ UNCHANGED topic
  \/ m.attempts + 1 <= MaxHandleAttempts /\ topic' = Append(topic, Counted(m)) /\ UNCHANGED dlq

\* Mutant: an exhausted message is dropped and not dead-lettered.
RouteFailureDrops(m) ==
  \/ m.attempts + 1 >= MaxHandleAttempts /\ UNCHANGED busVars
  \/ m.attempts + 1 < MaxHandleAttempts /\ topic' = Append(topic, Counted(m)) /\ UNCHANGED dlq

\* BaseWorker._route_failure: a message handled too often goes to the dead-letter
\* topic, any other back to its own topic with the attempt counted.
RouteFailure(m) ==
  \/ m.attempts + 1 >= MaxHandleAttempts /\ dlq' = Append(dlq, Counted(m)) /\ UNCHANGED topic
  \/ m.attempts + 1 < MaxHandleAttempts /\ topic' = Append(topic, Counted(m)) /\ UNCHANGED dlq

\* A container job that failed is started once more, and then given up.
RetryLimit == 1
Rerun(m) ==
  /\ topic' = IF m.attempts < RetryLimit
              THEN Append(topic, Counted(m)) ELSE topic
  /\ UNCHANGED dlq

\* handle() raises: a database, storage or publish error at any await.
HandleRaises(w) ==
  /\ "raise" \in Faults
  /\ wpc[w] # "idle"
  /\ Return(w)
  /\ \/ Delivery = "kafka" /\ RouteFailure(wmsg[w])
     \/ Delivery = "azure" /\ Rerun(wmsg[w])
     \/ Delivery = "inline" /\ UNCHANGED busVars
  /\ UNCHANGED <<dbVars, clientVars, days, codes, given>>

\* The process dies.  Kafka offsets are committed by a timer: the message is gone
\* or, if its offset was not committed yet, delivered again.  An API process takes
\* its requests and its inline tasks with it: one such step for each of them (a
\* task that does not run yet is received first), with nothing in between.
Crash(w) ==
  /\ "crash" \in Faults
  /\ wpc[w] # "idle"
  /\ Return(w)
  /\ \/ Delivery # "azure" /\ UNCHANGED busVars
     \/ Delivery = "kafka" /\ topic' = <<wmsg[w]>> \o topic /\ UNCHANGED dlq
     \/ Delivery = "azure" /\ Rerun(wmsg[w])
  /\ UNCHANGED <<dbVars, clientVars, days, codes, given>>

-----------------------------------------------------------------------------
(* Time.                                                                   *)

\* apply_cooldown_seconds pass with no update.
CooldownOver ==
  /\ cooling
  /\ cooling' = FALSE
  /\ UNCHANGED <<app, job, undecided, latest, busVars, workerVars, clientVars, days, codes, given>>

Stale(doc) == [doc EXCEPT !.today = FALSE]

\* Midnight: every applied_at, in the database or in a copy, is now of an earlier day.
NewDay ==
  /\ days < MaxDays
  /\ days' = days + 1
  /\ app' = [a \in Apps |-> Stale(app[a])]
  /\ wdoc' = [w \in Workers |-> Stale(wdoc[w])]
  /\ cdoc' = [c \in Clients |-> Stale(cdoc[c])]
  /\ UNCHANGED <<job, undecided, latest, cooling, busVars, wpc, wmsg, wapp,
                 cpc, cop, cjob, capp, requests, codes, given>>

-----------------------------------------------------------------------------

Init ==
  /\ app = [a \in Apps |-> Blank]
  /\ job = [j \in Jobs |-> "awaiting_approval"]
  /\ undecided = Jobs
  /\ latest = NoApp /\ cooling = FALSE
  /\ topic = <<>> /\ dlq = <<>>
  /\ wpc = [w \in Workers |-> "idle"]
  /\ wmsg = [w \in Workers |-> NoMsg]
  /\ wapp = [w \in Workers |-> NoApp]
  /\ wdoc = [w \in Workers |-> Blank]
  /\ cpc = [c \in Clients |-> "idle"]
  /\ cop = [c \in Clients |-> "none"]
  /\ cjob = [c \in Clients |-> NoJob]
  /\ capp = [c \in Clients |-> NoApp]
  /\ cdoc = [c \in Clients |-> Blank]
  /\ requests = 0 /\ days = 0 /\ codes = 0
  /\ given = [n \in 1..MaxCodes |-> 0]

\* The first step of a request.
Ask(c) ==
  \/ \E j \in Jobs, a \in Apps : QueueReuse(c, j, a)
  \/ \E j \in Jobs : QueueFresh(c, j)
  \/ \E j \in Jobs, approve \in BOOLEAN : Decide(c, j, approve)
  \/ \E a \in Apps : Retry(c, a) \/ Cancel(c, a) \/ AnswerAndResume(c, a) \/ SubmitOtp(c, a)

\* The later steps of a request.
Serve(c) ==
  \/ \E a \in Apps : CreateApp(c, a)
  \/ JobApplying(c) \/ RequeuePending(c) \/ ResaveActive(c) \/ SaveCopy(c)
  \/ ReadReleased(c) \/ ReleaseJob(c) \/ RecordDecision(c) \/ PublishJobApply(c)

\* The steps by which a worker gets on with its message.
Work(w) ==
  \/ Receive(w) \/ FindNone(w) \/ CheckLimit(w) \/ DeferApp(w) \/ StartApp(w)
  \/ \E a \in Apps : Load(w, a) \/ InsertApp(w, a)
  \/ FailEarly(w) \/ AttachAdapter(w)
  \/ \E status \in AppStatus : Finish(w, status)
  \/ SaveApp(w) \/ SaveJob(w) \/ ScheduleFollowUp(w) \/ Notify(w)

Next ==
  \/ \E c \in Clients : Ask(c) \/ Serve(c) \/ PublishFails(c) \/ RequestBreaks(c)
  \/ \E w \in Workers : Work(w) \/ SessionProgress(w) \/ HandleRaises(w) \/ Crash(w)
  \/ CooldownOver
  \/ NewDay

Spec == Init /\ [][Next]_vars

\* A request once made is served and a worker gets on with its message: the
\* event loop runs every ready task, and the download and the browser run are
\* cut off by _RESUME_DOWNLOAD_TIMEOUT_S and _APPLY_TIMEOUT_S.
Fairness ==
  /\ \A c \in Clients : WF_vars(Serve(c))
  /\ \A w \in Workers : WF_vars(Work(w))

FairSpec == Spec /\ Fairness

-----------------------------------------------------------------------------
(* Properties.                                                             *)

DatabaseOK ==
  /\ app \in [Apps -> AppDoc]
  /\ job \in [Jobs -> JobStatus]
  /\ undecided \subseteq Jobs
  /\ latest \in Apps \cup {NoApp}
  /\ cooling \in BOOLEAN

BusOK == topic \in Seq(Message) /\ dlq \in Seq(Message)

WorkersOK ==
  /\ wpc \in [Workers -> {"idle", "load", "insert", "limit", "defer", "start", "prepare",
                          "run", "saveApp", "saveJob", "followUp", "notify"}]
  /\ wmsg \in [Workers -> Message]
  /\ wapp \in [Workers -> Apps \cup {NoApp}]
  /\ wdoc \in [Workers -> AppDoc]

ClientsOK ==
  /\ cpc \in [Clients -> {"idle", "create", "created", "reuse", "resave", "save",
                          "release", "giveBack", "approve", "reject", "publish"}]
  /\ cop \in [Clients -> {"none", "queue", "retry", "cancel", "answer", "otp", "decide"}]
  /\ cjob \in [Clients -> Jobs \cup {NoJob}]
  /\ capp \in [Clients -> Apps \cup {NoApp}]
  /\ cdoc \in [Clients -> AppDoc]
  /\ requests \in 0..MaxRequests

CountersOK ==
  /\ days \in 0..MaxDays
  /\ codes \in 0..MaxCodes
  /\ given \in [1..MaxCodes -> 0..2]

\* Every document, copy and message is of its type; no message has failed more
\* than MaxHandleAttempts times, in the topic, in a worker or in the dead letters.
TypeOK == DatabaseOK /\ BusOK /\ WorkersOK /\ ClientsOK /\ CountersOK

\* The applications shown as submitted today, followed up or not.
SubmittedToday == {a \in Apps : app[a].today /\ app[a].status \in {"success", "follow_up"}}

\* The cap is checked by counting and acted on much later, so workers that pass
\* the check together may overshoot it, but never by more than the other
\* workers: with a single worker max_applications_per_day is exact.
DailyCapOvershoot == Cardinality(SubmittedToday) < DailyCap + Cardinality(Workers)

\* Somebody is going to write application a: a message will lead a worker to it,
\* a worker or a request that holds it has yet to save it, or a dead-letter
\* record tells of it.
Names(m, a) == m.app = a \/ (m.app = NoApp /\ m.job = app[a].job)

WillSave(w, a) == /\ wapp[w] = a
                  /\ wpc[w] # "notify"
                  /\ wpc[w] = "saveJob" => wdoc[w].status = "success"

Attended(a) ==
  \/ \E i \in DOMAIN topic : Names(topic[i], a)
  \/ \E i \in DOMAIN dlq : Names(dlq[i], a)
  \/ \E w \in Workers : WillSave(w, a) \/ (wpc[w] = "load" /\ Names(wmsg[w], a))
  \/ \E c \in Clients : capp[c] = a /\ cpc[c] \notin {"release", "giveBack"}

Underway(a) == app[a].status \in {"in_progress", "retrying"}
                 \/ (app[a].status = "pending" /\ ~app[a].deferred)

Orphan(a) == Underway(a) /\ ~Attended(a)

\* An application shown as queued, retrying or in progress is never left with
\* nobody to move it, whatever the interleaving of requests and workers and
\* whatever handler raises, except
\*   - by the re-save that queue() does of an active application's copy: it can
\*     bring such a status back after the worker has finished;
\*   - where two requests have created an application each and a message that
\*     names only the job finds the other one;
\*   - by a fault that nothing recovers from: the broker is down when the saved
\*     request publishes, a process dies, a request raises before it publishes,
\*     or without Kafka the handler raises.
Resaved(a)    == \E c \in Clients : cpc[c] = "resave" /\ capp[c] = a
PassedOver(a) == \E w \in Workers : /\ wpc[w] = "load" /\ Names(wmsg[w], a)
                                    /\ wapp'[w] \notin {a, NoApp}
Unrecovered == \/ \E c \in Clients : PublishFails(c) \/ RequestBreaks(c)
               \/ \E w \in Workers : Crash(w) \/ (Delivery # "kafka" /\ HandleRaises(w))

NoSilentOrphan ==
  [][\A a \in Apps : Orphan(a)' => \/ Orphan(a) \/ Resaved(a) \/ PassedOver(a)
                                   \/ Unrecovered]_vars

\* With Kafka, job.apply implements the promise of a worker topic: messages are
\* handled in order, a failed one goes behind the others, and it is dead-lettered
\* exactly when its handling has raised MaxHandleAttempts times.
Topic == INSTANCE RetryQueue WITH
  waiting <- [i \in DOMAIN topic |-> topic[i].attempts],
  running <- [w \in Workers |-> IF wpc[w] = "idle" THEN <<>> ELSE <<wmsg[w].attempts>>],
  buried <- [i \in DOMAIN dlq |-> dlq[i].attempts],
  MayDie <- "crash" \in Faults

RetriesAreBounded == Topic!Spec

\* A queued application is picked up: a worker takes it out of pending, or parks
\* it for the rate limiter, or its message ends in the dead-letter topic.
QueuedIsPickedUp ==
  \A a \in Apps : (app[a].status = "pending" /\ ~app[a].deferred) ~>
     \/ app[a].status # "pending"
     \/ app[a].deferred
     \/ \E i \in DOMAIN dlq : Names(dlq[i], a)

\* "Read a one-shot OTP": a one-time code the user typed in is given to one
\* adapter run only.
OtpUsedOnce == \A n \in DOMAIN given : given[n] < 2

\* "Cancelled - no further apply attempts for this job": no worker starts an
\* application whose copy it has read as cancelled.
CancelledIsNotRun == [][\A w \in Workers : StartApp(w) => wdoc[w].status # "cancelled"]_vars

\* "Approved - applying now": an approved job is taken up by a worker.
Approving(j) == \E c \in Clients : cpc[c] = "publish" /\ cop[c] = "decide" /\ cjob[c] = j

ApprovedIsStarted ==
  \A j \in Jobs : Approving(j) ~> job[j] \in {"applying", "applied", "failed"}
=============================================================================
