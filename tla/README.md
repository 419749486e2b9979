# JobPilot AI: specifications and proofs

TLA+ models of the backend of JobPilot AI (`src/backend/app`): a FastAPI service with a
MongoDB store (through Beanie), Kafka topics, and workers that fetch job postings and submit
applications with a browser. The interesting part of this code is not an algorithm. It is that
API handlers, background workers and their retries all do the same thing to shared documents:
read one, work on the copy over many `await`s, and save it whole. The models cut every handler
at these awaits and let everything interleave.

All paths below are relative to `src/backend/app/` unless they say otherwise.

## 1. The system

| Component | State | Operations | Talks to |
|---|---|---|---|
| Apply queue API (`services/application_service.py`, `api/v1/applications/router.py`, `api/v1/questions/router.py`) | `applications` and `jobs` documents | queue, retry, cancel, submit an OTP, answer and resume | publishes `job.apply`; asks the rate limiter |
| Apply worker (`workers/apply_worker.py`) | its copy of the application, the same documents | handle one message: load or insert, limit, start, run the browser, record the outcome | adapters, portal health, reminders, notifications |
| Apply rate limiter (`services/apply_rate_limit.py`) | none: queries over `applications` | check | read by the API and the worker |
| Worker base and topics (`workers/base.py`, `core/kafka.py`, `producers/events.py`) | `job.fetch`, `job.match`, `job.apply`, `job.dlq` | publish, consume, retry, dead-letter; fallback to an in-process task or a container job | every worker |
| Approval gate (`services/approval_service.py`, `workers/match_worker.py`) | `approvals` | enqueue, decide, decide a batch | job board, `job.apply` |
| Portal service and fetch worker (`services/portal_service.py`, `workers/fetch_worker.py`) | `portals`: status, sync marker, credentials, cookies, health | create, update, sync, re-authenticate, delete; fetch | `job.fetch`, `job.match`, portal health |
| Portal health (`services/portal_health_service.py`) | score, consecutive failures, pause inside a portal | record success, record failure, usable? | called by the fetch and apply workers |
| Job intake (`services/dedupe_service.py`, the insert loop of the fetch worker) | `jobs` | deduplicate, insert, publish for matching | `job.match` |
| Job board (`services/job_service.py`, `services/pipeline.py`) | `jobs`, cached lists | move, update, match, ingest | approvals, applications |
| Email inbox (`services/email_inbox_service.py`) | `email_accounts`, `email_messages` | sync an account, classify, match and apply a mail to a job | jobs, applications, reminders |
| Authentication (`services/auth_service.py`) | refresh tokens in Redis | login, refresh, logout | |
| Idempotency, cache, limits (`middleware/`, `services/cache_service.py`, `core/redis_features.py`) | Redis keys | replay a response, fill and invalidate, lock, count | every handler |
| Resilience (`core/resilience.py`) | circuit state | call, retry | external services |
| Reminders, scheduler (`services/reminder_service.py`, `scheduler/jobs.py`) | `reminders` | schedule a follow-up; periodic publishes | workers |
| Realtime, notifications (`events/realtime.py`, `services/notifications/`) | set of sockets | connect, emit | all of them |
| Session recorder, adapters (`automation/`) | steps of a browser run | per-site heuristics | third-party pages |
| Frontend, extension, infrastructure (`src/frontend`, `src/chrome-extension`, `src/infra`) | | | the API |

Components interact in three ways: through documents that several processes save whole, through
the topics (at-least-once at best, re-queued behind newer messages on failure), and through
fire-and-forget calls whose failure is swallowed or, sometimes, raised.

**What is hard, and what makes each part correct**

* *Applications.* A browser run takes up to 15 minutes and ends with a save of what was read
  before it; meanwhile the user may cancel, retry, answer or queue again. Correct means: the daily
  cap is kept, an application shown as under way has somebody working on it, a message that fails
  is tried exactly `max_handle_attempts` times, a queued application gets its turn, a one-time code
  is used once.
* *Portals.* A fetch reads all portals at its start and saves each when its scrape ends; the user
  may re-authenticate, edit or delete one meanwhile. Correct means: a portal shown as synchronising
  is synchronising, a pause agrees with the failures that caused it and ends only for a reason, a
  deleted portal stays away.
* *Approvals.* A decision checks "pending" and saves several awaits later, and a batch counts
  against a limit that its own decisions do not move until workers finish.
* *Intake, mails, board.* A posting is looked up and inserted across awaits, and inserted before it is
  published; a mail is inserted before it is applied; a list is loaded before it is stored in the
  cache. Correct means: only overlapping requests store a posting or a mail twice, what is stored is
  published or applied unless something failed, an older mail does not undo a newer one, the user's
  setting of an account and the user's move of a job win.
* *Sessions, idempotency, limits.* Check-then-act across awaits: a refresh token is exchanged once
  per overlapping request, a logged out token stays out, a keyed request is executed once, the
  window admits its limit.
* *Browser runs.* An attempt is repeated when it raises, also after the site has taken the
  application; the password may be sent again; the portal document the run read is saved at its end.
  Correct means: one application per attempt, none with open questions, other sites' cookies kept.

`PROJECT.json` lists these hazards one by one at the line where each bites, with the properties
that would catch it going wrong.

## 2. Modules

| Module | What it is |
|---|---|
| `ApplyPipeline` | API handlers, topic, apply workers and rate limiter for the applications of one user |
| `ApprovalGate` | from a found job to the decision to apply: `job.match`, match worker, approvals, single and batch decisions |
| `RetryQueue` | the abstract promise of a worker topic; all three topics implement it |
| `PortalHealth` | the health of a portal as functions: `RecordSuccess`, `RecordFailure`, `Cured` |
| `PortalSync` | portal API, `job.fetch`, the fetch worker and the health updates of the apply worker |
| `JobIntake` | postings found by fetches or shared by the browser extension: deduplication, insert, publication |
| `EmailInbox` | IMAP accounts, stored mails, what a mail does to a job |
| `JobBoard` | moves and patches of jobs beside the workers' writes, and the cached list |
| `Sessions` | users, token pairs, blacklist |
| `HttpGuards` | the idempotency key and the rate limit around a request |
| `Breaker` | the circuit breaker |
| `Realtime` | sockets, notices, the Redis bridge, the notification worker |
| `PortalApply` | one call of `apply_with_retry`: attempts, log-in, form, submission, verification |
| `PortalLogin` | signing in to a portal, before a fetch or an application |
| `CookieVault` | the Workday portal's document with the cookies of each career site |
| `MCApplyPipeline`, `MCPortalSync`, `MCApprovalGate` | symmetry sets and initial healths for TLC |
| `MCRecords`, `MCServices` | several parts that share no state, checked side by side in one run |
| `ApplyPipelineProofs`, `ApplyRefinementProofs`, `PortalSyncProofs`, `ApprovalGateProofs` | theorems and proofs about the three composed systems |
| `RecordsProofs` | theorems and proofs about `JobIntake`, `EmailInbox` and `JobBoard` |
| `ServicesProofs`, `SessionsProofs`, `CookieVaultProofs` | theorems and proofs about the seven modules of `MCServices` |

### ApplyPipeline

Each API request (`c`) and each worker (`w`) has a position (`cpc`, `wpc`) and the copy it holds
(`cdoc`, `wdoc`). A position is a place between two awaits that touch the database or the topic.
`SaveCopy`, `SaveApp` and the like replace the stored document by the copy.

| Code | Actions |
|---|---|
| `ApplicationService.queue` :103-179 | `QueueReuse`/`QueueFresh`, `CreateApp`, `JobApplying`, `RequeuePending`, `ResaveActive`, `PublishJobApply` |
| `retry` :181-212, `cancel` :220-269 | `Retry`, `Cancel`, `SaveCopy`, `ReadReleased`, `ReleaseJob` |
| `submit_otp`, `answer_and_resume` | `SubmitOtp`, `AnswerAndResume` |
| `ApprovalService.decide` :209-288 | `Decide`, `RecordDecision`, `PublishJobApply` |
| `publish_job_apply`, `core/kafka.publish` | `PublishJobApply`, `PublishFails` (a send that timed out may still be delivered) |
| `BaseWorker.start`, `_route_failure` | `Receive`, `HandleRaises` with `RouteFailure`, `Return` |
| `ApplyWorker.handle` :77-379 | `Load`, `FindNone`, `InsertApp`, `CheckLimit`, `DeferApp`, `StartApp`, `FailEarly`, `AttachAdapter`, `SessionProgress`, `Finish`, `SaveApp`, `SaveJob`, `ScheduleFollowUp`, `Notify` |
| process death, container restart (`run_job.py`, `replicaRetryLimit`) | `Crash` with `Rerun`; `RequestBreaks` for a request, which also stands for a database call that raises in it |
| time | `CooldownOver`, `NewDay` |

Simplifications that keep what the properties see:

* a browser run is one step with any result; its progress saves are steps of their own;
* `Decide` reads the approval and asks the limiter in one step, `RecordDecision` saves approval and
  job in one; `QueueReuse`/`QueueFresh` read job and application together;
* a killed worker has only the message in hand delivered again, not earlier ones since the last
  commit;
* an API process that dies takes all its requests and inline tasks with it: that is one `RequestBreaks` or
  `Crash` for each, in any order;
* a publish that fails inside `_route_failure` leaves the worker loop and stops the process
  (`workers/base.py:74`): that is `Crash` with a lost message;
* one user: messages are keyed by the user, so other users are other partitions. The success
  cooldown uses `applied_at`, which equals `updated_at` while the status is `success`.

### PortalSync and PortalHealth

A portal is its status, its marker (`sync_started_at` is set) and its health. A fetch worker holds
copies of all portals (`wcopy`) from `Receive` on, which is `list_for_user`. The order in which it
goes through them is arbitrary.

| Code | Actions |
|---|---|
| `PortalService.update` :160-191 | `Update`, `SavePatch` twice (it stops between them at cookies that cannot be read) |
| `sync` :200-266 | `Sync`, `SaveMark`, `PublishJobFetch`/`PublishFails`, `Unmark`, `SyncBreaks` |
| `reauth` :268-294 | `Reauth`, `SavePatch`, `RereadToCure`, `SaveCure`, `RereadToSync`, then `sync` |
| `delete` :296-298 | `Delete` |
| `AutomationService.run`, fan-out, scheduler tick | `RunFetch` |
| `FetchWorker._handle_user` | `Receive`, `Skip`, `Fetch`, `SaveCookies`, `FetchSucceeds`/`SuccessNotSaved`, `FetchDone`, `FetchFails` |
| `handle`'s `finally`, `_clear_sync_started` | `LoopEnds`/`HandleRaises` with `ReadMarkers`, `ClearMarker`, `ClearFails` |
| `BaseWorker.start`, `_route_failure`; `_inline_fetch` | `HandleEnds`, `HandleFails`; `InlineFails`, `InlineCleanup` |
| process death | `Crash` |
| `ApplyWorker.handle` :147, :335, :377 | `ApplyOn`, `ApplyRecords`, `ApplyEnds` |

Simplifications: the two saves after a failed login are one (the second only sets the status that the
first may have set); the `finally` reads all portals at once and saves them one by one, as the code
does; credentials, cookies and TOTP secrets have no content; the user of a message exists;
portal creation and the container-job fallback for fetches are left out; the intake of jobs is `JobIntake`. A save
is Beanie's `Document.save`, an upsert: it inserts a document that has been deleted. That and the
atomicity of one save are the only things assumed of the store.

### ApprovalGate

A match worker (`w`) is a consumer of `job.match` or an in-process task; a request (`c`) decides one
approval or a batch. Worker and request hold positions like those of `ApplyPipeline`. The worker's
copy of the job is only its status (`wcopy`), the field that its later saves write.

| Code | Actions |
|---|---|
| insert and `publish_job_match` in `FetchWorker._handle_user` :355-381, `ingest_external` | `Found` with `PublishJobMatch` |
| `AutomationService.run`, `_run_worker_inline` :28-70 | `RunMatch`, `NextNew` |
| `BaseWorker.start`, `_route_failure`; `_inline_match` | `Receive`, `HandleRaises` with `RouteFailure` |
| `MatchWorker.handle` :30-73, `match_job` | `Load`, `SaveScore`, `BelowThreshold`, `MarkApplying`, `SendApply` |
| `ApprovalService.enqueue` :28-65 | `FindPending`, `Insert`, `MarkAwaiting`, `Notify` |
| `decide` :209-288 | `Decide`, `CheckLimit`, `SaveDecision`, `SaveJob`, `PublishJobApply`/`PublishFails`, `DecideBreaks` |
| `batch_decide` :290-367 | `Batch`, then `BatchNext` and the steps of `decide`, `BatchEnds` |
| process death | `Crash` |
| `ApplyWorker.handle`, the clock | `Applied`, `CooldownEnds` |

Simplifications: one user; the score is good or not, and above the threshold or not, independently;
the apply worker is one step with any outcome, because `ApplyPipeline` has its steps, and the
limiter is the number of applications submitted today and a cooldown; board moves, job updates and
the resuming or deleting of a job by the user are left out, and so is the limit of 50 jobs of "Run
match"; a task starts when a worker of the model is idle; the approvals of a batch are taken in any
order; after `Notify` and `SaveJob` only audit entries and events follow, whose failure changes no
document of this model except that it fails the handler again, which `CanRaise` covers before them.

### JobIntake, EmailInbox, JobBoard

These three share no state and are checked side by side in `MCRecords`.

| Code | Actions |
|---|---|
| `FetchWorker._handle_user` :339-400, `ingest_external` :356-405 | `StartFetch`, `StartShare`, `InsertJob`, `Remember`, `Publish`/`PublishJobFails`, `MarkDuplicate`, `AskExternalId` |
| `DedupeService.is_duplicate` | `AskBloom`/`BloomFails`, `AskDatabase` |
| `EmailInboxService.sync_account` :158-222, `sync_all` | `StartSync`, `ConnectNotFound`, `Fetch`/`FetchFails`, `Look`, `Insert`, `FinishSync` |
| `ingest_raw`, `apply_message`, `ignore_message` | `Ingest`, `ApplyByHand`; `LoadMessage`, `SaveJob`/`CreateJob`/`SkipJob`, `Remind`, `MarkApplied`, `Break`; `IgnoreMessage` |
| `upsert_account`, `delete_account` | `EditAccount`, `SaveEdit`, `DeleteAccount` |
| `JobService.list_jobs`, `_invalidate_job_cache` | `ListMisses`, `ListLoads`, `ListFills`/`ListNotStored`; `Scan`, `Delete`/`InvalidateFails`, `CacheExpires` |
| `move_to_column`, `track`, `ignore`, `update`, `get` | `Move`, `Mark`, `Patch`, `Get`; `Read`, `Save`, `View`, `Touch` |
| `ApplicationService.queue`, `cancel_active_for_job`, `cancel` as a move calls them | `Queue`, `QueueJob`, `Requeue`; `FindActive`, `CancelGet`, `CancelSave`, `CancelJob`, `Approve` |
| workers, mails and other requests | `JobWritten`, `AppWritten` |

A posting is what it has in common with others: a link, a hash of its words, a portal id. A mail is its
uid, its Message-ID header if it has one, the event the classifier reads in it and the jobs it names:
constants of a run, since the classifier's rules are wording. `MessageId` is the name it is stored under,
`uid-<n>` without the header (`services/imap_client.py:118`), which another account may use as well; a
mail that is pasted by hand takes the same name here. A list is the version of the board (the number of saves
before it) it was loaded at. Simplifications: the query for an applied job and the one for a link are
one step; `ignore_message` reads and saves in one. A job of the board has several applications, each
active, ended or not yet created, since a failed one can be retried beside one queued meanwhile.
`AppWritten` makes any of them active or ends it without a look at the job, as `retry`, `submit_otp` and the
worker's progress saves do (`workers/apply_worker.py:817`); `JobWritten` gives a job any status that
workers and mails write. The copy a worker holds is not followed here but in `ApplyPipeline`.

### Sessions, HttpGuards, Breaker, Realtime

| Code | Actions |
|---|---|
| `AuthService.register`, `login`, `refresh`, `logout`, `_issue_tokens` | `FindEmail`, `CreateUser`, `LogIn`; `GetValid`, `UserOfRefresh`, `RevokeOld`, `IssueTokens`; `RevokeAtLogout`, `BlacklistToken` |
| `get_current_user`, the web socket's `_authenticate` | `DecodeToken`, `CheckBlacklist`/`BlacklistAway` |
| `IdempotencyMiddleware` | `Arrive`, `LookUpKey`/`LookUpFails`, `HandlerSucceeds`/`HandlerRefuses`, `RecordResponse`/`RecordFails`, `RecordExpires` |
| `RateLimitMiddleware`, the window's Lua script | `TakeTime`, `RunScript`/`ScriptFails` |
| `CircuitBreaker` | `Passes`/`Refuses`, `RecordSuccess`, `RecordFailure`, `CallCancelled` |
| `ConnectionManager`, the endpoint, `_bridge_loop` | `ConnectSocket`, `DisconnectSocket`, `SendOne`, `EndSend`; `Subscribe`, `BridgeHears`, `BridgeBreaks` |
| `NotificationDispatcher.dispatch`, `NotificationWorker` | `StoreNotice`, `PublishNotice`/`PublishNoticeFails`, `EmitNotice`, `EmitLocally`; `WorkerStores` |

Time is a counter (`now`, `clock`, `beat`). `TakeTime` and `RunScript` are two steps: the middleware
reads the clock of its own process and the script runs later, in whatever order Redis gets the
scripts; `MaxLag` bounds the distance. A logout is sent with the refresh token of the pair whose
access token it revokes. One user has all the sockets and the notices.

### PortalApply, PortalLogin, CookieVault

| Code | Actions |
|---|---|
| `BasePortal.apply_with_retry`, `BrowserManager.session`, the worker's timeout | `Launch`, `LoggedIn`, `HandleCaptcha`, `LeaveBrowser`, `AttemptRaises`, `WorkerTimesOut` |
| `apply` of LinkedIn, Indeed, Workday and the others; `external_nav.py`, `ats.py` | `OpenLinkedIn`, `EasyApplyModal`, `OpenIndeed`, `FollowCompanyLink`, `FollowIndeedLink`, `OpenCompany`, `OpenBoard`, `LandOnPage` |
| `WorkdayPortal.apply_landed` | `LandOnWorkday`, `HandleVerification`, `AccountWall`, `SignIn`, `CreateAccount`, `WallStays`, `WorkdayAsksAgain` |
| the loops over the pages, `choice_fields.py`, `form_fields.py`, `verify.py` | `UploadDocuments`, `FillChoices`, `FillLists`, `AnswerFields`/`UnknownQuestion`, `NextPage`, `SubmitForm`; `SeesApplied`, `VerifySuccess`, `VerifyFails` |
| `login` of LinkedIn, Indeed and the generic portal | `OpenPortal`, `LinkedInSession`, `IndeedSession`, `LinkedInForm`, `FieldMissing`, `SendPassword`, `GenericLogin`, `CheckLogin` |
| `BasePortal.fetch_jobs`, `auth.ensure_logged_in` | `CaptchaHook`, `EnsureLoggedIn`, `ReadListings`, `Fault` |
| `ApplyWorker.handle` :266-335, `_persist_result_cookies`, `workday_session.py` | `Begin`, `Browse`, `RunRaises`, `RunReturns`, `RunCrashes`, `SaveIdentity`, `Reload`, `Persist`/`PersistFails`, `SaveHealth` |
| `PortalService.update` | `OpenEdit`, `SaveAccount`, then `Paste`/`PasteRefused` or `ChangeAccount` |

The web site is the environment of the first two: `site` and `account` are chosen at the start and do
not change during a call, and what a page shows may be anything the site may show. The one thing
assumed is that a site never shows an application it has not received. Cookies are their age.
Simplifications: Greenhouse, Lever and unknown sites are one driver, `page`, and a public job board
is `board`; Workday's first upload of the documents is the one of the first page; the two saves of
`update` are kept apart because a refused paste stops between them.

## 3. Runs

Every run terminates. Deadlock is not checked (`CHECK_DEADLOCK FALSE`), because the system
really stops: when the bounded requests are served and the topic is empty nothing happens.

| Run | Instance | Shows |
|---|---|---|
| `apply_kafka` | 1 job, 2 applications, 1 worker, 2 requests at once, all faults, a code, a midnight; 1.2 M states | `TypeOK`, `DailyCapOvershoot` (exact with one worker), `NoSilentOrphan`, `RetriesAreBounded` (refinement of `RetryQueue`) |
| `apply_azure` | 2 container jobs, 3 applications, crash and outage; 0.5 M | `DailyCapOvershoot` (at most one over), `NoSilentOrphan` |
| `apply_live` | 1 worker, 3 applications, raising handlers; 0.3 M | `QueuedIsPickedUp` under fairness |
| `portal_kafka` | 2 portals, 1 worker, 2 requests of 5 kinds, all faults; 0.16 M | `TypeOK`, `NoStuckMarker`, `FetchRetriesAreBounded` |
| `portal_inline` | 1 portal, 2 inline fetches, 1 apply worker, 2 requests, the code's thresholds; 0.8 M | `PausedExactly`, `PauseEndsByReauth`, `NoStuckMarker` |
| `gate_kafka` | 2 jobs, 2 approvals, 1 match worker, 3 requests one after the other, crash and outage; 0.5 M | `TypeOK`, `AskedOnce` (exactly one), `ActedOnOnce` (exactly one), `MatchRetriesAreBounded` |
| `gate_inline` | 1 job, 2 approvals, 2 match workers, 2 requests at once, approval required or not, raises and outages; 0.3 M | `NoForgottenJob` |
| `records` | `JobIntake`: 3 postings, 2 at once; `EmailInbox`: 2 accounts, 4 mails, 2 requests at once, 2 in all; `JobBoard`: 1 job with 2 applications, 2 requests at once, 2 saves; 1.0 M | the ten properties of the three modules |
| `services` | 2 requests, callers, sockets, notices or runs at once; one browser run of up to 3 attempts over every site; 1.0 M | the twelve properties of the seven modules |
| `approved_started` | one approval, nothing else | it is never started: violation of `ApprovedIsStarted` |
| `portal_deleted` | a fetch, then a delete | violation of `DeletedForGood` |
| `cookies_lost` | `CookieVault` by itself | violation of `RefreshedIsSaved` |

`records` and `services` are sums, not products: a behaviour chooses one part at its start (`part`) and
the others stay at their initial states, so that every part is explored in full and none multiplies
another. The parts share no variable in these modules; where components do interact (approval,
application, portal, topic) they are composed in `ApplyPipeline`, `ApprovalGate` and `PortalSync`.

Four more configurations show what section "Where the code and its words differ" says, and end with
a counterexample:

    tlc -config MCApplyCancelled.cfg MCApplyPipeline.tla  # CancelledIsNotRun
    tlc -config MCApplyOtp.cfg MCApplyPipeline.tla        # OtpUsedOnce
    tlc -config MCPortalReauth.cfg MCPortalSync.tla       # ReauthClearsPause
    tlc -config MCGateRunMatch.cfg MCApprovalGate.tla     # RunMatchScoresAll

*Why the bounds are enough.* The races are between two requests, a request and a worker, or two
workers over one document; each run has two of the actors it is about and enough requests
(`MaxRequests`) that one follows what the other did. `MaxHandleAttempts` is 2 instead of 3: one
retry and one burial is every branch of `_route_failure`. The daily cap is 1 with two or three
applications, so that it can be reached and overshot. `MaxCodes`, `MaxDays`, `MaxApplies` and `Apps`
bound what the environment may add. `apply_live` has an id for every application that can be
created, so that no worker waits for one. `portal_inline` starts after four or five failures, one
step from a pause, or paused. In the gate's runs two jobs let a batch pass the cap of 1 and a second match of
one job meet the approval of the first; the worst case of `AskedOnce` and `ActedOnOnce` with several
workers or requests is proved instead of run. `portal_kafka` is about markers and messages: there the score stays
put (decay and gain 0) and two failures pause. In `records`, a mailbox gets three mails, one more than the
window (`FetchLimit` 2), each of which may be pasted as well, and two are stored; a second account has a mail
that shares the uid of a first one, and neither has a Message-ID. Two requests to the inbox (`MaxCalls`)
overlap or follow each other; its properties are proved for any number. Two postings have one
portal id in other words and one has no link; two saves of the board let a list be loaded between a save and its
invalidation. In `services`, tokens live two ticks, so that one can be exchanged in its last; the
window is three ticks and the lag one, so that a late request can leave it early; the wizard has
two loops for forms of up to three pages, so that it can run out of them; the attempts are the code's
three.

*Fairness.* `FairSpec` gives each request and each worker weak fairness over its next step: the
event loop runs every ready task, and the slow calls are cut off by timeouts
(`workers/apply_worker.py:34-36`). Nothing is assumed about users, faults or the clock.
The modules of `records` and `services` state safety only: what they promise to happen eventually
depends on a user, a site or Redis coming back.

### The properties

* `DailyCapOvershoot`: fewer than `DailyCap + |Workers|` applications are shown as submitted today.
  The limiter counts when a worker starts and the count moves when it ends, so workers that
  overlap pass together. A retry of a submitted application takes it out of what is shown as
  submitted; the property is about what the limiter can see.
* `NoSilentOrphan`: an application that is queued, retrying or in progress has a message, a worker,
  a request or a dead-letter record that names it. The property lists the ways out that the code
  leaves open, each of which occurs: `queue()` re-saving an active copy, two applications of one
  job with a message that names only the job, a broker that is down after the save, a process that
  dies or a request that raises after the save, and, without Kafka, a handler that raises.
* `RetriesAreBounded`, `FetchRetriesAreBounded`: the topics implement `RetryQueue`.
* `QueuedIsPickedUp`: a pending application leaves that state, is parked by the limiter, or its
  message is dead-lettered.
* `NoStuckMarker`: "never leave `sync_started_at` stuck" (`workers/fetch_worker.py:154`). Holds
  however often handlers raise, because the `finally` covers what the message covers; it fails only
  where a copy with an old marker is saved back (`update`, `reauth` or an apply worker), the worker
  dies or cannot clear, or `sync()` raises between its save and its publish.
* `PausedExactly`: pause, failure count and score agree in the store and in all copies.
* `PauseEndsByReauth`: the branch of `record_success` that ends a pause is unreachable, since a
  paused portal is neither fetched nor applied on; a pause ends by `reauth` or by an older copy.
* `AskedOnce`: a job has one pending approval, or as many as workers that look and insert at the same
  time. With one partition and one consumer that is one; inline tasks overlap.
* `ActedOnOnce`: one message to the apply worker for each approval, or one for each of the requests
  that found it pending and overlap (a double click, a decision during a batch).
* `NoForgottenJob`: a job shown as awaiting approval, approved or applying has an approval that can
  be given, a request at work, or a message. The ways out occur, each of them: a publish or save
  that fails inside `decide` after the approval was saved, a process or an inline task that dies with
  its message, a re-scored job that falls below the threshold while it is applied for, a status of
  the match worker that a decision has overtaken (`enqueue` inserts the approval first and marks the
  job afterwards), and an apply worker that puts the application off or pauses it.
* `MatchRetriesAreBounded`: `job.match` implements `RetryQueue`.
* `StoredOnce`: two stored jobs of one link or portal id come from requests that overlapped. The exceptions
  are shares: one of a known link in other words, and one of a known portal id, which only fetches ask
  for, though of any job of the user, shared ones included (`workers/fetch_worker.py:346`).
* `StoredIsPublished`: a stored job not yet published is in the hands of the request that stored it; a
  refused publish or a crash is the only other way, and nobody tries again.
* `CursorPassesStoredMail`: the cursor of an account passes no mail that is not stored, unless a fetch
  left it out itself. It does: more than `limit` new mails, and the older of them are below the
  cursor for ever (`services/imap_client.py:104-107`). A mail without a Message-ID is taken for stored
  when one of its uid is, of any account of the user: the property follows the code there, and such a mail
  is lost.
* `StoredOncePerRequest`, `PendingIsHeld`: a mail is stored at most once for each overlapping request;
  one that was to be applied and is still pending is being applied, or its application raised.
* `OlderMailYields`: a synchronisation sets a job back to an older mail's status only beside another
  synchronisation or for a mail that a fetch had left out. By hand the user may do so.
* `UserSettingWins`: what was last asked of an account is stored, unless a synchronisation was running,
  which saves the account it read before: it undoes the edit and re-inserts a deleted account.
* `ListShowsMoves`: the cached list shows every move whose request has invalidated it, unless an older list
  was stored after that. A patch invalidates nothing.
* `TakenBackIsCancelled`: when a move back to "fetched" saves its status, the application that its look-up
  found is not active, whatever status the job has got meanwhile. Others of the job may be: those that
  were active beside it, since `cancel_active_for_job` cancels the one that `find_one` returns
  (`services/application_service.py:216`), and those that became so after the look-up, by another request
  or a worker's save.
* `SpentOnce`, `LoggedOutStaysOut`: a refresh token is exchanged at most as often as requests overlap
  on it (the code looks it up, then revokes it); a logged out access token is refused while Redis
  answers. When Redis is away the token is let in (`BlacklistAway`).
* `ExecutedOnce`: a keyed request is executed at most as often as requests with its key overlap, while
  its record lives.
* `WindowHolds`: the limit holds in any stretch of time shorter than the window by the largest lag.
* `NoCallTooSoon`: a call starts only with fewer failures than the threshold, or after the recovery
  time. How many start then is not bounded: a half-open breaker lets all through.
* `OwedIsOnItsWay`: a socket that was open when an event went out and stays open gets it, whatever
  happens to its neighbours. It promises nothing for events published while the bridge is not
  subscribed.
* `AskedBeforeSent`: a site receives only applications whose last page was answered in full, but for
  job boards, which are not asked, and for the page shown when the wizard's loops are used up.
* `OneSendPerAttempt`, `SeenIsNotSentAgain`: a second application in one call only after an attempt that
  raised with its own already received; none from an attempt that pauses; none where the adapter
  asks the site and the site says so.
* `PasswordSentOnce`: a fetch does not repeat a password that was refused. An application does: its
  retry makes no exception for `PortalAuthError`.
* `OthersKept`: a run changes neither the account nor other sites' cookies, unless the document was saved
  while it held its copy. Then it does: `SaveIdentity` and `SaveHealth` save the copy whole.

### Where the code and its words differ

Found by the runs `approved_started`, `portal_deleted` and `cookies_lost`:

1. `ApprovedIsStarted`: the worker inserts the application of an approved job before it asks the
   limiter, whose cooldown then sees this very application; the job is parked and nobody
   un-parks it (`workers/apply_worker.py:94`, `services/apply_rate_limit.py:78`).
2. `DeletedForGood`: a fetch that is under way when its portal is deleted inserts it again.
3. `RefreshedIsSaved`: `apply_with_retry` copies `last_cookies` inside the session, whose `finally`
   exports them (`automation/base/portal.py:229`, `automation/base/browser.py:203`). A first attempt
   saves no cookies, a second one those of the first.

Found by the four configurations above, which are not among the runs:

4. `CancelledIsNotRun`: a cancel recalls no message, and the worker gets the application by its id without
   a look at its status (`workers/apply_worker.py:87`): one that was queued and cancelled before its message
   was taken is started and sent. The user was told "no further apply attempts for this job"
   (`services/activity_narratives.py:40`), though `cancel` calls itself best-effort.
5. `OtpUsedOnce`: a code that arrived in the message also stays in the application's steps, and a
   later retry hands it out again (`workers/apply_worker.py:41`).
6. `ReauthClearsPause`: a fetch begun before a re-authentication saves its old copy with one more
   failure and pauses the portal again; the sync that the re-authentication queued is skipped
   (`workers/fetch_worker.py:449`).
7. `RunMatchScoresAll`: without Kafka, the notification of the first job that needs approval raises
   (`services/notifications/dispatcher.py:32`), and the task leaves its loop over the new jobs. With
   Kafka the message of "Run match" names no job, and the match worker dead-letters it.

And one stated in `PortalApply` that TLC refutes when it is added to `MCServices.cfg`:

8. `NeverAssumed`: a link with "success", "applied", "thank" or "confirmation" in it (say, a job called
   "Customer Success Manager") passes `verify_apply_success`, "never assume", although nothing was
   submitted; so does a job board, which is not asked (`automation/verify.py:43`).

## 4. Proofs

All theorems hold for any number of workers, requests, jobs, applications, portals, mails or sockets,
for all values of the limits, and in all three deployments where the specification has them. Every
invariant that a passing run checks is a theorem, and so is every action property and every refinement;
`QueuedIsPickedUp` alone stays with TLC.

**The three composed systems.** Each has an invariant of types first; the other arguments add to it
what they need.

* `TypeCorrect` (`ApplyPipelineProofs`): `Spec => []TypeOK`. `TypeOK` is not inductive: the counter of
  a message grows when its handler raises, so the invariant adds `AttemptsLeft`, that a message
  waiting or in hand has at least one attempt left.
* `DailyCapHolds`: `Spec => []DailyCapOvershoot`. The cap is about stored documents
  and the check about a count, so the invariant bounds a larger set: `Spent`, the applications
  submitted today together with those of workers that have passed the check, has at most
  `DailyCap + |Workers| - 1` members. `CopiesUnsubmitted` says that no copy waiting to be saved shows a
  submission that the store does not count, except a worker's own.
* `NobodyIsOrphaned`: `Spec => NoSilentOrphan`. A handler that raises gives its message back, which helps
  only if the message leads to the application the worker had. `FollowInv` says so: an application
  keeps its job for good (`Fixed` holds of every step), a message that names an application also names
  its job, and a worker past its look-up holds an application that its message leads to. It also says
  that a copy yet to be saved is of the application it replaces, that the copy of `cancel()` is
  cancelled, and that what a worker saves at its end is settled. The step lemmas (`AskKeeps`,
  `ServeKeeps`, `WorkKeeps`, `RaiseKeeps`, `TimeKeeps`) then show, actor by actor, that who lets go of an
  application has settled it or handed it on.
* `KafkaImplementsRetryQueue` (`ApplyRefinementProofs`), `FetchesImplementRetryQueue`
  (`PortalSyncProofs`), `MatchesImplementRetryQueue` (`ApprovalGateProofs`): every step of each
  system is a step of `RetryQueue` or leaves its variables alone. The first two are about Kafka, the
  third about every delivery but tasks in the API process; there `FromTopic` says that no message and no
  worker is such a task.
* `PortalTypes`, `PausesAreRight` (`PortalSyncProofs`): `Spec => []TypeOK`, `Spec => []PausedExactly`. Any
  copy may be saved at any time, so the invariant makes every copy good (`GoodDoc`), in requests and
  workers alike. The delicate step is `record_success`: applied to a paused portal it could leave the
  pause and the count in disagreement. `Fetching` and `AppliersGood` say that a worker that may
  record a success holds a copy that is not paused.
* `PausesEndByReauth`: `Spec => PauseEndsByReauth`, from the same invariant: the copies that workers
  save were not paused when `record_success` was applied, so a pause in the store ends only by the save
  of `reauth`, or of a copy that was read before.
* `MarkersAreCleared`: `Spec => NoStuckMarker`. `MarkInv` adds that the copy a request unmarks with has no
  marker, that a "Run fetch" holds no portal, and that the portals a worker has yet to go through are
  covered by its message: the `finally` reads the message and not the list the worker was at.
* `GateTypes`, `AskedOnceHolds`, `ActedOnOnceHolds` (`ApprovalGateProofs`). The types need
  that a message waiting or in hand has an attempt left (`Open`). For the other two the invariant
  counts what may still happen: `AskBound` bounds a job's pending approvals together with the workers
  that have looked and not inserted, and `ActBound` bounds the messages sent for an approval together
  with the requests that have found it pending and not yet published it. Once it is decided no
  request can join them (`Untouched` says that nothing was sent for an approval that is still
  pending).
* `NoJobIsForgotten`: `Spec => NoForgottenJob`. `FollowInv` says that the approval a worker is about to show
  was added and is for its job, that a message of the topic is about the job at hand only, and that an
  approval being decided was added.

**Records** (`RecordsProofs`). `RecordsTyped` puts the three type invariants together.

* `CursorSafe`: the cursor is stored from a copy that was read before the mails, so `CursorInv` says of each
  copy what the property says of each account, and of a synchronisation that every mail up to the
  highest uid it will write is stored, left out, or still on its list.
* `StoredOnceEach`, `PendingHeld`: a request comes to the insertion of a mail only if it has stored none with
  its Message-ID (`StoredInv`); a pending mail is the one its request is at (`PendingInv`).
* `SettingHolds`: a synchronisation that no edit has overlapped holds the setting that is stored
  (`SettingInv`).
* `OlderYields`: `OlderInv` follows the mails that have set jobs. A synchronisation that is alone goes
  through its list in the order of uids; what is ahead of it is newer than all it has applied, or was left
  out by an earlier fetch.
* `MovesShown`: a list in the hands of a request is of a version that was reached (`BoardInv`).
* `TakenBack`: what a move has left to itself (`Taken`) grows with every application that becomes active and
  shrinks only by the one it cancels, so an active one outside `left` is the one it is at (`Targeted`), and
  `CancelSave` ends that one before the job is read again.
* `StoredByOneOnce`, `StoredPublished`: what `DedupeService` answered to a request still holds of the jobs
  that the request itself has stored when it inserts (`Answered`), since nobody else stores them.

**Services** (`ServicesProofs`, `SessionsProofs`, `CookieVaultProofs`). `ServicesTyped` puts the seven type
invariants together.

* `BreakerSound`, `BreakerHolds`: `NoCallTooSoon` counts the time from the last failure,
  the code from the opening of the circuit. The invariant `BreakerInv` says when the two are one: the
  circuit is closed exactly below the threshold, and at or above it the last failure is what opened it.
* `AskedHolds`, `SendHolds`, `SeenHolds`: `SendInv` counts what the site has received against the attempts
  that have raised, and says where an attempt stands when it sends: with its page asked, or a board, or its
  loops used up. The attempt that has sent can only confirm and leave.
* `PasswordHolds`: `TriesInv` counts the passwords sent, with the one still to be sent by this attempt, against
  the attempts, and the attempts of a fetch against the errors that are no refusal.
* `WindowKept`: the script counts scores, the property the moments at which it ran. `RemainsInv` says that a
  request let through stays in the sorted set until the window less the largest lag has passed, so those
  of one stretch are all in the set when the last of them runs; `LagInv` bounds the lag.
* `ExecutedHolds`: `KeyInv` counts the executions of a key together with the requests that may still execute;
  while the response is not recorded they are at most the requests that have executed and not yet recorded.
* `OwedHolds`: `FanoutInv` says that a send works on one event, that the dispatcher's sends carry its own notice,
  and that only sockets found dead are removed; so a socket that is owed an event stays on some list.
* `SessionTypesHold`, `LoggedOutHolds`, `SpentHolds`. The invariant counts, for each
  pair, the pairs exchanged for it together with the requests that have found it valid: at most one for
  each request. Once it is revoked no request can join them. The logout needs that the blacklist entry
  is written with what is left of the token's life, whenever that is.
* `VaultSound`, `VaultHolds`: the copy of a run that no save has overtaken
  (`CopyIsDocument`) is the stored document, apart from its own site's cookies.

*Assumptions.* `PipelineAssumption`: limits are positive or natural numbers, workers and
applications are finite in number. `HealthAssumption`: the score that pauses is below the scores that
resume and that `reauth` sets. `GateAssumption`: approvals, workers and requests are finite in number, the limits
positive. `SyncAssumption`: portals start with a pause that agrees with their
failures. `InboxAssumption`: a uid names one mail of an account, as IMAP promises. `GuardAssumption`: requests
are finite in number, and a missing key is no key. `RealAssumption`: the bridge is not a notice. The other
modules assume only that limits and bounds are natural numbers, that requests are finite in
number and that there is a career site. TLC evaluates them in the runs.

*What proving found.* The first attempt at `MarkersAreCleared` failed although TLC had passed the property: a
disjunct of `Attended` in `PortalSync`, one column off, was read as part of an implication that any idle
worker fulfils, so that `NoStuckMarker` promised far less than its comment. As it stands now it
is checked in both portal runs and proved.

*Only model-checked.* Liveness and everything about ENABLED is out of the prover's reach: `QueuedIsPickedUp`
is checked under `FairSpec` in `apply_live`. The three properties whose runs end in a violation
are refuted by TLC's counterexamples.

## 5. Not modelled

* What pages, mails and postings say: selectors, typing, extraction of listings
  (`automation/portals`, `automation/selectors`), the wording rules of `email_classifier.py`, LLM
  scoring. What they return is a choice of the environment or a constant.
* Single-document reads and writes without interaction: settings, users, companies, onboarding,
  reports with their cache, audit, storage, the question bank.
* The recorder's list of steps: one run owns it; its saves are `SessionProgress`.
* What nothing calls: the distributed lock, counters and streams of `core/redis_features.py`,
  write-behind, `with_retry`. `CircuitBreaker` is called by nothing either; it is modelled because it
  is the part that goes wrong when somebody does.
* Encryption in the session vault, passwords and token signatures: right, or the request ends.
* Creation of portals and mail accounts (they are initial states), the container-job fallback of
  fetches and matches, the notification and report topics' retries.
* Frontend, browser extension, infrastructure, except the retry limit of container jobs.

## 6. Plan

Done: the modules, runs and theorems above. Left, in this order:

1. What `RetryQueue` itself promises as theorems of its own (a buried message has been handled exactly
   `MaxHandleAttempts` times; without deaths no message is lost), carried over to the three topics by
   the refinements.
2. Composition: the board's moves with the applications of `ApplyPipeline`; a browser run of
   `PortalApply` as the result of the apply worker's `Finish`; `CookieVault` with the fetch worker's saves.
3. An abstract notification channel that `Realtime` implements, and liveness of a notice once the bridge
   stays subscribed.
