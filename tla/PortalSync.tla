----------------------------- MODULE PortalSync -----------------------------
(***************************************************************************)
(* Synchronising the job portals of one user: the API handlers that start  *)
(* a synchronisation, edit, re-authenticate and delete a portal            *)
(* (PortalService), the job.fetch topic with its retry rule (BaseWorker),  *)
(* the fetch worker (FetchWorker), and the apply workers as far as they    *)
(* record the health of the portal they applied on.                        *)
(*                                                                         *)
(* All of them read a portal document, work on the copy and save it whole. *)
(* The fetch worker reads every portal of the user when it starts and      *)
(* holds the copies for as long as the scrapes before take.                *)
(*                                                                         *)
(* A document's save is Beanie's: an upsert, which inserts the document    *)
(* again when it has been deleted.                                         *)
(***************************************************************************)
EXTENDS PortalHealth, Sequences, FiniteSets

CONSTANTS
  Portals,            \* portal documents of the user
  Workers,            \* processes that run FetchWorker.handle
  Appliers,           \* processes that run ApplyWorker.handle
  Clients,            \* API requests that may be in progress at a time
  NoPortal,           \* absent reference; a message with it is for all portals
  InitialHealth,      \* healths the portals may have at first
  Kinds,              \* kinds of requests the user makes
  MaxHandleAttempts,  \* BaseWorker.max_handle_attempts
  Delivery,           \* "kafka" or "inline": what publish_job_fetch starts
  Faults,             \* which of "raise", "crash", "outage" may happen
  MaxRequests,        \* bound: API requests made
  MaxApplies          \* bound: applications tried on the portals

ASSUME SyncAssumption ==
  /\ NoPortal \notin Portals
  /\ InitialHealth \subseteq {h \in Health : PausedRightly(h)}
  /\ MaxHandleAttempts \in Nat \ {0}
  /\ Delivery \in {"kafka", "inline"}
  /\ MaxRequests \in Nat /\ MaxApplies \in Nat

VARIABLES
  db,         \* portals collection
  topic,      \* messages of job.fetch not yet taken, oldest first
  dlq,        \* messages sent to job.dlq
  wpc, wmsg, wtodo, wcur, wcopy, wraised,  \* per fetch worker: position, message,
              \* portals still to do, the one at hand, copies, whether it raised
  aportal, acopy, applies,  \* per apply worker: portal and copy; applications so far
  cpc, cop, cportal, ccopy, requests  \* per request: position, operation, portal, copy

busVars    == <<topic, dlq>>
workerVars == <<wpc, wmsg, wtodo, wcur, wcopy, wraised>>
applyVars  == <<aportal, acopy, applies>>
clientVars == <<cpc, cop, cportal, ccopy, requests>>
vars == <<db, topic, dlq, wpc, wmsg, wtodo, wcur, wcopy, wraised, aportal, acopy, applies,
          cpc, cop, cportal, ccopy, requests>>

-----------------------------------------------------------------------------
(* Documents and messages.                                                 *)

PortalStatus == {"connected", "disconnected", "error"}

\* marker: sync_started_at is set.
Portal == [status : PortalStatus \cup {"deleted"}, marker : BOOLEAN, health : Health]
NoCopy == [status |-> "deleted", marker |-> FALSE, health |-> NewHealth]

Present(doc) == doc.status # "deleted"
Existing     == {p \in Portals : Present(db[p])}
Unmarked(doc) == [doc EXCEPT !.marker = FALSE]

\* PortalHealthService.is_usable.  The score alone is what a pause ends at, too.
IsUsable(doc) == /\ ~doc.health.paused
                 /\ doc.status # "disconnected"
                 /\ doc.health.score > PauseScore

\* fresh: sent by a re-authentication.
Message == [portal : Portals \cup {NoPortal}, fresh : BOOLEAN, attempts : 0..MaxHandleAttempts]
NoMsg   == [portal |-> NoPortal, fresh |-> FALSE, attempts |-> 0]

Covers(m, p) == m.portal \in {NoPortal, p}

Save(p, doc) == db' = [db EXCEPT ![p] = doc]

-----------------------------------------------------------------------------
(* API requests.                                                           *)

Hold(c, op, pc, p, doc) ==
  /\ cpc[c] = "idle"
  /\ op \in Kinds
  /\ requests < MaxRequests
  /\ requests' = requests + 1
  /\ cpc' = [cpc EXCEPT ![c] = pc]
  /\ cop' = [cop EXCEPT ![c] = op]
  /\ cportal' = [cportal EXCEPT ![c] = p]
  /\ ccopy' = [ccopy EXCEPT ![c] = doc]
  /\ UNCHANGED <<busVars, workerVars, applyVars>>

\* The next step of the request, with the copy it goes on with.
Continue(c, pc, doc) ==
  /\ cpc' = [cpc EXCEPT ![c] = pc]
  /\ ccopy' = [ccopy EXCEPT ![c] = doc]
  /\ UNCHANGED <<cop, cportal, requests>>

Reply(c) ==
  /\ cpc' = [cpc EXCEPT ![c] = "idle"]
  /\ cop' = [cop EXCEPT ![c] = "none"]
  /\ cportal' = [cportal EXCEPT ![c] = NoPortal]
  /\ ccopy' = [ccopy EXCEPT ![c] = NoCopy]
  /\ UNCHANGED requests

\* sync() marks its copy, and no longer shows the error of the last run.
Marked(doc) == [doc EXCEPT !.marker = TRUE,
                           !.status = IF @ = "error" THEN "connected" ELSE @]

Sync(c, p) ==
  /\ p \in Existing
  /\ Hold(c, "sync", "mark", p, Marked(db[p]))
  /\ UNCHANGED db

\* update(): new credentials, cookies or proxy, or a status.
Update(c, p, status) ==
  /\ p \in Existing
  /\ Hold(c, "update", "patch", p, [db[p] EXCEPT !.status = status])
  /\ UNCHANGED db

\* reauth() begins with an update().
Reauth(c, p) ==
  /\ p \in Existing
  /\ Hold(c, "reauth", "patch", p, db[p])
  /\ UNCHANGED db

\* A fetch of all portals: by hand, by the scheduler's tick or its fan-out.
RunFetch(c) ==
  /\ Hold(c, "fetch", "publish", NoPortal, NoCopy)
  /\ UNCHANGED db

Delete(c, p) ==
  /\ p \in Existing
  /\ cpc[c] = "idle"
  /\ "delete" \in Kinds
  /\ requests < MaxRequests
  /\ requests' = requests + 1
  /\ db' = [db EXCEPT ![p] = NoCopy]
  /\ UNCHANGED <<busVars, workerVars, applyVars, cpc, cop, cportal, ccopy>>

\* update() saves its copy twice, before and after it has changed the cookies, and
\* stops between them at cookies it cannot read.
SavePatch(c) ==
  /\ cpc[c] \in {"patch", "patched"}
  /\ Save(cportal[c], ccopy[c])
  /\ \/ cpc[c] = "patch" /\ Continue(c, "patched", ccopy[c])
     \/ cpc[c] = "patch" /\ Reply(c)
     \/ cpc[c] = "patched" /\ cop[c] = "update" /\ Reply(c)
     \/ cpc[c] = "patched" /\ cop[c] = "reauth" /\ Continue(c, "reread", NoCopy)
  /\ UNCHANGED <<busVars, workerVars, applyVars>>

\* reauth() reads the portal again, unless it is gone now.
RereadToCure(c) ==
  /\ cpc[c] = "reread"
  /\ IF cportal[c] \in Existing
     THEN Continue(c, "cure", [db[cportal[c]] EXCEPT !.health = Cured(@),
                                                     !.status = "connected"])
     ELSE Reply(c)
  /\ UNCHANGED <<db, busVars, workerVars, applyVars>>

SaveCure(c) ==
  /\ cpc[c] = "cure"
  /\ Save(cportal[c], ccopy[c])
  /\ Continue(c, "resync", NoCopy)
  /\ UNCHANGED <<busVars, workerVars, applyVars>>

\* and ends with a sync() of its own.
RereadToSync(c) ==
  /\ cpc[c] = "resync"
  /\ IF cportal[c] \in Existing
     THEN Continue(c, "mark", Marked(db[cportal[c]]))
     ELSE Reply(c)
  /\ UNCHANGED <<db, busVars, workerVars, applyVars>>

SaveMark(c) ==
  /\ cpc[c] = "mark"
  /\ Save(cportal[c], ccopy[c])
  /\ Continue(c, "publish", ccopy[c])
  /\ UNCHANGED <<busVars, workerVars, applyVars>>

Request(c) == [portal |-> cportal[c], fresh |-> cop[c] = "reauth", attempts |-> 0]

PublishJobFetch(c) ==
  /\ cpc[c] = "publish"
  /\ topic' = Append(topic, Request(c))
  /\ Reply(c)
  /\ UNCHANGED <<db, dlq, workerVars, applyVars>>

\* The broker is down: sync() takes its marker back.  A send that only timed out
\* may yet reach the broker.
PublishFails(c) ==
  /\ "outage" \in Faults
  /\ cpc[c] = "publish"
  /\ \/ UNCHANGED topic
     \/ Delivery = "kafka" /\ topic' = Append(topic, Request(c))
  /\ IF cop[c] = "fetch" THEN Reply(c) ELSE Continue(c, "unmark", Unmarked(ccopy[c]))
  /\ UNCHANGED <<db, dlq, workerVars, applyVars>>

Unmark(c) ==
  /\ cpc[c] = "unmark"
  /\ Save(cportal[c], ccopy[c])
  /\ Reply(c)
  /\ UNCHANGED <<busVars, workerVars, applyVars>>

\* The "Sync queued" log entry cannot be written: sync() raises with its marker set.
SyncBreaks(c) ==
  /\ "raise" \in Faults
  /\ cpc[c] = "publish" /\ cop[c] # "fetch"
  /\ Reply(c)
  /\ UNCHANGED <<db, busVars, workerVars, applyVars>>

-----------------------------------------------------------------------------
(* FetchWorker.handle.                                                     *)

Keep(w, doc) == wcopy' = [wcopy EXCEPT ![w][wcur[w]] = doc]
WGoto(w, pc) == wpc' = [wpc EXCEPT ![w] = pc]

Return(w) ==
  /\ wpc' = [wpc EXCEPT ![w] = "idle"]
  /\ wmsg' = [wmsg EXCEPT ![w] = NoMsg]
  /\ wtodo' = [wtodo EXCEPT ![w] = {}]
  /\ wcur' = [wcur EXCEPT ![w] = NoPortal]
  /\ wcopy' = [wcopy EXCEPT ![w] = [p \in Portals |-> NoCopy]]
  /\ wraised' = [wraised EXCEPT ![w] = FALSE]

\* The next message, and list_for_user.  The copies of all portals are read here.
Receive(w) ==
  /\ wpc[w] = "idle"
  /\ topic # <<>>
  /\ wmsg' = [wmsg EXCEPT ![w] = Head(topic)]
  /\ topic' = Tail(topic)
  /\ wcopy' = [wcopy EXCEPT ![w] = db]
  /\ wtodo' = [wtodo EXCEPT ![w] = {p \in Existing : Covers(Head(topic), p)}]
  /\ WGoto(w, "next")
  /\ UNCHANGED <<db, dlq, wcur, wraised, applyVars, clientVars>>

\* Disconnected or unhealthy: passed over, and its marker taken back.
Skip(w, p) ==
  /\ wpc[w] = "next"
  /\ p \in wtodo[w]
  /\ ~IsUsable(wcopy[w][p])
  /\ IF wcopy[w][p].marker THEN Save(p, Unmarked(wcopy[w][p])) ELSE UNCHANGED db
  /\ wcopy' = [wcopy EXCEPT ![w][p] = Unmarked(@)]
  /\ wtodo' = [wtodo EXCEPT ![w] = @ \ {p}]
  /\ UNCHANGED <<busVars, wpc, wmsg, wcur, wraised, applyVars, clientVars>>

\* Mutant: a portal is fetched whether it is usable or not.
FetchPaused(w, p) ==
  /\ wpc[w] = "next"
  /\ p \in wtodo[w]
  /\ wcur' = [wcur EXCEPT ![w] = p]
  /\ wtodo' = [wtodo EXCEPT ![w] = @ \ {p}]
  /\ WGoto(w, "fetch")
  /\ UNCHANGED <<db, busVars, wmsg, wcopy, wraised, applyVars, clientVars>>

Fetch(w, p) ==
  /\ wpc[w] = "next"
  /\ p \in wtodo[w]
  /\ IsUsable(wcopy[w][p])
  /\ wcur' = [wcur EXCEPT ![w] = p]
  /\ wtodo' = [wtodo EXCEPT ![w] = @ \ {p}]
  /\ WGoto(w, "fetch")
  /\ UNCHANGED <<db, busVars, wmsg, wcopy, wraised, applyVars, clientVars>>

\* The scrape ends with cookies of an authenticated session.
SaveCookies(w) ==
  /\ wpc[w] = "fetch"
  /\ Save(wcur[w], wcopy[w][wcur[w]])
  /\ WGoto(w, "scraped")
  /\ UNCHANGED <<busVars, wmsg, wtodo, wcur, wcopy, wraised, applyVars, clientVars>>

\* record_success and record_failure on the copy: the end of a pause shows as
\* connected, a failure that pauses as error.
Succeeding(doc) ==
  LET health == RecordSuccess(doc.health)
  IN  [doc EXCEPT !.health = health,
                  !.status = IF doc.health.paused /\ ~health.paused THEN "connected" ELSE @]

Failing(doc) ==
  LET health == RecordFailure(doc.health)
  IN  [doc EXCEPT !.health = health,
                  !.status = IF MustPause(health) THEN "error" ELSE @]

Succeeded(doc) == Succeeding([doc EXCEPT !.marker = FALSE, !.status = "connected"])

FetchSucceeds(w) ==
  /\ wpc[w] \in {"fetch", "scraped"}
  /\ Keep(w, Succeeded(wcopy[w][wcur[w]]))
  /\ Save(wcur[w], Succeeded(wcopy[w][wcur[w]]))
  /\ WGoto(w, "recorded")
  /\ UNCHANGED <<busVars, wmsg, wtodo, wcur, wraised, applyVars, clientVars>>

\* Its save raises: the copy has counted the success all the same.
SuccessNotSaved(w) ==
  /\ "raise" \in Faults
  /\ wpc[w] \in {"fetch", "scraped"}
  /\ Keep(w, Succeeded(wcopy[w][wcur[w]]))
  /\ WGoto(w, "unsaved")
  /\ UNCHANGED <<db, busVars, wmsg, wtodo, wcur, wraised, applyVars, clientVars>>

FetchDone(w) ==
  /\ wpc[w] = "recorded"
  /\ wcur' = [wcur EXCEPT ![w] = NoPortal]
  /\ WGoto(w, "next")
  /\ UNCHANGED <<db, busVars, wmsg, wtodo, wcopy, wraised, applyVars, clientVars>>

\* The failure is counted, and a failed login shows as error.
Failed(doc, login) ==
  [Failing(Unmarked(doc)) EXCEPT !.status = IF login THEN "error" ELSE @]

\* Any exception of the portal's try block, also one after the success was
\* recorded: the same copy then counts a failure.
FetchFails(w, login) ==
  /\ \/ wpc[w] \in {"fetch", "scraped"}
     \/ wpc[w] \in {"recorded", "unsaved"} /\ "raise" \in Faults /\ ~login
  /\ Keep(w, Failed(wcopy[w][wcur[w]], login))
  /\ Save(wcur[w], Failed(wcopy[w][wcur[w]], login))
  /\ wcur' = [wcur EXCEPT ![w] = NoPortal]
  /\ WGoto(w, "next")
  /\ UNCHANGED <<busVars, wmsg, wtodo, wraised, applyVars, clientVars>>

\* Mutant: the finally reads the markers of a message for one portal only.
ReadMarkersOfOne(w) ==
  /\ wcopy' = [wcopy EXCEPT ![w] = db]
  /\ wtodo' = [wtodo EXCEPT ![w] = {p \in Existing : wmsg[w].portal = p /\ db[p].marker}]
  /\ wcur' = [wcur EXCEPT ![w] = NoPortal]
  /\ WGoto(w, "clear")

\* _clear_sync_started, in the finally of handle(): the portals are read again.
ReadMarkers(w) ==
  /\ wcopy' = [wcopy EXCEPT ![w] = db]
  /\ wtodo' = [wtodo EXCEPT ![w] = {p \in Existing : Covers(wmsg[w], p) /\ db[p].marker}]
  /\ wcur' = [wcur EXCEPT ![w] = NoPortal]
  /\ WGoto(w, "clear")

LoopEnds(w) ==
  /\ wpc[w] = "next" /\ wtodo[w] = {}
  /\ ReadMarkers(w)
  /\ UNCHANGED <<db, busVars, wmsg, wraised, applyVars, clientVars>>

\* An await outside the try of a portal raises, or the saves of its except branch.
HandleRaises(w) ==
  /\ "raise" \in Faults
  /\ wpc[w] \in {"next", "fetch", "scraped", "recorded", "unsaved"}
  /\ wraised' = [wraised EXCEPT ![w] = TRUE]
  /\ ReadMarkers(w)
  /\ UNCHANGED <<db, busVars, wmsg, applyVars, clientVars>>

ClearMarker(w, p) ==
  /\ wpc[w] = "clear"
  /\ p \in wtodo[w]
  /\ Save(p, Unmarked(wcopy[w][p]))
  /\ wtodo' = [wtodo EXCEPT ![w] = @ \ {p}]
  /\ UNCHANGED <<busVars, wpc, wmsg, wcur, wcopy, wraised, applyVars, clientVars>>

\* A failure to clear is logged and no more.
ClearFails(w) ==
  /\ "raise" \in Faults
  /\ wpc[w] = "clear" /\ wtodo[w] # {}
  /\ wtodo' = [wtodo EXCEPT ![w] = {}]
  /\ UNCHANGED <<db, busVars, wpc, wmsg, wcur, wcopy, wraised, applyVars, clientVars>>

HandleEnds(w) ==
  /\ wpc[w] = "clear" /\ wtodo[w] = {}
  /\ ~wraised[w]
  /\ Return(w)
  /\ UNCHANGED <<db, busVars, applyVars, clientVars>>

Counted(m) == [m EXCEPT !.attempts = @ + 1]

\* Mutant: one more attempt than max_handle_attempts.
RouteFailureLate(m) ==
  \/ m.attempts + 1 > MaxHandleAttempts /\ dlq' = Append(dlq, Counted(m)) /\ UNCHANGED topic
  \/ m.attempts + 1 <= MaxHandleAttempts /\ topic' = Append(topic, Counted(m)) /\ UNCHANGED dlq

\* BaseWorker._route_failure.
RouteFailure(m) ==
  \/ m.attempts + 1 >= MaxHandleAttempts /\ dlq' = Append(dlq, Counted(m)) /\ UNCHANGED topic
  \/ m.attempts + 1 < MaxHandleAttempts /\ topic' = Append(topic, Counted(m)) /\ UNCHANGED dlq

HandleFails(w) ==
  /\ Delivery = "kafka"
  /\ wpc[w] = "clear" /\ wtodo[w] = {}
  /\ wraised[w]
  /\ RouteFailure(wmsg[w])
  /\ Return(w)
  /\ UNCHANGED <<db, applyVars, clientVars>>

\* _inline_fetch: the portal the message names is read once more ...
InlineFails(w) ==
  /\ Delivery = "inline"
  /\ wpc[w] = "clear" /\ wtodo[w] = {}
  /\ wraised[w]
  /\ IF wmsg[w].portal \in Existing
     THEN /\ WGoto(w, "cleanup")
          /\ wcopy' = [wcopy EXCEPT ![w] = db]
          /\ UNCHANGED <<wmsg, wtodo, wcur, wraised>>
     ELSE Return(w)
  /\ UNCHANGED <<db, busVars, applyVars, clientVars>>

\* ... and counts the failure, whether it was usable or not.
InlineCleanup(w) ==
  /\ wpc[w] = "cleanup"
  /\ Save(wmsg[w].portal, Failed(wcopy[w][wmsg[w].portal], FALSE))
  /\ Return(w)
  /\ UNCHANGED <<busVars, applyVars, clientVars>>

\* The process dies; the message is lost or, with Kafka, delivered again.
Crash(w) ==
  /\ "crash" \in Faults
  /\ wpc[w] # "idle"
  /\ Return(w)
  /\ \/ UNCHANGED busVars
     \/ Delivery = "kafka" /\ topic' = <<wmsg[w]>> \o topic /\ UNCHANGED dlq
  /\ UNCHANGED <<db, applyVars, clientVars>>

-----------------------------------------------------------------------------
(* ApplyWorker.handle, as far as it reads and writes the portal.           *)

ApplyOn(a, p) ==
  /\ aportal[a] = NoPortal
  /\ p \in Existing
  /\ IsUsable(db[p])
  /\ applies < MaxApplies
  /\ applies' = applies + 1
  /\ aportal' = [aportal EXCEPT ![a] = p]
  /\ acopy' = [acopy EXCEPT ![a] = db[p]]
  /\ UNCHANGED <<db, busVars, workerVars, clientVars>>

\* The run's outcome is recorded; a paused application or a crash records none.
ApplyRecords(a, doc) ==
  /\ aportal[a] # NoPortal
  /\ Save(aportal[a], doc)
  /\ aportal' = [aportal EXCEPT ![a] = NoPortal]
  /\ acopy' = [acopy EXCEPT ![a] = NoCopy]
  /\ UNCHANGED <<busVars, workerVars, applies, clientVars>>

ApplyEnds(a) ==
  /\ aportal[a] # NoPortal
  /\ aportal' = [aportal EXCEPT ![a] = NoPortal]
  /\ acopy' = [acopy EXCEPT ![a] = NoCopy]
  /\ UNCHANGED <<db, busVars, workerVars, applies, clientVars>>

-----------------------------------------------------------------------------

Init ==
  /\ db \in [Portals -> {[status |-> "connected", marker |-> FALSE, health |-> h] :
                          h \in InitialHealth}]
  /\ topic = <<>> /\ dlq = <<>>
  /\ wpc = [w \in Workers |-> "idle"]
  /\ wmsg = [w \in Workers |-> NoMsg]
  /\ wtodo = [w \in Workers |-> {}]
  /\ wcur = [w \in Workers |-> NoPortal]
  /\ wcopy = [w \in Workers |-> [p \in Portals |-> NoCopy]]
  /\ wraised = [w \in Workers |-> FALSE]
  /\ aportal = [a \in Appliers |-> NoPortal]
  /\ acopy = [a \in Appliers |-> NoCopy]
  /\ applies = 0
  /\ cpc = [c \in Clients |-> "idle"]
  /\ cop = [c \in Clients |-> "none"]
  /\ cportal = [c \in Clients |-> NoPortal]
  /\ ccopy = [c \in Clients |-> NoCopy]
  /\ requests = 0

Ask(c) ==
  \/ RunFetch(c)
  \/ \E p \in Portals : \/ Sync(c, p) \/ Reauth(c, p) \/ Delete(c, p)
                        \/ \E s \in PortalStatus : Update(c, p, s)

Serve(c) ==
  \/ SavePatch(c) \/ RereadToCure(c) \/ SaveCure(c) \/ RereadToSync(c) \/ SaveMark(c)
  \/ PublishJobFetch(c) \/ PublishFails(c) \/ Unmark(c) \/ SyncBreaks(c)

Work(w) ==
  \/ Receive(w)
  \/ \E p \in Portals : Skip(w, p) \/ Fetch(w, p) \/ ClearMarker(w, p)
  \/ SaveCookies(w) \/ FetchSucceeds(w) \/ SuccessNotSaved(w) \/ FetchDone(w)
  \/ \E login \in BOOLEAN : FetchFails(w, login)
  \/ LoopEnds(w) \/ HandleRaises(w) \/ ClearFails(w) \/ HandleEnds(w) \/ HandleFails(w)
  \/ InlineFails(w) \/ InlineCleanup(w) \/ Crash(w)

Apply(a) ==
  \/ \E p \in Portals : ApplyOn(a, p)
  \/ \E doc \in {Succeeding(acopy[a]), Failing(acopy[a])} : ApplyRecords(a, doc)
  \/ ApplyEnds(a)

Next ==
  \/ \E c \in Clients : Ask(c) \/ Serve(c)
  \/ \E w \in Workers : Work(w)
  \/ \E a \in Appliers : Apply(a)

Spec == Init /\ [][Next]_vars

-----------------------------------------------------------------------------
(* Properties.                                                             *)

RequestsOK ==
  /\ cpc \in [Clients -> {"idle", "patch", "patched", "reread", "cure", "resync", "mark",
                          "publish", "unmark"}]
  /\ cop \in [Clients -> {"none", "sync", "update", "reauth", "fetch"}]
  /\ cportal \in [Clients -> Portals \cup {NoPortal}]
  /\ ccopy \in [Clients -> Portal]
  /\ requests \in 0..MaxRequests

WorkersOK ==
  /\ wpc \in [Workers -> {"idle", "next", "fetch", "scraped", "recorded", "unsaved",
                          "clear", "cleanup"}]
  /\ wmsg \in [Workers -> Message]
  /\ wtodo \in [Workers -> SUBSET Portals]
  /\ wcur \in [Workers -> Portals \cup {NoPortal}]
  /\ wcopy \in [Workers -> [Portals -> Portal]]
  /\ wraised \in [Workers -> BOOLEAN]

AppliersOK ==
  /\ aportal \in [Appliers -> Portals \cup {NoPortal}]
  /\ acopy \in [Appliers -> Portal]
  /\ applies \in 0..MaxApplies

\* Every document, copy and message is of its type: a score stays within its range,
\* and no message has failed more than MaxHandleAttempts times.
TypeOK ==
  /\ db \in [Portals -> Portal]
  /\ topic \in Seq(Message) /\ dlq \in Seq(Message)
  /\ RequestsOK /\ WorkersOK /\ AppliersOK

\* A portal is paused exactly while it has failed too often in a row or its score
\* is too low, in the database and in every copy of it that may be saved, although
\* three services change the score, the count and the pause on copies of their own.
PausedExactly ==
  /\ \A p \in Portals : PausedRightly(db[p].health)
  /\ \A w \in Workers, p \in Portals : PausedRightly(wcopy[w][p].health)
  /\ \A a \in Appliers : PausedRightly(acopy[a].health)
  /\ \A c \in Clients : PausedRightly(ccopy[c].health)

\* A pause ends by re-authentication only.  No success ends it, whatever
\* record_success provides for: a paused portal is not tried again.  It also seems
\* to end when a copy read before the pause, and in use since, is saved after it.
Cures(c, p)        == cpc[c] = "cure" /\ cportal[c] = p
HoldsUnpaused(p) ==
  \/ \E c \in Clients : cportal[c] = p /\ ~ccopy[c].health.paused /\ cpc'[c] # cpc[c]
  \/ \E w \in Workers : ~wcopy[w][p].health.paused
                         /\ <<wpc[w], wtodo[w]>>' # <<wpc[w], wtodo[w]>>
  \/ \E a \in Appliers : aportal[a] = p /\ ~acopy[a].health.paused /\ aportal'[a] # p

PauseEndsByReauth ==
  [][\A p \in Portals : (db[p].health.paused /\ p \in Existing' /\ ~db'[p].health.paused)
       => HoldsUnpaused(p) \/ \E c \in Clients : Cures(c, p)]_vars

\* Somebody is going to clear the marker of portal p: a message will lead a fetch
\* worker to it, a worker has yet to read or clear it, or the request that set it
\* has yet to publish or to take it back.
Attended(p) ==
  \/ \E i \in DOMAIN topic : Covers(topic[i], p)
  \/ \E w \in Workers : /\ wpc[w] # "idle" /\ Covers(wmsg[w], p)
                        /\ wpc[w] = "clear" => p \in wtodo[w]
  \/ \E c \in Clients : cportal[c] = p /\ cpc[c] \in {"publish", "unmark"}

Stuck(p) == p \in Existing /\ db[p].marker /\ ~Attended(p)

\* "Never leave sync_started_at stuck": a portal shown as synchronising has a
\* synchronisation under way or queued, whatever handler raises and however often,
\* except when a request or an apply worker saves a copy that it read while the
\* marker was set, and after faults that nothing recovers from: the worker dies or
\* cannot clear the marker, or sync() raises between its save and its publish.
Restored(p) ==
  \/ \E c \in Clients : /\ cportal[c] = p /\ ccopy[c].marker
                        /\ cpc[c] \in {"patch", "patched", "cure"}
  \/ \E a \in Appliers : aportal[a] = p /\ acopy[a].marker

Unrecovered == \/ \E w \in Workers : Crash(w) \/ ClearFails(w)
               \/ \E c \in Clients : SyncBreaks(c)

NoStuckMarker ==
  [][\A p \in Portals : Stuck(p)' => Stuck(p) \/ Restored(p) \/ Unrecovered]_vars

\* With Kafka, job.fetch keeps the promise of a worker topic, as job.apply does.
Topic == INSTANCE RetryQueue WITH
  waiting <- [i \in DOMAIN topic |-> topic[i].attempts],
  running <- [w \in Workers |-> IF wpc[w] = "idle" THEN <<>> ELSE <<wmsg[w].attempts>>],
  buried <- [i \in DOMAIN dlq |-> dlq[i].attempts],
  MayDie <- "crash" \in Faults

FetchRetriesAreBounded == Topic!Spec

\* "One-click re-auth: refresh credentials/cookies/TOTP, clear auto-pause, sync":
\* the synchronisation that a re-authentication has queued does not find the portal
\* paused.
ReauthClearsPause ==
  \A w \in Workers : (wpc[w] = "next" /\ wmsg[w].fresh) =>
     \A p \in wtodo[w] : ~wcopy[w][p].health.paused

\* "Portal disconnected": a portal that was deleted does not come back.
DeletedForGood ==
  [][\A p \in Portals : p \notin Existing => p \notin Existing']_vars
=============================================================================
