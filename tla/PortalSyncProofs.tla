-------------------------- MODULE PortalSyncProofs --------------------------
(***************************************************************************)
(* Proofs about portal synchronisation, for any thresholds and scores that *)
(* satisfy HealthAssumption, and any number of portals, workers, requests  *)
(* and apply workers.                                                      *)
(***************************************************************************)
EXTENDS PortalSync, TLAPS

\* Documents that are paused exactly when they should be.  What makes PausedExactly
\* inductive: every copy is one, since any copy may be saved, and a success is only
\* recorded on a copy that was read while the portal was not paused.
GoodDoc == {d \in Portal : PausedRightly(d.health)}

DbGood == db \in [Portals -> GoodDoc]

RequestsGood ==
  /\ cpc \in [Clients -> {"idle", "patch", "patched", "reread", "cure", "resync", "mark",
                          "publish", "unmark"}]
  /\ cop \in [Clients -> {"none", "sync", "update", "reauth", "fetch"}]
  /\ cportal \in [Clients -> Portals \cup {NoPortal}]
  /\ ccopy \in [Clients -> GoodDoc]
  /\ requests \in 0..MaxRequests

\* With Kafka a message that is queued or in hand may be handled once more.
Open(m) == m.attempts < MaxHandleAttempts

BusGood ==
  /\ topic \in Seq(Message) /\ dlq \in Seq(Message)
  /\ \A i \in DOMAIN topic : Open(topic[i])

WorkersGood ==
  /\ wpc \in [Workers -> {"idle", "next", "fetch", "scraped", "recorded", "unsaved",
                          "clear", "cleanup"}]
  /\ wmsg \in [Workers -> Message]
  /\ wtodo \in [Workers -> SUBSET Portals]
  /\ wcur \in [Workers -> Portals \cup {NoPortal}]
  /\ wcopy \in [Workers -> [Portals -> GoodDoc]]
  /\ wraised \in [Workers -> BOOLEAN]
  /\ \A w \in Workers : Open(wmsg[w])

Fetching ==
  \A w \in Workers :
    /\ wpc[w] \in {"fetch", "scraped", "recorded", "unsaved"} => wcur[w] \in Portals
    /\ wpc[w] \in {"fetch", "scraped"} => ~wcopy[w][wcur[w]].health.paused
    /\ wpc[w] = "cleanup" => wmsg[w].portal \in Portals

AppliersGood ==
  /\ aportal \in [Appliers -> Portals \cup {NoPortal}]
  /\ acopy \in [Appliers -> GoodDoc]
  /\ applies \in 0..MaxApplies
  /\ \A a \in Appliers : aportal[a] # NoPortal => ~acopy[a].health.paused

SyncInv == DbGood /\ RequestsGood /\ BusGood /\ WorkersGood /\ Fetching /\ AppliersGood

-----------------------------------------------------------------------------
(* PortalHealthService.                                                    *)

\* A new portal is healthy.
LEMMA NewHealthGood == NewHealth \in Health /\ PausedRightly(NewHealth)
BY HealthAssumption DEF NewHealth, Health, PausedRightly, MustPause

\* record_failure pauses a portal exactly at its thresholds and never resumes it.
LEMMA FailureGood ==
  ASSUME NEW h \in Health, PausedRightly(h)
  PROVE  RecordFailure(h) \in Health /\ PausedRightly(RecordFailure(h))
<1>1. h.score \in 0..MaxScore /\ h.fails \in Nat /\ h.paused \in BOOLEAN
  BY DEF Health
<1> DEFINE s == AtLeast(h.score - DecayOnFail, 0)
<1>2. s \in 0..MaxScore /\ s <= h.score
  BY <1>1, HealthAssumption DEF AtLeast
<1>3. RecordFailure(h) \in Health
  BY <1>1, <1>2 DEF RecordFailure, Health
<1>4. PausedRightly(RecordFailure(h))
  <2>1. /\ RecordFailure(h).score = s /\ RecordFailure(h).fails = h.fails + 1
        /\ RecordFailure(h).paused
             <=> (h.paused \/ h.fails + 1 >= AutoPauseThreshold \/ s <= PauseScore)
    BY DEF RecordFailure
  <2>2. h.paused <=> (h.fails >= AutoPauseThreshold \/ h.score <= PauseScore)
    BY DEF PausedRightly, MustPause
  <2> HIDE DEF s
  <2>3. h.paused => h.fails + 1 >= AutoPauseThreshold \/ s <= PauseScore
    BY <1>1, <1>2, <2>2, HealthAssumption
  <2> QED BY <2>1, <2>3 DEF PausedRightly, MustPause
<1> QED BY <1>3, <1>4

\* record_success of a portal that is not paused leaves it so.
LEMMA SuccessGood ==
  ASSUME NEW h \in Health, PausedRightly(h), ~h.paused
  PROVE  RecordSuccess(h) \in Health /\ PausedRightly(RecordSuccess(h))
<1>1. h.score \in 0..MaxScore /\ h.score > PauseScore
  BY HealthAssumption DEF Health, PausedRightly, MustPause
<1> DEFINE s == AtMost(MaxScore, h.score + GainOnSuccess)
<1>2. s \in 0..MaxScore /\ s > PauseScore
  BY <1>1, HealthAssumption DEF AtMost
<1>3. RecordSuccess(h) = [score |-> s, fails |-> 0, paused |-> FALSE]
  BY DEF RecordSuccess
<1> QED BY <1>2, <1>3, HealthAssumption DEF Health, PausedRightly, MustPause

\* Re-authentication leaves a portal above the score that pauses.
LEMMA CuredGood ==
  ASSUME NEW h \in Health
  PROVE  Cured(h) \in Health /\ PausedRightly(Cured(h))
<1>1. AtLeast(h.score, ReauthScore) \in 0..MaxScore /\ AtLeast(h.score, ReauthScore) > PauseScore
  BY HealthAssumption DEF Health, AtLeast
<1> QED BY <1>1, HealthAssumption DEF Cured, Health, PausedRightly, MustPause

-----------------------------------------------------------------------------
(* Copies.                                                                 *)

\* The locals of a handler that has returned.
LEMMA NoCopyGood == NoCopy \in GoodDoc /\ NoMsg \in Message /\ Open(NoMsg)
BY NewHealthGood, SyncAssumption DEF NoCopy, GoodDoc, Portal, NoMsg, Message, Open

\* What the marker and the status are does not matter to the pause.
LEMMA ShownGood ==
  ASSUME NEW d \in GoodDoc
  PROVE  /\ Unmarked(d) \in GoodDoc /\ Unmarked(d).health = d.health
         /\ Marked(d) \in GoodDoc
         /\ \A s \in PortalStatus : [d EXCEPT !.status = s] \in GoodDoc
BY DEF GoodDoc, Portal, Unmarked, Marked, PortalStatus

\* The copy that reauth() saves.
LEMMA CureGood ==
  ASSUME NEW d \in GoodDoc
  PROVE  [d EXCEPT !.health = Cured(@), !.status = "connected"] \in GoodDoc
BY CuredGood DEF GoodDoc, Portal, PortalStatus

\* The copy with a failure counted.
LEMMA FailingGood ==
  ASSUME NEW d \in GoodDoc
  PROVE  Failing(d) \in GoodDoc
<1>1. d.health \in Health /\ PausedRightly(d.health) /\ d \in Portal
  BY DEF GoodDoc, Portal
<1>2. RecordFailure(d.health) \in Health /\ PausedRightly(RecordFailure(d.health))
  BY <1>1, FailureGood
<1> QED BY <1>1, <1>2 DEF Failing, GoodDoc, Portal, PortalStatus

\* The copy a failed fetch saves.
LEMMA FailedGood ==
  ASSUME NEW d \in GoodDoc, NEW login \in BOOLEAN
  PROVE  Failed(d, login) \in GoodDoc
<1>1. Failing(Unmarked(d)) \in GoodDoc
  BY ShownGood, FailingGood
<1> QED BY <1>1 DEF Failed, GoodDoc, Portal, PortalStatus

\* The copy with a success counted.
LEMMA SucceedingGood ==
  ASSUME NEW d \in GoodDoc, ~d.health.paused
  PROVE  Succeeding(d) \in GoodDoc
<1>1. d.health \in Health /\ PausedRightly(d.health) /\ d \in Portal
  BY DEF GoodDoc, Portal
<1>2. RecordSuccess(d.health) \in Health /\ PausedRightly(RecordSuccess(d.health))
  BY <1>1, SuccessGood
<1> QED BY <1>1, <1>2 DEF Succeeding, GoodDoc, Portal, PortalStatus

\* The copy a fetch that found jobs saves.
LEMMA SucceededGood ==
  ASSUME NEW d \in GoodDoc, ~d.health.paused
  PROVE  Succeeded(d) \in GoodDoc
<1> DEFINE e == [d EXCEPT !.marker = FALSE, !.status = "connected"]
<1>1. e \in GoodDoc /\ ~e.health.paused
  BY DEF GoodDoc, Portal, PortalStatus
<1>2. Succeeding(e) \in GoodDoc
  BY <1>1, SucceedingGood
<1> QED BY <1>2 DEF Succeeded

\* A document saved whole keeps the collection good.
LEMMA SaveGood ==
  ASSUME DbGood, NEW p, NEW d \in GoodDoc, Save(p, d)
  PROVE  DbGood'
BY DEF DbGood, Save

-----------------------------------------------------------------------------
(* Steps of requests.                                                      *)

\* A request begins with a copy it has just read.
LEMMA HoldGood ==
  ASSUME RequestsGood, NEW c \in Clients, NEW op \in {"sync", "update", "reauth", "fetch"},
         NEW pc \in {"patch", "mark", "publish"}, NEW p \in Portals \cup {NoPortal},
         NEW d \in GoodDoc, Hold(c, op, pc, p, d)
  PROVE  RequestsGood'
BY SyncAssumption DEF RequestsGood, Hold

\* It goes on with another copy.
LEMMA ContinueGood ==
  ASSUME RequestsGood, NEW c \in Clients,
         NEW pc \in {"patched", "reread", "cure", "resync", "mark", "publish", "unmark"},
         NEW d \in GoodDoc, Continue(c, pc, d)
  PROVE  RequestsGood'
BY DEF RequestsGood, Continue

\* It ends.
LEMMA ReplyGood ==
  ASSUME RequestsGood, NEW c \in Clients, Reply(c)
  PROVE  RequestsGood'
BY NoCopyGood DEF RequestsGood, Reply

\* What a request publishes was never handled.
LEMMA RequestOpen ==
  ASSUME RequestsGood, NEW c \in Clients
  PROVE  Request(c) \in Message /\ Request(c).attempts = 0 /\ Open(Request(c))
BY SyncAssumption DEF RequestsGood, Request, Message, Open

\* A message that may be handled once more can be queued.
LEMMA AppendOpen ==
  ASSUME BusGood, NEW m \in Message, Open(m), topic' = Append(topic, m), dlq' = dlq
  PROVE  BusGood'
BY DEF BusGood

\* The first step of a request.
LEMMA AskStep ==
  ASSUME SyncInv, NEW c \in Clients, Ask(c)
  PROVE  DbGood' /\ RequestsGood' /\ UNCHANGED <<busVars, workerVars, applyVars>>
<1>1. CASE RunFetch(c)
  <2>1. RequestsGood'
    BY <1>1, HoldGood, NoCopyGood DEF SyncInv, RunFetch
  <2> QED BY <1>1, <2>1 DEF SyncInv, DbGood, RunFetch, Hold
<1>2. ASSUME NEW p \in Portals, Sync(c, p)
      PROVE  DbGood' /\ RequestsGood' /\ UNCHANGED <<busVars, workerVars, applyVars>>
  <2>1. Marked(db[p]) \in GoodDoc
    BY <1>2, ShownGood DEF SyncInv, DbGood
  <2>2. RequestsGood'
    BY <1>2, <2>1, HoldGood DEF SyncInv, Sync
  <2> QED BY <1>2, <2>2 DEF SyncInv, DbGood, Sync, Hold
<1>3. ASSUME NEW p \in Portals, Reauth(c, p)
      PROVE  DbGood' /\ RequestsGood' /\ UNCHANGED <<busVars, workerVars, applyVars>>
  <2>1. RequestsGood'
    BY <1>3, HoldGood DEF SyncInv, Reauth, DbGood
  <2> QED BY <1>3, <2>1 DEF SyncInv, DbGood, Reauth, Hold
<1>4. ASSUME NEW p \in Portals, NEW s \in PortalStatus, Update(c, p, s)
      PROVE  DbGood' /\ RequestsGood' /\ UNCHANGED <<busVars, workerVars, applyVars>>
  <2>1. [db[p] EXCEPT !.status = s] \in GoodDoc
    BY <1>4, ShownGood DEF SyncInv, DbGood
  <2>2. RequestsGood'
    BY <1>4, <2>1, HoldGood DEF SyncInv, Update
  <2> QED BY <1>4, <2>2 DEF SyncInv, DbGood, Update, Hold
<1>5. ASSUME NEW p \in Portals, Delete(c, p)
      PROVE  DbGood' /\ RequestsGood' /\ UNCHANGED <<busVars, workerVars, applyVars>>
  <2>1. DbGood'
    BY <1>5, NoCopyGood DEF SyncInv, DbGood, Delete
  <2>2. RequestsGood'
    BY <1>5, SyncAssumption DEF SyncInv, RequestsGood, Delete
  <2> QED BY <1>5, <2>1, <2>2 DEF Delete
<1> QED BY <1>1, <1>2, <1>3, <1>4, <1>5 DEF Ask

\* The later steps of a request.
LEMMA ServeStep ==
  ASSUME SyncInv, NEW c \in Clients, Serve(c)
  PROVE  DbGood' /\ RequestsGood' /\ BusGood' /\ UNCHANGED <<workerVars, applyVars>>
<1>1. DbGood /\ RequestsGood /\ BusGood /\ ccopy[c] \in GoodDoc
  BY DEF SyncInv, RequestsGood
<1>2. CASE SavePatch(c)
  <2>1. DbGood'
    BY <1>1, <1>2, SaveGood DEF SavePatch
  <2>2. RequestsGood'
    BY <1>1, <1>2, ContinueGood, ReplyGood, NoCopyGood DEF SavePatch
  <2> QED BY <1>1, <1>2, <2>1, <2>2 DEF SavePatch, busVars, BusGood
<1>3. CASE RereadToCure(c)
  <2>1. ASSUME cportal[c] \in Existing
        PROVE  RequestsGood'
    <3>1. [db[cportal[c]] EXCEPT !.health = Cured(@), !.status = "connected"] \in GoodDoc
      BY <1>1, <2>1, CureGood DEF DbGood, Existing
    <3> QED BY <1>1, <1>3, <2>1, <3>1, ContinueGood DEF RereadToCure
  <2>2. ASSUME cportal[c] \notin Existing
        PROVE  RequestsGood'
    BY <1>1, <1>3, <2>2, ReplyGood DEF RereadToCure
  <2> QED BY <1>1, <1>3, <2>1, <2>2 DEF RereadToCure, busVars, BusGood, DbGood
<1>4. CASE SaveCure(c)
  <2>1. DbGood'
    BY <1>1, <1>4, SaveGood DEF SaveCure
  <2>2. RequestsGood'
    BY <1>1, <1>4, ContinueGood, NoCopyGood DEF SaveCure
  <2> QED BY <1>1, <1>4, <2>1, <2>2 DEF SaveCure, busVars, BusGood
<1>5. CASE RereadToSync(c)
  <2>1. ASSUME cportal[c] \in Existing
        PROVE  RequestsGood'
    <3>1. Marked(db[cportal[c]]) \in GoodDoc
      BY <1>1, <2>1, ShownGood DEF DbGood, Existing
    <3> QED BY <1>1, <1>5, <2>1, <3>1, ContinueGood DEF RereadToSync
  <2>2. ASSUME cportal[c] \notin Existing
        PROVE  RequestsGood'
    BY <1>1, <1>5, <2>2, ReplyGood DEF RereadToSync
  <2> QED BY <1>1, <1>5, <2>1, <2>2 DEF RereadToSync, busVars, BusGood, DbGood
<1>6. CASE SaveMark(c)
  <2>1. DbGood'
    BY <1>1, <1>6, SaveGood DEF SaveMark
  <2>2. RequestsGood'
    BY <1>1, <1>6, ContinueGood DEF SaveMark
  <2> QED BY <1>1, <1>6, <2>1, <2>2 DEF SaveMark, busVars, BusGood
<1>7. CASE PublishJobFetch(c)
  <2>1. BusGood'
    BY <1>1, <1>7, RequestOpen, AppendOpen DEF PublishJobFetch
  <2> QED BY <1>1, <1>7, <2>1, ReplyGood DEF PublishJobFetch, DbGood
<1>8. CASE PublishFails(c)
  <2>1. BusGood'
    <3>1. CASE topic' = topic
      BY <1>1, <1>8, <3>1 DEF PublishFails, BusGood
    <3>2. CASE topic' = Append(topic, Request(c))
      BY <1>1, <1>8, <3>2, RequestOpen, AppendOpen DEF PublishFails
    <3> QED BY <1>8, <3>1, <3>2 DEF PublishFails
  <2>2. RequestsGood'
    BY <1>1, <1>8, ReplyGood, ContinueGood, ShownGood DEF PublishFails
  <2> QED BY <1>1, <1>8, <2>1, <2>2 DEF PublishFails, DbGood
<1>9. CASE Unmark(c)
  <2>1. DbGood'
    BY <1>1, <1>9, SaveGood DEF Unmark
  <2> QED BY <1>1, <1>9, <2>1, ReplyGood DEF Unmark, busVars, BusGood
<1>10. CASE SyncBreaks(c)
  BY <1>1, <1>10, ReplyGood DEF SyncBreaks, busVars, BusGood, DbGood
<1> QED BY <1>2, <1>3, <1>4, <1>5, <1>6, <1>7, <1>8, <1>9, <1>10 DEF Serve

-----------------------------------------------------------------------------
(* Steps of fetch workers.                                                 *)

\* The locals of fetch worker w after a step; those of the others stay.
Locals(w, pc, m, todo, cur, copy, raised) ==
  /\ wpc' = [wpc EXCEPT ![w] = pc]
  /\ wmsg' = [wmsg EXCEPT ![w] = m]
  /\ wtodo' = [wtodo EXCEPT ![w] = todo]
  /\ wcur' = [wcur EXCEPT ![w] = cur]
  /\ wcopy' = [wcopy EXCEPT ![w] = copy]
  /\ wraised' = [wraised EXCEPT ![w] = raised]

\* A step of a worker outside the fetch of a portal.
LEMMA LocalsGood ==
  ASSUME WorkersGood, Fetching, NEW w \in Workers,
         NEW pc \in {"idle", "next", "clear", "cleanup"},
         NEW m \in Message, Open(m), NEW todo \in SUBSET Portals,
         NEW cur \in Portals \cup {NoPortal}, NEW copy \in [Portals -> GoodDoc],
         NEW raised \in BOOLEAN,
         pc = "cleanup" => m.portal \in Portals,
         Locals(w, pc, m, todo, cur, copy, raised)
  PROVE  WorkersGood' /\ Fetching'
<1>1. WorkersGood'
  BY DEF WorkersGood, Locals
<1>2. ASSUME NEW v \in Workers
      PROVE  /\ wpc'[v] \in {"fetch", "scraped", "recorded", "unsaved"} => wcur'[v] \in Portals
             /\ wpc'[v] \in {"fetch", "scraped"} => ~wcopy'[v][wcur'[v]].health.paused
             /\ wpc'[v] = "cleanup" => wmsg'[v].portal \in Portals
  BY DEF WorkersGood, Fetching, Locals
<1> QED BY <1>1, <1>2 DEF Fetching

\* A step in the fetch of a portal, whose copy a worker only fetches unpaused.
LEMMA FetchingGood ==
  ASSUME WorkersGood, Fetching, NEW w \in Workers,
         NEW pc \in {"fetch", "scraped", "recorded", "unsaved"},
         NEW todo \in SUBSET Portals, NEW cur \in Portals, NEW copy \in [Portals -> GoodDoc],
         pc \in {"fetch", "scraped"} => ~copy[cur].health.paused,
         Locals(w, pc, wmsg[w], todo, cur, copy, wraised[w])
  PROVE  WorkersGood' /\ Fetching'
<1>1. WorkersGood'
  BY DEF WorkersGood, Locals
<1>2. ASSUME NEW v \in Workers
      PROVE  /\ wpc'[v] \in {"fetch", "scraped", "recorded", "unsaved"} => wcur'[v] \in Portals
             /\ wpc'[v] \in {"fetch", "scraped"} => ~wcopy'[v][wcur'[v]].health.paused
             /\ wpc'[v] = "cleanup" => wmsg'[v].portal \in Portals
  BY DEF WorkersGood, Fetching, Locals
<1> QED BY <1>1, <1>2 DEF Fetching

\* What a worker holds.
LEMMA LocalsOf ==
  ASSUME WorkersGood, NEW w \in Workers
  PROVE  /\ wmsg[w] \in Message /\ Open(wmsg[w])
         /\ wtodo[w] \in SUBSET Portals /\ wcur[w] \in Portals \cup {NoPortal}
         /\ wcopy[w] \in [Portals -> GoodDoc] /\ wraised[w] \in BOOLEAN
BY DEF WorkersGood

\* A local that a step does not name keeps its value.
LEMMA Kept ==
  ASSUME WorkersGood, NEW w \in Workers
  PROVE  /\ wpc = [wpc EXCEPT ![w] = wpc[w]]
         /\ wmsg = [wmsg EXCEPT ![w] = wmsg[w]]
         /\ wtodo = [wtodo EXCEPT ![w] = wtodo[w]]
         /\ wcur = [wcur EXCEPT ![w] = wcur[w]]
         /\ wcopy = [wcopy EXCEPT ![w] = wcopy[w]]
         /\ wraised = [wraised EXCEPT ![w] = wraised[w]]
BY DEF WorkersGood

\* handle() has returned.
LEMMA ReturnGood ==
  ASSUME WorkersGood, Fetching, NEW w \in Workers, Return(w)
  PROVE  WorkersGood' /\ Fetching'
<1>1. Locals(w, "idle", NoMsg, {}, NoPortal, [p \in Portals |-> NoCopy], FALSE)
  BY DEF Return, Locals
<1>2. [p \in Portals |-> NoCopy] \in [Portals -> GoodDoc]
  BY NoCopyGood
<1> QED BY <1>1, <1>2, NoCopyGood, LocalsGood

\* The finally has read the portals again.
LEMMA ReadMarkersGood ==
  ASSUME WorkersGood, Fetching, DbGood, NEW w \in Workers, NEW r \in BOOLEAN, ReadMarkers(w),
         wmsg' = wmsg, wraised' = [wraised EXCEPT ![w] = r]
  PROVE  WorkersGood' /\ Fetching'
<1> DEFINE todo == {p \in Existing : Covers(wmsg[w], p) /\ db[p].marker}
<1>1. Locals(w, "clear", wmsg[w], todo, NoPortal, db, r)
  BY Kept DEF ReadMarkers, WGoto, Locals
<1>2. todo \in SUBSET Portals /\ db \in [Portals -> GoodDoc]
  BY DEF Existing, DbGood
<1> QED BY <1>1, <1>2, LocalsOf, LocalsGood

\* The steps of the fetch loop.
LEMMA LoopStep ==
  ASSUME DbGood, BusGood, WorkersGood, Fetching, NEW w \in Workers,
         Receive(w) \/ \E p \in Portals : Skip(w, p) \/ Fetch(w, p)
  PROVE  DbGood' /\ BusGood' /\ WorkersGood' /\ Fetching'
<1> USE LocalsOf, Kept
<1>1. CASE Receive(w)
  <2> DEFINE todo == {q \in Existing : Covers(Head(topic), q)}
  <2>1. /\ Head(topic) \in Message /\ Open(Head(topic)) /\ todo \in SUBSET Portals
        /\ db \in [Portals -> GoodDoc]
    BY <1>1 DEF Receive, BusGood, Existing, DbGood
  <2>2. Locals(w, "next", Head(topic), todo, wcur[w], db, wraised[w])
    BY <1>1 DEF Receive, WGoto, Locals
  <2>3. WorkersGood' /\ Fetching'
    BY <2>1, <2>2, LocalsGood
  <2>4. BusGood'
    BY <1>1 DEF Receive, BusGood
  <2> QED BY <1>1, <2>3, <2>4 DEF Receive, DbGood
<1>2. ASSUME NEW p \in Portals, Skip(w, p)
      PROVE  DbGood' /\ BusGood' /\ WorkersGood' /\ Fetching'
  <2> DEFINE copy == [wcopy[w] EXCEPT ![p] = Unmarked(@)]
  <2>1. copy \in [Portals -> GoodDoc] /\ Unmarked(wcopy[w][p]) \in GoodDoc
    BY ShownGood
  <2>2. wpc[w] = "next" /\ wtodo[w] \ {p} \in SUBSET Portals
    BY <1>2 DEF Skip
  <2>3. Locals(w, "next", wmsg[w], wtodo[w] \ {p}, wcur[w], copy, wraised[w])
    BY <1>2, <2>2 DEF Skip, Locals
  <2>4. WorkersGood' /\ Fetching'
    BY <2>1, <2>2, <2>3, LocalsGood
  <2>5. DbGood'
    BY <1>2, <2>1, SaveGood DEF Skip, DbGood
  <2> QED BY <1>2, <2>4, <2>5 DEF Skip, busVars, BusGood
<1>3. ASSUME NEW p \in Portals, Fetch(w, p)
      PROVE  DbGood' /\ BusGood' /\ WorkersGood' /\ Fetching'
  <2>1. ~wcopy[w][p].health.paused
    BY <1>3 DEF Fetch, IsUsable
  <2>2. Locals(w, "fetch", wmsg[w], wtodo[w] \ {p}, p, wcopy[w], wraised[w])
    BY <1>3 DEF Fetch, WGoto, Locals
  <2>3. WorkersGood' /\ Fetching'
    BY <2>1, <2>2, FetchingGood
  <2> QED BY <1>3, <2>3 DEF Fetch, DbGood, busVars, BusGood
<1> QED BY <1>1, <1>2, <1>3

\* A copy, changed in one document.
LEMMA KeepGood ==
  ASSUME WorkersGood, NEW w \in Workers, wcur[w] \in Portals, NEW d \in GoodDoc, Keep(w, d)
  PROVE  \E copy \in [Portals -> GoodDoc] : wcopy' = [wcopy EXCEPT ![w] = copy]
<1>1. [wcopy[w] EXCEPT ![wcur[w]] = d] \in [Portals -> GoodDoc]
  BY LocalsOf
<1>2. wcopy' = [wcopy EXCEPT ![w] = [wcopy[w] EXCEPT ![wcur[w]] = d]]
  BY DEF Keep, WorkersGood
<1> QED BY <1>1, <1>2

\* The steps of the fetch of one portal.
LEMMA FetchStep ==
  ASSUME DbGood, BusGood, WorkersGood, Fetching, NEW w \in Workers,
         \/ SaveCookies(w) \/ FetchSucceeds(w) \/ SuccessNotSaved(w) \/ FetchDone(w)
         \/ \E login \in BOOLEAN : FetchFails(w, login)
  PROVE  DbGood' /\ BusGood' /\ WorkersGood' /\ Fetching'
<1> USE LocalsOf, Kept
<1>1. /\ wcur[w] \in Portals /\ wcopy[w][wcur[w]] \in GoodDoc
      /\ wpc[w] \in {"fetch", "scraped"} => ~wcopy[w][wcur[w]].health.paused
  BY DEF Fetching, SaveCookies, FetchSucceeds, SuccessNotSaved, FetchDone, FetchFails
<1>2. CASE SaveCookies(w)
  <2>1. Locals(w, "scraped", wmsg[w], wtodo[w], wcur[w], wcopy[w], wraised[w])
    BY <1>2 DEF SaveCookies, WGoto, Locals
  <2>2. WorkersGood' /\ Fetching'
    BY <1>1, <1>2, <2>1, FetchingGood DEF SaveCookies
  <2> QED BY <1>1, <1>2, <2>2, SaveGood DEF SaveCookies, busVars, BusGood
<1>3. ASSUME wpc[w] \in {"fetch", "scraped"}
      PROVE  Succeeded(wcopy[w][wcur[w]]) \in GoodDoc
  BY <1>1, <1>3, SucceededGood
<1>4. CASE FetchSucceeds(w)
  <2>1. PICK copy \in [Portals -> GoodDoc] : wcopy' = [wcopy EXCEPT ![w] = copy]
    BY <1>1, <1>3, <1>4, KeepGood DEF FetchSucceeds
  <2>2. Locals(w, "recorded", wmsg[w], wtodo[w], wcur[w], copy, wraised[w])
    BY <1>4, <2>1 DEF FetchSucceeds, WGoto, Locals
  <2>3. WorkersGood' /\ Fetching'
    BY <1>1, <2>2, FetchingGood
  <2>4. DbGood'
    BY <1>3, <1>4, SaveGood DEF FetchSucceeds
  <2> QED BY <1>4, <2>3, <2>4 DEF FetchSucceeds, busVars, BusGood
<1>5. CASE SuccessNotSaved(w)
  <2>1. PICK copy \in [Portals -> GoodDoc] : wcopy' = [wcopy EXCEPT ![w] = copy]
    BY <1>1, <1>3, <1>5, KeepGood DEF SuccessNotSaved
  <2>2. Locals(w, "unsaved", wmsg[w], wtodo[w], wcur[w], copy, wraised[w])
    BY <1>5, <2>1 DEF SuccessNotSaved, WGoto, Locals
  <2>3. WorkersGood' /\ Fetching'
    BY <1>1, <2>2, FetchingGood
  <2> QED BY <1>5, <2>3 DEF SuccessNotSaved, DbGood, busVars, BusGood
<1>6. CASE FetchDone(w)
  <2>1. Locals(w, "next", wmsg[w], wtodo[w], NoPortal, wcopy[w], wraised[w])
    BY <1>6 DEF FetchDone, WGoto, Locals
  <2>2. WorkersGood' /\ Fetching'
    BY <2>1, LocalsGood
  <2> QED BY <1>6, <2>2 DEF FetchDone, DbGood, busVars, BusGood
<1>7. ASSUME NEW login \in BOOLEAN, FetchFails(w, login)
      PROVE  DbGood' /\ BusGood' /\ WorkersGood' /\ Fetching'
  <2>1. Failed(wcopy[w][wcur[w]], login) \in GoodDoc
    BY <1>1, FailedGood
  <2>2. PICK copy \in [Portals -> GoodDoc] : wcopy' = [wcopy EXCEPT ![w] = copy]
    BY <1>1, <1>7, <2>1, KeepGood DEF FetchFails
  <2>3. Locals(w, "next", wmsg[w], wtodo[w], NoPortal, copy, wraised[w])
    BY <1>7, <2>2 DEF FetchFails, WGoto, Locals
  <2>4. WorkersGood' /\ Fetching'
    BY <2>3, LocalsGood
  <2>5. DbGood'
    BY <1>7, <2>1, SaveGood DEF FetchFails
  <2> QED BY <1>7, <2>4, <2>5 DEF FetchFails, busVars, BusGood
<1> QED BY <1>2, <1>4, <1>5, <1>6, <1>7

\* The end of the loop, and what comes after it.
LEMMA FinallyStep ==
  ASSUME DbGood, BusGood, WorkersGood, Fetching, NEW w \in Workers,
         \/ LoopEnds(w) \/ HandleRaises(w) \/ ClearFails(w) \/ HandleEnds(w)
         \/ \E p \in Portals : ClearMarker(w, p)
  PROVE  DbGood' /\ BusGood' /\ WorkersGood' /\ Fetching'
<1> USE LocalsOf, Kept
<1>1. CASE LoopEnds(w)
  <2>1. WorkersGood' /\ Fetching'
    BY <1>1, ReadMarkersGood DEF LoopEnds
  <2> QED BY <1>1, <2>1 DEF LoopEnds, DbGood, busVars, BusGood
<1>2. CASE HandleRaises(w)
  <2>1. WorkersGood' /\ Fetching'
    BY <1>2, ReadMarkersGood DEF HandleRaises
  <2> QED BY <1>2, <2>1 DEF HandleRaises, DbGood, busVars, BusGood
<1>3. ASSUME NEW p \in Portals, ClearMarker(w, p)
      PROVE  DbGood' /\ BusGood' /\ WorkersGood' /\ Fetching'
  <2>1. Locals(w, "clear", wmsg[w], wtodo[w] \ {p}, wcur[w], wcopy[w], wraised[w])
    BY <1>3 DEF ClearMarker, Locals
  <2>2. WorkersGood' /\ Fetching'
    BY <2>1, LocalsGood
  <2>3. DbGood'
    BY <1>3, ShownGood, SaveGood DEF ClearMarker
  <2> QED BY <1>3, <2>2, <2>3 DEF ClearMarker, busVars, BusGood
<1>4. CASE ClearFails(w)
  <2>1. Locals(w, "clear", wmsg[w], {}, wcur[w], wcopy[w], wraised[w])
    BY <1>4 DEF ClearFails, Locals
  <2>2. WorkersGood' /\ Fetching'
    BY <2>1, LocalsGood
  <2> QED BY <1>4, <2>2 DEF ClearFails, DbGood, busVars, BusGood
<1>5. CASE HandleEnds(w)
  <2>1. WorkersGood' /\ Fetching'
    BY <1>5, ReturnGood DEF HandleEnds
  <2> QED BY <1>5, <2>1 DEF HandleEnds, DbGood, busVars, BusGood
<1> QED BY <1>1, <1>2, <1>3, <1>4, <1>5

\* A message that is routed is counted, and queued only below the limit.
LEMMA RouteGood ==
  ASSUME BusGood, NEW m \in Message, Open(m), RouteFailure(m)
  PROVE  BusGood'
<1>1. Counted(m) \in Message
  BY SyncAssumption DEF Counted, Message, Open
<1>2. CASE dlq' = Append(dlq, Counted(m)) /\ topic' = topic
  BY <1>1, <1>2 DEF BusGood
<1>3. CASE m.attempts + 1 < MaxHandleAttempts /\ topic' = Append(topic, Counted(m)) /\ dlq' = dlq
  <2>1. Open(Counted(m))
    BY <1>3 DEF Counted, Message, Open
  <2> QED BY <1>1, <1>3, <2>1, AppendOpen
<1> QED BY <1>2, <1>3 DEF RouteFailure

\* A message that is delivered again comes first.
LEMMA RedeliverGood ==
  ASSUME BusGood, NEW m \in Message, Open(m), topic' = <<m>> \o topic, dlq' = dlq
  PROVE  BusGood'
<1>1. topic' \in Seq(Message) /\ Len(topic') = 1 + Len(topic)
  BY DEF BusGood
<1>2. \A i \in DOMAIN topic' : topic'[i] = IF i = 1 THEN m ELSE topic[i - 1]
  BY DEF BusGood
<1>3. \A i \in DOMAIN topic' : Open(topic'[i])
  BY <1>1, <1>2 DEF BusGood
<1> QED BY <1>1, <1>3 DEF BusGood

\* The ways in which a message fails.
LEMMA FailureStep ==
  ASSUME DbGood, BusGood, WorkersGood, Fetching, NEW w \in Workers,
         HandleFails(w) \/ InlineFails(w) \/ InlineCleanup(w) \/ Crash(w)
  PROVE  DbGood' /\ BusGood' /\ WorkersGood' /\ Fetching'
<1> USE LocalsOf, Kept
<1>1. CASE HandleFails(w)
  <2>1. WorkersGood' /\ Fetching'
    BY <1>1, ReturnGood DEF HandleFails
  <2>2. BusGood'
    BY <1>1, RouteGood DEF HandleFails
  <2> QED BY <1>1, <2>1, <2>2 DEF HandleFails, DbGood
<1>2. CASE InlineFails(w)
  <2>1. ASSUME wmsg[w].portal \in Existing
        PROVE  WorkersGood' /\ Fetching'
    <3>1. Locals(w, "cleanup", wmsg[w], wtodo[w], wcur[w], db, wraised[w])
      BY <1>2, <2>1 DEF InlineFails, WGoto, Locals
    <3>2. db \in [Portals -> GoodDoc] /\ wmsg[w].portal \in Portals
      BY <2>1 DEF DbGood, Existing
    <3> QED BY <3>1, <3>2, LocalsGood
  <2>2. ASSUME wmsg[w].portal \notin Existing
        PROVE  WorkersGood' /\ Fetching'
    BY <1>2, <2>2, ReturnGood DEF InlineFails
  <2> QED BY <1>2, <2>1, <2>2 DEF InlineFails, DbGood, busVars, BusGood
<1>3. CASE InlineCleanup(w)
  <2>1. wmsg[w].portal \in Portals
    BY <1>3 DEF InlineCleanup, Fetching
  <2>2. Failed(wcopy[w][wmsg[w].portal], FALSE) \in GoodDoc
    BY <2>1, FailedGood
  <2>3. DbGood'
    BY <1>3, <2>2, SaveGood DEF InlineCleanup
  <2>4. WorkersGood' /\ Fetching'
    BY <1>3, ReturnGood DEF InlineCleanup
  <2> QED BY <1>3, <2>3, <2>4 DEF InlineCleanup, busVars, BusGood
<1>4. CASE Crash(w)
  <2>1. WorkersGood' /\ Fetching'
    BY <1>4, ReturnGood DEF Crash
  <2>2. BusGood'
    <3>1. CASE UNCHANGED busVars
      BY <3>1 DEF busVars, BusGood
    <3>2. CASE topic' = <<wmsg[w]>> \o topic /\ dlq' = dlq
      BY <3>2, RedeliverGood
    <3> QED BY <1>4, <3>1, <3>2 DEF Crash
  <2> QED BY <1>4, <2>1, <2>2 DEF Crash, DbGood
<1> QED BY <1>1, <1>2, <1>3, <1>4

\* Any step of a fetch worker.
LEMMA WorkStep ==
  ASSUME SyncInv, NEW w \in Workers, Work(w)
  PROVE  DbGood' /\ BusGood' /\ WorkersGood' /\ Fetching' /\ UNCHANGED <<applyVars, clientVars>>
<1>1. DbGood /\ BusGood /\ WorkersGood /\ Fetching
  BY DEF SyncInv
<1>2. CASE Receive(w) \/ \E p \in Portals : Skip(w, p) \/ Fetch(w, p)
  <2>1. UNCHANGED <<applyVars, clientVars>>
    BY <1>2 DEF Receive, Skip, Fetch
  <2> QED BY <1>1, <1>2, <2>1, LoopStep
<1>3. CASE \/ SaveCookies(w) \/ FetchSucceeds(w) \/ SuccessNotSaved(w) \/ FetchDone(w)
           \/ \E login \in BOOLEAN : FetchFails(w, login)
  <2>1. UNCHANGED <<applyVars, clientVars>>
    BY <1>3 DEF SaveCookies, FetchSucceeds, SuccessNotSaved, FetchDone, FetchFails
  <2> QED BY <1>1, <1>3, <2>1, FetchStep
<1>4. CASE \/ LoopEnds(w) \/ HandleRaises(w) \/ ClearFails(w) \/ HandleEnds(w)
           \/ \E p \in Portals : ClearMarker(w, p)
  <2>1. UNCHANGED <<applyVars, clientVars>>
    BY <1>4 DEF LoopEnds, HandleRaises, ClearFails, HandleEnds, ClearMarker
  <2> QED BY <1>1, <1>4, <2>1, FinallyStep
<1>5. CASE HandleFails(w) \/ InlineFails(w) \/ InlineCleanup(w) \/ Crash(w)
  <2>1. UNCHANGED <<applyVars, clientVars>>
    BY <1>5 DEF HandleFails, InlineFails, InlineCleanup, Crash
  <2> QED BY <1>1, <1>5, <2>1, FailureStep
<1> QED BY <1>2, <1>3, <1>4, <1>5 DEF Work

-----------------------------------------------------------------------------
(* Steps of apply workers, and the whole.                                  *)

\* An apply worker only takes a portal that is not paused.
LEMMA ApplyStep ==
  ASSUME SyncInv, NEW a \in Appliers, Apply(a)
  PROVE  DbGood' /\ AppliersGood' /\ UNCHANGED <<busVars, workerVars, clientVars>>
<1>1. DbGood /\ AppliersGood
  BY DEF SyncInv
<1>2. ASSUME NEW p \in Portals, ApplyOn(a, p)
      PROVE  DbGood' /\ AppliersGood' /\ UNCHANGED <<busVars, workerVars, clientVars>>
  <2>1. db[p] \in GoodDoc /\ ~db[p].health.paused
    BY <1>1, <1>2 DEF DbGood, ApplyOn, IsUsable
  <2>2. AppliersGood'
    BY <1>1, <1>2, <2>1, SyncAssumption DEF AppliersGood, ApplyOn
  <2> QED BY <1>1, <1>2, <2>2 DEF ApplyOn, DbGood
<1>3. ASSUME aportal[a] # NoPortal, NEW doc \in {Succeeding(acopy[a]), Failing(acopy[a])},
             ApplyRecords(a, doc)
      PROVE  DbGood' /\ AppliersGood' /\ UNCHANGED <<busVars, workerVars, clientVars>>
  <2>1. acopy[a] \in GoodDoc /\ ~acopy[a].health.paused
    BY <1>1, <1>3 DEF AppliersGood
  <2>2. doc \in GoodDoc
    BY <1>3, <2>1, SucceedingGood, FailingGood
  <2>3. DbGood'
    BY <1>1, <1>3, <2>2, SaveGood DEF ApplyRecords
  <2>4. AppliersGood'
    BY <1>1, <1>3, NoCopyGood DEF ApplyRecords, AppliersGood
  <2> QED BY <1>3, <2>3, <2>4 DEF ApplyRecords
<1>4. CASE ApplyEnds(a)
  <2>1. AppliersGood'
    BY <1>1, <1>4, NoCopyGood DEF ApplyEnds, AppliersGood
  <2> QED BY <1>1, <1>4, <2>1 DEF ApplyEnds, DbGood
<1> QED BY <1>2, <1>3, <1>4 DEF Apply, ApplyRecords

\* Nothing is under way at first.
LEMMA SyncInit ==
  ASSUME Init
  PROVE  SyncInv
<1>1. DbGood
  <2>1. ASSUME NEW h \in InitialHealth
        PROVE  [status |-> "connected", marker |-> FALSE, health |-> h] \in GoodDoc
    BY SyncAssumption DEF GoodDoc, Portal, PortalStatus
  <2> QED BY <2>1 DEF Init, DbGood
<1>2. RequestsGood
  BY NoCopyGood, SyncAssumption DEF Init, RequestsGood
<1>3. BusGood
  BY DEF Init, BusGood
<1>4. WorkersGood
  BY NoCopyGood DEF Init, WorkersGood
<1>5. Fetching
  BY DEF Init, Fetching
<1>6. AppliersGood
  BY NoCopyGood, SyncAssumption DEF Init, AppliersGood
<1> QED BY <1>1, <1>2, <1>3, <1>4, <1>5, <1>6 DEF SyncInv

\* What a step leaves alone stays good.
LEMMA Untouched ==
  ASSUME SyncInv
  PROVE  /\ UNCHANGED clientVars => RequestsGood'
         /\ UNCHANGED busVars => BusGood'
         /\ UNCHANGED workerVars => WorkersGood' /\ Fetching'
         /\ UNCHANGED applyVars => AppliersGood'
<1>1. UNCHANGED clientVars => RequestsGood'
  BY DEF SyncInv, clientVars, RequestsGood
<1>2. UNCHANGED busVars => BusGood'
  BY DEF SyncInv, busVars, BusGood
<1>3. UNCHANGED workerVars => WorkersGood'
  BY DEF SyncInv, workerVars, WorkersGood
<1>4. UNCHANGED workerVars => Fetching'
  BY DEF SyncInv, workerVars, Fetching
<1>5. UNCHANGED applyVars => AppliersGood'
  BY DEF SyncInv, applyVars, AppliersGood
<1> QED BY <1>1, <1>2, <1>3, <1>4, <1>5

\* SyncInv is inductive.
LEMMA SyncStep ==
  ASSUME SyncInv, [Next]_vars
  PROVE  SyncInv'
<1>1. ASSUME NEW c \in Clients, Ask(c)
      PROVE  SyncInv'
  <2>1. DbGood' /\ RequestsGood' /\ UNCHANGED <<busVars, workerVars, applyVars>>
    BY <1>1, AskStep
  <2> QED BY <2>1, Untouched DEF SyncInv
<1>2. ASSUME NEW c \in Clients, Serve(c)
      PROVE  SyncInv'
  <2>1. DbGood' /\ RequestsGood' /\ BusGood' /\ UNCHANGED <<workerVars, applyVars>>
    BY <1>2, ServeStep
  <2> QED BY <2>1, Untouched DEF SyncInv
<1>3. ASSUME NEW w \in Workers, Work(w)
      PROVE  SyncInv'
  <2>1. DbGood' /\ BusGood' /\ WorkersGood' /\ Fetching' /\ UNCHANGED <<applyVars, clientVars>>
    BY <1>3, WorkStep
  <2> QED BY <2>1, Untouched DEF SyncInv
<1>4. ASSUME NEW a \in Appliers, Apply(a)
      PROVE  SyncInv'
  <2>1. DbGood' /\ AppliersGood' /\ UNCHANGED <<busVars, workerVars, clientVars>>
    BY <1>4, ApplyStep
  <2> QED BY <2>1, Untouched DEF SyncInv
<1>5. CASE UNCHANGED vars
  <2>1. UNCHANGED <<db, busVars, workerVars, applyVars, clientVars>>
    BY <1>5 DEF vars, busVars, workerVars, applyVars, clientVars
  <2>2. DbGood'
    BY <2>1 DEF SyncInv, DbGood
  <2> QED BY <2>1, <2>2, Untouched DEF SyncInv
<1> QED BY <1>1, <1>2, <1>3, <1>4, <1>5 DEF Next

\* SyncInv holds throughout.
LEMMA SyncInvariant == Spec => []SyncInv
<1>1. Init => SyncInv
  BY SyncInit
<1>2. SyncInv /\ [Next]_vars => SyncInv'
  BY SyncStep
<1> QED BY <1>1, <1>2, PTL DEF Spec

-----------------------------------------------------------------------------

\* Every portal, copy and message is of its type in every reachable state: a score
\* stays within 0..MaxScore and a message counts at most MaxHandleAttempts failures.
THEOREM PortalTypes == Spec => []TypeOK
<1>1. SyncInv => TypeOK
  <2>1. SyncInv => db \in [Portals -> Portal] /\ topic \in Seq(Message) /\ dlq \in Seq(Message)
    BY DEF SyncInv, DbGood, BusGood, GoodDoc
  <2>2. SyncInv => RequestsOK
    BY DEF SyncInv, RequestsGood, RequestsOK, GoodDoc
  <2>3. SyncInv => WorkersOK
    <3> SUFFICES ASSUME WorkersGood PROVE WorkersOK
      BY DEF SyncInv
    <3>1. wcopy \in [Workers -> [Portals -> Portal]]
      BY DEF WorkersGood, GoodDoc
    <3> QED BY <3>1 DEF WorkersGood, WorkersOK
  <2>4. SyncInv => AppliersOK
    BY DEF SyncInv, AppliersGood, AppliersOK, GoodDoc
  <2> QED BY <2>1, <2>2, <2>3, <2>4 DEF TypeOK
<1> QED BY <1>1, SyncInvariant, PTL

\* A portal, and every copy of it that may be saved, is paused exactly while it has
\* failed too often in a row or its score is too low, for all thresholds.
THEOREM PausesAreRight == Spec => []PausedExactly
<1>1. SyncInv => PausedExactly
  BY DEF SyncInv, DbGood, WorkersGood, AppliersGood, RequestsGood, GoodDoc, PausedExactly
<1> QED BY <1>1, SyncInvariant, PTL

-----------------------------------------------------------------------------
(* job.fetch implements RetryQueue: a message is the number of its failures.*)

Failures(s) == [i \in DOMAIN s |-> s[i].attempts]
Busy == [w \in Workers |-> IF wpc[w] = "idle" THEN <<>> ELSE <<wmsg[w].attempts>>]

\* Queues map to queues, message by message.
LEMMA FailuresOf ==
  /\ Failures(<<>>) = <<>>
  /\ \A s \in Seq(Message), m \in Message :
       /\ Failures(Append(s, m)) = Append(Failures(s), m.attempts)
       /\ Failures(<<m>> \o s) = <<m.attempts>> \o Failures(s)
  /\ \A s \in Seq(Message) : s # <<>> =>
       /\ Failures(s) # <<>>
       /\ Failures(Tail(s)) = Tail(Failures(s))
       /\ Head(Failures(s)) = Head(s).attempts
<1>1. Failures(<<>>) = <<>>
  BY DEF Failures
<1>2. ASSUME NEW s \in Seq(Message), NEW m \in Message
      PROVE  /\ Failures(Append(s, m)) = Append(Failures(s), m.attempts)
             /\ Failures(<<m>> \o s) = <<m.attempts>> \o Failures(s)
  <2>1. Failures(Append(s, m)) = Append(Failures(s), m.attempts)
    BY DEF Failures
  <2>2. Failures(<<m>> \o s) = <<m.attempts>> \o Failures(s)
    BY DEF Failures
  <2> QED BY <2>1, <2>2
<1>3. ASSUME NEW s \in Seq(Message), s # <<>>
      PROVE  /\ Failures(s) # <<>>
             /\ Failures(Tail(s)) = Tail(Failures(s))
             /\ Head(Failures(s)) = Head(s).attempts
  BY <1>3 DEF Failures
<1> QED BY <1>1, <1>2, <1>3

\* Steps the topic does not see.
Apart == Failures(topic)' = Failures(topic) /\ Failures(dlq)' = Failures(dlq) /\ Busy' = Busy

LEMMA ApartStutters ==
  ASSUME Apart
  PROVE  UNCHANGED Topic!vars
BY DEF Apart, Topic!vars, Failures, Busy

\* Where a worker that moves is seen to stand.
LEMMA BusyMoves ==
  ASSUME SyncInv, NEW w \in Workers
  PROVE  /\ Return(w) => Busy' = [Busy EXCEPT ![w] = <<>>]
         /\ \A pc : pc # "idle" /\ wpc[w] # "idle" /\ WGoto(w, pc) /\ wmsg' = wmsg => Busy' = Busy
         /\ wpc[w] # "idle" => Busy[w] = <<wmsg[w].attempts>> /\ Busy[w] # <<>>
         /\ wpc[w] = "idle" => Busy[w] = <<>>
<1>1. wpc \in [Workers -> {"idle", "next", "fetch", "scraped", "recorded", "unsaved", "clear", "cleanup"}]
      /\ wmsg \in [Workers -> Message]
  BY DEF SyncInv, WorkersGood
<1>2. Return(w) => Busy' = [Busy EXCEPT ![w] = <<>>]
  BY <1>1 DEF Return, Busy
<1>3. \A pc : pc # "idle" /\ wpc[w] # "idle" /\ WGoto(w, pc) /\ wmsg' = wmsg => Busy' = Busy
  BY <1>1 DEF WGoto, Busy
<1>4. /\ wpc[w] # "idle" => Busy[w] = <<wmsg[w].attempts>> /\ Busy[w] # <<>>
      /\ wpc[w] = "idle" => Busy[w] = <<>>
  BY DEF Busy
<1> QED BY <1>2, <1>3, <1>4

\* A request submits a message, or does nothing the topic sees.
LEMMA RequestsSubmit ==
  ASSUME SyncInv, NEW c \in Clients, Ask(c) \/ Serve(c)
  PROVE  Apart \/ Topic!Submit
<1>1. wpc' = wpc /\ wmsg' = wmsg /\ dlq' = dlq
  BY DEF Ask, RunFetch, Sync, Reauth, Delete, Update, Hold, Serve, SavePatch, RereadToCure, SaveCure,
     RereadToSync, SaveMark, PublishJobFetch, PublishFails, Unmark, SyncBreaks, busVars, workerVars
<1>2. topic' = topic \/ topic' = Append(topic, Request(c))
  BY DEF Ask, RunFetch, Sync, Reauth, Delete, Update, Hold, Serve, SavePatch, RereadToCure, SaveCure,
     RereadToSync, SaveMark, PublishJobFetch, PublishFails, Unmark, SyncBreaks, busVars
<1>3. Busy' = Busy /\ Failures(dlq)' = Failures(dlq)
  BY <1>1 DEF Busy, Failures
<1>4. CASE topic' = topic
  BY <1>3, <1>4 DEF Apart, Failures
<1>5. CASE topic' = Append(topic, Request(c))
  <2>1. Request(c) \in Message /\ Request(c).attempts = 0 /\ topic \in Seq(Message)
    BY RequestOpen DEF SyncInv, BusGood
  <2>2. Failures(topic)' = Append(Failures(topic), 0)
    BY <1>5, <2>1, FailuresOf
  <2> QED BY <1>3, <2>2 DEF Topic!Submit, Failures, Busy
<1> QED BY <1>2, <1>4, <1>5

\* Receive takes the oldest message.
LEMMA ReceiveTakes ==
  ASSUME SyncInv, NEW w \in Workers, Receive(w)
  PROVE  Topic!Take(w)
<1>1. topic \in Seq(Message) /\ topic # <<>> /\ Head(topic) \in Message /\ topic' = Tail(topic)
  BY DEF SyncInv, BusGood, Receive
<1>2. /\ Failures(topic) # <<>> /\ Failures(topic)' = Tail(Failures(topic))
      /\ Head(Failures(topic)) = Head(topic).attempts
  BY <1>1, FailuresOf
<1>3. Busy[w] = <<>> /\ Busy' = [Busy EXCEPT ![w] = <<Head(topic).attempts>>]
  BY DEF Receive, WGoto, Busy, SyncInv, WorkersGood
<1>4. Failures(dlq)' = Failures(dlq) /\ Busy' = [Busy EXCEPT ![w] = <<Head(Failures(topic))>>]
  BY <1>2, <1>3 DEF Receive
<1> QED BY <1>2, <1>3, <1>4 DEF Topic!Take, Failures, Busy

\* A handler that raised has its message retried, or buried at its last attempt.
LEMMA FailureRoutes ==
  ASSUME SyncInv, NEW w \in Workers, HandleFails(w)
  PROVE  Topic!Retry(w) \/ Topic!Bury(w)
<1> DEFINE m == wmsg[w]
           n == m.attempts
<1>1. wpc[w] = "clear" /\ RouteFailure(m) /\ Return(w)
  BY DEF HandleFails
<1>2. /\ m \in Message /\ topic \in Seq(Message) /\ dlq \in Seq(Message)
      /\ n \in Nat /\ n < MaxHandleAttempts
  BY LocalsOf, SyncAssumption DEF SyncInv, BusGood, Message, Open
<1>3. Counted(m) \in Message /\ Counted(m).attempts = n + 1
  BY <1>2, SyncAssumption DEF Counted, Message
<1>4. /\ Busy[w] = <<n>> /\ Busy[w] # <<>> /\ Busy[w][1] = n
      /\ Busy' = [Busy EXCEPT ![w] = <<>>]
  BY <1>1, BusyMoves
<1> HIDE DEF m, n
<1>5. CASE /\ n + 1 >= MaxHandleAttempts
           /\ dlq' = Append(dlq, Counted(m)) /\ topic' = topic
  <2>1. n + 1 = MaxHandleAttempts
    BY <1>2, <1>5, SyncAssumption
  <2>2. Failures(dlq)' = Append(Failures(dlq), Busy[w][1] + 1) /\ Failures(topic)' = Failures(topic)
    BY <1>2, <1>3, <1>4, <1>5, FailuresOf
  <2> QED BY <1>4, <2>1, <2>2 DEF Topic!Bury, Failures, Busy
<1>6. CASE /\ n + 1 < MaxHandleAttempts
           /\ topic' = Append(topic, Counted(m)) /\ dlq' = dlq
  <2>1. Failures(topic)' = Append(Failures(topic), Busy[w][1] + 1) /\ Failures(dlq)' = Failures(dlq)
    BY <1>2, <1>3, <1>4, <1>6, FailuresOf
  <2> QED BY <1>4, <1>6, <2>1 DEF Topic!Retry, Failures, Busy
<1> QED BY <1>1, <1>5, <1>6 DEF RouteFailure, m, n

\* A worker that dies loses its message or leaves it to be taken next.
LEMMA CrashLosesOrRedelivers ==
  ASSUME SyncInv, NEW w \in Workers, Crash(w)
  PROVE  Topic!Finish(w) \/ Topic!Redeliver(w)
<1>1. /\ "crash" \in Faults /\ Busy[w] = <<wmsg[w].attempts>> /\ Busy[w] # <<>>
      /\ Busy' = [Busy EXCEPT ![w] = <<>>]
  BY BusyMoves DEF Crash
<1>2. CASE UNCHANGED busVars
  <2>1. Failures(topic)' = Failures(topic) /\ Failures(dlq)' = Failures(dlq)
    BY <1>2 DEF busVars
  <2> QED BY <1>1, <2>1 DEF Topic!Finish, Failures, Busy
<1>3. CASE topic' = <<wmsg[w]>> \o topic /\ dlq' = dlq
  <2>1. wmsg[w] \in Message /\ topic \in Seq(Message)
    BY LocalsOf DEF SyncInv, BusGood
  <2>2. Failures(topic)' = Busy[w] \o Failures(topic) /\ Failures(dlq)' = Failures(dlq)
    BY <1>1, <1>3, <2>1, FailuresOf
  <2> QED BY <1>1, <2>2 DEF Topic!Redeliver, Failures, Busy
<1> QED BY <1>2, <1>3 DEF Crash

\* Every other step of a worker keeps to itself, or ends with its message.
LEMMA WorkKeepsTopic ==
  ASSUME SyncInv, NEW w \in Workers,
         \/ \E p \in Portals : Skip(w, p) \/ Fetch(w, p) \/ ClearMarker(w, p)
         \/ SaveCookies(w) \/ FetchSucceeds(w) \/ SuccessNotSaved(w) \/ FetchDone(w)
         \/ \E login \in BOOLEAN : FetchFails(w, login)
         \/ LoopEnds(w) \/ HandleRaises(w) \/ ClearFails(w)
  PROVE  Apart
<1>1. wmsg' = wmsg /\ topic' = topic /\ dlq' = dlq /\ wpc[w] # "idle"
  BY DEF Skip, Fetch, ClearMarker, SaveCookies, FetchSucceeds, SuccessNotSaved, FetchDone, FetchFails,
     LoopEnds, HandleRaises, ClearFails, busVars
<1>2. wpc' = wpc \/ \E pc : pc # "idle" /\ WGoto(w, pc)
  BY DEF Skip, Fetch, ClearMarker, SaveCookies, FetchSucceeds, SuccessNotSaved, FetchDone, FetchFails,
     LoopEnds, HandleRaises, ClearFails, ReadMarkers
<1>3. Busy' = Busy
  <2>1. CASE wpc' = wpc
    BY <1>1, <2>1 DEF Busy
  <2> QED BY <1>1, <1>2, <2>1, BusyMoves
<1> QED BY <1>1, <1>3 DEF Apart

LEMMA TopicStep ==
  ASSUME Delivery = "kafka", SyncInv, [Next]_vars
  PROVE  [Topic!Next]_(Topic!vars)
<1>1. ASSUME NEW c \in Clients, Ask(c) \/ Serve(c)
      PROVE  Topic!Next \/ UNCHANGED Topic!vars
  BY <1>1, RequestsSubmit, ApartStutters DEF Topic!Next
<1>2. ASSUME NEW w \in Workers, Work(w)
      PROVE  Topic!Next \/ UNCHANGED Topic!vars
  <2>1. CASE Receive(w)
    BY <2>1, ReceiveTakes DEF Topic!Next
  <2>2. CASE HandleEnds(w)
    <3>1. /\ Busy[w] # <<>> /\ Busy' = [Busy EXCEPT ![w] = <<>>]
          /\ Failures(topic)' = Failures(topic) /\ Failures(dlq)' = Failures(dlq)
      BY <2>2, BusyMoves DEF HandleEnds, busVars
    <3>2. Topic!Finish(w)
      BY <3>1 DEF Topic!Finish, Failures, Busy
    <3> QED BY <3>2 DEF Topic!Next
  <2>3. CASE HandleFails(w)
    BY <2>3, FailureRoutes DEF Topic!Next
  <2>4. CASE Crash(w)
    BY <2>4, CrashLosesOrRedelivers DEF Topic!Next
  <2>5. CASE InlineFails(w)
    BY <2>5 DEF InlineFails
  <2>6. CASE InlineCleanup(w)
    <3>1. /\ Busy[w] # <<>> /\ Busy' = [Busy EXCEPT ![w] = <<>>]
          /\ Failures(topic)' = Failures(topic) /\ Failures(dlq)' = Failures(dlq)
      BY <2>6, BusyMoves DEF InlineCleanup, busVars
    <3>2. Topic!Finish(w)
      BY <3>1 DEF Topic!Finish, Failures, Busy
    <3> QED BY <3>2 DEF Topic!Next
  <2> QED BY <1>2, <2>1, <2>2, <2>3, <2>4, <2>5, <2>6, WorkKeepsTopic, ApartStutters DEF Work
<1>3. ASSUME (\E a \in Appliers : Apply(a)) \/ UNCHANGED vars
      PROVE  UNCHANGED Topic!vars
  <2>1. wpc' = wpc /\ wmsg' = wmsg /\ topic' = topic /\ dlq' = dlq
    BY <1>3 DEF Apply, ApplyOn, ApplyRecords, ApplyEnds, vars, workerVars, busVars
  <2>2. Apart
    BY <2>1 DEF Apart, Busy
  <2> QED BY <2>2, ApartStutters
<1> QED BY <1>1, <1>2, <1>3 DEF Next

\* With Kafka the fetch worker's messages are handled in order, a failed one is
\* retried behind the others and dead-lettered exactly at its last attempt, for
\* every number of workers, requests and portals.
THEOREM FetchesImplementRetryQueue == Delivery = "kafka" => (Spec => FetchRetriesAreBounded)
<1> SUFFICES ASSUME Delivery = "kafka" PROVE Spec => FetchRetriesAreBounded
  OBVIOUS
<1>1. Init => Topic!Init
  <2> SUFFICES ASSUME Init PROVE Topic!Init OBVIOUS
  <2>1. /\ Failures(topic) = <<>> /\ Failures(dlq) = <<>>
        /\ Busy = [w \in Workers |-> <<>>]
    BY FailuresOf DEF Init, Busy
  <2> QED BY <2>1 DEF Topic!Init, Failures, Busy
<1>2. SyncInv /\ [Next]_vars => [Topic!Next]_(Topic!vars)
  BY TopicStep
<1> QED BY <1>1, <1>2, SyncInvariant, PTL DEF Spec, FetchRetriesAreBounded, Topic!Spec

-----------------------------------------------------------------------------
(* What a save of the portals collection may do to a pause.                *)

\* A counted failure ends no pause.
LEMMA FailedStaysPaused ==
  ASSUME NEW d \in GoodDoc, NEW login \in BOOLEAN, ~Failed(d, login).health.paused
  PROVE  ~d.health.paused
<1>1. d.health \in Health /\ d.health.paused \in BOOLEAN
  BY DEF GoodDoc, Portal, Health
<1>2. Failing(Unmarked(d)).health = RecordFailure(d.health) /\ Failing(Unmarked(d)) \in GoodDoc
  BY ShownGood, FailingGood DEF Failing, GoodDoc, Portal, Unmarked
<1>3. Failed(d, login).health = RecordFailure(d.health)
  BY <1>2 DEF Failed, GoodDoc, Portal
<1>4. d.health.paused => RecordFailure(d.health).paused
  BY DEF RecordFailure
<1> QED BY <1>3, <1>4

\* Portal p is shown as paused, and after the step as not.
PauseEnds(p) == db[p].health.paused /\ p \in Existing' /\ ~db'[p].health.paused

\* A document is saved over one portal only.
LEMMA SaveOne ==
  ASSUME SyncInv, NEW p \in Portals, NEW q, NEW d, Save(q, d), db'[p] # db[p]
  PROVE  p = q /\ db'[p] = d
BY DEF SyncInv, DbGood, Save

\* A request ends a pause with a copy it read before it, or by its cure.
LEMMA RequestEndsPause ==
  ASSUME SyncInv, NEW c \in Clients, Ask(c) \/ Serve(c), NEW p \in Portals, PauseEnds(p)
  PROVE  HoldsUnpaused(p) \/ Cures(c, p)
<1>1. db'[p] # db[p] /\ ccopy[c] \in GoodDoc
  BY DEF PauseEnds, SyncInv, RequestsGood
<1>2. ~Ask(c)
  <2>1. SUFFICES ASSUME Ask(c) PROVE FALSE
    OBVIOUS
  <2>2. PICK q \in Portals : Delete(c, q)
    BY <1>1, <2>1 DEF Ask, RunFetch, Sync, Reauth, Update
  <2>3. db'[p] = NoCopy
    BY <1>1, <2>2 DEF Delete, SyncInv, DbGood
  <2> QED BY <2>3 DEF PauseEnds, Existing, Present, NoCopy
<1>3. SavePatch(c) \/ SaveCure(c) \/ SaveMark(c) \/ Unmark(c)
  BY <1>1, <1>2 DEF Serve, RereadToCure, RereadToSync, PublishJobFetch, PublishFails, SyncBreaks
<1>4. Save(cportal[c], ccopy[c])
  BY <1>3 DEF SavePatch, SaveCure, SaveMark, Unmark
<1>5. p = cportal[c] /\ ~ccopy[c].health.paused
  BY <1>1, <1>4, SaveOne DEF PauseEnds
<1>6. CASE SaveCure(c)
  BY <1>5, <1>6 DEF SaveCure, Cures
<1>7. CASE SavePatch(c) \/ SaveMark(c) \/ Unmark(c)
  <2>1. cpc'[c] # cpc[c]
    BY <1>7 DEF SavePatch, SaveMark, Unmark, Continue, Reply, SyncInv, RequestsGood
  <2> QED BY <1>5, <2>1 DEF HoldsUnpaused
<1> QED BY <1>3, <1>6, <1>7

\* A fetch worker ends one only with a copy it read before it.
LEMMA WorkEndsPause ==
  ASSUME SyncInv, NEW w \in Workers, Work(w), NEW p \in Portals, PauseEnds(p)
  PROVE  HoldsUnpaused(p)
<1>1. db'[p] # db[p] /\ wcopy[w] \in [Portals -> GoodDoc] /\ wcopy[w][p] \in GoodDoc
  BY DEF PauseEnds, SyncInv, WorkersGood
<1>2. SUFFICES /\ ~wcopy[w][p].health.paused
               /\ wpc'[w] # wpc[w] \/ wtodo'[w] # wtodo[w]
  BY DEF HoldsUnpaused
<1>3. wpc \in [Workers -> {"idle", "next", "fetch", "scraped", "recorded", "unsaved", "clear",
                             "cleanup"}]
      /\ wtodo \in [Workers -> SUBSET Portals]
  BY DEF SyncInv, WorkersGood
<1>4. CASE \E q \in Portals : Skip(w, q) \/ ClearMarker(w, q)
  <2>1. PICK q \in Portals : Skip(w, q) \/ ClearMarker(w, q)
    BY <1>4
  <2>2. Save(q, Unmarked(wcopy[w][q])) /\ q \in wtodo[w] /\ wtodo' = [wtodo EXCEPT ![w] = @ \ {q}]
    BY <1>1, <2>1 DEF Skip, ClearMarker
  <2>3. p = q /\ db'[p] = Unmarked(wcopy[w][p])
    BY <1>1, <2>2, SaveOne
  <2>4. ~wcopy[w][p].health.paused
    BY <1>1, <2>3, ShownGood DEF PauseEnds
  <2> QED BY <1>3, <2>2, <2>4
<1>5. CASE SaveCookies(w)
  <2>1. Save(wcur[w], wcopy[w][wcur[w]]) /\ wpc[w] = "fetch" /\ wpc'[w] = "scraped"
    BY <1>3, <1>5 DEF SaveCookies, WGoto
  <2> QED BY <1>1, <2>1, SaveOne DEF PauseEnds
<1>6. CASE FetchSucceeds(w)
  <2>1. /\ Save(wcur[w], Succeeded(wcopy[w][wcur[w]]))
        /\ wpc[w] \in {"fetch", "scraped"} /\ wpc'[w] = "recorded"
    BY <1>3, <1>6 DEF FetchSucceeds, WGoto
  <2>2. p = wcur[w]
    BY <1>1, <2>1, SaveOne
  <2> QED BY <2>1, <2>2 DEF SyncInv, Fetching
<1>7. ASSUME NEW login \in BOOLEAN, FetchFails(w, login)
      PROVE  /\ ~wcopy[w][p].health.paused
             /\ wpc'[w] # wpc[w] \/ wtodo'[w] # wtodo[w]
  <2>1. /\ Save(wcur[w], Failed(wcopy[w][wcur[w]], login))
        /\ wpc[w] # "next" /\ wpc'[w] = "next"
    BY <1>3, <1>7 DEF FetchFails, WGoto
  <2>2. p = wcur[w] /\ db'[p] = Failed(wcopy[w][wcur[w]], login)
    BY <1>1, <2>1, SaveOne
  <2>3. ~Failed(wcopy[w][p], login).health.paused
    BY <2>2 DEF PauseEnds
  <2> QED BY <1>1, <2>1, <2>2, <2>3, FailedStaysPaused
<1>8. CASE InlineCleanup(w)
  <2>1. /\ Save(wmsg[w].portal, Failed(wcopy[w][wmsg[w].portal], FALSE))
        /\ wpc[w] = "cleanup" /\ wpc'[w] = "idle"
    BY <1>3, <1>8 DEF InlineCleanup, Return
  <2>2. p = wmsg[w].portal /\ db'[p] = Failed(wcopy[w][wmsg[w].portal], FALSE)
    BY <1>1, <2>1, SaveOne
  <2>3. ~Failed(wcopy[w][p], FALSE).health.paused
    BY <2>2 DEF PauseEnds
  <2> QED BY <1>1, <2>1, <2>2, <2>3, FailedStaysPaused
<1>9. \/ \E q \in Portals : Skip(w, q) \/ ClearMarker(w, q)
      \/ SaveCookies(w) \/ FetchSucceeds(w) \/ InlineCleanup(w)
      \/ \E login \in BOOLEAN : FetchFails(w, login)
  BY <1>1 DEF Work, Receive, Fetch, SuccessNotSaved, FetchDone, LoopEnds, HandleRaises, ClearFails,
              HandleEnds, HandleFails, InlineFails, Crash
<1> QED BY <1>4, <1>5, <1>6, <1>7, <1>8, <1>9

\* An apply worker has read the portal while it was not paused.
LEMMA ApplyEndsPause ==
  ASSUME SyncInv, NEW a \in Appliers, Apply(a), NEW p \in Portals, PauseEnds(p)
  PROVE  HoldsUnpaused(p)
<1>1. db'[p] # db[p]
  BY DEF PauseEnds
<1>2. PICK doc : ApplyRecords(a, doc)
  BY <1>1 DEF Apply, ApplyOn, ApplyEnds
<1>3. p = aportal[a] /\ aportal[a] # NoPortal /\ aportal'[a] = NoPortal
  BY <1>1, <1>2, SaveOne DEF ApplyRecords, SyncInv, AppliersGood
<1>4. ~acopy[a].health.paused
  BY <1>3 DEF SyncInv, AppliersGood
<1> QED BY <1>3, <1>4 DEF HoldsUnpaused

\* A portal stays paused until a re-authentication cures it, or a copy that was read
\* before the pause and has been in use since is saved over it.
THEOREM PausesEndByReauth == Spec => PauseEndsByReauth
<1> DEFINE Ended == \A p \in Portals : (db[p].health.paused /\ p \in Existing' /\ ~db'[p].health.paused)
                      => HoldsUnpaused(p) \/ \E c \in Clients : Cures(c, p)
<1>1. SyncInv /\ [Next]_vars => [Ended]_vars
  <2> SUFFICES ASSUME SyncInv, Next, NEW p \in Portals, PauseEnds(p)
               PROVE  HoldsUnpaused(p) \/ \E c \in Clients : Cures(c, p)
    BY DEF PauseEnds
  <2> QED BY RequestEndsPause, WorkEndsPause, ApplyEndsPause DEF Next
<1> QED BY <1>1, SyncInvariant, PTL DEF Spec, PauseEndsByReauth

-----------------------------------------------------------------------------
(* Who is going to clear a marker.                                         *)

\* A request that takes its marker back holds a copy without it, and one for all
\* portals holds no portal; a fetch worker is on portals that its message is for.
MarkInv ==
  /\ \A c \in Clients : /\ cpc[c] = "unmark" => ~ccopy[c].marker
                        /\ cop[c] = "fetch" => cportal[c] = NoPortal
  /\ \A w \in Workers : /\ \A p \in wtodo[w] : Covers(wmsg[w], p)
                        /\ wpc[w] \in {"fetch", "scraped"} => Covers(wmsg[w], wcur[w])

LEMMA MarkInit == ASSUME Init PROVE MarkInv
BY DEF Init, MarkInv

LEMMA RequestKeepsMarkInv ==
  ASSUME SyncInv, MarkInv, NEW c \in Clients, Ask(c) \/ Serve(c)
  PROVE  MarkInv'
<1>1. UNCHANGED workerVars
  BY DEF Ask, RunFetch, Sync, Reauth, Delete, Update, Hold, Serve, SavePatch, RereadToCure, SaveCure,
     RereadToSync, SaveMark, PublishJobFetch, PublishFails, Unmark, SyncBreaks
<1>2. ASSUME NEW op, op # "fetch", NEW pc, pc # "unmark", NEW p, NEW d, Hold(c, op, pc, p, d)
      PROVE  MarkInv'
  BY <1>1, <1>2 DEF Hold, MarkInv, SyncInv, RequestsGood, workerVars, Covers
<1>3. CASE RunFetch(c)
  BY <1>1, <1>3 DEF RunFetch, Hold, MarkInv, SyncInv, RequestsGood, workerVars, Covers
<1>4. ASSUME Reply(c) PROVE MarkInv'
  BY <1>1, <1>4 DEF Reply, MarkInv, SyncInv, RequestsGood, workerVars, Covers, NoCopy
<1>5. ASSUME NEW pc, NEW d, pc = "unmark" => ~d.marker, Continue(c, pc, d) PROVE MarkInv'
  BY <1>1, <1>5 DEF Continue, MarkInv, SyncInv, RequestsGood, workerVars, Covers
<1>6. CASE \E p \in Portals : Delete(c, p)
  BY <1>1, <1>6 DEF Delete, MarkInv, workerVars, Covers
<1>7. CASE \E p \in Portals : Sync(c, p) \/ Reauth(c, p) \/ \E s \in PortalStatus : Update(c, p, s)
  BY <1>2, <1>7 DEF Sync, Reauth, Update
<1>8. CASE SavePatch(c)
  BY <1>4, <1>5, <1>8 DEF SavePatch
<1>9. CASE RereadToCure(c) \/ SaveCure(c) \/ RereadToSync(c) \/ SaveMark(c)
  BY <1>4, <1>5, <1>9 DEF RereadToCure, SaveCure, RereadToSync, SaveMark
<1>10. CASE PublishFails(c)
  <2>1. ~Unmarked(ccopy[c]).marker
    BY DEF Unmarked, SyncInv, RequestsGood, GoodDoc, Portal
  <2> QED BY <1>4, <1>5, <1>10, <2>1 DEF PublishFails
<1>11. CASE PublishJobFetch(c) \/ Unmark(c) \/ SyncBreaks(c)
  BY <1>4, <1>11 DEF PublishJobFetch, Unmark, SyncBreaks
<1> QED BY <1>3, <1>6, <1>7, <1>8, <1>9, <1>10, <1>11 DEF Ask, Serve

LEMMA WorkKeepsMarkInv ==
  ASSUME SyncInv, MarkInv, NEW w \in Workers, Work(w)
  PROVE  MarkInv'
<1>1. UNCHANGED clientVars
  BY DEF Work, Receive, Skip, Fetch, ClearMarker, SaveCookies, FetchSucceeds, SuccessNotSaved,
         FetchDone, FetchFails, LoopEnds, HandleRaises, ClearFails, HandleEnds, HandleFails,
         InlineFails, InlineCleanup, Crash
<1>2. SUFFICES \A v \in Workers : /\ \A p \in wtodo'[v] : Covers(wmsg'[v], p)
                                  /\ wpc'[v] \in {"fetch", "scraped"} => Covers(wmsg'[v], wcur'[v])
  BY <1>1 DEF MarkInv, clientVars, Covers
<1> DEFINE Goal == \A v \in Workers :
                     /\ \A p \in wtodo'[v] : Covers(wmsg'[v], p)
                     /\ wpc'[v] \in {"fetch", "scraped"} => Covers(wmsg'[v], wcur'[v])
<1> USE DEF MarkInv, SyncInv, WorkersGood
<1>3. ASSUME Return(w) PROVE Goal
  BY <1>3 DEF Return, NoMsg, Covers
<1>4. CASE Receive(w)
  BY <1>4 DEF Receive, WGoto
<1>5. CASE \E p \in Portals : Skip(w, p) \/ Fetch(w, p) \/ ClearMarker(w, p)
  BY <1>5 DEF Skip, Fetch, ClearMarker, WGoto
<1>6. CASE SaveCookies(w) \/ FetchSucceeds(w) \/ SuccessNotSaved(w) \/ FetchDone(w)
  BY <1>6 DEF SaveCookies, FetchSucceeds, SuccessNotSaved, FetchDone, WGoto
<1>7. CASE \E login \in BOOLEAN : FetchFails(w, login)
  BY <1>7 DEF FetchFails, WGoto
<1>8. CASE LoopEnds(w) \/ HandleRaises(w)
  BY <1>8 DEF LoopEnds, HandleRaises, ReadMarkers, WGoto
<1>9. CASE ClearFails(w)
  BY <1>9 DEF ClearFails
<1>10. CASE HandleEnds(w) \/ HandleFails(w) \/ InlineCleanup(w) \/ Crash(w)
  BY <1>3, <1>10 DEF HandleEnds, HandleFails, InlineCleanup, Crash
<1>11. CASE InlineFails(w)
  <2>1. CASE Return(w)
    BY <1>3, <2>1
  <2>2. CASE WGoto(w, "cleanup") /\ UNCHANGED <<wmsg, wtodo, wcur>>
    BY <2>2 DEF WGoto
  <2> QED BY <1>11, <2>1, <2>2 DEF InlineFails
<1> QED BY <1>4, <1>5, <1>6, <1>7, <1>8, <1>9, <1>10, <1>11 DEF Work

LEMMA MarkStep ==
  ASSUME SyncInv, MarkInv, [Next]_vars
  PROVE  MarkInv'
<1>1. ASSUME (\E a \in Appliers : Apply(a)) \/ UNCHANGED vars
      PROVE  MarkInv'
  <2>1. UNCHANGED <<workerVars, clientVars>>
    BY <1>1 DEF Apply, ApplyOn, ApplyRecords, ApplyEnds, vars, workerVars, clientVars
  <2> QED BY <2>1 DEF MarkInv, workerVars, clientVars, Covers
<1> QED BY <1>1, RequestKeepsMarkInv, WorkKeepsMarkInv DEF Next

\* The copies that a fetch worker saves when it is done with a portal.
LEMMA ClearedCopies ==
  ASSUME NEW d \in GoodDoc, NEW login \in BOOLEAN
  PROVE  ~Unmarked(d).marker /\ ~Succeeded(d).marker /\ ~Failed(d, login).marker
BY DEF GoodDoc, Portal, Unmarked, Succeeded, Succeeding, Failed, Failing

\* Portal p is shown as synchronising.
Shown(p) == p \in Existing /\ db[p].marker

\* A request that sets a marker, or lets go of one, has somebody clear it.
LEMMA RequestKeepsAttended ==
  ASSUME SyncInv, MarkInv, NEW c \in Clients, Ask(c) \/ Serve(c), ~SyncBreaks(c),
         NEW p \in Portals, Shown(p)', Shown(p) => Attended(p), ~Restored(p)
  PROVE  Attended(p)'
<1>1. /\ UNCHANGED workerVars
      /\ topic' = topic \/ topic' = Append(topic, Request(c))
      /\ topic \in Seq(Message)
  BY DEF Ask, RunFetch, Sync, Reauth, Delete, Update, Hold, Serve, SavePatch, RereadToCure, SaveCure,
     RereadToSync, SaveMark, PublishJobFetch, PublishFails, Unmark, SyncBreaks, busVars, SyncInv,
     BusGood
<1>2. ~Unmark(c) \/ cportal[c] # p
  <2>1. SUFFICES ASSUME Unmark(c), cportal[c] = p PROVE FALSE
    OBVIOUS
  <2>2. db'[p] = ccopy[c] /\ ~ccopy[c].marker
    BY <2>1 DEF Unmark, Save, SyncInv, DbGood, MarkInv
  <2> QED BY <2>2 DEF Shown
<1>3. CASE db'[p] # db[p]
  <2>1. ~\E q \in Portals : Delete(c, q)
    BY <1>3 DEF Delete, Shown, SyncInv, DbGood, Existing, Present, NoCopy
  <2>2. SavePatch(c) \/ SaveCure(c) \/ SaveMark(c) \/ Unmark(c)
    BY <1>3, <2>1 DEF Ask, RunFetch, Sync, Reauth, Update, Serve, RereadToCure, RereadToSync,
                      PublishJobFetch, PublishFails, SyncBreaks
  <2>3. Save(cportal[c], ccopy[c])
    BY <2>2 DEF SavePatch, SaveCure, SaveMark, Unmark
  <2>4. p = cportal[c] /\ ccopy[c].marker
    BY <1>3, <2>3, SaveOne DEF Shown
  <2>5. SaveMark(c)
    BY <1>2, <2>2, <2>4 DEF SavePatch, SaveCure, Restored
  <2>6. cpc'[c] = "publish" /\ cportal'[c] = p
    BY <2>4, <2>5 DEF SaveMark, Continue, SyncInv, RequestsGood
  <2> QED BY <2>6 DEF Attended
<1>4. CASE db'[p] = db[p]
  <2>1. Attended(p)
    BY <1>4 DEF Shown, Existing
  <2>2. CASE \E i \in DOMAIN topic : Covers(topic[i], p)
    <3>1. \A i \in DOMAIN topic : i \in DOMAIN topic' /\ topic'[i] = topic[i]
      BY <1>1
    <3> QED BY <2>2, <3>1 DEF Attended, Covers
  <2>3. CASE \E w \in Workers : /\ wpc[w] # "idle" /\ Covers(wmsg[w], p)
                                /\ wpc[w] = "clear" => p \in wtodo[w]
    BY <1>1, <2>3 DEF Attended, workerVars, Covers
  <2>4. CASE \E d \in Clients : cportal[d] = p /\ cpc[d] \in {"publish", "unmark"}
    <3>1. PICK d \in Clients : cportal[d] = p /\ cpc[d] \in {"publish", "unmark"}
      BY <2>4
    <3>2. CASE d # c
      <4>1. cportal'[d] = cportal[d] /\ cpc'[d] = cpc[d]
        BY <3>2 DEF Ask, RunFetch, Sync, Reauth, Delete, Update, Hold, Serve, SavePatch,
                    RereadToCure, SaveCure, RereadToSync, SaveMark, PublishJobFetch, PublishFails,
                    Unmark, SyncBreaks, Reply, Continue, SyncInv, RequestsGood
      <4> QED BY <3>1, <4>1 DEF Attended
    <3>3. CASE d = c /\ PublishJobFetch(c)
      <4>1. topic' = Append(topic, Request(c)) /\ Covers(Request(c), p)
        BY <3>1, <3>3 DEF PublishJobFetch, Request, Covers
      <4>2. Len(topic) + 1 \in DOMAIN topic' /\ topic'[Len(topic) + 1] = Request(c)
        BY <1>1, <4>1
      <4> QED BY <4>1, <4>2 DEF Attended, Covers
    <3>4. CASE d = c /\ PublishFails(c)
      <4>1. cop[c] # "fetch"
        BY <3>1, <3>4, SyncAssumption DEF MarkInv
      <4>2. cpc'[c] = "unmark" /\ cportal'[c] = p
        BY <3>1, <3>4, <4>1 DEF PublishFails, Continue, SyncInv, RequestsGood
      <4> QED BY <4>2 DEF Attended
    <3>5. CASE d = c /\ \E q \in Portals : Delete(c, q)
      BY <3>1, <3>5 DEF Delete
    <3> QED
      BY <1>2, <3>1, <3>2, <3>3, <3>4, <3>5 DEF Ask, RunFetch, Sync, Reauth, Update, Hold, Serve,
                    SavePatch, RereadToCure, SaveCure, RereadToSync, SaveMark
  <2>5. \/ \E i \in DOMAIN topic : Covers(topic[i], p)
        \/ \E v \in Workers : /\ wpc[v] # "idle" /\ Covers(wmsg[v], p)
                              /\ wpc[v] = "clear" => p \in wtodo[v]
        \/ \E d \in Clients : cportal[d] = p /\ cpc[d] \in {"publish", "unmark"}
    BY <2>1 DEF Attended
  <2> QED BY <2>2, <2>3, <2>4, <2>5
<1> QED BY <1>3, <1>4

\* A fetch worker goes on with the markers of its message until it has cleared them.
LEMMA WorkKeepsAttended ==
  ASSUME SyncInv, MarkInv, NEW w \in Workers, Work(w), ~Crash(w), ~ClearFails(w),
         NEW p \in Portals, Shown(p)', Shown(p) => Attended(p)
  PROVE  Attended(p)'
<1>1. /\ wcopy[w] \in [Portals -> GoodDoc] /\ wcopy[w][p] \in GoodDoc
      /\ db \in [Portals -> GoodDoc] /\ topic \in Seq(Message) /\ wmsg[w] \in Message
      /\ wpc \in [Workers -> {"idle", "next", "fetch", "scraped", "recorded", "unsaved", "clear",
                              "cleanup"}]
  BY DEF SyncInv, WorkersGood, DbGood, BusGood
<1>2. /\ UNCHANGED clientVars
      /\ \A v \in Workers : v # w => /\ wpc'[v] = wpc[v] /\ wmsg'[v] = wmsg[v]
                                     /\ wtodo'[v] = wtodo[v]
  BY DEF Work, Receive, Skip, Fetch, ClearMarker, SaveCookies, FetchSucceeds, SuccessNotSaved,
         FetchDone, FetchFails, LoopEnds, HandleRaises, ClearFails, HandleEnds, HandleFails,
         InlineFails, InlineCleanup, Crash, Return, WGoto, ReadMarkers, SyncInv, WorkersGood
\* What saves a cleared copy over p leaves no marker.
<1>3. /\ ~(\E q \in Portals : ClearMarker(w, q) /\ q = p)
      /\ ~(InlineCleanup(w) /\ wmsg[w].portal = p)
  <2>1. ASSUME ClearMarker(w, p) PROVE FALSE
    <3>1. db'[p] = Unmarked(wcopy[w][p])
      BY <1>1, <2>1 DEF ClearMarker, Save
    <3> QED BY <1>1, <3>1, ClearedCopies DEF Shown
  <2>2. ASSUME InlineCleanup(w), wmsg[w].portal = p PROVE FALSE
    <3>1. db'[p] = Failed(wcopy[w][p], FALSE)
      BY <1>1, <2>2 DEF InlineCleanup, Save
    <3> QED BY <1>1, <3>1, ClearedCopies DEF Shown
  <2> QED BY <2>1, <2>2
<1>4. CASE db'[p] # db[p]
  <2>1. ~\E q \in Portals : Skip(w, q) \/ ClearMarker(w, q)
    <3>1. SUFFICES ASSUME NEW q \in Portals, Skip(w, q) \/ ClearMarker(w, q) PROVE FALSE
      OBVIOUS
    <3>2. Save(q, Unmarked(wcopy[w][q]))
      BY <1>4, <3>1 DEF Skip, ClearMarker
    <3>3. db'[p] = Unmarked(wcopy[w][p])
      BY <1>4, <3>2, SaveOne
    <3> QED BY <1>1, <3>3, ClearedCopies DEF Shown
  <2>2. ~FetchSucceeds(w)
    <3>1. SUFFICES ASSUME FetchSucceeds(w) PROVE FALSE
      OBVIOUS
    <3>2. db'[p] = Succeeded(wcopy[w][p])
      BY <1>4, <3>1, SaveOne DEF FetchSucceeds
    <3> QED BY <1>1, <3>2, ClearedCopies DEF Shown
  <2>3. ~\E login \in BOOLEAN : FetchFails(w, login)
    <3>1. SUFFICES ASSUME NEW login \in BOOLEAN, FetchFails(w, login) PROVE FALSE
      OBVIOUS
    <3>2. Save(wcur[w], Failed(wcopy[w][wcur[w]], login))
      BY <3>1 DEF FetchFails
    <3>3. db'[p] = Failed(wcopy[w][p], login)
      BY <1>4, <3>2, SaveOne
    <3> QED BY <1>1, <3>3, ClearedCopies DEF Shown
  <2>4. ~InlineCleanup(w)
    <3>1. SUFFICES ASSUME InlineCleanup(w) PROVE FALSE
      OBVIOUS
    <3>2. Save(wmsg[w].portal, Failed(wcopy[w][wmsg[w].portal], FALSE))
      BY <3>1 DEF InlineCleanup
    <3>3. wmsg[w].portal = p
      BY <1>4, <3>2, SaveOne
    <3> QED BY <1>3, <3>1, <3>3
  <2>5. SaveCookies(w)
    BY <1>4, <2>1, <2>2, <2>3, <2>4 DEF Work, Receive, Fetch, SuccessNotSaved, FetchDone, LoopEnds,
                                        HandleRaises, ClearFails, HandleEnds, HandleFails, InlineFails
  <2>6. p = wcur[w] /\ wpc[w] = "fetch" /\ wpc'[w] = "scraped" /\ wmsg' = wmsg
    BY <1>1, <1>4, <2>5, SaveOne DEF SaveCookies, WGoto
  <2>7. Covers(wmsg'[w], p)
    BY <2>6 DEF MarkInv, Covers
  <2> QED BY <2>6, <2>7 DEF Attended, Covers
<1>5. CASE db'[p] = db[p]
  <2>1. Attended(p) /\ Shown(p)
    BY <1>5 DEF Shown, Existing
  <2>2. CASE \E i \in DOMAIN topic : Covers(topic[i], p)
    <3>1. PICK i \in DOMAIN topic : Covers(topic[i], p)
      BY <2>2
    <3>2. CASE Receive(w) /\ i = 1
      <4>1. wmsg'[w] = topic[1] /\ wpc'[w] = "next"
        BY <1>1, <3>2 DEF Receive, WGoto, SyncInv, WorkersGood
      <4> QED BY <3>1, <3>2, <4>1 DEF Attended, Covers
    <3>3. CASE Receive(w) /\ i # 1
      <4>1. i - 1 \in DOMAIN topic' /\ topic'[i - 1] = topic[i]
        BY <1>1, <3>1, <3>3 DEF Receive
      <4> QED BY <3>1, <4>1 DEF Attended, Covers
    <3>4. CASE ~Receive(w)
      <4>1. topic' = topic \/ \E m \in Message : topic' = Append(topic, m)
        <5>1. HandleFails(w) => Counted(wmsg[w]) \in Message
          BY LocalsOf, SyncAssumption DEF SyncInv, Counted, Message, Open
        <5> QED BY <3>4, <5>1 DEF Work, Skip, Fetch, ClearMarker, SaveCookies, FetchSucceeds, SuccessNotSaved,
                          FetchDone, FetchFails, LoopEnds, HandleRaises, HandleEnds, HandleFails,
                          InlineFails, InlineCleanup, RouteFailure, busVars
      <4>2. i \in DOMAIN topic' /\ topic'[i] = topic[i]
        BY <1>1, <4>1
      <4> QED BY <3>1, <4>2 DEF Attended, Covers
    <3> QED BY <3>2, <3>3, <3>4
  <2>3. CASE \E c \in Clients : cportal[c] = p /\ cpc[c] \in {"publish", "unmark"}
    BY <1>2, <2>3 DEF Attended, clientVars
  <2>4. ASSUME NEW v \in Workers, v # w, wpc[v] # "idle", Covers(wmsg[v], p),
               wpc[v] = "clear" => p \in wtodo[v]
        PROVE  Attended(p)'
    <3>1. wpc'[v] # "idle" /\ Covers(wmsg'[v], p) /\ (wpc'[v] = "clear" => p \in wtodo'[v])
      BY <1>2, <2>4
    <3> QED BY <3>1 DEF Attended, Covers
  <2>5. ASSUME wpc[w] # "idle", Covers(wmsg[w], p), wpc[w] = "clear" => p \in wtodo[w]
        PROVE  Attended(p)'
    <3>1. SUFFICES wpc'[w] # "idle" /\ wmsg'[w] = wmsg[w] /\ (wpc'[w] = "clear" => p \in wtodo'[w])
      BY <2>5 DEF Attended, Covers
    <3>2. ~Receive(w) /\ ~HandleEnds(w) /\ ~HandleFails(w) /\ ~InlineFails(w)
      BY <2>5 DEF Receive, HandleEnds, HandleFails, InlineFails
    <3>3. ~InlineCleanup(w)
      BY <1>3, <2>5, SyncAssumption DEF InlineCleanup, SyncInv, Fetching, Covers
    <3>4. CASE LoopEnds(w) \/ HandleRaises(w)
      BY <1>1, <2>1, <2>5, <3>4 DEF LoopEnds, HandleRaises, ReadMarkers, WGoto, Shown, SyncInv, WorkersGood
    <3>5. CASE \E q \in Portals : ClearMarker(w, q)
      BY <1>3, <2>5, <3>5 DEF ClearMarker, SyncInv, WorkersGood
    <3>6. CASE \/ \E q \in Portals : Skip(w, q) \/ Fetch(w, q)
               \/ SaveCookies(w) \/ FetchSucceeds(w) \/ SuccessNotSaved(w) \/ FetchDone(w)
               \/ \E login \in BOOLEAN : FetchFails(w, login)
      BY <1>1, <3>6 DEF Skip, Fetch, SaveCookies, FetchSucceeds, SuccessNotSaved, FetchDone, FetchFails,
                        WGoto
    <3> QED BY <3>2, <3>3, <3>4, <3>5, <3>6 DEF Work
  <2>6. \/ \E i \in DOMAIN topic : Covers(topic[i], p)
        \/ \E v \in Workers : /\ wpc[v] # "idle" /\ Covers(wmsg[v], p)
                              /\ wpc[v] = "clear" => p \in wtodo[v]
        \/ \E d \in Clients : cportal[d] = p /\ cpc[d] \in {"publish", "unmark"}
    BY <2>1 DEF Attended
  <2> QED BY <2>2, <2>3, <2>4, <2>5, <2>6
<1> QED BY <1>4, <1>5

\* An apply worker touches a marker only by saving its copy.
LEMMA ApplyKeepsAttended ==
  ASSUME SyncInv, NEW a \in Appliers, Apply(a),
         NEW p \in Portals, Shown(p)', Shown(p) => Attended(p), ~Restored(p)
  PROVE  Attended(p)'
<1>1. UNCHANGED <<topic, workerVars, clientVars>>
  BY DEF Apply, ApplyOn, ApplyRecords, ApplyEnds, busVars
<1>2. db'[p] = db[p]
  <2>1. SUFFICES ASSUME db'[p] # db[p] PROVE FALSE
    OBVIOUS
  <2>2. PICK doc \in {Succeeding(acopy[a]), Failing(acopy[a])} : ApplyRecords(a, doc)
    BY <2>1 DEF Apply, ApplyOn, ApplyEnds
  <2>3. p = aportal[a] /\ db'[p] = doc
    BY <2>1, <2>2, SaveOne DEF ApplyRecords
  <2>4. doc.marker = acopy[a].marker
    BY <2>2 DEF Succeeding, Failing, SyncInv, AppliersGood, GoodDoc, Portal
  <2> QED BY <2>3, <2>4 DEF Shown, Restored
<1>3. Attended(p)
  BY <1>2 DEF Shown, Existing
<1> QED BY <1>1, <1>3 DEF Attended, Covers, workerVars, clientVars

\* A portal shown as synchronising has somebody who will end that, for any number of
\* portals, requests, fetch and apply workers, and for either way of delivery; the
\* exceptions are those that NoStuckMarker names.
THEOREM MarkersAreCleared == Spec => NoStuckMarker
<1> DEFINE Noticed == \A p \in Portals : Stuck(p)' => Stuck(p) \/ Restored(p) \/ Unrecovered
<1>1. SyncInv /\ MarkInv /\ [Next]_vars => [Noticed]_vars
  <2> SUFFICES ASSUME SyncInv, MarkInv, Next, NEW p \in Portals, Stuck(p)', ~Stuck(p), ~Restored(p),
                      ~Unrecovered
               PROVE  FALSE
    OBVIOUS
  <2>1. Shown(p)' /\ ~Attended(p)' /\ (Shown(p) => Attended(p))
    BY DEF Stuck, Shown
  <2>2. /\ \A c \in Clients : ~SyncBreaks(c)
        /\ \A w \in Workers : ~Crash(w) /\ ~ClearFails(w)
    BY DEF Unrecovered
  <2> QED BY <2>1, <2>2, RequestKeepsAttended, WorkKeepsAttended, ApplyKeepsAttended DEF Next
<1>2. Init => MarkInv
  BY MarkInit
<1>3. SyncInv /\ MarkInv /\ [Next]_vars => MarkInv'
  BY MarkStep
<1> QED BY <1>1, <1>2, <1>3, SyncInvariant, PTL DEF Spec, NoStuckMarker

=============================================================================
