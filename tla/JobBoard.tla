------------------------------ MODULE JobBoard ------------------------------
(***************************************************************************)
(* The job board: jobs in pipeline columns, moved and patched by requests, *)
(* listed through a cache, while workers and mails save statuses of their  *)
(* own.  A request is cut at its awaits and saves the whole document it    *)
(* read.  A job may have several applications, and several of them may be  *)
(* active: retry() looks at no status, and a worker saves an old copy.     *)
(* A list is represented by the version of the board it was loaded at: the *)
(* number of saves that came before.                                       *)
(***************************************************************************)
EXTENDS Integers, FiniteSets

CONSTANTS BoardJob, BoardRequest,
          Patchable,      \* bound: statuses patched (any in the code)
          MoveColumns,    \* bound: columns moved to (any in the code)
          WrittenStatus,  \* bound: statuses workers and mails save
          MaxSaves,       \* bound: saves of jobs
          BoardApp,       \* bound: applications of one job
          NoBoardApp

VARIABLES boardJob,    \* status of each job
          boardApp,    \* "none", "active" or "ended": each application of a job
          boardSaves,  \* number of saves so far, the version of the board
          boardCache,  \* version of the cached list, or NoList
          boardReq,    \* the running requests
          boardSeen    \* history: announced, the newest save followed by an
                       \* invalidation; late, a list was stored after it

boardVars == <<boardJob, boardApp, boardSaves, boardCache, boardReq, boardSeen>>

NoList == -1

(***************************************************************************)
(* The columns (pipeline.py).                                              *)
(***************************************************************************)
Columns == [fetched     |-> {"new", "matched", "awaiting_approval", "tracked", "failed"},
            queued      |-> {"approved", "applying"},
            applied     |-> {"applied"},
            interview   |-> {"interview"},
            shortlisted |-> {"shortlisted", "offer"}]
Hidden == {"rejected", "ignored", "duplicate"}
BoardStatus == Hidden \union UNION {Columns[c]: c \in DOMAIN Columns}

ColumnFor(status) == {c \in DOMAIN Columns: status \in Columns[c]}

(* what a move writes; a job taken back is matched or new by its score *)
TargetFor(column) ==
    CASE column = "fetched"     -> {"matched", "new"}
      [] column = "queued"      -> {"applying"}
      [] column = "applied"     -> {"applied"}
      [] column = "interview"   -> {"interview"}
      [] column = "shortlisted" -> {"shortlisted"}

ShouldQueueApply(from, to) == to = "queued" /\ "queued" \notin from

ASSUME BoardAssumption == /\ Patchable \subseteq BoardStatus
                          /\ MoveColumns \subseteq DOMAIN Columns
                          /\ WrittenStatus \subseteq BoardStatus
                          /\ MaxSaves \in Nat
                          /\ BoardJob # {} /\ BoardApp # {} /\ NoBoardApp \notin BoardApp

(***************************************************************************)
(* Helpers.                                                                *)
(***************************************************************************)
BoardPC == {"idle", "load", "fill", "cancel", "cancelGet", "cancelSave", "cancelJob", "approve",
            "queue", "queueJob", "requeue", "view", "touch", "read", "save", "drop", "delete"}
BoardRecord == [pc: BoardPC, op: {"list", "move", "mark", "patch", "get"}, job: BoardJob,
                column: DOMAIN Columns, to: SUBSET BoardStatus, copy: BoardStatus,
                at: Nat, app: BoardApp \union {NoBoardApp}, left: SUBSET BoardApp]

Fresh(op, j) == [pc |-> "idle", op |-> op, job |-> j, column |-> "fetched", to |-> {},
                 copy |-> "new", at |-> 0, app |-> NoBoardApp, left |-> {}]

(* after its save a request invalidates the list: a get and a patch do not *)
AfterSave(r) == IF r.op \in {"get", "patch"} THEN Fresh("list", r.job) ELSE [r EXCEPT !.pc = "drop"]
BoardEnd(p) == boardReq' = [boardReq EXCEPT ![p] = Fresh("list", @.job)]
BoardGo(p, pc) == boardReq' = [boardReq EXCEPT ![p].pc = pc]

Write(j, status, requests) ==
    /\ boardSaves < MaxSaves
    /\ boardJob' = [boardJob EXCEPT ![j] = status]
    /\ boardSaves' = boardSaves + 1
    /\ boardReq' = requests

(* what find_active_for_job may find *)
ActiveApps(j) == {a \in BoardApp: boardApp[j][a] = "active"}

(* a move back to "fetched" that has looked for the application to cancel *)
TakesBack(r) == r.op = "move" /\ r.column = "fetched" /\ r.pc \notin {"idle", "cancel", "drop", "delete"}

(* An application that was not active becomes so.  History: left holds the *)
(* applications a move back did not look up, or that became active since.  *)
Activate(j, a, requests) ==
    /\ boardApp' = [boardApp EXCEPT ![j][a] = "active"]
    /\ boardReq' = [q \in BoardRequest |->
                      IF TakesBack(requests[q]) /\ requests[q].job = j
                      THEN [requests[q] EXCEPT !.left = @ \union {a}] ELSE requests[q]]

Stays == UNCHANGED <<boardCache, boardSeen>>

(***************************************************************************)
(* list_jobs: cache aside.                                                 *)
(***************************************************************************)
ListMisses(p) ==
    /\ boardReq[p].pc = "idle" /\ boardCache = NoList
    /\ boardReq' = [boardReq EXCEPT ![p] = [Fresh("list", @.job) EXCEPT !.pc = "load"]]
    /\ UNCHANGED <<boardJob, boardApp, boardSaves, boardCache, boardSeen>>

ListLoads(p) ==
    /\ boardReq[p].pc = "load"
    /\ boardReq' = [boardReq EXCEPT ![p].pc = "fill", ![p].at = boardSaves]
    /\ UNCHANGED <<boardJob, boardApp, boardSaves, boardCache, boardSeen>>

ListFills(p) ==
    /\ boardReq[p].pc = "fill"
    /\ boardCache' = boardReq[p].at
    /\ boardSeen' = [boardSeen EXCEPT !.late = boardReq[p].at < boardSeen.announced]
    /\ BoardEnd(p)
    /\ UNCHANGED <<boardJob, boardApp, boardSaves>>

(* Redis is away: the list is loaded again and stored nowhere *)
ListNotStored(p) ==
    /\ boardReq[p].pc = "fill"
    /\ BoardEnd(p)
    /\ UNCHANGED <<boardJob, boardApp, boardSaves, boardCache, boardSeen>>

CacheExpires ==
    /\ boardCache # NoList
    /\ boardCache' = NoList
    /\ UNCHANGED <<boardJob, boardApp, boardSaves, boardReq, boardSeen>>

(***************************************************************************)
(* move_to_column, update, track, ignore and get.                          *)
(***************************************************************************)
Move(p, j, column) ==
    LET from == ColumnFor(boardJob[j])
    IN  /\ boardReq[p].pc = "idle" /\ column \notin from
        /\ boardReq' = [boardReq EXCEPT ![p] =
             [Fresh("move", j) EXCEPT !.column = column, !.to = TargetFor(column),
                !.pc = CASE ShouldQueueApply(from, column) -> "queue"
                         [] column = "fetched" -> "cancel"
                         [] OTHER -> "read"]]
        /\ UNCHANGED <<boardJob, boardApp, boardSaves>> /\ Stays

(* ApplicationService.queue: an active application is found and its copy    *)
(* saved again, or one is created; its job becomes applying in between.    *)
Queue(p) ==
    LET r == boardReq[p]
    IN  /\ r.pc = "queue"
        /\ \/ /\ \E a \in ActiveApps(r.job):
                   boardReq' = [boardReq EXCEPT
                                  ![p].app = a,
                                  ![p].pc = IF boardJob[r.job] = "applying" THEN "requeue" ELSE "queueJob"]
              /\ UNCHANGED boardApp
           \/ /\ ActiveApps(r.job) = {}
              /\ \E a \in BoardApp:
                   /\ boardApp[r.job][a] = "none"
                   /\ Activate(r.job, a, [boardReq EXCEPT ![p].pc = "queueJob"])
        /\ UNCHANGED <<boardJob, boardSaves>> /\ Stays

QueueJob(p) ==
    LET r == boardReq[p]
    IN  /\ r.pc = "queueJob"
        /\ Write(r.job, "applying", [boardReq EXCEPT ![p].pc = "requeue", ![p].at = boardSaves + 1])
        /\ UNCHANGED boardApp /\ Stays

(* the copy of an application that was found is saved as active, whatever  *)
(* became of it; the publish that follows may raise, which ends the move   *)
Requeue(p) ==
    LET r == boardReq[p]
    IN  /\ r.pc = "requeue"
        /\ \E next \in {[r EXCEPT !.pc = "view", !.app = NoBoardApp], Fresh("list", r.job)}:
             IF r.app \in BoardApp \ ActiveApps(r.job)
             THEN Activate(r.job, r.app, [boardReq EXCEPT ![p] = next])
             ELSE boardReq' = [boardReq EXCEPT ![p] = next] /\ UNCHANGED boardApp
        /\ UNCHANGED <<boardJob, boardSaves>> /\ Stays

(* mutant: a job whose status is no longer applying has nothing to cancel *)
FindActiveOfApplying(p) ==
    LET r == boardReq[p]
        active == ActiveApps(r.job)
    IN  /\ r.pc = "cancel"
        /\ IF active = {} \/ boardJob[r.job] # "applying"
           THEN BoardGo(p, "read")
           ELSE \E a \in active:
                  boardReq' = [boardReq EXCEPT ![p].pc = "cancelGet", ![p].app = a,
                                               ![p].left = active \ {a}]
        /\ UNCHANGED <<boardJob, boardApp, boardSaves>> /\ Stays

(* cancel_active_for_job: find_one returns one of the active applications *)
FindActive(p) ==
    LET r == boardReq[p]
        active == ActiveApps(r.job)
    IN  /\ r.pc = "cancel"
        /\ IF active = {}
           THEN BoardGo(p, "read")
           ELSE \E a \in active:
                  boardReq' = [boardReq EXCEPT ![p].pc = "cancelGet", ![p].app = a,
                                               ![p].left = active \ {a}]
        /\ UNCHANGED <<boardJob, boardApp, boardSaves>> /\ Stays

(* cancel() reads it again: one that ended meanwhile raises NotFoundError, *)
(* and the move ends there                                                 *)
CancelGet(p) ==
    LET r == boardReq[p]
    IN  /\ r.pc = "cancelGet"
        /\ IF r.app \in ActiveApps(r.job) THEN BoardGo(p, "cancelSave") ELSE BoardEnd(p)
        /\ UNCHANGED <<boardJob, boardApp, boardSaves>> /\ Stays

CancelSave(p) ==
    LET r == boardReq[p]
    IN  /\ r.pc = "cancelSave"
        /\ boardApp' = [boardApp EXCEPT ![r.job][r.app] = "ended"]
        /\ boardReq' = [boardReq EXCEPT ![p].pc = "cancelJob", ![p].left = @ \ {r.app},
                                        ![p].app = NoBoardApp]
        /\ UNCHANGED <<boardJob, boardSaves>> /\ Stays

CancelJob(p) ==
    /\ boardReq[p].pc = "cancelJob"
    /\ BoardGo(p, IF boardJob[boardReq[p].job] = "applying" THEN "approve" ELSE "read")
    /\ UNCHANGED <<boardJob, boardApp, boardSaves>> /\ Stays

Approve(p) ==
    /\ boardReq[p].pc = "approve"
    /\ Write(boardReq[p].job, "approved", [boardReq EXCEPT ![p].pc = "read"])
    /\ UNCHANGED boardApp /\ Stays

(* a track, an ignore or a patch begins with the read of update() *)
Mark(p, j) ==
    /\ boardReq[p].pc = "idle"
    /\ \E to \in {"tracked", "ignored"}:
         boardReq' = [boardReq EXCEPT ![p] =
                        [Fresh("mark", j) EXCEPT !.pc = "read", !.to = {to}]]
    /\ UNCHANGED <<boardJob, boardApp, boardSaves>> /\ Stays

Patch(p, j) ==
    /\ boardReq[p].pc = "idle"
    /\ \E to \in Patchable:
         boardReq' = [boardReq EXCEPT ![p] =
                        [Fresh("patch", j) EXCEPT !.pc = "read", !.to = {to}]]
    /\ UNCHANGED <<boardJob, boardApp, boardSaves>> /\ Stays

Get(p, j) ==
    /\ boardReq[p].pc = "idle"
    /\ boardReq' = [boardReq EXCEPT ![p] = [Fresh("get", j) EXCEPT !.pc = "view"]]
    /\ UNCHANGED <<boardJob, boardApp, boardSaves>> /\ Stays

(* get(): a job without a link is saved again with the link it was found *)
View(p) ==
    /\ boardReq[p].pc = "view"
    /\ \/ boardReq' = [boardReq EXCEPT ![p] = AfterSave(@)]
       \/ boardReq' = [boardReq EXCEPT ![p].pc = "touch",
                                       ![p].copy = boardJob[boardReq[p].job]]
    /\ UNCHANGED <<boardJob, boardApp, boardSaves>> /\ Stays

Touch(p) ==
    LET r == boardReq[p]
    IN  /\ r.pc = "touch"
        /\ Write(r.job, r.copy, [boardReq EXCEPT ![p] = AfterSave(r)])
        /\ UNCHANGED boardApp /\ Stays

Read(p) ==
    /\ boardReq[p].pc = "read"
    /\ BoardGo(p, "save")
    /\ UNCHANGED <<boardJob, boardApp, boardSaves>> /\ Stays

(* a patch is not followed by an invalidation *)
Save(p) ==
    LET r == boardReq[p]
    IN  /\ r.pc = "save"
        /\ \E status \in r.to:
             Write(r.job, status,
                   [boardReq EXCEPT ![p] = AfterSave([r EXCEPT !.at = boardSaves + 1])])
        /\ UNCHANGED boardApp /\ Stays

(* invalidate_namespace: SCAN for the keys, then DEL of those it returned; *)
(* a list stored after the SCAN has passed its place stays                 *)
Invalidated(p) ==
    /\ boardSeen' = [announced |-> IF boardSeen.announced < boardReq[p].at
                                   THEN boardReq[p].at ELSE boardSeen.announced,
                     late |-> FALSE]
    /\ BoardEnd(p)

(* mutant: the keys of another filter are looked for *)
ScanOther(p) ==
    /\ boardReq[p].pc = "drop"
    /\ Invalidated(p)
    /\ UNCHANGED <<boardJob, boardApp, boardSaves, boardCache>>

Scan(p) ==
    /\ boardReq[p].pc = "drop"
    /\ IF boardCache = NoList THEN Invalidated(p)
                              ELSE BoardGo(p, "delete") /\ UNCHANGED boardSeen
    /\ UNCHANGED <<boardJob, boardApp, boardSaves, boardCache>>

Delete(p) ==
    /\ boardReq[p].pc = "delete"
    /\ boardCache' = NoList
    /\ Invalidated(p)
    /\ UNCHANGED <<boardJob, boardApp, boardSaves>>

(* the failure is swallowed, and the list stays *)
InvalidateFails(p) ==
    /\ boardReq[p].pc \in {"drop", "delete"}
    /\ BoardEnd(p)
    /\ UNCHANGED <<boardJob, boardApp, boardSaves>> /\ Stays

(***************************************************************************)
(* The workers, the mails and the other requests, which invalidate nothing *)
(* and save a job and an application apart.                                *)
(***************************************************************************)
JobWritten(j) ==
    /\ \E status \in WrittenStatus: Write(j, status, boardReq)
    /\ UNCHANGED boardApp /\ Stays

(* An application is created, retried, resumed or started, or the copy a   *)
(* worker read before is saved while it runs; or it fails, is submitted or *)
(* cancelled.                                                              *)
AppWritten(j, a) ==
    /\ \/ a \notin ActiveApps(j) /\ Activate(j, a, boardReq)
       \/ /\ a \in ActiveApps(j)
          /\ boardApp' = [boardApp EXCEPT ![j][a] = "ended"]
          /\ UNCHANGED boardReq
    /\ UNCHANGED <<boardJob, boardSaves>> /\ Stays

(***************************************************************************)
(* The specification; safety only: no step is certain to come.             *)
(***************************************************************************)
BoardInit ==
    /\ boardJob \in [BoardJob -> {"new", "applying"}]
    /\ \E first \in BoardApp:
         boardApp = [j \in BoardJob |-> [a \in BoardApp |->
                       IF boardJob[j] = "applying" /\ a = first THEN "active" ELSE "none"]]
    /\ boardSaves = 0 /\ boardCache = NoList
    /\ \E j \in BoardJob: boardReq = [p \in BoardRequest |-> Fresh("list", j)]
    /\ boardSeen = [announced |-> 0, late |-> FALSE]

BoardNext ==
    \/ CacheExpires
    \/ \E j \in BoardJob: JobWritten(j) \/ \E a \in BoardApp: AppWritten(j, a)
    \/ \E p \in BoardRequest:
         \/ ListMisses(p) \/ ListLoads(p) \/ ListFills(p) \/ ListNotStored(p)
         \/ \E j \in BoardJob:
              \/ \E column \in MoveColumns: Move(p, j, column)
              \/ Mark(p, j) \/ Patch(p, j) \/ Get(p, j)
         \/ Queue(p) \/ QueueJob(p) \/ Requeue(p)
         \/ FindActive(p) \/ CancelGet(p) \/ CancelSave(p) \/ CancelJob(p) \/ Approve(p)
         \/ View(p) \/ Touch(p) \/ Read(p) \/ Save(p)
         \/ Scan(p) \/ Delete(p) \/ InvalidateFails(p)

BoardSpec == BoardInit /\ [][BoardNext]_boardVars

(***************************************************************************)
(* Properties.                                                             *)
(***************************************************************************)
(* Jobs, cache and requests keep their types; a request that saves has a   *)
(* status to write.                                                        *)
BoardTypes ==
    /\ boardJob \in [BoardJob -> BoardStatus]
    /\ boardApp \in [BoardJob -> [BoardApp -> {"none", "active", "ended"}]]
    /\ boardSaves \in 0..MaxSaves /\ boardCache \in {NoList} \union 0..boardSaves
    /\ boardReq \in [BoardRequest -> BoardRecord]
    /\ \A p \in BoardRequest: boardReq[p].pc = "save" => boardReq[p].to # {}
    /\ boardSeen \in [announced: 0..boardSaves, late: BOOLEAN]

(* The cached list shows every move, track and ignore whose request has    *)
(* invalidated it, unless a list loaded before was stored after that.      *)
ListShowsMoves == boardCache = NoList \/ boardCache >= boardSeen.announced \/ boardSeen.late

(* When a move back to "fetched" saves its status, the application that its *)
(* look-up found is not active, and of the others of the job only those    *)
(* are that were active beside it (a failed one retried after another was  *)
(* queued: only one is cancelled) or became so since the look-up (queued,  *)
(* retried, resumed, started, or saved by a worker from an older copy).    *)
TakenBackIsCancelled ==
    [][\A p \in BoardRequest:
         (Save(p) /\ TakesBack(boardReq[p]))
           => ActiveApps(boardReq[p].job) \subseteq boardReq[p].left]_boardVars
=============================================================================
