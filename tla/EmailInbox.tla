----------------------------- MODULE EmailInbox -----------------------------
(***************************************************************************)
(* The email inbox: IMAP accounts are polled, new mails are stored as      *)
(* classified documents, and a mail is applied to the job it speaks of.    *)
(* A process is one running request or scheduler tick; it is cut at its    *)
(* awaits.  Several of them run at once: the tick, the Sync button, the    *)
(* ingest webhook, Apply and Ignore on a mail, an edit of the account.     *)
(* The classification of a mail is a constant here, as is what it names.   *)
(***************************************************************************)
EXTENDS Integers, FiniteSets, Sequences

CONSTANTS Account, Mail, Job, Process,
          FetchLimit,     \* mails taken by one synchronisation (limit=40)
          MaxDocs,        \* bound: documents stored
          MaxReminders,   \* bound: reminders of one mail
          MaxCalls,       \* bound: requests and ticks
          MailAccount,    \* [Mail -> Account]
          MailUid,        \* [Mail -> uid in the mailbox]
          Header,         \* [Mail -> its Message-ID header, or NoHeader]
          NoHeader,
          MailEvent,      \* [Mail -> EventType]
          Names,          \* [Mail -> jobs its company or title names]
          NoJob

(* a mail without the header is stored under "uid-<n>", in any account *)
MessageId == [m \in Mail |-> IF Header[m] = NoHeader THEN <<"uid", MailUid[m]>> ELSE <<"id", Header[m]>>]

EventType == {"interview", "offer", "rejection", "jd", "assessment", "update", "other"}
JobStatus == {"absent", "tracked", "applied", "interview", "offer", "rejected"}

ASSUME InboxAssumption ==
    /\ FetchLimit \in Nat \ {0} /\ MaxDocs \in Nat /\ MaxReminders \in Nat /\ MaxCalls \in Nat
    /\ NoJob \notin Job
    /\ MailAccount \in [Mail -> Account]
    /\ MailUid \in [Mail -> Nat \ {0}]
    \* the server numbers the mails of one mailbox
    /\ \A m, n \in Mail: MailAccount[m] = MailAccount[n] /\ MailUid[m] = MailUid[n] => m = n
    /\ MailEvent \in [Mail -> EventType]
    /\ Names \in [Mail -> SUBSET Job]

VARIABLES account,    \* stored accounts: live, last_uid, auto_apply
          delivered,  \* highest uid the mailbox holds
          inbound,    \* stored mails, in the order of their insertion
          job,        \* status of each job
          reminders,  \* reminders inserted for each mail
          req,        \* the running requests
          calls,      \* requests begun so far
          history     \* history: wish, what the user last asked of an account;
                      \* overlap, accounts edited during a synchronisation;
                      \* missed, mails a fetch left out; broken, mails whose
                      \* automatic application raised; setBy, the mail whose
                      \* synchronisation last set the status of a job

inboxVars == <<account, delivered, inbound, job, reminders, req, calls, history>>
mailStore == <<account, delivered, inbound, job, reminders, history>>

Doc == 1..Len(inbound)
Setting == {"on", "off", "deleted"}
InboxAccount == [live: BOOLEAN, last_uid: Nat, auto_apply: BOOLEAN]
PC == {"idle", "connect", "look", "insert", "load", "effect", "remind", "mark",
       "edit"}
Op == {"sync", "ingest", "hand", "edit"}

Idle(a) == [pc |-> "idle", op |-> "sync", acc |-> a,
            copy |-> [live |-> TRUE, last_uid |-> 0, auto_apply |-> FALSE],
            top |-> 0, todo |-> {}, doc |-> 0, job |-> NoJob,
            seen |-> "absent", raced |-> FALSE]

(***************************************************************************)
(* Helpers.                                                                *)
(***************************************************************************)
Known(id) == \E d \in Doc: MessageId[inbound[d].mail] = id

(* _match_job: a job is taken only when the mail names it well enough; of   *)
(* several equally good ones the order of their last update decides.       *)
MatchJob(m) == LET live == {j \in Names[m]: job[j] # "absent"}
               IN  IF live = {} THEN {NoJob} ELSE live

(* fetch_since_uid: the newest FetchLimit of the mails above the cursor *)
Newer(a, from) == {m \in Mail: MailAccount[m] = a /\ from < MailUid[m]
                                /\ MailUid[m] <= delivered[a]}
Window(a, from) ==
    {m \in Newer(a, from):
       Cardinality({n \in Newer(a, from): MailUid[n] >= MailUid[m]}) <= FetchLimit}

(* mutant: the newest first *)
FirstNewest(ms) == {m \in ms: \A n \in ms: MailUid[n] <= MailUid[m]}

(* the loop goes through the fetched mails in the order of their uids *)
First(ms) == {m \in ms: \A n \in ms: MailUid[m] <= MailUid[n]}

Call == calls < MaxCalls /\ calls' = calls + 1
Go(p, pc) == req' = [req EXCEPT ![p].pc = pc]
End(p) == req' = [req EXCEPT ![p] = Idle(req[p].acc)]
(* after a mail: a synchronisation goes on, the others are done *)
Onward(p, r) == IF r.op = "sync" THEN [r EXCEPT !.pc = "look"] ELSE Idle(r.acc)
(* the running synchronisations of an account; two of them race *)
Syncing(a) == {q \in Process: req[q].pc # "idle" /\ req[q].op = "sync" /\ req[q].acc = a}

(* acc.save(): replaces the stored account by the copy, and inserts it     *)
(* again when it was deleted meanwhile                                     *)
SaveAccount(a, rec) == account' = [account EXCEPT ![a] = rec]

(* what the user asks of an account, and whether a synchronisation that     *)
(* read it before is still running                                         *)
Asked(a, what) ==
    history' = [history EXCEPT
                  !.wish[a] = what,
                  !.overlap = IF Syncing(a) # {} THEN @ \union {a} ELSE @]

(***************************************************************************)
(* The mailbox and the user.                                               *)
(***************************************************************************)
Deliver(a) ==
    /\ \E m \in Mail: MailAccount[m] = a /\ MailUid[m] = delivered[a] + 1
    /\ delivered' = [delivered EXCEPT ![a] = @ + 1]
    /\ UNCHANGED <<account, inbound, job, reminders, req, calls, history>>

EditAccount(p, a) ==
    /\ Call /\ req[p].pc = "idle" /\ account[a].live
    /\ req' = [req EXCEPT ![p] = [Idle(a) EXCEPT !.pc = "edit", !.op = "edit",
                                                 !.copy = account[a]]]
    /\ UNCHANGED mailStore

(* mutant: a field of the payload that is false counts as missing *)
SaveEditTruthy(p) ==
    /\ req[p].pc = "edit"
    /\ \E on \in BOOLEAN:
         /\ account' = [account EXCEPT ![req[p].acc] =
                          [req[p].copy EXCEPT !.auto_apply = @ \/ on]]
         /\ Asked(req[p].acc, IF on THEN "on" ELSE "off")
    /\ End(p)
    /\ UNCHANGED <<delivered, inbound, job, reminders, calls>>

(* upsert_account: the payload's fields over the account that was read *)
SaveEdit(p) ==
    /\ req[p].pc = "edit"
    /\ \E on \in BOOLEAN:
         /\ account' = [account EXCEPT ![req[p].acc] =
                          [req[p].copy EXCEPT !.auto_apply = on]]
         /\ Asked(req[p].acc, IF on THEN "on" ELSE "off")
    /\ End(p)
    /\ UNCHANGED <<delivered, inbound, job, reminders, calls>>

DeleteAccount(a) ==
    /\ Call /\ account[a].live
    /\ account' = [account EXCEPT ![a].live = FALSE]
    /\ Asked(a, "deleted")
    /\ UNCHANGED <<delivered, inbound, job, reminders, req>>

IgnoreMessage(d) ==
    /\ Call /\ inbound[d].status # "ignored"
    /\ inbound' = [inbound EXCEPT ![d].status = "ignored"]
    /\ UNCHANGED <<account, delivered, job, reminders, req, history>>

(***************************************************************************)
(* sync_account, one step between two awaits.                              *)
(***************************************************************************)
StartSync(p, a) ==
    /\ Call /\ req[p].pc = "idle" /\ account[a].live
    /\ req' = [q \in Process |->
                 IF q = p THEN [Idle(a) EXCEPT !.pc = "connect", !.copy = account[a],
                                !.top = account[a].last_uid, !.raced = Syncing(a) # {}]
                 ELSE IF q \in Syncing(a) THEN [req[q] EXCEPT !.raced = TRUE]
                 ELSE req[q]]
    /\ UNCHANGED mailStore

(* _client_for reads the account again and finds it gone *)
ConnectNotFound(p) ==
    /\ req[p].pc = "connect" /\ ~account[req[p].acc].live
    /\ End(p)
    /\ UNCHANGED <<mailStore, calls>>

(* the server answers: a mail whose FETCH is not OK is left out silently *)
Fetch(p) ==
    LET r == req[p]
        newer == Newer(r.acc, r.copy.last_uid)
    IN  /\ r.pc = "connect" /\ account[r.acc].live
        /\ \E got \in SUBSET Window(r.acc, r.copy.last_uid):
             /\ req' = [req EXCEPT ![p].pc = "look", ![p].todo = got]
             /\ history' = [history EXCEPT !.missed = @ \union (newer \ got)]
        /\ UNCHANGED <<account, delivered, inbound, job, reminders, calls>>

(* the server is away: the error is saved with the copy, then raised *)
FetchFails(p) ==
    /\ req[p].pc = "connect" /\ account[req[p].acc].live
    /\ SaveAccount(req[p].acc, req[p].copy)
    /\ End(p)
    /\ UNCHANGED <<delivered, inbound, job, reminders, calls, history>>

(* mutant: the cursor alone keeps a mail from being stored again *)
LookAtNew(p) ==
    /\ req[p].pc = "look"
    /\ \E m \in First(req[p].todo):
         req' = [req EXCEPT ![p].top = IF @ < MailUid[m] THEN MailUid[m] ELSE @,
                            ![p].pc = "insert"]
    /\ UNCHANGED <<mailStore, calls>>

(* the head of the loop: a mail already stored is passed over *)
Look(p) ==
    /\ req[p].pc = "look"
    /\ \E m \in First(req[p].todo):
         LET r == [req[p] EXCEPT !.top = IF @ < MailUid[m] THEN MailUid[m] ELSE @]
         IN  req' = [req EXCEPT ![p] = IF Known(MessageId[m])
                                       THEN Onward(p, [r EXCEPT !.todo = @ \ {m}])
                                       ELSE [r EXCEPT !.pc = "insert"]]
    /\ UNCHANGED <<mailStore, calls>>

(* mutant: only a mail that was matched to a job is applied *)
InsertMatched(p) ==
    LET r == req[p]
    IN  /\ r.pc = "insert" /\ Len(inbound) < MaxDocs
        /\ \E m \in First(r.todo):
             LET next == [r EXCEPT !.todo = @ \ {m}, !.doc = Len(inbound) + 1]
             IN  \E j \in MatchJob(m):
                   /\ inbound' = Append(inbound, [mail |-> m, status |-> "pending", job |-> j,
                                                  by |-> p, auto |-> r.copy.auto_apply])
                   /\ req' = [req EXCEPT ![p] =
                                IF r.copy.auto_apply /\ MailEvent[m] # "other" /\ j # NoJob
                                THEN [next EXCEPT !.pc = "load"] ELSE Onward(p, next)]
        /\ UNCHANGED <<account, delivered, job, reminders, calls, history>>

(* classify, match and insert; then the automatic application *)
Insert(p) ==
    LET r == req[p]
    IN  /\ r.pc = "insert" /\ Len(inbound) < MaxDocs
        /\ \E m \in First(r.todo):
             LET next == [r EXCEPT !.todo = @ \ {m}, !.doc = Len(inbound) + 1]
             IN  /\ \E j \in MatchJob(m):
                      inbound' = Append(inbound, [mail |-> m, status |-> "pending", job |-> j,
                                                  by |-> p, auto |-> r.copy.auto_apply])
                 /\ req' = [req EXCEPT ![p] =
                              IF r.copy.auto_apply /\ MailEvent[m] # "other"
                              THEN [next EXCEPT !.pc = "load"] ELSE Onward(p, next)]
        /\ UNCHANGED <<account, delivered, job, reminders, calls, history>>

(* mutant: the cursor of the mailbox, with what arrived since the fetch *)
FinishSyncAtTop(p) ==
    /\ req[p].pc = "look" /\ req[p].todo = {}
    /\ SaveAccount(req[p].acc, [req[p].copy EXCEPT !.last_uid = delivered[req[p].acc]])
    /\ End(p)
    /\ UNCHANGED <<delivered, inbound, job, reminders, calls, history>>

(* the end of sync_account: cursor and all other fields from the copy *)
FinishSync(p) ==
    /\ req[p].pc = "look" /\ req[p].todo = {}
    /\ SaveAccount(req[p].acc, [req[p].copy EXCEPT !.last_uid = req[p].top])
    /\ End(p)
    /\ UNCHANGED <<delivered, inbound, job, reminders, calls, history>>

(***************************************************************************)
(* ingest_raw and apply_message.                                           *)
(***************************************************************************)
Ingest(p, m) ==
    /\ Call /\ req[p].pc = "idle"
    /\ \E auto \in BOOLEAN:
         req' = [req EXCEPT ![p] =
                   [Idle(MailAccount[m]) EXCEPT !.pc = "look", !.op = "ingest",
                      !.todo = {m}, !.copy.auto_apply = auto]]
    /\ UNCHANGED mailStore

ApplyByHand(p, d) ==
    /\ Call /\ req[p].pc = "idle"
    /\ req' = [req EXCEPT ![p] = [Idle(MailAccount[inbound[d].mail]) EXCEPT
                                    !.pc = "load", !.op = "hand", !.doc = d]]
    /\ UNCHANGED mailStore

(* the mail and its job are read; whether it was applied is not asked *)
LoadMessage(p) ==
    LET d == inbound[req[p].doc]
    IN  /\ req[p].pc = "load"
        /\ \E j \in IF d.job # NoJob THEN {d.job} ELSE MatchJob(d.mail):
             req' = [req EXCEPT ![p].pc = "effect", ![p].job = j,
                       ![p].seen = IF j = NoJob THEN "absent" ELSE job[j]]
        /\ UNCHANGED <<mailStore, calls>>

(* the status a mail of this kind gives to the job it speaks of; a job     *)
(* description replaces the text and saves the status that was read        *)
NewStatus(e, seen) == CASE e = "interview" -> "interview"
                        [] e = "offer"     -> "offer"
                        [] e = "rejection" -> "rejected"
                        [] e = "jd"        -> seen

SaveJob(p) ==
    LET r == req[p]
        e == MailEvent[inbound[r.doc].mail]
    IN  /\ r.pc = "effect" /\ r.job # NoJob
        /\ e \in {"interview", "offer", "rejection", "jd"}
        /\ job' = [job EXCEPT ![r.job] = NewStatus(e, r.seen)]
        /\ Go(p, IF e = "interview" THEN "remind" ELSE "mark")
        /\ history' = [history EXCEPT !.setBy[r.job] =
                         IF e = "jd" THEN @
                         ELSE IF r.op = "sync" THEN {inbound[r.doc].mail} ELSE {}]
        /\ UNCHANGED <<account, delivered, inbound, reminders, calls>>

(* a job description without a job becomes a new, tracked job *)
CreateJob(p) ==
    /\ req[p].pc = "effect" /\ req[p].job = NoJob
    /\ MailEvent[inbound[req[p].doc].mail] = "jd"
    /\ \E j \in Job:
         /\ job[j] = "absent"
         /\ job' = [job EXCEPT ![j] = "tracked"]
         /\ req' = [req EXCEPT ![p].pc = "mark", ![p].job = j]
    /\ UNCHANGED <<account, delivered, inbound, reminders, calls, history>>

(* nothing to save on a job: only the reminder or a note, or a description *)
(* without a text or a title                                               *)
SkipJob(p) ==
    LET e == MailEvent[inbound[req[p].doc].mail]
    IN  /\ req[p].pc = "effect"
        /\ \/ e \in {"assessment", "update", "other", "jd"}
           \/ req[p].job = NoJob /\ e \in {"interview", "offer", "rejection"}
        /\ Go(p, IF e \in {"interview", "assessment"} THEN "remind" ELSE "mark")
        /\ UNCHANGED <<mailStore, calls>>

Remind(p) ==
    LET m == inbound[req[p].doc].mail
    IN  /\ req[p].pc = "remind" /\ reminders[m] < MaxReminders
        /\ reminders' = [reminders EXCEPT ![m] = @ + 1]
        /\ Go(p, "mark")
        /\ UNCHANGED <<account, delivered, inbound, job, calls, history>>

(* msg.save(): applied, whatever became of the mail meanwhile *)
MarkApplied(p) ==
    /\ req[p].pc = "mark"
    /\ inbound' = [inbound EXCEPT ![req[p].doc].status = "applied",
                                  ![req[p].doc].job = req[p].job]
    /\ req' = [req EXCEPT ![p] = Onward(p, @)]
    /\ UNCHANGED <<account, delivered, job, reminders, calls, history>>

(* a database call raises, or the process dies: the rest does not happen *)
Break(p) ==
    /\ req[p].pc # "idle"
    /\ history' = IF req[p].pc \in {"load", "effect", "remind", "mark"} /\ req[p].op # "hand"
                  THEN [history EXCEPT !.broken = @ \union {inbound[req[p].doc].mail}]
                  ELSE history
    /\ End(p)
    /\ UNCHANGED <<account, delivered, inbound, job, reminders, calls>>

(***************************************************************************)
(* The specification.                                                      *)
(***************************************************************************)
InboxInit ==
    /\ account \in [Account -> {[live |-> TRUE, last_uid |-> 0, auto_apply |-> on]:
                                  on \in BOOLEAN}]
    /\ delivered = [a \in Account |-> 0]
    /\ inbound = <<>>
    /\ job \in [Job -> {"absent", "applied"}]
    /\ reminders = [m \in Mail |-> 0]
    /\ req \in [Process -> {Idle(a): a \in Account}] /\ calls = 0
    /\ history = [wish |-> [a \in Account |-> IF account[a].auto_apply THEN "on" ELSE "off"],
                  overlap |-> {}, missed |-> {}, broken |-> {},
                  setBy |-> [j \in Job |-> {}]]

InboxNext ==
    \/ \E a \in Account: Deliver(a) \/ DeleteAccount(a)
    \/ \E d \in Doc: IgnoreMessage(d)
    \/ \E p \in Process:
         \/ \E a \in Account: StartSync(p, a) \/ EditAccount(p, a)
         \/ \E m \in Mail: Ingest(p, m)
         \/ \E d \in Doc: ApplyByHand(p, d)
         \/ SaveEdit(p) \/ ConnectNotFound(p) \/ Fetch(p) \/ FetchFails(p)
         \/ Look(p) \/ Insert(p) \/ FinishSync(p) \/ LoadMessage(p)
         \/ SaveJob(p) \/ CreateJob(p) \/ SkipJob(p) \/ Remind(p) \/ MarkApplied(p) \/ Break(p)

InboxSpec == InboxInit /\ [][InboxNext]_inboxVars

(***************************************************************************)
(* Properties.                                                             *)
(***************************************************************************)
(* Documents, accounts, jobs and locals keep their types; in particular a  *)
(* request that works on a stored mail holds a document that exists.       *)
InboxTypes ==
    /\ account \in [Account -> InboxAccount]
    /\ delivered \in [Account -> Nat]
    /\ \A d \in Doc: inbound[d] \in [mail: Mail, status: {"pending", "applied", "ignored"},
                                     job: Job \union {NoJob}, by: Process, auto: BOOLEAN]
    /\ job \in [Job -> JobStatus]
    /\ reminders \in [Mail -> 0..MaxReminders] /\ calls \in Nat
    /\ req \in [Process ->
                 [pc: PC, op: Op, acc: Account, copy: InboxAccount, top: Nat,
                  todo: SUBSET Mail, doc: Nat, job: Job \union {NoJob},
                  seen: JobStatus, raced: BOOLEAN]]
    /\ \A p \in Process: req[p].pc \in {"load", "effect", "remind", "mark"} => req[p].doc \in Doc

(* The stored cursor of an account never passes a mail that is not stored, *)
(* whatever raises, is deleted, edited or runs at the same time, unless a   *)
(* fetch itself had left that mail out (its window, or a FETCH not OK), or  *)
(* it has no Message-ID and one of its uid is stored for another account.   *)
CursorPassesStoredMail ==
    \A a \in Account, m \in Mail:
      MailAccount[m] = a /\ MailUid[m] <= account[a].last_uid
        => Known(MessageId[m]) \/ m \in history.missed

(* A mail is stored, and so applied automatically, at most once for every   *)
(* request that can run at the same time: nothing but overlapping requests *)
(* gets past the look-up of its Message-ID.                                 *)
StoredOncePerRequest ==
    \A c, d \in Doc: c # d /\ MessageId[inbound[c].mail] = MessageId[inbound[d].mail]
                     => inbound[c].by # inbound[d].by

(* A synchronisation puts a job back to the status of an older mail of the  *)
(* same account only when another one of that account ran beside it, or     *)
(* when an earlier fetch had left the older mail out.                       *)
OlderMailYields ==
    [][\A p \in Process:
         (SaveJob(p) /\ req[p].op = "sync" /\ MailEvent[inbound[req[p].doc].mail] # "jd")
           => LET m == inbound[req[p].doc].mail IN
              \A n \in history.setBy[req[p].job]:
                (MailAccount[n] = MailAccount[m] /\ MailUid[m] < MailUid[n])
                  => req[p].raced \/ m \in history.missed]_inboxVars

(* A mail that was to be applied automatically and is still pending is in   *)
(* the hands of the request that stored it, or that request raised.         *)
PendingIsHeld ==
    \A d \in Doc:
      (inbound[d].status = "pending" /\ inbound[d].auto /\ MailEvent[inbound[d].mail] # "other")
        => \/ inbound[d].mail \in history.broken
           \/ LET r == req[inbound[d].by]
              IN  r.doc = d /\ r.pc \in {"load", "effect", "remind", "mark"}

(* What the user last asked of an account (automatic, by hand, deleted) is  *)
(* what is stored, unless a synchronisation was running when it was asked.  *)
UserSettingWins ==
    \A a \in Account: a \in history.overlap
      \/ history.wish[a] = IF ~account[a].live THEN "deleted"
                           ELSE IF account[a].auto_apply THEN "on" ELSE "off"
=============================================================================
